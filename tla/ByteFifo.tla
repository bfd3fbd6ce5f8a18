------------------------------ MODULE ByteFifo ------------------------------
(***************************************************************************)
(* What a byte buffer of this library promises its callers, whatever its   *)
(* representation: a bounded queue of bytes with single-byte calls and     *)
(* array calls that take effect at once.  RingBufferExt implements it.     *)
(***************************************************************************)
EXTENDS Integers, Sequences

CONSTANTS
  Byte,      \* the byte values that are stored
  Capacity,  \* how many bytes fit
  MaxArray   \* bound: the longest array passed in one call

VARIABLES
  queue,     \* the bytes held, oldest first
  ret        \* what the last completed call returned

fifoVars == <<queue, ret>>

(* The value peek() and read() return when there is nothing to return. *)
NoByte == -1

(* A call returns a number, and an array read fills the caller's array too. *)
Value(v) == [val |-> v, str |-> <<>>]
Array(s) == [val |-> Len(s), str |-> s]

Arrays == UNION {[1..n -> Byte] : n \in 0..MaxArray}

Prefix(s, n) == SubSeq(s, 1, n)
Suffix(s, n) == SubSeq(s, n + 1, Len(s))

(***************************************************************************)
(* An array read of at most n bytes delivers TextLength(q, n) bytes: it    *)
(* stops at the end of the queue or at a zero byte, and a zero byte it     *)
(* stops at is removed without being delivered.                            *)
(***************************************************************************)
TextLength(q, n) ==
  CHOOSE k \in 0..n :
    /\ k <= Len(q)
    /\ \A i \in 1..k : q[i] # 0
    /\ \/ k = n
       \/ k = Len(q)
       \/ q[k + 1] = 0

StopsAtZero(q, n) ==
  LET k == TextLength(q, n) IN k < n /\ k < Len(q)

Removed(q, n) == TextLength(q, n) + (IF StopsAtZero(q, n) THEN 1 ELSE 0)

Fitting(q, a) == IF Len(a) <= Capacity - Len(q) THEN Len(a) ELSE Capacity - Len(q)
-----------------------------------------------------------------------------
Put(c) ==
  \/ /\ Len(queue) < Capacity
     /\ queue' = Append(queue, c)
     /\ ret' = Value(1)
  \/ /\ Len(queue) = Capacity
     /\ ret' = Value(0)
     /\ UNCHANGED queue

Get ==
  \/ /\ queue # <<>>
     /\ ret' = Value(Head(queue))
     /\ queue' = Tail(queue)
  \/ /\ queue = <<>>
     /\ ret' = Value(NoByte)
     /\ UNCHANGED queue

Peek ==
  /\ ret' = Value(IF queue = <<>> THEN NoByte ELSE Head(queue))
  /\ UNCHANGED queue

PutArray(a) ==
  /\ queue' = queue \o Prefix(a, Fitting(queue, a))
  /\ ret' = Value(Fitting(queue, a))

GetArray(n) ==
  /\ queue' = Suffix(queue, Removed(queue, n))
  /\ ret' = Array(Prefix(queue, TextLength(queue, n)))

Init ==
  /\ queue = <<>>
  /\ ret = Value(NoByte)

Next ==
  \/ \E c \in Byte : Put(c)
  \/ Get
  \/ Peek
  \/ \E a \in Arrays : PutArray(a)
  \/ \E n \in 0..MaxArray : GetArray(n)

Spec == Init /\ [][Next]_fifoVars
=============================================================================
