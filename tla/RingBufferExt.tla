---------------------------- MODULE RingBufferExt ----------------------------
(***************************************************************************)
(* The ring buffer below the sockets, the UDP endpoint and the remote      *)
(* serial port (cores/arduino/RingBufferExt.h).  The array calls loop over *)
(* the single-byte calls; an iteration of such a loop is a step here, and  *)
(* `call' is the state of the loop.                                        *)
(***************************************************************************)
EXTENDS Integers, Sequences

CONSTANTS
  Byte,      \* byte values in use, a subset of 0..255 (the buffer is unsigned)
  max_len,   \* the size given to the constructor
  MaxArray   \* bound: the longest array passed in one call

ASSUME ByteAssumption == Byte \subseteq 0..255 /\ Byte # {}
ASSUME SizeAssumption == max_len \in Nat \ {0}
ASSUME ArrayAssumption == MaxArray \in Nat

VARIABLES
  buffer, actual_len, actual_read_pos, actual_write_pos,
  call,      \* the array call in progress, or Idle
  ret        \* what the last completed call returned

ring == <<buffer, actual_len, actual_read_pos, actual_write_pos>>
vars == <<buffer, actual_len, actual_read_pos, actual_write_pos, call, ret>>

NoByte == -1
Slot == 0..max_len - 1
Arrays == UNION {[1..n -> Byte] : n \in 0..MaxArray}

(* The loop state: read(str, len) has stored call.str so far and wants     *)
(* call.len bytes; write(str, len) has stored call.done bytes of call.str. *)
Idle == [op |-> "idle", len |-> 0, done |-> 0, str |-> <<>>]
Reading(n) == [op |-> "read", len |-> n, done |-> 0, str |-> <<>>]
Writing(s) == [op |-> "write", len |-> Len(s), done |-> 0, str |-> s]

Value(v) == [val |-> v, str |-> <<>>]
Array(s) == [val |-> Len(s), str |-> s]
-----------------------------------------------------------------------------
available == actual_len
availableToWrite == max_len - actual_len

(* Mutation of `peeked': the vector holds signed characters. *)
peekedSigned ==
  IF actual_len = 0 THEN NoByte
  ELSE IF buffer[actual_read_pos] > 127 THEN buffer[actual_read_pos] - 256
  ELSE buffer[actual_read_pos]

(* peek(): the oldest byte, or -1. *)
peeked == IF actual_len > 0 THEN buffer[actual_read_pos] ELSE NoByte

Wrap(pos) == IF pos >= max_len THEN 0 ELSE pos

(* Mutation of ReadByte: the position moves outside the test. *)
ReadByteUntested ==
  /\ actual_read_pos' = Wrap(actual_read_pos + 1)
  /\ actual_len' = IF peeked > -1 THEN actual_len - 1 ELSE actual_len
  /\ UNCHANGED <<buffer, actual_write_pos>>

(* read(): hands out the oldest byte and moves the read position past it. *)
ReadByte ==
  /\ IF peeked > -1
     THEN /\ actual_read_pos' = Wrap(actual_read_pos + 1)
          /\ actual_len' = actual_len - 1
     ELSE /\ actual_read_pos' = Wrap(actual_read_pos)
          /\ UNCHANGED actual_len
  /\ UNCHANGED <<buffer, actual_write_pos>>

(* write(ch) when there is room, and when there is none. *)
WriteByte(ch) ==
  /\ actual_len < max_len
  /\ buffer' = [buffer EXCEPT ![actual_write_pos] = ch]
  /\ actual_write_pos' = Wrap(actual_write_pos + 1)
  /\ actual_len' = actual_len + 1
  /\ UNCHANGED actual_read_pos

Full == ~(actual_len < max_len)
-----------------------------------------------------------------------------
Init ==
  /\ buffer = [i \in Slot |-> 0]
  /\ actual_len = 0
  /\ actual_read_pos = 0
  /\ actual_write_pos = 0
  /\ call = Idle
  /\ ret = Value(NoByte)

Read ==
  /\ call = Idle
  /\ ReadByte
  /\ ret' = Value(peeked)
  /\ UNCHANGED call

Peek ==
  /\ call = Idle
  /\ ret' = Value(peeked)
  /\ UNCHANGED <<ring, call>>

Write(ch) ==
  /\ call = Idle
  /\ \/ WriteByte(ch) /\ ret' = Value(1)
     \/ Full /\ ret' = Value(0) /\ UNCHANGED ring
  /\ UNCHANGED call

(* read(str, len) *)
CallRead(n) ==
  /\ call = Idle
  /\ call' = Reading(n)
  /\ UNCHANGED <<ring, ret>>

ReadNext ==
  /\ call.op = "read"
  /\ Len(call.str) < call.len
  /\ ReadByte
  /\ IF peeked <= 0
     THEN call' = Idle /\ ret' = Array(call.str)
     ELSE /\ call' = [call EXCEPT !.str = Append(@, peeked)]
          /\ UNCHANGED ret

ReadDone ==
  /\ call.op = "read"
  /\ Len(call.str) = call.len
  /\ ret' = Array(call.str)
  /\ call' = Idle
  /\ UNCHANGED ring

(* write(str, len) *)
CallWrite(s) ==
  /\ call = Idle
  /\ call' = Writing(s)
  /\ UNCHANGED <<ring, ret>>

WriteNext ==
  /\ call.op = "write"
  /\ call.done < call.len
  /\ \/ /\ WriteByte(call.str[call.done + 1])
        /\ call' = [call EXCEPT !.done = @ + 1]
        /\ UNCHANGED ret
     \/ /\ Full
        /\ ret' = Value(call.done)
        /\ call' = Idle
        /\ UNCHANGED ring

WriteDone ==
  /\ call.op = "write"
  /\ call.done = call.len
  /\ ret' = Value(call.done)
  /\ call' = Idle
  /\ UNCHANGED ring

Next ==
  \/ Read
  \/ Peek
  \/ \E ch \in Byte : Write(ch)
  \/ \E n \in 0..MaxArray : CallRead(n)
  \/ ReadNext
  \/ ReadDone
  \/ \E s \in Arrays : CallWrite(s)
  \/ WriteNext
  \/ WriteDone

Spec == Init /\ [][Next]_vars
-----------------------------------------------------------------------------
(* Types: positions stay inside the vector and the length inside max_len.  *)
TypeOK ==
  /\ buffer \in [Slot -> 0..255]
  /\ actual_len \in 0..max_len
  /\ actual_read_pos \in Slot
  /\ actual_write_pos \in Slot
  /\ call \in [op : {"idle", "read", "write"}, len : Nat, done : Nat, str : Seq(0..255)]
  /\ ret \in [val : Int, str : Seq(0..255)]

(* The three counters of the class are redundant: the write position is    *)
(* always actual_len slots ahead of the read position, modulo the size.    *)
(* Every method updates two of the three, and wraps one.                   *)
PositionsAgree ==
  actual_write_pos = IF actual_read_pos + actual_len < max_len
                     THEN actual_read_pos + actual_len
                     ELSE actual_read_pos + actual_len - max_len

(* A loop in progress has never stored more than it was asked for, and an  *)
(* array read has stored no zero byte (read(str, len) stops at one).       *)
LoopBounds ==
  /\ call.op = "read" => /\ Len(call.str) <= call.len
                         /\ \A i \in 1..Len(call.str) : call.str[i] > 0
  /\ call.op = "write" => /\ call.len = Len(call.str)
                          /\ call.done <= call.len
                          /\ call.done <= actual_len

IInv == TypeOK /\ PositionsAgree /\ LoopBounds

(* The slots in reading order, oldest byte first. *)
SlotAt(i) == IF actual_read_pos + i <= max_len
             THEN actual_read_pos + i - 1
             ELSE actual_read_pos + i - 1 - max_len
Content == [i \in 1..actual_len |-> buffer[SlotAt(i)]]

(***************************************************************************)
(* The ring implements the byte queue: single-byte calls one for one, and  *)
(* a whole array call, whatever its number of iterations, as one step that *)
(* happens when the call returns.  Until then the bytes a read has taken   *)
(* still count as queued and those a write has stored do not.              *)
(***************************************************************************)
Queued ==
  IF call.op = "read" THEN call.str \o Content
  ELSE SubSeq(Content, 1, actual_len - call.done)

Fifo == INSTANCE ByteFifo WITH Capacity <- max_len, queue <- Queued
ImplementsFifo == Fifo!Spec
=============================================================================
