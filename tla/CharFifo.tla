-------------------------------- MODULE CharFifo --------------------------------
(***************************************************************************)
(* What a cbuf promises: a queue of chars whose size can change.  An array *)
(* call moves what fits or what is there, at once; the calls for one char  *)
(* answer -1 when there is none, as they do for the char 0xFF where char   *)
(* is signed: the caller cannot tell them apart.                           *)
(***************************************************************************)
EXTENDS Integers, Sequences, SequencesExt

CONSTANTS
  Char,     \* the characters that are stored
  MaxChars, \* bound: the longest array of one call
  MaxSize   \* bound: the sizes asked for

VARIABLES
  held,     \* the characters, oldest first
  size,
  result    \* what the last call returned: a number or characters

charVars == <<held, size, result>>
-----------------------------------------------------------------------------
Number(n) == [number |-> n, chars |-> <<>>]
Chars(s) == [number |-> Len(s), chars |-> s]
Least(a, b) == IF a < b THEN a ELSE b
Leading(s, n) == SubSeq(s, 1, Least(n, Len(s)))
Rest(s, n) == SubSeq(s, Least(n, Len(s)) + 1, Len(s))

Init ==
  /\ held = <<>> /\ size \in 0 .. MaxSize /\ result = Number(0)

(* write(c) is an array of one. *)
Put(str) ==
  /\ held' = held \o Leading(str, size - Len(held))
  /\ result' = Number(Least(Len(str), size - Len(held)))
  /\ UNCHANGED size

Get(n) ==
  /\ held' = Rest(held, n)
  /\ result' = Chars(Leading(held, n))
  /\ UNCHANGED size

First == Number(IF held = <<>> THEN -1 ELSE Head(held))

GetChar == held' = Rest(held, 1) /\ result' = First /\ UNCHANGED size

PeekChar == result' = First /\ UNCHANGED <<held, size>>

Peek(n) == result' = Chars(Leading(held, n)) /\ UNCHANGED <<held, size>>

(* flush() is the removal of all that is held. *)
Drop(n) ==
  /\ held' = Rest(held, n)
  /\ result' = Number(Len(held'))
  /\ UNCHANGED size

(* No character is lost: a smaller size than they need is refused. *)
Resize(n) ==
  /\ size' = IF n < Len(held) THEN size ELSE n
  /\ result' = Number(size')
  /\ UNCHANGED held

Next ==
  \/ \E str \in BoundedSeq(Char, MaxChars) : Put(str)
  \/ \E n \in 0 .. MaxChars : Get(n) \/ Peek(n) \/ Drop(n)
  \/ GetChar \/ PeekChar \/ Drop(Len(held))
  \/ \E n \in 0 .. MaxSize : Resize(n)

Spec == Init /\ [][Next]_charVars
=============================================================================
