---------------------------------- MODULE CBuf ----------------------------------
(***************************************************************************)
(* cbuf: a ring of _size + 1 characters between two pointers, one of which *)
(* stays unused so that a full ring is not an empty one.  Pointers are     *)
(* indexes into _buf; places that hold nothing are not told apart.         *)
(***************************************************************************)
EXTENDS Integers, Sequences, SequencesExt

CONSTANTS
  Char,     \* the characters that are stored, as the integers they are cast to
  Unset,    \* what a place holds before it is written
  MaxChars, \* bound: the longest array of one call
  MaxSize   \* bound: the sizes asked for

ASSUME CharAssumption == /\ Char \subseteq -128 .. 255
                         /\ MaxChars \in Nat \ {0} /\ MaxSize \in Nat

VARIABLES
  _size,
  _buf,     \* function of the indexes 0 .. _size
  _begin, _end,
  returned  \* history: what the last call returned

pointers == <<_begin, _end>>
cbufVars == <<_size, _buf, pointers, returned>>
-----------------------------------------------------------------------------
_bufend == _size + 1
MinOf(a, b) == IF a < b THEN a ELSE b

wrap_if_bufend(ptr) == IF ptr = _bufend THEN 0 ELSE ptr

cbufAvailable == IF _end >= _begin THEN _end - _begin ELSE _size + 1 - (_begin - _end)
room == IF _end >= _begin THEN _size - (_end - _begin) ELSE _begin - _end - 1
empty == _begin = _end

full == wrap_if_bufend(_end + 1) = _begin

Number(n) == [number |-> n, chars |-> <<>>]
CharArray(s) == [number |-> Len(s), chars |-> s]

Chars(from, n) == [i \in 1 .. n |-> _buf[from + i - 1]]

(* peek(dst, n) and read(dst, n): up to the end of the array, then from    *)
(* its start.                                                              *)
Taken(n) ==
  LET count == MinOf(n, cbufAvailable)
      top == _bufend - _begin
      begin == IF _end < _begin /\ count > top THEN 0 ELSE _begin
      rest == IF begin = _begin THEN count ELSE count - top
  IN [chars |-> IF begin = _begin THEN Chars(_begin, count)
                ELSE Chars(_begin, top) \o Chars(0, rest),
      begin |-> wrap_if_bufend(begin + rest)]

CBufInit ==
  /\ _size \in 0 .. MaxSize
  /\ _buf = [i \in 0 .. _size |-> Unset]
  /\ _begin = 0 /\ _end = 0
  /\ returned = Number(0)

peek(n) ==
  /\ returned' = CharArray(Taken(n).chars)
  /\ UNCHANGED <<_size, _buf, pointers>>

read(n) ==
  /\ returned' = CharArray(Taken(n).chars)
  /\ _begin' = Taken(n).begin
  /\ UNCHANGED <<_size, _buf, _end>>

(* peek() and read() of one character return it, or -1 for none, which a   *)
(* char that is signed may be too.                                         *)
FirstChar == Number(IF empty THEN -1 ELSE _buf[_begin])

peekChar == returned' = FirstChar /\ UNCHANGED <<_size, _buf, pointers>>

readChar ==
  /\ returned' = FirstChar
  /\ _begin' = IF empty THEN _begin ELSE wrap_if_bufend(_begin + 1)
  /\ UNCHANGED <<_size, _buf, _end>>

writeChar(c) ==
  /\ returned' = Number(IF full THEN 0 ELSE 1)
  /\ _buf' = IF full THEN _buf ELSE [_buf EXCEPT ![_end] = c]
  /\ _end' = IF full THEN _end ELSE wrap_if_bufend(_end + 1)
  /\ UNCHANGED <<_size, _begin>>

(* The part up to the end of the array, then the rest from its start. *)
write(src) ==
  LET count == MinOf(Len(src), room)
      top == _bufend - _end
      split == _end >= _begin /\ count > top
      first == IF split THEN top ELSE count
  IN /\ returned' = Number(count)
     /\ _buf' = [i \in DOMAIN _buf |->
                   IF i \in _end .. _end + first - 1 THEN src[i - _end + 1]
                   ELSE IF split /\ i < count - top THEN src[top + i + 1]
                   ELSE _buf[i]]
     /\ _end' = IF split THEN wrap_if_bufend(count - top) ELSE wrap_if_bufend(_end + count)
     /\ UNCHANGED <<_size, _begin>>

flush ==
  /\ _begin' = 0 /\ _end' = 0
  /\ returned' = Number(0)
  /\ UNCHANGED <<_size, _buf>>

remove(n) ==
  \/ n >= cbufAvailable /\ flush
  \/ /\ n < cbufAvailable
     /\ LET top == _bufend - _begin
            split == _end < _begin /\ n > top
        IN _begin' = IF split THEN wrap_if_bufend(n - top) ELSE wrap_if_bufend(_begin + n)
     /\ returned' = Number(IF _end >= _begin' THEN _end - _begin' ELSE _size + 1 - (_begin' - _end))
     /\ UNCHANGED <<_size, _buf, _end>>

(* Mutation of resize: what is available is not copied to the front. *)
resizeInPlace(newSize) ==
  \/ /\ newSize < cbufAvailable \/ newSize = _size
     /\ returned' = Number(_size)
     /\ UNCHANGED <<_size, _buf, pointers>>
  \/ /\ newSize >= cbufAvailable /\ newSize # _size
     /\ _buf' = [i \in 0 .. newSize |-> IF i \in DOMAIN _buf THEN _buf[i] ELSE Unset]
     /\ _size' = newSize /\ returned' = Number(newSize)
     /\ _begin' = 0 /\ _end' = cbufAvailable

(* resize(), and resizeAdd() with the sum; the characters are read into a  *)
(* new array.                                                              *)
resize(newSize) ==
  \/ /\ newSize < cbufAvailable \/ newSize = _size
     /\ returned' = Number(_size)
     /\ UNCHANGED <<_size, _buf, pointers>>
  \/ /\ newSize >= cbufAvailable /\ newSize # _size
     /\ LET chars == Taken(cbufAvailable).chars
        IN _buf' = [i \in 0 .. newSize |-> IF i < cbufAvailable THEN chars[i + 1] ELSE Unset]
     /\ _size' = newSize /\ returned' = Number(newSize)
     /\ _begin' = 0 /\ _end' = cbufAvailable

CBufNext ==
  \/ peekChar \/ readChar \/ flush
  \/ \E n \in 0 .. MaxChars : peek(n) \/ read(n) \/ remove(n)
  \/ \E c \in Char : writeChar(c)
  \/ \E src \in BoundedSeq(Char, MaxChars) : write(src)
  \/ \E n \in 0 .. MaxSize : resize(n)

CBufSpec == CBufInit /\ [][CBufNext]_cbufVars
-----------------------------------------------------------------------------
CBufContents == Taken(cbufAvailable).chars

(* Through every wrap, removal and resize the ring is a queue of           *)
(* characters: none is lost, doubled, reordered or read before it was      *)
(* written, and every call returns what the queue's call returns.          *)
CharQueue == INSTANCE CharFifo WITH held <- CBufContents, size <- _size, result <- returned
ImplementsCharFifo == CharQueue!Spec
=============================================================================
