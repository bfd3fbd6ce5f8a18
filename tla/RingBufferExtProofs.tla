------------------------- MODULE RingBufferExtProofs -------------------------
(***************************************************************************)
(* The ring's counters stay consistent, for every size, every set of bytes *)
(* and arrays of every length.                                             *)
(***************************************************************************)
EXTENDS RingBufferExt, SequenceTheorems, TLAPS

(* Advancing a position inside the ring, in the two cases of the wrap. *)
LEMMA WrapSlot ==
  ASSUME NEW p \in Slot
  PROVE  /\ Wrap(p) = p
         /\ Wrap(p + 1) \in Slot
         /\ Wrap(p + 1) = IF p + 1 = max_len THEN 0 ELSE p + 1
BY SizeAssumption DEF Slot, Wrap

(* What a call can return. *)
LEMMA ReturnTypes ==
  /\ \A v \in Int : Value(v) \in [val : Int, str : Seq(0..255)]
  /\ \A t \in Seq(0..255) : Array(t) \in [val : Int, str : Seq(0..255)]
BY DEF Value, Array

LEMMA InitIInv == Init => IInv
<1>1. Init => call \in [op : {"idle", "read", "write"}, len : Nat, done : Nat, str : Seq(0..255)]
  BY DEF Init, Idle
<1>2. Init => ret \in [val : Int, str : Seq(0..255)]
  BY ReturnTypes DEF Init, NoByte
<1> QED
  BY <1>1, <1>2, SizeAssumption
  DEF Init, IInv, TypeOK, PositionsAgree, LoopBounds, Slot, Idle

(* peek() returns a stored byte, or -1 exactly when the ring is empty. *)
LEMMA PeekedByte ==
  ASSUME TypeOK
  PROVE  /\ peeked \in Int
         /\ peeked \in 0..255 <=> actual_len > 0
         /\ peeked > -1 <=> actual_len > 0
<1>1. buffer[actual_read_pos] \in 0..255
  BY DEF TypeOK
<1>2. actual_len \in Int /\ max_len \in Int
  BY SizeAssumption DEF TypeOK
<1> QED
  BY <1>1, <1>2 DEF peeked, NoByte

(* One read() keeps the ring consistent. *)
LEMMA ReadByteKeepsRing ==
  ASSUME TypeOK, PositionsAgree, ReadByte
  PROVE  /\ buffer' \in [Slot -> 0..255]
         /\ actual_len' \in 0..max_len
         /\ actual_read_pos' \in Slot
         /\ actual_write_pos' \in Slot
         /\ PositionsAgree'
<1>1. /\ actual_len \in 0..max_len /\ max_len \in Nat \ {0}
      /\ actual_read_pos \in 0..max_len - 1
      /\ actual_write_pos \in 0..max_len - 1
  BY SizeAssumption DEF TypeOK, Slot
<1>2. buffer' \in [Slot -> 0..255] /\ actual_write_pos' = actual_write_pos
  BY DEF ReadByte, TypeOK
<1>3. CASE actual_len > 0
  <2>1. /\ actual_read_pos' = Wrap(actual_read_pos + 1)
        /\ actual_len' = actual_len - 1
    BY <1>3, PeekedByte DEF ReadByte
  <2>2. actual_read_pos' = IF actual_read_pos + 1 = max_len THEN 0 ELSE actual_read_pos + 1
    BY <1>1, <2>1, WrapSlot DEF Slot
  <2> QED
    BY <1>1, <1>2, <1>3, <2>1, <2>2 DEF PositionsAgree, Slot
<1>4. CASE actual_len = 0
  <2>1. /\ actual_read_pos' = Wrap(actual_read_pos)
        /\ actual_len' = actual_len
    BY <1>4, PeekedByte DEF ReadByte
  <2>2. actual_read_pos' = actual_read_pos
    BY <1>1, <2>1, WrapSlot DEF Slot
  <2> QED
    BY <1>1, <1>2, <2>1, <2>2 DEF PositionsAgree, Slot
<1> QED
  BY <1>1, <1>3, <1>4

(* One successful write(ch) keeps the ring consistent and adds one byte. *)
LEMMA WriteByteKeepsRing ==
  ASSUME TypeOK, PositionsAgree, NEW ch \in 0..255, WriteByte(ch)
  PROVE  /\ buffer' \in [Slot -> 0..255]
         /\ actual_len' \in 0..max_len
         /\ actual_len' = actual_len + 1
         /\ actual_read_pos' \in Slot
         /\ actual_write_pos' \in Slot
         /\ PositionsAgree'
<1>1. /\ actual_len \in 0..max_len - 1 /\ max_len \in Nat \ {0}
      /\ actual_read_pos \in 0..max_len - 1
      /\ actual_write_pos \in 0..max_len - 1
  BY SizeAssumption DEF TypeOK, Slot, WriteByte
<1>2. buffer' \in [Slot -> 0..255]
  BY DEF WriteByte, TypeOK
<1>3. /\ actual_read_pos' = actual_read_pos
      /\ actual_len' = actual_len + 1
      /\ actual_write_pos' = Wrap(actual_write_pos + 1)
  BY DEF WriteByte
<1>4. actual_write_pos' = IF actual_write_pos + 1 = max_len THEN 0 ELSE actual_write_pos + 1
  BY <1>1, <1>3, WrapSlot DEF Slot
<1>5. PositionsAgree'
  BY <1>1, <1>3, <1>4 DEF PositionsAgree
<1> QED
  BY <1>1, <1>2, <1>3, <1>4, <1>5 DEF Slot

(* A loop of an array call preserves what it has stored. *)
LEMMA StepIInv == IInv /\ [Next]_vars => IInv'
<1> SUFFICES ASSUME IInv, [Next]_vars
             PROVE  IInv'
  OBVIOUS
<1> USE SizeAssumption, ByteAssumption, ArrayAssumption
<1>0. TypeOK /\ PositionsAgree /\ LoopBounds
  BY DEF IInv
<1>r. peeked \in Int /\ (peeked > 0 => peeked \in 0..255)
  BY <1>0, PeekedByte
<1>1. CASE Read
  <2>1. ReadByte /\ call' = call /\ call = Idle /\ ret' = Value(peeked)
    BY <1>1 DEF Read
  <2>2. ret' \in [val : Int, str : Seq(0..255)]
    BY <2>1, <1>r DEF Value
  <2> QED
    BY <1>0, <2>1, <2>2, ReadByteKeepsRing DEF IInv, TypeOK, LoopBounds, Idle
<1>2. CASE Peek
  <2>1. ret' \in [val : Int, str : Seq(0..255)]
    BY <1>2, <1>r DEF Peek, Value
  <2> QED
    BY <1>0, <1>2, <2>1 DEF Peek, IInv, TypeOK, PositionsAgree, LoopBounds, ring, Idle
<1>3. ASSUME NEW ch \in Byte, Write(ch)
      PROVE  IInv'
  <2>0. PICK v \in Int : ret' = Value(v)
    BY <1>3 DEF Write
  <2>1. ret' \in [val : Int, str : Seq(0..255)]
    BY <2>0, ReturnTypes
  <2>2. call' = call /\ call = Idle
    BY <1>3 DEF Write
  <2>3. CASE WriteByte(ch)
    BY <1>0, <2>1, <2>2, <2>3, WriteByteKeepsRing DEF IInv, TypeOK, LoopBounds, Idle
  <2>4. CASE UNCHANGED ring
    BY <1>0, <2>1, <2>2, <2>4 DEF IInv, TypeOK, PositionsAgree, LoopBounds, ring
  <2> QED
    BY <1>3, <2>3, <2>4 DEF Write
<1>4. ASSUME NEW n \in 0..MaxArray, CallRead(n)
      PROVE  IInv'
  <2>1. call' \in [op : {"idle", "read", "write"}, len : Nat, done : Nat, str : Seq(0..255)]
    BY <1>4 DEF CallRead, Reading
  <2> QED
    BY <1>0, <1>4, <2>1
    DEF CallRead, Reading, IInv, TypeOK, PositionsAgree, LoopBounds, ring
<1>5. CASE ReadNext
  <2>1. ReadByte /\ call.op = "read" /\ Len(call.str) < call.len
    BY <1>5 DEF ReadNext
  <2>2. CASE peeked <= 0
    <3>1. call' = Idle /\ ret' = Array(call.str)
      BY <1>5, <2>2 DEF ReadNext
    <3>2. /\ call' \in [op : {"idle", "read", "write"}, len : Nat, done : Nat, str : Seq(0..255)]
          /\ ret' \in [val : Int, str : Seq(0..255)]
      BY <1>0, <3>1 DEF TypeOK, Idle, Array
    <3> QED
      BY <1>0, <2>1, <3>1, <3>2, ReadByteKeepsRing DEF IInv, TypeOK, LoopBounds, Idle
  <2>3. CASE peeked > 0
    <3> DEFINE more == Append(call.str, peeked)
    <3>1. call' = [call EXCEPT !.str = more] /\ ret' = ret
      BY <1>5, <1>r, <2>3 DEF ReadNext
    <3>2. more \in Seq(0..255) /\ Len(more) = Len(call.str) + 1
      BY <1>0, <1>r, <2>3 DEF TypeOK
    <3>3. \A i \in 1..Len(more) : more[i] > 0
      BY <1>0, <1>r, <2>1, <2>3 DEF TypeOK, LoopBounds
    <3>4. call' \in [op : {"idle", "read", "write"}, len : Nat, done : Nat, str : Seq(0..255)]
      BY <1>0, <3>1, <3>2 DEF TypeOK
    <3>5. call'.op = "read" /\ call'.len = call.len /\ call'.str = more
      BY <1>0, <2>1, <3>1 DEF TypeOK
    <3>6. LoopBounds'
      BY <1>0, <2>1, <3>2, <3>3, <3>5 DEF LoopBounds, TypeOK
    <3> QED
      BY <1>0, <2>1, <3>1, <3>4, <3>6, ReadByteKeepsRing DEF IInv, TypeOK
  <2> QED
    BY <1>r, <2>2, <2>3
<1>6. CASE ReadDone
  <2>1. /\ call' \in [op : {"idle", "read", "write"}, len : Nat, done : Nat, str : Seq(0..255)]
        /\ ret' \in [val : Int, str : Seq(0..255)]
    BY <1>0, <1>6 DEF ReadDone, TypeOK, Idle, Array
  <2> QED
    BY <1>0, <1>6, <2>1 DEF ReadDone, IInv, TypeOK, PositionsAgree, LoopBounds, ring, Idle
<1>7. ASSUME NEW s \in Arrays, CallWrite(s)
      PROVE  IInv'
  <2>1. s \in Seq(0..255)
    <3>1. PICK n \in 0..MaxArray : s \in [1..n -> Byte]
      BY DEF Arrays
    <3>2. n \in Nat
      BY <3>1
    <3>3. s \in [1..n -> 0..255]
      BY <3>1
    <3> QED
      BY <3>2, <3>3
  <2>2. call' \in [op : {"idle", "read", "write"}, len : Nat, done : Nat, str : Seq(0..255)]
    BY <1>7, <2>1 DEF CallWrite, Writing
  <2> QED
    BY <1>0, <1>7, <2>1, <2>2
    DEF CallWrite, Writing, IInv, TypeOK, PositionsAgree, LoopBounds, ring
<1>8. CASE WriteNext
  <2>0. call.str \in Seq(0..255) /\ call.done \in Nat /\ call.len \in Nat
    BY <1>0 DEF TypeOK
  <2>1. call.op = "write" /\ call.done < call.len /\ call.len = Len(call.str)
    BY <1>0, <1>8 DEF WriteNext, LoopBounds
  <2>2. call.str[call.done + 1] \in 0..255
    <3>1. Len(call.str) \in Nat
      BY <2>0
    <3>2. call.done + 1 \in 1..Len(call.str)
      BY <2>0, <2>1, <3>1
    <3> QED
      BY <2>0, <3>2, ElementOfSeq
  <2>3. CASE /\ WriteByte(call.str[call.done + 1])
             /\ call' = [call EXCEPT !.done = @ + 1]
             /\ UNCHANGED ret
    <3>1. call' \in [op : {"idle", "read", "write"}, len : Nat, done : Nat, str : Seq(0..255)]
      <4>1. call.done + 1 \in Nat
        BY <2>0
      <4> QED
        BY <1>0, <2>3, <4>1 DEF TypeOK
    <3>2. /\ call'.op = "write" /\ call'.len = call.len
          /\ call'.str = call.str /\ call'.done = call.done + 1
      BY <1>0, <2>1, <2>3 DEF TypeOK
    <3>3. actual_len' = actual_len + 1
      BY <1>0, <2>2, <2>3, WriteByteKeepsRing
    <3>4. LoopBounds'
      BY <1>0, <2>1, <3>2, <3>3 DEF LoopBounds, TypeOK
    <3> QED
      BY <1>0, <2>2, <2>3, <3>1, <3>4, WriteByteKeepsRing DEF IInv, TypeOK
  <2>4. CASE ret' = Value(call.done) /\ call' = Idle /\ UNCHANGED ring
    <3>1. /\ call' \in [op : {"idle", "read", "write"}, len : Nat, done : Nat, str : Seq(0..255)]
          /\ ret' \in [val : Int, str : Seq(0..255)]
      BY <1>0, <2>4 DEF TypeOK, Idle, Value
    <3> QED
      BY <1>0, <2>4, <3>1 DEF IInv, TypeOK, PositionsAgree, LoopBounds, ring, Idle
  <2> QED
    BY <1>8, <2>3, <2>4 DEF WriteNext
<1>9. CASE WriteDone
  <2>1. /\ call' \in [op : {"idle", "read", "write"}, len : Nat, done : Nat, str : Seq(0..255)]
        /\ ret' \in [val : Int, str : Seq(0..255)]
    BY <1>0, <1>9 DEF WriteDone, TypeOK, Idle, Value
  <2> QED
    BY <1>0, <1>9, <2>1 DEF WriteDone, IInv, TypeOK, PositionsAgree, LoopBounds, ring, Idle
<1>10. CASE UNCHANGED vars
  BY <1>0, <1>10 DEF vars, IInv, TypeOK, PositionsAgree, LoopBounds
<1> QED
  BY <1>1, <1>2, <1>3, <1>4, <1>5, <1>6, <1>7, <1>8, <1>9, <1>10 DEF Next

(* The invariant of the RingBufferExt runs, for every max_len, Byte and    *)
(* MaxArray: read(), write() and the array loops of RingBufferExt.h keep   *)
(* the write position actual_len slots ahead of the read position.         *)
THEOREM RingInvariant == Spec => []IInv
BY InitIInv, StepIInv, PTL DEF Spec
-----------------------------------------------------------------------------
(***************************************************************************)
(* The refinement: RingBufferExt implements ByteFifo.  First, what the     *)
(* single-byte methods do to the contents of the ring, in reading order.   *)
(***************************************************************************)
LEMMA SeqOfFunction ==
  ASSUME NEW S, NEW n \in Nat, NEW f \in [1..n -> S]
  PROVE  f \in Seq(S) /\ Len(f) = n
OBVIOUS

LEMMA ContentIsSeq ==
  ASSUME TypeOK
  PROVE  Content \in Seq(0..255) /\ Len(Content) = actual_len
<1>1. actual_len \in Nat /\ max_len \in Nat \ {0}
  BY SizeAssumption DEF TypeOK
<1>2. \A i \in 1..actual_len : SlotAt(i) \in Slot
  BY <1>1 DEF TypeOK, SlotAt, Slot
<1>3. \A i \in 1..actual_len : buffer[SlotAt(i)] \in 0..255
  BY <1>2 DEF TypeOK
<1> QED
  BY <1>1, <1>3 DEF Content

LEMMA ReadByteContent ==
  ASSUME IInv, ReadByte
  PROVE  /\ actual_len > 0 => /\ Content # <<>>
                              /\ peeked = Head(Content)
                              /\ Content' = Tail(Content)
                              /\ peeked \in 0..255
         /\ actual_len = 0 => /\ Content = <<>>
                              /\ peeked = NoByte
                              /\ Content' = <<>>
<1>0. TypeOK /\ PositionsAgree
  BY DEF IInv
<1>1. /\ actual_len \in 0..max_len /\ max_len \in Nat \ {0}
      /\ actual_read_pos \in 0..max_len - 1
  BY <1>0, SizeAssumption DEF TypeOK, Slot
<1>2. Content \in Seq(0..255) /\ Len(Content) = actual_len
  BY <1>0, ContentIsSeq
<1>3. CASE actual_len > 0
  <2>1. /\ actual_read_pos' = Wrap(actual_read_pos + 1)
        /\ actual_len' = actual_len - 1 /\ buffer' = buffer
    BY <1>0, <1>3, PeekedByte DEF ReadByte
  <2>2. actual_read_pos' = IF actual_read_pos + 1 = max_len THEN 0 ELSE actual_read_pos + 1
    BY <1>1, <2>1, WrapSlot DEF Slot
  <2>3. SlotAt(1) = actual_read_pos
    BY <1>1 DEF SlotAt
  <2>4. Head(Content) = peeked
    BY <1>1, <1>2, <1>3, <2>3 DEF Content, peeked
  <2>5. Content' = [i \in 1..actual_len - 1 |-> Content[i + 1]]
    <3>1. \A i \in 1..actual_len - 1 : SlotAt(i)' = SlotAt(i + 1)
      BY <1>1, <2>2 DEF SlotAt
    <3>2. \A i \in 1..actual_len - 1 : Content[i + 1] = buffer[SlotAt(i + 1)]
      BY <1>1 DEF Content
    <3> QED
      BY <2>1, <3>1, <3>2 DEF Content
  <2>6. Content' = Tail(Content)
    <3>1. /\ Content # <<>> /\ Tail(Content) \in Seq(0..255)
          /\ Len(Tail(Content)) = actual_len - 1
          /\ \A i \in 1..actual_len - 1 : Tail(Content)[i] = Content[i + 1]
      BY <1>2, <1>3, HeadTailProperties
    <3>2. \A i \in 1..actual_len - 1 : Content[i + 1] \in 0..255
      <4>1. \A i \in 1..actual_len : Content[i] \in 0..255
        BY <1>2, ElementOfSeq
      <4>2. \A i \in 1..actual_len - 1 : i + 1 \in 1..actual_len
        BY <1>1
      <4> QED
        BY <4>1, <4>2, Zenon
    <3>3. Content' \in Seq(0..255) /\ Len(Content') = actual_len - 1
      <4>1. actual_len - 1 \in Nat
        BY <1>1, <1>3
      <4>2. Content' \in [1..actual_len - 1 -> 0..255]
        BY <2>5, <3>2
      <4> HIDE DEF Content
      <4> QED
        BY <4>1, <4>2, SeqOfFunction, ZenonT(30)
    <3>4. \A i \in 1..actual_len - 1 : Content'[i] = Content[i + 1]
      BY <2>5
    <3> QED
      BY <3>1, <3>3, <3>4, SeqEqual
  <2>7. peeked \in 0..255
    BY <1>0, <1>3, PeekedByte
  <2> QED
    BY <1>2, <1>3, <2>4, <2>6, <2>7
<1>4. CASE actual_len = 0
  <2>1. actual_len' = 0
    BY <1>0, <1>4, PeekedByte DEF ReadByte
  <2> QED
    BY <1>4, <2>1 DEF Content, peeked
<1> QED
  BY <1>1, <1>3, <1>4

LEMMA WriteByteContent ==
  ASSUME IInv, NEW ch \in 0..255, WriteByte(ch)
  PROVE  Content' = Append(Content, ch) /\ actual_len' = actual_len + 1
<1>0. TypeOK /\ PositionsAgree
  BY DEF IInv
<1>1. /\ actual_len \in 0..max_len - 1 /\ max_len \in Nat \ {0}
      /\ actual_read_pos \in 0..max_len - 1
      /\ actual_write_pos \in 0..max_len - 1
  BY <1>0, SizeAssumption DEF TypeOK, Slot, WriteByte
<1>2. Content \in Seq(0..255) /\ Len(Content) = actual_len
  BY <1>0, ContentIsSeq
<1>3. /\ buffer' = [buffer EXCEPT ![actual_write_pos] = ch]
      /\ actual_read_pos' = actual_read_pos /\ actual_len' = actual_len + 1
  BY DEF WriteByte
<1>4. SlotAt(actual_len + 1) = actual_write_pos
  BY <1>0, <1>1 DEF SlotAt, PositionsAgree
<1>5. \A i \in 1..actual_len : SlotAt(i) \in Slot /\ SlotAt(i) # actual_write_pos
  BY <1>0, <1>1 DEF SlotAt, PositionsAgree, Slot
<1>6. \A i \in 1..actual_len + 1 : SlotAt(i)' = SlotAt(i)
  BY <1>3 DEF SlotAt
<1>7. \A i \in 1..actual_len : buffer'[SlotAt(i)] = Content[i]
  BY <1>0, <1>1, <1>3, <1>5 DEF Content, TypeOK
<1>8. buffer'[SlotAt(actual_len + 1)] = ch
  BY <1>0, <1>3, <1>4 DEF TypeOK
<1>9. Content' = [i \in 1..actual_len + 1 |-> IF i = actual_len + 1 THEN ch ELSE Content[i]]
  BY <1>1, <1>3, <1>6, <1>7, <1>8 DEF Content
<1>10. \A i \in 1..actual_len : Content[i] \in 0..255
  BY <1>1, <1>2, ElementOfSeq
<1>11. Content' \in Seq(0..255) /\ Len(Content') = actual_len + 1
  BY <1>1, <1>9, <1>10
<1>12. \A i \in 1..actual_len + 1 : Content'[i] = IF i = actual_len + 1 THEN ch ELSE Content[i]
  BY <1>9
<1>13. /\ Append(Content, ch) \in Seq(0..255) /\ Len(Append(Content, ch)) = actual_len + 1
       /\ \A i \in 1..actual_len : Append(Content, ch)[i] = Content[i]
       /\ Append(Content, ch)[actual_len + 1] = ch
  BY <1>2, AppendProperties
<1>14. Content' = Append(Content, ch)
  <2>1. \A i \in 1..actual_len + 1 : Content'[i] = Append(Content, ch)[i]
    BY <1>1, <1>12, <1>13
  <2> QED
    BY <1>11, <1>13, <2>1, SeqEqual
<1> QED
  BY <1>3, <1>14

(***************************************************************************)
(* What an array call in progress has done so far: the length a read asks  *)
(* for and the array a write was given, and the bytes a write has stored,  *)
(* which are the last ones of the ring.                                    *)
(***************************************************************************)
LoopArguments ==
  /\ call.op = "read" => call.len \in 0..MaxArray
  /\ call.op = "write" => call.str \in Arrays
  /\ call.op # "write" => call.done = 0

StoredLast ==
  call.op = "write" =>
    \A i \in 1..call.done : Content[actual_len - call.done + i] = call.str[i]

LoopInv == IInv /\ LoopArguments /\ StoredLast

LEMMA InitLoopInv == Init => LoopInv
BY InitIInv DEF Init, LoopInv, LoopArguments, StoredLast, Idle

LEMMA StepLoopInv == LoopInv /\ [Next]_vars => LoopInv'
<1> SUFFICES ASSUME LoopInv, [Next]_vars
             PROVE  LoopInv'
  OBVIOUS
<1>0. IInv /\ LoopArguments /\ StoredLast /\ TypeOK /\ LoopBounds
  BY DEF LoopInv, IInv
<1>i. IInv'
  BY <1>0, StepIInv
<1>1. CASE Read \/ Peek \/ \E ch \in Byte : Write(ch)
  <2>1. call = Idle /\ call' = Idle
    BY <1>1 DEF Read, Peek, Write
  <2> QED
    BY <1>i, <2>1 DEF LoopInv, LoopArguments, StoredLast, Idle
<1>2. ASSUME NEW n \in 0..MaxArray, CallRead(n)
      PROVE  LoopInv'
  BY <1>i, <1>2 DEF CallRead, Reading, LoopInv, LoopArguments, StoredLast
<1>3. CASE ReadNext \/ ReadDone
  <2>1. call.op = "read" /\ call.done = 0
    BY <1>0, <1>3 DEF ReadNext, ReadDone, LoopArguments
  <2>2. CASE call' = Idle
    BY <1>i, <2>2 DEF LoopInv, LoopArguments, StoredLast, Idle
  <2>3. CASE call' = [call EXCEPT !.str = Append(@, peeked)]
    <3>1. call'.op = "read" /\ call'.len = call.len /\ call'.done = 0
      BY <1>0, <2>1, <2>3 DEF TypeOK
    <3> QED
      BY <1>0, <1>i, <2>1, <3>1 DEF LoopInv, LoopArguments, StoredLast
  <2> QED
    BY <1>3, <2>2, <2>3 DEF ReadNext, ReadDone
<1>4. ASSUME NEW s \in Arrays, CallWrite(s)
      PROVE  LoopInv'
  BY <1>i, <1>4 DEF CallWrite, Writing, LoopInv, LoopArguments, StoredLast
<1>5. CASE WriteNext \/ WriteDone
  <2>0. call.op = "write" /\ call.str \in Seq(0..255) /\ call.done \in Nat
    BY <1>0, <1>5 DEF TypeOK, WriteNext, WriteDone
  <2>1. CASE call' = Idle
    BY <1>i, <2>1 DEF LoopInv, LoopArguments, StoredLast, Idle
  <2>2. CASE /\ WriteByte(call.str[call.done + 1]) /\ call.done < call.len
             /\ call' = [call EXCEPT !.done = @ + 1]
    <3>1. call'.op = "write" /\ call'.str = call.str /\ call'.done = call.done + 1
      BY <1>0, <2>0, <2>2 DEF TypeOK
    <3>2. call.done + 1 \in 1..Len(call.str) /\ call.str[call.done + 1] \in 0..255
      <4>1. call.len = Len(call.str) /\ Len(call.str) \in Nat
        BY <1>0, <2>0 DEF LoopBounds
      <4>2. call.done + 1 \in 1..Len(call.str)
        BY <2>0, <2>2, <4>1
      <4> QED
        BY <2>0, <4>2, ElementOfSeq
    <3>3. Content' = Append(Content, call.str[call.done + 1]) /\ actual_len' = actual_len + 1
      BY <1>0, <2>2, <3>2, WriteByteContent
    <3>4. Content \in Seq(0..255) /\ Len(Content) = actual_len /\ actual_len \in Nat
      BY <1>0, ContentIsSeq, SizeAssumption DEF TypeOK
    <3>5. /\ \A i \in 1..actual_len : Content'[i] = Content[i]
          /\ Content'[actual_len + 1] = call.str[call.done + 1]
      BY <3>2, <3>3, <3>4, AppendProperties
    <3>6. \A i \in 1..call.done : Content[actual_len - call.done + i] = call.str[i]
      BY <1>0, <2>0 DEF StoredLast
    <3>7. call.done <= actual_len
      BY <1>0, <2>0 DEF LoopBounds
    <3>8. ASSUME NEW i \in 1..call.done + 1
          PROVE  Content'[actual_len' - (call.done + 1) + i] = call.str[i]
      <4>1. CASE i = call.done + 1
        <5>1. actual_len' - (call.done + 1) + i = actual_len + 1
          BY <2>0, <3>3, <3>4, <4>1
        <5> QED
          BY <3>5, <4>1, <5>1
      <4>2. CASE i # call.done + 1
        <5>1. i \in 1..call.done
          BY <2>0, <4>2
        <5>2. actual_len - call.done + i \in 1..actual_len
          BY <2>0, <3>4, <3>7, <5>1
        <5>3. actual_len' - (call.done + 1) + i = actual_len - call.done + i
          <6>1. i \in Int /\ call.done \in Int /\ actual_len \in Int
            BY <2>0, <3>4, <5>1
          <6>2. actual_len' = actual_len + 1
            BY <3>3
          <6> QED
            BY <6>1, <6>2
        <5> QED
          BY <3>5, <3>6, <5>1, <5>2, <5>3
      <4> QED
        BY <4>1, <4>2
    <3> QED
      BY <1>0, <1>i, <2>0, <3>1, <3>8 DEF LoopInv, LoopArguments, StoredLast
  <2> QED
    BY <1>5, <2>1, <2>2 DEF WriteNext, WriteDone
<1>6. CASE UNCHANGED vars
  <2>1. call' = call /\ actual_len' = actual_len /\ Content' = Content
    BY <1>6 DEF vars, Content, SlotAt
  <2> QED
    BY <1>0, <1>i, <2>1 DEF LoopInv, LoopArguments, StoredLast
<1> QED
  BY <1>1, <1>2, <1>3, <1>4, <1>5, <1>6 DEF Next

(* Where a text read ends, whatever else the queue holds. *)
LEMMA TextEnds ==
  ASSUME NEW q \in Seq(0..255), NEW n \in Nat, NEW k \in 0..n,
         k <= Len(q), \A i \in 1..k : q[i] # 0,
         k = n \/ k = Len(q) \/ q[k + 1] = 0
  PROVE  Fifo!TextLength(q, n) = k
<1> DEFINE Ends(j) == /\ j <= Len(q)
                      /\ \A i \in 1..j : q[i] # 0
                      /\ j = n \/ j = Len(q) \/ q[j + 1] = 0
<1>1. Len(q) \in Nat
  OBVIOUS
<1>2. ASSUME NEW j \in 0..n, Ends(j)
      PROVE  j = k
  BY <1>1, <1>2
<1>3. Ends(k)
  OBVIOUS
<1>4. (CHOOSE j \in 0..n : Ends(j)) = k
  <2> HIDE DEF Ends
  <2> QED
    BY <1>2, <1>3
<1> QED
  BY <1>4 DEF Fifo!TextLength

(* The abstract queue when no call is in progress. *)
LEMMA QueuedWhenIdle == IInv /\ call = Idle => Queued = Content
<1> SUFFICES ASSUME IInv, call = Idle
             PROVE  Queued = Content
  OBVIOUS
<1>1. TypeOK /\ Content \in Seq(0..255) /\ Len(Content) = actual_len
  BY ContentIsSeq DEF IInv
<1>2. Queued = SubSeq(Content, 1, actual_len - 0)
  BY DEF Queued, Idle
<1>3. actual_len - 0 = Len(Content)
  BY <1>1, SizeAssumption DEF TypeOK
<1> QED
  BY <1>1, <1>2, <1>3, SubSeqFull

LEMMA QueuedWhenIdleNext == (IInv /\ call = Idle => Queued = Content)'
BY QueuedWhenIdle, PTL

(* The single-byte calls are those of the queue. *)
LEMMA ReadIsGet == LoopInv /\ LoopInv' /\ Read => Fifo!Get
<1> SUFFICES ASSUME LoopInv, LoopInv', Read
             PROVE  Fifo!Get
  OBVIOUS
<1>0. IInv /\ IInv' /\ ReadByte /\ call = Idle /\ call' = Idle /\ ret' = Value(peeked)
  BY DEF LoopInv, Read
<1>1. Queued = Content /\ Queued' = Content'
  BY <1>0, QueuedWhenIdle, QueuedWhenIdleNext
<1>2. actual_len \in Nat
  BY <1>0, SizeAssumption DEF IInv, TypeOK
<1> QED
  BY <1>0, <1>1, <1>2, ReadByteContent DEF Fifo!Get, Fifo!Value, Fifo!NoByte, Value, NoByte

LEMMA PeekIsPeek == LoopInv /\ LoopInv' /\ Peek => Fifo!Peek
<1> SUFFICES ASSUME LoopInv, LoopInv', Peek
             PROVE  Fifo!Peek
  OBVIOUS
<1>0. /\ IInv /\ IInv' /\ call = Idle /\ call' = Idle /\ ret' = Value(peeked)
      /\ UNCHANGED ring
  BY DEF LoopInv, Peek
<1>1. Queued = Content /\ Queued' = Content'
  BY <1>0, QueuedWhenIdle, QueuedWhenIdleNext
<1>2. Content' = Content
  BY <1>0 DEF ring, Content, SlotAt
<1>3. /\ Content \in Seq(0..255) /\ Len(Content) = actual_len /\ actual_len \in 0..max_len
      /\ actual_read_pos \in 0..max_len - 1 /\ max_len \in Nat \ {0}
  BY <1>0, ContentIsSeq, SizeAssumption DEF IInv, TypeOK, Slot
<1>4. peeked = IF Content = <<>> THEN NoByte ELSE Head(Content)
  <2>1. actual_len > 0 => SlotAt(1) = actual_read_pos /\ Head(Content) = Content[1]
    BY <1>3 DEF SlotAt
  <2>2. actual_len > 0 => Content[1] = buffer[SlotAt(1)]
    BY <1>3 DEF Content
  <2>3. actual_len > 0 <=> Content # <<>>
    BY <1>3
  <2> QED
    BY <2>1, <2>2, <2>3 DEF peeked
<1> QED
  BY <1>0, <1>1, <1>2, <1>4 DEF Fifo!Peek, Fifo!Value, Fifo!NoByte, Value, NoByte

LEMMA WriteIsPut ==
  ASSUME LoopInv, LoopInv', NEW ch \in Byte, Write(ch)
  PROVE  Fifo!Put(ch)
<1>0. IInv /\ IInv' /\ TypeOK /\ call = Idle /\ call' = Idle
  BY DEF LoopInv, IInv, Write
<1>1. Queued = Content /\ Queued' = Content'
  BY <1>0, QueuedWhenIdle, QueuedWhenIdleNext
<1>2. Content \in Seq(0..255) /\ Len(Content) = actual_len
  BY <1>0, ContentIsSeq
<1>3. CASE WriteByte(ch) /\ ret' = Value(1)
  <2>1. Content' = Append(Content, ch) /\ actual_len < max_len
    BY <1>0, <1>3, ByteAssumption, WriteByteContent DEF WriteByte
  <2> QED
    BY <1>1, <1>2, <1>3, <2>1 DEF Fifo!Put, Fifo!Value, Value
<1>4. CASE Full /\ ret' = Value(0) /\ UNCHANGED ring
  <2>1. Content' = Content
    BY <1>4 DEF ring, Content, SlotAt
  <2>2. actual_len = max_len
    BY <1>0, <1>4, SizeAssumption DEF Full, TypeOK
  <2> QED
    BY <1>1, <1>2, <1>4, <2>1, <2>2 DEF Fifo!Put, Fifo!Value, Value
<1> QED
  BY <1>3, <1>4 DEF Write

(* An array call begins: the queue does not change. *)
LEMMA CallsStutter ==
  ASSUME LoopInv, (\E n \in 0..MaxArray : CallRead(n)) \/ (\E s \in Arrays : CallWrite(s))
  PROVE  Queued' = Queued /\ ret' = ret
<1>0. IInv /\ TypeOK /\ call = Idle /\ ret' = ret /\ UNCHANGED ring
  BY DEF LoopInv, IInv, CallRead, CallWrite
<1>1. Queued = Content
  BY <1>0, QueuedWhenIdle
<1>2. Content' = Content /\ actual_len' = actual_len
  BY <1>0 DEF ring, Content, SlotAt
<1>3. Content \in Seq(0..255) /\ Len(Content) = actual_len /\ actual_len \in Nat
  BY <1>0, ContentIsSeq, SizeAssumption DEF TypeOK
<1>4. CASE \E n \in 0..MaxArray : CallRead(n)
  <2>1. call'.op = "read" /\ call'.str = <<>>
    BY <1>4 DEF CallRead, Reading
  <2>2. Queued' = <<>> \o Content
    BY <1>2, <2>1 DEF Queued
  <2> QED
    BY <1>0, <1>1, <1>3, <2>2, ConcatEmptySeq
<1>5. CASE \E s \in Arrays : CallWrite(s)
  <2>1. call'.op = "write" /\ call'.done = 0
    BY <1>5 DEF CallWrite, Writing
  <2>2. Queued' = SubSeq(Content, 1, actual_len - 0)
    BY <1>2, <2>1 DEF Queued
  <2>3. actual_len - 0 = Len(Content)
    BY <1>3
  <2> QED
    BY <1>0, <1>1, <1>3, <2>2, <2>3, SubSeqFull
<1> QED
  BY <1>4, <1>5

(* A write loop: it stutters until it returns, and then all it has stored  *)
(* is put at once.                                                         *)
LEMMA WriteNextStutters ==
  ASSUME LoopInv, WriteNext, call' # Idle
  PROVE  Queued' = Queued /\ ret' = ret
<1>0. IInv /\ TypeOK /\ LoopBounds /\ call.op = "write" /\ call.done < call.len
  BY DEF LoopInv, IInv, WriteNext
<1>1. /\ WriteByte(call.str[call.done + 1]) /\ ret' = ret
      /\ call' = [call EXCEPT !.done = @ + 1]
  BY DEF WriteNext
<1>2. /\ call.str \in Seq(0..255) /\ call.done \in Nat /\ call.len = Len(call.str)
      /\ call'.op = "write" /\ call'.done = call.done + 1 /\ call.done <= actual_len
  BY <1>0, <1>1 DEF TypeOK, LoopBounds
<1>3. call.str[call.done + 1] \in 0..255
  <2>1. Len(call.str) \in Nat
    BY <1>2
  <2>2. call.done + 1 \in 1..Len(call.str)
    BY <1>0, <1>2, <2>1
  <2> QED
    BY <1>2, <2>2, ElementOfSeq
<1>4. Content' = Append(Content, call.str[call.done + 1]) /\ actual_len' = actual_len + 1
  BY <1>0, <1>1, <1>3, WriteByteContent
<1>5. Content \in Seq(0..255) /\ Len(Content) = actual_len /\ actual_len \in Nat
  BY <1>0, ContentIsSeq, SizeAssumption DEF TypeOK
<1>6. actual_len' - call'.done = actual_len - call.done
  <2>1. actual_len' = actual_len + 1 /\ actual_len \in Nat
    BY <1>4, <1>5
  <2>2. call'.done = call.done + 1 /\ call.done \in Nat
    BY <1>2
  <2> QED
    BY <2>1, <2>2
<1>7. Queued' = SubSeq(Append(Content, call.str[call.done + 1]), 1, actual_len - call.done)
  BY <1>2, <1>4, <1>6 DEF Queued
<1>8. Queued = SubSeq(Content, 1, actual_len - call.done)
  BY <1>0 DEF Queued
<1> DEFINE more == Append(Content, call.str[call.done + 1])
           m == actual_len - call.done
<1>9. m \in Nat /\ m <= actual_len
  BY <1>2, <1>5
<1>10. \A i \in 1..actual_len : more[i] = Content[i] /\ Content[i] \in 0..255
  <2>1. \A i \in 1..Len(Content) : more[i] = Content[i]
    BY <1>3, <1>5, AppendProperties
  <2>2. \A i \in 1..Len(Content) : Content[i] \in 0..255
    BY <1>5, ElementOfSeq
  <2> QED
    BY <1>5, <2>1, <2>2
<1>11. SubSeq(more, 1, m) = SubSeq(Content, 1, m)
  <2> HIDE DEF more, m
  <2>1. \A i \in 1..m : more[i] = Content[i] /\ more[i] \in 0..255 /\ Content[i] \in 0..255
    BY <1>5, <1>9, <1>10
  <2> QED
    BY <1>9, <2>1
<1> QED
  BY <1>1, <1>7, <1>8, <1>11

LEMMA WriteReturns ==
  ASSUME LoopInv, LoopInv', WriteNext \/ WriteDone, call' = Idle
  PROVE  call.str \in Arrays /\ Fifo!PutArray(call.str)
<1>0. /\ IInv /\ IInv' /\ TypeOK /\ LoopBounds /\ LoopArguments /\ StoredLast
      /\ call.op = "write"
  BY DEF LoopInv, IInv, WriteNext, WriteDone
<1>1. /\ call.str \in Seq(0..255) /\ call.done \in Nat /\ call.len = Len(call.str)
      /\ call.done <= actual_len /\ call.done <= Len(call.str) /\ call.str \in Arrays
  BY <1>0 DEF TypeOK, LoopBounds, LoopArguments
<1>2. /\ ret' = Value(call.done) /\ UNCHANGED ring
      /\ actual_len = max_len \/ call.done = Len(call.str)
  <2>1. CASE WriteDone
    BY <1>1, <2>1 DEF WriteDone
  <2>2. CASE WriteNext
    <3>1. [call EXCEPT !.done = @ + 1] # Idle
      BY <1>0 DEF TypeOK, Idle
    <3> QED
      BY <1>0, <2>2, <3>1, SizeAssumption DEF WriteNext, Full, TypeOK
  <2> QED
    BY <2>1, <2>2
<1>3. /\ Content \in Seq(0..255) /\ Len(Content) = actual_len /\ actual_len \in Nat
      /\ actual_len <= max_len /\ max_len \in Nat
  BY <1>0, ContentIsSeq, SizeAssumption DEF TypeOK
<1>4. Queued' = Content
  <2>1. Content' = Content
    BY <1>2 DEF ring, Content, SlotAt
  <2> QED
    BY <1>0, <2>1, QueuedWhenIdleNext
<1> DEFINE m == actual_len - call.done
<1>5. m \in Nat /\ m <= actual_len
  BY <1>1, <1>3
<1>6. Queued = SubSeq(Content, 1, m)
  BY <1>0 DEF Queued
<1>7. /\ Queued \in Seq(0..255) /\ Len(Queued) = m
      /\ \A i \in 1..m : Queued[i] = Content[i]
  <2>1. \A i \in 1..actual_len : Content[i] \in 0..255
    BY <1>3, ElementOfSeq
  <2> HIDE DEF m
  <2>2. \A i \in 1..m : Content[i] \in 0..255
    BY <1>3, <1>5, <2>1
  <2> QED
    BY <1>5, <1>6, <2>2
<1>8. Fifo!Fitting(Queued, call.str) = call.done
  <2>1. Len(Queued) = actual_len - call.done /\ Len(call.str) \in Nat
    BY <1>1, <1>7
  <2> QED
    BY <1>1, <1>2, <1>3, <2>1 DEF Fifo!Fitting
<1>9. /\ SubSeq(call.str, 1, call.done) \in Seq(0..255)
      /\ Len(SubSeq(call.str, 1, call.done)) = call.done
      /\ \A i \in 1..call.done : SubSeq(call.str, 1, call.done)[i] = call.str[i]
  <2>1. \A i \in 1..Len(call.str) : call.str[i] \in 0..255
    BY <1>1, ElementOfSeq
  <2>2. \A i \in 1..call.done : call.str[i] \in 0..255
    BY <1>1, <2>1
  <2> QED
    BY <1>1, <2>2
<1>10. Content = Queued \o SubSeq(call.str, 1, call.done)
  <2> DEFINE stored == SubSeq(call.str, 1, call.done)
  <2>1. /\ stored \in Seq(0..255) /\ Len(stored) = call.done
        /\ \A i \in 1..call.done : stored[i] = Content[m + i]
    BY <1>0, <1>9 DEF StoredLast
  <2> HIDE DEF stored
  <2>2. Queued \o stored \in Seq(0..255) /\ Len(Queued \o stored) = m + call.done
    <3>1. Queued \in Seq(0..255) /\ stored \in Seq(0..255)
      BY <1>7, <2>1
    <3>2. Queued \o stored \in Seq(0..255) /\ Len(Queued \o stored) = Len(Queued) + Len(stored)
      BY <3>1, ConcatProperties
    <3> QED
      BY <1>7, <2>1, <3>2
  <2>3. m + call.done = actual_len
    BY <1>1, <1>3
  <2>4. \A i \in 1..actual_len :
          (Queued \o stored)[i] = IF i <= m THEN Queued[i] ELSE stored[i - m]
    BY <1>1, <1>7, <2>1, <2>3, ConcatProperties
  <2> HIDE DEF m
  <2>5. \A i \in 1..actual_len : (Queued \o stored)[i] = Content[i]
    <3> TAKE i \in 1..actual_len
    <3>1. CASE i <= m
      <4>1. i \in 1..m
        BY <1>5, <3>1
      <4> QED
        BY <1>7, <2>4, <3>1, <4>1
    <3>2. CASE ~(i <= m)
      <4>1. i - m \in 1..call.done /\ m + (i - m) = i
        BY <1>1, <1>3, <1>5, <2>3, <3>2
      <4> QED
        BY <2>1, <2>4, <3>2, <4>1
    <3> QED
      BY <3>1, <3>2
  <2>6. Content = Queued \o stored
    BY <1>3, <2>2, <2>3, <2>5, SeqEqual
  <2> QED
    BY <2>6 DEF stored
<1> QED
  BY <1>1, <1>2, <1>4, <1>8, <1>10 DEF Fifo!PutArray, Fifo!Prefix, Fifo!Value, Value

(* A read loop: a byte it takes still counts as queued, and when it        *)
(* returns the text is taken at once, with the zero byte it met.           *)
LEMMA ReadNextStutters ==
  ASSUME LoopInv, ReadNext, peeked > 0
  PROVE  Queued' = Queued /\ ret' = ret
<1>0. IInv /\ TypeOK /\ call.op = "read" /\ ReadByte
  BY DEF LoopInv, IInv, ReadNext
<1>1. peeked \in Int
  BY <1>0, PeekedByte
<1>2. call' = [call EXCEPT !.str = Append(@, peeked)] /\ ret' = ret
  BY <1>1 DEF ReadNext
<1>3. call'.op = "read" /\ call'.str = Append(call.str, peeked) /\ call.str \in Seq(0..255)
  BY <1>0, <1>2 DEF TypeOK
<1>4. actual_len \in Nat /\ Content \in Seq(0..255)
  BY <1>0, ContentIsSeq, SizeAssumption DEF TypeOK
<1>5. actual_len > 0
  BY <1>0, <1>1, <1>4, PeekedByte
<1>6. /\ Content # <<>> /\ peeked = Head(Content) /\ Content' = Tail(Content)
      /\ peeked \in 0..255
  BY <1>0, <1>5, ReadByteContent
<1>7. Append(call.str, Head(Content)) \o Tail(Content) = call.str \o Content
  <2> DEFINE s == call.str
             h == <<Head(Content)>>
             t == Tail(Content)
  <2>1. s \in Seq(0..255) /\ h \in Seq(0..255) /\ t \in Seq(0..255)
    BY <1>3, <1>4, <1>6
  <2>2. h \o t = Content
    BY <1>4, <1>6
  <2>3. Append(call.str, Head(Content)) = s \o h
    <3>1. Head(Content) \in 0..255
      BY <1>6
    <3> QED
      BY <1>3, <3>1, AppendIsConcat
  <2> HIDE DEF s, h, t
  <2>4. (s \o h) \o t = s \o (h \o t)
    BY <2>1, ConcatAssociative
  <2> QED
    BY <2>2, <2>3, <2>4 DEF s, t
<1> QED
  BY <1>0, <1>2, <1>3, <1>6, <1>7 DEF Queued

LEMMA ReadReturns ==
  ASSUME LoopInv, LoopInv', ReadDone \/ (ReadNext /\ peeked <= 0)
  PROVE  call.len \in 0..MaxArray /\ Fifo!GetArray(call.len)
<1>0. /\ IInv /\ IInv' /\ TypeOK /\ LoopBounds /\ call.op = "read"
      /\ call.len \in 0..MaxArray
  BY DEF LoopInv, IInv, ReadNext, ReadDone, LoopArguments
<1> DEFINE k == Len(call.str)
           n == call.len
<1>1. /\ call.str \in Seq(0..255) /\ k \in Nat /\ n \in Nat /\ k <= n
      /\ \A i \in 1..k : call.str[i] > 0
  BY <1>0, ArrayAssumption DEF TypeOK, LoopBounds
<1>2. Content \in Seq(0..255) /\ Len(Content) = actual_len /\ actual_len \in Nat
  BY <1>0, ContentIsSeq, SizeAssumption DEF TypeOK
<1>3. Queued = call.str \o Content
  BY <1>0 DEF Queued
<1>4. /\ Queued \in Seq(0..255) /\ Len(Queued) = k + actual_len
      /\ \A i \in 1..k + actual_len :
           Queued[i] = IF i <= k THEN call.str[i] ELSE Content[i - k]
  <2> DEFINE a == call.str
             c == Content
  <2>1. a \in Seq(0..255) /\ Len(a) = k /\ c \in Seq(0..255) /\ Len(c) = actual_len
    BY <1>1, <1>2
  <2> HIDE DEF a, c, k
  <2>2. /\ a \o c \in Seq(0..255) /\ Len(a \o c) = Len(a) + Len(c)
        /\ \A i \in 1..Len(a) + Len(c) :
             (a \o c)[i] = IF i <= Len(a) THEN a[i] ELSE c[i - Len(a)]
    BY <2>1, ConcatProperties, ZenonT(30)
  <2>3. Queued = a \o c
    BY <1>3 DEF a, c
  <2> QED
    BY <2>1, <2>2, <2>3, Zenon DEF a, c
<1>5. call' = Idle /\ ret' = Array(call.str) /\ Queued' = Content'
  <2>1. call' = Idle /\ ret' = Array(call.str)
    BY DEF ReadDone, ReadNext
  <2> QED
    BY <1>0, <2>1, QueuedWhenIdleNext
<1> HIDE DEF k, n
<1>6. \A i \in 1..k : Queued[i] = call.str[i] /\ Queued[i] # 0
  BY <1>1, <1>2, <1>4
<1>7. SubSeq(Queued, 1, k) = call.str
  <2>1. \A i \in 1..k : Queued[i] \in 0..255
    <3>1. \A i \in 1..Len(Queued) : Queued[i] \in 0..255
      BY <1>4, ElementOfSeq
    <3> QED
      BY <1>1, <1>2, <1>4, <3>1
  <2>2. SubSeq(Queued, 1, k) = [i \in 1..k |-> Queued[i]]
    BY <1>1, <1>2, <1>4
  <2>3. call.str = [i \in 1..k |-> call.str[i]]
    BY <1>1 DEF k
  <2> QED
    BY <1>6, <2>2, <2>3
<1>8. ASSUME NEW r \in 0..1, k + r <= Len(Queued),
             Fifo!TextLength(Queued, n) = k, Fifo!Removed(Queued, n) = k + r,
             Content' = SubSeq(Content, r + 1, actual_len)
      PROVE  Fifo!GetArray(n)
  <2>1. SubSeq(Queued, k + r + 1, k + actual_len) = SubSeq(Content, r + 1, actual_len)
    <3>1. \A i \in 1..actual_len : Queued[k + i] = Content[i] /\ Content[i] \in 0..255
      <4>1. \A i \in 1..actual_len : Content[i] \in 0..255
        BY <1>2, ElementOfSeq
      <4> QED
        BY <1>1, <1>2, <1>4, <4>1
    <3>2. SubSeq(Content, r + 1, actual_len) = [i \in 1..actual_len - r |-> Content[r + i]]
      BY <1>1, <1>2, <1>4, <1>8, <3>1
    <3>3. SubSeq(Queued, k + r + 1, k + actual_len)
            = [i \in 1..actual_len - r |-> Queued[k + r + i]]
      BY <1>1, <1>2, <1>4, <1>8, <3>1
    <3>4. \A i \in 1..actual_len - r : Queued[k + r + i] = Content[r + i]
      BY <1>1, <1>2, <1>4, <1>8, <3>1
    <3> QED
      BY <3>2, <3>3, <3>4
  <2>2. Queued' = Fifo!Suffix(Queued, k + r)
    BY <1>4, <1>5, <1>8, <2>1 DEF Fifo!Suffix
  <2>3. ret' = Fifo!Array(Fifo!Prefix(Queued, k))
    BY <1>5, <1>7 DEF Fifo!Array, Fifo!Prefix, Array
  <2> QED
    BY <1>8, <2>2, <2>3 DEF Fifo!GetArray
<1>9. CASE ReadDone
  <2>1. k = n /\ Content' = Content
    BY <1>9 DEF ReadDone, k, n, ring, Content, SlotAt
  <2>2. Fifo!TextLength(Queued, n) = k
    <3>1. k \in 0..n /\ k <= Len(Queued)
      BY <1>1, <1>2, <1>4
    <3> QED
      BY <1>1, <1>4, <1>6, <2>1, <3>1, TextEnds
  <2>3. Fifo!Removed(Queued, n) = k + 0
    BY <1>1, <2>1, <2>2 DEF Fifo!Removed, Fifo!StopsAtZero
  <2>4. Content = SubSeq(Content, 0 + 1, actual_len)
    BY <1>2, SubSeqFull
  <2>5. Fifo!GetArray(n)
    <3>1. k + 0 <= Len(Queued)
      BY <1>1, <1>2, <1>4
    <3> QED
      BY <1>8, <2>1, <2>2, <2>3, <2>4, <3>1
  <2> QED
    BY <1>0, <2>5 DEF n
<1>10. CASE ReadNext /\ peeked <= 0
  <2>1. ReadByte /\ k < n
    BY <1>10 DEF ReadNext, k, n
  <2>2. CASE actual_len = 0
    <3>1. Content = <<>> /\ Content' = <<>>
      BY <1>0, <2>1, <2>2, ReadByteContent
    <3>2. Fifo!TextLength(Queued, n) = k
      <4>1. k \in 0..n /\ k = Len(Queued)
        BY <1>1, <1>2, <1>4, <2>2
      <4> QED
        BY <1>1, <1>4, <1>6, <4>1, TextEnds
    <3>3. Fifo!Removed(Queued, n) = k + 0
      BY <1>1, <1>4, <2>2, <3>2 DEF Fifo!Removed, Fifo!StopsAtZero
    <3>4. Content' = SubSeq(Content, 0 + 1, actual_len)
      BY <2>2, <3>1, SubSeqEmpty
    <3>5. k + 0 <= Len(Queued)
      BY <1>1, <1>4, <2>2
    <3>6. Fifo!GetArray(n)
      BY <1>8, <3>2, <3>3, <3>4, <3>5
    <3> QED
      BY <1>0, <3>6 DEF n
  <2>3. CASE actual_len > 0
    <3>1. /\ Content # <<>> /\ peeked = Head(Content) /\ Content' = Tail(Content)
          /\ peeked \in 0..255
      BY <1>0, <2>1, <2>3, ReadByteContent
    <3>2. Content[1] = 0 /\ Queued[k + 1] = 0
      <4>1. Content[1] = 0
        <5>1. peeked = 0
          <6>1. peeked <= 0
            BY <1>10
          <6>2. peeked \in 0..255
            BY <3>1
          <6> QED
            BY <6>1, <6>2
        <5>2. Head(Content) = Content[1]
          BY <1>2, <3>1
        <5> QED
          BY <3>1, <5>1, <5>2
      <4>2. k + 1 \in 1..k + actual_len /\ ~(k + 1 <= k) /\ (k + 1) - k = 1
        BY <1>1, <1>2, <2>3
      <4> QED
        BY <1>4, <4>1, <4>2
    <3>3. Fifo!TextLength(Queued, n) = k
      <4>1. k \in 0..n /\ k <= Len(Queued)
        BY <1>1, <1>2, <1>4
      <4> QED
        BY <1>1, <1>4, <1>6, <3>2, <4>1, TextEnds
    <3>4. Fifo!Removed(Queued, n) = k + 1 /\ k + 1 <= Len(Queued)
      BY <1>1, <1>2, <1>4, <2>1, <2>3, <3>3 DEF Fifo!Removed, Fifo!StopsAtZero
    <3>5. Content' = SubSeq(Content, 1 + 1, actual_len)
      BY <1>2, <3>1, TailIsSubSeq
    <3>6. Fifo!GetArray(n)
      BY <1>8, <3>3, <3>4, <3>5
    <3> QED
      BY <1>0, <3>6 DEF n
  <2> QED
    BY <1>2, <2>2, <2>3
<1> QED
  BY <1>9, <1>10
-----------------------------------------------------------------------------
LEMMA InitMapsToInit == Init => Fifo!Init
<1> SUFFICES ASSUME Init
             PROVE  Fifo!Init
  OBVIOUS
<1>1. IInv /\ call = Idle /\ actual_len = 0 /\ ret = Value(NoByte)
  BY InitIInv DEF Init
<1>2. Queued = Content /\ Content = <<>>
  BY <1>1, QueuedWhenIdle DEF Content
<1> QED
  BY <1>1, <1>2 DEF Fifo!Init, Fifo!Value, Fifo!NoByte, Value, NoByte

LEMMA StepMapsToStep ==
  LoopInv /\ LoopInv' /\ [Next]_vars => [Fifo!Next]_Fifo!fifoVars
<1> SUFFICES ASSUME LoopInv, LoopInv', [Next]_vars
             PROVE  Fifo!Next \/ (Queued' = Queued /\ ret' = ret)
  BY DEF Fifo!fifoVars
<1>0. TypeOK
  BY DEF LoopInv, IInv
<1>1. CASE Read
  BY <1>1, ReadIsGet DEF Fifo!Next
<1>2. CASE Peek
  BY <1>2, PeekIsPeek DEF Fifo!Next
<1>3. ASSUME NEW ch \in Byte, Write(ch)
      PROVE  Fifo!Next
  BY <1>3, WriteIsPut DEF Fifo!Next
<1>4. CASE (\E n \in 0..MaxArray : CallRead(n)) \/ (\E s \in Arrays : CallWrite(s))
  BY <1>4, CallsStutter
<1>5. CASE ReadDone \/ ReadNext
  <2>1. peeked \in Int
    BY <1>0, PeekedByte
  <2>2. CASE ReadNext /\ peeked > 0
    BY <2>2, ReadNextStutters
  <2>3. CASE ReadDone \/ (ReadNext /\ peeked <= 0)
    BY <2>3, ReadReturns DEF Fifo!Next
  <2> QED
    BY <1>5, <2>1, <2>2, <2>3
<1>6. CASE WriteNext \/ WriteDone
  <2>1. CASE call' = Idle
    <3>1. call.str \in Fifo!Arrays /\ Fifo!PutArray(call.str)
      BY <1>6, <2>1, WriteReturns DEF Fifo!Arrays, Arrays
    <3> QED
      BY <3>1 DEF Fifo!Next
  <2>2. CASE call' # Idle
    <3>1. WriteNext
      BY <1>6, <2>2 DEF WriteDone
    <3> QED
      BY <2>2, <3>1, WriteNextStutters
  <2> QED
    BY <2>1, <2>2
<1>7. CASE UNCHANGED vars
  BY <1>7 DEF vars, Queued, Content, SlotAt
<1> QED
  BY <1>1, <1>2, <1>3, <1>4, <1>5, <1>6, <1>7 DEF Next

(* RingBufferExt is a bounded queue of bytes, whatever its size: what      *)
(* read(), peek(), write() and the array calls of RingBufferExt.h return   *)
(* and leave behind is what those of ByteFifo do.  A loop over an array    *)
(* takes effect at once, when it returns.                                  *)
THEOREM RingImplementsFifo == Spec => ImplementsFifo
<1>1. Spec => []LoopInv
  BY InitLoopInv, StepLoopInv, PTL DEF Spec
<1> QED
  BY <1>1, InitMapsToInit, StepMapsToStep, PTL DEF Spec, ImplementsFifo, Fifo!Spec
=============================================================================
