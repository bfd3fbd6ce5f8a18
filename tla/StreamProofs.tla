------------------------------ MODULE StreamProofs ------------------------------
(***************************************************************************)
(* The byte streams: what EthernetClient and RemoteSerial send and hand    *)
(* out, for buffers of every size, any set of bytes and calls in any       *)
(* number, the cbuf as a queue of characters, and the blocks MD5Builder    *)
(* makes of a message.                                                     *)
(***************************************************************************)
EXTENDS TcpStream, RemoteSerial, CBuf, MD5Builder, SequenceTheorems, WellFoundedInduction,
        TLAPS

(* A sequence starts with its first part. *)
LEMMA PrefixOfConcat ==
  ASSUME NEW S, NEW a \in Seq(S), NEW b \in Seq(S)
  PROVE  IsPrefix(a, a \o b)
<1>1. /\ a \o b \in Seq(S) /\ Len(a \o b) = Len(a) + Len(b)
      /\ \A i \in 1 .. Len(a) + Len(b) : (a \o b)[i] = IF i <= Len(a) THEN a[i] ELSE b[i - Len(a)]
  BY ConcatProperties
<1>2. Len(a) \in Nat /\ Len(b) \in Nat
  OBVIOUS
<1> DEFINE c == a \o b
<1>3. c \in Seq(S) /\ Len(c) = Len(a) + Len(b) /\ \A i \in 1 .. Len(a) : c[i] = a[i]
  BY <1>1, <1>2
<1> HIDE DEF c
<1>4. SubSeq(a, 1, Len(a)) = SubSeq(c, 1, Len(a))
  BY <1>2, <1>3
<1> QED
  BY <1>2, <1>3, <1>4 DEF IsPrefix, c

(* A sequence is what it starts with and the rest. *)
LEMMA CutInTwo ==
  ASSUME NEW S, NEW s \in Seq(S), NEW n \in 0 .. Len(s)
  PROVE  /\ SubSeq(s, 1, n) \in Seq(S) /\ Len(SubSeq(s, 1, n)) = n
         /\ SubSeq(s, n + 1, Len(s)) \in Seq(S)
         /\ Len(SubSeq(s, n + 1, Len(s))) = Len(s) - n
         /\ SubSeq(s, 1, n) \o SubSeq(s, n + 1, Len(s)) = s
<1> DEFINE a == SubSeq(s, 1, n)
           b == SubSeq(s, n + 1, Len(s))
           c == a \o b
<1>1. Len(s) \in Nat /\ n \in Nat /\ n <= Len(s)
  OBVIOUS
<1>2. a \in Seq(S) /\ Len(a) = n /\ \A i \in 1 .. n : a[i] = s[i]
  BY <1>1
<1>3. b \in Seq(S) /\ Len(b) = Len(s) - n /\ \A i \in 1 .. Len(s) - n : b[i] = s[n + i]
  BY <1>1
<1> HIDE DEF a, b
<1>4. /\ c \in Seq(S) /\ Len(c) = Len(s)
      /\ \A i \in 1 .. Len(s) : c[i] = IF i <= n THEN a[i] ELSE b[i - n]
  BY <1>1, <1>2, <1>3, ConcatProperties
<1> HIDE DEF c
<1>5. \A i \in 1 .. Len(c) : c[i] = s[i]
  BY <1>1, <1>2, <1>3, <1>4
<1>6. c = s
  BY <1>4, <1>5, SeqEqual
<1> QED
  BY <1>2, <1>3, <1>6 DEF a, b, c

(***************************************************************************)
(* EthernetClient.                                                         *)
(***************************************************************************)
(* A connection that is not open any more has nothing in its queue; what   *)
(* the peer has sent and what it has got are told apart only while no      *)
(* send failed.                                                            *)
TcpTypes ==
  /\ writeBuffer \in Seq(TcpByte) /\ due \in Seq(TcpByte)
  /\ queue \in Seq(TcpByte) /\ arrived \in Seq(TcpByte) /\ got \in Seq(TcpByte)
  /\ tcp_call.len \in Nat
  /\ broken \in BOOLEAN

TcpInv ==
  /\ TcpTypes
  /\ ~broken => peer \in Seq(TcpByte) /\ peer \o writeBuffer = due
  /\ link \notin {"open", "ended"} => queue = <<>>
  /\ ReadsInOrder

LEMMA LeastOfNats ==
  ASSUME NEW T, T \subseteq Nat, T # {}
  PROVE  \E x \in T : \A y \in T : x <= y
<1>1. IsWellFoundedOn(OpToRel(<, Nat), Nat)
  BY NatLessThanWellFounded
<1>2. PICK x \in T : \A y \in T : ~(<<y, x>> \in OpToRel(<, Nat))
  BY <1>1, WFMin
<1>3. \A y \in T : ~(y < x)
  BY <1>2 DEF OpToRel
<1> QED
  BY <1>3

(* The least of a set of numbers, as the libraries write it. *)
LEMMA MinIsLeast ==
  ASSUME NEW T, T \subseteq Nat, T # {}
  PROVE  Min(T) \in T /\ \A y \in T : Min(T) <= y
BY LeastOfNats DEF Min

LEMMA LeftIsSeq ==
  ASSUME NEW s \in Seq(TcpByte)
  PROVE  TcpLeft(s) \in Seq(TcpByte) /\ (~HasZero(s) => TcpLeft(s) = <<>>)
<1>1. CASE HasZero(s)
  <2> DEFINE I == {i \in 1 .. Len(s) : s[i] = Zero}
  <2>1. I # {} /\ I \subseteq Nat
    BY <1>1 DEF HasZero, ToSet
  <2>2. Min(I) \in 1 .. Len(s)
    BY <2>1, MinIsLeast
  <2>3. TextLength(s) = Min(I) - 1
    BY <2>1 DEF TextLength, SelectInSeq
  <2> HIDE DEF I
  <2>4. TcpLeft(s) = SubSeq(s, Min(I) + 1, Len(s))
    BY <1>1, <2>2, <2>3 DEF TcpLeft
  <2>5. \A k \in 1 .. Len(s) : SubSeq(s, k + 1, Len(s)) \in Seq(TcpByte)
    BY CutInTwo
  <2> QED
    BY <1>1, <2>2, <2>4, <2>5
<1>2. CASE ~HasZero(s)
  BY <1>2 DEF TcpLeft
<1> QED
  BY <1>1, <1>2

LEMMA TcpAssociative == \A r, s, t \in Seq(TcpByte) : r \o (s \o t) = (r \o s) \o t
<1> TAKE r, s, t \in Seq(TcpByte)
<1> QED
  BY ConcatAssociative

LEMMA TcpSequences ==
  /\ <<>> \in Seq(TcpByte) /\ IsPrefix(<<>>, <<>>)
  /\ \A s \in Seq(TcpByte) : s \o <<>> = s /\ <<>> \o s = s
  /\ \A s \in Seq(TcpByte), b \in TcpByte :
       /\ Append(s, b) \in Seq(TcpByte) /\ <<b>> \in Seq(TcpByte)
       /\ Append(s, b) = s \o <<b>>
<1>1. <<>> \in Seq(TcpByte) /\ IsPrefix(<<>>, <<>>)
  BY DEF IsPrefix
<1>2. \A s \in Seq(TcpByte) : s \o <<>> = s /\ <<>> \o s = s
  BY ConcatEmptySeq
<1>3. \A s \in Seq(TcpByte), b \in TcpByte :
        /\ Append(s, b) \in Seq(TcpByte) /\ <<b>> \in Seq(TcpByte)
        /\ Append(s, b) = s \o <<b>>
  BY AppendProperties, AppendIsConcat
<1> QED
  BY <1>1, <1>2, <1>3

LEMMA InitTcpInv == TcpInit => TcpInv
<1> SUFFICES ASSUME TcpInit
             PROVE  TcpInv
  OBVIOUS
<1>1. <<>> \in Seq(TcpByte) /\ <<>> \o <<>> = <<>> /\ 0 \in Nat /\ IsPrefix(<<>>, <<>>)
  BY TcpSequences
<1> QED
  BY <1>1 DEF TcpInit, TcpInv, TcpTypes, ReadsInOrder, TcpIdle

(* The output side: what does not go into the buffer goes to the peer. *)
LEMMA OutputKept ==
  ASSUME TcpInv, UNCHANGED <<link, queue, arrived, got, tcp_call>>,
         writeBuffer' \in Seq(TcpByte), due' \in Seq(TcpByte), broken' \in BOOLEAN,
         ~broken' => peer' \in Seq(TcpByte) /\ peer' \o writeBuffer' = due'
  PROVE  TcpInv'
BY DEF TcpInv, TcpTypes, ReadsInOrder

(* The buffer and s are sent, and t is kept: nothing is lost if the send   *)
(* did not fail and the buffer had no zero byte.                           *)
LEMMA SendsInOrder ==
  ASSUME TcpInv, NEW s \in Seq(TcpByte), NEW t \in Seq(TcpByte), NEW sent,
         Reaches(sent), ~HasZero(writeBuffer) => sent = writeBuffer \o s,
         writeBuffer' \in Seq(TcpByte), ~HasZero(writeBuffer) => writeBuffer' = t,
         broken' = (broken \/ Fails(writeBuffer \o s) \/ HasZero(writeBuffer)),
         due' = (due \o s) \o t,
         UNCHANGED <<link, queue, arrived, got, tcp_call>>
  PROVE  TcpInv'
<1>1. writeBuffer \in Seq(TcpByte) /\ due \in Seq(TcpByte) /\ broken \in BOOLEAN
  BY DEF TcpInv, TcpTypes
<1>2. due' \in Seq(TcpByte)
  BY <1>1, ConcatProperties
<1>3. broken' \in BOOLEAN
  BY <1>1, Zenon DEF Fails, HasZero
<1>4. ASSUME ~broken'
      PROVE  peer' \in Seq(TcpByte) /\ peer' \o writeBuffer' = due'
  <2>1. /\ ~broken /\ ~HasZero(writeBuffer) /\ ~Fails(writeBuffer \o s)
        /\ peer \in Seq(TcpByte) /\ peer \o writeBuffer = due
    BY <1>4, Zenon DEF TcpInv
  <2>2. sent = writeBuffer \o s /\ writeBuffer' = t
    BY <2>1
  <2>3. sent \in Seq(TcpByte)
    BY <1>1, <2>2, ConcatProperties
  <2>4. peer' = peer \o sent
    <3>1. CASE link \in {"open", "ended"}
      BY <3>1 DEF Reaches
    <3>2. CASE link \notin {"open", "ended"}
      <4>1. sent = <<>>
        BY <2>1, <2>2, <3>2 DEF Fails
      <4>2. peer' = peer
        BY <3>2 DEF Reaches
      <4> QED
        BY <2>1, <4>1, <4>2, ConcatEmptySeq
    <3> QED
      BY <3>1, <3>2
  <2>5. peer \o (writeBuffer \o s) = due \o s
    <3>1. peer \in Seq(TcpByte) /\ writeBuffer \in Seq(TcpByte) /\ s \in Seq(TcpByte)
      BY <1>1, <2>1
    <3>2. peer \o (writeBuffer \o s) = (peer \o writeBuffer) \o s
      BY <3>1, TcpAssociative, Zenon
    <3> QED
      BY <2>1, <3>2
  <2>6. peer' \in Seq(TcpByte)
    BY <2>1, <2>3, <2>4, ConcatProperties
  <2> QED
    BY <2>2, <2>4, <2>5, <2>6
<1> QED
  BY <1>2, <1>3, <1>4, OutputKept

LEMMA OutputKeepsTcp ==
  ASSUME TcpInv,
         \/ tcpFlush
         \/ \E b \in TcpByte : TcpWriteByte(b)
         \/ \E s \in TcpArrays : WriteArray(s)
  PROVE  TcpInv'
<1>0. /\ writeBuffer \in Seq(TcpByte) /\ due \in Seq(TcpByte) /\ <<>> \in Seq(TcpByte)
      /\ broken \in BOOLEAN /\ TcpLeft(writeBuffer) \in Seq(TcpByte)
      /\ ~HasZero(writeBuffer) => /\ TcpLeft(writeBuffer) = <<>>
                                  /\ TcpFlushed(writeBuffer) = writeBuffer
  BY LeftIsSeq DEF TcpInv, TcpTypes, TcpFlushed
<1>1. UNCHANGED <<link, queue, arrived, got, tcp_call>>
  BY DEF tcpFlush, TcpWriteByte, WriteArray, connection, input
<1>2. \A s \in Seq(TcpByte) : s \o <<>> = s /\ <<>> \o s = s
  BY ConcatEmptySeq
<1>3. CASE tcpFlush
  <2>1. /\ Reaches(TcpFlushed(writeBuffer)) /\ due' = due
        /\ writeBuffer' = TcpLeft(writeBuffer)
        /\ broken' = (broken \/ Fails(writeBuffer) \/ HasZero(writeBuffer))
    BY <1>3 DEF tcpFlush
  <2>2. /\ due' = (due \o <<>>) \o <<>>
        /\ broken' = (broken \/ Fails(writeBuffer \o <<>>) \/ HasZero(writeBuffer))
        /\ ~HasZero(writeBuffer) => TcpFlushed(writeBuffer) = writeBuffer \o <<>>
        /\ ~HasZero(writeBuffer) => writeBuffer' = <<>> /\ writeBuffer' \in Seq(TcpByte)
    BY <1>0, <1>2, <2>1, Zenon
  <2> QED
    BY <1>0, <1>1, <2>1, <2>2, SendsInOrder
<1>4. ASSUME NEW s \in TcpArrays, WriteArray(s)
      PROVE  TcpInv'
  <2>0. s \in Seq(TcpByte)
    BY DEF TcpArrays
  <2>1. /\ Reaches(TcpFlushed(writeBuffer) \o s) /\ due' = due \o s
        /\ writeBuffer' = TcpLeft(writeBuffer)
        /\ broken' = (broken \/ Fails(writeBuffer \o s) \/ HasZero(writeBuffer))
    BY <1>4 DEF WriteArray
  <2>2. due \o s \in Seq(TcpByte)
    BY <1>0, <2>0, ConcatProperties
  <2>3. due' = (due \o s) \o <<>>
    BY <1>2, <2>1, <2>2
  <2>4. /\ ~HasZero(writeBuffer) => TcpFlushed(writeBuffer) \o s = writeBuffer \o s
        /\ ~HasZero(writeBuffer) => writeBuffer' = <<>>
    BY <1>0, <2>1
  <2> QED
    BY <1>0, <1>1, <2>0, <2>1, <2>3, <2>4, SendsInOrder
<1>5. ASSUME NEW b \in TcpByte, TcpWriteByte(b)
      PROVE  TcpInv'
  <2>0. due' = Append(due, b) /\ <<b>> \in Seq(TcpByte)
    BY <1>5 DEF TcpWriteByte
  <2>1. CASE Len(writeBuffer) = TcpBufferSize
    <3>1. /\ Reaches(TcpFlushed(writeBuffer))
          /\ writeBuffer' = Append(TcpLeft(writeBuffer), b)
          /\ broken' = (broken \/ Fails(writeBuffer) \/ HasZero(writeBuffer))
      BY <1>5, <2>1 DEF TcpWriteByte
    <3>2. writeBuffer' \in Seq(TcpByte) /\ (~HasZero(writeBuffer) => writeBuffer' = <<b>>)
      <4>1. writeBuffer' \in Seq(TcpByte)
        BY <1>0, <3>1, TcpSequences
      <4>2. Append(<<>>, b) = <<b>>
        OBVIOUS
      <4> QED
        BY <1>0, <3>1, <4>1, <4>2
    <3>3. due' = (due \o <<>>) \o <<b>>
      BY <1>0, <1>2, <2>0, AppendIsConcat
    <3>4. /\ broken' = (broken \/ Fails(writeBuffer \o <<>>) \/ HasZero(writeBuffer))
          /\ ~HasZero(writeBuffer) => TcpFlushed(writeBuffer) = writeBuffer \o <<>>
      BY <1>0, <1>2, <3>1, Zenon
    <3> QED
      BY <1>0, <1>1, <2>0, <3>1, <3>2, <3>3, <3>4, SendsInOrder
  <2>2. CASE Len(writeBuffer) # TcpBufferSize
    <3>1. writeBuffer' = Append(writeBuffer, b) /\ UNCHANGED <<peer, broken>>
      BY <1>5, <2>2 DEF TcpWriteByte
    <3>2. writeBuffer' \in Seq(TcpByte) /\ due' \in Seq(TcpByte)
      BY <1>0, <2>0, <3>1, AppendProperties
    <3> DEFINE last == <<b>>
    <3> HIDE DEF last
    <3>3. ASSUME ~broken'
          PROVE  peer' \in Seq(TcpByte) /\ peer' \o writeBuffer' = due'
      <4>1. peer \in Seq(TcpByte) /\ peer \o writeBuffer = due
        BY <3>1, <3>3 DEF TcpInv
      <4>2. /\ writeBuffer' = writeBuffer \o last /\ due' = due \o last
            /\ last \in Seq(TcpByte)
        BY <1>0, <2>0, <3>1, TcpSequences DEF last
      <4>3. peer \o (writeBuffer \o last) = (peer \o writeBuffer) \o last
        <5>1. /\ peer \in Seq(TcpByte) /\ writeBuffer \in Seq(TcpByte)
              /\ last \in Seq(TcpByte)
          BY <1>0, <4>1, <4>2
        <5> QED
          BY <5>1, TcpAssociative, Zenon
      <4>4. peer' = peer
        BY <3>1
      <4> QED
        BY <4>1, <4>2, <4>3, <4>4, Zenon
    <3> QED
      BY <1>0, <1>1, <3>1, <3>2, <3>3, OutputKept
  <2> QED
    BY <2>1, <2>2
<1> QED
  BY <1>3, <1>4, <1>5

LEMMA ConnectKeepsTcp == TcpInv /\ (Stop \/ \E to : Connect(to)) => TcpInv'
<1> SUFFICES ASSUME TcpInv, Stop \/ \E to : Connect(to)
             PROVE  TcpInv'
  OBVIOUS
<1>0. TcpTypes /\ <<>> \in Seq(TcpByte) /\ IsPrefix(<<>>, <<>>) /\ <<>> \o <<>> = <<>>
  BY TcpSequences DEF TcpInv
<1>1. CASE Stop
  <2>1. /\ UNCHANGED <<writeBuffer, peer, due, broken, arrived, got, tcp_call>>
        /\ link' = "none" /\ queue' = <<>>
    BY <1>1 DEF Stop, output
  <2> QED
    BY <1>0, <2>1 DEF TcpInv, TcpTypes, ReadsInOrder
<1>2. ASSUME NEW to, Connect(to)
      PROVE  TcpInv'
  <2>1. /\ peer' = <<>> /\ due' = writeBuffer /\ queue' = <<>> /\ arrived' = <<>>
        /\ got' = <<>> /\ broken' = FALSE /\ UNCHANGED <<writeBuffer, tcp_call>>
    BY <1>2 DEF Connect
  <2>2. <<>> \o writeBuffer = writeBuffer
    BY <1>0, ConcatEmptySeq DEF TcpTypes
  <2> QED
    BY <1>0, <2>1, <2>2 DEF TcpInv, TcpTypes, ReadsInOrder
<1> QED
  BY <1>1, <1>2

LEMMA PollReadKeepsTcp == TcpInv /\ PollRead => TcpInv'
<1> SUFFICES ASSUME TcpInv, PollRead
             PROVE  TcpInv'
  OBVIOUS
<1> DEFINE n == IF Len(queue) < tcp_call.len THEN Len(queue) ELSE tcp_call.len
           now == SubSeq(queue, 1, n)
           rest == SubSeq(queue, n + 1, Len(queue))
<1>0. TcpTypes /\ link \in {"open", "ended"} /\ got \o queue = arrived
  BY DEF TcpInv, PollRead, ReadsInOrder
<1>1. /\ got' = got \o now /\ queue' = rest /\ tcp_call' = TcpIdle
      /\ UNCHANGED <<writeBuffer, peer, due, broken, arrived, link>>
  BY DEF PollRead, connection, output
<1>2. n \in 0 .. Len(queue)
  BY <1>0 DEF TcpTypes
<1> HIDE DEF n
<1>3. now \in Seq(TcpByte) /\ rest \in Seq(TcpByte) /\ now \o rest = queue
  BY <1>0, <1>2, CutInTwo DEF TcpTypes
<1> HIDE DEF now, rest
<1>4. got' \in Seq(TcpByte) /\ (got \o now) \o rest = arrived
  <2>1. got \in Seq(TcpByte)
    BY <1>0 DEF TcpTypes
  <2>2. (got \o now) \o rest = arrived
    BY <1>0, <1>3, <2>1, TcpAssociative, Zenon
  <2> QED
    BY <1>1, <1>3, <2>1, <2>2, ConcatProperties
<1>5. IsPrefix(got', arrived)
  BY <1>1, <1>3, <1>4, PrefixOfConcat
<1>6. tcp_call'.len \in Nat
  BY <1>1 DEF TcpIdle
<1> QED
  BY <1>0, <1>1, <1>3, <1>4, <1>5, <1>6 DEF TcpInv, TcpTypes, ReadsInOrder

LEMMA PeerKeepsTcp ==
  ASSUME TcpInv, PeerEnds \/ PeerResets \/ \E b \in TcpByte : TcpArrive(b)
  PROVE  TcpInv'
<1>0. TcpTypes /\ <<>> \in Seq(TcpByte)
  BY DEF TcpInv
<1>1. CASE PeerEnds \/ PeerResets
  <2>1. /\ UNCHANGED <<writeBuffer, peer, due, broken, arrived, got, tcp_call>>
        /\ \/ link = "open" /\ link' = "ended" /\ queue' = queue
           \/ link' = "reset" /\ queue' = <<>>
    BY <1>1 DEF PeerEnds, PeerResets, output, input
  <2> QED
    BY <1>0, <2>1 DEF TcpInv, TcpTypes, ReadsInOrder
<1>2. ASSUME NEW b \in TcpByte, TcpArrive(b)
      PROVE  TcpInv'
  <2>1. /\ UNCHANGED <<writeBuffer, peer, due, broken, got, tcp_call, link>>
        /\ queue' = Append(queue, b) /\ arrived' = Append(arrived, b) /\ link = "open"
    BY <1>2 DEF TcpArrive, connection, output
  <2>2. got \o queue = arrived
    BY <2>1 DEF TcpInv, ReadsInOrder
  <2> DEFINE new == <<b>>
  <2>3. /\ queue' \in Seq(TcpByte) /\ arrived' \in Seq(TcpByte) /\ new \in Seq(TcpByte)
        /\ queue' = queue \o new /\ arrived' = arrived \o new
    BY <1>0, <2>1, TcpSequences DEF TcpTypes
  <2> HIDE DEF new
  <2>4. got \o queue' = arrived'
    <3>1. got \in Seq(TcpByte) /\ queue \in Seq(TcpByte) /\ new \in Seq(TcpByte)
      BY <1>0, <2>3 DEF TcpTypes
    <3>2. got \o (queue \o new) = (got \o queue) \o new
      BY <3>1, TcpAssociative, Zenon
    <3> QED
      BY <2>2, <2>3, <3>2
  <2>5. IsPrefix(got, arrived')
    BY <1>0, <2>3, <2>4, PrefixOfConcat DEF TcpTypes
  <2> QED
    BY <1>0, <2>1, <2>3, <2>4, <2>5 DEF TcpInv, TcpTypes, ReadsInOrder
<1> QED
  BY <1>1, <1>2

LEMMA StepTcpInv == TcpInv /\ [TcpNext]_tcpVars => TcpInv'
<1> SUFFICES ASSUME TcpInv, [TcpNext]_tcpVars
             PROVE  TcpInv'
  OBVIOUS
<1>1. CASE /\ UNCHANGED <<writeBuffer, peer, due, broken, arrived, got, queue, link>>
           /\ tcp_call'.len \in Nat
  BY <1>1 DEF TcpInv, TcpTypes, ReadsInOrder
<1>2. ASSUME NEW n \in Nat, NEW op, Call(op, n)
      PROVE  TcpInv'
  BY <1>1, <1>2 DEF Call, Waiting, connection, output, input
<1>3. CASE PollAvailable \/ PollConnected \/ PollNothing \/ Expire
  <2>1. tcp_call.len \in Nat
    BY DEF TcpInv, TcpTypes
  <2>2. tcp_call' = TcpIdle \/ tcp_call' = [tcp_call EXCEPT !.polled = TRUE]
    BY <1>3 DEF PollAvailable, PollConnected, PollNothing, Expire
  <2>3. tcp_call'.len \in Nat
    <3>1. CASE tcp_call' = TcpIdle
      BY <3>1 DEF TcpIdle
    <3>2. CASE tcp_call' = [tcp_call EXCEPT !.polled = TRUE]
      BY <2>1, <3>2
    <3> QED
      BY <2>2, <3>1, <3>2
  <2> QED
    BY <1>1, <1>3, <2>3
    DEF PollAvailable, PollConnected, PollNothing, Expire, connection, output, input
<1>4. CASE UNCHANGED tcpVars
  BY <1>4 DEF TcpInv, TcpTypes, ReadsInOrder, tcpVars, connection, output, input
<1> QED
  BY <1>2, <1>3, <1>4, OutputKeepsTcp, ConnectKeepsTcp, PollReadKeepsTcp, PeerKeepsTcp
  DEF TcpNext

LEMMA TcpInvariant == TcpSpec => []TcpInv
BY InitTcpInv, StepTcpInv, PTL DEF TcpSpec

(* The peer of a connection gets the bytes in their order and once, and    *)
(* what it has not got yet is in the buffer: for every buffer size.        *)
THEOREM PeerGetsAll == TcpSpec => []PeerGetsWritten
<1>1. TcpInv => PeerGetsWritten
  BY DEF TcpInv, PeerGetsWritten
<1> QED
  BY <1>1, TcpInvariant, PTL

(* The sketch reads the peer's bytes in their order and once, whenever the *)
(* deadlines of its calls pass.                                            *)
THEOREM SketchReadsAll == TcpSpec => []ReadsInOrder
<1>1. TcpInv => ReadsInOrder
  BY DEF TcpInv
<1> QED
  BY <1>1, TcpInvariant, PTL

(***************************************************************************)
(* RemoteSerial.  Flushed and FlushAnswers are recursive functions: that   *)
(* there are such functions is shown by induction on the length, as the    *)
(* absence of a least length without one.                                  *)
(***************************************************************************)
Buffered == BoundedSeq(Unit, SerialBufferSize)

LEMMA TextIsSeq == \A q : q \in Buffered <=> q \in Seq(Unit) /\ Len(q) <= SerialBufferSize
<1>1. ASSUME NEW q \in Buffered
      PROVE  q \in Seq(Unit) /\ Len(q) <= SerialBufferSize
  <2>1. PICK m \in 0 .. SerialBufferSize : q \in [1 .. m -> Unit]
    BY DEF Buffered, BoundedSeq, SeqOf
  <2>2. m \in Nat /\ m <= SerialBufferSize
    BY SerialAssumption
  <2> QED
    BY <2>1, <2>2
<1>2. ASSUME NEW q \in Seq(Unit), Len(q) <= SerialBufferSize
      PROVE  q \in Buffered
  <2>1. Len(q) \in 0 .. SerialBufferSize /\ q \in [1 .. Len(q) -> Unit]
    BY <1>2, SerialAssumption
  <2> QED
    BY <2>1 DEF Buffered, BoundedSeq, SeqOf
<1> QED
  BY <1>1, <1>2

LEMMA NoText == <<>> \in Buffered
<1>1. <<>> \in Seq(Unit) /\ Len(<<>>) = 0
  OBVIOUS
<1>2. 0 <= SerialBufferSize
  BY SerialAssumption
<1> QED
  BY <1>1, <1>2, TextIsSeq

(* An array read of the whole buffer takes something from it. *)
LEMMA LeftIsShorter ==
  ASSUME NEW q \in Buffered, q # <<>>
  PROVE  SerialLeft(q, Len(q)) \in Buffered /\ Len(SerialLeft(q, Len(q))) < Len(q)
<1> DEFINE I == {i \in 1 .. Len(q) : q[i] = 0} \cup {Lesser(Len(q), Len(q)) + 1}
           k == Lesser(Len(q), Min(I))
<1>1. q \in Seq(Unit) /\ Len(q) \in Nat /\ Len(q) > 0 /\ Len(q) <= SerialBufferSize
  BY TextIsSeq, EmptySeq
<1>2. I \subseteq Nat /\ I # {} /\ \A i \in I : i >= 1
  BY <1>1 DEF Lesser
<1>3. Min(I) \in Nat /\ Min(I) >= 1
  BY <1>2, MinIsLeast
<1>4. ZeroAt(q, Len(q)) = Min(I)
  BY DEF ZeroAt
<1> HIDE DEF I
<1>5. k \in 1 .. Len(q)
  BY <1>1, <1>3 DEF Lesser
<1>6. SerialLeft(q, Len(q)) = SubSeq(q, Lesser(k, Len(q)) + 1, Len(q))
  BY <1>4 DEF SerialLeft, After
<1> HIDE DEF k
<1>7. SerialLeft(q, Len(q)) = SubSeq(q, k + 1, Len(q))
  <2>1. Lesser(k, Len(q)) = k
    BY <1>1, <1>5 DEF Lesser
  <2> QED
    BY <1>6, <2>1
<1>8. /\ SubSeq(q, k + 1, Len(q)) \in Seq(Unit)
      /\ Len(SubSeq(q, k + 1, Len(q))) = Len(q) - k
  BY <1>1, <1>5, CutInTwo
<1>9. Len(q) - k < Len(q) /\ Len(q) - k <= SerialBufferSize
  BY <1>1, <1>5, SerialAssumption
<1> QED
  BY <1>7, <1>8, <1>9, TextIsSeq

Shorter(n) == {q \in Buffered : Len(q) < n}

LEMMA RecursionOnText ==
  ASSUME NEW G
  PROVE  \E f : f = [q \in Buffered |-> IF q = <<>> THEN <<>>
                                     ELSE f[SerialLeft(q, Len(q))] \o G[q]]
<1> DEFINE Solves(f, n) == f = [q \in Shorter(n) |-> IF q = <<>> THEN <<>>
                                                     ELSE f[SerialLeft(q, Len(q))] \o G[q]]
           T == {n \in Nat : \A f : ~Solves(f, n)}
<1>1. T = {}
  <2> SUFFICES ASSUME T # {}
               PROVE  FALSE
    OBVIOUS
  <2>1. T \subseteq Nat
    OBVIOUS
  <2>2. PICK n \in T : \A m \in T : n <= m
    BY <2>1, LeastOfNats
  <2>3. n \in Nat /\ \A f : ~Solves(f, n)
    OBVIOUS
  <2>4. n # 0
    <3>1. Shorter(0) = {}
      BY TextIsSeq DEF Shorter
    <3>2. Solves([q \in {} |-> <<>>], 0)
      BY <3>1
    <3> QED
      BY <2>3, <3>2
  <2>5. n - 1 \in Nat /\ n - 1 \notin T
    <3>1. n - 1 \in Nat /\ ~(n <= n - 1)
      BY <2>3, <2>4
    <3> QED
      BY <2>2, <3>1, Zenon
  <2>6. PICK f : Solves(f, n - 1)
    BY <2>5
  <2> DEFINE g == [q \in Shorter(n) |-> IF q = <<>> THEN <<>>
                                        ELSE f[SerialLeft(q, Len(q))] \o G[q]]
  <2>7. ASSUME NEW r \in Shorter(n - 1)
        PROVE  r \in Shorter(n) /\ g[r] = f[r]
    <3>1. r \in Shorter(n)
      BY <2>3, TextIsSeq DEF Shorter
    <3>2. f[r] = IF r = <<>> THEN <<>> ELSE f[SerialLeft(r, Len(r))] \o G[r]
      BY <2>6
    <3> QED
      BY <3>1, <3>2
  <2>8. ASSUME NEW q \in Shorter(n), q # <<>>
        PROVE  g[SerialLeft(q, Len(q))] = f[SerialLeft(q, Len(q))]
    <3>1. q \in Buffered /\ Len(q) < n /\ Len(q) \in Nat
      BY TextIsSeq DEF Shorter
    <3>2. SerialLeft(q, Len(q)) \in Buffered /\ Len(SerialLeft(q, Len(q))) < Len(q)
      BY <2>8, <3>1, LeftIsShorter
    <3>3. Len(SerialLeft(q, Len(q))) \in Nat
      BY <3>2, TextIsSeq
    <3>4. SerialLeft(q, Len(q)) \in Shorter(n - 1)
      BY <2>3, <3>1, <3>2, <3>3 DEF Shorter
    <3> QED
      BY <2>7, <3>4
  <2>9. g = [q \in Shorter(n) |-> IF q = <<>> THEN <<>>
                                  ELSE g[SerialLeft(q, Len(q))] \o G[q]]
    <3> DEFINE h == [q \in Shorter(n) |-> IF q = <<>> THEN <<>>
                                          ELSE g[SerialLeft(q, Len(q))] \o G[q]]
    <3>1. ASSUME NEW q \in Shorter(n)
          PROVE  g[q] = h[q]
      <4>1. CASE q = <<>>
        BY <4>1
      <4>2. CASE q # <<>>
        <5>1. g[SerialLeft(q, Len(q))] = f[SerialLeft(q, Len(q))]
          BY <2>8, <4>2
        <5>2. g[q] = f[SerialLeft(q, Len(q))] \o G[q]
          BY <4>2
        <5>3. h[q] = g[SerialLeft(q, Len(q))] \o G[q]
          BY <4>2
        <5> QED
          BY <5>1, <5>2, <5>3
      <4> QED
        BY <4>1, <4>2
    <3> QED
      BY <3>1
  <2>10. Solves(g, n)
    BY <2>9
  <2> QED
    BY <2>3, <2>10
<1> DEFINE top == SerialBufferSize + 1
<1>2. top \in Nat
  BY SerialAssumption
<1> HIDE DEF top, Solves
<1>3. PICK f : Solves(f, top)
  BY <1>1, <1>2, Zenon
<1> USE DEF top, Solves
<1>4. Shorter(top) = Buffered
  <2>1. \A q \in Buffered : Len(q) \in Nat /\ Len(q) <= SerialBufferSize
    BY TextIsSeq
  <2> QED
    BY <2>1, SerialAssumption DEF Shorter
<1> QED
  BY <1>3, <1>4

LEMMA FlushedUnfolds ==
  /\ Flushed[<<>>] = <<>>
  /\ \A q \in Buffered \ {<<>>} : Flushed[q] = Flushed[SerialLeft(q, Len(q))] \o WithJunk(q)
<1> DEFINE G == [q \in Buffered |-> WithJunk(q)]
<1>1. PICK f : f = [q \in Buffered |-> IF q = <<>> THEN <<>>
                                    ELSE f[SerialLeft(q, Len(q))] \o G[q]]
  BY RecursionOnText
<1>2. f = [q \in Buffered |-> IF q = <<>> THEN <<>>
                           ELSE f[SerialLeft(q, Len(q))] \o WithJunk(q)]
  <2> DEFINE h == [q \in Buffered |-> IF q = <<>> THEN <<>>
                                   ELSE f[SerialLeft(q, Len(q))] \o WithJunk(q)]
  <2>1. \A q \in Buffered : G[q] = WithJunk(q)
    OBVIOUS
  <2> HIDE DEF G
  <2>2. \A q \in Buffered : f[q] = h[q]
    BY <1>1, <2>1
  <2>3. f = [q \in Buffered |-> f[q]]
    BY <1>1
  <2> QED
    BY <2>2, <2>3
<1>3. Flushed = [q \in Buffered |-> IF q = <<>> THEN <<>>
                                 ELSE Flushed[SerialLeft(q, Len(q))] \o WithJunk(q)]
  BY <1>2 DEF Flushed, Buffered
<1> QED
  BY <1>3, NoText

LEMMA FlushAnswersUnfolds ==
  /\ FlushAnswers[<<>>] = <<>>
  /\ \A q \in Buffered \ {<<>>} : FlushAnswers[q] = FlushAnswers[SerialLeft(q, Len(q))] \o Count
<1> DEFINE G == [q \in Buffered |-> Count]
<1>1. PICK f : f = [q \in Buffered |-> IF q = <<>> THEN <<>>
                                    ELSE f[SerialLeft(q, Len(q))] \o G[q]]
  BY RecursionOnText
<1>2. f = [q \in Buffered |-> IF q = <<>> THEN <<>> ELSE f[SerialLeft(q, Len(q))] \o Count]
  <2> DEFINE h == [q \in Buffered |-> IF q = <<>> THEN <<>>
                                   ELSE f[SerialLeft(q, Len(q))] \o Count]
  <2>1. \A q \in Buffered : G[q] = Count
    OBVIOUS
  <2> HIDE DEF G
  <2>2. \A q \in Buffered : f[q] = h[q]
    BY <1>1, <2>1
  <2>3. f = [q \in Buffered |-> f[q]]
    BY <1>1
  <2> QED
    BY <2>2, <2>3
<1>3. FlushAnswers = [q \in Buffered |-> IF q = <<>> THEN <<>>
                                      ELSE FlushAnswers[SerialLeft(q, Len(q))] \o Count]
  BY <1>2 DEF FlushAnswers, Buffered
<1> QED
  BY <1>3, NoText

(* A buffer without a zero is sent as it is, with one count. *)
LEMMA PlainText ==
  ASSUME NEW q \in Buffered, \A i \in 1 .. Len(q) : q[i] # 0
  PROVE  Flushed[q] = q /\ FlushAnswers[q] = IF q = <<>> THEN <<>> ELSE Count
<1>1. q \in Seq(Unit) /\ Len(q) \in Nat
  BY TextIsSeq
<1>2. CASE q = <<>>
  BY <1>2, FlushedUnfolds, FlushAnswersUnfolds
<1>3. CASE q # <<>>
  <2>1. {i \in 1 .. Len(q) : q[i] = 0} = {}
    OBVIOUS
  <2>2. ZeroAt(q, Len(q)) = Len(q) + 1
    <3> DEFINE I == {i \in 1 .. Len(q) : q[i] = 0} \cup {Lesser(Len(q), Len(q)) + 1}
    <3>1. I = {Len(q) + 1}
      BY <1>1, <2>1 DEF Lesser
    <3>2. I \subseteq Nat /\ I # {}
      BY <1>1, <3>1
    <3>3. Min(I) \in I
      BY <3>2, MinIsLeast
    <3> QED
      BY <3>1, <3>3 DEF ZeroAt
  <2>3. /\ Lesser(Len(q), Len(q) + 1 - 1) = Len(q) /\ Lesser(Len(q), Len(q) + 1) = Len(q)
        /\ Lesser(Len(q), Len(q)) = Len(q)
    BY <1>1 DEF Lesser
  <2>4. SubSeq(q, 1, Len(q)) = q /\ SubSeq(q, Len(q) + 1, Len(q)) = <<>>
    BY <1>1
  <2>5. Text(q, Len(q)) = q /\ SerialLeft(q, Len(q)) = <<>>
    BY <2>2, <2>3, <2>4 DEF Text, SerialLeft, First, After
  <2>6. [i \in 1 .. Len(q) - Len(q) |-> Junk] = <<>>
    BY <1>1
  <2>7. WithJunk(q) = q
    BY <1>1, <2>5, <2>6, ConcatEmptySeq DEF WithJunk
  <2>8. /\ Flushed[q] = Flushed[<<>>] \o q
        /\ FlushAnswers[q] = FlushAnswers[<<>>] \o Count
    BY <1>3, <2>5, <2>7, FlushedUnfolds, FlushAnswersUnfolds
  <2>9. Count \in Seq(Int)
    BY DEF Count
  <2> QED
    BY <1>1, <1>3, <2>8, <2>9, ConcatEmptySeq, FlushedUnfolds, FlushAnswersUnfolds
<1> QED
  BY <1>2, <1>3

(* What is received, and what is sent, while no zero byte and no late      *)
(* answer has mixed it up.                                                 *)
InOrder ==
  /\ incoming = <<>>
  /\ taken \in Seq(Nat) /\ read_buffer \in Seq(Nat)
  /\ taken \o (read_buffer \o port) = serial_arrived

SentSoFar ==
  /\ \A i \in 1 .. Len(write_buffer) : write_buffer[i] # 0
  /\ line \in Seq(Nat) /\ line \o write_buffer = given

OutInv ==
  /\ write_buffer \in Buffered /\ given \in Seq(Nat)
  /\ ~zeros => SentSoFar

InInv ==
  /\ port \in Seq(Nat) /\ serial_arrived \in Seq(Nat)
  /\ ~late /\ ~zeros => InOrder

Signs == late \in BOOLEAN /\ zeros \in BOOLEAN

SerialInv == Signs /\ OutInv /\ InInv

LEMMA SerialAssociative == \A r, s, t \in Seq(Nat) : r \o (s \o t) = (r \o s) \o t
<1> TAKE r, s, t \in Seq(Nat)
<1> QED
  BY ConcatAssociative, SMTT(30)

LEMMA SerialSequences ==
  /\ <<>> \in Seq(Nat)
  /\ \A s \in Seq(Nat) : s \o <<>> = s /\ <<>> \o s = s
  /\ \A s, t \in Seq(Nat) : s \o t \in Seq(Nat)
  /\ \A s \in Seq(Nat), b \in Nat :
       Append(s, b) \in Seq(Nat) /\ <<b>> \in Seq(Nat) /\ Append(s, b) = s \o <<b>>
<1>1. <<>> \in Seq(Nat)
  OBVIOUS
<1>2. \A s \in Seq(Nat) : s \o <<>> = s /\ <<>> \o s = s
  BY ConcatEmptySeq
<1>3. \A s, t \in Seq(Nat) : s \o t \in Seq(Nat)
  BY ConcatProperties
<1>4. \A s \in Seq(Nat), b \in Nat :
        Append(s, b) \in Seq(Nat) /\ <<b>> \in Seq(Nat) /\ Append(s, b) = s \o <<b>>
  BY AppendIsConcat
<1> QED
  BY <1>1, <1>2, <1>3, <1>4

(* What is buffered is a sequence of numbers. *)
LEMMA BufferedIsText == \A q \in Buffered : q \in Seq(Nat) /\ Len(q) \in Nat
<1>1. Unit \subseteq Nat
  BY SerialAssumption DEF Unit
<1>2. ASSUME NEW q \in Seq(Unit)
      PROVE  q \in Seq(Nat) /\ Len(q) \in Nat
  <2>1. Len(q) \in Nat /\ q \in [1 .. Len(q) -> Unit]
    OBVIOUS
  <2>2. q \in [1 .. Len(q) -> Nat]
    BY <1>1, <2>1
  <2> QED
    BY <2>1, <2>2
<1> QED
  BY <1>2, TextIsSeq

(* The first bytes of a text and the ones after them are the text. *)
LEMMA FirstAndAfter ==
  ASSUME NEW s \in Seq(Nat), NEW n \in Nat
  PROVE  /\ First(s, n) \in Seq(Nat) /\ After(s, n) \in Seq(Nat)
         /\ First(s, n) \o After(s, n) = s
         /\ Len(First(s, n)) \in Nat /\ Len(First(s, n)) <= n
<1>1. Len(s) \in Nat
  OBVIOUS
<1>2. Lesser(n, Len(s)) \in 0 .. Len(s) /\ Lesser(n, Len(s)) <= n
  BY <1>1 DEF Lesser
<1> DEFINE k == Lesser(n, Len(s))
<1> HIDE DEF k
<1>3. k \in 0 .. Len(s) /\ k <= n
  BY <1>2 DEF k
<1>4. /\ SubSeq(s, 1, k) \in Seq(Nat) /\ Len(SubSeq(s, 1, k)) = k
      /\ SubSeq(s, k + 1, Len(s)) \in Seq(Nat)
      /\ SubSeq(s, 1, k) \o SubSeq(s, k + 1, Len(s)) = s
  BY <1>3, CutInTwo
<1>5. First(s, n) = SubSeq(s, 1, k) /\ After(s, n) = SubSeq(s, k + 1, Len(s))
  BY DEF First, After, k
<1>6. k \in Nat
  BY <1>1, <1>3
<1> QED
  BY <1>3, <1>4, <1>5, <1>6

LEMMA InitSerialInv == SerialInit => SerialInv
<1> SUFFICES ASSUME SerialInit
             PROVE  SerialInv
  OBVIOUS
<1>1. <<>> \o <<>> = <<>> /\ <<>> \o (<<>> \o <<>>) = <<>>
  BY SerialSequences
<1>2. write_buffer = <<>> /\ line = <<>> /\ given = <<>>
  BY DEF SerialInit
<1>3. \A i \in 1 .. Len(write_buffer) : write_buffer[i] # 0
  BY <1>2
<1>4. OutInv
  BY <1>1, <1>2, <1>3, NoText, SerialSequences DEF OutInv, SentSoFar
<1>5. InInv
  BY <1>1, SerialSequences DEF SerialInit, InInv, InOrder
<1> QED
  BY <1>4, <1>5 DEF SerialInit, SerialInv, Signs

(* An answer of which nothing is late is complete. *)
LEMMA ReceivesAll ==
  ASSUME SerialInv, NEW units, NEW n, NEW g, Receive(incoming \o units, n, g),
         ~zeros => units \in Seq(Int) /\ n \in Nat /\ Len(units) <= n
  PROVE  /\ late' \in BOOLEAN
         /\ ~late' /\ ~zeros => ~late /\ InOrder /\ g = Len(units) /\ incoming' = <<>>
<1> DEFINE all == incoming \o units
           m == Lesser(n, Len(all))
<1>1. g \in 0 .. m /\ incoming' = After(all, g) /\ late' = (late \/ g < m)
  BY DEF Receive
<1>2. late \in BOOLEAN
  BY DEF SerialInv, Signs
<1>3. late' \in BOOLEAN
  BY <1>1, <1>2, Zenon
<1>4. ASSUME ~late', ~zeros
      PROVE  ~late /\ InOrder /\ g = Len(units) /\ incoming' = <<>>
  <2>1. ~late /\ ~(g < m)
    BY <1>1, <1>4, Zenon
  <2>2. InOrder
    BY <1>4, <2>1 DEF SerialInv, InInv
  <2>3. incoming = <<>>
    BY <2>2 DEF InOrder
  <2>4. units \in Seq(Int) /\ n \in Nat /\ Len(units) <= n
    BY <1>4
  <2>5. all = units
    BY <2>3, <2>4, ConcatEmptySeq
  <2>6. Len(units) \in Nat /\ m = Len(units)
    BY <2>4, <2>5 DEF Lesser
  <2>7. g = Len(units)
    BY <1>1, <2>1, <2>6
  <2>8. Lesser(g, Len(units)) = Len(units)
    BY <2>6, <2>7 DEF Lesser
  <2>9. incoming' = SubSeq(units, Len(units) + 1, Len(units))
    BY <1>1, <2>5, <2>8 DEF After
  <2>10. incoming' = <<>>
    BY <2>4, <2>6, <2>9
  <2> QED
    BY <2>1, <2>2, <2>7, <2>10
<1> QED
  BY <1>3, <1>4, Zenon

(* A call that only waits for counts leaves what was received alone. *)
LEMMA WaitKeepsIn ==
  ASSUME SerialInv, NEW units, NEW n, NEW g, Receive(incoming \o units, n, g), UNCHANGED in,
         ~zeros' => ~zeros /\ units \in Seq(Int) /\ n \in Nat /\ Len(units) <= n
  PROVE  late' \in BOOLEAN /\ InInv'
<1>1. late \in BOOLEAN
  BY DEF SerialInv, Signs
<1>2. late' \in BOOLEAN
  BY <1>1, Zenon DEF Receive
<1>3. /\ port' = port /\ serial_arrived' = serial_arrived
      /\ taken' = taken /\ read_buffer' = read_buffer
  BY DEF in
<1>4. ASSUME ~late', ~zeros'
      PROVE  InOrder'
  <2>1. ~zeros /\ units \in Seq(Int) /\ n \in Nat /\ Len(units) <= n
    BY <1>4
  <2>2. ~late' /\ ~zeros => ~late /\ InOrder /\ g = Len(units) /\ incoming' = <<>>
    BY <2>1, ReceivesAll
  <2>3. InOrder /\ incoming' = <<>>
    BY <1>4, <2>1, <2>2, Zenon
  <2> QED
    BY <1>3, <2>3 DEF InOrder
<1>5. port' \in Seq(Nat) /\ serial_arrived' \in Seq(Nat)
  BY <1>3 DEF SerialInv, InInv
<1> QED
  BY <1>2, <1>4, <1>5, Zenon DEF InInv

LEMMA ReadKeepsOut == SerialInv /\ UNCHANGED out /\ (~zeros' => ~zeros) => OutInv'
<1> SUFFICES ASSUME SerialInv, UNCHANGED out, ~zeros' => ~zeros
             PROVE  OutInv'
  OBVIOUS
<1>1. write_buffer' = write_buffer /\ line' = line /\ given' = given
  BY DEF out
<1>2. OutInv
  BY DEF SerialInv
<1>3. ~zeros' => SentSoFar'
  BY <1>1, <1>2 DEF OutInv, SentSoFar
<1> QED
  BY <1>1, <1>2, <1>3 DEF OutInv

LEMMA AnswersAreUnits == \A q \in Buffered : (\A i \in 1 .. Len(q) : q[i] # 0) =>
                           FlushAnswers[q] \in Seq(Int)
<1>1. Count \in Seq(Int) /\ <<>> \in Seq(Int)
  BY DEF Count
<1> QED
  BY <1>1, PlainText, Zenon

LEMMA FlushKeepsSerial ==
  ASSUME SerialInv, NEW g, serialFlush(g)
  PROVE  SerialInv'
<1> DEFINE units == FlushAnswers[write_buffer]
<1>1. /\ Receive(incoming \o units, Len(units), g)
      /\ line' = line \o Flushed[write_buffer] /\ write_buffer' = <<>>
      /\ given' = given /\ UNCHANGED in /\ zeros' = zeros
  BY DEF serialFlush
<1>2. zeros \in BOOLEAN /\ OutInv
  BY DEF SerialInv, Signs
<1>3. ASSUME ~zeros
      PROVE  units \in Seq(Int) /\ Len(units) \in Nat /\ SentSoFar'
  <2>1. write_buffer \in Buffered /\ SentSoFar
    BY <1>2, <1>3 DEF OutInv
  <2>2. units \in Seq(Int) /\ Flushed[write_buffer] = write_buffer
    BY <2>1, AnswersAreUnits, PlainText DEF SentSoFar
  <2>3. line' = given /\ given \in Seq(Nat)
    BY <1>1, <1>2, <2>1, <2>2 DEF OutInv, SentSoFar
  <2>4. line' \o write_buffer' = given'
    BY <1>1, <2>3, SerialSequences
  <2>5. \A i \in 1 .. Len(write_buffer') : write_buffer'[i] # 0
    BY <1>1
  <2> QED
    BY <2>2, <2>3, <2>4, <2>5 DEF SentSoFar
<1>4. ~zeros' => ~zeros /\ units \in Seq(Int) /\ Len(units) \in Nat /\ Len(units) <= Len(units)
  BY <1>1, <1>3
<1> HIDE DEF units
<1>5. late' \in BOOLEAN /\ InInv'
  BY <1>1, <1>4, WaitKeepsIn
<1>6. OutInv'
  BY <1>1, <1>2, <1>3, NoText DEF OutInv
<1> QED
  BY <1>1, <1>2, <1>5, <1>6 DEF SerialInv, Signs

LEMMA WriteKeepsSerial ==
  ASSUME SerialInv, NEW c \in {0, Len(given) + 1}, NEW g, writeByte(c, g)
  PROVE  SerialInv'
<1> DEFINE filled == Len(write_buffer) = SerialBufferSize
           units == IF filled THEN FlushAnswers[write_buffer] ELSE <<>>
<1>1. /\ Receive(incoming \o units, Len(units), g)
      /\ line' = IF filled THEN line \o Flushed[write_buffer] ELSE line
      /\ write_buffer' = IF filled THEN <<c>> ELSE Append(write_buffer, c)
      /\ given' = Append(given, c) /\ zeros' = (zeros \/ c = 0) /\ UNCHANGED in
      /\ Len(given) < MaxSerialWritten
  BY DEF writeByte
<1>2. zeros \in BOOLEAN /\ OutInv
  BY DEF SerialInv, Signs
<1>3. given \in Seq(Nat) /\ write_buffer \in Buffered
  BY <1>2 DEF OutInv
<1>4. c \in Unit /\ c \in Nat
  <2>1. Len(given) \in Nat
    BY <1>3
  <2> QED
    BY <1>1, <2>1, SerialAssumption DEF Unit
<1>5. write_buffer' \in Buffered
  <2>1. /\ write_buffer \in Seq(Unit) /\ Len(write_buffer) \in Nat
        /\ Len(write_buffer) <= SerialBufferSize
    BY <1>3, TextIsSeq
  <2>2. /\ <<c>> \in Seq(Unit) /\ Len(<<c>>) = 1
        /\ Append(write_buffer, c) \in Seq(Unit) /\ Len(Append(write_buffer, c)) = Len(write_buffer) + 1
    BY <1>4, <2>1
  <2> DEFINE one == <<c>>
  <2>3. CASE filled
    <3>1. write_buffer' = one /\ one \in Seq(Unit) /\ Len(one) <= SerialBufferSize
      BY <1>1, <2>2, <2>3, SerialAssumption
    <3> HIDE DEF one
    <3> QED
      BY <3>1, TextIsSeq
  <2>4. CASE ~filled
    <3>1. Len(write_buffer) + 1 <= SerialBufferSize
      BY <2>1, <2>4, SerialAssumption
    <3> QED
      BY <1>1, <2>2, <2>4, <3>1, TextIsSeq
  <2> QED
    BY <2>3, <2>4
<1>6. ASSUME ~zeros'
      PROVE  ~zeros /\ units \in Seq(Int) /\ Len(units) \in Nat /\ SentSoFar'
  <2>1. ~zeros /\ c # 0
    BY <1>1, <1>6
  <2>2. SentSoFar
    BY <1>2, <2>1 DEF OutInv
  <2>3. /\ FlushAnswers[write_buffer] \in Seq(Int) /\ Flushed[write_buffer] = write_buffer
        /\ <<>> \in Seq(Int)
    BY <1>3, <2>2, AnswersAreUnits, PlainText DEF SentSoFar
  <2>4. write_buffer \in Seq(Nat) /\ Len(write_buffer) \in Nat
    BY <1>3, BufferedIsText
  <2>5. line \in Seq(Nat) /\ line \o write_buffer = given
    BY <2>2 DEF SentSoFar
  <2> DEFINE one == <<c>>
  <2>6. one \in Seq(Nat) /\ Append(write_buffer, c) = write_buffer \o one /\ given' = given \o one
    BY <1>1, <1>3, <1>4, <2>4, SerialSequences
  <2>7. \A i \in 1 .. Len(one) : one[i] # 0
    BY <2>1
  <2>8. \A i \in 1 .. Len(write_buffer) : write_buffer[i] # 0
    BY <2>2 DEF SentSoFar
  <2>9. CASE filled
    <3>1. line' = given /\ write_buffer' = one
      BY <1>1, <2>3, <2>5, <2>9
    <3> HIDE DEF one
    <3>2. \A i \in 1 .. Len(write_buffer') : write_buffer'[i] # 0
      BY <2>7, <3>1
    <3>3. SentSoFar'
      BY <1>3, <2>6, <3>1, <3>2 DEF SentSoFar
    <3> QED
      BY <2>1, <2>3, <2>9, <3>3
  <2>10. CASE ~filled
    <3>1. line' = line /\ write_buffer' = Append(write_buffer, c) /\ units = <<>>
      BY <1>1, <2>10
    <3>2. \A i \in 1 .. Len(Append(write_buffer, c)) : Append(write_buffer, c)[i] # 0
      BY <1>4, <2>1, <2>4, <2>8
    <3> HIDE DEF one
    <3>3. line \o (write_buffer \o one) = (line \o write_buffer) \o one
      BY <2>4, <2>5, <2>6, SerialAssociative
    <3>4. line' \o write_buffer' = given'
      BY <2>5, <2>6, <3>1, <3>3
    <3>5. SentSoFar'
      BY <2>5, <3>1, <3>2, <3>4 DEF SentSoFar
    <3> QED
      BY <2>1, <2>3, <3>1, <3>5
  <2> QED
    BY <2>9, <2>10
<1>7. ~zeros' => ~zeros /\ units \in Seq(Int) /\ Len(units) \in Nat /\ Len(units) <= Len(units)
  BY <1>6
<1>8. zeros' \in BOOLEAN
  BY <1>1, <1>2, Zenon
<1> HIDE DEF units
<1>9. late' \in BOOLEAN /\ InInv'
  BY <1>1, <1>7, WaitKeepsIn
<1>10. given' \in Seq(Nat)
  BY <1>1, <1>3, <1>4, SerialSequences
<1>11. OutInv'
  BY <1>5, <1>6, <1>10 DEF OutInv
<1> QED
  BY <1>8, <1>9, <1>11 DEF SerialInv, Signs

LEMMA ArrayKeepsSerial ==
  ASSUME SerialInv, NEW str \in Seq(Nat), NEW g, writeArray(str, g)
  PROVE  SerialInv'
<1> DEFINE units == FlushAnswers[write_buffer] \o Count
<1>1. /\ Receive(incoming \o units, Len(units), g)
      /\ line' = line \o Flushed[write_buffer] \o str /\ write_buffer' = <<>>
      /\ given' = given \o str /\ UNCHANGED in /\ zeros' = zeros
  BY DEF writeArray, Sent
<1>2. zeros \in BOOLEAN /\ OutInv
  BY DEF SerialInv, Signs
<1>3. given \in Seq(Nat) /\ given' \in Seq(Nat)
  BY <1>1, <1>2, SerialSequences DEF OutInv
<1>4. ASSUME ~zeros
      PROVE  units \in Seq(Int) /\ Len(units) \in Nat /\ SentSoFar'
  <2>1. write_buffer \in Buffered /\ SentSoFar
    BY <1>2, <1>4 DEF OutInv
  <2>2. FlushAnswers[write_buffer] \in Seq(Int) /\ Flushed[write_buffer] = write_buffer
    BY <2>1, AnswersAreUnits, PlainText DEF SentSoFar
  <2>3. Count \in Seq(Int)
    BY DEF Count
  <2>4. units \in Seq(Int) /\ Len(units) \in Nat
    BY <2>2, <2>3, ConcatProperties
  <2>5. line' = given'
    BY <1>1, <2>1, <2>2 DEF SentSoFar
  <2>6. line' \o write_buffer' = given'
    BY <1>1, <1>3, <2>5, SerialSequences
  <2>7. \A i \in 1 .. Len(write_buffer') : write_buffer'[i] # 0
    BY <1>1
  <2> QED
    BY <1>3, <2>4, <2>5, <2>6, <2>7 DEF SentSoFar
<1>5. ~zeros' => ~zeros /\ units \in Seq(Int) /\ Len(units) \in Nat /\ Len(units) <= Len(units)
  BY <1>1, <1>4
<1> HIDE DEF units
<1>6. late' \in BOOLEAN /\ InInv'
  BY <1>1, <1>5, WaitKeepsIn
<1>7. OutInv'
  BY <1>1, <1>2, <1>3, <1>4, NoText DEF OutInv
<1> QED
  BY <1>1, <1>2, <1>6, <1>7 DEF SerialInv, Signs

LEMMA ArriveKeepsSerial ==
  ASSUME SerialInv, NEW b \in {0, Len(serial_arrived) + 1}, SerialArrive(b)
  PROVE  SerialInv'
<1>1. /\ port' = Append(port, b) /\ serial_arrived' = Append(serial_arrived, b)
      /\ UNCHANGED out /\ read_buffer' = read_buffer /\ taken' = taken
      /\ incoming' = incoming /\ zeros' = zeros /\ late' = late
  BY DEF SerialArrive
<1>2. InInv /\ Signs
  BY DEF SerialInv
<1>3. port \in Seq(Nat) /\ serial_arrived \in Seq(Nat)
  BY <1>2 DEF InInv
<1>4. b \in Nat
  <2>1. Len(serial_arrived) \in Nat
    BY <1>3
  <2> QED
    BY <2>1
<1> DEFINE one == <<b>>
<1>5. one \in Seq(Nat) /\ port' = port \o one /\ serial_arrived' = serial_arrived \o one
  BY <1>1, <1>3, <1>4, SerialSequences
<1> HIDE DEF one
<1>6. port' \in Seq(Nat) /\ serial_arrived' \in Seq(Nat)
  BY <1>3, <1>5, SerialSequences
<1>7. ASSUME ~late', ~zeros'
      PROVE  InOrder'
  <2>1. InOrder
    BY <1>1, <1>2, <1>7 DEF InInv
  <2>2. taken \in Seq(Nat) /\ read_buffer \in Seq(Nat) /\ read_buffer \o port \in Seq(Nat)
    BY <1>3, <2>1, SerialSequences DEF InOrder
  <2>0. port \in Seq(Nat) /\ one \in Seq(Nat)
    BY <1>3, <1>5
  <2>3. taken \o ((read_buffer \o port) \o one) = (taken \o (read_buffer \o port)) \o one
    BY <2>0, <2>2, SerialAssociative, ZenonT(30)
  <2>4. read_buffer \o (port \o one) = (read_buffer \o port) \o one
    BY <2>0, <2>2, SerialAssociative, Zenon
  <2>5. taken \o (read_buffer \o (port \o one)) = serial_arrived \o one
    BY <2>1, <2>3, <2>4 DEF InOrder
  <2> QED
    BY <1>1, <1>5, <2>1, <2>5 DEF InOrder
<1>8. InInv'
  BY <1>6, <1>7 DEF InInv
<1>9. OutInv'
  BY <1>1, ReadKeepsOut
<1>10. Signs'
  BY <1>1, <1>2 DEF Signs
<1> QED
  BY <1>8, <1>9, <1>10 DEF SerialInv

(* A request that is answered in time gets the first bytes of the port, and *)
(* the others stay there.                                                  *)
LEMMA RequestIsAnswered ==
  ASSUME SerialInv, NEW n \in Nat, NEW g, Request(n, g)
  PROVE  /\ late' \in BOOLEAN /\ port' \in Seq(Nat)
         /\ ~late' /\ ~zeros => /\ ~late /\ InOrder /\ incoming' = <<>>
                                /\ Answer(n, g) \in Seq(Nat) /\ Answer(n, g) \o port' = port
<1> DEFINE units == First(port, n)
<1>1. Receive(incoming \o units, n, g) /\ port' = After(port, n)
  BY DEF Request
<1>2. port \in Seq(Nat)
  BY DEF SerialInv, InInv
<1>3. /\ units \in Seq(Nat) /\ port' \in Seq(Nat) /\ units \o port' = port
      /\ Len(units) \in Nat /\ Len(units) <= n
  BY <1>1, <1>2, FirstAndAfter
<1>4. Answer(n, g) = First(incoming \o units, g)
  BY DEF Answer
<1> HIDE DEF units
<1>5. units \in Seq(Int)
  <2>1. units \in [1 .. Len(units) -> Nat]
    BY <1>3
  <2>2. units \in [1 .. Len(units) -> Int]
    BY <2>1
  <2> QED
    BY <1>3, <2>2
<1>6. /\ late' \in BOOLEAN
      /\ ~late' /\ ~zeros => ~late /\ InOrder /\ g = Len(units) /\ incoming' = <<>>
  BY <1>1, <1>3, <1>5, ReceivesAll
<1>7. ASSUME ~late', ~zeros
      PROVE  Answer(n, g) = units
  <2>1. g = Len(units) /\ InOrder
    BY <1>6, <1>7, Zenon
  <2>2. incoming \o units = units
    BY <1>3, <2>1, SerialSequences DEF InOrder
  <2>3. Lesser(Len(units), Len(units)) = Len(units) /\ SubSeq(units, 1, Len(units)) = units
    BY <1>3 DEF Lesser
  <2> QED
    BY <1>4, <2>1, <2>2, <2>3 DEF First
<1>8. ASSUME ~late', ~zeros
      PROVE  /\ ~late /\ InOrder /\ incoming' = <<>>
             /\ Answer(n, g) \in Seq(Nat) /\ Answer(n, g) \o port' = port
  <2>1. Answer(n, g) = units
    BY <1>7, <1>8
  <2>2. ~late /\ InOrder /\ incoming' = <<>>
    BY <1>6, <1>8, Zenon
  <2> QED
    BY <1>3, <2>1, <2>2
<1> QED
  BY <1>3, <1>6, <1>8, Zenon

LEMMA ReadKeepsSerial ==
  ASSUME SerialInv, NEW g, serialRead(g)
  PROVE  SerialInv'
<1> DEFINE held == IF read_buffer = <<>> THEN Answer(max_buffer_len, g) ELSE read_buffer
<1>1. /\ IF read_buffer = <<>> THEN Request(max_buffer_len, g)
                               ELSE UNCHANGED <<port, incoming, late>>
      /\ read_buffer' = After(held, 1)
      /\ taken' = IF late' THEN taken ELSE taken \o First(held, 1)
      /\ UNCHANGED out /\ serial_arrived' = serial_arrived /\ zeros' = zeros
  BY DEF serialRead, Return
<1>2. InInv /\ Signs
  BY DEF SerialInv
<1>3. late' \in BOOLEAN /\ port' \in Seq(Nat)
  <2>1. CASE read_buffer = <<>>
    BY <1>1, <2>1, RequestIsAnswered, SerialAssumption
  <2>2. CASE read_buffer # <<>>
    BY <1>1, <1>2, <2>2 DEF InInv, Signs
  <2> QED
    BY <2>1, <2>2
<1>4. ASSUME ~late', ~zeros'
      PROVE  InOrder /\ incoming' = <<>> /\ held \in Seq(Nat) /\ held \o port' = read_buffer \o port
  <2>1. ~zeros
    BY <1>1, <1>4
  <2>2. CASE read_buffer = <<>>
    <3>1. ~late' /\ ~zeros =>
             /\ ~late /\ InOrder /\ incoming' = <<>>
             /\ Answer(max_buffer_len, g) \in Seq(Nat) /\ Answer(max_buffer_len, g) \o port' = port
      BY <1>1, <2>2, RequestIsAnswered, SerialAssumption
    <3>2. /\ InOrder /\ incoming' = <<>>
          /\ Answer(max_buffer_len, g) \in Seq(Nat) /\ Answer(max_buffer_len, g) \o port' = port
      BY <1>4, <2>1, <3>1, Zenon
    <3>3. <<>> \o port = port
      BY <1>2, SerialSequences DEF InInv
    <3> QED
      BY <2>2, <3>2, <3>3
  <2>3. CASE read_buffer # <<>>
    <3>1. late' = late /\ incoming' = incoming /\ port' = port /\ held = read_buffer
      BY <1>1, <2>3
    <3>2. InOrder
      BY <1>2, <1>4, <2>1, <3>1 DEF InInv
    <3> QED
      BY <3>1, <3>2 DEF InOrder
  <2> QED
    BY <2>2, <2>3
<1> HIDE DEF held
<1>5. ASSUME ~late', ~zeros'
      PROVE  InOrder'
  <2>1. InOrder /\ incoming' = <<>> /\ held \in Seq(Nat) /\ held \o port' = read_buffer \o port
    BY <1>4, <1>5
  <2>2. /\ First(held, 1) \in Seq(Nat) /\ After(held, 1) \in Seq(Nat)
        /\ First(held, 1) \o After(held, 1) = held
    BY <2>1, FirstAndAfter
  <2>3. taken \in Seq(Nat)
    BY <2>1 DEF InOrder
  <2> DEFINE f == First(held, 1)
             a == After(held, 1)
  <2>4. (taken \o f) \o (a \o port') = taken \o (held \o port')
    <3> HIDE DEF f, a
    <3>1. taken \in Seq(Nat) /\ f \in Seq(Nat) /\ a \in Seq(Nat) /\ port' \in Seq(Nat)
      BY <1>3, <2>2, <2>3 DEF f, a
    <3>2. a \o port' \in Seq(Nat)
      BY <3>1, SerialSequences
    <3>3. taken \o (f \o (a \o port')) = (taken \o f) \o (a \o port')
      BY <3>1, <3>2, SerialAssociative, Zenon
    <3>4. f \o (a \o port') = (f \o a) \o port'
      BY <3>1, SerialAssociative, Zenon
    <3>5. f \o a = held
      BY <2>2 DEF f, a
    <3> QED
      BY <3>3, <3>4, <3>5
  <2>5. taken' = taken \o First(held, 1) /\ taken' \in Seq(Nat)
    BY <1>1, <1>5, <2>2, <2>3, SerialSequences
  <2>6. taken \o (read_buffer \o port) = serial_arrived
    BY <2>1 DEF InOrder
  <2>7. taken' \o (read_buffer' \o port') = serial_arrived'
    BY <1>1, <2>1, <2>4, <2>5, <2>6
  <2> QED
    BY <1>1, <2>1, <2>2, <2>5, <2>7 DEF InOrder
<1>6. InInv'
  BY <1>1, <1>2, <1>3, <1>5 DEF InInv
<1>7. OutInv'
  BY <1>1, ReadKeepsOut
<1>8. Signs'
  BY <1>1, <1>2, <1>3 DEF Signs
<1> QED
  BY <1>6, <1>7, <1>8 DEF SerialInv

(* An array read of a text whose first n bytes have no zero takes them. *)
LEMMA TextIsFirst ==
  ASSUME NEW s \in Seq(Nat), NEW n \in Nat, 0 \notin Range(First(s, n))
  PROVE  Text(s, n) = First(s, n) /\ SerialLeft(s, n) = After(s, n)
<1> DEFINE k == Lesser(n, Len(s))
           I == {i \in 1 .. Len(s) : s[i] = 0} \cup {k + 1}
<1>1. Len(s) \in Nat
  OBVIOUS
<1>2. k \in Nat /\ k <= n /\ k <= Len(s) /\ (k = n \/ k = Len(s))
  BY <1>1 DEF Lesser
<1>3. First(s, n) = SubSeq(s, 1, k)
  BY DEF First
<1>4. ZeroAt(s, n) = Min(I)
  BY DEF ZeroAt
<1> HIDE DEF k
<1>5. \A i \in 1 .. k : s[i] # 0
  <2>1. /\ Len(SubSeq(s, 1, k)) = k /\ DOMAIN SubSeq(s, 1, k) = 1 .. k
        /\ \A i \in 1 .. k : SubSeq(s, 1, k)[i] = s[i]
    BY <1>1, <1>2
  <2>2. \A i \in 1 .. k : s[i] \in Range(SubSeq(s, 1, k))
    BY <2>1 DEF Range
  <2> QED
    BY <1>3, <2>2
<1>6. I \subseteq Nat /\ I # {} /\ k + 1 \in I /\ \A i \in I : i >= k + 1
  BY <1>1, <1>2, <1>5
<1> HIDE DEF I
<1>7. Min(I) = k + 1
  <2>1. Min(I) \in I /\ \A i \in I : Min(I) <= i
    BY <1>6, MinIsLeast
  <2>2. Min(I) \in Nat /\ Min(I) >= k + 1 /\ Min(I) <= k + 1
    BY <1>6, <2>1
  <2> QED
    BY <1>2, <2>2
<1>8. Lesser(n, k + 1 - 1) = k /\ Lesser(k, Len(s)) = k
  BY <1>1, <1>2 DEF Lesser
<1>9. Lesser(Lesser(n, k + 1), Len(s)) = k
  BY <1>1, <1>2 DEF Lesser
<1>10. Text(s, n) = SubSeq(s, 1, k)
  <2>1. Text(s, n) = First(s, Lesser(n, k + 1 - 1))
    BY <1>2, <1>4, <1>7 DEF Text
  <2> QED
    BY <1>8, <2>1 DEF First
<1>11. SerialLeft(s, n) = SubSeq(s, k + 1, Len(s)) /\ After(s, n) = SubSeq(s, k + 1, Len(s))
  BY <1>4, <1>7, <1>9 DEF SerialLeft, After, k
<1> QED
  BY <1>3, <1>10, <1>11

LEMMA ReadBytesKeepsSerial ==
  ASSUME SerialInv, NEW n \in Nat, NEW g, readBytes(n, g)
  PROVE  SerialInv'
<1>1. UNCHANGED out /\ serial_arrived' = serial_arrived
  BY DEF readBytes
<1>2. InInv /\ Signs
  BY DEF SerialInv
<1>3. CASE read_buffer # <<>>
  <2>1. /\ port' = port /\ incoming' = incoming /\ late' = late
        /\ taken' = IF late' THEN taken ELSE taken \o Text(read_buffer, n)
        /\ read_buffer' = SerialLeft(read_buffer, n)
        /\ zeros' = (zeros \/ 0 \in Range(First(read_buffer, n)))
    BY <1>3 DEF readBytes, Return
  <2>2. ASSUME ~late', ~zeros'
        PROVE  InOrder'
    <3>1. ~zeros /\ 0 \notin Range(First(read_buffer, n)) /\ InOrder
      BY <1>2, <2>1, <2>2 DEF InInv
    <3>2. /\ taken \in Seq(Nat) /\ read_buffer \in Seq(Nat) /\ incoming = <<>>
          /\ taken \o (read_buffer \o port) = serial_arrived
      BY <3>1 DEF InOrder
    <3> DEFINE f == First(read_buffer, n)
               a == After(read_buffer, n)
    <3>3. f \in Seq(Nat) /\ a \in Seq(Nat) /\ f \o a = read_buffer
      BY <3>2, FirstAndAfter
    <3>4. Text(read_buffer, n) = f /\ SerialLeft(read_buffer, n) = a
      BY <3>1, <3>2, TextIsFirst
    <3> HIDE DEF f, a
    <3>5. taken \in Seq(Nat) /\ f \in Seq(Nat) /\ a \in Seq(Nat) /\ port \in Seq(Nat)
      BY <1>2, <3>2, <3>3 DEF InInv
    <3>6. (taken \o f) \o (a \o port) = taken \o (read_buffer \o port)
      <4>1. a \o port \in Seq(Nat)
        BY <3>5, SerialSequences
      <4>2. taken \o (f \o (a \o port)) = (taken \o f) \o (a \o port)
        BY <3>5, <4>1, SerialAssociative, Zenon
      <4>3. f \o (a \o port) = (f \o a) \o port
        BY <3>5, SerialAssociative, Zenon
      <4> QED
        BY <3>3, <4>2, <4>3
    <3>7. taken' = taken \o f /\ read_buffer' = a
      BY <2>1, <2>2, <3>4
    <3>8. taken' \in Seq(Nat)
      BY <3>5, <3>7, SerialSequences
    <3> QED
      BY <1>1, <2>1, <3>2, <3>3, <3>5, <3>6, <3>7, <3>8 DEF InOrder
  <2>3. InInv'
    BY <1>1, <1>2, <2>1, <2>2 DEF InInv
  <2>4. zeros' \in BOOLEAN /\ (~zeros' => ~zeros)
    BY <1>2, <2>1, Zenon DEF Signs
  <2>5. OutInv'
    BY <1>1, <2>4, ReadKeepsOut
  <2> QED
    BY <1>2, <2>1, <2>3, <2>4, <2>5 DEF SerialInv, Signs
<1>4. CASE read_buffer = <<>>
  <2>1. /\ Request(n, g) /\ read_buffer' = read_buffer /\ zeros' = zeros
        /\ taken' = IF late' THEN taken ELSE taken \o Answer(n, g)
    BY <1>4 DEF readBytes, Return
  <2>2. /\ late' \in BOOLEAN /\ port' \in Seq(Nat)
        /\ ~late' /\ ~zeros => /\ ~late /\ InOrder /\ incoming' = <<>>
                               /\ Answer(n, g) \in Seq(Nat) /\ Answer(n, g) \o port' = port
    BY <2>1, RequestIsAnswered
  <2>3. ASSUME ~late', ~zeros'
        PROVE  InOrder'
    <3>1. /\ InOrder /\ incoming' = <<>>
          /\ Answer(n, g) \in Seq(Nat) /\ Answer(n, g) \o port' = port
      BY <2>1, <2>2, <2>3
    <3>2. taken \in Seq(Nat) /\ taken \o (read_buffer \o port) = serial_arrived
      BY <3>1 DEF InOrder
    <3>3. <<>> \o port = port /\ <<>> \o port' = port'
      BY <1>2, <2>2, SerialSequences DEF InInv
    <3> DEFINE bytes == Answer(n, g)
    <3> HIDE DEF bytes
    <3>4. bytes \in Seq(Nat) /\ bytes \o port' = port /\ taken' = taken \o bytes
      BY <2>1, <2>3, <3>1 DEF bytes
    <3>5. taken \in Seq(Nat) /\ bytes \in Seq(Nat) /\ port' \in Seq(Nat)
      BY <2>2, <3>2, <3>4
    <3>6. taken \o (bytes \o port') = (taken \o bytes) \o port'
      BY <3>5, SerialAssociative, Zenon
    <3>7. taken' \o (read_buffer' \o port') = serial_arrived'
      BY <1>1, <1>4, <2>1, <3>2, <3>3, <3>4, <3>6
    <3>8. taken' \in Seq(Nat) /\ read_buffer' \in Seq(Nat)
      BY <1>4, <2>1, <3>4, <3>5, SerialSequences
    <3> QED
      BY <3>1, <3>7, <3>8 DEF InOrder
  <2>4. InInv'
    BY <1>1, <1>2, <2>2, <2>3 DEF InInv
  <2>5. OutInv'
    BY <1>1, <2>1, ReadKeepsOut
  <2> QED
    BY <1>2, <2>1, <2>2, <2>4, <2>5 DEF SerialInv, Signs
<1> QED
  BY <1>3, <1>4

LEMMA AvailableKeepsSerial ==
  ASSUME SerialInv, NEW g, availableOrPeek(g)
  PROVE  SerialInv'
<1>1. Receive(incoming \o Count, 2, g) /\ UNCHANGED out /\ UNCHANGED in /\ zeros' = zeros
  BY DEF availableOrPeek
<1>2. Count \in Seq(Int) /\ Len(Count) = 2
  BY DEF Count
<1>3. ~zeros' => ~zeros /\ Count \in Seq(Int) /\ 2 \in Nat /\ Len(Count) <= 2
  BY <1>1, <1>2
<1>4. late' \in BOOLEAN /\ InInv'
  BY <1>1, <1>3, WaitKeepsIn
<1>5. OutInv'
  BY <1>1, ReadKeepsOut
<1> QED
  BY <1>1, <1>4, <1>5 DEF SerialInv, Signs

LEMMA StepSerialInv == SerialInv /\ [SerialNext]_serialVars => SerialInv'
<1> SUFFICES ASSUME SerialInv, [SerialNext]_serialVars
             PROVE  SerialInv'
  OBVIOUS
<1>1. ASSUME NEW g \in Got, serialFlush(g)
      PROVE  SerialInv'
  BY <1>1, FlushKeepsSerial
<1>2. ASSUME NEW c \in {0, Len(given) + 1}, NEW g \in Got, writeByte(c, g)
      PROVE  SerialInv'
  BY <1>2, WriteKeepsSerial
<1>3. ASSUME NEW n \in 0 .. MaxSerialArray, NEW zero \in 0 .. MaxSerialArray, NEW g \in Got,
             writeArray([i \in 1 .. n |-> IF i = zero THEN 0 ELSE Len(given) + i], g)
      PROVE  SerialInv'
  <2> DEFINE str == [i \in 1 .. n |-> IF i = zero THEN 0 ELSE Len(given) + i]
  <2>1. Len(given) \in Nat
    BY DEF SerialInv, OutInv
  <2>2. n \in Nat /\ str \in [1 .. n -> Nat]
    BY <2>1, SerialAssumption
  <2>3. str \in Seq(Nat)
    BY <2>2
  <2> HIDE DEF str
  <2>4. writeArray(str, g)
    BY <1>3 DEF str
  <2> QED
    BY <2>3, <2>4, ArrayKeepsSerial
<1>4. ASSUME NEW b \in {0, Len(serial_arrived) + 1}, SerialArrive(b)
      PROVE  SerialInv'
  BY <1>4, ArriveKeepsSerial
<1>5. ASSUME NEW g \in Got, serialRead(g)
      PROVE  SerialInv'
  BY <1>5, ReadKeepsSerial
<1>6. ASSUME NEW n \in 1 .. MaxSerialArray, NEW g \in Got, readBytes(n, g)
      PROVE  SerialInv'
  <2>1. n \in Nat
    BY SerialAssumption
  <2> QED
    BY <1>6, <2>1, ReadBytesKeepsSerial
<1>7. ASSUME NEW g \in Got, availableOrPeek(g)
      PROVE  SerialInv'
  BY <1>7, AvailableKeepsSerial
<1>8. CASE UNCHANGED serialVars
  <2>1. UNCHANGED out /\ UNCHANGED in /\ incoming' = incoming /\ zeros' = zeros /\ late' = late
    BY <1>8 DEF serialVars
  <2>2. /\ port' = port /\ serial_arrived' = serial_arrived
        /\ taken' = taken /\ read_buffer' = read_buffer
    BY <2>1 DEF in
  <2>3. InInv'
    BY <2>1, <2>2 DEF SerialInv, InInv, InOrder
  <2>4. OutInv'
    BY <2>1, ReadKeepsOut
  <2> QED
    BY <2>1, <2>3, <2>4 DEF SerialInv, Signs
<1> QED
  BY <1>1, <1>2, <1>3, <1>4, <1>5, <1>6, <1>7, <1>8 DEF SerialNext

LEMMA SerialInvariant == SerialSpec => []SerialInv
  BY InitSerialInv, StepSerialInv, PTL DEF SerialSpec

(* What a sketch writes to the remote port arrives there in its order, and *)
(* once, however its calls of write() and flush() mix: the buffer is sent  *)
(* before the array that follows it, and before the byte it has no room    *)
(* for.                                                                    *)
THEOREM SerialSendsAll == SerialSpec => []SentInOrder
<1>1. SerialInv => SentInOrder
  BY DEF SerialInv, OutInv, SentSoFar, SentInOrder
<1> QED
  BY <1>1, SerialInvariant, PTL

(* What the remote port received is handed out in its order, and once, by  *)
(* read() and readBytes() called in any order, as long as answers come in  *)
(* time.                                                                   *)
THEOREM SerialReadsAll == SerialSpec => []ReadInOrder
<1>1. ASSUME SerialInv, ~late, ~zeros
      PROVE  (taken \o read_buffer) \o port = serial_arrived
  <2>1. InOrder /\ port \in Seq(Nat)
    BY <1>1 DEF SerialInv, InInv
  <2>2. taken \in Seq(Nat) /\ read_buffer \in Seq(Nat) /\ port \in Seq(Nat)
    BY <2>1 DEF InOrder
  <2>3. taken \o (read_buffer \o port) = (taken \o read_buffer) \o port
    BY <2>2, SerialAssociative, Zenon
  <2> QED
    BY <2>1, <2>3 DEF InOrder
<1>2. SerialInv => ReadInOrder
  BY <1>1 DEF ReadInOrder
<1> QED
  BY <1>2, SerialInvariant, PTL

(***************************************************************************)
(* cbuf.  The k-th character from _begin is at Spot(_size, _begin, k).     *)
(***************************************************************************)
Place == Char \cup {Unset}

RingInv ==
  /\ _size \in Nat /\ _buf \in [0 .. _size -> Place]
  /\ _begin \in 0 .. _size /\ _end \in 0 .. _size

Spot(size, first, k) == IF first + k > size THEN first + k - (size + 1) ELSE first + k

Around(n) == [i \in 1 .. n |-> _buf[Spot(_size, _begin, i - 1)]]

LEMMA PlacesJoin ==
  ASSUME NEW s \in Seq(Place), NEW t \in Seq(Place)
  PROVE  /\ s \o t \in Seq(Place) /\ Len(s \o t) = Len(s) + Len(t)
         /\ \A i \in 1 .. Len(s) + Len(t) : (s \o t)[i] = IF i <= Len(s) THEN s[i]
                                                             ELSE t[i - Len(s)]
  BY ConcatProperties

LEMMA AvailableAndRoom ==
  ASSUME RingInv
  PROVE  /\ cbufAvailable \in 0 .. _size /\ room = _size - cbufAvailable
         /\ full <=> cbufAvailable = _size
         /\ Spot(_size, _begin, cbufAvailable) = _end
BY DEF RingInv, cbufAvailable, room, full, wrap_if_bufend, _bufend, Spot

LEMMA SpotInRing ==
  ASSUME NEW size \in Nat, NEW first \in 0 .. size, NEW k \in 0 .. size
  PROVE  /\ Spot(size, first, k) \in 0 .. size
         /\ \A j \in 0 .. size : k + j <= size =>
              Spot(size, Spot(size, first, k), j) = Spot(size, first, k + j)
BY DEF Spot

(* Reading n characters takes the first ones from _begin on, around the    *)
(* end of the array.                                                       *)
LEMMA TakenAround ==
  ASSUME RingInv, NEW n \in Nat
  PROVE  /\ MinOf(n, cbufAvailable) \in 0 .. cbufAvailable
         /\ Taken(n).chars = Around(MinOf(n, cbufAvailable))
         /\ Taken(n).begin = Spot(_size, _begin, MinOf(n, cbufAvailable))
<1> DEFINE count == MinOf(n, cbufAvailable)
           top == _bufend - _begin
           first == IF _end < _begin /\ count > top THEN 0 ELSE _begin
           rest == IF first = _begin THEN count ELSE count - top
<1>1. /\ _size \in Nat /\ _begin \in 0 .. _size /\ _end \in 0 .. _size
      /\ _buf \in [0 .. _size -> Place]
  BY DEF RingInv
<1>2. cbufAvailable \in 0 .. _size
  BY AvailableAndRoom
<1>3. count \in 0 .. cbufAvailable
  BY <1>1, <1>2 DEF MinOf
<1>4. /\ Taken(n).chars = IF first = _begin THEN Chars(_begin, count)
                          ELSE Chars(_begin, top) \o Chars(0, rest)
      /\ Taken(n).begin = wrap_if_bufend(first + rest)
  BY DEF Taken
<1> HIDE DEF count
<1>5. CASE _end < _begin /\ count > top
  <2>1. first = 0 /\ first # _begin /\ rest = count - top
    BY <1>1, <1>5
  <2>2. /\ top \in Nat /\ rest \in Nat /\ top + rest = count
        /\ top = _size + 1 - _begin /\ rest <= _end
    BY <1>1, <1>2, <1>3, <1>5, <2>1 DEF _bufend, cbufAvailable
  <2>3. /\ Taken(n).chars = Chars(_begin, top) \o Chars(0, rest)
        /\ Taken(n).begin = wrap_if_bufend(rest)
    BY <1>4, <2>1, <2>2
  <2>4. wrap_if_bufend(rest) = Spot(_size, _begin, count)
    BY <1>1, <2>2 DEF wrap_if_bufend, _bufend, Spot
  <2> HIDE DEF top, rest, first
  <2> DEFINE a == Chars(_begin, top)
             b == Chars(0, rest)
             c == a \o b
  <2>5. a \in Seq(Place) /\ Len(a) = top /\ \A i \in 1 .. top : a[i] = _buf[_begin + i - 1]
    <3>1. a \in [1 .. top -> Place]
      BY <1>1, <2>2 DEF Chars
    <3>2. \A i \in 1 .. top : a[i] = _buf[_begin + i - 1]
      BY DEF Chars
    <3> HIDE DEF a
    <3> QED
      BY <2>2, <3>1, <3>2
  <2>6. b \in Seq(Place) /\ Len(b) = rest /\ \A i \in 1 .. rest : b[i] = _buf[i - 1]
    <3>1. b \in [1 .. rest -> Place]
      BY <1>1, <2>2 DEF Chars
    <3>2. \A i \in 1 .. rest : b[i] = _buf[i - 1]
      BY <2>2 DEF Chars
    <3> HIDE DEF b
    <3> QED
      BY <2>2, <3>1, <3>2
  <2> HIDE DEF a, b
  <2>7. /\ c \in Seq(Place) /\ Len(c) = top + rest
        /\ \A i \in 1 .. top + rest : c[i] = IF i <= top THEN a[i] ELSE b[i - top]
    <3>1. a \in Seq(Place) /\ b \in Seq(Place)
      BY <2>5, <2>6
    <3> QED
      BY <2>5, <2>6, <3>1, PlacesJoin
  <2> HIDE DEF c
  <2>8. \A i \in 1 .. count : c[i] = _buf[Spot(_size, _begin, i - 1)]
    <3> TAKE i \in 1 .. count
    <3>1. CASE i <= top
      <4>1. i \in 1 .. top /\ Spot(_size, _begin, i - 1) = _begin + i - 1
        BY <1>1, <1>3, <2>2, <3>1 DEF Spot
      <4> QED
        BY <2>2, <2>5, <2>7, <3>1, <4>1
    <3>2. CASE i > top
      <4>1. i - top \in 1 .. rest /\ Spot(_size, _begin, i - 1) = i - top - 1
        BY <1>1, <1>3, <2>2, <3>2 DEF Spot
      <4>2. c[i] = b[i - top]
        BY <2>2, <2>7, <3>2
      <4> QED
        BY <2>6, <4>1, <4>2
    <3> QED
      BY <1>3, <2>2, <3>1, <3>2
  <2>9. c = [i \in 1 .. count |-> c[i]]
    BY <2>2, <2>7
  <2>10. c = Around(count)
    BY <2>8, <2>9 DEF Around
  <2> QED
    BY <1>3, <2>3, <2>4, <2>10 DEF count, a, b, c
<1>6. CASE ~(_end < _begin /\ count > top)
  <2>1. first = _begin /\ rest = count
    BY <1>6
  <2>2. Taken(n).chars = Chars(_begin, count) /\ Taken(n).begin = wrap_if_bufend(_begin + count)
    BY <1>4, <2>1
  <2>3. _begin + count <= _size + 1 /\ count \in Nat
    BY <1>1, <1>2, <1>3, <1>6 DEF _bufend, cbufAvailable
  <2>4. wrap_if_bufend(_begin + count) = Spot(_size, _begin, count)
    BY <1>1, <2>3 DEF wrap_if_bufend, _bufend, Spot
  <2>5. \A i \in 1 .. count : Spot(_size, _begin, i - 1) = _begin + i - 1
    BY <1>1, <2>3 DEF Spot
  <2>6. Chars(_begin, count) = Around(count)
    BY <2>5 DEF Chars, Around
  <2> QED
    BY <1>3, <2>2, <2>4, <2>6 DEF count
<1> QED
  BY <1>5, <1>6

(* What the ring holds is what is found from _begin on. *)
LEMMA ContentsAround ==
  RingInv => /\ CBufContents \in Seq(Place) /\ Len(CBufContents) = cbufAvailable
             /\ cbufAvailable \in 0 .. _size /\ _size \in Nat
             /\ CBufContents = Around(cbufAvailable)
             /\ \A i \in 1 .. cbufAvailable : CBufContents[i] = _buf[Spot(_size, _begin, i - 1)]
<1> SUFFICES ASSUME RingInv
             PROVE  /\ CBufContents \in Seq(Place) /\ Len(CBufContents) = cbufAvailable
                    /\ cbufAvailable \in 0 .. _size /\ _size \in Nat
                    /\ CBufContents = Around(cbufAvailable)
                    /\ \A i \in 1 .. cbufAvailable :
                         CBufContents[i] = _buf[Spot(_size, _begin, i - 1)]
  OBVIOUS
<1>1. /\ _size \in Nat /\ _begin \in 0 .. _size /\ _buf \in [0 .. _size -> Place]
      /\ cbufAvailable \in 0 .. _size
  BY AvailableAndRoom DEF RingInv
<1> DEFINE n == cbufAvailable
<1> HIDE DEF n
<1>2. n \in Nat /\ n <= _size
  BY <1>1 DEF n
<1>3. MinOf(n, n) = n
  BY DEF MinOf
<1>4. CBufContents = Around(n)
  BY <1>2, <1>3, TakenAround DEF CBufContents, n
<1>5. \A i \in 1 .. n : Spot(_size, _begin, i - 1) \in 0 .. _size
  BY <1>1, <1>2 DEF Spot
<1>6. /\ Around(n) \in [1 .. n -> Place]
      /\ \A i \in 1 .. n : Around(n)[i] = _buf[Spot(_size, _begin, i - 1)]
  BY <1>1, <1>5 DEF Around
<1>7. Around(n) \in Seq(Place) /\ Len(Around(n)) = n
  BY <1>2, <1>6
<1> QED
  BY <1>1, <1>4, <1>6, <1>7 DEF n

LEMMA LeadingIsTaken ==
  ASSUME RingInv, NEW n \in Nat
  PROVE  /\ CharQueue!Leading(CBufContents, n) = Taken(n).chars
         /\ CharQueue!Least(n, Len(CBufContents)) = MinOf(n, cbufAvailable)
         /\ MinOf(n, cbufAvailable) \in 0 .. Len(CBufContents)
<1> DEFINE k == MinOf(n, cbufAvailable)
           held == CBufContents
<1>1. held \in Seq(Place) /\ Len(held) = cbufAvailable /\ cbufAvailable \in Nat
  BY ContentsAround
<1>2. \A i \in 1 .. cbufAvailable : held[i] = _buf[Spot(_size, _begin, i - 1)]
  BY ContentsAround
<1>3. k \in 0 .. cbufAvailable /\ Taken(n).chars = Around(k)
  BY TakenAround
<1>4. CharQueue!Least(n, Len(held)) = k
  BY <1>1 DEF CharQueue!Least, MinOf
<1> HIDE DEF k, held
<1>5. SubSeq(held, 1, k) = [i \in 1 .. k |-> held[i]]
  BY <1>1, <1>3
<1>6. \A i \in 1 .. k : held[i] = _buf[Spot(_size, _begin, i - 1)]
  BY <1>1, <1>2, <1>3
<1>7. SubSeq(held, 1, k) = Around(k)
  BY <1>5, <1>6 DEF Around
<1> QED
  BY <1>1, <1>3, <1>4, <1>7 DEF CharQueue!Leading, held, k

(* _begin moves over k characters. *)
LEMMA BeginMoves ==
  ASSUME RingInv, NEW k \in 0 .. cbufAvailable, _begin' = Spot(_size, _begin, k),
         UNCHANGED <<_size, _buf, _end>>
  PROVE  /\ RingInv' /\ cbufAvailable' = cbufAvailable - k
         /\ CBufContents' = SubSeq(CBufContents, k + 1, Len(CBufContents))
<1>1. /\ _size \in Nat /\ _begin \in 0 .. _size /\ _end \in 0 .. _size
      /\ cbufAvailable \in 0 .. _size /\ k \in 0 .. _size
  BY AvailableAndRoom DEF RingInv
<1>2. RingInv'
  <2>1. _begin' \in 0 .. _size
    BY <1>1, SpotInRing
  <2> QED
    BY <2>1 DEF RingInv
<1>3. cbufAvailable' = cbufAvailable - k
  <2>1. cbufAvailable' = IF _end >= _begin' THEN _end - _begin' ELSE _size + 1 - (_begin' - _end)
    BY DEF cbufAvailable
  <2>2. _begin' = IF _begin + k > _size THEN _begin + k - (_size + 1) ELSE _begin + k
    BY DEF Spot
  <2> QED
    BY <1>1, <2>1, <2>2 DEF cbufAvailable
<1>4. /\ CBufContents \in Seq(Place) /\ Len(CBufContents) = cbufAvailable
      /\ \A i \in 1 .. cbufAvailable : CBufContents[i] = _buf[Spot(_size, _begin, i - 1)]
  BY ContentsAround
<1>5. (RingInv => CBufContents = Around(cbufAvailable))'
  BY ContentsAround, PTL
<1>6. CBufContents' = [i \in 1 .. cbufAvailable - k |->
                         _buf[Spot(_size, Spot(_size, _begin, k), i - 1)]]
  BY <1>2, <1>3, <1>5 DEF Around
<1> DEFINE held == CBufContents
<1> HIDE DEF held
<1>7. SubSeq(held, k + 1, Len(held)) = [i \in 1 .. cbufAvailable - k |-> held[k + i]]
  <2>1. Len(held) - (k + 1) + 1 = cbufAvailable - k /\ Len(held) \in Nat
    BY <1>1, <1>4 DEF held
  <2>2. SubSeq(held, k + 1, Len(held)) = [i \in 1 .. Len(held) - (k + 1) + 1 |->
                                            held[(k + 1) + i - 1]]
    BY <1>1, <1>4, <2>1 DEF held
  <2>3. \A i \in 1 .. cbufAvailable - k : (k + 1) + i - 1 = k + i
    BY <1>1
  <2> QED
    BY <2>1, <2>2, <2>3
<1>8. ASSUME NEW i \in 1 .. cbufAvailable - k
      PROVE  held[k + i] = _buf[Spot(_size, Spot(_size, _begin, k), i - 1)]
  <2>1. k + i \in 1 .. cbufAvailable /\ i - 1 \in 0 .. _size /\ k + (i - 1) <= _size
    BY <1>1
  <2>2. Spot(_size, Spot(_size, _begin, k), i - 1) = Spot(_size, _begin, k + (i - 1))
    BY <1>1, <2>1, SpotInRing
  <2>3. k + (i - 1) = k + i - 1
    BY <1>1
  <2> QED
    BY <1>4, <2>1, <2>2, <2>3 DEF held
<1>9. CBufContents' = SubSeq(held, k + 1, Len(held))
  BY <1>6, <1>7, <1>8
<1> QED
  BY <1>2, <1>3, <1>9 DEF held

(* flush() takes all. *)
LEMMA RingEmptied ==
  ASSUME RingInv, _begin' = 0, _end' = 0, UNCHANGED <<_size, _buf>>
  PROVE  RingInv' /\ CBufContents' = <<>>
<1>1. RingInv'
  BY DEF RingInv
<1>2. cbufAvailable' = 0
  BY DEF cbufAvailable
<1>3. (RingInv => CBufContents \in Seq(Place) /\ Len(CBufContents) = cbufAvailable)'
  BY ContentsAround, PTL
<1>4. CBufContents' \in Seq(Place) /\ Len(CBufContents') = 0
  BY <1>1, <1>2, <1>3
<1> QED
  BY <1>1, <1>4, EmptySeq

LEMMA RingUnchanged ==
  ASSUME RingInv, UNCHANGED <<_size, _buf, _begin, _end>>
  PROVE  RingInv' /\ CBufContents' = CBufContents
<1>1. RingInv'
  BY DEF RingInv
<1>2. cbufAvailable' = cbufAvailable
  BY DEF cbufAvailable
<1>3. CBufContents = Around(cbufAvailable)
  BY ContentsAround
<1>4. (RingInv => CBufContents = Around(cbufAvailable))'
  BY ContentsAround, PTL
<1>5. CBufContents' = [i \in 1 .. cbufAvailable |-> _buf[Spot(_size, _begin, i - 1)]]
  BY <1>1, <1>2, <1>4 DEF Around
<1> QED
  BY <1>1, <1>3, <1>5 DEF Around

(* The calls for one character look at the oldest, if there is one. *)
LEMMA FirstIsFirst ==
  ASSUME RingInv
  PROVE  FirstChar = CharQueue!First
<1>1. /\ CBufContents \in Seq(Place) /\ Len(CBufContents) = cbufAvailable
      /\ \A i \in 1 .. cbufAvailable : CBufContents[i] = _buf[Spot(_size, _begin, i - 1)]
  BY ContentsAround
<1>2. /\ _size \in Nat /\ _begin \in 0 .. _size /\ _end \in 0 .. _size
      /\ cbufAvailable \in 0 .. _size
  BY AvailableAndRoom DEF RingInv
<1>3. empty <=> cbufAvailable = 0
  BY <1>2 DEF empty, cbufAvailable
<1>4. CBufContents = <<>> <=> cbufAvailable = 0
  BY <1>1, EmptySeq
<1>5. CASE cbufAvailable = 0
  BY <1>3, <1>4, <1>5 DEF FirstChar, CharQueue!First, CharQueue!Number, Number
<1>6. CASE cbufAvailable # 0
  <2>1. Spot(_size, _begin, 1 - 1) = _begin /\ 1 \in 1 .. cbufAvailable
    BY <1>2, <1>6 DEF Spot
  <2>2. Head(CBufContents) = CBufContents[1]
    BY <1>1, <1>2, <1>6
  <2>3. Head(CBufContents) = _buf[_begin]
    BY <1>1, <2>1, <2>2
  <2> QED
    BY <1>3, <1>4, <1>6, <2>3 DEF FirstChar, CharQueue!First, CharQueue!Number, Number
<1> QED
  BY <1>5, <1>6

LEMMA PeekCharIsPeekChar ==
  ASSUME RingInv, peekChar
  PROVE  RingInv' /\ CharQueue!PeekChar
<1>1. /\ returned' = FirstChar
      /\ _size' = _size /\ _buf' = _buf /\ _begin' = _begin /\ _end' = _end
  BY DEF peekChar, pointers
<1>2. RingInv' /\ CBufContents' = CBufContents
  BY <1>1, RingUnchanged
<1> QED
  BY <1>1, <1>2, FirstIsFirst DEF CharQueue!PeekChar

LEMMA ReadCharIsGetChar ==
  ASSUME RingInv, readChar
  PROVE  RingInv' /\ CharQueue!GetChar
<1> DEFINE k == MinOf(1, cbufAvailable)
<1>1. /\ returned' = FirstChar /\ _size' = _size /\ _buf' = _buf /\ _end' = _end
      /\ _begin' = IF empty THEN _begin ELSE wrap_if_bufend(_begin + 1)
  BY DEF readChar
<1>2. /\ _size \in Nat /\ _begin \in 0 .. _size /\ _end \in 0 .. _size
      /\ cbufAvailable \in 0 .. _size
  BY AvailableAndRoom DEF RingInv
<1>3. empty <=> cbufAvailable = 0
  BY <1>2 DEF empty, cbufAvailable
<1>4. k \in 0 .. cbufAvailable /\ (k = IF empty THEN 0 ELSE 1)
  BY <1>2, <1>3 DEF MinOf
<1>5. _begin' = Spot(_size, _begin, k)
  BY <1>1, <1>2, <1>4 DEF Spot, wrap_if_bufend, _bufend
<1> HIDE DEF k
<1>6. RingInv' /\ CBufContents' = SubSeq(CBufContents, k + 1, Len(CBufContents))
  BY <1>1, <1>4, <1>5, BeginMoves
<1>7. CharQueue!Least(1, Len(CBufContents)) = k
  BY LeadingIsTaken DEF k
<1>8. CBufContents' = CharQueue!Rest(CBufContents, 1)
  BY <1>6, <1>7 DEF CharQueue!Rest
<1> QED
  BY <1>1, <1>6, <1>8, FirstIsFirst DEF CharQueue!GetChar

LEMMA PeekIsPeek ==
  ASSUME RingInv, NEW n \in 0 .. MaxChars, peek(n)
  PROVE  RingInv' /\ CharQueue!Peek(n)
<1>1. n \in Nat
  BY CharAssumption
<1>2. /\ returned' = CharArray(Taken(n).chars)
      /\ _size' = _size /\ _buf' = _buf /\ _begin' = _begin /\ _end' = _end
  BY DEF peek, pointers
<1>3. RingInv' /\ CBufContents' = CBufContents
  BY <1>2, RingUnchanged
<1>4. CharQueue!Leading(CBufContents, n) = Taken(n).chars
  BY <1>1, LeadingIsTaken
<1> QED
  BY <1>2, <1>3, <1>4 DEF CharQueue!Peek, CharQueue!Chars, CharArray

LEMMA ReadIsGet ==
  ASSUME RingInv, NEW n \in 0 .. MaxChars, read(n)
  PROVE  RingInv' /\ CharQueue!Get(n)
<1> DEFINE k == MinOf(n, cbufAvailable)
<1>1. n \in Nat
  BY CharAssumption
<1>2. /\ returned' = CharArray(Taken(n).chars) /\ _begin' = Taken(n).begin
      /\ _size' = _size /\ _buf' = _buf /\ _end' = _end
  BY DEF read
<1>3. k \in 0 .. cbufAvailable /\ _begin' = Spot(_size, _begin, k)
  BY <1>1, <1>2, TakenAround
<1> HIDE DEF k
<1>4. RingInv' /\ CBufContents' = SubSeq(CBufContents, k + 1, Len(CBufContents))
  BY <1>2, <1>3, BeginMoves
<1>5. /\ CharQueue!Leading(CBufContents, n) = Taken(n).chars
      /\ CharQueue!Least(n, Len(CBufContents)) = k
  BY <1>1, LeadingIsTaken DEF k
<1>6. CBufContents' = CharQueue!Rest(CBufContents, n)
  BY <1>4, <1>5 DEF CharQueue!Rest
<1> QED
  BY <1>2, <1>4, <1>5, <1>6 DEF CharQueue!Get, CharQueue!Chars, CharArray

(* Removing what is there, or more, is a flush(). *)
LEMMA FlushIsDrop ==
  ASSUME RingInv, NEW n \in Nat, n >= cbufAvailable, flush
  PROVE  RingInv' /\ CharQueue!Drop(n)
<1>1. _begin' = 0 /\ _end' = 0 /\ returned' = Number(0) /\ _size' = _size /\ _buf' = _buf
  BY DEF flush
<1>2. RingInv' /\ CBufContents' = <<>>
  BY <1>1, RingEmptied
<1>3. /\ CBufContents \in Seq(Place) /\ Len(CBufContents) = cbufAvailable
      /\ cbufAvailable \in Nat
  BY ContentsAround
<1> DEFINE held == CBufContents
<1> HIDE DEF held
<1>4. held \in Seq(Place) /\ Len(held) \in Nat /\ n >= Len(held)
  BY <1>3 DEF held
<1>5. CharQueue!Least(n, Len(held)) = Len(held)
  BY <1>4 DEF CharQueue!Least
<1>6. SubSeq(held, Len(held) + 1, Len(held)) = <<>>
  BY <1>4
<1>7. CharQueue!Rest(held, n) = <<>>
  BY <1>5, <1>6 DEF CharQueue!Rest
<1>8. CBufContents' = CharQueue!Rest(CBufContents, n) /\ Len(CBufContents') = 0
  BY <1>2, <1>7 DEF held
<1> QED
  BY <1>1, <1>2, <1>8 DEF CharQueue!Drop, CharQueue!Number, Number

LEMMA RemoveIsDrop ==
  ASSUME RingInv, NEW n \in 0 .. MaxChars, remove(n)
  PROVE  RingInv' /\ CharQueue!Drop(n)
<1>1. n \in Nat
  BY CharAssumption
<1>2. CASE n >= cbufAvailable /\ flush
  BY <1>1, <1>2, FlushIsDrop
<1>3. CASE ~(n >= cbufAvailable /\ flush)
  <2> DEFINE top == _bufend - _begin
             split == _end < _begin /\ n > top
  <2>1. /\ n < cbufAvailable
        /\ _begin' = IF split THEN wrap_if_bufend(n - top) ELSE wrap_if_bufend(_begin + n)
        /\ returned' = Number(IF _end >= _begin' THEN _end - _begin'
                              ELSE _size + 1 - (_begin' - _end))
        /\ _size' = _size /\ _buf' = _buf /\ _end' = _end
    BY <1>3 DEF remove
  <2>2. /\ _size \in Nat /\ _begin \in 0 .. _size /\ _end \in 0 .. _size
        /\ cbufAvailable \in 0 .. _size
    BY AvailableAndRoom DEF RingInv
  <2>3. n \in 0 .. cbufAvailable
    BY <1>1, <2>1, <2>2
  <2>4. _begin' = Spot(_size, _begin, n)
    <3>1. CASE split
      BY <1>1, <2>1, <2>2, <3>1 DEF wrap_if_bufend, _bufend, Spot, cbufAvailable
    <3>2. CASE ~split
      <4>1. _begin + n <= _size + 1
        BY <1>1, <2>1, <2>2, <3>2 DEF _bufend, cbufAvailable
      <4> QED
        BY <1>1, <2>1, <2>2, <3>2, <4>1 DEF wrap_if_bufend, _bufend, Spot
    <3> QED
      BY <3>1, <3>2
  <2>5. /\ RingInv' /\ cbufAvailable' = cbufAvailable - n
        /\ CBufContents' = SubSeq(CBufContents, n + 1, Len(CBufContents))
    BY <2>1, <2>3, <2>4, BeginMoves
  <2>6. Len(CBufContents) = cbufAvailable
    BY ContentsAround
  <2>7. CharQueue!Least(n, Len(CBufContents)) = n
    BY <2>1, <2>6 DEF CharQueue!Least
  <2>8. CBufContents' = CharQueue!Rest(CBufContents, n)
    BY <2>5, <2>7 DEF CharQueue!Rest
  <2>9. (RingInv => Len(CBufContents) = cbufAvailable)'
    BY ContentsAround, PTL
  <2>10. cbufAvailable' = IF _end >= _begin' THEN _end - _begin' ELSE _size + 1 - (_begin' - _end)
    BY <2>1 DEF cbufAvailable
  <2>11. returned' = CharQueue!Number(Len(CBufContents'))
    BY <2>1, <2>5, <2>9, <2>10 DEF CharQueue!Number, Number
  <2> QED
    BY <2>1, <2>5, <2>8, <2>11 DEF CharQueue!Drop
<1> QED
  BY <1>2, <1>3

LEMMA ArraysAreBounded ==
  \A str : str \in BoundedSeq(Char, MaxChars) <=> str \in Seq(Char) /\ Len(str) <= MaxChars
<1>1. ASSUME NEW str \in BoundedSeq(Char, MaxChars)
      PROVE  str \in Seq(Char) /\ Len(str) <= MaxChars
  <2>1. PICK m \in 0 .. MaxChars : str \in [1 .. m -> Char]
    BY DEF BoundedSeq, SeqOf
  <2>2. m \in Nat /\ m <= MaxChars
    BY CharAssumption
  <2> QED
    BY <2>1, <2>2
<1>2. ASSUME NEW str \in Seq(Char), Len(str) <= MaxChars
      PROVE  str \in BoundedSeq(Char, MaxChars)
  <2>1. Len(str) \in 0 .. MaxChars /\ str \in [1 .. Len(str) -> Char]
    BY <1>2, CharAssumption
  <2> QED
    BY <2>1 DEF BoundedSeq, SeqOf
<1> QED
  BY <1>1, <1>2

(* k characters are put after the ones there are. *)
LEMMA EndMoves ==
  ASSUME RingInv, RingInv', UNCHANGED <<_size, _begin>>,
         NEW str \in Seq(Char), NEW k \in 0 .. Len(str), cbufAvailable' = cbufAvailable + k,
         \A i \in 1 .. cbufAvailable :
           _buf'[Spot(_size, _begin, i - 1)] = _buf[Spot(_size, _begin, i - 1)],
         \A i \in 1 .. k : _buf'[Spot(_size, _begin, cbufAvailable + i - 1)] = str[i]
  PROVE  CBufContents' = CBufContents \o SubSeq(str, 1, k)
<1> DEFINE n == cbufAvailable
           held == CBufContents
           some == SubSeq(str, 1, k)
           both == held \o some
           then == CBufContents'
<1>1. held \in Seq(Place) /\ Len(held) = n /\ n \in Nat
  BY ContentsAround
<1>2. \A i \in 1 .. n : held[i] = _buf[Spot(_size, _begin, i - 1)]
  BY ContentsAround
<1>3. k \in Nat /\ Len(str) \in Nat /\ k <= Len(str)
  OBVIOUS
<1>4. Len(some) = k /\ some \in Seq(Char) /\ \A i \in 1 .. k : some[i] = str[i]
  BY <1>3
<1>5. some \in Seq(Place)
  <2> HIDE DEF some
  <2>1. some \in [1 .. k -> Place]
    BY <1>3, <1>4 DEF Place
  <2> QED
    BY <1>3, <2>1
<1> HIDE DEF held, some
<1>6. /\ both \in Seq(Place) /\ Len(both) = n + k
      /\ \A i \in 1 .. n + k : both[i] = IF i <= n THEN held[i] ELSE some[i - n]
  BY <1>1, <1>4, <1>5, PlacesJoin
<1>7. (RingInv => /\ CBufContents \in Seq(Place) /\ Len(CBufContents) = cbufAvailable
                  /\ \A i \in 1 .. cbufAvailable :
                       CBufContents[i] = _buf[Spot(_size, _begin, i - 1)])'
  BY ContentsAround, PTL
<1>8. /\ then \in Seq(Place) /\ Len(then) = n + k
      /\ \A i \in 1 .. n + k : then[i] = _buf'[Spot(_size, _begin, i - 1)]
  BY <1>7
<1> HIDE DEF both, then, n
<1>9. ASSUME NEW i \in 1 .. n + k
      PROVE  then[i] = both[i]
  <2>1. CASE i <= n
    <3>1. i \in 1 .. n
      BY <1>1, <1>3, <2>1
    <3>2. _buf'[Spot(_size, _begin, i - 1)] = _buf[Spot(_size, _begin, i - 1)]
      BY <3>1 DEF n
    <3> QED
      BY <1>2, <1>6, <1>8, <2>1, <3>1, <3>2
  <2>2. CASE i > n
    <3>1. i - n \in 1 .. k /\ n + (i - n) - 1 = i - 1
      BY <1>1, <1>3, <2>2
    <3>2. _buf'[Spot(_size, _begin, i - 1)] = str[i - n]
      BY <3>1 DEF n
    <3>3. both[i] = some[i - n]
      BY <1>1, <1>6, <2>2
    <3> QED
      BY <1>4, <1>8, <3>1, <3>2, <3>3
  <2> QED
    BY <1>1, <1>3, <2>1, <2>2
<1>10. then = both
  BY <1>6, <1>8, <1>9, SeqEqual
<1> QED
  BY <1>10 DEF then, both, held, some

LEMMA WriteCharIsPut ==
  ASSUME RingInv, NEW c \in Char, writeChar(c)
  PROVE  RingInv' /\ CharQueue!Put(<<c>>)
<1> DEFINE str == <<c>>
<1>1. /\ returned' = Number(IF full THEN 0 ELSE 1)
      /\ _buf' = IF full THEN _buf ELSE [_buf EXCEPT ![_end] = c]
      /\ _end' = IF full THEN _end ELSE wrap_if_bufend(_end + 1)
      /\ _size' = _size /\ _begin' = _begin
  BY DEF writeChar
<1>2. /\ _size \in Nat /\ _begin \in 0 .. _size /\ _end \in 0 .. _size
      /\ _buf \in [0 .. _size -> Place]
  BY DEF RingInv
<1>3. /\ cbufAvailable \in 0 .. _size /\ (full <=> cbufAvailable = _size)
      /\ Spot(_size, _begin, cbufAvailable) = _end
  BY AvailableAndRoom
<1>4. Len(CBufContents) = cbufAvailable /\ CBufContents \in Seq(Place)
  BY ContentsAround
<1>5. /\ str \in Seq(Char) /\ Len(str) = 1 /\ str[1] = c
      /\ SubSeq(str, 1, 0) = <<>> /\ SubSeq(str, 1, 1) = str
  <2>1. str \in Seq(Char) /\ Len(str) = 1 /\ str[1] = c
    OBVIOUS
  <2> HIDE DEF str
  <2>2. SubSeq(str, 1, 0) = <<>> /\ SubSeq(str, 1, Len(str)) = str
    BY <2>1
  <2> QED
    BY <2>1, <2>2
<1> HIDE DEF str
<1>6. CASE full
  <2>1. RingInv' /\ CBufContents' = CBufContents
    BY <1>1, <1>6, RingUnchanged
  <2>2. CharQueue!Least(1, _size - Len(CBufContents)) = 0
    BY <1>2, <1>3, <1>4, <1>6 DEF CharQueue!Least
  <2>3. CharQueue!Least(_size - Len(CBufContents), Len(str)) = 0
    BY <1>2, <1>3, <1>4, <1>5, <1>6 DEF CharQueue!Least
  <2>4. CharQueue!Leading(str, _size - Len(CBufContents)) = <<>>
    BY <1>5, <2>3 DEF CharQueue!Leading
  <2>5. CBufContents \o <<>> = CBufContents
    BY <1>4, ConcatEmptySeq
  <2>6. returned' = CharQueue!Number(0)
    BY <1>1, <1>6 DEF Number, CharQueue!Number
  <2>7. CharQueue!Put(str)
    BY <1>1, <1>5, <2>1, <2>2, <2>4, <2>5, <2>6 DEF CharQueue!Put
  <2> QED
    BY <2>1, <2>7 DEF str
<1>7. CASE ~full
  <2>1. _buf' = [_buf EXCEPT ![_end] = c] /\ _end' = wrap_if_bufend(_end + 1)
    BY <1>1, <1>7
  <2>2. cbufAvailable < _size /\ cbufAvailable \in Nat
    BY <1>2, <1>3, <1>7
  <2>3. RingInv'
    <3>1. _end' \in 0 .. _size
      BY <1>2, <2>1 DEF wrap_if_bufend, _bufend
    <3>2. _buf' \in [0 .. _size -> Place]
      BY <1>2, <2>1 DEF Place
    <3> QED
      BY <1>1, <1>2, <3>1, <3>2 DEF RingInv
  <2>4. cbufAvailable' = cbufAvailable + 1
    <3>1. cbufAvailable' = IF _end' >= _begin THEN _end' - _begin ELSE _size + 1 - (_begin - _end')
      BY <1>1 DEF cbufAvailable
    <3>2. _end' = IF _end = _size THEN 0 ELSE _end + 1
      BY <1>2, <2>1 DEF wrap_if_bufend, _bufend
    <3>3. cbufAvailable = IF _end >= _begin THEN _end - _begin ELSE _size + 1 - (_begin - _end)
      BY DEF cbufAvailable
    <3> HIDE DEF cbufAvailable
    <3> QED
      BY <1>2, <2>2, <3>1, <3>2, <3>3
  <2>5. ASSUME NEW i \in 1 .. cbufAvailable
        PROVE  _buf'[Spot(_size, _begin, i - 1)] = _buf[Spot(_size, _begin, i - 1)]
    <3>1. Spot(_size, _begin, i - 1) \in 0 .. _size /\ Spot(_size, _begin, i - 1) # _end
      BY <1>2, <1>3, <2>2 DEF Spot
    <3> QED
      BY <1>2, <2>1, <3>1
  <2>6. ASSUME NEW i \in 1 .. 1
        PROVE  _buf'[Spot(_size, _begin, cbufAvailable + i - 1)] = str[i]
    <3>1. i = 1 /\ cbufAvailable + i - 1 = cbufAvailable
      BY <2>2
    <3> QED
      BY <1>2, <1>3, <1>5, <2>1, <3>1
  <2>7. 1 \in 0 .. Len(str)
    BY <1>5
  <2>8. CBufContents' = CBufContents \o SubSeq(str, 1, 1)
    BY <1>1, <1>5, <2>3, <2>4, <2>5, <2>6, <2>7, EndMoves
  <2>9. CharQueue!Least(1, _size - Len(CBufContents)) = 1
    BY <1>2, <1>4, <2>2 DEF CharQueue!Least
  <2>10. CharQueue!Least(_size - Len(CBufContents), Len(str)) = 1
    BY <1>2, <1>4, <1>5, <2>2 DEF CharQueue!Least
  <2>11. returned' = CharQueue!Number(1)
    BY <1>1, <1>7 DEF Number, CharQueue!Number
  <2>12. CharQueue!Put(str)
    BY <1>1, <1>5, <2>8, <2>9, <2>10, <2>11 DEF CharQueue!Put, CharQueue!Leading
  <2> QED
    BY <2>3, <2>12 DEF str
<1> QED
  BY <1>6, <1>7

LEMMA WriteIsPut ==
  ASSUME RingInv, NEW src \in BoundedSeq(Char, MaxChars), write(src)
  PROVE  RingInv' /\ CharQueue!Put(src)
<1> DEFINE count == MinOf(Len(src), room)
           top == _bufend - _end
           split == _end >= _begin /\ count > top
           first == IF split THEN top ELSE count
<1>1. /\ returned' = Number(count)
      /\ _buf' = [i \in DOMAIN _buf |->
                    IF i \in _end .. _end + first - 1 THEN src[i - _end + 1]
                    ELSE IF split /\ i < count - top THEN src[top + i + 1]
                    ELSE _buf[i]]
      /\ _end' = IF split THEN wrap_if_bufend(count - top) ELSE wrap_if_bufend(_end + count)
      /\ _size' = _size /\ _begin' = _begin
  BY DEF write
<1>2. /\ _size \in Nat /\ _begin \in 0 .. _size /\ _end \in 0 .. _size
      /\ _buf \in [0 .. _size -> Place]
  BY DEF RingInv
<1>3. src \in Seq(Char) /\ Len(src) \in Nat
  BY ArraysAreBounded
<1>4. cbufAvailable \in 0 .. _size /\ room = _size - cbufAvailable
  BY AvailableAndRoom
<1>5. count \in 0 .. Len(src) /\ count <= room /\ count \in Nat /\ room \in Nat
  BY <1>2, <1>3, <1>4 DEF MinOf
<1>6. CharQueue!Least(Len(src), room) = count /\ CharQueue!Least(room, Len(src)) = count
  BY <1>3, <1>5 DEF CharQueue!Least, MinOf
<1>7. top = _size + 1 - _end /\ top \in Nat
  BY <1>2 DEF _bufend
<1>8. room = IF _end >= _begin THEN _size - (_end - _begin) ELSE _begin - _end - 1
  BY DEF room
<1> HIDE DEF count, top
<1>9. ASSUME NEW i \in 0 .. _size
      PROVE  /\ i \in _end .. _end + first - 1 => i - _end + 1 \in 1 .. Len(src)
             /\ split /\ i < count - top => top + i + 1 \in 1 .. Len(src)
  BY <1>2, <1>3, <1>5, <1>7
<1>10. _buf' \in [0 .. _size -> Place]
  <2>1. ASSUME NEW i \in 0 .. _size
        PROVE  _buf'[i] \in Place
    <3>1. _buf'[i] = IF i \in _end .. _end + first - 1 THEN src[i - _end + 1]
                     ELSE IF split /\ i < count - top THEN src[top + i + 1]
                     ELSE _buf[i]
      BY <1>1, <1>2
    <3>2. \A j \in 1 .. Len(src) : src[j] \in Place
      BY <1>3 DEF Place
    <3>3. _buf[i] \in Place
      BY <1>2
    <3> HIDE DEF first, split
    <3> QED
      BY <1>9, <3>1, <3>2, <3>3
  <2>2. _buf' = [i \in 0 .. _size |-> _buf'[i]]
    BY <1>1, <1>2
  <2> QED
    BY <2>1, <2>2
<1>11. _end' = IF _end + count > _size THEN _end + count - (_size + 1) ELSE _end + count
  <2>1. CASE split
    BY <1>1, <1>2, <1>5, <1>7, <1>8, <2>1 DEF wrap_if_bufend, _bufend
  <2>2. CASE ~split
    <3>1. _end + count <= _size + 1
      BY <1>2, <1>5, <1>7, <1>8, <2>2
    <3> QED
      BY <1>1, <1>2, <1>5, <2>2, <3>1 DEF wrap_if_bufend, _bufend
  <2> QED
    BY <2>1, <2>2
<1>12. _end' \in 0 .. _size
  BY <1>2, <1>5, <1>8, <1>11
<1>13. RingInv'
  BY <1>1, <1>2, <1>10, <1>12 DEF RingInv
<1>14. cbufAvailable = IF _end >= _begin THEN _end - _begin ELSE _size + 1 - (_begin - _end)
  BY DEF cbufAvailable
<1>15. cbufAvailable' = cbufAvailable + count
  <2>1. cbufAvailable' = IF _end' >= _begin THEN _end' - _begin ELSE _size + 1 - (_begin - _end')
    BY <1>1 DEF cbufAvailable
  <2> HIDE DEF cbufAvailable
  <2> QED
    BY <1>2, <1>4, <1>5, <1>8, <1>11, <1>14, <2>1
<1>16. ASSUME NEW i \in 1 .. cbufAvailable
       PROVE  _buf'[Spot(_size, _begin, i - 1)] = _buf[Spot(_size, _begin, i - 1)]
  <2> DEFINE j == Spot(_size, _begin, i - 1)
  <2>1. j \in 0 .. _size /\ j \notin _end .. _end + first - 1 /\ ~(split /\ j < count - top)
    BY <1>2, <1>4, <1>5, <1>7, <1>8, <1>14 DEF Spot
  <2> HIDE DEF j, first, split
  <2>2. _buf'[j] = _buf[j]
    BY <1>1, <1>2, <2>1
  <2> QED
    BY <2>2 DEF j
<1>17. ASSUME NEW i \in 1 .. count
       PROVE  _buf'[Spot(_size, _begin, cbufAvailable + i - 1)] = src[i]
  <2> DEFINE j == Spot(_size, _begin, cbufAvailable + i - 1)
  <2>1. /\ j \in 0 .. _size
        /\ \/ j \in _end .. _end + first - 1 /\ j - _end + 1 = i
           \/ /\ j \notin _end .. _end + first - 1 /\ split /\ j < count - top
              /\ top + j + 1 = i
    <3>1. j = IF _end + i - 1 > _size THEN _end + i - 1 - (_size + 1) ELSE _end + i - 1
      BY <1>2, <1>4, <1>5, <1>8, <1>14 DEF Spot
    <3> HIDE DEF j
    <3>2. CASE split
      BY <1>2, <1>5, <1>7, <1>8, <3>1, <3>2
    <3>3. CASE ~split
      <4>1. _end + count <= _size + 1
        BY <1>2, <1>5, <1>7, <1>8, <3>3
      <4> QED
        BY <1>2, <1>5, <3>1, <3>3, <4>1
    <3> QED
      BY <3>2, <3>3
  <2> HIDE DEF j, first, split
  <2>2. _buf'[j] = src[i]
    BY <1>1, <1>2, <2>1
  <2> QED
    BY <2>2 DEF j
<1>18. CBufContents' = CBufContents \o SubSeq(src, 1, count)
  BY <1>1, <1>3, <1>5, <1>13, <1>15, <1>16, <1>17, EndMoves
<1>19. Len(CBufContents) = cbufAvailable
  BY ContentsAround
<1>20. CharQueue!Put(src)
  BY <1>1, <1>4, <1>6, <1>18, <1>19
  DEF CharQueue!Put, CharQueue!Leading, CharQueue!Number, Number
<1> QED
  BY <1>13, <1>20

LEMMA ResizeIsResize ==
  ASSUME RingInv, NEW newSize \in 0 .. MaxSize, resize(newSize)
  PROVE  RingInv' /\ CharQueue!Resize(newSize)
<1>1. newSize \in Nat
  BY CharAssumption
<1>2. /\ CBufContents \in Seq(Place) /\ Len(CBufContents) = cbufAvailable
      /\ cbufAvailable \in 0 .. _size /\ _size \in Nat
  BY ContentsAround
<1>3. CASE newSize < cbufAvailable \/ newSize = _size
  <2>1. /\ returned' = Number(_size)
        /\ _size' = _size /\ _buf' = _buf /\ _begin' = _begin /\ _end' = _end
    BY <1>1, <1>2, <1>3 DEF resize, pointers
  <2>2. RingInv' /\ CBufContents' = CBufContents
    BY <2>1, RingUnchanged
  <2>3. _size' = IF newSize < Len(CBufContents) THEN _size ELSE newSize
    BY <1>1, <1>2, <1>3, <2>1
  <2> QED
    BY <2>1, <2>2, <2>3 DEF CharQueue!Resize, CharQueue!Number, Number
<1>4. CASE ~(newSize < cbufAvailable \/ newSize = _size)
  <2> DEFINE chars == Taken(cbufAvailable).chars
  <2>1. /\ newSize >= cbufAvailable
        /\ _buf' = [i \in 0 .. newSize |-> IF i < cbufAvailable THEN chars[i + 1] ELSE Unset]
        /\ _size' = newSize /\ returned' = Number(newSize)
        /\ _begin' = 0 /\ _end' = cbufAvailable
    BY <1>1, <1>2, <1>4 DEF resize
  <2>2. chars = CBufContents
    BY DEF CBufContents
  <2> HIDE DEF chars
  <2> DEFINE n == cbufAvailable
  <2>3. n \in 0 .. newSize /\ n \in Nat
    BY <1>1, <1>2, <2>1
  <2>4. cbufAvailable' = n
    BY <2>1, <2>3 DEF cbufAvailable
  <2> HIDE DEF n
  <2>5. chars \in Seq(Place) /\ Len(chars) = n
    BY <1>2, <2>2 DEF n
  <2>6. /\ RingInv' => /\ CBufContents' \in Seq(Place) /\ Len(CBufContents') = n
                       /\ \A i \in 1 .. n : CBufContents'[i] = _buf'[Spot(newSize, 0, i - 1)]
    <3>1. (RingInv => /\ CBufContents \in Seq(Place) /\ Len(CBufContents) = cbufAvailable
                      /\ \A i \in 1 .. cbufAvailable :
                           CBufContents[i] = _buf[Spot(_size, _begin, i - 1)])'
      BY ContentsAround, PTL
    <3> QED
      BY <2>1, <2>4, <3>1
  <2>7. \A i \in 1 .. n : chars[i] \in Place
    BY <2>5
  <2>8. _buf' \in [0 .. newSize -> Place]
    <3>1. ASSUME NEW i \in 0 .. newSize
          PROVE  (IF i < n THEN chars[i + 1] ELSE Unset) \in Place
      <4>1. CASE i < n
        <5>1. i + 1 \in 1 .. n
          BY <1>1, <2>3, <4>1
        <5> QED
          BY <2>7, <4>1, <5>1
      <4>2. CASE ~(i < n)
        BY <4>2 DEF Place
      <4> QED
        BY <4>1, <4>2
    <3> QED
      BY <2>1, <3>1 DEF n
  <2>9. RingInv'
    BY <1>1, <2>1, <2>3, <2>8 DEF RingInv, n
  <2>10. ASSUME NEW i \in 1 .. n
         PROVE  CBufContents'[i] = chars[i]
    <3>1. Spot(newSize, 0, i - 1) = i - 1 /\ i - 1 \in 0 .. newSize /\ i - 1 < n /\ i - 1 + 1 = i
      BY <1>1, <2>3 DEF Spot
    <3>2. _buf'[i - 1] = chars[i - 1 + 1]
      BY <2>1, <3>1 DEF n
    <3>3. CBufContents'[i] = _buf'[Spot(newSize, 0, i - 1)]
      BY <2>6, <2>9
    <3> QED
      BY <3>1, <3>2, <3>3
  <2>11. CBufContents' = chars
    <3> DEFINE then == CBufContents'
    <3>1. then \in Seq(Place) /\ Len(then) = n /\ \A i \in 1 .. n : then[i] = chars[i]
      BY <2>6, <2>9, <2>10
    <3> HIDE DEF then
    <3>2. then = chars
      BY <2>5, <3>1, SeqEqual
    <3> QED
      BY <3>2 DEF then
  <2>12. _size' = IF newSize < Len(CBufContents) THEN _size ELSE newSize
    BY <1>1, <1>2, <2>1
  <2> QED
    BY <2>1, <2>2, <2>9, <2>11, <2>12 DEF CharQueue!Resize, CharQueue!Number, Number
<1> QED
  BY <1>3, <1>4

LEMMA InitIsCharInit == CBufInit => RingInv /\ CharQueue!Init
<1> SUFFICES ASSUME CBufInit
             PROVE  RingInv /\ CharQueue!Init
  OBVIOUS
<1>1. /\ _size \in 0 .. MaxSize /\ _buf = [i \in 0 .. _size |-> Unset]
      /\ _begin = 0 /\ _end = 0 /\ returned = Number(0)
  BY DEF CBufInit
<1>2. _size \in Nat
  BY <1>1, CharAssumption
<1>3. RingInv
  BY <1>1, <1>2 DEF RingInv, Place
<1>4. cbufAvailable = 0
  BY <1>1 DEF cbufAvailable
<1>5. CBufContents \in Seq(Place) /\ Len(CBufContents) = 0
  BY <1>3, <1>4, ContentsAround
<1>6. CBufContents = <<>>
  BY <1>5, EmptySeq
<1> QED
  BY <1>1, <1>3, <1>6 DEF CharQueue!Init, CharQueue!Number, Number

LEMMA StepIsCharStep ==
  RingInv /\ [CBufNext]_cbufVars => RingInv' /\ [CharQueue!Next]_CharQueue!charVars
<1> SUFFICES ASSUME RingInv, [CBufNext]_cbufVars
             PROVE  RingInv' /\ [CharQueue!Next]_CharQueue!charVars
  OBVIOUS
<1>0. CharQueue!BoundedSeq(Char, MaxChars) = BoundedSeq(Char, MaxChars)
  BY DEF CharQueue!BoundedSeq, CharQueue!SeqOf, BoundedSeq, SeqOf
<1>1. 1 \in 0 .. MaxChars /\ MaxChars \in Nat
  BY CharAssumption
<1>2. ASSUME NEW n \in 0 .. MaxChars, peek(n)
      PROVE  RingInv' /\ CharQueue!Next
  BY <1>2, PeekIsPeek DEF CharQueue!Next
<1>3. ASSUME NEW n \in 0 .. MaxChars, read(n)
      PROVE  RingInv' /\ CharQueue!Next
  BY <1>3, ReadIsGet DEF CharQueue!Next
<1>4. ASSUME NEW n \in 0 .. MaxChars, remove(n)
      PROVE  RingInv' /\ CharQueue!Next
  BY <1>4, RemoveIsDrop DEF CharQueue!Next
<1>5. CASE peekChar \/ readChar
  BY <1>5, PeekCharIsPeekChar, ReadCharIsGetChar DEF CharQueue!Next
<1>6. CASE flush
  <2>1. cbufAvailable \in Nat /\ Len(CBufContents) = cbufAvailable
    BY ContentsAround
  <2>2. Len(CBufContents) \in Nat /\ Len(CBufContents) >= cbufAvailable
    BY <2>1
  <2>3. RingInv' /\ CharQueue!Drop(Len(CBufContents))
    BY <1>6, <2>2, FlushIsDrop
  <2> QED
    BY <2>3 DEF CharQueue!Next
<1>7. ASSUME NEW c \in Char, writeChar(c)
      PROVE  RingInv' /\ CharQueue!Next
  <2> DEFINE str == <<c>>
  <2>1. str \in Seq(Char) /\ Len(str) = 1
    OBVIOUS
  <2>2. RingInv' /\ CharQueue!Put(str)
    BY <1>7, WriteCharIsPut
  <2> HIDE DEF str
  <2>3. Len(str) <= MaxChars
    BY <2>1, CharAssumption
  <2>4. str \in BoundedSeq(Char, MaxChars)
    BY <2>1, <2>3, ArraysAreBounded
  <2> QED
    BY <1>0, <2>2, <2>4 DEF CharQueue!Next
<1>8. ASSUME NEW src \in BoundedSeq(Char, MaxChars), write(src)
      PROVE  RingInv' /\ CharQueue!Next
  BY <1>0, <1>8, WriteIsPut DEF CharQueue!Next
<1>9. ASSUME NEW n \in 0 .. MaxSize, resize(n)
      PROVE  RingInv' /\ CharQueue!Next
  BY <1>9, ResizeIsResize DEF CharQueue!Next
<1>10. CASE UNCHANGED cbufVars
  <2>1. /\ _size' = _size /\ _buf' = _buf /\ _begin' = _begin /\ _end' = _end
        /\ returned' = returned
    BY <1>10 DEF cbufVars, pointers
  <2>2. RingInv' /\ CBufContents' = CBufContents
    BY <2>1, RingUnchanged
  <2> QED
    BY <2>1, <2>2 DEF CharQueue!charVars
<1> QED
  BY <1>2, <1>3, <1>4, <1>5, <1>6, <1>7, <1>8, <1>9, <1>10 DEF CBufNext

(* Through every wrap, removal and resize the cbuf is a queue of           *)
(* characters of a size that can change: for every character set, every    *)
(* length of the arrays and every size asked for.                          *)
THEOREM CBufIsQueue == CBufSpec => ImplementsCharFifo
<1>1. CBufInit => RingInv /\ CharQueue!Init
  BY InitIsCharInit
<1>2. RingInv /\ [CBufNext]_cbufVars => RingInv' /\ [CharQueue!Next]_CharQueue!charVars
  BY StepIsCharStep
<1> QED
  BY <1>1, <1>2, PTL DEF CBufSpec, ImplementsCharFifo, CharQueue!Spec

-----------------------------------------------------------------------------
(***************************************************************************)
(* MD5Builder.  The invariant: the blocks stepped and the first bytes of   *)
(* _input are what was added since begin().                                *)
(***************************************************************************)
Item == MD5Byte \cup {One, Nought} \cup {Length(n) : n \in Nat}
Slice(g, b) == [i \in 1 .. Block |-> g[(b - 1) * Block + i]]

(* The state of a builder that was given the first n items of g. *)
HasTaken(state, g, n) ==
  \E q \in Nat :
    /\ state.offset \in 0 .. Block - 1 /\ n = q * Block + state.offset
    /\ DOMAIN state.input = 0 .. Block - 1
    /\ state.stepped \in Seq([1 .. Block -> Item]) /\ Len(state.stepped) = q
    /\ \A b \in 1 .. q : state.stepped[b] = Slice(g, b)
    /\ \A i \in 0 .. state.offset - 1 : state.input[i] = g[q * Block + i + 1]

LEMMA PlaceInBlock ==
  ASSUME NEW q \in Nat, NEW r \in 0 .. Block - 1, NEW b \in 1 .. q, NEW i \in 1 .. Block
  PROVE  /\ (b - 1) * Block + i \in 1 .. q * Block /\ (b - 1) * Block + i \in 1 .. q * Block + r
         /\ q * Block \in Nat
<1>1. Block \in Nat /\ q * Block \in Nat /\ (b - 1) * Block \in Nat
  BY MD5Assumption
<1> DEFINE d == q - b
<1>2. d \in Nat /\ q = b + d
  OBVIOUS
<1> HIDE DEF d
<1>3. d * Block \in Nat /\ q * Block = (b - 1) * Block + Block + d * Block
  BY <1>1, <1>2
<1> QED
  BY <1>1, <1>3

LEMMA PutTakes ==
  ASSUME NEW g \in Seq(Item), NEW n \in Nat, n < Len(g), NEW state, HasTaken(state, g, n)
  PROVE  HasTaken(Put(state, g[n + 1]), g, n + 1)
<1> DEFINE o == state.offset
           filled == [state.input EXCEPT ![o] = g[n + 1]]
           after == Put(state, g[n + 1])
<1>1. PICK q \in Nat :
        /\ o \in 0 .. Block - 1 /\ n = q * Block + o
        /\ DOMAIN state.input = 0 .. Block - 1
        /\ state.stepped \in Seq([1 .. Block -> Item]) /\ Len(state.stepped) = q
        /\ \A b \in 1 .. q : state.stepped[b] = Slice(g, b)
        /\ \A i \in 0 .. o - 1 : state.input[i] = g[q * Block + i + 1]
  BY DEF HasTaken
<1>2. /\ after.input = filled
      /\ after.offset = IF o + 1 = Block THEN 0 ELSE o + 1
      /\ after.stepped = IF o + 1 = Block THEN Append(state.stepped, MD5Contents(filled))
                         ELSE state.stepped
  BY DEF Put
<1>3. DOMAIN filled = 0 .. Block - 1
  BY <1>1
<1>4. ASSUME NEW i \in 0 .. o
      PROVE  filled[i] = g[q * Block + i + 1]
  <2>1. i \in 0 .. Block - 1
    BY <1>1, MD5Assumption
  <2>2. CASE i = o
    BY <1>1, <2>1, <2>2
  <2>3. CASE i # o
    <3>1. i \in 0 .. o - 1
      BY <1>1, <2>3, MD5Assumption
    <3> QED
      BY <1>1, <2>1, <2>3, <3>1
  <2> QED
    BY <2>2, <2>3
<1> HIDE DEF filled, after
<1>5. CASE o + 1 = Block
  <2>1. MD5Contents(filled) = Slice(g, q + 1)
    <3>1. ASSUME NEW i \in 1 .. Block
          PROVE  filled[i - 1] = g[(q + 1 - 1) * Block + i]
      <4>1. i - 1 \in 0 .. o /\ q + 1 - 1 = q
        BY <1>1, <1>5, MD5Assumption
      <4>2. q * Block + (i - 1) + 1 = q * Block + i
        BY <1>1, MD5Assumption
      <4> QED
        BY <1>4, <4>1, <4>2
    <3> QED
      BY <3>1 DEF MD5Contents, Slice
  <2>2. Slice(g, q + 1) \in [1 .. Block -> Item]
    <3>1. ASSUME NEW i \in 1 .. Block
          PROVE  g[(q + 1 - 1) * Block + i] \in Item
      <4>1. q * Block + i \in 1 .. Len(g) /\ q + 1 - 1 = q
        BY <1>1, <1>5, MD5Assumption
      <4> QED
        BY <4>1, ElementOfSeq
    <3> QED
      BY <3>1 DEF Slice
  <2>3. /\ after.stepped \in Seq([1 .. Block -> Item]) /\ Len(after.stepped) = q + 1
        /\ after.stepped[q + 1] = Slice(g, q + 1)
        /\ \A b \in 1 .. q : after.stepped[b] = state.stepped[b]
    <3>1. after.stepped = Append(state.stepped, Slice(g, q + 1))
      BY <1>2, <1>5, <2>1
    <3> QED
      BY <1>1, <2>2, <3>1
  <2>4. \A b \in 1 .. q + 1 : after.stepped[b] = Slice(g, b)
    BY <1>1, <2>3
  <2>5. after.offset = 0 /\ 0 \in 0 .. Block - 1 /\ n + 1 = (q + 1) * Block + 0
    BY <1>1, <1>2, <1>5, MD5Assumption
  <2>6. q + 1 \in Nat /\ \A i \in 0 .. 0 - 1 : FALSE
    OBVIOUS
  <2> QED
    BY <1>2, <1>3, <2>3, <2>4, <2>5, <2>6 DEF HasTaken, after
<1>6. CASE o + 1 # Block
  <2>0. o \in Nat /\ q * Block \in Nat /\ n = q * Block + o /\ after.offset = o + 1
    BY <1>1, <1>2, <1>6, MD5Assumption
  <2>1. /\ after.offset = o + 1 /\ o + 1 \in 0 .. Block - 1 /\ n + 1 = q * Block + (o + 1)
        /\ (o + 1) - 1 = o
    <3>0. Block \in Nat /\ o \in 0 .. Block - 1
      BY <1>1, MD5Assumption
    <3> HIDE DEF o
    <3>1. o + 1 \in 0 .. Block - 1
      BY <1>6, <3>0
    <3> QED
      BY <2>0, <3>1
  <2>2. after.stepped = state.stepped /\ after.input = filled
    BY <1>2, <1>6
  <2>3. \A i \in 0 .. after.offset - 1 : after.input[i] = g[q * Block + i + 1]
    BY <1>4, <2>1, <2>2
  <2> QED
    BY <1>1, <1>3, <2>1, <2>2, <2>3 DEF HasTaken, after
<1> QED
  BY <1>5, <1>6

(* A set with 0 and, below m, the successor of each of its members.        *)
LEMMA UpTo ==
  ASSUME NEW m \in Nat, NEW T, 0 \in T, \A n \in 0 .. m - 1 : n \in T => n + 1 \in T
  PROVE  0 .. m \subseteq T
<1> DEFINE U == {n \in 0 .. m : n \notin T}
<1>1. U = {}
  <2> SUFFICES ASSUME U # {}
               PROVE  FALSE
    OBVIOUS
  <2>1. U \subseteq Nat
    OBVIOUS
  <2>2. PICK n \in U : \A k \in U : n <= k
    BY <2>1, LeastOfNats
  <2>3. n \in 0 .. m /\ n \notin T /\ n # 0
    OBVIOUS
  <2>4. n - 1 \in 0 .. m - 1 /\ ~(n <= n - 1)
    BY <2>3
  <2>5. n - 1 \notin U
    BY <2>2, <2>4
  <2>6. n - 1 \in T
    BY <2>4, <2>5
  <2>7. n - 1 + 1 = n
    BY <2>3
  <2> QED
    BY <2>3, <2>4, <2>6, <2>7
<1> QED
  BY <1>1

BuilderNow == [input |-> _input, offset |-> md5_size % Block, stepped |-> stepped]

PutAfterPut(s, bytes) ==
  CHOOSE after : after = [k \in 0 .. Len(bytes) |->
                            IF k = 0 THEN s ELSE Put(after[k - 1], bytes[k])]

LEMMA PutAfterPutExists ==
  ASSUME NEW bytes \in Seq(Item), NEW s
  PROVE  PutAfterPut(s, bytes) =
           [k \in 0 .. Len(bytes) |->
              IF k = 0 THEN s ELSE Put(PutAfterPut(s, bytes)[k - 1], bytes[k])]
<1> DEFINE Solves(f, m) == f = [k \in 0 .. m |-> IF k = 0 THEN s ELSE Put(f[k - 1], bytes[k])]
           T == {m \in Nat : \E f : Solves(f, m)}
<1>1. Len(bytes) \in Nat
  OBVIOUS
<1>2. 0 \in T
  <2> DEFINE f == [k \in 0 .. 0 |-> s]
  <2>1. Solves(f, 0)
    OBVIOUS
  <2> QED
    BY <2>1
<1>3. ASSUME NEW m \in 0 .. Len(bytes) - 1, m \in T
      PROVE  m + 1 \in T
  <2>1. PICK f : Solves(f, m)
    BY <1>3
  <2>2. m \in Nat /\ m + 1 \in Nat
    BY <1>1
  <2> DEFINE g == [k \in 0 .. m + 1 |-> IF k = 0 THEN s ELSE Put(f[k - 1], bytes[k])]
             h == [k \in 0 .. m + 1 |-> IF k = 0 THEN s ELSE Put(g[k - 1], bytes[k])]
  <2>3. \A k \in 0 .. m : g[k] = f[k]
    BY <2>1, <2>2
  <2>4. ASSUME NEW k \in 0 .. m + 1
        PROVE  g[k] = h[k]
    <3>1. CASE k = 0
      BY <2>2, <3>1
    <3>2. CASE k # 0
      <4>1. k - 1 \in 0 .. m
        BY <2>2, <3>2
      <4>2. g[k - 1] = f[k - 1]
        BY <2>3, <4>1
      <4> QED
        BY <3>2, <4>2
    <3> QED
      BY <3>1, <3>2
  <2>5. g = h
    BY <2>4
  <2>6. Solves(g, m + 1)
    BY <2>5
  <2> QED
    BY <2>2, <2>6
<1>4. 0 .. Len(bytes) \subseteq T
  <2> HIDE DEF T
  <2> QED
    BY <1>1, <1>2, <1>3, UpTo
<1>5. \E f : Solves(f, Len(bytes))
  BY <1>1, <1>4
<1> QED
  BY <1>5 DEF PutAfterPut

LEMMA EachPut ==
  ASSUME NEW bytes \in Seq(Item)
  PROVE  /\ Added(bytes) = PutAfterPut(BuilderNow, bytes)[Len(bytes)]
         /\ PutAfterPut(BuilderNow, bytes)[0] = BuilderNow
         /\ \A k \in 1 .. Len(bytes) :
              PutAfterPut(BuilderNow, bytes)[k]
                = Put(PutAfterPut(BuilderNow, bytes)[k - 1], bytes[k])
<1> DEFINE s == BuilderNow
           P == PutAfterPut(s, bytes)
           m == Len(bytes)
<1>1. m \in Nat
  OBVIOUS
<1>2. Added(bytes) = P[m]
  BY DEF Added, PutAfterPut, BuilderNow
<1>3. P = [k \in 0 .. m |-> IF k = 0 THEN s ELSE Put(P[k - 1], bytes[k])]
  BY PutAfterPutExists
<1> HIDE DEF P, m
<1>4. P[0] = s
  BY <1>1, <1>3
<1>5. ASSUME NEW k \in 1 .. m
      PROVE  P[k] = Put(P[k - 1], bytes[k])
  <2>1. k \in 0 .. m /\ k # 0
    BY <1>1
  <2> QED
    BY <1>3, <2>1
<1> QED
  BY <1>2, <1>4, <1>5 DEF P, m

(* Of a sequence to which something is appended the first items stay. *)
LEMMA TakenOfLonger ==
  ASSUME NEW g \in Seq(Item), NEW h \in Seq(Item), NEW state, HasTaken(state, g, Len(g))
  PROVE  HasTaken(state, g \o h, Len(g))
<1> DEFINE o == state.offset
           f == g \o h
           n == Len(g)
<1>1. PICK q \in Nat :
        /\ o \in 0 .. Block - 1 /\ n = q * Block + o
        /\ DOMAIN state.input = 0 .. Block - 1
        /\ state.stepped \in Seq([1 .. Block -> Item]) /\ Len(state.stepped) = q
        /\ \A b \in 1 .. q : state.stepped[b] = Slice(g, b)
        /\ \A i \in 0 .. o - 1 : state.input[i] = g[q * Block + i + 1]
  BY DEF HasTaken
<1>2. \A j \in 1 .. n : f[j] = g[j]
  BY ConcatProperties
<1> HIDE DEF f, n
<1>3. ASSUME NEW b \in 1 .. q
      PROVE  Slice(f, b) = Slice(g, b)
  <2>1. ASSUME NEW i \in 1 .. Block
        PROVE  f[(b - 1) * Block + i] = g[(b - 1) * Block + i]
    <3>1. (b - 1) * Block + i \in 1 .. q * Block + o
      BY <1>1, PlaceInBlock
    <3> QED
      BY <1>1, <1>2, <3>1
  <2> QED
    BY <2>1 DEF Slice
<1>4. ASSUME NEW i \in 0 .. o - 1
      PROVE  f[q * Block + i + 1] = g[q * Block + i + 1]
  <2>1. q * Block \in Nat
    BY MD5Assumption
  <2>2. q * Block + i + 1 \in 1 .. n
    BY <1>1, <2>1
  <2> QED
    BY <1>2, <2>2
<1> HIDE DEF o
<1>5. HasTaken(state, f, n)
  BY <1>1, <1>3, <1>4 DEF HasTaken, o
<1> QED
  BY <1>5 DEF f, n

LEMMA AddedTakes ==
  ASSUME NEW g \in Seq(Item), NEW bytes \in Seq(Item), HasTaken(BuilderNow, g, Len(g))
  PROVE  HasTaken(Added(bytes), g \o bytes, Len(g) + Len(bytes))
<1> DEFINE P == PutAfterPut(BuilderNow, bytes)
           f == g \o bytes
           n == Len(g)
           m == Len(bytes)
           T == {k \in 0 .. m : HasTaken(P[k], f, n + k)}
<1>1. m \in Nat /\ n \in Nat /\ f \in Seq(Item) /\ Len(f) = n + m
      /\ \A k \in 1 .. m : f[n + k] = bytes[k]
  BY ConcatProperties
<1>2. Added(bytes) = P[m] /\ P[0] = BuilderNow /\ \A k \in 1 .. m : P[k] = Put(P[k - 1], bytes[k])
  BY EachPut
<1>3. HasTaken(P[0], f, n)
  BY <1>2, TakenOfLonger
<1> HIDE DEF P, f, n, m
<1>4. 0 \in T
  BY <1>1, <1>3
<1>5. ASSUME NEW k \in 0 .. m - 1, k \in T
      PROVE  k + 1 \in T
  <2>1. n + k \in Nat /\ n + k < Len(f) /\ k + 1 \in 1 .. m /\ k + 1 - 1 = k
        /\ n + (k + 1) = n + k + 1
    BY <1>1
  <2>2. HasTaken(P[k], f, n + k)
    BY <1>5
  <2>3. HasTaken(Put(P[k], f[n + k + 1]), f, n + k + 1)
    BY <1>1, <2>1, <2>2, PutTakes
  <2>4. P[k + 1] = Put(P[k], f[n + k + 1])
    BY <1>1, <1>2, <2>1, SMTT(30)
  <2>5. k + 1 \in 0 .. m
    BY <1>1
  <2> QED
    BY <2>1, <2>3, <2>4, <2>5
<1>6. 0 .. m \subseteq T
  <2> HIDE DEF T
  <2> QED
    BY <1>1, <1>4, <1>5, UpTo
<1>7. m \in T
  BY <1>1, <1>6
<1> QED
  BY <1>2, <1>7 DEF f, n, m

LEMMA DivisionUnique ==
  ASSUME NEW B \in Nat \ {0}, NEW a \in Int, NEW c \in Int, NEW r \in 0 .. B - 1,
         NEW s \in 0 .. B - 1, a * B + r = c * B + s
  PROVE  a = c /\ r = s
<1> DEFINE d == c - a
<1>1. d \in Int /\ c = a + d
  OBVIOUS
<1> HIDE DEF d
<1>2. r = d * B + s
  BY <1>1
<1>3. CASE d = 0
  BY <1>1, <1>2, <1>3
<1>4. CASE d > 0
  <2>1. d * B >= B
    BY <1>1, <1>4
  <2> QED
    BY <1>1, <1>2, <2>1
<1>5. CASE d < 0
  <2>1. (0 - d) * B >= B
    BY <1>1, <1>5
  <2>2. d * B <= 0 - B
    BY <1>1, <2>1
  <2> QED
    BY <1>1, <1>2, <2>2
<1> QED
  BY <1>1, <1>3, <1>4, <1>5

LEMMA DivideAndRest ==
  ASSUME NEW B \in Nat \ {0}, NEW t \in Int
  PROVE  t % B \in 0 .. B - 1 /\ t \div B \in Int /\ t = (t \div B) * B + (t % B)
<1> DEFINE q == t \div B
           r == t % B
<1>1. r \in 0 .. B - 1 /\ q \in Int
  OBVIOUS
<1>2. t = B * q + r
  OBVIOUS
<1> HIDE DEF q, r
<1>3. t = q * B + r
  BY <1>1, <1>2
<1> QED
  BY <1>1, <1>3 DEF q, r

(* The padding ends where the length begins. *)
LEMMA PaddingFits ==
  ASSUME NEW n \in Nat
  PROVE  /\ PaddingLength(n % Block) \in 1 .. Block
         /\ \E q \in Nat : n + PaddingLength(n % Block) = q * Block + (Block - LengthBytes)
<1> DEFINE o == n % Block
           k == n \div Block
           p == PaddingLength(o)
<1>1. Block \in Nat \ {0} /\ LengthBytes \in 1 .. Block - 1
  BY MD5Assumption
<1>2. o \in 0 .. Block - 1 /\ k \in Nat /\ n = k * Block + o
  BY <1>1
<1>3. p = IF o < Block - LengthBytes THEN Block - LengthBytes - o
          ELSE 2 * Block - LengthBytes - o
  BY DEF PaddingLength
<1> HIDE DEF o, k, p
<1>4. p \in 1 .. Block
  BY <1>1, <1>2, <1>3
<1>5. CASE o < Block - LengthBytes
  <2>1. n + p = k * Block + (Block - LengthBytes)
    BY <1>1, <1>2, <1>3, <1>5
  <2> QED
    BY <1>2, <1>4, <2>1 DEF p, o
<1>6. CASE ~(o < Block - LengthBytes)
  <2>1. n + p = (k + 1) * Block + (Block - LengthBytes) /\ k + 1 \in Nat
    BY <1>1, <1>2, <1>3, <1>6
  <2> QED
    BY <1>4, <2>1 DEF p, o
<1> QED
  BY <1>5, <1>6

(* Its noughts are those the standard wants. *)
LEMMA ZerosAreThose ==
  ASSUME NEW n \in Nat
  PROVE  (CHOOSE z \in 0 .. Block - 1 : (n + 1 + z + LengthBytes) % Block = 0)
           = PaddingLength(n % Block) - 1
<1> DEFINE p == PaddingLength(n % Block)
           Fits(z) == (n + 1 + z + LengthBytes) % Block = 0
           noughts == CHOOSE z \in 0 .. Block - 1 : Fits(z)
<1>1. Block \in Nat \ {0} /\ LengthBytes \in 1 .. Block - 1
  BY MD5Assumption
<1>2. p \in 1 .. Block
  BY PaddingFits
<1>3. PICK q \in Nat : n + p = q * Block + (Block - LengthBytes)
  BY PaddingFits
<1> HIDE DEF p
<1>4. Fits(p - 1)
  <2> DEFINE t == n + 1 + (p - 1) + LengthBytes
  <2>1. t \in Int /\ t = (q + 1) * Block + 0
    BY <1>1, <1>2, <1>3
  <2> DEFINE k == t \div Block
             r == t % Block
  <2> HIDE DEF t
  <2>2. r \in 0 .. Block - 1 /\ k \in Int /\ t = k * Block + r
    BY <1>1, <2>1, DivideAndRest, Zenon
  <2> HIDE DEF k, r
  <2>3. q + 1 \in Int /\ 0 \in 0 .. Block - 1 /\ k * Block + r = (q + 1) * Block + 0
    BY <1>1, <2>1, <2>2
  <2>4. r = 0
    BY <1>1, <2>2, <2>3, DivisionUnique
  <2>5. t % Block = 0
    BY <2>4 DEF r
  <2> QED
    BY <2>5 DEF t
<1>5. ASSUME NEW z \in 0 .. Block - 1, Fits(z)
      PROVE  z = p - 1
  <2> DEFINE t == n + 1 + z + LengthBytes
             k == t \div Block
             d == z - (p - 1)
  <2>1. t \in Nat /\ t % Block = 0
    BY <1>1, <1>5
  <2>2. k \in Int /\ t = k * Block + 0
    BY <1>1, <2>1
  <2>3. d \in Int /\ t = (q + 1) * Block + d /\ z = p - 1 + d
    BY <1>1, <1>2, <1>3
  <2>4. d < Block /\ d > 0 - Block
    BY <1>1, <1>2
  <2> HIDE DEF t, k, d
  <2>5. CASE d >= 0
    <3>1. d \in 0 .. Block - 1 /\ 0 \in 0 .. Block - 1
      BY <1>1, <2>3, <2>4, <2>5
    <3>2. q + 1 \in Int /\ k * Block + 0 = (q + 1) * Block + d
      BY <2>2, <2>3
    <3>3. d = 0
      BY <1>1, <2>2, <3>1, <3>2, DivisionUnique
    <3> QED
      BY <1>2, <2>3, <3>3
  <2>6. CASE d < 0
    <3>1. Block + d \in 0 .. Block - 1 /\ 0 \in 0 .. Block - 1 /\ t = q * Block + (Block + d)
      BY <1>1, <2>3, <2>4, <2>6
    <3>2. q \in Int /\ k * Block + 0 = q * Block + (Block + d)
      BY <2>2, <3>1
    <3>3. Block + d = 0
      BY <1>1, <2>2, <3>1, <3>2, DivisionUnique, ZenonT(30)
    <3> QED
      BY <1>1, <2>3, <2>4, <3>3
  <2> QED
    BY <2>3, <2>5, <2>6
<1>6. p - 1 \in 0 .. Block - 1
  BY <1>1, <1>2
<1> HIDE DEF Fits
<1>7. noughts = p - 1
  BY <1>4, <1>5, <1>6
<1> QED
  BY <1>7 DEF Fits, p

(* What the standard pads a message with. *)
LEMMA StandardItems ==
  ASSUME NEW m \in Seq(Item), NEW p \in Nat \ {0}
  PROVE  LET all == m \o <<One>> \o [i \in 1 .. p - 1 |-> Nought]
                      \o [i \in 1 .. LengthBytes |-> Length(Len(m))]
             g == m \o Padding(p)
             n == Len(m)
         IN /\ all \in Seq(Item) /\ Len(all) = n + p + LengthBytes
            /\ Padding(p) \in Seq(Item) /\ Len(Padding(p)) = p
            /\ g \in Seq(Item) /\ Len(g) = n + p
            /\ \A j \in 1 .. n + p : all[j] = g[j]
            /\ \A j \in n + p + 1 .. n + p + LengthBytes : all[j] = Length(n)
<1> DEFINE n == Len(m)
           noughts == [i \in 1 .. p - 1 |-> Nought]
           lengths == [i \in 1 .. LengthBytes |-> Length(Len(m))]
           u == m \o <<One>>
           v == u \o noughts
           w == v \o lengths
           pad == Padding(p)
           g == m \o pad
<1>1. n \in Nat /\ LengthBytes \in Nat
  BY MD5Assumption
<1>2. One \in Item /\ Nought \in Item /\ Length(n) \in Item
  BY <1>1 DEF Item
<1>3. /\ <<One>> \in Seq(Item) /\ Len(<<One>>) = 1 /\ <<One>>[1] = One
      /\ noughts \in Seq(Item) /\ Len(noughts) = p - 1 /\ \A i \in 1 .. p - 1 : noughts[i] = Nought
  BY <1>2
<1>4. /\ lengths \in Seq(Item) /\ Len(lengths) = LengthBytes
      /\ \A i \in 1 .. LengthBytes : lengths[i] = Length(n)
  BY <1>1, <1>2
<1>5. /\ pad \in Seq(Item) /\ Len(pad) = p
      /\ \A i \in 1 .. p : pad[i] = IF i = 1 THEN One ELSE Nought
  <2>1. pad = [i \in 1 .. p |-> IF i = 1 THEN One ELSE Nought]
    BY DEF Padding
  <2> HIDE DEF pad
  <2> QED
    BY <1>2, <2>1
<1> HIDE DEF noughts, lengths, pad
<1>6. /\ u \in Seq(Item) /\ Len(u) = n + 1
      /\ \A i \in 1 .. n + 1 : u[i] = IF i <= n THEN m[i] ELSE One
  BY <1>1, <1>3, ConcatProperties
<1>7. /\ g \in Seq(Item) /\ Len(g) = n + p
      /\ \A i \in 1 .. n + p : g[i] = IF i <= n THEN m[i] ELSE pad[i - n]
  BY <1>1, <1>5, ConcatProperties
<1> HIDE DEF u, g
<1>8. /\ v \in Seq(Item) /\ Len(v) = n + p
      /\ \A i \in 1 .. n + p : v[i] = IF i <= n + 1 THEN u[i] ELSE Nought
  <2>0. /\ v \in Seq(Item) /\ Len(v) = Len(u) + Len(noughts)
        /\ \A i \in 1 .. Len(u) + Len(noughts) :
             v[i] = IF i <= Len(u) THEN u[i] ELSE noughts[i - Len(u)]
    BY <1>3, <1>6, ConcatProperties
  <2> HIDE DEF v, n
  <2>1. /\ v \in Seq(Item) /\ Len(v) = n + 1 + (p - 1)
        /\ \A i \in 1 .. n + 1 + (p - 1) : v[i] = IF i <= n + 1 THEN u[i] ELSE noughts[i - (n + 1)]
    BY <1>3, <1>6, <2>0
  <2>2. n + 1 + (p - 1) = n + p
    BY <1>1
  <2>3. ASSUME NEW i \in 1 .. n + p, ~(i <= n + 1)
        PROVE  noughts[i - (n + 1)] = Nought
    BY <1>1, <1>3, <2>3
  <2> QED
    BY <2>1, <2>2, <2>3
<1> HIDE DEF v
<1>9. /\ w \in Seq(Item) /\ Len(w) = n + p + LengthBytes
      /\ \A i \in 1 .. n + p + LengthBytes :
           w[i] = IF i <= n + p THEN v[i] ELSE lengths[i - (n + p)]
  <2>1. /\ w \in Seq(Item) /\ Len(w) = Len(v) + Len(lengths)
        /\ \A i \in 1 .. Len(v) + Len(lengths) :
             w[i] = IF i <= Len(v) THEN v[i] ELSE lengths[i - Len(v)]
    BY <1>4, <1>8, ConcatProperties
  <2> HIDE DEF w, n
  <2> QED
    BY <1>4, <1>8, <2>1
<1> HIDE DEF w, n
<1>10. ASSUME NEW j \in 1 .. n + p
       PROVE  w[j] = g[j]
  <2>1. w[j] = v[j]
    BY <1>1, <1>9
  <2>2. CASE j <= n
    BY <1>1, <1>6, <1>7, <1>8, <2>1, <2>2
  <2>3. CASE j > n
    <3>1. j - n \in 1 .. p /\ ~(j <= n) /\ (j - n = 1 <=> j <= n + 1)
      BY <1>1, <2>3
    <3>2. g[j] = IF j <= n + 1 THEN One ELSE Nought
      BY <1>5, <1>7, <3>1
    <3>3. CASE j <= n + 1
      BY <1>1, <1>6, <1>8, <2>1, <3>1, <3>2, <3>3
    <3>4. CASE ~(j <= n + 1)
      BY <1>8, <2>1, <3>2, <3>4
    <3> QED
      BY <3>3, <3>4
  <2> QED
    BY <1>1, <2>2, <2>3
<1>11. ASSUME NEW j \in n + p + 1 .. n + p + LengthBytes
       PROVE  w[j] = Length(n)
  <2>1. j \in 1 .. n + p + LengthBytes /\ ~(j <= n + p) /\ j - (n + p) \in 1 .. LengthBytes
    BY <1>1
  <2> QED
    BY <1>4, <1>9, <2>1
<1> QED
  BY <1>5, <1>7, <1>9, <1>10, <1>11 DEF w, v, u, noughts, lengths, n, g, pad

LEMMA PaddedByZeros ==
  ASSUME NEW m, NEW z,
         (CHOOSE n \in 0 .. Block - 1 : (Len(m) + 1 + n + LengthBytes) % Block = 0) = z
  PROVE  LET all == m \o <<One>> \o [i \in 1 .. z |-> Nought]
                      \o [i \in 1 .. LengthBytes |-> Length(Len(m))]
         IN Padded(m) = [b \in 1 .. Len(all) \div Block |->
                           SubSeq(all, (b - 1) * Block + 1, b * Block)]
<1> DEFINE c == CHOOSE n \in 0 .. Block - 1 : (Len(m) + 1 + n + LengthBytes) % Block = 0
           All(x) == m \o <<One>> \o [i \in 1 .. x |-> Nought]
                       \o [i \in 1 .. LengthBytes |-> Length(Len(m))]
           Blocks(all) == [b \in 1 .. Len(all) \div Block |->
                             SubSeq(all, (b - 1) * Block + 1, b * Block)]
<1>1. Padded(m) = Blocks(All(c))
  BY DEF Padded
<1>2. c = z
  OBVIOUS
<1> HIDE DEF c, All, Blocks
<1>3. Padded(m) = Blocks(All(z))
  BY <1>1, <1>2
<1> QED
  BY <1>3 DEF All, Blocks

LEMMA DigestIsPadded ==
  ASSUME message \in Seq(Item), HasTaken(BuilderNow, message, Len(message))
  PROVE  LET n == Len(message)
             after == Added(Padding(PaddingLength(n % Block)))
             final == [i \in 1 .. Block |-> IF i <= Block - LengthBytes
                                            THEN after.input[i - 1] ELSE Length(n)]
         IN Append(after.stepped, final) = Padded(message)
<1> DEFINE n == Len(message)
           p == PaddingLength(n % Block)
           after == Added(Padding(p))
           final == [i \in 1 .. Block |-> IF i <= Block - LengthBytes
                                          THEN after.input[i - 1] ELSE Length(n)]
           g == message \o Padding(p)
           all == message \o <<One>> \o [i \in 1 .. p - 1 |-> Nought]
                    \o [i \in 1 .. LengthBytes |-> Length(Len(message))]
           last == Block - LengthBytes
<1>1. Block \in Nat \ {0} /\ LengthBytes \in 1 .. Block - 1 /\ n \in Nat /\ last \in 0 .. Block - 1
  BY MD5Assumption
<1>2. p \in 1 .. Block /\ \E q \in Nat : n + p = q * Block + last
  BY <1>1, PaddingFits
<1>3. PICK q \in Nat : n + p = q * Block + last
  BY <1>2
<1>4. Padded(message) = [b \in 1 .. Len(all) \div Block |->
                           SubSeq(all, (b - 1) * Block + 1, b * Block)]
  <2>1. (CHOOSE z \in 0 .. Block - 1 : (Len(message) + 1 + z + LengthBytes) % Block = 0) = p - 1
    BY <1>1, ZerosAreThose
  <2> QED
    BY <2>1, PaddedByZeros
<1>5. p \in Nat \ {0}
  BY <1>1, <1>2
<1>6. /\ all \in Seq(Item) /\ Len(all) = n + p + LengthBytes
      /\ Padding(p) \in Seq(Item) /\ Len(Padding(p)) = p
      /\ g \in Seq(Item) /\ Len(g) = n + p
      /\ \A j \in 1 .. n + p : all[j] = g[j]
      /\ \A j \in n + p + 1 .. n + p + LengthBytes : all[j] = Length(n)
  BY <1>5, StandardItems
<1>7. HasTaken(after, g, n + p)
  BY <1>6, AddedTakes
<1> HIDE DEF n, p, after, g, all
<1>8. PICK k \in Nat :
        /\ after.offset \in 0 .. Block - 1 /\ n + p = k * Block + after.offset
        /\ DOMAIN after.input = 0 .. Block - 1
        /\ after.stepped \in Seq([1 .. Block -> Item]) /\ Len(after.stepped) = k
        /\ \A b \in 1 .. k : after.stepped[b] = Slice(g, b)
        /\ \A i \in 0 .. after.offset - 1 : after.input[i] = g[k * Block + i + 1]
  BY <1>7 DEF HasTaken
<1>9. after.offset = last /\ k = q
  <2> DEFINE o == after.offset
  <2>1. k * Block + o = q * Block + last /\ k \in Int /\ q \in Int /\ o \in 0 .. Block - 1
    BY <1>3, <1>8
  <2> HIDE DEF last, o
  <2>2. k = q /\ o = last
    BY <1>1, <2>1, DivisionUnique
  <2> QED
    BY <2>2 DEF o
<1>10. Len(all) = (q + 1) * Block /\ q * Block \in Nat /\ (q + 1) * Block = q * Block + Block
  BY <1>1, <1>3, <1>6
<1>11. Len(all) \div Block = q + 1
  <2> DEFINE t == (q + 1) * Block
             d == t \div Block
             r == t % Block
  <2>1. t \in Int /\ q + 1 \in Int /\ 0 \in 0 .. Block - 1
    BY <1>1, <1>10
  <2> HIDE DEF t
  <2>2. r \in 0 .. Block - 1 /\ d \in Int /\ t = d * Block + r
    BY <1>1, <2>1, DivideAndRest, Zenon
  <2> HIDE DEF d, r
  <2>3. d * Block + r = (q + 1) * Block + 0
    BY <1>1, <2>2 DEF t
  <2>4. d = q + 1
    BY <1>1, <2>1, <2>2, <2>3, DivisionUnique
  <2>5. Len(all) = t
    BY <1>10 DEF t
  <2> QED
    BY <2>4, <2>5 DEF d
<1>12. ASSUME NEW b \in 1 .. q + 1
       PROVE  SubSeq(all, (b - 1) * Block + 1, b * Block) = Slice(all, b)
  <2>1. (b - 1) * Block \in Int /\ b * Block = (b - 1) * Block + Block
    BY <1>1
  <2>2. b * Block - ((b - 1) * Block + 1) + 1 = Block
    BY <1>1, <2>1
  <2>3. \A i \in 1 .. Block : i + ((b - 1) * Block + 1) - 1 = (b - 1) * Block + i
    BY <1>1, <2>1
  <2> DEFINE c == (b - 1) * Block
             e == b * Block
  <2> HIDE DEF c, e
  <2>4. e - (c + 1) + 1 = Block /\ c \in Int /\ e = c + Block
    BY <2>1, <2>2 DEF c, e
  <2>5. SubSeq(all, c + 1, e) = [i \in 1 .. Block |-> all[c + i]]
    BY <1>1, <2>4
  <2> QED
    BY <2>5 DEF c, e, Slice
<1>13. Padded(message) = [b \in 1 .. q + 1 |-> Slice(all, b)]
  BY <1>4, <1>11, <1>12
<1>14. ASSUME NEW b \in 1 .. q
       PROVE  Slice(all, b) = after.stepped[b]
  <2>1. ASSUME NEW i \in 1 .. Block
        PROVE  all[(b - 1) * Block + i] = g[(b - 1) * Block + i]
    <3>1. (b - 1) * Block + i \in 1 .. q * Block + last
      BY <1>1, PlaceInBlock
    <3> QED
      BY <1>3, <1>6, <3>1
  <2>2. Slice(all, b) = Slice(g, b)
    BY <2>1 DEF Slice
  <2> QED
    BY <1>8, <1>9, <2>2
<1>15. Slice(all, q + 1) = final
  <2>1. ASSUME NEW i \in 1 .. Block
        PROVE  all[(q + 1 - 1) * Block + i] = final[i]
    <3>1. q + 1 - 1 = q
      OBVIOUS
    <3>2. CASE i <= last
      <4>1. i - 1 \in 0 .. last - 1 /\ q * Block + i \in 1 .. n + p
            /\ q * Block + (i - 1) + 1 = q * Block + i
        BY <1>1, <1>3, <1>10, <3>2
      <4>2. after.input[i - 1] = g[q * Block + i]
        BY <1>8, <1>9, <4>1
      <4> QED
        BY <1>6, <3>1, <3>2, <4>1, <4>2
    <3>3. CASE ~(i <= last)
      <4>1. q * Block + i \in n + p + 1 .. n + p + LengthBytes
        BY <1>1, <1>3, <1>10, <3>3
      <4> QED
        BY <1>6, <3>1, <3>3, <4>1
    <3> QED
      BY <3>2, <3>3
  <2> QED
    BY <2>1 DEF Slice
<1>16. Slice(all, q + 1) \in [1 .. Block -> Item]
  <2>1. ASSUME NEW i \in 1 .. Block
        PROVE  all[(q + 1 - 1) * Block + i] \in Item
    <3>1. q + 1 - 1 = q /\ q * Block + i \in 1 .. Len(all)
      BY <1>1, <1>10
    <3> QED
      BY <1>6, <3>1, ElementOfSeq
  <2> QED
    BY <2>1 DEF Slice
<1> HIDE DEF final
<1>17. Append(after.stepped, final) = [b \in 1 .. q + 1 |-> Slice(all, b)]
  <2> DEFINE s == after.stepped
             a == Append(s, final)
  <2>1. /\ s \in Seq([1 .. Block -> Item]) /\ Len(s) = q /\ final \in [1 .. Block -> Item]
        /\ \A b \in 1 .. q : s[b] = Slice(all, b)
    BY <1>8, <1>9, <1>14, <1>15, <1>16
  <2> HIDE DEF s
  <2>2. /\ a \in Seq([1 .. Block -> Item]) /\ Len(a) = q + 1 /\ a[q + 1] = final
        /\ \A b \in 1 .. q : a[b] = s[b]
    BY <2>1
  <2> HIDE DEF a
  <2>3. \A b \in 1 .. q + 1 : a[b] = Slice(all, b)
    BY <1>15, <2>1, <2>2
  <2>4. a = [b \in 1 .. q + 1 |-> Slice(all, b)]
    BY <2>2, <2>3
  <2> QED
    BY <2>4 DEF a, s
<1> QED
  BY <1>13, <1>17 DEF n, p, after, final

MD5Inv ==
  /\ message \in Seq(Item) /\ md5_size = Len(message)
  /\ DOMAIN _input = 0 .. Block - 1
  /\ begun => HasTaken(BuilderNow, message, Len(message))
  /\ stream # NoStream => begun
  /\ DigestOfMessage

LEMMA InitMD5Inv == MD5Init => MD5Inv
BY DEF MD5Init, MD5Inv, DigestOfMessage

LEMMA BeginKeepsMD5 ==
  ASSUME MD5Inv, begin
  PROVE  MD5Inv'
<1>1. /\ message' = <<>> /\ md5_size' = 0 /\ stepped' = <<>> /\ begun' = TRUE
      /\ _input' = _input /\ DOMAIN _input = 0 .. Block - 1
  BY DEF begin, MD5Inv
<1>2. Block \in Nat \ {0} /\ 0 % Block = 0
  BY MD5Assumption
<1>3. HasTaken(BuilderNow, message, Len(message))'
  <2> DEFINE now == BuilderNow'
  <2>1. now.input = _input /\ now.offset = 0 /\ now.stepped = <<>>
    BY <1>1, <1>2 DEF BuilderNow
  <2>2. /\ now.offset \in 0 .. Block - 1 /\ 0 = 0 * Block + now.offset
        /\ now.stepped \in Seq([1 .. Block -> Item]) /\ Len(now.stepped) = 0
        /\ \A b \in 1 .. 0 : now.stepped[b] = Slice(message', b)
        /\ \A i \in 0 .. now.offset - 1 : now.input[i] = message'[0 * Block + i + 1]
    BY <1>2, <2>1
  <2> HIDE DEF now
  <2>3. HasTaken(now, message', 0)
    BY <1>1, <2>1, <2>2 DEF HasTaken
  <2> QED
    BY <1>1, <2>3 DEF now
<1> QED
  BY <1>1, <1>3 DEF MD5Inv, DigestOfMessage

LEMMA AddKeepsMD5 ==
  ASSUME MD5Inv, begun, NEW bytes \in Seq(Item), Add(bytes), begun' = begun
  PROVE  MD5Inv'
<1> DEFINE after == Added(bytes)
           g == message \o bytes
           n == Len(message)
           m == Len(bytes)
           now == BuilderNow'
<1>1. /\ _input' = after.input /\ stepped' = after.stepped /\ md5_size' = n + m
      /\ message' = g /\ message \in Seq(Item)
  BY DEF Add, MD5Inv
<1>2. g \in Seq(Item) /\ Len(g) = n + m /\ n \in Nat /\ m \in Nat
  BY <1>1, ConcatProperties
<1>3. HasTaken(after, g, n + m)
  BY <1>1, AddedTakes DEF MD5Inv
<1>4. now.input = after.input /\ now.offset = (n + m) % Block /\ now.stepped = after.stepped
  BY <1>1 DEF BuilderNow
<1> HIDE DEF after, g, n, m, now
<1>5. PICK q \in Nat :
        /\ after.offset \in 0 .. Block - 1 /\ n + m = q * Block + after.offset
        /\ DOMAIN after.input = 0 .. Block - 1
        /\ after.stepped \in Seq([1 .. Block -> Item]) /\ Len(after.stepped) = q
        /\ \A b \in 1 .. q : after.stepped[b] = Slice(g, b)
        /\ \A i \in 0 .. after.offset - 1 : after.input[i] = g[q * Block + i + 1]
  BY <1>3 DEF HasTaken
<1>6. after.offset = (n + m) % Block
  <2> DEFINE t == n + m
             d == t \div Block
             r == t % Block
             o == after.offset
  <2>1. Block \in Nat \ {0} /\ t \in Int
    BY <1>2, MD5Assumption
  <2> HIDE DEF t
  <2>2. r \in 0 .. Block - 1 /\ d \in Int /\ t = d * Block + r
    BY <2>1, DivideAndRest, Zenon
  <2> HIDE DEF d, r
  <2>3. o \in 0 .. Block - 1 /\ q \in Int /\ q * Block + o = d * Block + r
    BY <1>5, <2>2 DEF t
  <2> HIDE DEF o
  <2>4. o = r
    BY <2>1, <2>2, <2>3, DivisionUnique
  <2> QED
    BY <2>4 DEF o, r, t
<1>7. HasTaken(now, g, n + m)
  BY <1>4, <1>5, <1>6 DEF HasTaken
<1>8. HasTaken(BuilderNow, message, Len(message))'
  BY <1>1, <1>2, <1>7 DEF now
<1> QED
  BY <1>1, <1>2, <1>5, <1>8 DEF MD5Inv, DigestOfMessage, g

LEMMA CalculateKeepsMD5 ==
  ASSUME MD5Inv, calculate
  PROVE  MD5Inv'
<1> DEFINE n == Len(message)
           after == Added(Padding(PaddingLength(n % Block)))
           final == [i \in 1 .. Block |-> IF i <= Block - LengthBytes
                                          THEN after.input[i - 1] ELSE Length(n)]
<1>1. /\ message \in Seq(Item) /\ md5_size = n /\ HasTaken(BuilderNow, message, n)
      /\ begun' = FALSE /\ UNCHANGED <<md5_size, stream, message>> /\ stream = NoStream
  BY DEF MD5Inv, calculate
<1>2. /\ _input' = after.input /\ stepped' = Append(after.stepped, final)
      /\ _digest' = stepped'
  BY <1>1 DEF calculate
<1>3. _digest' = Padded(message)
  BY <1>1, <1>2, DigestIsPadded
<1>4. DOMAIN after.input = 0 .. Block - 1
  <2> DEFINE p == PaddingLength(n % Block)
  <2>0. n \in Nat
    BY <1>1
  <2>1. p \in Nat \ {0}
    <3>1. p \in 1 .. Block /\ Block \in Nat
      BY <2>0, PaddingFits, MD5Assumption
    <3> HIDE DEF p
    <3> QED
      BY <3>1
  <2>2. Padding(PaddingLength(n % Block)) \in Seq(Item)
    BY <1>1, <2>1, StandardItems
  <2> QED
    BY <1>1, <2>2, AddedTakes DEF HasTaken
<1> HIDE DEF after, final
<1> QED
  BY <1>1, <1>2, <1>3, <1>4 DEF MD5Inv, DigestOfMessage

LEMMA ArraysAreItems ==
  ASSUME NEW bytes \in MD5Arrays
  PROVE  bytes \in Seq(Item)
<1>1. PICK n \in 0 .. MaxAdded : bytes \in [1 .. n -> MD5Byte]
  BY DEF MD5Arrays
<1>2. n \in Nat
  BY MD5Assumption
<1>3. [1 .. n -> MD5Byte] \subseteq [1 .. n -> Item]
  BY DEF Item
<1>4. bytes \in [1 .. n -> Item]
  BY <1>1, <1>3, Zenon
<1> QED
  BY <1>2, <1>4

(* What a hex string adds: all of its bytes, or whole chunks. *)
LEMMA HexAdds ==
  ASSUME NEW bytes \in Seq(Item), NEW good \in Nat
  PROVE  (IF good >= Len(bytes) THEN bytes
          ELSE SubSeq(bytes, 1, (good \div HexChunk) * HexChunk)) \in Seq(Item)
<1> DEFINE k == good \div HexChunk
           r == good % HexChunk
<1>1. HexChunk \in Nat \ {0} /\ good \in Int
  BY MD5Assumption
<1>2. r \in 0 .. HexChunk - 1 /\ k \in Int /\ good = k * HexChunk + r
  BY <1>1, DivideAndRest, Zenon
<1>3. k \in Nat
  BY <1>1
<1> HIDE DEF k, r
<1>4. CASE good < Len(bytes)
  <2>1. k * HexChunk \in 0 .. Len(bytes)
    BY <1>1, <1>2, <1>3, <1>4
  <2> DEFINE c == k * HexChunk
  <2> HIDE DEF c
  <2>2. SubSeq(bytes, 1, c) \in Seq(Item)
    BY <2>1 DEF c
  <2> QED
    BY <1>4, <2>2 DEF c, k
<1> QED
  BY <1>4

LEMMA StepMD5Inv == MD5Inv /\ [MD5Next]_md5Vars => MD5Inv'
<1> SUFFICES ASSUME MD5Inv, [MD5Next]_md5Vars
             PROVE  MD5Inv'
  OBVIOUS
<1>1. CASE begin
  BY <1>1, BeginKeepsMD5
<1>2. ASSUME NEW bytes \in MD5Arrays, add(bytes)
      PROVE  MD5Inv'
  <2>1. bytes \in Seq(Item) /\ begun /\ Add(bytes) /\ begun' = begun
    BY <1>2, ArraysAreItems DEF add
  <2> QED
    BY <2>1, AddKeepsMD5
<1>3. ASSUME NEW bytes \in MD5Arrays, NEW good \in 0 .. MaxAdded, addHexString(bytes, good)
      PROVE  MD5Inv'
  <2> DEFINE added == IF good >= Len(bytes) THEN bytes
                      ELSE SubSeq(bytes, 1, (good \div HexChunk) * HexChunk)
  <2>1. begun /\ Add(added) /\ begun' = begun
    BY <1>3 DEF addHexString
  <2>2. bytes \in Seq(Item) /\ good \in Nat
    BY ArraysAreItems, MD5Assumption
  <2>3. added \in Seq(Item)
    BY <2>2, HexAdds
  <2> HIDE DEF added
  <2> QED
    BY <2>1, <2>3, AddKeepsMD5
<1>4. ASSUME NEW maxLen \in 0 .. MaxAdded, addStream(maxLen)
      PROVE  MD5Inv'
  <2>1. begun /\ UNCHANGED <<md5_size, _input, stepped, _digest, message, begun>>
    BY <1>4 DEF addStream, builder
  <2> QED
    BY <2>1 DEF MD5Inv, BuilderNow, DigestOfMessage
<1>5. ASSUME NEW bytes \in MD5Arrays, StreamRead(bytes)
      PROVE  MD5Inv'
  <2>1. begun /\ UNCHANGED <<_digest, begun>>
    BY <1>5 DEF StreamRead, MD5Inv
  <2>2. CASE bytes = <<>>
    <3>1. UNCHANGED <<md5_size, _input, stepped, message>>
      BY <1>5, <2>2 DEF StreamRead, builder
    <3> QED
      BY <2>1, <3>1 DEF MD5Inv, BuilderNow, DigestOfMessage
  <2>3. CASE bytes # <<>>
    <3>1. Add(bytes) /\ bytes \in Seq(Item)
      BY <1>5, <2>3, ArraysAreItems DEF StreamRead
    <3> QED
      BY <2>1, <3>1, AddKeepsMD5
  <2> QED
    BY <2>2, <2>3
<1>6. CASE calculate
  BY <1>6, CalculateKeepsMD5
<1>7. CASE UNCHANGED md5Vars
  BY <1>7 DEF md5Vars, builder, MD5Inv, BuilderNow, DigestOfMessage
<1> QED
  BY <1>1, <1>2, <1>3, <1>4, <1>5, <1>6, <1>7 DEF MD5Next

(* The blocks the digest is made of are those of the whole message, padded *)
(* as the standard wants it, for messages of every length and however they *)
(* were cut (MD5Builder.cpp add(), addHexString(), addStream() and         *)
(* calculate()).                                                           *)
THEOREM DigestIsOfMessage == MD5Spec => []DigestOfMessage
<1>1. MD5Inv => DigestOfMessage
  BY DEF MD5Inv
<1> QED
  BY <1>1, InitMD5Inv, StepMD5Inv, PTL DEF MD5Spec
=============================================================================
