------------------------------- MODULE UdpProofs -------------------------------
(***************************************************************************)
(* Proof that a UDP endpoint of either class never writes through a null   *)
(* buffer, never writes past it, never loses an open socket and transmits  *)
(* every byte at most once and in order, for every buffer size, number of  *)
(* hosts and order of begin(), stop(), packets and failures.               *)
(***************************************************************************)
EXTENDS WiFiUdpStream, SequenceTheorems, TLAPS

IsStream == class = "WiFiUDPStream"

ClassTypeOK == class \in {"EthernetUDP", "WiFiUDPStream"} /\ target \in AddressType

(* Before begin() a stream has no socket, no buffer and no target's port;  *)
(* a packet is begun for a target with a port only.                        *)
StreamInv ==
  IsStream =>
    /\ begins = 0 => /\ udp_server = "closed" /\ tx = <<>>
                     /\ ~tx_buffer /\ target.port = NoHost
    /\ packet => target.port # NoHost

AtMost(p, n) == \A a \in DOMAIN p : p[a] <= n

(* The next byte to be written is above all that were. *)
BelowNext ==
  /\ AtMost(tx, written)
  /\ \A i \in DOMAIN sent : AtMost(sent[i].data, written)

(* The packet being written is in order, and follows those that were sent  *)
(* if it was begun or the stream's target is set; otherwise the buffer may *)
(* still hold the last one.                                                *)
Follows == packet \/ (IsStream /\ target.port # NoHost)
Ordered == PacketsInOrder /\ Increasing(tx) /\ (Follows => BufferFollows)

SafeInv == UdpTypeOK /\ ClassTypeOK /\ StreamInv /\ NoWriteToNull /\ NoSocketLeak
UdpInv == SafeInv /\ BelowNext /\ Ordered
-----------------------------------------------------------------------------
(* A buffer of no bytes is the empty packet. *)
LEMMA NoBytes == [i \in 1..0 |-> Uninitialized] = <<>>
<1> DEFINE none == [i \in 1..0 |-> Uninitialized]
<1>1. none \in [1..0 -> {Uninitialized}]
  OBVIOUS
<1>2. none \in Seq({Uninitialized})
  BY <1>1, SeqDef
<1>3. Len(none) = 0
  BY <1>2, LenProperties, 1..0 = {}
<1>4. QED
  BY <1>2, <1>3, EmptySeq

(* An empty packet fits, and empty queues have their types. *)
LEMMA Empty ==
  /\ <<>> \in Seq(Byte) /\ Len(<<>>) <= TxSize
  /\ <<>> \in Seq(InPacket) /\ <<>> \in Seq(OutPacket)
BY EmptySeq, TxSizeAssumption

(* At(h) is an address with a port. *)
LEMMA HostAddress ==
  ASSUME NEW h \in Host
  PROVE  /\ At(h) \in AddressType
         /\ At(h).port # NoHost
BY HostAssumption DEF At, Address, AddressType

LEMMA NowhereAddress ==
  Nowhere \in AddressType /\ Nowhere.port = NoHost /\ Nowhere.ip = NoHost
BY DEF Nowhere, Address, AddressType

(* sendto() records a packet of bytes that were written. *)
LEMMA SendtoKeepsType ==
  ASSUME UdpTypeOK, Sendto
  PROVE  sent' \in Seq(OutPacket)
<1>1. [to |-> remote, data |-> tx, begun |-> packet] \in OutPacket
  BY DEF UdpTypeOK, OutPacket
<1>2. /\ sent \in Seq(OutPacket)
      /\ \/ sent' = sent
         \/ sent' = Append(sent, [to |-> remote, data |-> tx, begun |-> packet])
  BY DEF UdpTypeOK, Sendto
<1> DEFINE this == [to |-> remote, data |-> tx, begun |-> packet]
<1> HIDE DEF this
<1>3. Append(sent, this) \in Seq(OutPacket)
  BY <1>1, <1>2, AppendProperties DEF this
<1>4. QED
  BY <1>2, <1>3, Zenon DEF this

(* write() finds room, or sends the packet and starts the next one. *)
LEMMA PutByteKeepsType ==
  ASSUME UdpTypeOK, written < MaxWrites, written' = written + 1, PutByte(written')
  PROVE  /\ written' \in Byte
         /\ tx' \in Seq(Byte) /\ Len(tx') <= TxSize
         /\ sent' \in Seq(OutPacket)
<1>1. written' \in Byte
  BY BoundAssumption DEF UdpTypeOK, Byte
<1>2. tx' \in Seq(Byte) /\ Len(tx') <= TxSize
  <2>1. CASE Len(tx) < TxSize /\ tx' = Append(tx, written')
    BY <1>1, <2>1, TxSizeAssumption, AppendProperties, LenProperties DEF UdpTypeOK
  <2>2. CASE tx' = <<written'>>
    BY <1>1, <2>2, TxSizeAssumption DEF UdpTypeOK
  <2>3. QED
    BY <2>1, <2>2 DEF PutByte
<1>3. sent' \in Seq(OutPacket)
  BY SendtoKeepsType DEF PutByte, UdpTypeOK
<1>4. QED
  BY <1>1, <1>2, <1>3

(* What is left of a packet is a number of bytes. *)
LEMMA RestType ==
  ASSUME NEW r \in Nat, NEW n \in Nat
  PROVE  Rest(r, n) \in Nat
BY DEF Rest

(* parsePacket() and what is read after it. *)
LEMMA NextPacketKeepsType ==
  ASSUME UdpTypeOK, NEW n \in Nat, NextPacket(n)
  PROVE  remote' \in AddressType /\ rx' \in Nat /\ inbox' \in Seq(InPacket)
<1>1. CASE /\ inbox # <<>>
           /\ remote' = At(Head(inbox).from)
           /\ rx' = Rest(Head(inbox).len, n)
           /\ inbox' = Tail(inbox)
  <2>1. Head(inbox) \in InPacket /\ inbox' \in Seq(InPacket)
    BY <1>1, HeadTailProperties DEF UdpTypeOK
  <2>2. Head(inbox).from \in Host /\ Head(inbox).len \in Nat
    BY <2>1 DEF InPacket
  <2>3. QED
    BY <1>1, <2>1, <2>2, RestType, HostAddress
<1>2. CASE rx' = Rest(rx, n) /\ UNCHANGED <<inbox, remote>>
  BY <1>2, RestType DEF UdpTypeOK
<1>3. QED
  BY <1>1, <1>2 DEF NextPacket

(* A packet arrives, or does not. *)
LEMMA ArriveKeepsType ==
  ASSUME UdpTypeOK, NEW h \in Host, NEW n \in 1..2, Arrive(h, n)
  PROVE  inbox' \in Seq(InPacket)
<1>1. [from |-> h, len |-> n] \in InPacket
  BY DEF InPacket
<1>2. CASE inbox' = Append(inbox, [from |-> h, len |-> n])
  BY <1>1, <1>2, AppendProperties DEF UdpTypeOK
<1>3. QED
  BY <1>2 DEF UdpTypeOK, Arrive

(* beginPacket() has the buffer whenever it reports success. *)
LEMMA BeginPacketSafe ==
  ASSUME UdpTypeOK, NoWriteToNull, NoSocketLeak, NEW h \in Host, BeginPacket(At(h))
  PROVE  /\ UdpTypeOK' /\ NoWriteToNull' /\ NoSocketLeak'
         /\ tx' = <<>> /\ UNCHANGED <<sent, written, begins>>
<1> USE DEF BeginPacket, StartPacket, history
<1>1. At(h) \in AddressType /\ At(h).port # NoHost
  BY HostAddress
<1>2. tx' = <<>> /\ tx_buffer' = TRUE
  BY <1>1
<1>3. UdpTypeOK'
  BY <1>1, <1>2, Empty DEF UdpTypeOK
<1>4. QED
  BY <1>2, <1>3 DEF NoWriteToNull, NoSocketLeak

-----------------------------------------------------------------------------
(* SafeInv is kept by every call of an EthernetUDP. *)
LEMMA UdpSafe ==
  ASSUME SafeInv, class = "EthernetUDP", UdpNext, UNCHANGED <<class, target>>
  PROVE  SafeInv'
<1> USE DEF SafeInv
<1>1. ClassTypeOK' /\ StreamInv'
  BY DEF ClassTypeOK, StreamInv, IsStream
<1>2. CASE Begin
  <2>1. tx' = <<>>
    BY <1>2, NoBytes DEF Begin, OpenSocket
  <2>2. UdpTypeOK'
    BY <1>2, <2>1, Empty DEF UdpTypeOK, Begin, OpenSocket
  <2>3. QED
    BY <1>1, <1>2, <2>2 DEF NoWriteToNull, NoSocketLeak, Begin, OpenSocket
<1>3. CASE Stop
  <2>1. UdpTypeOK'
    BY <1>3, Empty DEF UdpTypeOK, Stop, history
  <2>2. QED
    BY <1>1, <1>3, <2>1 DEF NoWriteToNull, NoSocketLeak, Stop
<1>4. ASSUME NEW h \in Host, BeginPacket(At(h)) PROVE SafeInv'
  BY <1>1, <1>4, BeginPacketSafe
<1>5. CASE Write
  BY <1>1, <1>5, PutByteKeepsType DEF UdpTypeOK, NoWriteToNull, NoSocketLeak, Write, socket
<1>6. CASE EndPacket
  BY <1>1, <1>6, SendtoKeepsType
     DEF UdpTypeOK, NoWriteToNull, NoSocketLeak, EndPacket, socket, history
<1>7. CASE ParsePacket
  <2>1. remote' \in AddressType /\ rx' \in Nat /\ inbox' \in Seq(InPacket)
    BY <1>7, NextPacketKeepsType, 0 \in Nat DEF ParsePacket
  <2>2. QED
    BY <1>1, <1>7, <2>1
       DEF UdpTypeOK, NoWriteToNull, NoSocketLeak, ParsePacket, socket, history
<1>8. ASSUME NEW n \in 1..2, Read(n) PROVE SafeInv'
  <2>1. n \in Nat /\ rx \in Nat /\ rx' = Rest(rx, n)
    BY <1>8 DEF UdpTypeOK, Read
  <2>2. rx' \in Nat
    BY <2>1, RestType
  <2>3. QED
    BY <1>1, <1>8, <2>2 DEF UdpTypeOK, NoWriteToNull, NoSocketLeak, Read, socket, history
<1>9. CASE FlushUdp
  BY <1>1, <1>9 DEF UdpTypeOK, NoWriteToNull, NoSocketLeak, FlushUdp, socket, history
<1>10. ASSUME NEW h \in Host, NEW n \in 1..2, Arrive(h, n) PROVE SafeInv'
  BY <1>1, <1>10, ArriveKeepsType DEF UdpTypeOK, NoWriteToNull, NoSocketLeak, Arrive, socket
<1>11. QED
  BY <1>2, <1>3, <1>4, <1>5, <1>6, <1>7, <1>8, <1>9, <1>10 DEF UdpNext

(* begin() of a stream, which is called once and first. *)
LEMMA StreamBeginSafe ==
  ASSUME SafeInv, IsStream, begins = 0, SBegin, UNCHANGED class
  PROVE  SafeInv' /\ tx' = <<>>
<1> USE DEF SafeInv, SBegin, OpenSocket
<1>1. udp_server = "closed" /\ tx = <<>> /\ target.port = NoHost /\ ~packet
  BY DEF StreamInv
<1>2. tx' = <<>>
  BY <1>1, NoBytes
<1>3. UdpTypeOK'
  BY <1>1, <1>2, Empty DEF UdpTypeOK
<1>4. ClassTypeOK' /\ NoWriteToNull' /\ NoSocketLeak'
  BY <1>1 DEF ClassTypeOK, NoWriteToNull, NoSocketLeak
<1>5. StreamInv'
  BY <1>1 DEF StreamInv, UdpTypeOK
<1>6. QED
  BY <1>2, <1>3, <1>4, <1>5

(* setTarget() *)
LEMMA SetTargetSafe ==
  ASSUME SafeInv, IsStream, begins > 0, NEW h \in Host, SetTarget(h), UNCHANGED class
  PROVE  SafeInv' /\ tx' = <<>> /\ UNCHANGED <<sent, written>>
<1> USE DEF SafeInv, SetTarget
<1>1. /\ UdpTypeOK' /\ NoWriteToNull' /\ NoSocketLeak'
      /\ tx' = <<>> /\ UNCHANGED <<sent, written, begins>>
  BY BeginPacketSafe
<1>2. ClassTypeOK'
  BY HostAddress DEF ClassTypeOK
<1>3. StreamInv'
  BY <1>1, HostAddress DEF StreamInv
<1>4. QED
  BY <1>1, <1>2, <1>3

(* flush() of a stream begins the next packet if the target's port is      *)
(* known, and leaves the buffer as it is otherwise.                        *)
LEMMA FlushSafe ==
  ASSUME SafeInv, IsStream, SFlush, UNCHANGED class
  PROVE  /\ SafeInv' /\ Sendto /\ UNCHANGED written
         /\ tx' = <<>> \/ (tx' = tx /\ ~Follows')
<1> USE DEF SafeInv, SFlush, StartPacket, history
<1>1. target' \in AddressType /\ target'.port = target.port
  BY DEF ClassTypeOK, UdpTypeOK, AddressType, targetDefined
<1>2. sent' \in Seq(OutPacket)
  BY SendtoKeepsType
<1>3. CASE target.port # NoHost
  <2>1. tx' = <<>> /\ tx_buffer' = TRUE /\ begins # 0
    BY <1>1, <1>3 DEF StreamInv
  <2>2. UdpTypeOK'
    BY <1>1, <1>2, <2>1, Empty DEF UdpTypeOK, ClassTypeOK
  <2>3. ClassTypeOK' /\ NoWriteToNull' /\ NoSocketLeak'
    BY <1>1, <2>1 DEF ClassTypeOK, NoWriteToNull, NoSocketLeak
  <2>4. StreamInv'
    BY <1>1, <1>3, <2>1 DEF StreamInv
  <2>5. QED
    BY <2>1, <2>2, <2>3, <2>4
<1>4. CASE target.port = NoHost
  <2>1. packet' = FALSE /\ UNCHANGED <<udp_server, tx_buffer, tx>>
    BY <1>1, <1>4
  <2>2. UdpTypeOK'
    BY <1>1, <1>2, <2>1, 0 \in Nat DEF UdpTypeOK, ClassTypeOK
  <2>3. ClassTypeOK' /\ NoWriteToNull' /\ NoSocketLeak'
    BY <1>1, <2>1 DEF ClassTypeOK, NoWriteToNull, NoSocketLeak
  <2>4. StreamInv'
    BY <1>1, <1>4, <2>1 DEF StreamInv, IsStream
  <2>5. QED
    BY <1>1, <1>4, <2>1, <2>2, <2>3, <2>4 DEF Follows
<1>5. QED
  BY <1>3, <1>4

(* write() of a stream, which has no buffer before begin(). *)
LEMMA StreamWriteSafe ==
  ASSUME SafeInv, IsStream, SWrite, UNCHANGED class
  PROVE  SafeInv'
<1> USE DEF SafeInv, SWrite, socket
<1>1. UdpTypeOK'
  BY PutByteKeepsType DEF UdpTypeOK
<1>2. begins # 0
  BY DEF StreamInv
<1>3. QED
  BY <1>1, <1>2 DEF ClassTypeOK, StreamInv, IsStream, NoWriteToNull, NoSocketLeak

(* Reading does not touch what is written. *)
LEMMA StreamReadSafe ==
  ASSUME SafeInv, NEW n \in 1..2, SReadBytes(n), UNCHANGED class
  PROVE  SafeInv'
BY NextPacketKeepsType
   DEF SafeInv, UdpTypeOK, ClassTypeOK, StreamInv, IsStream, NoWriteToNull, NoSocketLeak,
       SReadBytes, socket, history

LEMMA StreamArriveSafe ==
  ASSUME SafeInv, NEW h \in Host, NEW n \in 1..2, SArrive(h, n), UNCHANGED class
  PROVE  SafeInv'
<1>1. inbox' \in Seq(InPacket)
  BY ArriveKeepsType DEF SafeInv, SArrive
<1>2. QED
  BY <1>1 DEF SafeInv, UdpTypeOK, ClassTypeOK, StreamInv, IsStream, NoWriteToNull,
              NoSocketLeak, SArrive, Arrive, socket

-----------------------------------------------------------------------------
(* What sendto() records is the packet being written. *)
LEMMA SendtoRecords ==
  ASSUME UdpTypeOK, Sendto
  PROVE  \/ sent' = sent
         \/ /\ DOMAIN sent' = 1 .. Len(sent) + 1 /\ DOMAIN sent = 1 .. Len(sent)
            /\ Len(sent) \in Nat
            /\ \A i \in DOMAIN sent : sent'[i] = sent[i]
            /\ sent'[Len(sent) + 1].data = tx
            /\ sent'[Len(sent) + 1].begun = packet
<1> DEFINE p == [to |-> remote, data |-> tx, begun |-> packet]
<1>1. p \in OutPacket /\ p.data = tx /\ p.begun = packet
  BY DEF UdpTypeOK, OutPacket
<1>2. CASE sent' = Append(sent, p)
  <2> HIDE DEF p
  <2>1. /\ sent \in Seq(OutPacket) /\ Len(sent) \in Nat
        /\ DOMAIN sent = 1 .. Len(sent)
    BY LenProperties DEF UdpTypeOK
  <2>2. /\ Len(sent') = Len(sent) + 1 /\ sent' \in Seq(OutPacket)
        /\ sent'[Len(sent) + 1] = p
        /\ \A i \in 1 .. Len(sent) : sent'[i] = sent[i]
    BY <1>1, <1>2, <2>1, AppendProperties
  <2>3. QED
    BY <1>1, <2>1, <2>2, LenProperties
<1>3. QED
  BY <1>2 DEF Sendto

(* A packet that follows those that were sent may be sent; one that does   *)
(* not was not begun.                                                      *)
LEMMA SendtoOrdered ==
  ASSUME UdpTypeOK, PacketsInOrder, Increasing(tx), packet => BufferFollows, BelowNext,
         Sendto
  PROVE  /\ PacketsInOrder'
         /\ \A i \in DOMAIN sent' : AtMost(sent'[i].data, written)
<1>1. CASE sent' = sent
  BY <1>1 DEF PacketsInOrder, BelowNext
<1>2. CASE /\ DOMAIN sent' = 1 .. Len(sent) + 1 /\ DOMAIN sent = 1 .. Len(sent)
           /\ Len(sent) \in Nat
           /\ \A i \in DOMAIN sent : sent'[i] = sent[i]
           /\ sent'[Len(sent) + 1].data = tx
           /\ sent'[Len(sent) + 1].begun = packet
  <2>1. \A i \in DOMAIN sent' : i \in DOMAIN sent \/ i = Len(sent) + 1
    BY <1>2
  <2>2. \A i \in DOMAIN sent' : AtMost(sent'[i].data, written)
    BY <1>2, <2>1 DEF BelowNext
  <2>3. \A i \in DOMAIN sent' : Increasing(sent'[i].data)
    BY <1>2, <2>1 DEF PacketsInOrder
  <2>4. ASSUME NEW i \in DOMAIN sent', NEW j \in DOMAIN sent', i < j, sent'[j].begun
        PROVE  AllBelow(sent'[i].data, sent'[j].data)
    <3>1. i \in DOMAIN sent
      BY <1>2, <2>4
    <3>2. QED
      BY <1>2, <2>1, <2>4, <3>1 DEF PacketsInOrder, BufferFollows
  <2>5. QED
    BY <2>2, <2>3, <2>4 DEF PacketsInOrder
<1>3. QED
  BY <1>1, <1>2, SendtoRecords

(* A new packet has no bytes. *)
LEMMA NewPacketOrdered ==
  ASSUME tx' = <<>>, UNCHANGED written, PacketsInOrder',
         \A i \in DOMAIN sent' : AtMost(sent'[i].data, written)
  PROVE  BelowNext' /\ Ordered'
BY DEF BelowNext, Ordered, AtMost, BufferFollows, Increasing, AllBelow

(* A byte that is written is above all others, in its packet and before. *)
LEMMA PutByteOrdered ==
  ASSUME UdpTypeOK, PacketsInOrder, Increasing(tx), packet => BufferFollows, BelowNext,
         written' = written + 1, PutByte(written')
  PROVE  /\ BelowNext' /\ PacketsInOrder' /\ Increasing(tx')
         /\ BufferFollows => BufferFollows'
<1>1. written \in Int /\ tx \in Seq(Byte) /\ \A a \in DOMAIN tx : tx[a] \in Int
  <2>1. written \in Byte /\ tx \in Seq(Byte)
    BY DEF UdpTypeOK
  <2>2. \A a \in DOMAIN tx : tx[a] \in Byte
    BY <2>1, ElementOfSeq, LenProperties
  <2>3. QED
    BY <2>1, <2>2, BoundAssumption DEF Byte
<1>2. \A i \in DOMAIN sent : \A a \in DOMAIN sent[i].data : sent[i].data[a] \in Int
  <2> SUFFICES ASSUME NEW i \in DOMAIN sent, NEW a \in DOMAIN sent[i].data
               PROVE  sent[i].data[a] \in Byte
    BY BoundAssumption DEF Byte
  <2>1. sent[i] \in OutPacket
    BY ElementOfSeq, LenProperties DEF UdpTypeOK
  <2>2. sent[i].data \in Seq(Byte)
    BY <2>1 DEF OutPacket
  <2>3. QED
    BY <2>2, ElementOfSeq, LenProperties
<1>3. CASE Len(tx) < TxSize /\ tx' = Append(tx, written') /\ UNCHANGED sent
  <2>1. /\ DOMAIN tx = 1 .. Len(tx) /\ Len(tx) \in Nat
        /\ DOMAIN tx' = 1 .. Len(tx) + 1
        /\ tx'[Len(tx) + 1] = written'
        /\ \A a \in 1 .. Len(tx) : tx'[a] = tx[a]
    <3>1. written' \in Int /\ tx \in Seq(Int)
      BY <1>1, BoundAssumption, LenProperties DEF Byte
    <3>2. QED
      BY <1>3, <3>1, AppendProperties, LenProperties
  <2>2. \A a \in DOMAIN tx' : a \in DOMAIN tx \/ a = Len(tx) + 1
    BY <2>1
  <2>3. AtMost(tx', written')
    BY <1>1, <2>1, <2>2 DEF AtMost, BelowNext
  <2>4. \A i \in DOMAIN sent : AtMost(sent[i].data, written')
    BY <1>1, <1>2 DEF AtMost, BelowNext
  <2>5. Increasing(tx')
    <3> SUFFICES ASSUME NEW a \in DOMAIN tx', NEW b \in DOMAIN tx', a < b
                 PROVE  tx'[a] < tx'[b]
      BY DEF Increasing
    <3>1. a \in DOMAIN tx
      BY <2>1
    <3>2. CASE b \in DOMAIN tx
      BY <2>1, <3>1, <3>2 DEF Increasing
    <3>3. CASE b = Len(tx) + 1
      <4>1. tx'[a] <= written
        BY <2>1, <3>1 DEF BelowNext, AtMost
      <4>2. QED
        BY <1>1, <2>1, <3>1, <3>3, <4>1
    <3>4. QED
      BY <2>2, <3>2, <3>3
  <2>6. ASSUME BufferFollows
        PROVE  \A i \in DOMAIN sent : AllBelow(sent[i].data, tx')
    <3> SUFFICES ASSUME NEW i \in DOMAIN sent, NEW a \in DOMAIN sent[i].data,
                        NEW b \in DOMAIN tx'
                 PROVE  sent[i].data[a] < tx'[b]
      BY DEF AllBelow
    <3>1. CASE b \in DOMAIN tx
      BY <2>1, <2>6, <3>1 DEF BufferFollows, AllBelow
    <3>2. CASE b = Len(tx) + 1
      <4>1. sent[i].data[a] <= written /\ sent[i].data[a] \in Int
        BY <1>2 DEF BelowNext, AtMost
      <4>2. QED
        BY <1>1, <2>1, <3>2, <4>1
    <3>3. QED
      BY <2>2, <3>1, <3>2
  <2>7. QED
    BY <1>3, <2>3, <2>4, <2>5, <2>6 DEF BelowNext, PacketsInOrder, BufferFollows
<1>4. CASE Sendto /\ tx' = <<written'>>
  <2>1. /\ PacketsInOrder'
        /\ \A i \in DOMAIN sent' : AtMost(sent'[i].data, written)
    BY <1>4, SendtoOrdered
  <2>2. DOMAIN tx' = {1} /\ tx'[1] = written'
    BY <1>4
  <2>3. AtMost(tx', written') /\ Increasing(tx')
    BY <1>1, <2>2 DEF AtMost, Increasing
  <2>4. \A i \in DOMAIN sent' : \A a \in DOMAIN sent'[i].data : sent'[i].data[a] \in Int
    <3>1. CASE sent' = sent
      BY <1>2, <3>1
    <3>2. CASE /\ DOMAIN sent' = 1 .. Len(sent) + 1 /\ DOMAIN sent = 1 .. Len(sent)
               /\ Len(sent) \in Nat
               /\ \A i \in DOMAIN sent : sent'[i] = sent[i]
               /\ sent'[Len(sent) + 1].data = tx
               /\ sent'[Len(sent) + 1].begun = packet
      <4>1. \A i \in DOMAIN sent' : i \in DOMAIN sent \/ i = Len(sent) + 1
        BY <3>2
      <4>2. QED
        BY <1>1, <1>2, <3>2, <4>1
    <3>3. QED
      BY <1>4, <3>1, <3>2, SendtoRecords
  <2>5. ASSUME NEW i \in DOMAIN sent'
        PROVE  AtMost(sent'[i].data, written') /\ AllBelow(sent'[i].data, tx')
    BY <1>1, <2>1, <2>2, <2>4 DEF AtMost, AllBelow
  <2>6. QED
    BY <2>1, <2>3, <2>5 DEF BelowNext, BufferFollows
<1>5. QED
  BY <1>3, <1>4 DEF PutByte

(* Steps that neither write nor send. *)
LEMMA NeutralOrdered ==
  ASSUME BelowNext, Ordered, UNCHANGED <<class, target, tx, sent, written, packet>>
  PROVE  BelowNext' /\ Ordered'
BY DEF BelowNext, Ordered, PacketsInOrder, BufferFollows, Follows, IsStream

(* BelowNext and Ordered are kept by every call of an EthernetUDP. *)
LEMMA UdpOrdered ==
  ASSUME UdpInv, class = "EthernetUDP", UdpNext, UNCHANGED <<class, target>>
  PROVE  BelowNext' /\ Ordered'
<1> USE DEF UdpInv, SafeInv
<1>1. ASSUME tx' = <<>>, UNCHANGED <<sent, written>> PROVE BelowNext' /\ Ordered'
  BY <1>1, NewPacketOrdered DEF BelowNext, Ordered, PacketsInOrder
<1>2. CASE Begin
  BY <1>1, <1>2, NoBytes DEF Begin, OpenSocket
<1>3. CASE Stop
  BY <1>1, <1>3 DEF Stop, history
<1>4. ASSUME NEW h \in Host, BeginPacket(At(h)) PROVE BelowNext' /\ Ordered'
  BY <1>1, <1>4, BeginPacketSafe
<1>5. CASE Write
  BY <1>5, PutByteOrdered DEF Write, Ordered, Follows
<1>6. CASE EndPacket
  <2>1. PacketsInOrder' /\ \A i \in DOMAIN sent' : AtMost(sent'[i].data, written)
    BY <1>6, SendtoOrdered DEF EndPacket, Ordered, Follows
  <2>2. QED
    BY <1>6, <2>1 DEF EndPacket, history, BelowNext, Ordered, Follows, IsStream
<1>7. CASE ParsePacket \/ (\E n \in 1..2 : Read(n)) \/ FlushUdp
           \/ \E h \in Host, n \in 1..2 : Arrive(h, n)
  BY <1>7, NeutralOrdered DEF ParsePacket, Read, FlushUdp, Arrive, socket, history
<1>8. QED
  BY <1>2, <1>3, <1>4, <1>5, <1>6, <1>7 DEF UdpNext

-----------------------------------------------------------------------------
(* UdpInv is kept by every call of a WiFiUDPStream. *)
LEMMA StreamKeeps ==
  ASSUME UdpInv, IsStream, SetupNext, UNCHANGED class
  PROVE  UdpInv'
<1> USE DEF UdpInv
<1>1. ASSUME tx' = <<>>, UNCHANGED <<sent, written>> PROVE BelowNext' /\ Ordered'
  BY <1>1, NewPacketOrdered DEF BelowNext, Ordered, PacketsInOrder
<1>2. CASE begins = 0 /\ SBegin
  BY <1>1, <1>2, StreamBeginSafe DEF SBegin, OpenSocket
<1>3. ASSUME begins > 0, NEW h \in Peer, SetTarget(h) PROVE UdpInv'
  BY <1>1, <1>3, SetTargetSafe, PeerAssumption
<1>4. CASE SWrite
  <2>1. SafeInv' /\ UNCHANGED <<target, packet>>
    BY <1>4, StreamWriteSafe DEF SWrite
  <2>2. BelowNext' /\ PacketsInOrder' /\ Increasing(tx') /\ (BufferFollows => BufferFollows')
    BY <1>4, PutByteOrdered DEF SafeInv, SWrite, Ordered, Follows
  <2>3. QED
    BY <2>1, <2>2 DEF Ordered, Follows, IsStream
<1>5. CASE SFlush
  <2>1. /\ SafeInv' /\ Sendto /\ UNCHANGED written
        /\ tx' = <<>> \/ (tx' = tx /\ ~Follows')
    BY <1>5, FlushSafe
  <2>2. PacketsInOrder' /\ \A i \in DOMAIN sent' : AtMost(sent'[i].data, written)
    BY <2>1, SendtoOrdered DEF SafeInv, Ordered, Follows
  <2>3. CASE tx' = <<>>
    BY <2>1, <2>2, <2>3, NewPacketOrdered
  <2>4. CASE tx' = tx /\ ~Follows'
    BY <2>1, <2>2, <2>4 DEF BelowNext, Ordered
  <2>5. QED
    BY <2>1, <2>3, <2>4
<1>6. ASSUME NEW n \in 1..2, SReadBytes(n) PROVE UdpInv'
  BY <1>6, StreamReadSafe, NeutralOrdered DEF SReadBytes, history
<1>7. CASE SStop
  <2>1. BelowNext' /\ Ordered'
    BY <1>7, NeutralOrdered DEF SStop, udpVars
  <2>2. QED
    BY <1>7, <2>1 DEF SStop, udpVars, SafeInv, UdpTypeOK, ClassTypeOK, StreamInv, IsStream,
                      NoWriteToNull, NoSocketLeak
<1>8. ASSUME NEW h \in Peer, NEW n \in 1..2, SArrive(h, n) PROVE UdpInv'
  BY <1>8, StreamArriveSafe, NeutralOrdered, PeerAssumption DEF SArrive, Arrive
<1>9. QED
  BY <1>2, <1>3, <1>4, <1>5, <1>6, <1>7, <1>8 DEF SetupNext

(* UdpInv is inductive. *)
LEMMA StepUdpInv ==
  ASSUME UdpInv, [Next]_vars
  PROVE  UdpInv'
<1>1. CASE class = "EthernetUDP" /\ UdpNext /\ UNCHANGED <<class, target>>
  BY <1>1, UdpSafe, UdpOrdered DEF UdpInv
<1>2. CASE class = "WiFiUDPStream" /\ SetupNext /\ UNCHANGED class
  BY <1>2, StreamKeeps DEF IsStream
<1>3. CASE UNCHANGED vars
  <2>1. BelowNext' /\ Ordered'
    BY <1>3, NeutralOrdered DEF UdpInv, vars, udpVars
  <2>2. QED
    BY <1>3, <2>1 DEF vars, udpVars, UdpInv, SafeInv, UdpTypeOK, ClassTypeOK, StreamInv,
                      IsStream, NoWriteToNull, NoSocketLeak
<1>4. QED
  BY <1>1, <1>2, <1>3 DEF Next

(* The first state: everything is empty. *)
LEMMA InitUdpInv == Init => UdpInv
<1> SUFFICES ASSUME Init
             PROVE  UdpInv
  OBVIOUS
<1> USE DEF Init, UdpInit
<1>1. 0 \in Byte
  BY BoundAssumption DEF Byte
<1>2. UdpTypeOK
  <2>1. tx \in Seq(Byte) /\ Len(tx) <= TxSize
    BY Empty
  <2>2. inbox \in Seq(InPacket) /\ sent \in Seq(OutPacket)
    BY Empty
  <2>3. QED
    BY <1>1, <2>1, <2>2, NowhereAddress DEF UdpTypeOK
<1>3. ClassTypeOK /\ StreamInv /\ NoWriteToNull /\ NoSocketLeak
  BY NowhereAddress, ClassAssumption
     DEF ClassTypeOK, StreamInv, NoWriteToNull, NoSocketLeak
<1>4. BelowNext /\ Ordered
  BY DEF BelowNext, Ordered, PacketsInOrder, BufferFollows, AtMost, Increasing, AllBelow
<1>5. QED
  BY <1>2, <1>3, <1>4 DEF UdpInv, SafeInv

LEMMA UdpInvHolds == Spec => []UdpInv
<1>1. Init => UdpInv
  BY InitUdpInv
<1>2. UdpInv /\ [Next]_vars => UdpInv'
  BY StepUdpInv
<1>3. QED
  BY <1>1, <1>2, PTL DEF Spec

-----------------------------------------------------------------------------
(* write() (EthernetUDP.cpp) never stores through a null buffer or past    *)
(* its end, whatever fails, in the hands of a sketch that writes inside    *)
(* packets and of HardwareSetupRemote.                                     *)
THEOREM BufferIsThere == Spec => [](UdpTypeOK /\ NoWriteToNull)
<1>1. UdpInv => UdpTypeOK /\ NoWriteToNull
  BY DEF UdpInv, SafeInv
<1>2. QED
  BY <1>1, UdpInvHolds, PTL

(* begin() and stop() never lose an open socket.  A stream's begin() does  *)
(* not stop() first, and needs to be called before setTarget().            *)
THEOREM SocketsAreClosed == Spec => []NoSocketLeak
<1>1. UdpInv => NoSocketLeak
  BY DEF UdpInv, SafeInv
<1>2. QED
  BY <1>1, UdpInvHolds, PTL

(* Every byte of a packet that was begun is transmitted at most once and   *)
(* in the order of writing, through full packets, failed sends, restarts.  *)
THEOREM TransmittedInOrder == Spec => []AtMostOnceInOrder
<1>1. UdpInv => AtMostOnceInOrder
  BY DEF UdpInv, Ordered, Follows, AtMostOnceInOrder
<1>2. QED
  BY <1>1, UdpInvHolds, PTL

(* From setTarget() on, a WiFiUDPStream transmits every byte at most once  *)
(* and in order, and none that it transmitted before; a flush() before it  *)
(* (WiFiUdpStream.h:64) may send bytes again.                              *)
THEOREM FlushedOnce == Spec => []FlushSendsOnce
<1>1. UdpInv => FlushSendsOnce
  BY DEF UdpInv, Ordered, Follows, FlushSendsOnce, IsStream
<1>2. QED
  BY <1>1, UdpInvHolds, PTL
=============================================================================
