----------------------------- MODULE EthernetUDP -----------------------------
(***************************************************************************)
(* The UDP endpoint (cores/arduino/UDP.cpp, class EthernetUDP, also known  *)
(* as WiFiUDP): one socket, one packet being written, one packet being     *)
(* read.  A byte the sketch writes is its number in the order of writing;  *)
(* of an incoming packet only its sender and its length matter.            *)
(***************************************************************************)
EXTENDS Integers, Sequences

CONSTANTS
  Host,       \* the hosts packets come from and go to
  NoHost,     \* the address 0.0.0.0, and the port 0
  TxSize,     \* size of the packet being written: 1460 in the code
  MaxWrites,  \* bound: bytes the sketch writes
  MaxPackets, \* bound: packets that arrive
  MaxBegins   \* bound: calls of begin()

ASSUME HostAssumption == NoHost \notin Host
ASSUME TxSizeAssumption == TxSize \in Nat \ {0}
ASSUME BoundAssumption == MaxWrites \in Nat /\ MaxPackets \in Nat /\ MaxBegins \in Nat

VARIABLES
  udp_server,      \* the socket: "closed", "unbound" or "bound"
  leaked,          \* sockets whose number was overwritten while they were open
  remote,          \* remote_ip and remote_port
  tx_buffer,       \* is the packet buffer allocated?
  tx,              \* the packet being written, tx_buffer[0 .. tx_buffer_len-1]
  rx,              \* the bytes left of the packet being read; 0 if there is none
  inbox,           \* packets that have arrived at the socket: their senders
  sent,            \* history: the packets that left, with their destinations;
                   \* begun if beginPacket() had succeeded for them
  written,         \* history: bytes written so far
  arrived, begins, \* counters for the bounds
  packet           \* the sketch is between beginPacket() and endPacket()

socket == <<udp_server, leaked>>
history == <<written, arrived, begins>>
udpVars == <<udp_server, leaked, remote, tx_buffer, tx, rx, inbox, sent,
             written, arrived, begins, packet>>

(* remote_ip and remote_port; a host's port is named after the host. *)
Address(ip, port) == [ip |-> ip, port |-> port]
Nowhere == Address(NoHost, NoHost)
At(h) == Address(h, h)

(* A byte of a buffer that was allocated and never written. *)
Uninitialized == 0
-----------------------------------------------------------------------------
UdpInit ==
  /\ udp_server = "closed" /\ leaked = 0
  /\ remote = Nowhere
  /\ tx_buffer = FALSE /\ tx = <<>> /\ rx = 0
  /\ inbox = <<>> /\ sent = <<>>
  /\ written = 0 /\ arrived = 0 /\ begins = 0
  /\ packet = FALSE

(* begin(address, port) after its call of stop(), which has left the       *)
(* socket `server' with `leak' sockets lost and tx_buffer_len bytes in the *)
(* buffer.  The buffer is new; socket() or bind() can fail, and after a    *)
(* failed bind() stop() is called again.                                   *)
OpenSocket(server, leak, length, stopCloses) ==
  /\ begins < MaxBegins
  /\ begins' = begins + 1
  /\ leaked' = IF server = "closed" THEN leak ELSE leak + 1
  /\ \/ /\ udp_server' = "bound"
        /\ tx_buffer' = TRUE
        /\ tx' = [i \in 1..length |-> Uninitialized]
     \/ /\ udp_server' = "closed"        \* socket() failed
        /\ tx_buffer' = TRUE
        /\ tx' = [i \in 1..length |-> Uninitialized]
     \/ /\ udp_server' = IF stopCloses THEN "closed" ELSE "unbound"
        /\ tx_buffer' = ~stopCloses      \* bind() failed
        /\ tx' = IF stopCloses THEN <<>> ELSE [i \in 1..length |-> Uninitialized]
  /\ inbox' = <<>>
  /\ UNCHANGED <<remote, sent, written, arrived>>

(* Mutation of Begin: begin() does not call stop(). *)
BeginWithoutStop ==
  /\ OpenSocket(udp_server, leaked, Len(tx), TRUE)
  /\ packet' = FALSE
  /\ UNCHANGED rx

Begin ==
  /\ OpenSocket("closed", leaked, 0, TRUE)
  /\ rx' = 0
  /\ packet' = FALSE

(* stop(): both packets are dropped and the socket is closed. *)
Stop ==
  /\ tx_buffer' = FALSE /\ tx' = <<>> /\ rx' = 0
  /\ udp_server' = "closed" /\ inbox' = <<>>
  /\ packet' = FALSE
  /\ UNCHANGED <<leaked, remote, sent, history>>

(* Mutation of StartPacket: a closed socket is opened, the buffer is not   *)
(* allocated again.                                                        *)
StartPacketNoBuffer(to) ==
  \/ /\ to.port = NoHost
     /\ UNCHANGED <<udp_server, tx_buffer, tx>>
  \/ /\ to.port # NoHost
     /\ tx' = <<>>
     /\ IF udp_server = "closed" THEN udp_server' \in {"closed", "unbound"}
        ELSE UNCHANGED udp_server
     /\ UNCHANGED tx_buffer

(* beginPacket(): without a remote port nothing happens (and 0 is          *)
(* returned); otherwise the packet is empty and a socket exists, unless    *)
(* socket() fails.                                                         *)
StartPacket(to) ==
  \/ /\ to.port = NoHost
     /\ UNCHANGED <<udp_server, tx_buffer, tx>>
  \/ /\ to.port # NoHost
     /\ tx_buffer' = TRUE
     /\ tx' = <<>>
     /\ IF udp_server = "closed" THEN udp_server' \in {"closed", "unbound"}
        ELSE UNCHANGED udp_server

(* beginPacket(ip, port); the sketch looks at the result. *)
BeginPacket(to) ==
  /\ remote' = to
  /\ StartPacket(to)
  /\ packet' = (to.port # NoHost /\ udp_server' # "closed")
  /\ UNCHANGED <<leaked, rx, inbox, sent, history>>

(* endPacket() hands the buffer to sendto(), which fails without a socket  *)
(* or a port and may fail otherwise.  The buffer keeps its contents.  An   *)
(* empty packet is not recorded.                                           *)
Sendto ==
  \/ /\ udp_server # "closed" /\ remote.port # NoHost
     /\ sent' = IF tx = <<>> THEN sent
                ELSE Append(sent, [to |-> remote, data |-> tx, begun |-> packet])
  \/ UNCHANGED sent

EndPacket ==
  /\ packet
  /\ Sendto
  /\ packet' = FALSE
  /\ UNCHANGED <<socket, remote, tx_buffer, tx, rx, inbox, history>>

(* Mutation of PutByte: a full packet is sent and not emptied, the byte    *)
(* replaces the last one.                                                  *)
PutByteNoReset(c) ==
  \/ /\ Len(tx) < TxSize
     /\ tx' = Append(tx, c)
     /\ UNCHANGED sent
  \/ /\ Len(tx) = TxSize
     /\ Sendto
     /\ tx' = [tx EXCEPT ![TxSize] = c]

(* write(data): a full packet is sent first and the next one started. *)
PutByte(c) ==
  \/ /\ Len(tx) < TxSize
     /\ tx' = Append(tx, c)
     /\ UNCHANGED sent
  \/ /\ Len(tx) = TxSize
     /\ Sendto
     /\ tx' = <<c>>

Write ==
  /\ packet
  /\ written < MaxWrites
  /\ written' = written + 1
  /\ PutByte(written')
  /\ UNCHANGED <<socket, remote, tx_buffer, rx, inbox, arrived, begins, packet>>

(* Reading n bytes of a packet of which r are left; the packet is deleted  *)
(* with its last byte.                                                     *)
Rest(r, n) == IF r > n THEN r - n ELSE 0

(* parsePacket(), then n bytes are read: unless a packet is being read,    *)
(* the next one that has arrived is, and its sender becomes the remote     *)
(* address.                                                                *)
NextPacket(n) ==
  \/ /\ rx = 0 /\ inbox # <<>>
     /\ remote' = At(Head(inbox).from)
     /\ rx' = Rest(Head(inbox).len, n)
     /\ inbox' = Tail(inbox)
  \/ /\ rx # 0 \/ inbox = <<>>
     /\ rx' = Rest(rx, n)
     /\ UNCHANGED <<inbox, remote>>

ParsePacket ==
  /\ NextPacket(0)
  /\ UNCHANGED <<socket, tx_buffer, tx, sent, history, packet>>

(* read(): n bytes leave the packet; fewer than the sketch asked for if    *)
(* RingBufferExt's array read stops at a zero byte.                        *)
Read(n) ==
  /\ rx' = Rest(rx, n)
  /\ UNCHANGED <<socket, remote, tx_buffer, tx, inbox, sent, history, packet>>

(* flush() drops what is left of the packet being read. *)
FlushUdp ==
  /\ rx' = 0
  /\ UNCHANGED <<socket, remote, tx_buffer, tx, inbox, sent, history, packet>>

(* A packet arrives.  The kernel drops it without a socket, and with an    *)
(* unbound one unless a sendto() has given it a port.                      *)
Arrive(h, n) ==
  /\ arrived < MaxPackets
  /\ arrived' = arrived + 1
  /\ \/ udp_server # "closed" /\ inbox' = Append(inbox, [from |-> h, len |-> n])
     \/ udp_server # "bound" /\ UNCHANGED inbox
  /\ UNCHANGED <<socket, remote, tx_buffer, tx, rx, sent, written, begins, packet>>

UdpNext ==
  \/ Begin
  \/ Stop
  \/ \E h \in Host : BeginPacket(At(h))
  \/ Write
  \/ EndPacket
  \/ ParsePacket
  \/ \E n \in 1..2 : Read(n)
  \/ FlushUdp
  \/ \E h \in Host, n \in 1..2 : Arrive(h, n)

(* A sketch that writes between beginPacket() and endPacket() only. *)
UdpSpec == UdpInit /\ [][UdpNext]_udpVars
-----------------------------------------------------------------------------
AddressType == [ip : Host \cup {NoHost}, port : Host \cup {NoHost}]
Byte == 0..MaxWrites
InPacket == [from : Host, len : Nat]
OutPacket == [to : AddressType, data : Seq(Byte), begun : BOOLEAN]

(* Types; the packet being written never exceeds its buffer. *)
UdpTypeOK ==
  /\ udp_server \in {"closed", "unbound", "bound"} /\ leaked \in Nat
  /\ remote \in AddressType
  /\ tx_buffer \in BOOLEAN
  /\ tx \in Seq(Byte) /\ Len(tx) <= TxSize
  /\ rx \in Nat
  /\ inbox \in Seq(InPacket)
  /\ sent \in Seq(OutPacket)
  /\ written \in Byte /\ packet \in BOOLEAN

(* write() stores into the buffer without looking at it: whenever the      *)
(* sketch may write, after any sequence of begin(), stop() and             *)
(* beginPacket() with any of their calls failing, the buffer exists.       *)
NoWriteToNull == packet => tx_buffer

(* begin() and stop() never lose an open socket, in any order and whatever *)
(* fails in between: begin() calls stop() first (UDP.cpp:53).              *)
NoSocketLeak == leaked = 0

Increasing(p) == \A a, b \in DOMAIN p : a < b => p[a] < p[b]
AllBelow(p, q) == \A a \in DOMAIN p, b \in DOMAIN q : p[a] < q[b]

(* Bytes are numbered as they are written, and are in that order in a      *)
(* packet; the bytes of a packet that was begun are behind all that were   *)
(* sent before it, so that none of them is sent again.                     *)
PacketsInOrder ==
  \A i \in DOMAIN sent :
    /\ Increasing(sent[i].data)
    /\ \A j \in DOMAIN sent :
         i < j /\ sent[j].begun => AllBelow(sent[i].data, sent[j].data)

(* The same of the packet being written, which comes after them. *)
BufferFollows ==
  /\ Increasing(tx)
  /\ \A i \in DOMAIN sent : AllBelow(sent[i].data, tx)

(* Every byte written into a packet that was begun is transmitted at most  *)
(* once and in the order of writing, through full packets, failed sends    *)
(* and restarts.                                                           *)
AtMostOnceInOrder == PacketsInOrder /\ (packet => BufferFollows)
=============================================================================
