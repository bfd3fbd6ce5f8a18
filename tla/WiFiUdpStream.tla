---------------------------- MODULE WiFiUdpStream ----------------------------
(***************************************************************************)
(* The stream over UDP the remote hardware uses (WiFiUdpStream.h): an      *)
(* EthernetUDP with a target, a packet that is always open for writing and *)
(* goes out on flush(), and reads that fetch packets as needed.  `active'  *)
(* of the class is false from construction on and is no variable here.     *)
(***************************************************************************)
EXTENDS EthernetUDP

CONSTANTS
  Peer,  \* the hosts that send to a stream's port
  Class  \* the classes of endpoint: "EthernetUDP", "WiFiUDPStream"

ASSUME PeerAssumption == Peer \subseteq Host
ASSUME ClassAssumption == Class \subseteq {"EthernetUDP", "WiFiUDPStream"}

VARIABLES
  class,  \* the class of the endpoint
  target  \* target_adress and port

vars == <<udpVars, class, target>>

targetDefined == target.ip # NoHost
-----------------------------------------------------------------------------
Init ==
  /\ UdpInit
  /\ class \in Class
  /\ target = Nowhere

(* begin(port) is EthernetUDP's; the stop() it calls is virtual and thus   *)
(* this class's, which does nothing because `active' is false.             *)
SBegin ==
  /\ OpenSocket(udp_server, leaked, Len(tx), FALSE)
  /\ UNCHANGED <<rx, packet, target>>

(* setTarget(ip, port) *)
SetTarget(h) ==
  /\ target' = At(h)
  /\ BeginPacket(At(h))

(* write(data); before begin() or setTarget() there is no buffer. *)
SWrite ==
  /\ tx_buffer
  /\ written < MaxWrites
  /\ written' = written + 1
  /\ PutByte(written')
  /\ UNCHANGED <<socket, remote, tx_buffer, rx, inbox, arrived, begins, packet, target>>

(* Mutation of SFlush: endPacket() and nothing after it. *)
SFlushNoRestart ==
  /\ rx' = 0
  /\ Sendto
  /\ UNCHANGED <<socket, remote, tx_buffer, tx, inbox, history, packet, target>>

(* flush(): drops the packet being read, sends the packet written, learns  *)
(* the address (and not the port) of an unknown target from the last       *)
(* sender, and begins the next packet; without the port of a target        *)
(* beginPacket() does nothing, and the bytes stay to be sent again.        *)
SFlush ==
  /\ rx' = 0
  /\ Sendto
  /\ target' = IF targetDefined THEN target ELSE [target EXCEPT !.ip = remote.ip]
  /\ remote' = target'
  /\ StartPacket(target')
  /\ packet' = (target'.port # NoHost /\ udp_server' # "closed")
  /\ UNCHANGED <<leaked, inbox, history>>

(* readBytes(values, len) *)
SReadBytes(n) ==
  /\ NextPacket(n)
  /\ UNCHANGED <<socket, tx_buffer, tx, sent, history, packet, target>>

(* stop() does nothing: `active' is false. *)
SStop == UNCHANGED <<udpVars, target>>

SArrive(h, n) == Arrive(h, n) /\ UNCHANGED target

(* The order in which HardwareSetupRemote uses the stream, its own or the  *)
(* sketch's: begin() once and before setTarget(), which may never come;    *)
(* the remote objects write() and flush() before it and after it.          *)
SetupNext ==
  \/ begins = 0 /\ SBegin
  \/ begins > 0 /\ \E h \in Peer : SetTarget(h)
  \/ SWrite \/ SFlush
  \/ \E n \in 1..2 : SReadBytes(n)
  \/ SStop
  \/ \E h \in Peer, n \in 1..2 : SArrive(h, n)

(* An EthernetUDP in the hands of any sketch that writes in packets, or a  *)
(* WiFiUDPStream in those of HardwareSetupRemote.                          *)
Next ==
  \/ class = "EthernetUDP" /\ UdpNext /\ UNCHANGED <<class, target>>
  \/ class = "WiFiUDPStream" /\ SetupNext /\ UNCHANGED class

Spec == Init /\ [][Next]_vars
-----------------------------------------------------------------------------
(* From setTarget() on, the stream transmits every byte at most once and   *)
(* in order, whether or not a send or a socket() fails in a flush(), and   *)
(* none of those it transmitted before.  Without setTarget() this does not *)
(* hold: the port of the target stays 0, each flush() (WiFiUdpStream.h:64) *)
(* sends what is in the buffer to the sender of the packet read last and   *)
(* keeps it, and the next one sends it again (packets that are not begun). *)
FlushSendsOnce ==
  class = "WiFiUDPStream" =>
    PacketsInOrder /\ (target.port # NoHost => BufferFollows)
=============================================================================
