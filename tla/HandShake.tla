------------------------------- MODULE HandShake -------------------------------
(***************************************************************************)
(* HardwareSetupRemote::begin() waits in handShake() until the device has  *)
(* announced itself.  The announcement is 18 bytes, <<1>> to <<18>> here,  *)
(* of which the first 16 are compared; 0 is a byte of something else.      *)
(* Over a stream what has arrived can be read; over the default UDP stream *)
(* it waits in the kernel until somebody calls parsePacket().              *)
(***************************************************************************)
EXTENDS Integers, Sequences, SequencesExt

CONSTANTS
  Transports, \* what the stream may be: "stream", "udp"
  Strays,     \* bytes the device may send before it announces itself
  MaxHellos   \* bound: announcements the device sends

Magic == 16      \* bytes available() has to report, and bytes compared
Announced == 18  \* bytes read

VARIABLES
  transport,
  state,      \* "idle", then "waiting" in handShake(), then "begun"
  hand_wire,  \* what the device has sent and has not arrived
  hand_rx,    \* what available() counts and readBytes() reads
  kernel,     \* datagrams nobody has received
  strays,     \* stray bytes sent
  hellos      \* announcements sent

handShakeVars == <<transport, state, hand_wire, hand_rx, kernel, strays, hellos>>
remoteDevice == <<strays, hellos>>
-----------------------------------------------------------------------------
Hello == [i \in 1 .. Announced |-> i]

HandShakeInit ==
  /\ transport \in Transports
  /\ state = "idle"
  /\ hand_wire = <<>> /\ hand_rx = <<>> /\ kernel = <<>>
  /\ strays = 0 /\ hellos = 0

(* begin(): over UDP the socket is bound first; then handShake(). *)
HandShakeBegin ==
  /\ state = "idle"
  /\ state' = "waiting"
  /\ UNCHANGED <<transport, hand_wire, hand_rx, kernel, remoteDevice>>

(* The device sends, and what it sent arrives in pieces over a stream and  *)
(* whole over UDP.                                                         *)
SendStray ==
  /\ strays < Strays /\ hellos = 0
  /\ strays' = strays + 1
  /\ hand_wire' = Append(hand_wire, 0)
  /\ UNCHANGED <<transport, state, hand_rx, kernel, hellos>>

SendHello ==
  /\ hellos < MaxHellos
  /\ hellos' = hellos + 1
  /\ hand_wire' = hand_wire \o Hello
  /\ UNCHANGED <<transport, state, hand_rx, kernel, strays>>

Deliver ==
  /\ hand_wire # <<>>
  /\ \/ /\ transport = "stream"
        /\ \E k \in 1 .. Len(hand_wire) :
             /\ hand_rx' = hand_rx \o SubSeq(hand_wire, 1, k)
             /\ hand_wire' = SubSeq(hand_wire, k + 1, Len(hand_wire))
        /\ UNCHANGED kernel
     \/ /\ transport = "udp"
        /\ kernel' = Append(kernel, hand_wire)
        /\ hand_wire' = <<>>
        /\ UNCHANGED hand_rx
  /\ UNCHANGED <<transport, state, remoteDevice>>

(* Mutation of HandShake: it asks for more bytes than the device sends. *)
HandShakeAsksForMore ==
  /\ state = "waiting"
  /\ Len(hand_rx) >= Announced + 2
  /\ LET n == IF Len(hand_rx) < Announced THEN Len(hand_rx) ELSE Announced
     IN /\ state' = IF SubSeq(hand_rx, 1, Magic) = SubSeq(Hello, 1, Magic)
                    THEN "begun" ELSE "waiting"
        /\ hand_rx' = SubSeq(hand_rx, n + 1, Len(hand_rx))
  /\ UNCHANGED <<transport, hand_wire, kernel, remoteDevice>>

(* One turn of the loop of handShake() that finds something: with 16 bytes *)
(* available up to 18 are read; the first 16 decide, the others are gone.  *)
HandShake ==
  /\ state = "waiting"
  /\ Len(hand_rx) >= Magic
  /\ LET n == IF Len(hand_rx) < Announced THEN Len(hand_rx) ELSE Announced
     IN /\ state' = IF SubSeq(hand_rx, 1, Magic) = SubSeq(Hello, 1, Magic)
                    THEN "begun" ELSE "waiting"
        /\ hand_rx' = SubSeq(hand_rx, n + 1, Len(hand_rx))
  /\ UNCHANGED <<transport, hand_wire, kernel, remoteDevice>>

HandShakeNext ==
  \/ HandShakeBegin \/ SendStray \/ SendHello \/ Deliver
  \/ HandShake

HandShakeSpec == HandShakeInit /\ [][HandShakeNext]_handShakeVars

(* The sketch's thread runs, and what was sent arrives (a stream is        *)
(* reliable); the device owes nothing.                                     *)
HandShakeFairSpec == HandShakeSpec /\ WF_handShakeVars(HandShake) /\ WF_handShakeVars(Deliver)
-----------------------------------------------------------------------------
(* "we wait for the Arduino to send us the Arduino-Emulator string"        *)
(* (HardwareSetupRemote.h:142): once the device has sent it to a waiting   *)
(* begin(), begin() returns.                                               *)
BeginReturns == (state = "waiting" /\ hellos > 0) ~> (state = "begun")

(* The same over a stream that carries nothing before the announcement,    *)
(* however the announcement is split and how often it is repeated.         *)
CleanBeginReturns ==
  (transport = "stream" /\ strays = 0 /\ state = "waiting" /\ hellos > 0)
    ~> (state = "begun")
=============================================================================
