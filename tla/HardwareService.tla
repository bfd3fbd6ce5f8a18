--------------------------- MODULE HardwareService ---------------------------
(***************************************************************************)
(* Hardware calls tunnelled over a stream: the sketch's RemoteGPIO,        *)
(* RemoteI2C and RemoteSPI objects write requests with HardwareService's   *)
(* send() and read answers with its receive(), which gives up after a      *)
(* timeout.  The board at the other end executes requests in order.        *)
(*                                                                         *)
(* The stream is one of the library's own.  receive() calls                *)
(* readBytes(char* ) of a Stream*, which is not virtual (external): it     *)
(* polls the stream's read() for each byte until a timeout.  An            *)
(* EthernetClient transmits every write at once, and its read() receives   *)
(* from the socket.  A WiFiUDPStream transmits on flush(), and its read()  *)
(* gives bytes of the packet parsePacket() received; parsePacket() is      *)
(* called by WiFiUDPStream::readBytes(uint8_t* ), which is another         *)
(* function, and by nothing else that HardwareService reaches.             *)
(*                                                                         *)
(* A byte of an answer is <<call it answers, index>>; values do not        *)
(* matter.                                                                 *)
(***************************************************************************)
EXTENDS Integers, Sequences

CONSTANTS
  Links,      \* the streams, and the methods called over each, see below
  MaxCalls    \* bound: calls made

VARIABLES
  link,        \* the link setStream() was given
  unsent,      \* requests written to the stream and not transmitted
  wire,        \* requests under way to the board
  back,        \* over UDP: the datagrams that arrived in the socket
  rx,          \* what read() gives next: over TCP the bytes that arrived
  call,        \* the call the sketch is in
  result,      \* the last call that returned an answer
  calls, lost, \* how many so far
  missed,      \* bytes that receives gave up on
  gone         \* bytes of answers that were lost

counts == <<calls, lost, missed, gone>>
vars == <<link, unsent, wire, back, rx, call, result, calls, lost, missed, gone>>
-----------------------------------------------------------------------------
(* A method of the sketch's objects: does it flush after its sends, and    *)
(* which receives does it make: receive8 is 1, receive16 is 2, receive64   *)
(* is 8.                                                                   *)
Command == [flush |-> TRUE, receives |-> <<>>]
Query(w) == [flush |-> TRUE, receives |-> <<w>>]
UnflushedQuery(w) == [flush |-> FALSE, receives |-> <<w>>]

RemoteGPIO ==
  [pinMode |-> Command, digitalWrite |-> Command, analogReference |-> Command,
   analogWrite |-> Command, tone |-> Command, noTone |-> Command,
   analogWriteFrequency |-> Command, analogWriteResolution |-> Command,
   digitalRead |-> Query(1), analogRead |-> Query(2),
   pulseIn |-> Query(8), pulseInLong |-> Query(8)]

RemoteI2C ==
  [i2cBegin |-> Command, i2cEnd |-> Command, setClock |-> Command,
   beginTransmission |-> Command,
   endTransmission |-> UnflushedQuery(1), requestFrom |-> UnflushedQuery(1),
   i2cWrite |-> UnflushedQuery(2), i2cAvailable |-> UnflushedQuery(2),
   i2cRead |-> UnflushedQuery(2), i2cPeek |-> UnflushedQuery(2)]

(* transfer(buf, count) makes one receive8 per byte; two bytes here. *)
RemoteSPI ==
  [spiBegin |-> Command, spiEnd |-> Command, usingInterrupt |-> Command,
   notUsingInterrupt |-> Command, beginTransaction |-> Command,
   endTransaction |-> Command, attachInterrupt |-> Command,
   detachInterrupt |-> Command,
   transfer8 |-> Query(1), transfer16 |-> Query(2),
   transfer |-> [flush |-> TRUE, receives |-> <<1, 1>>]]

(* Of a link: `transport' is "tcp" (EthernetClient) or "udp"               *)
(* (WiFiUDPStream), `used' the methods the sketch calls, and `losses' a    *)
(* bound: how many requests or answers the network loses (0 over TCP).     *)
Method == DOMAIN RemoteGPIO \cup DOMAIN RemoteI2C \cup DOMAIN RemoteSPI

ASSUME LinksAssumption ==
  \A l \in Links : /\ l.transport \in {"tcp", "udp"}
                   /\ l.transport = "tcp" => l.losses = 0
                   /\ l.used \subseteq Method

Sketch(m) ==
  IF m \in DOMAIN RemoteGPIO THEN RemoteGPIO[m]
  ELSE IF m \in DOMAIN RemoteI2C THEN RemoteI2C[m]
  ELSE RemoteSPI[m]

(* How many bytes the board answers: the width of the value the Arduino    *)
(* call of that name returns.                                              *)
AnswerLength(m) ==
  CASE m \in {"digitalRead", "endTransmission", "requestFrom", "transfer8"} -> 1
    [] m \in {"analogRead", "i2cWrite", "i2cAvailable", "i2cRead", "i2cPeek",
              "transfer16", "transfer"} -> 2
    [] m \in {"pulseIn", "pulseInLong"} -> 8
    [] OTHER -> 0

Answer(r) == [i \in 1..AnswerLength(r.method) |-> <<r.id, i>>]

(* The received bytes are exactly the board's answer to the call. *)
IsAnswer(got, id, m) ==
  /\ Len(got) = AnswerLength(m)
  /\ \A i \in 1..Len(got) : got[i] = <<id, i>>

Total(widths) ==
  LET upTo[n \in 0 .. Len(widths)] == IF n = 0 THEN 0 ELSE upTo[n - 1] + widths[n]
  IN upTo[Len(widths)]
Owed(requests) == Total([i \in DOMAIN requests |-> AnswerLength(requests[i].method)])
Held(datagrams) == Total([i \in DOMAIN datagrams |-> Len(datagrams[i])])
Arriving == Held(back) + Len(rx)

(* A byte of the result variable that receive() never wrote. *)
Uninitialized == <<0, 0>>

Idle == [id |-> 0, method |-> "none", receives |-> <<>>, got |-> <<>>,
         offset |-> 0, quiet |-> FALSE, short |-> FALSE]
-----------------------------------------------------------------------------
Init ==
  /\ link \in Links
  /\ unsent = <<>> /\ wire = <<>> /\ back = <<>> /\ rx = <<>>
  /\ call = Idle /\ result = Idle
  /\ calls = 0 /\ lost = 0 /\ missed = 0 /\ gone = 0

(* send(), and flush() if the method calls it: an EthernetClient transmits *)
(* each field as it is written, a WiFiUDPStream everything since the last  *)
(* flush().  (Its flush() would also drop a packet being read: none is.)   *)
Transmit(r, flushed) ==
  \/ /\ link.transport = "tcp"
     /\ wire' = Append(wire, r)
     /\ UNCHANGED unsent
  \/ /\ link.transport = "udp" /\ flushed
     /\ wire' = wire \o Append(unsent, r)
     /\ unsent' = <<>>
  \/ /\ link.transport = "udp" /\ ~flushed
     /\ unsent' = Append(unsent, r)
     /\ UNCHANGED wire

(* A method is called: its sends, its flush, and its first receive if any. *)
Call(m) ==
  /\ call = Idle
  /\ calls < MaxCalls
  /\ calls' = calls + 1
  /\ Transmit([id |-> calls', method |-> m], Sketch(m).flush)
  /\ call' = IF Sketch(m).receives = <<>> THEN Idle
             ELSE [id |-> calls', method |-> m, receives |-> Sketch(m).receives,
                   got |-> <<>>, offset |-> 0,
                   quiet |-> Owed(unsent \o wire) + Arriving = 0, short |-> FALSE]
  /\ UNCHANGED <<link, back, rx, result, lost, missed, gone>>

(* Mutation of NextReceive: the offset is not reset between receives. *)
NextReceiveKeepsOffset(c) ==
  LET rest == [c EXCEPT !.receives = Tail(@)]
  IN IF Len(c.receives) > 1
     THEN call' = rest /\ UNCHANGED result
     ELSE call' = Idle /\ result' = rest

(* One receive is over, complete or not: the method makes its next one, or *)
(* returns what it has.                                                    *)
NextReceive(c) ==
  LET rest == [c EXCEPT !.receives = Tail(@), !.offset = 0]
  IN IF Len(c.receives) > 1
     THEN call' = rest /\ UNCHANGED result
     ELSE call' = Idle /\ result' = rest

Wanting == call # Idle /\ call.offset < Head(call.receives)

(* A poll of readBytes() finds a byte. *)
ReadByte ==
  /\ Wanting
  /\ rx # <<>>
  /\ call' = [call EXCEPT !.got = Append(@, Head(rx)), !.offset = @ + 1]
  /\ rx' = Tail(rx)
  /\ UNCHANGED <<link, unsent, wire, back, result, counts>>

(* blockingRead(): all bytes are there. *)
ReceiveDone ==
  /\ call # Idle
  /\ call.offset = Head(call.receives)
  /\ NextReceive(call)
  /\ UNCHANGED <<link, unsent, wire, back, rx, counts>>

(* Mutation of ReceiveTimeout: the loop does not look at the time. *)
ReceiveTimeoutNever == FALSE /\ UNCHANGED vars

(* blockingRead(): the time is up with bytes missing, the last poll having *)
(* found nothing (what arrives after that poll comes after this step); the *)
(* result variable keeps whatever it held in their place.                  *)
ReceiveTimeout ==
  /\ Wanting
  /\ rx = <<>>
  /\ LET short == Head(call.receives) - call.offset
     IN /\ missed' = missed + short
        /\ NextReceive([call EXCEPT !.got = @ \o [i \in 1..short |-> Uninitialized],
                                    !.short = TRUE])
  /\ UNCHANGED <<link, unsent, wire, back, rx, calls, lost, gone>>

(* The board executes the next request and answers it, if it has to. *)
BoardAnswers ==
  /\ wire # <<>>
  /\ wire' = Tail(wire)
  /\ LET a == Answer(Head(wire)) IN
       \/ link.transport = "tcp" /\ rx' = rx \o a /\ UNCHANGED back
       \/ link.transport = "udp" /\ a # <<>> /\ back' = Append(back, a) /\ UNCHANGED rx
       \/ link.transport = "udp" /\ a = <<>> /\ UNCHANGED <<back, rx>>
  /\ UNCHANGED <<link, unsent, call, result, counts>>

(* The request, or the answer to it, is lost on a network without delivery *)
(* guarantee.                                                              *)
Lose ==
  /\ lost < link.losses
  /\ wire # <<>>
  /\ wire' = Tail(wire)
  /\ lost' = lost + 1
  /\ gone' = gone + AnswerLength(Head(wire).method)
  /\ UNCHANGED <<link, unsent, back, rx, call, result, calls, missed>>

Next ==
  \/ \E m \in link.used : Call(m)
  \/ ReadByte
  \/ ReceiveDone
  \/ ReceiveTimeout
  \/ BoardAnswers
  \/ Lose

Spec == Init /\ [][Next]_vars

(* The sketch's thread runs and time passes; the board and the network owe *)
(* nothing.                                                                *)
FairSpec ==
  Spec /\ WF_vars(ReadByte \/ ReceiveDone \/ ReceiveTimeout)
-----------------------------------------------------------------------------
(***************************************************************************)
(* Every answer byte is accounted for: what is still to arrive exceeds     *)
(* what the call in progress waits for by the bytes earlier receives gave  *)
(* up on, less those that were lost.  Over TCP nothing is lost, so one     *)
(* receive that gives up shifts every later answer by the bytes it missed, *)
(* and nothing the client does takes that shift back.                      *)
(***************************************************************************)
Accounted ==
  /\ Owed(unsent \o wire) + Arriving + gone
       = Total(call.receives) - call.offset + missed
  /\ link.transport = "tcp" => gone = 0

(* A call made while no answer is outstanding, of which no receive times   *)
(* out, returns the board's answer to it and nothing else.                 *)
QuietCallIsAnswered ==
  result.quiet /\ ~result.short => IsAnswer(result.got, result.id, result.method)

(* "Provides blocking read with timeout for reliable communication"        *)
(* (HardwareService.h:103): a receive gives up only if what it waits for   *)
(* has not arrived.                                                        *)
NoAnswerMissed == [][missed' > missed => Arriving = 0]_vars

(* The timeout of blockingRead bounds every call: a method that waits for  *)
(* an answer returns, even if the board is silent.                         *)
EveryCallReturns == (call # Idle) ~> (call = Idle)
=============================================================================
