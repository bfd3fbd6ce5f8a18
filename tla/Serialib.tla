-------------------------------- MODULE Serialib --------------------------------
(***************************************************************************)
(* serialib on Linux, and SerialImpl on top of it.  A timed call runs step *)
(* by step (one read() of the device, or one look at the clock), while     *)
(* bytes arrive, time passes and the device may be unplugged.  The timers  *)
(* use the time of day, which may be set back.  External: descriptors are  *)
(* the lowest free numbers and shared with the rest of the program; read() *)
(* of a configured port returns 0 when it has nothing.                     *)
(***************************************************************************)
EXTENDS Integers, Sequences, SequencesExt, FiniteSetsExt

CONSTANTS
  CharSigned,  \* builds to check: char is signed (x86), or not (ARM)
  Fd,          \* file descriptors
  TimeOut,     \* timeouts of the calls, 0 for none
  MaxNbBytes,  \* bound: maxNbBytes, and bytes on their way
  MaxTime      \* bound: the time of day

VARIABLES
  charSigned,
  wrapped,      \* the sketch uses a SerialImpl, not a serialib
  file,         \* of each descriptor: "free", "port" or an "other" file
  fd,           \* not initialized before openDevice(), kept by closeDevice()
  configured,   \* the port has its options
  unplugged,
  input,        \* bytes the port has received
  serial_call,  \* the call in progress, with the time of day less that of
                \* its start, or the last one and what it returned
  stored,       \* the bytes in the caller's buffer, without the final 0
  failed,       \* history: a read() of this call failed
  peek_char,    \* of SerialImpl
  waiting,      \* its call that waits for readChar(), or "none"
  surplus       \* history: bytes it took from the port, less its reads that
                \* returned 1

serialDevice == <<file, fd, configured, unplugged>>
impl == <<peek_char, waiting, surplus>>
build == <<charSigned, wrapped>>
serialibVars == <<build, serialDevice, input, serial_call, stored, failed, impl>>
-----------------------------------------------------------------------------
NoFd == -1
Char == {"char", "final"}
InCall == serial_call.name # "none"
InSketch == ~InCall /\ waiting = "none"
MinOf(a, b) == IF a < b THEN a ELSE b

SerialibInit ==
  /\ charSigned \in CharSigned /\ wrapped \in BOOLEAN
  /\ file \in [Fd -> {"free", "other"}] /\ fd \in Fd
  /\ configured = FALSE /\ unplugged = FALSE /\ input = <<>>
  /\ serial_call = [name |-> "none", of |-> "none", ret |-> 0] /\ stored = <<>> /\ failed = FALSE
  /\ peek_char = -1 /\ waiting = "none" /\ surplus = 0

Free == {f \in Fd : file[f] = "free"}

(* openDevice(): -2 without a descriptor; -4 for a speed it does not know, *)
(* with the port open and without its options.                             *)
openDevice(opens, known) ==
  /\ IF opens /\ Free # {}
     THEN /\ fd' = Min(Free)
          /\ file' = [file EXCEPT ![fd'] = "port"]
          /\ configured' = known
     ELSE fd' = NoFd /\ UNCHANGED <<file, configured>>
  /\ UNCHANGED unplugged

(* closeDevice() closes whatever has the number by now. *)
closeDevice ==
  /\ file' = [f \in Fd |-> IF f = fd THEN "free" ELSE file[f]]
  /\ UNCHANGED <<fd, configured, unplugged>>

(* SerialImpl::begin() takes every error of openDevice() for a success and *)
(* sets is_open.                                                           *)
SerialibBegin(opens, known) ==
  /\ InSketch
  /\ openDevice(opens, known)
  /\ UNCHANGED <<build, input, serial_call, stored, failed, impl>>

SerialibEnd ==
  /\ InSketch
  /\ closeDevice
  /\ UNCHANGED <<build, input, serial_call, stored, failed, impl>>

(* The rest of the program opens or closes a file. *)
OtherFile(f) ==
  /\ f \in Fd /\ (file[f] = "other" \/ (Free # {} /\ f = Min(Free)))
  /\ file' = [file EXCEPT ![f] = IF @ = "other" THEN "free" ELSE "other"]
  /\ UNCHANGED <<build, fd, configured, unplugged, input, serial_call, stored, failed, impl>>

flushReceiver ==
  /\ InSketch /\ ~wrapped /\ fd \in Fd /\ file[fd] = "port"
  /\ input' = <<>>
  /\ UNCHANGED <<build, serialDevice, serial_call, stored, failed, impl>>
-----------------------------------------------------------------------------
(* What read(fd, ..., n) can return: bytes, or an error.  A number that is *)
(* another file's gives that file's bytes; one that is free, an unplugged  *)
(* port, or one without its options that has nothing gives an error.       *)
Error == <<"error">>
Reads(n) ==
  IF fd \notin Fd \/ file[fd] = "free" THEN {Error}
  ELSE IF file[fd] = "other" THEN {<<>>, <<"char">>, Error}
  ELSE IF unplugged THEN {Error}
  ELSE IF input = <<>> THEN {IF configured THEN <<>> ELSE Error}
  ELSE {SubSeq(input, 1, MinOf(n, Len(input)))}

Took(bytes) ==
  input' = IF fd \in Fd /\ file[fd] = "port" /\ bytes # Error
           THEN SubSeq(input, Len(bytes) + 1, Len(input)) ELSE input

(* The time since a timer was started; negative times become the largest   *)
(* unsigned numbers in a comparison.                                       *)
Elapsed(start) == serial_call.now - start
Before(start, limit) == Elapsed(start) \in 0 .. limit - 1
Beyond(start, limit) == Elapsed(start) \notin 0 .. limit

(* readString() without a timeout is readStringNoTimeOut(). *)
Start(name, max, timeOut) ==
  /\ InSketch
  /\ serial_call' = [name |-> name, max |-> max, timeOut |-> timeOut, now |-> 0,
              at |-> IF name = "readString" THEN "head" ELSE "read",
              timer |-> 0, limit |-> timeOut, setBack |-> FALSE]
  /\ stored' = <<>> /\ failed' = FALSE

readChar(t) ==
  /\ ~wrapped
  /\ Start("readChar", 1, t)
  /\ UNCHANGED <<build, serialDevice, input, impl>>
readString(max, t) ==
  /\ ~wrapped
  /\ Start("readString", max, t)
  /\ UNCHANGED <<build, serialDevice, input, impl>>
readBytes(max, t) ==
  /\ ~wrapped
  /\ Start("readBytes", max, t)
  /\ UNCHANGED <<build, serialDevice, input, impl>>

Return(ret) == serial_call' = [name |-> "none", of |-> serial_call.name, ret |-> ret]

(* Mutation of HeadOfLoop: a remaining time of 0 is passed on. *)
HeadOfLoopZero ==
  /\ InCall /\ serial_call.at = "head"
  /\ LET remaining == serial_call.timeOut - serial_call.now
     IN IF Len(stored) >= serial_call.max THEN Return(-3)
        ELSE serial_call' =
               IF remaining >= 0
               THEN [serial_call EXCEPT !.at = "read", !.timer = serial_call.now,
                       !.limit = remaining]
               ELSE [serial_call EXCEPT !.at = "check"]
  /\ UNCHANGED <<build, serialDevice, input, stored, failed, impl>>

(* readString() before it calls readChar() with the time that remains; 0   *)
(* would be no timeout at all.                                             *)
HeadOfLoop ==
  /\ InCall /\ serial_call.at = "head"
  /\ LET remaining == serial_call.timeOut - serial_call.now
     IN IF Len(stored) >= serial_call.max THEN Return(-3)
        ELSE serial_call' =
               IF remaining > 0 \/ serial_call.timeOut = 0
               THEN [serial_call EXCEPT !.at = "read", !.timer = serial_call.now,
                       !.limit = IF serial_call.timeOut = 0 THEN 0 ELSE remaining]
               ELSE [serial_call EXCEPT !.at = "check"]
  /\ UNCHANGED <<build, serialDevice, input, stored, failed, impl>>

(* readString() after readChar(): has the time passed? *)
CheckTime ==
  /\ InCall /\ serial_call.at = "check"
  /\ IF serial_call.timeOut > 0 /\ Beyond(0, serial_call.timeOut) THEN Return(0)
     ELSE serial_call' = [serial_call EXCEPT !.at = "head"]
  /\ UNCHANGED <<build, serialDevice, input, stored, failed, impl>>

Waiting ==
  /\ InCall /\ serial_call.at = "read"
  /\ serial_call.limit = 0 \/ Before(serial_call.timer, serial_call.limit)

(* readChar() and the loop of readBytes() give up. *)
GiveUp ==
  /\ InCall /\ serial_call.at = "read" /\ ~Waiting
  /\ IF serial_call.name = "readString" THEN serial_call' = [serial_call EXCEPT !.at = "check"]
     ELSE Return(IF serial_call.name = "readBytes" THEN Len(stored) ELSE 0)
  /\ UNCHANGED <<build, serialDevice, input, stored, failed, impl>>

(* Mutation of ReadFails: readString() takes a failed read() for silence. *)
ReadFailsQuietly ==
  /\ Waiting /\ Error \in Reads(serial_call.max)
  /\ failed' = TRUE
  /\ IF serial_call.name = "readString"
     THEN serial_call' = [serial_call EXCEPT !.at = "check"]
     ELSE Return(IF serial_call.name = "readChar" /\ ~charSigned THEN 254 ELSE -2)
  /\ UNCHANGED <<build, serialDevice, input, stored, impl>>

(* A read() fails: readChar() returns -2.  In readString() that is a char, *)
(* which is never negative if char is not signed: the loop goes on.        *)
ReadFails ==
  /\ Waiting /\ Error \in Reads(serial_call.max)
  /\ failed' = TRUE
  /\ IF serial_call.name = "readString" /\ ~charSigned
     THEN serial_call' = [serial_call EXCEPT !.at = "check"]
     ELSE Return(IF serial_call.name = "readChar" /\ ~charSigned THEN 254 ELSE -2)
  /\ UNCHANGED <<build, serialDevice, input, stored, impl>>

(* Mutation of AfterChar: the final char is looked for after the check of  *)
(* the room only.                                                          *)
AfterCharLate ==
  IF Len(stored') < serial_call.max /\ Last(stored') = "final"
  THEN Return(Len(stored')) ELSE serial_call' = [serial_call EXCEPT !.at = "check"]

(* readString() ends with the final char and stores a 0 behind it. *)
AfterChar ==
  IF Last(stored') = "final"
  THEN Return(Len(stored')) ELSE serial_call' = [serial_call EXCEPT !.at = "check"]

(* A read() gives bytes, one at a time to readChar(). *)
ReadGives ==
  /\ Waiting
  /\ \E bytes \in
         Reads(IF serial_call.name = "readBytes" THEN serial_call.max - Len(stored) ELSE 1) :
       /\ bytes \notin {<<>>, Error}
       /\ Took(bytes)
       /\ stored' = stored \o bytes
  /\ CASE serial_call.name = "readString" -> AfterChar
       [] serial_call.name = "readBytes" ->
            IF Len(stored') >= serial_call.max THEN Return(Len(stored'))
            ELSE UNCHANGED serial_call
       [] OTHER -> Return(1)
  /\ UNCHANGED <<build, serialDevice, failed, impl>>
-----------------------------------------------------------------------------
Arrive(c) ==
  /\ Len(input) < MaxNbBytes
  /\ input' = Append(input, c)
  /\ UNCHANGED <<build, serialDevice, serial_call, stored, failed, impl>>

Unplug ==
  /\ ~unplugged /\ unplugged' = TRUE
  /\ UNCHANGED <<build, file, fd, configured, input, serial_call, stored, failed, impl>>

Tick ==
  /\ InCall /\ serial_call.now < MaxTime
  /\ serial_call' = [serial_call EXCEPT !.now = @ + 1]
  /\ UNCHANGED <<build, serialDevice, input, stored, failed, impl>>

(* Once in a call. *)
SetClockBack ==
  /\ InCall /\ ~serial_call.setBack
  /\ \E now \in -1 .. serial_call.now - 1 :
       serial_call' = [serial_call EXCEPT !.now = now, !.setBack = TRUE]
  /\ UNCHANGED <<build, serialDevice, input, stored, failed, impl>>

Loop == HeadOfLoop \/ CheckTime \/ GiveUp \/ ReadFails \/ ReadGives
-----------------------------------------------------------------------------
(* SerialImpl::read() and peek() return what readChar() returned, not the  *)
(* byte; peek() keeps it for the next of them.                             *)
ImplStart(name, t) ==
  /\ wrapped /\ peek_char = -1
  /\ Start("readChar", 1, t)
  /\ waiting' = name
  /\ UNCHANGED <<build, serialDevice, input, peek_char, surplus>>

(* Mutation of ImplDone: peek() does not keep the result. *)
ImplDoneForgets ==
  /\ ~InCall /\ waiting # "none"
  /\ waiting' = "none"
  /\ surplus' = surplus + (IF serial_call.ret = 1 THEN 1 ELSE 0)
                        - (IF waiting = "read" /\ serial_call.ret = 1 THEN 1 ELSE 0)
  /\ UNCHANGED <<build, serialDevice, input, serial_call, stored, failed, peek_char>>

ImplDone ==
  /\ ~InCall /\ waiting # "none"
  /\ waiting' = "none"
  /\ peek_char' = IF waiting = "peek" THEN serial_call.ret ELSE peek_char
  /\ surplus' = surplus + (IF serial_call.ret = 1 /\ waiting = "peek" THEN 1 ELSE 0)
  /\ UNCHANGED <<build, serialDevice, input, serial_call, stored, failed>>

(* read() after peek(). *)
ImplReadPeeked ==
  /\ InSketch /\ peek_char # -1
  /\ peek_char' = -1
  /\ surplus' = surplus - (IF peek_char = 1 THEN 1 ELSE 0)
  /\ UNCHANGED <<build, serialDevice, input, serial_call, stored, failed, waiting>>

SerialibNext ==
  \/ \E opens, known \in BOOLEAN : SerialibBegin(opens, known)
  \/ SerialibEnd \/ flushReceiver
  \/ \E f \in Fd : OtherFile(f)
  \/ \E t \in TimeOut : readChar(t)
  \/ \E max \in 1 .. MaxNbBytes, t \in TimeOut : readString(max, t)
  \/ \E max \in 1 .. MaxNbBytes, t \in TimeOut : readBytes(max, t)
  \/ Loop
  \/ \E name \in {"read", "peek"}, t \in TimeOut : ImplStart(name, t)
  \/ ImplDone \/ ImplReadPeeked
  \/ \E c \in Char : Arrive(c)
  \/ Unplug \/ Tick \/ SetClockBack

SerialibSpec == SerialibInit /\ [][SerialibNext]_serialibVars

(* The loop of a call goes on, and so does the time. *)
SerialibFairSpec == SerialibSpec /\ WF_serialibVars(Loop) /\ WF_serialibVars(Tick)
-----------------------------------------------------------------------------
(* A result above 0 of readString() is the length of what is in the buffer, *)
(* a line with the final char at its end and nowhere else; and it never    *)
(* ends without that result once it has taken the final char, so a line is *)
(* not split because the buffer is full or the time is up.                 *)
ReadsOneLine ==
  ~InCall /\ serial_call.of = "readString" =>
    LET finals == {i \in DOMAIN stored : stored[i] = "final"}
    IN finals = IF serial_call.ret > 0 THEN {serial_call.ret} \cap {Len(stored)} ELSE {}

(* Each byte SerialImpl takes from the port is one read() that returns 1,  *)
(* in whatever order peek() and read() are called, time out and fail.      *)
OneReadPerByte == surplus = IF peek_char = 1 THEN 1 ELSE 0

(* A call with a timeout returns: when nothing comes, when the device is   *)
(* unplugged and when the clock is set back meanwhile.                     *)
TimedCallReturns == (InCall /\ serial_call.timeOut > 0) ~> ~InCall

(* "return -2 error while reading the byte" (serialib.cpp:436): where char *)
(* is signed, a readString() in which a read() failed, at any point of it, *)
(* returns -2.  Where char is unsigned the test at serialib.cpp:483 is     *)
(* never true, and readString() goes on, or returns 0 or a line.           *)
ReadErrorReported ==
  charSigned /\ ~InCall /\ serial_call.of = "readString" /\ failed => serial_call.ret = -2
=============================================================================
