------------------------------ MODULE TimedProofs ------------------------------
(***************************************************************************)
(* What waits for an answer: the serial port, for any descriptors, timeouts *)
(* and lengths, and with a clock that may be set back; and the calls made  *)
(* over a stream, for any methods, links and losses.                       *)
(***************************************************************************)
EXTENDS HardwareService, Serialib, SequenceTheorems, WellFoundedInduction, TLAPS

(***************************************************************************)
(* SerialImpl: a call of it waits only while nothing is peeked.            *)
(***************************************************************************)
PeekInv ==
  /\ surplus \in Int
  /\ waiting # "none" => peek_char = -1
  /\ OneReadPerByte

LEMMA InitPeekInv == SerialibInit => PeekInv
BY DEF SerialibInit, PeekInv, OneReadPerByte

LEMMA StepPeekInv == PeekInv /\ [SerialibNext]_serialibVars => PeekInv'
<1> SUFFICES ASSUME PeekInv, [SerialibNext]_serialibVars
             PROVE  PeekInv'
  OBVIOUS
<1>1. ASSUME UNCHANGED impl
      PROVE  PeekInv'
  BY <1>1 DEF impl, PeekInv, OneReadPerByte
<1>2. ASSUME NEW opens \in BOOLEAN, NEW known \in BOOLEAN, SerialibBegin(opens, known)
      PROVE  PeekInv'
  BY <1>1, <1>2 DEF SerialibBegin
<1>3. CASE SerialibEnd \/ flushReceiver
  BY <1>1, <1>3 DEF SerialibEnd, flushReceiver
<1>4. ASSUME NEW f \in Fd, OtherFile(f)
      PROVE  PeekInv'
  BY <1>1, <1>4 DEF OtherFile
<1>5. ASSUME NEW t \in TimeOut, readChar(t)
      PROVE  PeekInv'
  BY <1>1, <1>5 DEF readChar
<1>6. ASSUME NEW max \in 1 .. MaxNbBytes, NEW t \in TimeOut, readString(max, t) \/ readBytes(max, t)
      PROVE  PeekInv'
  BY <1>1, <1>6 DEF readString, readBytes
<1>7. CASE Loop
  BY <1>1, <1>7 DEF Loop, HeadOfLoop, CheckTime, GiveUp, ReadFails, ReadGives
<1>8. ASSUME NEW name \in {"read", "peek"}, NEW t \in TimeOut, ImplStart(name, t)
      PROVE  PeekInv'
  BY <1>8 DEF ImplStart, PeekInv, OneReadPerByte
<1>9. CASE ImplDone
  <2>1. /\ waiting # "none" /\ waiting' = "none"
        /\ peek_char' = IF waiting = "peek" THEN serial_call.ret ELSE peek_char
        /\ surplus' = surplus + (IF serial_call.ret = 1 /\ waiting = "peek" THEN 1 ELSE 0)
    BY <1>9 DEF ImplDone
  <2>2. peek_char = -1 /\ surplus = 0
    BY <2>1 DEF PeekInv, OneReadPerByte
  <2> QED
    BY <2>1, <2>2 DEF PeekInv, OneReadPerByte
<1>10. CASE ImplReadPeeked
  BY <1>10 DEF ImplReadPeeked, InSketch, PeekInv, OneReadPerByte
<1>11. ASSUME NEW c \in Char, Arrive(c)
       PROVE  PeekInv'
  BY <1>1, <1>11 DEF Arrive
<1>12. CASE Unplug \/ Tick \/ SetClockBack
  BY <1>1, <1>12 DEF Unplug, Tick, SetClockBack
<1>13. CASE UNCHANGED serialibVars
  BY <1>1, <1>13 DEF serialibVars
<1> QED
  BY <1>2, <1>3, <1>4, <1>5, <1>6, <1>7, <1>8, <1>9, <1>10, <1>11, <1>12, <1>13
  DEF SerialibNext

(* What SerialImpl took from the port it has handed out, each byte as one  *)
(* read(), or holds for the next call: peek() and read() in any order,     *)
(* whatever fails and times out.                                           *)
THEOREM PeekedOnce == SerialibSpec => []OneReadPerByte
<1>1. PeekInv => OneReadPerByte
  BY DEF PeekInv
<1> QED
  BY <1>1, InitPeekInv, StepPeekInv, PTL DEF SerialibSpec

(***************************************************************************)
(* serialib: a readString() in progress has not met the final char.        *)
(***************************************************************************)
CallForm ==
  /\ DOMAIN serial_call = {"name", "max", "timeOut", "now", "at", "timer", "limit", "setBack"}
  /\ serial_call.name \in {"readChar", "readString", "readBytes"}
  /\ serial_call.at \in {"head", "check"} => serial_call.name = "readString"
  /\ serial_call.max \in Int

NoFinal == \A i \in DOMAIN stored : stored[i] # "final"

LineInv ==
  /\ input \in Seq(Char)
  /\ stored \in Seq(Char)
  /\ InCall => CallForm /\ (serial_call.name = "readString" => NoFinal)
  /\ ReadsOneLine

LEMMA InitLineInv == SerialibInit => LineInv
BY DEF SerialibInit, LineInv, InCall, ReadsOneLine

(* A call that goes on, with another time, phase or clock. *)
LEMMA CallGoesOn ==
  ASSUME LineInv, InCall, stored' = stored, input' \in Seq(Char),
         DOMAIN serial_call' = DOMAIN serial_call,
         serial_call'.name = serial_call.name, serial_call'.max = serial_call.max,
         serial_call'.at \in {"head", "check"} => serial_call.name = "readString"
  PROVE  LineInv'
<1>1. InCall' /\ CallForm'
  BY DEF LineInv, InCall, CallForm
<1>2. serial_call'.name = "readString" => NoFinal'
  BY DEF LineInv, NoFinal
<1> QED
  BY <1>1, <1>2 DEF LineInv, ReadsOneLine

(* A call ends, a readString() without a line. *)
LEMMA CallEnds ==
  ASSUME LineInv, InCall, stored' = stored, input' = input, NEW ret, Return(ret),
         serial_call.name = "readString" => ~(ret > 0)
  PROVE  LineInv'
<1>1. serial_call' = [name |-> "none", of |-> serial_call.name, ret |-> ret]
  BY DEF Return
<1>2. ~InCall' /\ serial_call'.of = serial_call.name /\ serial_call'.ret = ret
  BY <1>1 DEF InCall
<1>3. ASSUME serial_call.name = "readString"
      PROVE  {i \in DOMAIN stored : stored[i] = "final"} = {}
  BY <1>3 DEF LineInv, NoFinal
<1>4. ReadsOneLine'
  BY <1>2, <1>3 DEF ReadsOneLine
<1> QED
  BY <1>2, <1>4 DEF LineInv

LEMMA SameCall ==
  ASSUME LineInv, serial_call' = serial_call, stored' = stored, input' \in Seq(Char)
  PROVE  LineInv'
BY DEF LineInv, InCall, CallForm, NoFinal, ReadsOneLine

LEMMA CallStarts ==
  ASSUME LineInv, NEW name \in {"readChar", "readString", "readBytes"}, NEW max \in Int, NEW t,
         Start(name, max, t), input' = input
  PROVE  LineInv'
<1>1. /\ serial_call' = [name |-> name, max |-> max, timeOut |-> t, now |-> 0,
              at |-> IF name = "readString" THEN "head" ELSE "read",
              timer |-> 0, limit |-> t, setBack |-> FALSE]
      /\ stored' = <<>>
  BY DEF Start
<1>2. InCall' /\ CallForm' /\ NoFinal'
  BY <1>1 DEF InCall, CallForm, NoFinal
<1> QED
  BY <1>1, <1>2 DEF LineInv, ReadsOneLine

LEMMA StartOf ==
  ASSUME NEW s \in Seq(Char), NEW n \in Int
  PROVE  /\ SubSeq(s, 1, MinOf(n, Len(s))) \in Seq(Char)
         /\ Len(SubSeq(s, 1, MinOf(n, Len(s)))) \in 0 .. Len(s)
<1>1. Len(s) \in Nat /\ MinOf(n, Len(s)) \in Int /\ MinOf(n, Len(s)) <= Len(s)
  BY DEF MinOf
<1> DEFINE m == MinOf(n, Len(s))
<1> HIDE DEF m
<1>2. m \in Int /\ m <= Len(s)
  BY <1>1 DEF m
<1>3. CASE m >= 1
  <2>1. SubSeq(s, 1, m) \in Seq(Char) /\ Len(SubSeq(s, 1, m)) = m
    BY <1>1, <1>2, <1>3
  <2> QED
    BY <1>1, <1>2, <1>3, <2>1 DEF m
<1>4. CASE ~(m >= 1)
  <2>1. SubSeq(s, 1, m) = <<>>
    BY <1>2, <1>4
  <2> QED
    BY <1>1, <2>1 DEF m
<1> QED
  BY <1>3, <1>4

(* What a read() gives is in the buffer and no longer in the port. *)
LEMMA WhatIsRead ==
  ASSUME LineInv, NEW n \in Int, NEW bytes \in Reads(n), bytes # <<>>, bytes # Error, Took(bytes)
  PROVE  bytes \in Seq(Char) /\ input' \in Seq(Char) /\ (n = 1 => Len(bytes) = 1)
<1>1. input \in Seq(Char) /\ Len(input) \in Nat
  BY DEF LineInv
<1>2. CASE file[fd] = "other" /\ bytes = <<"char">>
  BY <1>1, <1>2 DEF Took, Char
<1>3. CASE bytes = SubSeq(input, 1, MinOf(n, Len(input))) /\ input # <<>>
  <2>1. bytes \in Seq(Char) /\ Len(bytes) \in 0 .. Len(input)
    BY <1>1, <1>3, StartOf
  <2>2. SubSeq(input, Len(bytes) + 1, Len(input)) \in Seq(Char)
    BY <1>1, <2>1
  <2>3. Len(input) >= 1
    BY <1>1, <1>3
  <2>4. ASSUME n = 1
        PROVE  Len(bytes) = 1
    <3>1. MinOf(n, Len(input)) = 1
      <4>1. ASSUME NEW k \in Nat, k >= 1
            PROVE  MinOf(1, k) = 1
        BY <4>1 DEF MinOf
      <4> QED
        BY <1>1, <2>3, <2>4, <4>1
    <3>2. bytes = SubSeq(input, 1, 1)
      BY <1>3, <3>1
    <3>3. Len(SubSeq(input, 1, 1)) = 1
      BY <1>1, <2>3
    <3> QED
      BY <3>2, <3>3
  <2> QED
    BY <1>1, <2>1, <2>2, <2>4 DEF Took
<1>4. \/ file[fd] = "other" /\ bytes = <<"char">>
      \/ bytes = SubSeq(input, 1, MinOf(n, Len(input))) /\ input # <<>>
  <2>1. bytes \notin {Error} /\ bytes \notin {<<>>, Error} /\ bytes \notin {<<>>}
    OBVIOUS
  <2> QED
    BY <2>1, Zenon DEF Reads
<1> QED
  BY <1>2, <1>3, <1>4

(* A read() in a readString(): the final char ends the line. *)
LEMMA CharKeepsLine ==
  ASSUME LineInv, InCall, serial_call.name = "readString", input' \in Seq(Char),
         NEW bytes \in Seq(Char), Len(bytes) = 1, stored' = stored \o bytes, AfterChar
  PROVE  LineInv'
<1> DEFINE n == Len(stored)
<1>0. stored \in Seq(Char)
  BY DEF LineInv
<1>1. /\ n \in Nat /\ stored' \in Seq(Char) /\ Len(stored') = n + 1
      /\ DOMAIN stored' = 1 .. n + 1 /\ DOMAIN stored = 1 .. n
      /\ \A i \in 1 .. n : stored'[i] = stored[i]
  <2>1. stored' \in Seq(Char) /\ n \in Nat /\ DOMAIN stored = 1 .. n
    BY <1>0
  <2>2. Len(stored') = n + 1
    <3>1. Len(stored \o bytes) = Len(stored) + Len(bytes)
      BY <1>0, ConcatProperties
    <3> QED
      BY <3>1
  <2>3. DOMAIN stored' = 1 .. n + 1
    BY <2>1, <2>2
  <2> QED
    BY <1>0, <2>1, <2>2, <2>3
<1>2. NoFinal /\ CallForm
  BY DEF LineInv
<1>3. Last(stored') = stored'[n + 1]
  BY <1>1 DEF Last
<1> HIDE DEF n
<1>4. \A i \in 1 .. n : stored'[i] # "final"
  BY <1>1, <1>2 DEF NoFinal
<1>5. CASE stored'[n + 1] = "final"
  <2>1. serial_call' = [name |-> "none", of |-> "readString", ret |-> n + 1]
    BY <1>1, <1>3, <1>5 DEF AfterChar, Return
  <2>2. \A i \in 1 .. n + 1 : i \in 1 .. n \/ i = n + 1
    BY <1>1
  <2>3. {i \in DOMAIN stored' : stored'[i] = "final"} = {n + 1}
    BY <1>1, <1>4, <1>5, <2>2
  <2>4. ~InCall' /\ serial_call'.ret = n + 1 /\ n + 1 > 0
    BY <1>1, <2>1 DEF InCall
  <2>5. ReadsOneLine'
    BY <1>1, <2>3, <2>4 DEF ReadsOneLine
  <2> QED
    BY <1>1, <2>4, <2>5 DEF LineInv
<1>6. CASE stored'[n + 1] # "final"
  <2>1. serial_call' = [serial_call EXCEPT !.at = "check"]
    BY <1>3, <1>6 DEF AfterChar
  <2>2. InCall' /\ CallForm'
    BY <1>2, <2>1 DEF InCall, CallForm
  <2>3. NoFinal'
    BY <1>1, <1>4, <1>6 DEF NoFinal
  <2> QED
    BY <1>1, <2>2, <2>3 DEF LineInv, ReadsOneLine
<1> QED
  BY <1>5, <1>6

LEMMA GivesKeepsLine ==
  ASSUME LineInv, ReadGives
  PROVE  LineInv'
<1>1. InCall /\ CallForm
  BY DEF ReadGives, Waiting, LineInv
<1>2. stored \in Seq(Char) /\ Len(stored) \in Nat
  BY DEF LineInv
<1> DEFINE n == IF serial_call.name = "readBytes" THEN serial_call.max - Len(stored) ELSE 1
<1>3. n \in Int
  BY <1>1, <1>2 DEF CallForm
<1>4. PICK bytes \in Reads(n) :
        bytes # <<>> /\ bytes # Error /\ Took(bytes) /\ stored' = stored \o bytes
  BY DEF ReadGives
<1>5. bytes \in Seq(Char) /\ input' \in Seq(Char) /\ (n = 1 => Len(bytes) = 1)
  BY <1>3, <1>4, WhatIsRead
<1>6. CASE serial_call.name = "readString"
  <2>1. AfterChar
    BY <1>6 DEF ReadGives
  <2> QED
    BY <1>1, <1>4, <1>5, <1>6, <2>1, CharKeepsLine
<1>7. CASE serial_call.name # "readString"
  <2>1. stored' \in Seq(Char)
    BY <1>2, <1>4, <1>5
  <2>2. CASE UNCHANGED serial_call
    BY <1>1, <1>5, <1>7, <2>1, <2>2 DEF LineInv, InCall, CallForm, ReadsOneLine
  <2>3. ASSUME NEW ret, Return(ret)
        PROVE  LineInv'
    <3>1. serial_call' = [name |-> "none", of |-> serial_call.name, ret |-> ret]
      BY <2>3 DEF Return
    <3> QED
      BY <1>5, <1>7, <2>1, <3>1 DEF LineInv, InCall, ReadsOneLine
  <2> QED
    BY <1>7, <2>2, <2>3 DEF ReadGives
<1> QED
  BY <1>6, <1>7

LEMMA StepLineInv == LineInv /\ [SerialibNext]_serialibVars => LineInv'
<1> SUFFICES ASSUME LineInv, [SerialibNext]_serialibVars
             PROVE  LineInv'
  OBVIOUS
<1>0. input \in Seq(Char)
  BY DEF LineInv
<1>1. ASSUME UNCHANGED <<serial_call, stored>>, input' \in Seq(Char)
      PROVE  LineInv'
  BY <1>1, SameCall
<1>2. ASSUME NEW opens \in BOOLEAN, NEW known \in BOOLEAN, SerialibBegin(opens, known)
      PROVE  LineInv'
  BY <1>0, <1>1, <1>2 DEF SerialibBegin
<1>3. CASE SerialibEnd \/ flushReceiver
  <2>1. <<>> \in Seq(Char)
    OBVIOUS
  <2> QED
    BY <1>0, <1>1, <1>3, <2>1 DEF SerialibEnd, flushReceiver
<1>4. ASSUME NEW f \in Fd, OtherFile(f)
      PROVE  LineInv'
  BY <1>0, <1>1, <1>4 DEF OtherFile
<1>5. ASSUME NEW t \in TimeOut, readChar(t)
      PROVE  LineInv'
  BY <1>5, CallStarts DEF readChar
<1>6. ASSUME NEW max \in 1 .. MaxNbBytes, NEW t \in TimeOut, readString(max, t)
      PROVE  LineInv'
  BY <1>6, CallStarts DEF readString
<1>7. ASSUME NEW max \in 1 .. MaxNbBytes, NEW t \in TimeOut, readBytes(max, t)
      PROVE  LineInv'
  BY <1>7, CallStarts DEF readBytes
<1>8. CASE HeadOfLoop
  <2>1. InCall /\ CallForm /\ serial_call.name = "readString" /\ stored' = stored /\ input' = input
    BY <1>8 DEF HeadOfLoop, LineInv, CallForm
  <2>2. CASE Return(-3)
    BY <2>1, <2>2, CallEnds
  <2>3. CASE ~Return(-3)
    <3>1. /\ DOMAIN serial_call' = DOMAIN serial_call
          /\ serial_call'.name = serial_call.name /\ serial_call'.max = serial_call.max
      BY <1>8, <2>1, <2>3 DEF HeadOfLoop, CallForm
    <3> QED
      BY <1>0, <2>1, <3>1, CallGoesOn
  <2> QED
    BY <2>2, <2>3
<1>9. CASE CheckTime
  <2>1. InCall /\ CallForm /\ serial_call.name = "readString" /\ stored' = stored /\ input' = input
    BY <1>9 DEF CheckTime, LineInv, CallForm
  <2>2. CASE Return(0)
    BY <2>1, <2>2, CallEnds
  <2>3. CASE serial_call' = [serial_call EXCEPT !.at = "head"]
    BY <1>0, <2>1, <2>3, CallGoesOn DEF CallForm
  <2> QED
    BY <1>9, <2>2, <2>3 DEF CheckTime
<1>10. CASE GiveUp
  <2>1. InCall /\ CallForm /\ stored' = stored /\ input' = input
    BY <1>10 DEF GiveUp, LineInv
  <2>2. CASE serial_call.name = "readString"
    <3>1. serial_call' = [serial_call EXCEPT !.at = "check"]
      BY <1>10, <2>2 DEF GiveUp
    <3> QED
      BY <1>0, <2>1, <2>2, <3>1, CallGoesOn DEF CallForm
  <2>3. CASE serial_call.name # "readString"
    <3>1. PICK ret : Return(ret)
      BY <1>10, <2>3 DEF GiveUp
    <3> QED
      BY <2>1, <2>3, <3>1, CallEnds
  <2> QED
    BY <2>2, <2>3
<1>11. CASE ReadFails
  <2>1. InCall /\ CallForm /\ stored' = stored /\ input' = input
    BY <1>11 DEF ReadFails, Waiting, LineInv
  <2>2. CASE serial_call.name = "readString" /\ ~charSigned
    <3>1. serial_call' = [serial_call EXCEPT !.at = "check"]
      BY <1>11, <2>2 DEF ReadFails
    <3> QED
      BY <1>0, <2>1, <2>2, <3>1, CallGoesOn DEF CallForm
  <2>3. CASE ~(serial_call.name = "readString" /\ ~charSigned)
    <3>1. PICK ret \in {254, -2} :
            Return(ret) /\ (serial_call.name = "readString" => ret = -2)
      BY <1>11, <2>3 DEF ReadFails
    <3> QED
      BY <2>1, <3>1, CallEnds
  <2> QED
    BY <2>2, <2>3
<1>12. CASE ReadGives
  BY <1>12, GivesKeepsLine
<1>13. ASSUME NEW name \in {"read", "peek"}, NEW t \in TimeOut, ImplStart(name, t)
       PROVE  LineInv'
  BY <1>13, CallStarts DEF ImplStart
<1>14. CASE ImplDone \/ ImplReadPeeked
  BY <1>0, <1>1, <1>14 DEF ImplDone, ImplReadPeeked
<1>15. ASSUME NEW c \in Char, Arrive(c)
       PROVE  LineInv'
  BY <1>0, <1>1, <1>15 DEF Arrive
<1>16. CASE Unplug
  BY <1>0, <1>1, <1>16 DEF Unplug
<1>17. CASE Tick \/ SetClockBack
  <2>1. InCall /\ CallForm /\ stored' = stored /\ input' = input
    BY <1>17 DEF Tick, SetClockBack, LineInv
  <2>2. /\ DOMAIN serial_call' = DOMAIN serial_call
        /\ serial_call'.name = serial_call.name /\ serial_call'.max = serial_call.max
        /\ serial_call'.at = serial_call.at
    BY <1>17, <2>1 DEF Tick, SetClockBack, CallForm
  <2> QED
    BY <1>0, <2>1, <2>2, CallGoesOn DEF CallForm
<1>18. CASE UNCHANGED serialibVars
  BY <1>0, <1>1, <1>18 DEF serialibVars
<1> QED
  BY <1>2, <1>3, <1>4, <1>5, <1>6, <1>7, <1>8, <1>9, <1>10, <1>11, <1>12, <1>13, <1>14,
     <1>15, <1>16, <1>17, <1>18
  DEF SerialibNext, Loop

(* A result above 0 of readString() is the length of a line, with the      *)
(* final char at its end and nowhere else, and no line is cut: in every    *)
(* order of the bytes, the time-outs, the errors and the clock.            *)
THEOREM LineIsWhole == SerialibSpec => []ReadsOneLine
<1>1. LineInv => ReadsOneLine
  BY DEF LineInv
<1> QED
  BY <1>1, InitLineInv, StepLineInv, PTL DEF SerialibSpec

(***************************************************************************)
(* serialib, where char is signed: a readString() in progress has not      *)
(* failed, because -2 ends it.                                             *)
(***************************************************************************)
ErrorInv ==
  charSigned => /\ InCall /\ serial_call.name = "readString" => ~failed
                /\ ReadErrorReported

LEMMA InitErrorInv == SerialibInit => ErrorInv
BY DEF SerialibInit, ErrorInv, InCall, ReadErrorReported

(* Nothing fails, and a call goes on or ends. *)
LEMMA NothingFails ==
  ASSUME ErrorInv, InCall, UNCHANGED <<charSigned, failed>>,
         \/ serial_call'.name = serial_call.name
         \/ \E ret : Return(ret)
  PROVE  ErrorInv'
<1>1. CASE serial_call'.name = serial_call.name
  BY <1>1 DEF ErrorInv, InCall, ReadErrorReported
<1>2. ASSUME NEW ret, Return(ret)
      PROVE  ErrorInv'
  <2>1. ~InCall' /\ serial_call'.of = serial_call.name
    BY <1>2 DEF Return, InCall
  <2> QED
    BY <2>1 DEF ErrorInv, ReadErrorReported
<1> QED
  BY <1>1, <1>2

LEMMA StepErrorInv == LineInv /\ ErrorInv /\ [SerialibNext]_serialibVars => ErrorInv'
<1> SUFFICES ASSUME LineInv, ErrorInv, [SerialibNext]_serialibVars
             PROVE  ErrorInv'
  OBVIOUS
<1>1. ASSUME UNCHANGED <<charSigned, serial_call, failed>>
      PROVE  ErrorInv'
  BY <1>1 DEF ErrorInv, InCall, ReadErrorReported
<1>2. ASSUME NEW name, NEW max, NEW t, Start(name, max, t), UNCHANGED charSigned
      PROVE  ErrorInv'
  <2>1. serial_call'.name = name /\ ~failed'
    BY <1>2 DEF Start
  <2> QED
    BY <2>1 DEF ErrorInv, ReadErrorReported
<1>3. ASSUME NEW opens \in BOOLEAN, NEW known \in BOOLEAN, SerialibBegin(opens, known)
      PROVE  ErrorInv'
  BY <1>1, <1>3 DEF SerialibBegin, build
<1>4. CASE SerialibEnd \/ flushReceiver
  BY <1>1, <1>4 DEF SerialibEnd, flushReceiver, build
<1>5. ASSUME NEW f \in Fd, OtherFile(f)
      PROVE  ErrorInv'
  BY <1>1, <1>5 DEF OtherFile, build
<1>6. ASSUME NEW t \in TimeOut, readChar(t)
      PROVE  ErrorInv'
  BY <1>2, <1>6 DEF readChar, build
<1>7. ASSUME NEW max \in 1 .. MaxNbBytes, NEW t \in TimeOut, readString(max, t) \/ readBytes(max, t)
      PROVE  ErrorInv'
  BY <1>2, <1>7 DEF readString, readBytes, build
<1>8. CASE HeadOfLoop
  <2>1. InCall /\ CallForm /\ UNCHANGED <<charSigned, failed>>
    BY <1>8 DEF HeadOfLoop, LineInv, build
  <2>2. serial_call'.name = serial_call.name \/ Return(-3)
    BY <1>8, <2>1 DEF HeadOfLoop, CallForm
  <2> QED
    BY <2>1, <2>2, NothingFails
<1>9. CASE CheckTime
  <2>1. InCall /\ CallForm /\ UNCHANGED <<charSigned, failed>>
    BY <1>9 DEF CheckTime, LineInv, build
  <2>2. serial_call'.name = serial_call.name \/ Return(0)
    BY <1>9, <2>1 DEF CheckTime, CallForm
  <2> QED
    BY <2>1, <2>2, NothingFails
<1>10. CASE GiveUp
  <2>1. InCall /\ CallForm /\ UNCHANGED <<charSigned, failed>>
    BY <1>10 DEF GiveUp, LineInv, build
  <2>2. serial_call'.name = serial_call.name \/ \E ret : Return(ret)
    BY <1>10, <2>1 DEF GiveUp, CallForm
  <2> QED
    BY <2>1, <2>2, NothingFails
<1>11. CASE ReadFails
  <2> SUFFICES ASSUME charSigned'
               PROVE  /\ ~InCall'
                      /\ serial_call'.of = "readString" => serial_call'.ret = -2
    BY DEF ErrorInv, ReadErrorReported
  <2>1. InCall /\ charSigned
    BY <1>11 DEF ReadFails, Waiting, build
  <2>2. serial_call' = [name |-> "none", of |-> serial_call.name, ret |-> -2]
    BY <1>11, <2>1 DEF ReadFails, Return
  <2> QED
    BY <2>2 DEF InCall
<1>12. CASE ReadGives
  <2>1. InCall /\ CallForm /\ UNCHANGED <<charSigned, failed>>
    BY <1>12 DEF ReadGives, Waiting, LineInv, build
  <2>2. serial_call'.name = serial_call.name \/ \E ret : Return(ret)
    BY <1>12, <2>1 DEF ReadGives, AfterChar, CallForm
  <2> QED
    BY <2>1, <2>2, NothingFails
<1>13. ASSUME NEW name \in {"read", "peek"}, NEW t \in TimeOut, ImplStart(name, t)
       PROVE  ErrorInv'
  BY <1>2, <1>13 DEF ImplStart, build
<1>14. CASE ImplDone \/ ImplReadPeeked
  BY <1>1, <1>14 DEF ImplDone, ImplReadPeeked, build
<1>15. ASSUME NEW c \in Char, Arrive(c)
       PROVE  ErrorInv'
  BY <1>1, <1>15 DEF Arrive, build
<1>16. CASE Unplug
  BY <1>1, <1>16 DEF Unplug, build
<1>17. CASE Tick \/ SetClockBack
  <2>1. InCall /\ CallForm /\ UNCHANGED <<charSigned, failed>>
    BY <1>17 DEF Tick, SetClockBack, LineInv, build
  <2>2. serial_call'.name = serial_call.name
    BY <1>17, <2>1 DEF Tick, SetClockBack, CallForm
  <2> QED
    BY <2>1, <2>2, NothingFails
<1>18. CASE UNCHANGED serialibVars
  BY <1>1, <1>18 DEF serialibVars, build
<1> QED
  BY <1>3, <1>4, <1>5, <1>6, <1>7, <1>8, <1>9, <1>10, <1>11, <1>12, <1>13, <1>14, <1>15,
     <1>16, <1>17, <1>18
  DEF SerialibNext, Loop

(* Where char is signed, a readString() whose read() failed returns -2, as *)
(* serialib.cpp:436 says: in every order of the bytes, the time-outs, the  *)
(* errors and the clock.                                                   *)
THEOREM ErrorIsReported == SerialibSpec => []ReadErrorReported
<1>1. ErrorInv => ReadErrorReported
  BY DEF ErrorInv, ReadErrorReported
<1> QED
  BY <1>1, InitErrorInv, StepErrorInv, InitLineInv, StepLineInv, PTL DEF SerialibSpec
-----------------------------------------------------------------------------
(***************************************************************************)
(* HardwareService: what each part of the state is.                        *)
(***************************************************************************)
Request == [id : Nat, method : Method]
Byte == Nat \X Nat
Packet == Seq(Byte) \ {<<>>}  \* no datagram is empty
CallRecord ==
  [id : Nat, method : Method \cup {"none"}, receives : Seq(Nat), got : Seq(Byte),
   offset : Nat, quiet : BOOLEAN, short : BOOLEAN]

ServiceTypeOK ==
  /\ link \in Links
  /\ unsent \in Seq(Request) /\ wire \in Seq(Request)
  /\ back \in Seq(Packet) /\ rx \in Seq(Byte)
  /\ call \in CallRecord /\ result \in CallRecord
  /\ calls \in Nat /\ lost \in Nat
  /\ missed \in Nat /\ gone \in Nat

CallForms ==
  /\ call.receives = <<>> => call = Idle
  /\ call # Idle => call.receives # <<>> /\ call.offset \in 0 .. Head(call.receives)

(* Every answer byte is accounted for. *)
Outstanding == (Owed(unsent) + Owed(wire)) + (Held(back) + Len(rx))
Waited == Total(call.receives) - call.offset

Balance ==
  /\ Outstanding + gone = Waited + missed
  /\ link.transport = "tcp" => gone = 0

(* Of a call made while nothing was outstanding, as long as none of its    *)
(* receives gave up: its request is on its way and nothing else the board  *)
(* answers, or what it has got and what arrives next are the answer.       *)
Asked(c) ==
  {r \in Request : AnswerLength(r.method) > 0 => r.id = c.id /\ r.method = c.method}

Pending ==
  /\ call.got = <<>> /\ rx = <<>> /\ back = <<>>
  /\ unsent \in Seq(Asked(call)) /\ wire \in Seq(Asked(call))
  /\ Owed(unsent) + Owed(wire) = AnswerLength(call.method)

NextBytes == IF rx # <<>> THEN rx ELSE IF back # <<>> THEN Head(back) ELSE <<>>

Coming ==
  /\ Owed(unsent) = 0 /\ Owed(wire) = 0
  /\ Len(back) <= 1 /\ (rx # <<>> => back = <<>>)
  /\ IsAnswer(call.got \o NextBytes, call.id, call.method)

QuietInv ==
  call # Idle /\ call.quiet /\ ~call.short =>
    /\ AnswerLength(call.method) > 0
    /\ Outstanding <= Waited
    /\ Outstanding = Waited => Pending \/ Coming

ServiceInv ==
  ServiceTypeOK /\ CallForms /\ Balance /\ QuietInv /\ QuietCallIsAnswered
-----------------------------------------------------------------------------
(***************************************************************************)
(* Sums of sequences.                                                      *)
(***************************************************************************)
LEMMA LeastOfNats ==
  ASSUME NEW T, T \subseteq Nat, T # {}
  PROVE  \E n \in T : \A m \in T : n <= m
<1>1. IsWellFoundedOn(OpToRel(<, Nat), Nat)
  BY NatLessThanWellFounded
<1>2. PICK n \in T : \A m \in T : ~(<<m, n>> \in OpToRel(<, Nat))
  BY <1>1, WFMin
<1>3. \A m \in T : ~(m < n)
  BY <1>2 DEF OpToRel
<1> QED
  BY <1>3

(* A set with 0 and, below m, the successor of each of its members.        *)
LEMMA UpTo ==
  ASSUME NEW m \in Nat, NEW T, 0 \in T, \A n \in 0 .. m - 1 : n \in T => n + 1 \in T
  PROVE  0 .. m \subseteq T
<1> DEFINE U == {n \in 0 .. m : n \notin T}
<1>1. U = {}
  <2> SUFFICES ASSUME U # {}
               PROVE  FALSE
    OBVIOUS
  <2>1. U \subseteq Nat
    OBVIOUS
  <2>2. PICK n \in U : \A k \in U : n <= k
    BY <2>1, LeastOfNats
  <2>3. n \in 0 .. m /\ n \notin T /\ n # 0
    OBVIOUS
  <2>4. n - 1 \in 0 .. m - 1 /\ ~(n <= n - 1)
    BY <2>3
  <2>5. n - 1 \notin U
    BY <2>2, <2>4
  <2>6. n - 1 \in T
    BY <2>4, <2>5
  <2>7. n - 1 + 1 = n
    BY <2>3
  <2> QED
    BY <2>3, <2>4, <2>6, <2>7
<1> QED
  BY <1>1

Partial(s) == CHOOSE f : f = [n \in 0 .. Len(s) |-> IF n = 0 THEN 0 ELSE f[n - 1] + s[n]]

LEMMA PartialExists ==
  ASSUME NEW s \in Seq(Nat)
  PROVE  Partial(s) = [n \in 0 .. Len(s) |-> IF n = 0 THEN 0 ELSE Partial(s)[n - 1] + s[n]]
<1> DEFINE Solves(f, m) == f = [n \in 0 .. m |-> IF n = 0 THEN 0 ELSE f[n - 1] + s[n]]
           T == {m \in Nat : \E f : Solves(f, m)}
<1>1. Len(s) \in Nat
  OBVIOUS
<1>2. 0 \in T
  <2> DEFINE f == [n \in 0 .. 0 |-> 0]
  <2>1. Solves(f, 0)
    OBVIOUS
  <2> QED
    BY <2>1
<1>3. ASSUME NEW m \in 0 .. Len(s) - 1, m \in T
      PROVE  m + 1 \in T
  <2>1. PICK f : Solves(f, m)
    BY <1>3
  <2>2. m \in Nat /\ m + 1 \in Nat
    BY <1>1
  <2> DEFINE g == [n \in 0 .. m + 1 |-> IF n = 0 THEN 0 ELSE f[n - 1] + s[n]]
             h == [n \in 0 .. m + 1 |-> IF n = 0 THEN 0 ELSE g[n - 1] + s[n]]
  <2>3. \A n \in 0 .. m : g[n] = f[n]
    BY <2>1, <2>2
  <2>4. ASSUME NEW n \in 0 .. m + 1
        PROVE  g[n] = h[n]
    <3>1. CASE n = 0
      BY <2>2, <3>1
    <3>2. CASE n # 0
      <4>1. n - 1 \in 0 .. m
        BY <2>2, <3>2
      <4>2. g[n - 1] = f[n - 1]
        BY <2>3, <4>1
      <4> QED
        BY <3>2, <4>2
    <3> QED
      BY <3>1, <3>2
  <2>5. g = h
    BY <2>4
  <2>6. Solves(g, m + 1)
    BY <2>5
  <2> QED
    BY <2>2, <2>6
<1>4. 0 .. Len(s) \subseteq T
  <2> HIDE DEF T
  <2> QED
    BY <1>1, <1>2, <1>3, UpTo
<1>5. \E f : Solves(f, Len(s))
  BY <1>1, <1>4
<1> QED
  BY <1>5 DEF Partial

LEMMA PartialSums ==
  ASSUME NEW s \in Seq(Nat)
  PROVE  /\ Total(s) = Partial(s)[Len(s)]
         /\ Partial(s)[0] = 0
         /\ \A n \in 1 .. Len(s) : Partial(s)[n] = Partial(s)[n - 1] + s[n]
         /\ \A n \in 0 .. Len(s) : Partial(s)[n] \in Nat
<1> DEFINE P == Partial(s)
           m == Len(s)
<1>1. m \in Nat /\ \A n \in 1 .. m : s[n] \in Nat
  OBVIOUS
<1>2. Total(s) = P[m]
  BY DEF Total, Partial
<1>3. P = [n \in 0 .. m |-> IF n = 0 THEN 0 ELSE P[n - 1] + s[n]]
  BY PartialExists
<1> HIDE DEF P, m
<1>4. P[0] = 0
  BY <1>1, <1>3
<1>5. ASSUME NEW n \in 1 .. m
      PROVE  P[n] = P[n - 1] + s[n]
  <2>1. n \in 0 .. m /\ n # 0
    BY <1>1
  <2> QED
    BY <1>3, <2>1
<1>6. \A n \in 0 .. m : P[n] \in Nat
  <2> DEFINE T == {n \in 0 .. m : P[n] \in Nat}
  <2>1. 0 \in T
    BY <1>1, <1>4
  <2>2. ASSUME NEW n \in 0 .. m - 1, n \in T
        PROVE  n + 1 \in T
    <3>1. n + 1 \in 1 .. m /\ n + 1 \in 0 .. m /\ n + 1 - 1 = n
      BY <1>1
    <3>2. P[n + 1] = P[n] + s[n + 1]
      BY <1>5, <3>1
    <3>3. P[n] \in Nat /\ s[n + 1] \in Nat
      BY <1>1, <2>2, <3>1
    <3> QED
      BY <3>1, <3>2, <3>3
  <2>3. 0 .. m \subseteq T
    <3> HIDE DEF T
    <3> QED
      BY <1>1, <2>1, <2>2, UpTo
  <2> QED
    BY <2>3
<1> QED
  BY <1>2, <1>4, <1>5, <1>6 DEF P, m

LEMMA TotalEmpty == Total(<<>>) = 0
<1>1. <<>> \in Seq(Nat) /\ Len(<<>>) = 0
  OBVIOUS
<1> QED
  BY <1>1, PartialSums

LEMMA TotalIsNat ==
  ASSUME NEW s \in Seq(Nat)
  PROVE  Total(s) \in Nat
<1>1. Len(s) \in 0 .. Len(s)
  OBVIOUS
<1> QED
  BY <1>1, PartialSums

LEMMA TotalOne ==
  ASSUME NEW n \in Nat
  PROVE  Total(<<n>>) = n
<1>1. ASSUME NEW s \in Seq(Nat), Len(s) = 1
      PROVE  Total(s) = s[1]
  <2>1. \A i \in 1 .. Len(s) : s[i] \in Nat
    OBVIOUS
  <2>2. 1 \in 1 .. Len(s) /\ 1 - 1 = 0
    BY <1>1
  <2>3. s[1] \in Nat
    BY <2>1, <2>2
  <2> QED
    BY <1>1, <2>2, <2>3, PartialSums
<1>2. <<n>> \in Seq(Nat) /\ Len(<<n>>) = 1 /\ <<n>>[1] = n
  OBVIOUS
<1> QED
  BY <1>1, <1>2

(* The sum of a sequence is that of its parts. *)
LEMMA TotalJoin ==
  ASSUME NEW r \in Seq(Nat), NEW s \in Seq(Nat)
  PROVE  Total(r \o s) = Total(r) + Total(s)
<1> DEFINE m == Len(r)
           n == Len(s)
           A == Partial(r)
           B == Partial(s)
           C == Partial(r \o s)
           t == r \o s
<1>1. t \in Seq(Nat) /\ Len(t) = m + n /\ m \in Nat /\ n \in Nat
  OBVIOUS
<1>2. /\ \A i \in 1 .. m : t[i] = r[i]
      /\ \A i \in 1 .. n : t[m + i] = s[i]
  OBVIOUS
<1>3. /\ Total(r) = A[m] /\ A[0] = 0
      /\ \A i \in 1 .. m : A[i] = A[i - 1] + r[i]
      /\ \A i \in 0 .. m : A[i] \in Nat
  BY PartialSums
<1>4. /\ Total(s) = B[n] /\ B[0] = 0
      /\ \A i \in 1 .. n : B[i] = B[i - 1] + s[i]
      /\ \A i \in 0 .. n : B[i] \in Nat
  BY PartialSums
<1>5. /\ Total(t) = C[m + n] /\ C[0] = 0
      /\ \A i \in 1 .. m + n : C[i] = C[i - 1] + t[i]
      /\ \A i \in 0 .. m + n : C[i] \in Nat
  BY <1>1, PartialSums
<1>6. (\A i \in 1 .. m : r[i] \in Nat) /\ (\A i \in 1 .. n : s[i] \in Nat)
  OBVIOUS
<1>7. Total(r \o s) = Total(t)
  OBVIOUS
<1> HIDE DEF m, n, A, B, C, t
<1>8. \A i \in 0 .. m : C[i] = A[i]
  <2> DEFINE T == {i \in 0 .. m : C[i] = A[i]}
  <2>1. 0 \in T
    BY <1>1, <1>3, <1>5
  <2>2. ASSUME NEW i \in 0 .. m - 1, i \in T
        PROVE  i + 1 \in T
    <3>1. i + 1 \in 1 .. m /\ i + 1 \in 1 .. m + n /\ i + 1 \in 0 .. m /\ i + 1 - 1 = i
      BY <1>1
    <3>2. A[i + 1] = A[i] + r[i + 1] /\ C[i + 1] = C[i] + t[i + 1]
      BY <1>3, <1>5, <3>1
    <3>3. C[i] = A[i] /\ t[i + 1] = r[i + 1]
      BY <1>2, <2>2, <3>1
    <3> QED
      BY <3>1, <3>2, <3>3
  <2> HIDE DEF T
  <2>3. 0 .. m \subseteq T
    BY <1>1, <2>1, <2>2, UpTo
  <2> QED
    BY <2>3 DEF T
<1>9. \A i \in 0 .. n : C[m + i] = A[m] + B[i]
  <2> DEFINE T == {i \in 0 .. n : C[m + i] = A[m] + B[i]}
  <2>0. A[m] \in Nat
    BY <1>1, <1>3
  <2>1. 0 \in T
    <3>1. C[m] = A[m] /\ m + 0 = m /\ 0 \in 0 .. n
      BY <1>1, <1>8
    <3> QED
      BY <1>4, <2>0, <3>1
  <2>2. ASSUME NEW i \in 0 .. n - 1, i \in T
        PROVE  i + 1 \in T
    <3> DEFINE k == m + (i + 1)
    <3>1. /\ i + 1 \in 1 .. n /\ i + 1 \in 0 .. n /\ i + 1 - 1 = i /\ i \in 0 .. n
          /\ k \in 1 .. m + n /\ k - 1 = m + i
      BY <1>1
    <3>2. t[k] = s[i + 1]
      BY <1>2, <3>1
    <3> HIDE DEF k
    <3>3. B[i + 1] = B[i] + s[i + 1] /\ C[k] = C[m + i] + t[k]
      BY <1>4, <1>5, <3>1
    <3>4. C[m + i] = A[m] + B[i]
      BY <2>2
    <3>5. B[i] \in Nat /\ s[i + 1] \in Nat
      BY <1>4, <1>6, <3>1
    <3>6. C[k] = A[m] + B[i + 1]
      BY <2>0, <3>2, <3>3, <3>4, <3>5
    <3> QED
      BY <3>1, <3>6 DEF k
  <2> HIDE DEF T
  <2>3. 0 .. n \subseteq T
    BY <1>1, <2>1, <2>2, UpTo
  <2> QED
    BY <2>3 DEF T
<1>10. C[m + n] = A[m] + B[n]
  BY <1>1, <1>9
<1> QED
  BY <1>3, <1>4, <1>5, <1>7, <1>10

LEMMA FirstAndRest ==
  ASSUME NEW X, NEW s \in Seq(X), s # <<>>
  PROVE  Head(s) \in X /\ Tail(s) \in Seq(X) /\ s = <<Head(s)>> \o Tail(s)
OBVIOUS

LEMMA TotalRest ==
  ASSUME NEW s \in Seq(Nat), s # <<>>
  PROVE  Total(Tail(s)) = Total(s) - Head(s)
<1>1. Head(s) \in Nat /\ Tail(s) \in Seq(Nat) /\ s = <<Head(s)>> \o Tail(s)
  BY FirstAndRest
<1>2. Total(s) = Total(<<Head(s)>>) + Total(Tail(s))
  <2>1. <<Head(s)>> \in Seq(Nat)
    BY <1>1
  <2> QED
    BY <1>1, <2>1, TotalJoin
<1>3. Total(Tail(s)) \in Nat
  BY <1>1, TotalIsNat
<1> QED
  BY <1>1, <1>2, <1>3, TotalOne

(* If a sum is 0, so is every part of it. *)
LEMMA PartOfTotal ==
  ASSUME NEW s \in Seq(Nat), NEW i \in DOMAIN s
  PROVE  s[i] <= Total(s)
<1> DEFINE m == Len(s)
           P == Partial(s)
           T == {n \in 0 .. m : n >= i => s[i] <= P[n]}
<1>1. m \in Nat /\ i \in 1 .. m /\ \A n \in 1 .. m : s[n] \in Nat
  OBVIOUS
<1>2. /\ Total(s) = P[m] /\ P[0] = 0
      /\ \A n \in 1 .. m : P[n] = P[n - 1] + s[n]
      /\ \A n \in 0 .. m : P[n] \in Nat
  BY PartialSums
<1> HIDE DEF m, P
<1>3. 0 \in T
  BY <1>1
<1>4. ASSUME NEW n \in 0 .. m - 1, n \in T
      PROVE  n + 1 \in T
  <2>1. n + 1 \in 1 .. m /\ n + 1 \in 0 .. m /\ n \in 0 .. m /\ n + 1 - 1 = n
    BY <1>1
  <2>2. P[n + 1] = P[n] + s[n + 1]
    BY <1>2, <2>1
  <2>3. P[n] \in Nat /\ s[n + 1] \in Nat /\ s[i] \in Nat
    BY <1>1, <1>2, <2>1
  <2>4. CASE n >= i
    BY <1>4, <2>1, <2>2, <2>3, <2>4
  <2>5. CASE n + 1 = i
    BY <2>1, <2>2, <2>3, <2>5
  <2>6. CASE ~(n + 1 >= i)
    BY <2>1, <2>6
  <2> QED
    BY <1>1, <2>1, <2>4, <2>5, <2>6
<1> HIDE DEF T
<1>5. 0 .. m \subseteq T
  BY <1>1, <1>3, <1>4, UpTo
<1> QED
  BY <1>1, <1>2, <1>5 DEF T

(* Sums over a sequence of a weight of its elements. *)
Weights(W, q) == [i \in DOMAIN q |-> W[q[i]]]

LEMMA WeightsAreNats ==
  ASSUME NEW X, NEW W \in [X -> Nat], NEW q \in Seq(X)
  PROVE  Weights(W, q) \in Seq(Nat) /\ Len(Weights(W, q)) = Len(q)
<1>1. DOMAIN q = 1 .. Len(q) /\ Len(q) \in Nat /\ \A i \in 1 .. Len(q) : q[i] \in X
  OBVIOUS
<1>2. Weights(W, q) \in [1 .. Len(q) -> Nat]
  BY <1>1 DEF Weights
<1> QED
  BY <1>1, <1>2

LEMMA WeightsOfJoin ==
  ASSUME NEW X, NEW W \in [X -> Nat], NEW q \in Seq(X), NEW r \in Seq(X)
  PROVE  Weights(W, q \o r) = Weights(W, q) \o Weights(W, r)
<1> DEFINE m == Len(q)
           n == Len(r)
           a == Weights(W, q)
           b == Weights(W, r)
           c == Weights(W, q \o r)
<1>1. m \in Nat /\ n \in Nat /\ q \o r \in Seq(X) /\ Len(q \o r) = m + n
  OBVIOUS
<1>2. /\ a \in Seq(Nat) /\ b \in Seq(Nat) /\ c \in Seq(Nat)
      /\ Len(a) = m /\ Len(b) = n /\ Len(c) = m + n
  BY <1>1, WeightsAreNats
<1>3. /\ \A i \in 1 .. m : a[i] = W[q[i]]
      /\ \A i \in 1 .. n : b[i] = W[r[i]]
      /\ \A i \in 1 .. m + n : c[i] = W[(q \o r)[i]]
  BY <1>1 DEF Weights
<1>4. /\ \A i \in 1 .. m : (q \o r)[i] = q[i]
      /\ \A i \in 1 .. m + n : i > m => i - m \in 1 .. n /\ (q \o r)[i] = r[i - m]
  OBVIOUS
<1> HIDE DEF m, n, a, b, c
<1>5. /\ a \o b \in Seq(Nat) /\ Len(a \o b) = m + n
      /\ \A i \in 1 .. m : (a \o b)[i] = a[i]
      /\ \A i \in 1 .. m + n : i > m => (a \o b)[i] = b[i - m]
  BY <1>1, <1>2
<1>6. m \in Nat /\ n \in Nat
  BY <1>1
<1> DEFINE t == a \o b
<1>7. /\ t \in Seq(Nat) /\ Len(t) = m + n
      /\ \A i \in 1 .. m : t[i] = a[i]
      /\ \A i \in 1 .. m + n : i > m => t[i] = b[i - m]
  BY <1>5
<1> HIDE DEF t
<1>8. ASSUME NEW i \in 1 .. m + n
      PROVE  c[i] = t[i]
  <2>1. CASE i \in 1 .. m
    <3>1. c[i] = W[(q \o r)[i]] /\ (q \o r)[i] = q[i] /\ a[i] = W[q[i]] /\ t[i] = a[i]
      BY <1>3, <1>4, <1>7, <2>1
    <3> QED
      BY <3>1
  <2>2. CASE i > m
    <3>1. i - m \in 1 .. n /\ (q \o r)[i] = r[i - m]
      BY <1>4, <2>2
    <3>2. c[i] = W[(q \o r)[i]] /\ b[i - m] = W[r[i - m]] /\ t[i] = b[i - m]
      BY <1>3, <1>7, <2>2, <3>1
    <3> QED
      BY <3>1, <3>2
  <2> QED
    BY <1>6, <2>1, <2>2
<1>9. c = t
  BY <1>2, <1>6, <1>7, <1>8
<1> QED
  BY <1>9 DEF a, b, c, t

LEMMA WeightOfJoin ==
  ASSUME NEW X, NEW W \in [X -> Nat], NEW q \in Seq(X), NEW r \in Seq(X)
  PROVE  /\ Total(Weights(W, q \o r)) = Total(Weights(W, q)) + Total(Weights(W, r))
         /\ Total(Weights(W, q)) \in Nat /\ Total(Weights(W, r)) \in Nat
<1>1. Weights(W, q) \in Seq(Nat) /\ Weights(W, r) \in Seq(Nat)
  BY WeightsAreNats
<1>2. Weights(W, q \o r) = Weights(W, q) \o Weights(W, r)
  BY WeightsOfJoin
<1> QED
  BY <1>1, <1>2, TotalJoin, TotalIsNat

LEMMA WeightOfFew ==
  ASSUME NEW X, NEW W \in [X -> Nat], NEW x \in X
  PROVE  Total(Weights(W, <<x>>)) = W[x] /\ Total(Weights(W, <<>>)) = 0
<1>1. Weights(W, <<x>>) = <<W[x]>>
  BY DEF Weights
<1>2. Weights(W, <<>>) = <<>>
  BY DEF Weights
<1> QED
  BY <1>1, <1>2, TotalOne, TotalEmpty

LEMMA WeightOfRest ==
  ASSUME NEW X, NEW W \in [X -> Nat], NEW q \in Seq(X), q # <<>>
  PROVE  Total(Weights(W, q)) = W[Head(q)] + Total(Weights(W, Tail(q)))
<1>1. Head(q) \in X /\ Tail(q) \in Seq(X) /\ q = <<Head(q)>> \o Tail(q)
  BY FirstAndRest
<1>2. <<Head(q)>> \in Seq(X)
  BY <1>1
<1>3. Total(Weights(W, <<Head(q)>> \o Tail(q)))
        = Total(Weights(W, <<Head(q)>>)) + Total(Weights(W, Tail(q)))
  BY <1>1, <1>2, WeightOfJoin
<1>4. Total(Weights(W, <<Head(q)>>)) = W[Head(q)]
  BY <1>1, WeightOfFew
<1> QED
  BY <1>1, <1>3, <1>4

LEMMA WeightOfPart ==
  ASSUME NEW X, NEW W \in [X -> Nat], NEW q \in Seq(X), NEW i \in DOMAIN q
  PROVE  W[q[i]] <= Total(Weights(W, q))
<1>1. Weights(W, q) \in Seq(Nat) /\ i \in DOMAIN Weights(W, q) /\ Weights(W, q)[i] = W[q[i]]
  BY WeightsAreNats DEF Weights
<1> QED
  BY <1>1, PartOfTotal
-----------------------------------------------------------------------------
(***************************************************************************)
(* What the board owes, and what the datagrams hold.                       *)
(***************************************************************************)
LEMMA LengthIsNat ==
  ASSUME NEW m
  PROVE  AnswerLength(m) \in Nat
BY DEF AnswerLength

LengthOf == [r \in Request |-> AnswerLength(r.method)]
SizeOf == [d \in Packet |-> Len(d)]

LEMMA OwedIsWeight ==
  ASSUME NEW q \in Seq(Request)
  PROVE  Owed(q) = Total(Weights(LengthOf, q)) /\ LengthOf \in [Request -> Nat]
<1>1. LengthOf \in [Request -> Nat]
  BY LengthIsNat DEF LengthOf
<1>2. \A i \in DOMAIN q : q[i] \in Request
  OBVIOUS
<1>3. [i \in DOMAIN q |-> AnswerLength(q[i].method)] = Weights(LengthOf, q)
  BY <1>2 DEF Weights, LengthOf
<1> QED
  BY <1>1, <1>3 DEF Owed

LEMMA OwedJoin ==
  ASSUME NEW q \in Seq(Request), NEW r \in Seq(Request)
  PROVE  Owed(q \o r) = Owed(q) + Owed(r) /\ Owed(q) \in Nat /\ Owed(r) \in Nat
<1>1. q \o r \in Seq(Request) /\ LengthOf \in [Request -> Nat]
  BY OwedIsWeight
<1>2. /\ Total(Weights(LengthOf, q \o r))
           = Total(Weights(LengthOf, q)) + Total(Weights(LengthOf, r))
      /\ Total(Weights(LengthOf, q)) \in Nat /\ Total(Weights(LengthOf, r)) \in Nat
  BY <1>1, WeightOfJoin
<1> QED
  BY <1>1, <1>2, OwedIsWeight

LEMMA OwedOne ==
  ASSUME NEW r \in Request
  PROVE  Owed(<<r>>) = AnswerLength(r.method)
<1>1. <<r>> \in Seq(Request) /\ LengthOf[r] = AnswerLength(r.method)
  BY DEF LengthOf
<1> QED
  BY <1>1, OwedIsWeight, WeightOfFew

LEMMA OwedFirst ==
  ASSUME NEW q \in Seq(Request), q # <<>>
  PROVE  Owed(q) = AnswerLength(Head(q).method) + Owed(Tail(q)) /\ Owed(Tail(q)) \in Nat
<1>1. Head(q) \in Request /\ Tail(q) \in Seq(Request)
  BY FirstAndRest
<1>2. LengthOf[Head(q)] = AnswerLength(Head(q).method)
  BY <1>1 DEF LengthOf
<1>3. Total(Weights(LengthOf, Tail(q))) \in Nat
  BY <1>1, OwedIsWeight, WeightsAreNats, TotalIsNat
<1> QED
  BY <1>1, <1>2, <1>3, OwedIsWeight, WeightOfRest

LEMMA OwedPart ==
  ASSUME NEW q \in Seq(Request), NEW i \in DOMAIN q
  PROVE  AnswerLength(q[i].method) <= Owed(q)
<1>1. q[i] \in Request
  OBVIOUS
<1>2. LengthOf[q[i]] = AnswerLength(q[i].method)
  BY <1>1 DEF LengthOf
<1> QED
  BY <1>2, OwedIsWeight, WeightOfPart

LEMMA HeldIsWeight ==
  ASSUME NEW b \in Seq(Packet)
  PROVE  Held(b) = Total(Weights(SizeOf, b)) /\ SizeOf \in [Packet -> Nat]
<1>1. SizeOf \in [Packet -> Nat]
  BY DEF SizeOf, Packet
<1>2. \A i \in DOMAIN b : b[i] \in Packet
  OBVIOUS
<1>3. [i \in DOMAIN b |-> Len(b[i])] = Weights(SizeOf, b)
  BY <1>2 DEF Weights, SizeOf
<1> QED
  BY <1>1, <1>3 DEF Held

LEMMA HeldIsNat ==
  ASSUME NEW b \in Seq(Packet)
  PROVE  Held(b) \in Nat
BY HeldIsWeight, WeightsAreNats, TotalIsNat

LEMMA HeldFirst ==
  ASSUME NEW b \in Seq(Packet), b # <<>>
  PROVE  /\ Held(b) = Len(Head(b)) + Held(Tail(b))
         /\ Len(Head(b)) \in Nat \ {0} /\ Held(Tail(b)) \in Nat
<1>1. Head(b) \in Packet /\ Tail(b) \in Seq(Packet)
  BY FirstAndRest
<1>2. SizeOf[Head(b)] = Len(Head(b)) /\ Len(Head(b)) \in Nat \ {0}
  BY <1>1 DEF SizeOf, Packet
<1>3. Held(b) = Len(Head(b)) + Held(Tail(b))
  BY <1>1, <1>2, HeldIsWeight, WeightOfRest
<1> QED
  BY <1>1, <1>2, <1>3, HeldIsNat

LEMMA HeldNothing ==
  ASSUME NEW b \in Seq(Packet)
  PROVE  Held(b) = 0 <=> b = <<>>
<1>1. CASE b = <<>>
  <2>1. [i \in DOMAIN <<>> |-> Len(<<>>[i])] = <<>>
    OBVIOUS
  <2> QED
    BY <1>1, <2>1, TotalEmpty DEF Held
<1>2. CASE b # <<>>
  BY <1>2, HeldFirst
<1> QED
  BY <1>1, <1>2

LEMMA HeldAppend ==
  ASSUME NEW b \in Seq(Packet), NEW d \in Packet
  PROVE  Held(Append(b, d)) = Held(b) + Len(d)
<1>1. <<d>> \in Seq(Packet) /\ Append(b, d) = b \o <<d>> /\ Append(b, d) \in Seq(Packet)
  OBVIOUS
<1>2. SizeOf[d] = Len(d)
  BY DEF SizeOf, Packet
<1>3. Total(Weights(SizeOf, b \o <<d>>))
        = Total(Weights(SizeOf, b)) + Total(Weights(SizeOf, <<d>>))
  BY <1>1, HeldIsWeight, WeightOfJoin
<1>4. Total(Weights(SizeOf, <<d>>)) = Len(d)
  BY <1>2, HeldIsWeight, WeightOfFew
<1> QED
  BY <1>1, <1>3, <1>4, HeldIsWeight

(* The receives of each method are as wide as the board's answer to it.    *)
Fits(m) ==
  /\ Sketch(m).flush \in BOOLEAN
  /\ \/ Sketch(m).receives = <<>> /\ AnswerLength(m) = 0
     \/ Sketch(m).receives = <<1>> /\ AnswerLength(m) = 1
     \/ Sketch(m).receives = <<2>> /\ AnswerLength(m) = 2
     \/ Sketch(m).receives = <<8>> /\ AnswerLength(m) = 8
     \/ Sketch(m).receives = <<1, 1>> /\ AnswerLength(m) = 2

LEMMA MethodTable ==
  ASSUME NEW m \in Method
  PROVE  Fits(m)
<1>1. CASE m \in DOMAIN RemoteGPIO
  <2>1. /\ m \in {"pinMode", "digitalWrite", "analogReference", "analogWrite", "tone",
                  "noTone", "analogWriteFrequency", "analogWriteResolution"}
           => /\ RemoteGPIO[m].receives = <<>> /\ RemoteGPIO[m].flush = TRUE
              /\ AnswerLength(m) = 0
        /\ m = "digitalRead" => /\ RemoteGPIO[m].receives = <<1>> /\ RemoteGPIO[m].flush = TRUE
                                /\ AnswerLength(m) = 1
        /\ m = "analogRead" => /\ RemoteGPIO[m].receives = <<2>> /\ RemoteGPIO[m].flush = TRUE
                               /\ AnswerLength(m) = 2
        /\ m \in {"pulseIn", "pulseInLong"}
           => /\ RemoteGPIO[m].receives = <<8>> /\ RemoteGPIO[m].flush = TRUE
              /\ AnswerLength(m) = 8
    BY DEF RemoteGPIO, Command, Query, AnswerLength
  <2>2. m \in {"pinMode", "digitalWrite", "analogReference", "analogWrite", "tone", "noTone",
               "analogWriteFrequency", "analogWriteResolution", "digitalRead", "analogRead",
               "pulseIn", "pulseInLong"}
    BY <1>1 DEF RemoteGPIO
  <2>3. Sketch(m) = RemoteGPIO[m]
    BY <1>1 DEF Sketch
  <2> QED
    BY <2>1, <2>2, <2>3 DEF Fits
<1>2. CASE m \in DOMAIN RemoteI2C
  <2>1. /\ m \in {"i2cBegin", "i2cEnd", "setClock", "beginTransmission"}
           => /\ RemoteI2C[m].receives = <<>> /\ RemoteI2C[m].flush = TRUE
              /\ AnswerLength(m) = 0
        /\ m \in {"endTransmission", "requestFrom"}
           => /\ RemoteI2C[m].receives = <<1>> /\ RemoteI2C[m].flush = FALSE
              /\ AnswerLength(m) = 1
        /\ m \in {"i2cWrite", "i2cAvailable", "i2cRead", "i2cPeek"}
           => /\ RemoteI2C[m].receives = <<2>> /\ RemoteI2C[m].flush = FALSE
              /\ AnswerLength(m) = 2
    BY DEF RemoteI2C, Command, UnflushedQuery, AnswerLength
  <2>2. m \in {"i2cBegin", "i2cEnd", "setClock", "beginTransmission", "endTransmission",
               "requestFrom", "i2cWrite", "i2cAvailable", "i2cRead", "i2cPeek"}
    BY <1>2 DEF RemoteI2C
  <2>3. m \notin DOMAIN RemoteGPIO
    BY <2>2 DEF RemoteGPIO
  <2>4. Sketch(m) = RemoteI2C[m]
    BY <1>2, <2>3 DEF Sketch
  <2> QED
    BY <2>1, <2>2, <2>4 DEF Fits
<1>3. CASE m \in DOMAIN RemoteSPI
  <2>1. /\ m \in {"spiBegin", "spiEnd", "usingInterrupt", "notUsingInterrupt",
                  "beginTransaction", "endTransaction", "attachInterrupt", "detachInterrupt"}
           => /\ RemoteSPI[m].receives = <<>> /\ RemoteSPI[m].flush = TRUE
              /\ AnswerLength(m) = 0
        /\ m = "transfer8" => /\ RemoteSPI[m].receives = <<1>> /\ RemoteSPI[m].flush = TRUE
                              /\ AnswerLength(m) = 1
        /\ m = "transfer16" => /\ RemoteSPI[m].receives = <<2>> /\ RemoteSPI[m].flush = TRUE
                               /\ AnswerLength(m) = 2
        /\ m = "transfer" => /\ RemoteSPI[m].receives = <<1, 1>> /\ RemoteSPI[m].flush = TRUE
                             /\ AnswerLength(m) = 2
    BY DEF RemoteSPI, Command, Query, AnswerLength
  <2>2. m \in {"spiBegin", "spiEnd", "usingInterrupt", "notUsingInterrupt",
               "beginTransaction", "endTransaction", "attachInterrupt", "detachInterrupt",
               "transfer8", "transfer16", "transfer"}
    BY <1>3 DEF RemoteSPI
  <2>3. m \notin DOMAIN RemoteGPIO /\ m \notin DOMAIN RemoteI2C
    BY <2>2 DEF RemoteGPIO, RemoteI2C
  <2>4. Sketch(m) = RemoteSPI[m]
    BY <2>3 DEF Sketch
  <2> QED
    BY <2>1, <2>2, <2>4 DEF Fits
<1> QED
  BY <1>1, <1>2, <1>3 DEF Method

LEMMA ReceivesFit ==
  ASSUME NEW m \in Method
  PROVE  /\ Sketch(m).flush \in BOOLEAN /\ Sketch(m).receives \in Seq(Nat)
         /\ Total(Sketch(m).receives) = AnswerLength(m)
         /\ Sketch(m).receives # <<>> => AnswerLength(m) > 0
<1>1. Fits(m)
  BY MethodTable
<1>3. /\ <<>> \in Seq(Nat) /\ <<1>> \in Seq(Nat) /\ <<2>> \in Seq(Nat) /\ <<8>> \in Seq(Nat)
      /\ <<1, 1>> \in Seq(Nat)
  OBVIOUS
<1>4. Total(<<>>) = 0 /\ Total(<<1>>) = 1 /\ Total(<<2>>) = 2 /\ Total(<<8>>) = 8
  BY TotalEmpty, TotalOne
<1>5. Total(<<1, 1>>) = 2
  <2>1. <<1, 1>> = <<1>> \o <<1>>
    OBVIOUS
  <2>2. Total(<<1>> \o <<1>>) = Total(<<1>>) + Total(<<1>>)
    BY <1>3, TotalJoin
  <2>3. Total(<<1, 1>>) = Total(<<1>>) + Total(<<1>>)
    BY <2>1, <2>2, Zenon
  <2> QED
    BY <1>4, <2>3
<1>6. CASE Sketch(m).receives = <<>> /\ AnswerLength(m) = 0
  BY <1>1, <1>3, <1>4, <1>6 DEF Fits
<1>7. CASE Sketch(m).receives = <<1, 1>> /\ AnswerLength(m) = 2
  BY <1>1, <1>3, <1>5, <1>7 DEF Fits
<1>8. ASSUME NEW w \in {1, 2, 8}, Sketch(m).receives = <<w>>, AnswerLength(m) = w
      PROVE  /\ Sketch(m).receives \in Seq(Nat) /\ Total(Sketch(m).receives) = AnswerLength(m)
             /\ AnswerLength(m) > 0
  BY <1>3, <1>4, <1>8
<1> QED
  BY <1>1, <1>6, <1>7, <1>8 DEF Fits

(* The numbers of a state. *)
AmountsOK ==
  /\ Owed(unsent) \in Nat /\ Owed(wire) \in Nat
  /\ Held(back) \in Nat /\ (Held(back) = 0 <=> back = <<>>)
  /\ Len(rx) \in Nat /\ (Len(rx) = 0 <=> rx = <<>>)
  /\ Total(call.receives) \in Nat /\ call.offset \in Nat
  /\ missed \in Nat /\ gone \in Nat
  /\ Outstanding \in Nat /\ Waited \in Int

LEMMA Amounts == ServiceTypeOK => AmountsOK /\ (Accounted <=> Balance)
<1> SUFFICES ASSUME ServiceTypeOK
             PROVE  AmountsOK /\ (Accounted <=> Balance)
  OBVIOUS
<1>1. unsent \in Seq(Request) /\ wire \in Seq(Request) /\ back \in Seq(Packet) /\ rx \in Seq(Byte)
  BY DEF ServiceTypeOK
<1>2. /\ Owed(unsent) \in Nat /\ Owed(wire) \in Nat
      /\ Owed(unsent \o wire) = Owed(unsent) + Owed(wire)
  BY <1>1, OwedJoin
<1>3. Held(back) \in Nat /\ (Held(back) = 0 <=> back = <<>>)
  BY <1>1, HeldIsNat, HeldNothing
<1>4. Len(rx) \in Nat /\ (Len(rx) = 0 <=> rx = <<>>)
  BY <1>1
<1>5. Total(call.receives) \in Nat /\ call.offset \in Nat
  <2>1. call.receives \in Seq(Nat) /\ call.offset \in Nat
    BY DEF ServiceTypeOK, CallRecord
  <2> QED
    BY <2>1, TotalIsNat
<1>6. missed \in Nat /\ gone \in Nat
  BY DEF ServiceTypeOK
<1>7. AmountsOK
  <2>1. Outstanding \in Nat /\ Waited \in Int
    BY <1>2, <1>3, <1>4, <1>5 DEF Outstanding, Waited
  <2> QED
    BY <1>2, <1>3, <1>4, <1>5, <1>6, <2>1 DEF AmountsOK
<1>8. Accounted <=> Balance
  BY <1>2, <1>3, <1>4, <1>5, <1>6 DEF Accounted, Balance, Arriving, Outstanding, Waited
<1> QED
  BY <1>7, <1>8

LEMMA NextAmounts == ServiceTypeOK' => AmountsOK' /\ (Accounted' <=> Balance')
BY Amounts, PTL

(* The balance of a step. *)
Level == Outstanding + gone = Waited + missed

LEMMA SumsLeft ==
  ASSUME NEW a \in Int, NEW b \in Int, NEW c \in Int, NEW d \in Int,
         a = b, c + b = a + d
  PROVE  c = d
OBVIOUS

LEMMA LevelGoesOn ==
  ASSUME AmountsOK, AmountsOK', Level,
         Outstanding' + gone' + Waited + missed
           = Outstanding + gone + Waited' + missed'
  PROVE  Level'
<1>1. Outstanding + gone = Waited + missed
  BY DEF Level
<1>2. /\ Outstanding \in Int /\ gone \in Int
      /\ Waited \in Int /\ missed \in Int
      /\ Outstanding' \in Int /\ gone' \in Int
      /\ Waited' \in Int /\ missed' \in Int
  BY DEF AmountsOK
<1>3. /\ Outstanding + gone \in Int /\ Waited + missed \in Int
      /\ Outstanding' + gone' \in Int /\ Waited' + missed' \in Int
  BY <1>2
<1>4. (Outstanding' + gone') + (Waited + missed) = (Outstanding + gone) + (Waited' + missed')
  BY <1>2
<1>5. Outstanding' + gone' = Waited' + missed'
  BY <1>1, <1>3, <1>4, SumsLeft
<1> QED
  BY <1>5 DEF Level

LEMMA BalanceGoesOn ==
  ASSUME AmountsOK, AmountsOK', Balance, link' = link,
         link.transport = "tcp" => gone' = gone,
         Outstanding' + gone' + Waited + missed
           = Outstanding + gone + Waited' + missed'
  PROVE  Balance'
<1>1. Level
  BY DEF Level, Balance
<1>2. Level'
  BY <1>1, LevelGoesOn
<1> QED
  BY <1>2 DEF Balance, Level

LEMMA ReadGoesOn ==
  ASSUME call \in CallRecord, NEW g \in Seq(Byte), NEW o \in Nat,
         call' = [call EXCEPT !.got = g, !.offset = o]
  PROVE  /\ call' \in CallRecord /\ call'.got = g /\ call'.offset = o
         /\ call'.receives = call.receives /\ call'.quiet = call.quiet
         /\ call'.short = call.short /\ call'.id = call.id /\ call'.method = call.method
BY DEF CallRecord

LEMMA FirstMoves ==
  ASSUME NEW X, NEW g \in Seq(X), NEW q \in Seq(X), q # <<>>
  PROVE  Append(g, Head(q)) \o Tail(q) = g \o q
OBVIOUS

LEMMA IdleForm ==
  /\ Idle \in CallRecord /\ Idle.receives = <<>> /\ Idle.offset = 0 /\ ~Idle.quiet
  /\ Total(Idle.receives) = 0
<1>1. Idle \in CallRecord /\ Idle.receives = <<>> /\ Idle.offset = 0 /\ ~Idle.quiet
  BY DEF Idle, CallRecord
<1> QED
  BY <1>1, TotalEmpty

LEMMA OwedEmpty == Owed(<<>>) = 0
<1>1. [i \in DOMAIN <<>> |-> AnswerLength(<<>>[i].method)] = <<>>
  OBVIOUS
<1> QED
  BY <1>1, TotalEmpty DEF Owed

LEMMA InitServiceInv == Init => ServiceInv
<1> SUFFICES ASSUME Init
             PROVE  ServiceInv
  OBVIOUS
<1>1. ServiceTypeOK /\ CallForms
  BY IdleForm DEF Init, ServiceTypeOK, CallForms
<1>2. Held(back) = 0 /\ Len(rx) = 0
  BY <1>1, Amounts DEF Init, AmountsOK
<1>3. Balance
  BY <1>2, OwedEmpty, IdleForm DEF Init, Balance, Outstanding, Waited
<1> QED
  BY <1>1, <1>3, IdleForm DEF Init, ServiceInv, QuietInv, QuietCallIsAnswered

(* Requests of which none is answered are nobody's. *)
LEMMA NothingOwed ==
  ASSUME NEW q \in Seq(Request), Owed(q) = 0, NEW c
  PROVE  q \in Seq(Asked(c))
<1>1. ASSUME NEW i \in DOMAIN q
      PROVE  q[i] \in Asked(c)
  <2>1. AnswerLength(q[i].method) <= 0 /\ AnswerLength(q[i].method) \in Nat /\ q[i] \in Request
    BY OwedPart, LengthIsNat
  <2> QED
    BY <2>1 DEF Asked
<1>2. DOMAIN q = 1 .. Len(q) /\ Len(q) \in Nat /\ q \in [1 .. Len(q) -> Asked(c)]
  BY <1>1
<1> QED
  BY <1>2

LEMMA OwedAppend ==
  ASSUME NEW q \in Seq(Request), NEW r \in Request
  PROVE  Append(q, r) \in Seq(Request) /\ Owed(Append(q, r)) = Owed(q) + AnswerLength(r.method)
<1>1. <<r>> \in Seq(Request) /\ Append(q, r) = q \o <<r>> /\ Append(q, r) \in Seq(Request)
  OBVIOUS
<1> QED
  BY <1>1, OwedJoin, OwedOne

(* A request is transmitted, or kept. *)
LEMMA TransmitKeeps ==
  ASSUME ServiceTypeOK, NEW r \in Request, NEW flushed \in BOOLEAN, Transmit(r, flushed)
  PROVE  /\ unsent' \in Seq(Request) /\ wire' \in Seq(Request)
         /\ Owed(unsent') + Owed(wire')
              = Owed(unsent) + Owed(wire) + AnswerLength(r.method)
         /\ \A c : unsent \in Seq(Asked(c)) /\ wire \in Seq(Asked(c)) /\ r \in Asked(c)
                     => unsent' \in Seq(Asked(c)) /\ wire' \in Seq(Asked(c))
<1>1. unsent \in Seq(Request) /\ wire \in Seq(Request)
  BY DEF ServiceTypeOK
<1>2. Owed(unsent) \in Nat /\ Owed(wire) \in Nat /\ AnswerLength(r.method) \in Nat
  BY <1>1, OwedJoin, LengthIsNat
<1>3. /\ Append(wire, r) \in Seq(Request) /\ Append(unsent, r) \in Seq(Request)
      /\ Owed(Append(wire, r)) = Owed(wire) + AnswerLength(r.method)
      /\ Owed(Append(unsent, r)) = Owed(unsent) + AnswerLength(r.method)
  BY <1>1, OwedAppend
<1>4. CASE link.transport = "tcp"
  <2>1. wire' = Append(wire, r) /\ UNCHANGED unsent
    BY <1>4 DEF Transmit
  <2> QED
    BY <1>1, <1>2, <1>3, <2>1
<1>5. CASE link.transport = "udp" /\ flushed
  <2>1. wire' = wire \o Append(unsent, r) /\ unsent' = <<>>
    BY <1>5 DEF Transmit
  <2>2. wire' \in Seq(Request) /\ Owed(wire') = Owed(wire) + Owed(unsent) + AnswerLength(r.method)
    <3>1. wire \o Append(unsent, r) \in Seq(Request)
      BY <1>1, <1>3
    <3>2. Owed(wire \o Append(unsent, r)) = Owed(wire) + Owed(Append(unsent, r))
      BY <1>1, <1>3, OwedJoin
    <3> QED
      BY <1>2, <1>3, <2>1, <3>1, <3>2
  <2>3. unsent' \in Seq(Request) /\ Owed(unsent') = 0
    BY <2>1, OwedEmpty
  <2> QED
    BY <1>1, <1>2, <1>5, <2>1, <2>2, <2>3
<1>6. CASE link.transport = "udp" /\ ~flushed
  <2>1. unsent' = Append(unsent, r) /\ UNCHANGED wire
    BY <1>6 DEF Transmit
  <2> QED
    BY <1>1, <1>2, <1>3, <2>1
<1> QED
  BY <1>4, <1>5, <1>6 DEF Transmit

LEMMA CallKeeps ==
  ASSUME ServiceInv, NEW m \in link.used, Call(m)
  PROVE  ServiceInv'
<1> DEFINE r == [id |-> calls', method |-> m]
           w == Sketch(m).receives
<1>1. /\ link \in Links /\ call = Idle /\ calls' = calls + 1 /\ Transmit(r, Sketch(m).flush)
      /\ UNCHANGED <<link, back, rx, result, lost, missed, gone>>
  BY DEF Call, ServiceInv, ServiceTypeOK
<1>2. m \in Method
  BY <1>1, LinksAssumption
<1>3. /\ Sketch(m).flush \in BOOLEAN /\ w \in Seq(Nat) /\ Total(w) = AnswerLength(m)
      /\ (w # <<>> => AnswerLength(m) > 0) /\ AnswerLength(m) \in Nat
  BY <1>2, ReceivesFit, LengthIsNat
<1>4. ServiceTypeOK /\ AmountsOK /\ CallForms /\ Balance /\ QuietCallIsAnswered
  BY Amounts DEF ServiceInv
<1>5. calls' \in Nat /\ r \in Request /\ r.id = calls' /\ r.method = m
  BY <1>1, <1>2, <1>4 DEF ServiceTypeOK, Request
<1>6. call' = IF w = <<>> THEN Idle
              ELSE [id |-> calls', method |-> m, receives |-> w, got |-> <<>>, offset |-> 0,
                    quiet |-> Owed(unsent \o wire) + Arriving = 0, short |-> FALSE]
  BY DEF Call
<1> HIDE DEF r, w
<1>7. /\ unsent' \in Seq(Request) /\ wire' \in Seq(Request)
      /\ Owed(unsent') + Owed(wire') = Owed(unsent) + Owed(wire) + AnswerLength(m)
      /\ \A c : unsent \in Seq(Asked(c)) /\ wire \in Seq(Asked(c)) /\ r \in Asked(c)
                  => unsent' \in Seq(Asked(c)) /\ wire' \in Seq(Asked(c))
  BY <1>1, <1>3, <1>4, <1>5, TransmitKeeps
<1>8. call' \in CallRecord /\ call'.receives = w /\ call'.offset = 0
  BY <1>2, <1>3, <1>5, <1>6, IdleForm DEF CallRecord
<1>9. ServiceTypeOK'
  BY <1>1, <1>4, <1>5, <1>7, <1>8 DEF ServiceTypeOK
<1>10. CallForms'
  <2>1. w # <<>> => Head(w) \in Nat
    BY <1>3
  <2> QED
    BY <1>6, <1>8, <2>1 DEF CallForms
<1>11. AmountsOK'
  BY <1>9, NextAmounts
<1>12. Outstanding' = Outstanding + AnswerLength(m)
  <2> DEFINE o == Owed(unsent) + Owed(wire)
             p == Owed(unsent') + Owed(wire')
             h == Held(back) + Len(rx)
             n == AnswerLength(m)
  <2>1. o \in Int /\ h \in Int /\ n \in Int /\ p = o + n
    BY <1>3, <1>4, <1>7 DEF AmountsOK
  <2>2. Outstanding = o + h /\ Outstanding' = p + h
    BY <1>1, Zenon DEF Outstanding
  <2> HIDE DEF o, p, h, n
  <2>3. Outstanding' = Outstanding + n
    BY <2>1, <2>2
  <2> QED
    BY <2>3 DEF n
<1>13. Waited = 0 /\ Waited' = AnswerLength(m)
  BY <1>1, <1>3, <1>8, IdleForm DEF Waited
<1>14. Balance'
  <2>1. Outstanding' + gone' + Waited + missed = Outstanding + gone + Waited' + missed'
    <3>1. /\ Outstanding \in Int /\ gone \in Int /\ missed \in Int /\ Outstanding' \in Int
          /\ AnswerLength(m) \in Int
      BY <1>3, <1>4, <1>11 DEF AmountsOK
    <3> QED
      BY <1>1, <1>12, <1>13, <3>1
  <2>2. gone' = gone /\ link' = link
    BY <1>1
  <2> QED
    BY <1>4, <1>11, <2>1, <2>2, BalanceGoesOn
<1>15. QuietInv'
  <2> SUFFICES ASSUME call' # Idle, call'.quiet
               PROVE  /\ AnswerLength(call'.method) > 0 /\ Outstanding' <= Waited'
                      /\ Pending'
    BY DEF QuietInv
  <2>1. /\ w # <<>> /\ call'.method = m /\ call'.id = calls' /\ call'.got = <<>>
        /\ Owed(unsent \o wire) + Arriving = 0
    BY <1>6
  <2>2. Owed(unsent) = 0 /\ Owed(wire) = 0 /\ Held(back) = 0 /\ Len(rx) = 0
    <3>1. Owed(unsent \o wire) = Owed(unsent) + Owed(wire)
      BY <1>4, OwedJoin DEF ServiceTypeOK
    <3> QED
      BY <1>4, <2>1, <3>1 DEF AmountsOK, Arriving
  <2>3. rx = <<>> /\ back = <<>> /\ rx' = <<>> /\ back' = <<>>
    BY <1>1, <1>4, <1>7, <2>2 DEF AmountsOK
  <2>4. unsent \in Seq(Asked(call')) /\ wire \in Seq(Asked(call')) /\ r \in Asked(call')
    BY <1>4, <1>5, <2>1, <2>2, NothingOwed DEF ServiceTypeOK, Asked
  <2>5. Pending'
    <3>1. Owed(unsent') + Owed(wire') = AnswerLength(m)
      BY <1>3, <1>7, <2>2
    <3> QED
      BY <1>7, <2>1, <2>3, <2>4, <3>1 DEF Pending
  <2>6. Outstanding' = AnswerLength(m)
    BY <1>3, <1>4, <1>7, <1>11, <2>2, <2>3 DEF AmountsOK, Outstanding
  <2> QED
    BY <1>3, <1>13, <2>1, <2>5, <2>6
<1>16. QuietCallIsAnswered'
  BY <1>1, <1>4 DEF QuietCallIsAnswered
<1> QED
  BY <1>9, <1>10, <1>14, <1>15, <1>16 DEF ServiceInv

(* What is waited for while the call goes on, its receives unchanged. *)
LEMMA ReadByteKeeps ==
  ASSUME ServiceInv, ReadByte
  PROVE  ServiceInv'
<1>1. ServiceTypeOK /\ AmountsOK /\ CallForms /\ Balance /\ QuietInv /\ QuietCallIsAnswered
  BY Amounts DEF ServiceInv
<1>2. /\ call # Idle /\ call.offset < Head(call.receives) /\ rx # <<>> /\ rx' = Tail(rx)
      /\ call' = [call EXCEPT !.got = Append(@, Head(rx)), !.offset = @ + 1]
      /\ UNCHANGED <<link, unsent, wire, back, result, calls, lost, missed, gone>>
  BY DEF ReadByte, Wanting, counts
<1>3. /\ call \in CallRecord /\ rx \in Seq(Byte) /\ call.got \in Seq(Byte)
      /\ call.offset \in Nat /\ call.receives \in Seq(Nat)
  BY <1>1 DEF ServiceTypeOK, CallRecord
<1>4. Head(rx) \in Byte /\ Tail(rx) \in Seq(Byte) /\ Len(Tail(rx)) = Len(rx) - 1
  BY <1>2, <1>3
<1>5. /\ call' \in CallRecord /\ call'.receives = call.receives
      /\ call'.offset = call.offset + 1 /\ call'.got = Append(call.got, Head(rx))
      /\ call'.quiet = call.quiet /\ call'.short = call.short
      /\ call'.id = call.id /\ call'.method = call.method
  <2>1. Append(call.got, Head(rx)) \in Seq(Byte) /\ call.offset + 1 \in Nat
    BY <1>3, <1>4
  <2>2. call' = [call EXCEPT !.got = Append(call.got, Head(rx)), !.offset = call.offset + 1]
    BY <1>2, <1>3 DEF CallRecord
  <2> QED
    BY <1>3, <2>1, <2>2, ReadGoesOn
<1>6. ServiceTypeOK'
  BY <1>1, <1>2, <1>4, <1>5 DEF ServiceTypeOK
<1>7. CallForms'
  <2>1. call.receives # <<>> /\ Head(call.receives) \in Nat
    BY <1>1, <1>2, <1>3 DEF CallForms
  <2>2. call.offset + 1 \in 0 .. Head(call.receives)
    BY <1>2, <1>3, <2>1
  <2> QED
    BY <1>5, <2>1, <2>2 DEF CallForms
<1>8. AmountsOK'
  BY <1>6, NextAmounts
<1>9. Outstanding' = Outstanding - 1 /\ Waited' = Waited - 1
  <2> DEFINE o == Owed(unsent) + Owed(wire)
             h == Held(back)
             n == Len(rx)
  <2>1. o \in Int /\ h \in Int /\ n \in Int
    BY <1>1 DEF AmountsOK
  <2>2. Len(rx') = n - 1
    BY <1>2, <1>4
  <2>3. Outstanding = o + (h + n) /\ Outstanding' = o + (h + (n - 1))
    BY <1>2, <2>2, Zenon DEF Outstanding
  <2>4. Total(call.receives) \in Int /\ call.offset \in Int
    BY <1>1 DEF AmountsOK
  <2>5. Waited' = Total(call.receives) - (call.offset + 1)
    BY <1>5, Zenon DEF Waited
  <2>6. Waited' = Waited - 1
    BY <2>4, <2>5 DEF Waited
  <2> HIDE DEF o, h, n
  <2> QED
    BY <2>1, <2>3, <2>6
<1>10. Balance'
  <2>1. /\ Outstanding' + gone' + Waited + missed
             = Outstanding + gone + Waited' + missed'
    BY <1>1, <1>2, <1>8, <1>9 DEF AmountsOK
  <2> QED
    BY <1>1, <1>2, <1>8, <2>1, BalanceGoesOn
<1>11. QuietInv'
  <2> SUFFICES ASSUME call.quiet, ~call.short
               PROVE  /\ AnswerLength(call.method) > 0 /\ Outstanding' <= Waited'
                      /\ (Outstanding' = Waited' => Coming')
    BY <1>5 DEF QuietInv
  <2>1. /\ AnswerLength(call.method) > 0 /\ Outstanding <= Waited
        /\ (Outstanding = Waited => Pending \/ Coming)
    BY <1>1, <1>2 DEF QuietInv
  <2>2. Outstanding \in Int /\ Waited \in Int
    BY <1>1 DEF AmountsOK, Outstanding, Waited
  <2>3. ASSUME Outstanding' = Waited'
        PROVE  Coming'
    <3>1. Coming
      BY <1>2, <1>9, <2>1, <2>2, <2>3 DEF Pending
    <3>2. back = <<>> /\ NextBytes = rx
      BY <1>2, <3>1 DEF Coming, NextBytes
    <3>3. NextBytes' = Tail(rx)
      BY <1>2, <3>2 DEF NextBytes
    <3>4. Append(call.got, Head(rx)) \o Tail(rx) = call.got \o rx
      BY <1>2, <1>3, FirstMoves
    <3> QED
      BY <1>2, <1>5, <3>1, <3>2, <3>3, <3>4 DEF Coming
  <2> QED
    BY <1>9, <2>1, <2>2, <2>3
<1>12. QuietCallIsAnswered'
  BY <1>1, <1>2 DEF QuietCallIsAnswered
<1> QED
  BY <1>6, <1>7, <1>10, <1>11, <1>12 DEF ServiceInv

(* A receive is over: the call goes on with the next one, or its result is *)
(* what it has.                                                            *)
LEMMA NextReceiveMoves ==
  ASSUME NEW c \in CallRecord, c.receives # <<>>, result \in CallRecord, NextReceive(c)
  PROVE  /\ call' \in CallRecord /\ result' \in CallRecord /\ CallForms'
         /\ Waited' = Total(c.receives) - Head(c.receives)
         /\ \/ /\ call'.got = c.got /\ call'.quiet = c.quiet /\ call'.short = c.short
               /\ call'.id = c.id /\ call'.method = c.method /\ result' = result
            \/ /\ call' = Idle /\ Waited' = 0
               /\ result'.got = c.got /\ result'.quiet = c.quiet /\ result'.short = c.short
               /\ result'.id = c.id /\ result'.method = c.method
<1> DEFINE rest == [c EXCEPT !.receives = Tail(@), !.offset = 0]
<1>1. /\ c.receives \in Seq(Nat) /\ Tail(c.receives) \in Seq(Nat)
      /\ Len(c.receives) \in Nat \ {0}
      /\ Total(Tail(c.receives)) = Total(c.receives) - Head(c.receives)
  <2>1. c.receives \in Seq(Nat)
    BY DEF CallRecord
  <2> QED
    BY <2>1, FirstAndRest, TotalRest
<1>2. /\ rest \in CallRecord /\ rest.receives = Tail(c.receives) /\ rest.offset = 0
      /\ rest.got = c.got /\ rest.quiet = c.quiet /\ rest.short = c.short
      /\ rest.id = c.id /\ rest.method = c.method
  BY <1>1 DEF CallRecord
<1>3. IF Len(c.receives) > 1 THEN call' = rest /\ result' = result
                             ELSE call' = Idle /\ result' = rest
  BY DEF NextReceive
<1> HIDE DEF rest
<1>4. Total(Tail(c.receives)) \in Nat
  BY <1>1, TotalIsNat
<1>5. CASE Len(c.receives) > 1
  <2>1. Tail(c.receives) # <<>> /\ Head(Tail(c.receives)) \in Nat
    <3>1. Len(Tail(c.receives)) = Len(c.receives) - 1
      BY <1>1, HeadTailProperties
    <3>2. Tail(c.receives) # <<>>
      <4> DEFINE n == Len(c.receives)
      <4>1. n \in Nat /\ n > 1 /\ Len(Tail(c.receives)) = n - 1
        BY <1>1, <1>5, <3>1, Zenon
      <4> HIDE DEF n
      <4>2. n - 1 # 0
        BY <4>1
      <4>3. Len(<<>>) = 0
        OBVIOUS
      <4> QED
        BY <4>1, <4>2, <4>3, Zenon
    <3> QED
      BY <1>1, <3>2, FirstAndRest
  <2>2. call' = rest /\ result' = result
    BY <1>3, <1>5
  <2>3. Waited' = Total(Tail(c.receives))
    BY <1>2, <1>4, <2>2 DEF Waited
  <2>4. CallForms'
    <3>1. call'.receives # <<>> /\ call'.offset = 0 /\ Head(call'.receives) \in Nat
      BY <1>2, <2>1, <2>2
    <3> QED
      BY <3>1 DEF CallForms
  <2> QED
    BY <1>1, <1>2, <2>2, <2>3, <2>4
<1>6. CASE ~ (Len(c.receives) > 1)
  <2>1. Tail(c.receives) = <<>>
    BY <1>1, <1>6
  <2>2. call' = Idle /\ result' = rest
    BY <1>3, <1>6
  <2>3. Waited' = 0
    BY <2>2, IdleForm DEF Waited
  <2>4. CallForms'
    BY <2>2, IdleForm DEF CallForms
  <2> QED
    BY <1>1, <1>2, <2>1, <2>2, <2>3, <2>4, IdleForm, TotalEmpty
<1> QED
  BY <1>5, <1>6

LEMMA ReceiveDoneKeeps ==
  ASSUME ServiceInv, ReceiveDone
  PROVE  ServiceInv'
<1>1. ServiceTypeOK /\ AmountsOK /\ CallForms /\ Balance /\ QuietInv /\ QuietCallIsAnswered
  BY Amounts DEF ServiceInv
<1>2. /\ call # Idle /\ call.offset = Head(call.receives) /\ NextReceive(call)
      /\ UNCHANGED <<link, unsent, wire, back, rx, calls, lost, missed, gone>>
  BY DEF ReceiveDone, counts
<1>3. call \in CallRecord /\ result \in CallRecord /\ call.receives # <<>>
  BY <1>1, <1>2 DEF ServiceTypeOK, CallForms
<1>4. /\ call' \in CallRecord /\ result' \in CallRecord /\ CallForms'
      /\ Waited' = Total(call.receives) - Head(call.receives)
      /\ \/ /\ call'.got = call.got /\ call'.quiet = call.quiet /\ call'.short = call.short
            /\ call'.id = call.id /\ call'.method = call.method /\ result' = result
         \/ /\ call' = Idle /\ Waited' = 0
            /\ result'.got = call.got /\ result'.quiet = call.quiet
            /\ result'.short = call.short
            /\ result'.id = call.id /\ result'.method = call.method
  BY <1>2, <1>3, NextReceiveMoves
<1>5. ServiceTypeOK'
  BY <1>1, <1>2, <1>4 DEF ServiceTypeOK
<1>6. AmountsOK'
  BY <1>5, NextAmounts
<1>7. Waited' = Waited /\ Outstanding' = Outstanding
  BY <1>2, <1>4 DEF Waited, Outstanding
<1>8. Balance'
  BY <1>1, <1>2, <1>7 DEF Balance
<1>9. call.quiet /\ ~call.short =>
        /\ AnswerLength(call.method) > 0 /\ Outstanding <= Waited
        /\ (Outstanding = Waited => Pending \/ Coming)
  BY <1>1, <1>2 DEF QuietInv
<1>10. CASE /\ call'.got = call.got /\ call'.quiet = call.quiet /\ call'.short = call.short
            /\ call'.id = call.id /\ call'.method = call.method /\ result' = result
  <2>1. Asked(call') = Asked(call) /\ NextBytes' = NextBytes
    BY <1>2, <1>10 DEF Asked, NextBytes
  <2>2. Pending => Pending'
    BY <1>2, <1>10, <2>1 DEF Pending
  <2>3. Coming => Coming'
    BY <1>2, <1>10, <2>1 DEF Coming
  <2>4. QuietInv'
    BY <1>7, <1>9, <1>10, <2>2, <2>3 DEF QuietInv
  <2>5. QuietCallIsAnswered'
    BY <1>1, <1>10 DEF QuietCallIsAnswered
  <2> QED
    BY <1>4, <1>5, <1>8, <2>4, <2>5 DEF ServiceInv
<1>11. CASE /\ call' = Idle /\ Waited' = 0
            /\ result'.got = call.got /\ result'.quiet = call.quiet
            /\ result'.short = call.short
            /\ result'.id = call.id /\ result'.method = call.method
  <2>1. QuietInv'
    BY <1>11 DEF QuietInv
  <2>2. ASSUME call.quiet, ~call.short
        PROVE  IsAnswer(call.got, call.id, call.method)
    <3>1. /\ Owed(unsent) \in Nat /\ Owed(wire) \in Nat /\ Held(back) \in Nat /\ Len(rx) \in Nat
          /\ Outstanding <= 0 /\ Waited = 0
      BY <1>1, <1>7, <1>9, <1>11, <2>2 DEF AmountsOK
    <3>2. Owed(unsent) = 0 /\ Owed(wire) = 0 /\ Held(back) = 0 /\ Len(rx) = 0
      BY <3>1 DEF Outstanding
    <3>3. Outstanding = Waited
      BY <3>1, <3>2 DEF Outstanding
    <3>4. Coming
      BY <1>9, <2>2, <3>2, <3>3 DEF Pending
    <3>5. NextBytes = <<>>
      BY <1>1, <3>2 DEF NextBytes, AmountsOK
    <3>6. call.got \o <<>> = call.got
      BY <1>3 DEF CallRecord
    <3> QED
      BY <3>4, <3>5, <3>6 DEF Coming
  <2>3. QuietCallIsAnswered'
    BY <1>11, <2>2 DEF QuietCallIsAnswered
  <2> QED
    BY <1>4, <1>5, <1>8, <2>1, <2>3 DEF ServiceInv
<1> QED
  BY <1>4, <1>10, <1>11

LEMMA ReceiveTimeoutKeeps ==
  ASSUME ServiceInv, ReceiveTimeout
  PROVE  ServiceInv'
<1> DEFINE short == Head(call.receives) - call.offset
           c == [call EXCEPT !.got = @ \o [i \in 1 .. short |-> Uninitialized], !.short = TRUE]
<1>1. ServiceTypeOK /\ AmountsOK /\ CallForms /\ Balance /\ QuietInv /\ QuietCallIsAnswered
  BY Amounts DEF ServiceInv
<1>2. /\ call # Idle /\ call.offset < Head(call.receives) /\ NextReceive(c)
      /\ missed' = missed + short
      /\ UNCHANGED <<link, unsent, wire, back, rx, calls, lost, gone>>
  BY DEF ReceiveTimeout, Wanting
<1>3. /\ call \in CallRecord /\ result \in CallRecord /\ call.receives # <<>>
      /\ call.offset \in Nat /\ call.receives \in Seq(Nat) /\ call.got \in Seq(Byte)
  BY <1>1, <1>2 DEF ServiceTypeOK, CallForms, CallRecord
<1>4. Head(call.receives) \in Nat /\ short \in Nat
  BY <1>2, <1>3
<1>5. c \in CallRecord /\ c.receives = call.receives /\ c.short = TRUE
  <2>1. Uninitialized \in Byte
    BY DEF Uninitialized, Byte
  <2> HIDE DEF short
  <2>2. [i \in 1 .. short |-> Uninitialized] \in Seq(Byte)
    BY <1>4, <2>1
  <2>3. call.got \o [i \in 1 .. short |-> Uninitialized] \in Seq(Byte)
    BY <1>3, <2>2, ConcatProperties
  <2> QED
    BY <1>3, <2>3 DEF CallRecord
<1> HIDE DEF c
<1>6. /\ call' \in CallRecord /\ result' \in CallRecord /\ CallForms'
      /\ Waited' = Total(call.receives) - Head(call.receives)
      /\ \/ call'.short = TRUE /\ result' = result
         \/ call' = Idle /\ result'.short = TRUE
  BY <1>2, <1>3, <1>5, NextReceiveMoves
<1>7. ServiceTypeOK'
  <2>1. missed' \in Nat
    BY <1>1, <1>2, <1>4 DEF ServiceTypeOK
  <2> QED
    BY <1>1, <1>2, <1>6, <2>1 DEF ServiceTypeOK
<1>8. Waited' + missed' = Waited + missed
  <2>1. /\ Total(call.receives) \in Int /\ call.offset \in Int /\ missed \in Int
        /\ Head(call.receives) \in Int
    BY <1>1, <1>4 DEF AmountsOK
  <2> QED
    BY <1>2, <1>6, <2>1 DEF Waited
<1>9. Outstanding' = Outstanding
  BY <1>2 DEF Outstanding
<1>10. Balance'
  BY <1>1, <1>2, <1>8, <1>9 DEF Balance
<1>11. QuietInv' /\ QuietCallIsAnswered'
  BY <1>1, <1>6 DEF QuietInv, QuietCallIsAnswered
<1> QED
  BY <1>6, <1>7, <1>10, <1>11 DEF ServiceInv

(* The request the board, or the network, takes next. *)
LEMMA TakesRequest ==
  ASSUME ServiceTypeOK, wire # <<>>
  PROVE  /\ Head(wire) \in Request /\ Tail(wire) \in Seq(Request)
         /\ AnswerLength(Head(wire).method) \in Nat /\ Owed(Tail(wire)) \in Nat
         /\ Owed(wire) = AnswerLength(Head(wire).method) + Owed(Tail(wire))
         /\ \A c : wire \in Seq(Asked(c))
                     => Head(wire) \in Asked(c) /\ Tail(wire) \in Seq(Asked(c))
<1>1. wire \in Seq(Request)
  BY DEF ServiceTypeOK
<1>2. Head(wire) \in Request /\ Tail(wire) \in Seq(Request)
  BY <1>1, FirstAndRest
<1>3. AnswerLength(Head(wire).method) \in Nat
  BY <1>2, LengthIsNat
<1>4. ASSUME NEW c, wire \in Seq(Asked(c))
      PROVE  Head(wire) \in Asked(c) /\ Tail(wire) \in Seq(Asked(c))
  BY <1>4, FirstAndRest
<1> QED
  BY <1>1, <1>2, <1>3, <1>4, OwedFirst

(* What the board answers is an answer. *)
LEMMA AnswerForm ==
  ASSUME NEW r \in Request
  PROVE  /\ Answer(r) \in Seq(Byte) /\ Len(Answer(r)) = AnswerLength(r.method)
         /\ (AnswerLength(r.method) = 0 <=> Answer(r) = <<>>)
         /\ IsAnswer(Answer(r), r.id, r.method)
<1> DEFINE n == AnswerLength(r.method)
           a == Answer(r)
<1>1. n \in Nat /\ r.id \in Nat
  BY LengthIsNat DEF Request
<1>2. a = [i \in 1 .. n |-> <<r.id, i>>]
  BY DEF Answer
<1> HIDE DEF n, a
<1>3. \A i \in 1 .. n : a[i] = <<r.id, i>> /\ a[i] \in Byte
  BY <1>1, <1>2 DEF Byte
<1>4. a \in Seq(Byte) /\ Len(a) = n
  BY <1>1, <1>2, <1>3
<1>5. n = 0 <=> a = <<>>
  BY <1>1, <1>4
<1>6. IsAnswer(a, r.id, r.method)
  BY <1>3, <1>4 DEF IsAnswer, n
<1> QED
  BY <1>4, <1>5, <1>6 DEF n, a

LEMMA BoardAnswersKeeps ==
  ASSUME ServiceInv, BoardAnswers
  PROVE  ServiceInv'
<1> DEFINE r == Head(wire)
           n == AnswerLength(r.method)
           a == Answer(r)
<1>1. ServiceTypeOK /\ AmountsOK /\ CallForms /\ Balance /\ QuietInv /\ QuietCallIsAnswered
  BY Amounts DEF ServiceInv
<1>2. /\ wire # <<>> /\ wire' = Tail(wire)
      /\ UNCHANGED <<link, unsent, call, result, calls, lost, missed, gone>>
  BY DEF BoardAnswers, counts
<1>3. \/ rx' = rx \o a /\ back' = back
      \/ a # <<>> /\ back' = Append(back, a) /\ rx' = rx
      \/ a = <<>> /\ back' = back /\ rx' = rx
  BY DEF BoardAnswers
<1>4. /\ r \in Request /\ Tail(wire) \in Seq(Request) /\ n \in Nat
      /\ Owed(Tail(wire)) \in Nat /\ Owed(wire) = n + Owed(Tail(wire))
      /\ \A c : wire \in Seq(Asked(c)) => r \in Asked(c) /\ Tail(wire) \in Seq(Asked(c))
  BY <1>1, <1>2, TakesRequest
<1>5. a \in Seq(Byte) /\ Len(a) = n /\ (n = 0 <=> a = <<>>) /\ IsAnswer(a, r.id, r.method)
  BY <1>4, AnswerForm
<1> HIDE DEF n, r, a
<1>6. /\ rx' \in Seq(Byte) /\ back' \in Seq(Packet)
      /\ Held(back') + Len(rx') = Held(back) + Len(rx) + n
      /\ n = 0 => rx' = rx /\ back' = back
      /\ n # 0 /\ rx = <<>> /\ back = <<>> =>
           NextBytes' = a /\ Len(back') <= 1 /\ (rx' # <<>> => back' = <<>>)
  <2>1. /\ rx \in Seq(Byte) /\ back \in Seq(Packet)
        /\ Held(back) \in Nat /\ Len(rx) \in Nat
    BY <1>1 DEF ServiceTypeOK, AmountsOK
  <2>2. CASE rx' = rx \o a /\ back' = back
    <3>1. rx \o a \in Seq(Byte) /\ Len(rx \o a) = Len(rx) + n
      BY <1>5, <2>1, ConcatProperties
    <3>2. a = <<>> => rx \o a = rx
      BY <2>1
    <3>3. rx = <<>> => rx \o a = a
      BY <1>5
    <3>4. Held(back') + Len(rx') = Held(back) + Len(rx) + n
      BY <1>4, <2>1, <2>2, <3>1
    <3>5. Len(<<>>) <= 1
      OBVIOUS
    <3> QED
      BY <1>5, <2>1, <2>2, <3>1, <3>2, <3>3, <3>4, <3>5 DEF NextBytes
  <2>3. CASE a # <<>> /\ back' = Append(back, a) /\ rx' = rx
    <3>1. a \in Packet /\ Append(back, a) \in Seq(Packet)
      BY <1>5, <2>1, <2>3 DEF Packet
    <3>2. Held(Append(back, a)) = Held(back) + n
      BY <1>5, <2>1, <3>1, HeldAppend
    <3>3. Append(<<>>, a) = <<a>> /\ Head(<<a>>) = a /\ Len(<<a>>) <= 1 /\ <<a>> # <<>>
      OBVIOUS
    <3>4. Held(back') + Len(rx') = Held(back) + Len(rx) + n
      BY <1>4, <2>1, <2>3, <3>2
    <3> QED
      BY <1>5, <2>1, <2>3, <3>1, <3>3, <3>4 DEF NextBytes
  <2>4. CASE a = <<>> /\ back' = back /\ rx' = rx
    BY <1>5, <2>1, <2>4
  <2> QED
    BY <1>3, <2>2, <2>3, <2>4
<1>7. ServiceTypeOK'
  BY <1>1, <1>2, <1>4, <1>6 DEF ServiceTypeOK
<1>8. CallForms' /\ QuietCallIsAnswered' /\ Waited' = Waited
  BY <1>1, <1>2 DEF CallForms, QuietCallIsAnswered, Waited
<1>9. AmountsOK'
  BY <1>7, NextAmounts
<1>10. Outstanding' = Outstanding
  <2>1. /\ Owed(unsent) \in Int /\ Owed(wire) \in Int /\ Owed(Tail(wire)) \in Int /\ n \in Int
        /\ Held(back) \in Int /\ Len(rx) \in Int /\ Held(back') \in Int /\ Len(rx') \in Int
    BY <1>1, <1>4, <1>9 DEF AmountsOK
  <2> DEFINE p == Owed(wire)
             q == Owed(Tail(wire))
             h == Held(back) + Len(rx)
             i == Held(back') + Len(rx')
             u == Owed(unsent)
  <2>2. Outstanding = (u + p) + h /\ Outstanding' = (u + q) + i
    BY <1>2, Zenon DEF Outstanding
  <2>3. /\ p \in Int /\ q \in Int /\ h \in Int /\ i \in Int /\ u \in Int
        /\ p = n + q /\ i = h + n
    BY <1>4, <1>6, <2>1
  <2> HIDE DEF p, q, h, i, u
  <2>4. (u + p) + h = (u + q) + i
    BY <2>1, <2>3
  <2> QED
    BY <2>2, <2>4, Zenon
<1>11. Balance'
  BY <1>1, <1>2, <1>8, <1>10 DEF Balance
<1>12. QuietInv'
  <2> SUFFICES ASSUME call # Idle, call.quiet, ~call.short
               PROVE  /\ AnswerLength(call.method) > 0 /\ Outstanding <= Waited
                      /\ (Outstanding = Waited => Pending' \/ Coming')
    BY <1>2, <1>8, <1>10 DEF QuietInv
  <2>1. /\ AnswerLength(call.method) > 0 /\ Outstanding <= Waited
        /\ (Outstanding = Waited => Pending \/ Coming)
    BY <1>1 DEF QuietInv
  <2>2. Owed(unsent) \in Nat /\ Owed(wire) \in Nat /\ Owed(unsent') = Owed(unsent)
    BY <1>1, <1>2 DEF AmountsOK
  <2>3. n = 0 => NextBytes' = NextBytes /\ Owed(wire') = Owed(wire)
    BY <1>2, <1>4, <1>6 DEF NextBytes
  <2>4. ASSUME Pending /\ n = 0
        PROVE  Pending'
    <3>1. unsent' \in Seq(Asked(call)) /\ wire' \in Seq(Asked(call))
      BY <1>2, <1>4, <2>4 DEF Pending
    <3>2. Asked(call') = Asked(call)
      BY <1>2 DEF Asked
    <3>3. rx' = rx /\ back' = back /\ call' = call
      BY <1>2, <1>6, <2>4
    <3>4. Owed(unsent') + Owed(wire') = AnswerLength(call.method)
      BY <2>2, <2>3, <2>4 DEF Pending
    <3>5. call.got = <<>> /\ rx = <<>> /\ back = <<>>
      BY <2>4 DEF Pending
    <3> QED
      BY <3>1, <3>2, <3>3, <3>4, <3>5 DEF Pending
  <2>5. ASSUME Pending /\ n # 0
        PROVE  Coming'
    <3>1. r \in Asked(call)
      BY <1>4, <2>5 DEF Pending
    <3>2. r.id = call.id /\ r.method = call.method
      BY <1>4, <2>5, <3>1 DEF Asked, n
    <3>3. Owed(unsent) = 0 /\ Owed(wire') = 0
      <4>1. Owed(unsent) + Owed(wire) = n
        BY <2>5, <3>2 DEF Pending, n
      <4> QED
        BY <1>2, <1>4, <2>2, <4>1
    <3>4. rx = <<>> /\ back = <<>> /\ call.got = <<>>
      BY <2>5 DEF Pending
    <3>5. NextBytes' = a /\ Len(back') <= 1 /\ (rx' # <<>> => back' = <<>>)
      BY <1>6, <2>5, <3>4
    <3>6. <<>> \o a = a
      BY <1>5
    <3>7. IsAnswer(call'.got \o NextBytes', call'.id, call'.method)
      <4>1. call.got \o NextBytes' = a
        <5>1. NextBytes' = a /\ call.got = <<>>
          BY <3>4, <3>5
        <5> QED
          BY <3>6, <5>1
      <4>2. IsAnswer(a, call.id, call.method)
        <5>1. IsAnswer(a, r.id, r.method)
          BY <1>5
        <5> QED
          BY <3>2, <5>1, Zenon
      <4>3. call' = call
        BY <1>2
      <4> QED
        BY <4>1, <4>2, <4>3, Zenon
    <3>8. Owed(unsent') = 0
      BY <2>2, <3>3
    <3> QED
      BY <3>3, <3>5, <3>7, <3>8 DEF Coming
  <2>6. ASSUME Coming
        PROVE  Coming'
    <3>1. n = 0
      BY <1>4, <2>6 DEF Coming
    <3> QED
      <4>1. rx' = rx /\ back' = back /\ call' = call /\ NextBytes' = NextBytes
        BY <1>2, <1>6, <2>3, <3>1
      <4>2. Owed(unsent') = 0 /\ Owed(wire') = 0
        BY <2>2, <2>3, <2>6, <3>1 DEF Coming
      <4>3. /\ Len(back) <= 1 /\ (rx # <<>> => back = <<>>)
            /\ IsAnswer(call.got \o NextBytes, call.id, call.method)
        BY <2>6 DEF Coming
      <4> QED
        BY <4>1, <4>2, <4>3 DEF Coming
  <2> QED
    BY <2>1, <2>4, <2>5, <2>6
<1> QED
  BY <1>7, <1>8, <1>11, <1>12 DEF ServiceInv

LEMMA LoseKeeps ==
  ASSUME ServiceInv, Lose
  PROVE  ServiceInv'
<1> DEFINE r == Head(wire)
           n == AnswerLength(r.method)
<1>1. ServiceTypeOK /\ AmountsOK /\ CallForms /\ Balance /\ QuietInv /\ QuietCallIsAnswered
  BY Amounts DEF ServiceInv
<1>2. /\ lost < link.losses /\ wire # <<>> /\ wire' = Tail(wire)
      /\ lost' = lost + 1 /\ gone' = gone + n
      /\ UNCHANGED <<link, unsent, back, rx, call, result, calls, missed>>
  BY DEF Lose
<1>3. link.transport # "tcp"
  <2>1. lost \in Nat /\ link \in Links
    BY <1>1 DEF ServiceTypeOK
  <2>2. link.transport = "tcp" => link.losses = 0
    BY <2>1, LinksAssumption
  <2> QED
    BY <1>2, <2>1, <2>2
<1>4. /\ Tail(wire) \in Seq(Request) /\ n \in Nat
      /\ Owed(Tail(wire)) \in Nat /\ Owed(wire) = n + Owed(Tail(wire))
      /\ \A c : wire \in Seq(Asked(c)) => Tail(wire) \in Seq(Asked(c))
  BY <1>1, <1>2, TakesRequest
<1> HIDE DEF n, r
<1>5. ServiceTypeOK'
  <2>1. gone' \in Nat /\ lost' \in Nat
    BY <1>1, <1>2, <1>4 DEF ServiceTypeOK
  <2> QED
    BY <1>1, <1>2, <1>4, <2>1 DEF ServiceTypeOK
<1>6. CallForms' /\ QuietCallIsAnswered' /\ Waited' = Waited
  BY <1>1, <1>2 DEF CallForms, QuietCallIsAnswered, Waited
<1>7. AmountsOK'
  BY <1>5, NextAmounts
<1>8. Outstanding' + n = Outstanding
  <2>1. /\ Owed(unsent) \in Int /\ Owed(wire) \in Int /\ Owed(Tail(wire)) \in Int /\ n \in Int
        /\ Held(back) \in Int /\ Len(rx) \in Int
    BY <1>1, <1>4 DEF AmountsOK
  <2> DEFINE p == Owed(wire)
             q == Owed(Tail(wire))
             h == Held(back) + Len(rx)
             u == Owed(unsent)
  <2>2. Outstanding = (u + p) + h /\ Outstanding' = (u + q) + h
    BY <1>2, Zenon DEF Outstanding
  <2>3. /\ p \in Int /\ q \in Int /\ h \in Int /\ u \in Int /\ p = n + q
    BY <1>4, <2>1
  <2> HIDE DEF p, q, h, u
  <2>4. (u + p) + h = ((u + q) + h) + n
    BY <2>1, <2>3
  <2> QED
    BY <2>2, <2>4, Zenon
<1>9. Balance'
  <2> DEFINE x == Outstanding
             y == Outstanding'
  <2>1. x \in Int /\ y \in Int /\ gone \in Int /\ n \in Int
    BY <1>1, <1>4, <1>7 DEF AmountsOK
  <2>2. y + n = x
    BY <1>8
  <2>3. Outstanding' + gone' = y + (gone + n)
    BY <1>2
  <2> HIDE DEF x, y
  <2>4. y + (gone + n) = x + gone
    BY <2>1, <2>2
  <2>5. Outstanding' + gone' = Outstanding + gone
    BY <2>3, <2>4, Zenon DEF x
  <2>6. Waited' + missed' = Waited + missed
    BY <1>2, <1>6
  <2>7. Outstanding' + gone' = Waited' + missed'
    BY <1>1, <2>5, <2>6, Zenon DEF Balance
  <2> QED
    BY <1>2, <1>3, <2>7 DEF Balance
<1>10. QuietInv'
  <2> SUFFICES ASSUME call # Idle, call.quiet, ~call.short
               PROVE  /\ AnswerLength(call.method) > 0 /\ Outstanding' <= Waited
                      /\ (Outstanding' = Waited => Pending' \/ Coming')
    BY <1>2, <1>6 DEF QuietInv
  <2>1. /\ AnswerLength(call.method) > 0 /\ Outstanding <= Waited
        /\ (Outstanding = Waited => Pending \/ Coming)
    BY <1>1 DEF QuietInv
  <2>2. Outstanding' <= Waited /\ (Outstanding' = Waited => n = 0 /\ Outstanding = Waited)
    <3> DEFINE x == Outstanding
               y == Outstanding'
               u == Waited
    <3>1. x \in Int /\ y \in Int /\ u \in Int /\ n \in Nat /\ x <= u /\ y + n = x
      <4>1. x \in Int /\ u \in Int
        BY <1>1 DEF AmountsOK
      <4>2. y \in Int
        BY <1>7 DEF AmountsOK
      <4>3. n \in Nat
        BY <1>4
      <4> QED
        BY <1>8, <2>1, <4>1, <4>2, <4>3, Zenon
    <3> HIDE DEF x, y, u
    <3>2. y <= u /\ (y = u => n = 0 /\ x = u)
      BY <3>1
    <3> QED
      BY <3>2 DEF x, y, u
  <2>3. ASSUME n = 0
        PROVE  Owed(unsent') = Owed(unsent) /\ Owed(wire') = Owed(wire)
    BY <1>2, <1>4, <2>3
  <2>4. call' = call /\ rx' = rx /\ back' = back /\ NextBytes' = NextBytes
    BY <1>2 DEF NextBytes
  <2>5. ASSUME Pending, n = 0
        PROVE  Pending'
    <3>1. unsent' \in Seq(Asked(call)) /\ wire' \in Seq(Asked(call))
      BY <1>2, <1>4, <2>5 DEF Pending
    <3>2. Asked(call') = Asked(call)
      BY <2>4 DEF Asked
    <3>3. Owed(unsent') + Owed(wire') = AnswerLength(call.method)
      BY <2>3, <2>5 DEF Pending
    <3>4. call.got = <<>> /\ rx = <<>> /\ back = <<>>
      BY <2>5 DEF Pending
    <3> QED
      BY <2>4, <3>1, <3>2, <3>3, <3>4 DEF Pending
  <2>6. ASSUME Coming, n = 0
        PROVE  Coming'
    <3>1. Owed(unsent') = 0 /\ Owed(wire') = 0
      BY <2>3, <2>6 DEF Coming
    <3>2. /\ Len(back) <= 1 /\ (rx # <<>> => back = <<>>)
          /\ IsAnswer(call.got \o NextBytes, call.id, call.method)
      BY <2>6 DEF Coming
    <3> QED
      BY <2>4, <3>1, <3>2 DEF Coming
  <2> QED
    BY <2>1, <2>2, <2>5, <2>6
<1> QED
  BY <1>5, <1>6, <1>9, <1>10 DEF ServiceInv

LEMMA StepServiceInv == ServiceInv /\ [Next]_vars => ServiceInv'
<1>1. ASSUME ServiceInv, Next
      PROVE  ServiceInv'
  BY <1>1, CallKeeps, ReadByteKeeps, ReceiveDoneKeeps,
     ReceiveTimeoutKeeps, BoardAnswersKeeps, LoseKeeps DEF Next
<1>2. ASSUME ServiceInv, UNCHANGED vars
      PROVE  ServiceInv'
  BY <1>2 DEF ServiceInv, ServiceTypeOK, CallForms, Balance, Outstanding, Waited,
              QuietInv, Pending, Coming, Asked, NextBytes, QuietCallIsAnswered, vars, counts
<1> QED
  BY <1>1, <1>2

LEMMA AlwaysServiceInv == Spec => []ServiceInv
BY InitServiceInv, StepServiceInv, PTL DEF Spec

(* At every moment the answer bytes still owed, under way or lost are as    *)
(* many as those the call in progress waits for and those earlier receives *)
(* gave up on; over TCP none is ever lost, whatever the methods and the    *)
(* number of calls.                                                        *)
THEOREM BytesAreAccounted == Spec => []Accounted
<1>1. ServiceInv => Accounted
  BY Amounts DEF ServiceInv
<1> QED
  BY <1>1, AlwaysServiceInv, PTL

(* A call made while nothing is owed and none of whose receives gives up   *)
(* returns the board's answer to it: no interleaving of the board, the     *)
(* timeouts of earlier calls and the network's losses hands it other bytes.*)
THEOREM QuietIsAnswered == Spec => []QuietCallIsAnswered
<1>1. ServiceInv => QuietCallIsAnswered
  BY DEF ServiceInv
<1> QED
  BY <1>1, AlwaysServiceInv, PTL
=============================================================================
