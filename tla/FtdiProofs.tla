------------------------------- MODULE FtdiProofs -------------------------------
(***************************************************************************)
(* The FTDI objects: what HardwareI2C_FTDI reports, the clock              *)
(* HardwareSPI_FTDI makes and the answers it returns, and of the two       *)
(* threads of HardwareGPIO_FTDI the context they use, the writes that      *)
(* survive them and the pins they drive: for buffers and addresses of      *)
(* every size, every wiring, any number of calls and whatever slave, chip  *)
(* and libftdi do.                                                         *)
(***************************************************************************)
EXTENDS FtdiGpio, FtdiI2C, FtdiSpi, FiniteSetTheorems, SequenceTheorems,
        WellFoundedInduction, TLAPS

(***************************************************************************)
(* I2C.  The invariant: until the chip is astray no call gets past its     *)
(* address, and none has success for its code or result.                   *)
(***************************************************************************)
CallRecord == [name : {"end", "request"}, address : Nat, stopBit : BOOLEAN, quantity : Nat,
               next : Nat, lines : Seq(SUBSET BothHigh), code : Int]

I2CTypes ==
  /\ current_slave_address \in Nat /\ tx_buffer_length \in Nat /\ rx_available \in Nat
  /\ i2c_call = NoI2CCall \/ i2c_call \in CallRecord

NoSuccessYet ==
  ~strayed /\ ~InCall("none") =>
    /\ i2c_call.next = 0
    /\ InCall("end") => i2c_call.code # 0
    /\ InCall("request") => i2c_call.code \in {Going, 0}

I2CInv == I2CTypes /\ NoSuccessYet /\ NoFalseSuccess

LEMMA CallNames ==
  /\ NoI2CCall.name = "none"
  /\ \A c \in CallRecord : c.name \in {"end", "request"} /\ c # NoI2CCall
BY DEF NoI2CCall, CallRecord

LEMMA CallInProgress ==
  ASSUME I2CTypes, ~InCall("none")
  PROVE  i2c_call \in CallRecord
BY CallNames DEF I2CTypes, InCall

LEMMA InitI2CInv == I2CInit => I2CInv
BY CallNames DEF I2CInit, I2CInv, I2CTypes, NoSuccessYet, NoFalseSuccess, InCall

LEMMA StaysStrayed ==
  ASSUME NEW c, ChipGoes(c)
  PROVE  strayed => strayed'
BY Zenon DEF ChipGoes

LEMMA SketchKeepsI2C ==
  ASSUME I2CInv,
         \/ I2COpen \/ I2CEnd \/ setClock \/ read
         \/ \E address \in Address : beginTransmission(address)
         \/ \E quantity \in 1 .. MaxQuantity : write(quantity)
  PROVE  I2CInv'
<1>1. i2c_call' = i2c_call /\ InCall("none")
  BY DEF I2COpen, I2CEnd, setClock, read, beginTransmission, write
<1>2. /\ current_slave_address' \in Nat /\ tx_buffer_length' \in Nat
      /\ rx_available' \in Nat
  <2>1. CASE I2COpen \/ I2CEnd \/ setClock \/ read
    BY <2>1 DEF I2CInv, I2CTypes, I2COpen, I2CEnd, setClock, read, buffers
  <2>2. ASSUME NEW address \in Address, beginTransmission(address)
        PROVE  /\ current_slave_address' \in Nat /\ tx_buffer_length' \in Nat
               /\ rx_available' \in Nat
    BY <2>2, I2CAssumption DEF I2CInv, I2CTypes, beginTransmission
  <2>3. ASSUME NEW quantity \in 1 .. MaxQuantity, write(quantity)
        PROVE  /\ current_slave_address' \in Nat /\ tx_buffer_length' \in Nat
               /\ rx_available' \in Nat
    BY <2>3, I2CAssumption DEF I2CInv, I2CTypes, write, MinOf
  <2> QED
    BY <2>1, <2>2, <2>3
<1>3. NoFalseSuccess'
  <2>1. CASE I2COpen
    BY <2>1 DEF I2COpen, NoFalseSuccess
  <2>2. CASE ~I2COpen
    <3>1. i2c_result' = i2c_result
      BY <2>2 DEF I2CEnd, setClock, read, beginTransmission, write
    <3>2. setClock => (strayed => strayed')
      BY StaysStrayed DEF setClock
    <3>3. ~setClock => UNCHANGED chipI2CVars
      BY <2>2 DEF I2CEnd, read, beginTransmission, write
    <3>4. strayed => strayed'
      BY <3>2, <3>3 DEF chipI2CVars
    <3> QED
      BY <3>1, <3>4 DEF I2CInv, NoFalseSuccess
  <2> QED
    BY <2>1, <2>2
<1>4. InCall("none")'
  BY <1>1 DEF InCall
<1> QED
  BY <1>1, <1>2, <1>3, <1>4 DEF I2CInv, I2CTypes, NoSuccessYet

LEMMA CallKeepsI2C ==
  ASSUME I2CInv, NEW name \in {"end", "request"}, NEW address \in Nat, NEW stopBit \in BOOLEAN,
         NEW quantity \in Nat, I2CCall(name, address, stopBit, quantity, IF name = "end" THEN 4 ELSE 0)
  PROVE  I2CInv'
<1>1. UNCHANGED <<i2c_is_open, buffers, chipI2CVars>> /\ InCall("none")
  BY DEF I2CCall
<1>2. CASE i2c_is_open
  <2> DEFINE c == [name |-> name, address |-> address, stopBit |-> stopBit,
                   quantity |-> quantity, next |-> 0, lines |-> StartLines, code |-> Going]
  <2>1. i2c_call' = c /\ i2c_result' = i2c_result
    BY <1>2 DEF I2CCall
  <2>2. c \in CallRecord
    <3>1. StartLines \in Seq(SUBSET BothHigh) /\ Going \in Int
      BY DEF StartLines, BothHigh, Going
    <3> QED
      BY <3>1 DEF CallRecord
  <2>3. c.name = name /\ c.next = 0 /\ c.code = Going
    OBVIOUS
  <2> HIDE DEF c
  <2>4. Going # 0
    BY DEF Going
  <2> QED
    BY <1>1, <2>1, <2>2, <2>3, <2>4
       DEF I2CInv, I2CTypes, NoSuccessYet, NoFalseSuccess, InCall, buffers, chipI2CVars
<1>3. CASE ~i2c_is_open
  <2>1. i2c_call' = i2c_call /\ i2c_result' = <<name, IF name = "end" THEN 4 ELSE 0>>
    BY <1>3 DEF I2CCall
  <2> QED
    BY <1>1, <2>1
       DEF I2CInv, I2CTypes, NoSuccessYet, NoFalseSuccess, InCall, buffers, chipI2CVars
<1> QED
  BY <1>2, <1>3

(* Returning a code that is no success. *)
LEMMA ReturnedKeepsI2C ==
  ASSUME I2CInv, ~InCall("none"), NEW code \in Int, Returned(code), strayed => strayed',
         ~strayed' => (InCall("end") => code # 0) /\ (InCall("request") => code = 0)
  PROVE  I2CInv'
<1>1. i2c_call \in CallRecord /\ i2c_call.name \in {"end", "request"}
  BY CallInProgress, CallNames DEF I2CInv
<1>2. /\ i2c_call' = NoI2CCall /\ i2c_result' = <<i2c_call.name, code>>
      /\ tx_buffer_length' \in Nat /\ UNCHANGED <<current_slave_address, rx_available>>
  BY DEF Returned, I2CInv, I2CTypes
<1>3. I2CTypes' /\ NoSuccessYet'
  BY <1>2, CallNames DEF I2CInv, I2CTypes, NoSuccessYet, InCall
<1>4. NoFalseSuccess'
  BY <1>1, <1>2 DEF NoFalseSuccess, InCall
<1> QED
  BY <1>3, <1>4 DEF I2CInv

(* A step within a call. *)
LEMMA WithinKeepsI2C ==
  ASSUME I2CInv, ~InCall("none"), i2c_call' \in CallRecord, i2c_call'.name = i2c_call.name,
         rx_available' \in Nat, strayed => strayed',
         UNCHANGED <<current_slave_address, tx_buffer_length, i2c_result>>,
         ~strayed' => /\ i2c_call'.next = 0
                      /\ i2c_call'.code = i2c_call.code
                           \/ i2c_call'.code = (IF InCall("request") THEN 0 ELSE 2)
  PROVE  I2CInv'
<1>1. InCall("end")' = InCall("end") /\ InCall("request")' = InCall("request")
      /\ ~(InCall("end") /\ InCall("request"))
  BY DEF InCall
<1>2. NoSuccessYet'
  BY <1>1 DEF I2CInv, NoSuccessYet
<1> QED
  BY <1>2 DEF I2CInv, I2CTypes, NoFalseSuccess

LEMMA StoppingCall ==
  ASSUME I2CTypes, ~InCall("none"), NEW code \in Int, Stopping(code)
  PROVE  /\ i2c_call' \in CallRecord /\ i2c_call'.name = i2c_call.name
         /\ i2c_call'.next = i2c_call.next /\ i2c_call'.code = code
<1> DEFINE c == i2c_call
           l == IF c.stopBit THEN StopLines ELSE <<>>
           d == [c EXCEPT !.code = code]
<1>1. c \in CallRecord
  BY CallInProgress
<1>2. l \in Seq(SUBSET BothHigh)
  <2>1. StopLines \in Seq(SUBSET BothHigh) /\ <<>> \in Seq(SUBSET BothHigh)
    BY DEF StopLines, BothHigh
  <2> QED
    BY <2>1
<1>3. i2c_call' = [d EXCEPT !.lines = l]
  BY DEF Stopping
<1> HIDE DEF c, l
<1>4. d \in CallRecord /\ d.name = c.name /\ d.next = c.next /\ d.code = code
  BY <1>1 DEF CallRecord
<1> HIDE DEF d
<1> QED
  BY <1>2, <1>3, <1>4 DEF CallRecord, c

LEMMA StepI2CInv == I2CInv /\ [I2CNext]_i2cVars => I2CInv'
<1> SUFFICES ASSUME I2CInv, [I2CNext]_i2cVars
             PROVE  I2CInv'
  OBVIOUS
<1>0. /\ ~InCall("none") => i2c_call \in CallRecord /\ i2c_call.name \in {"end", "request"}
      /\ InCall("end") => ~InCall("none") /\ ~InCall("request")
      /\ InCall("request") => ~InCall("none")
  BY CallInProgress, CallNames DEF I2CInv, InCall
<1>1. ASSUME NEW stopBit \in BOOLEAN, endTransmission(stopBit)
      PROVE  I2CInv'
  <2>1. 2 * current_slave_address \in Nat /\ tx_buffer_length \in Nat
    BY DEF I2CInv, I2CTypes
  <2>2. I2CCall("end", 2 * current_slave_address, stopBit, tx_buffer_length,
                IF "end" = "end" THEN 4 ELSE 0)
    BY <1>1 DEF endTransmission
  <2> QED
    BY <2>1, <2>2, CallKeepsI2C
<1>2. ASSUME NEW address \in Address, NEW quantity \in 1 .. MaxQuantity, NEW stopBit \in BOOLEAN,
             requestFrom(address, quantity, stopBit)
      PROVE  I2CInv'
  <2>1. 2 * address + 1 \in Nat /\ MinOf(quantity, BufferSize) \in Nat
    BY I2CAssumption DEF MinOf
  <2>2. I2CCall("request", 2 * address + 1, stopBit, MinOf(quantity, BufferSize),
                IF "request" = "end" THEN 4 ELSE 0)
    BY <1>2 DEF requestFrom
  <2> QED
    BY <2>1, <2>2, CallKeepsI2C
<1>3. CASE LineSent
  <2>1. /\ ~InCall("none") /\ i2c_call' = [i2c_call EXCEPT !.lines = Tail(@)]
        /\ strayed => strayed'
        /\ UNCHANGED <<current_slave_address, tx_buffer_length, rx_available, i2c_result>>
        /\ i2c_call.lines # <<>>
    BY <1>3 DEF LineSent, LineDue, ChipGoes, buffers
  <2>2. Tail(i2c_call.lines) \in Seq(SUBSET BothHigh)
    <3>1. i2c_call.lines \in Seq(SUBSET BothHigh)
      BY <1>0, <2>1 DEF CallRecord
    <3> QED
      BY <2>1, <3>1, HeadTailProperties
  <2>3. /\ i2c_call' \in CallRecord /\ i2c_call'.name = i2c_call.name
        /\ i2c_call'.next = i2c_call.next /\ i2c_call'.code = i2c_call.code
    BY <1>0, <2>1, <2>2 DEF CallRecord
  <2>4. ~strayed' => i2c_call'.next = 0
    BY <2>1, <2>3 DEF I2CInv, NoSuccessYet
  <2>5. rx_available' \in Nat
    BY <2>1 DEF I2CInv, I2CTypes
  <2> QED
    BY <2>1, <2>3, <2>4, <2>5, WithinKeepsI2C
<1>4. CASE LineFails
  <2> DEFINE code == IF InCall("end") /\ i2c_call.code \in {Going, 0} THEN 4
                     ELSE IF i2c_call.code = Going THEN 0 ELSE i2c_call.code
  <2>1. ~InCall("none") /\ Returned(code) /\ strayed'
    BY <1>4 DEF LineFails, LineDue, ChipGoes
  <2>2. code \in Int
    BY <1>0, <2>1 DEF CallRecord
  <2> HIDE DEF code
  <2> QED
    BY <2>1, <2>2, ReturnedKeepsI2C
<1>5. CASE ByteAcked
  <2>1. /\ ~InCall("none") /\ i2c_call' = [i2c_call EXCEPT !.next = @ + 1]
        /\ rx_available' \in Nat /\ strayed'
        /\ UNCHANGED <<current_slave_address, tx_buffer_length, i2c_result>>
    <3>1. strayed'
      BY <1>5 DEF ByteAcked, ByteSent, Answered, ChipGoes
    <3> QED
      BY <1>5, <3>1 DEF ByteAcked, ByteDue, I2CInv, I2CTypes
  <2>2. i2c_call' \in CallRecord /\ i2c_call'.name = i2c_call.name
    BY <1>0, <2>1 DEF CallRecord
  <2> QED
    BY <2>1, <2>2, WithinKeepsI2C
<1>6. CASE ByteNacked
  <2> DEFINE code == IF InCall("request") THEN 0 ELSE IF i2c_call.next = 0 THEN 2 ELSE 3
  <2>1. /\ ~InCall("none") /\ Stopping(code) /\ (strayed => strayed')
        /\ UNCHANGED <<current_slave_address, tx_buffer_length, rx_available, i2c_result>>
    BY <1>6 DEF ByteNacked, ByteDue, ByteSent, ChipGoes, buffers
  <2>2. code \in Int
    OBVIOUS
  <2>3. ~strayed => i2c_call.next = 0
    BY <2>1 DEF I2CInv, NoSuccessYet
  <2>4. ~strayed' => code = IF InCall("request") THEN 0 ELSE 2
    BY <2>1, <2>3
  <2> HIDE DEF code
  <2>5. /\ i2c_call' \in CallRecord /\ i2c_call'.name = i2c_call.name
        /\ i2c_call'.next = i2c_call.next /\ i2c_call'.code = code
    BY <2>1, <2>2, StoppingCall DEF I2CInv
  <2>6. rx_available' \in Nat
    BY <2>1 DEF I2CInv, I2CTypes
  <2> QED
    BY <2>1, <2>3, <2>4, <2>5, <2>6, WithinKeepsI2C
<1>7. CASE ReceiveI2CByte
  <2>1. /\ ~InCall("none") /\ i2c_call' = [i2c_call EXCEPT !.next = @ + 1]
        /\ rx_available' = rx_available + 1
        /\ UNCHANGED <<current_slave_address, tx_buffer_length, i2c_result>>
        /\ i2c_call.next \in 1 .. i2c_call.quantity
    BY <1>0, <1>7 DEF ReceiveI2CByte
  <2>2. i2c_call' \in CallRecord /\ i2c_call'.name = i2c_call.name
    BY <1>0, <2>1 DEF CallRecord
  <2>3. strayed
    BY <2>1 DEF I2CInv, NoSuccessYet
  <2>4. rx_available' \in Nat
    BY <2>1 DEF I2CInv, I2CTypes
  <2>5. strayed => strayed'
    BY <1>7, StaysStrayed DEF ReceiveI2CByte
  <2> QED
    BY <2>1, <2>2, <2>3, <2>4, <2>5, WithinKeepsI2C
<1>8. CASE AllDone
  <2> DEFINE code == IF InCall("request") THEN rx_available ELSE 0
  <2>1. /\ ~InCall("none") /\ Stopping(code) /\ strayed' = strayed
        /\ UNCHANGED <<current_slave_address, tx_buffer_length, rx_available, i2c_result>>
        /\ i2c_call.lines = <<>> /\ i2c_call.code = Going /\ ~ByteDue
    BY <1>8 DEF AllDone, buffers, chipI2CVars
  <2>2. i2c_call.next # 0
    <3>1. i2c_call.quantity \in Nat
      BY <1>0, <2>1 DEF CallRecord
    <3>2. ~(i2c_call.next <= IF InCall("end") THEN i2c_call.quantity ELSE 0)
      BY <2>1 DEF ByteDue
    <3> QED
      BY <3>1, <3>2
  <2>3. strayed
    BY <2>1, <2>2 DEF I2CInv, NoSuccessYet
  <2>4. code \in Int /\ rx_available' \in Nat
    BY <2>1 DEF I2CInv, I2CTypes
  <2> HIDE DEF code
  <2>5. i2c_call' \in CallRecord /\ i2c_call'.name = i2c_call.name
    BY <2>1, <2>4, StoppingCall DEF I2CInv
  <2> QED
    BY <2>1, <2>3, <2>4, <2>5, WithinKeepsI2C
<1>9. CASE I2CReturn
  <2>1. ~InCall("none") /\ Returned(i2c_call.code) /\ strayed' = strayed
        /\ i2c_call.code # Going
    BY <1>9 DEF I2CReturn, chipI2CVars
  <2>2. i2c_call.code \in Int
    BY <1>0, <2>1 DEF CallRecord
  <2>3. ~strayed => (InCall("end") => i2c_call.code # 0) /\ (InCall("request") => i2c_call.code = 0)
    BY <2>1 DEF I2CInv, NoSuccessYet
  <2> QED
    BY <2>1, <2>2, <2>3, ReturnedKeepsI2C
<1>10. CASE UNCHANGED i2cVars
  BY <1>10 DEF i2cVars, buffers, chipI2CVars, I2CInv, I2CTypes, NoSuccessYet, NoFalseSuccess,
     InCall
<1> QED
  BY <1>1, <1>2, <1>3, <1>4, <1>5, <1>6, <1>7, <1>8, <1>9, <1>10, SketchKeepsI2C DEF I2CNext

LEMMA I2CInvariant == I2CSpec => []I2CInv
BY InitI2CInv, StepI2CInv, PTL DEF I2CSpec

(* No call reports success while the chip swallows what the calls send:    *)
(* endTransmission() does not return 0 and requestFrom() returns 0, for    *)
(* every address and however many calls were made since begin()            *)
(* (HardwareI2C_FTDI.cpp sendByteCheckAck()).                              *)
THEOREM SilenceIsNoSuccess == I2CSpec => []NoFalseSuccess
<1>1. I2CInv => NoFalseSuccess
  BY DEF I2CInv
<1> QED
  BY <1>1, I2CInvariant, PTL

(***************************************************************************)
(* GPIO.  The context stays until the PWM thread is gone: the thread has   *)
(* steps to do only while it is alive, and end() frees the context only    *)
(* after it has cleared the flag and joined.                               *)
(***************************************************************************)
EndStep == {"clear_running", "join", "close"}

(* The steps of every call but end(). *)
OrdinaryStep ==
  [do : {"load_values", "load_directions", "set_bitmode", "write_data", "read_pins"},
   ch : Channel]
  \cup [do : {"set_interface"}, ch : Channel, to : Channel]
  \cup [do : {"store_values"}, ch : Channel, pin : Pin, level : Level]
  \cup [do : {"lock", "unlock", "startPWMThread"}]
  \cup [do : {"disable"}, pin : Pin]
  \cup [do : {"updatePWMPin", "analogWriteFrequency"}, pin : Pin, on : BOOLEAN]

(* What end() has still to do, and what it has done. *)
AtEnd ==
  \/ todo["main"] = <<[do |-> "clear_running"], [do |-> "join"], [do |-> "close"]>>
  \/ todo["main"] = <<[do |-> "join"], [do |-> "close"]>> /\ ~pwm_thread_running
  \/ todo["main"] = <<[do |-> "close"]>> /\ ~pwm_thread_running /\ ~alive

ThreadInv ==
  /\ wiring \in Wirings /\ DOMAIN todo = Thread
  /\ is_open \in BOOLEAN /\ alive \in BOOLEAN /\ pwm_thread_running \in BOOLEAN
  /\ (todo["main"] \in Seq(OrdinaryStep) /\ (alive => pwm_thread_running)) \/ AtEnd
  /\ todo["main"] # <<>> => is_open
  /\ todo["pwm"] # <<>> => alive
  /\ alive => is_open

LEMMA CallSteps ==
  ASSUME NEW p \in Pin
  PROVE  /\ updateGPIOState(getChannel(p)) \in Seq(OrdinaryStep)
         /\ readGPIOState(getChannel(p)) \in Seq(OrdinaryStep)
         /\ \A level \in Level : WriteSteps(p, level) \in Seq(OrdinaryStep)
         /\ \A value \in {0, 128, 255}, on \in BOOLEAN :
              AnalogSteps(p, value, on) \in Seq(OrdinaryStep)
         /\ \A on \in BOOLEAN :
              Locked([do |-> "analogWriteFrequency", pin |-> p, on |-> on])
                \in Seq(OrdinaryStep)
<1> DEFINE c == getChannel(p)
<1>1. c \in Channel
  BY DEF getChannel, Channel
<1> HIDE DEF c
<1>2. /\ Step("load_directions", c) \in Seq(OrdinaryStep)
      /\ Step("set_bitmode", c) \in Seq(OrdinaryStep)
      /\ Step("write_data", c) \in Seq(OrdinaryStep)
      /\ Step("read_pins", c) \in Seq(OrdinaryStep)
      /\ Step("load_values", c) \in Seq(OrdinaryStep)
  BY <1>1 DEF Step, OrdinaryStep
<1>3. \A a, b \in Channel : Select(a, b) \in Seq(OrdinaryStep)
  BY DEF Select, OrdinaryStep
<1>4. "A" \in Channel /\ "B" \in Channel
  BY DEF Channel
<1>5. updateGPIOState(c) \in Seq(OrdinaryStep)
  <2>1. Step("load_directions", c) \o Step("set_bitmode", c) \o Step("write_data", c)
          \in Seq(OrdinaryStep)
    BY <1>2, ConcatProperties
  <2>2. CASE c = "A"
    BY <2>1, <2>2 DEF updateGPIOState
  <2>3. CASE c # "A"
    <3>1. Select("B", "B") \in Seq(OrdinaryStep) /\ Select("B", "A") \in Seq(OrdinaryStep)
      BY <1>3, <1>4
    <3> QED
      BY <2>1, <2>3, <3>1, ConcatProperties DEF updateGPIOState
  <2> QED
    BY <2>2, <2>3
<1>6. readGPIOState(c) \in Seq(OrdinaryStep)
  <2>1. Select("B", "B") \in Seq(OrdinaryStep) /\ Select("B", "A") \in Seq(OrdinaryStep)
    BY <1>3, <1>4
  <2> QED
    BY <1>2, <2>1, ConcatProperties DEF readGPIOState
<1>7. ASSUME NEW level \in Level
      PROVE  WriteSteps(p, level) \in Seq(OrdinaryStep)
  <2>1. <<[do |-> "store_values", ch |-> c, pin |-> p, level |-> level]>> \in Seq(OrdinaryStep)
    BY <1>1 DEF OrdinaryStep
  <2>2. SetBit(p, level) \in Seq(OrdinaryStep)
    BY <1>2, <2>1, ConcatProperties DEF SetBit, c
  <2> QED
    BY <1>5, <2>2, ConcatProperties DEF WriteSteps, c
<1>8. ASSUME NEW step \in OrdinaryStep
      PROVE  Locked(step) \in Seq(OrdinaryStep)
  <2>1. [do |-> "lock"] \in OrdinaryStep /\ [do |-> "unlock"] \in OrdinaryStep
    BY DEF OrdinaryStep
  <2> QED
    BY <1>8, <2>1 DEF Locked
<1>9. ASSUME NEW value \in {0, 128, 255}, NEW on \in BOOLEAN
      PROVE  AnalogSteps(p, value, on) \in Seq(OrdinaryStep)
  <2>1. /\ [do |-> "disable", pin |-> p] \in OrdinaryStep
        /\ [do |-> "updatePWMPin", pin |-> p, on |-> on] \in OrdinaryStep
        /\ <<[do |-> "startPWMThread"]>> \in Seq(OrdinaryStep)
    BY DEF OrdinaryStep
  <2>2. /\ Locked([do |-> "disable", pin |-> p]) \in Seq(OrdinaryStep)
        /\ Locked([do |-> "updatePWMPin", pin |-> p, on |-> on]) \in Seq(OrdinaryStep)
    BY <1>8, <2>1
  <2>3. WriteSteps(p, "LOW") \in Seq(OrdinaryStep) /\ WriteSteps(p, "HIGH") \in Seq(OrdinaryStep)
    BY <1>7 DEF Level
  <2> QED
    BY <2>1, <2>2, <2>3, ConcatProperties DEF AnalogSteps
<1>10. ASSUME NEW on \in BOOLEAN
       PROVE  Locked([do |-> "analogWriteFrequency", pin |-> p, on |-> on]) \in Seq(OrdinaryStep)
  <2>1. [do |-> "analogWriteFrequency", pin |-> p, on |-> on] \in OrdinaryStep
    BY DEF OrdinaryStep
  <2> QED
    BY <1>8, <2>1
<1> QED
  BY <1>5, <1>6, <1>7, <1>9, <1>10 DEF c

LEMMA LeastOfNats ==
  ASSUME NEW T, T \subseteq Nat, T # {}
  PROVE  \E x \in T : \A y \in T : x <= y
<1>1. IsWellFoundedOn(OpToRel(<, Nat), Nat)
  BY NatLessThanWellFounded
<1>2. PICK x \in T : \A y \in T : ~(<<y, x>> \in OpToRel(<, Nat))
  BY <1>1, WFMin
<1>3. \A y \in T : ~(y < x)
  BY <1>2 DEF OpToRel
<1> QED
  BY <1>3

(* What is left of a call of which libftdi did not do a step. *)
LEMMA GivenUpIsRest ==
  ASSUME NEW S, NEW steps \in Seq(S), steps # <<>>
  PROVE  GivenUp(steps) \in Seq(S)
<1> DEFINE c == Head(steps).ch
           other == {k \in 1 .. Len(steps) : ~IsUsb(steps[k], c)}
           first == CHOOSE k \in other : \A j \in other : k <= j
<1>1. Tail(steps) \in Seq(S) /\ <<>> \in Seq(S)
  BY HeadTailProperties
<1>2. ASSUME other # {}
      PROVE  SubSeq(steps, first, Len(steps)) \in Seq(S)
  <2>1. other \subseteq Nat
    OBVIOUS
  <2>2. \E k \in other : \A j \in other : k <= j
    BY <1>2, <2>1, LeastOfNats
  <2>3. first \in 1 .. Len(steps)
    BY <2>2
  <2>4. \A k \in 1 .. Len(steps) : SubSeq(steps, k, Len(steps)) \in Seq(S)
    OBVIOUS
  <2> HIDE DEF first
  <2> QED
    BY <2>3, <2>4
<1> QED
  BY <1>1, <1>2 DEF GivenUp

LEMMA InitThreadInv == FtdiGpioInit => ThreadInv
<1> SUFFICES ASSUME FtdiGpioInit
             PROVE  ThreadInv
  OBVIOUS
<1>1. todo = [t \in Thread |-> <<>>]
  BY DEF FtdiGpioInit
<1>2. DOMAIN todo = Thread /\ todo["main"] = <<>> /\ todo["pwm"] = <<>>
  BY <1>1 DEF Thread
<1>3. todo["main"] \in Seq(OrdinaryStep)
  BY <1>2
<1>4. /\ is_open = FALSE /\ alive = FALSE /\ pwm_thread_running = FALSE
      /\ wiring \in Wirings
  BY DEF FtdiGpioInit
<1> QED
  BY <1>2, <1>3, <1>4, Zenon DEF ThreadInv

(* A call of the sketch other than begin() and end(). *)
LEMMA CallKeepsThread ==
  ASSUME ThreadInv, NEW steps \in Seq(OrdinaryStep), GpioCall(steps), is_open,
         UNCHANGED <<wiring, is_open, alive, pwm_thread_running>>
  PROVE  ThreadInv'
<1>1. /\ todo["main"] = <<>> /\ todo' = [todo EXCEPT !["main"] = steps]
      /\ DOMAIN todo = Thread
  BY DEF GpioCall, ThreadInv
<1>2. DOMAIN todo' = Thread /\ todo'["main"] = steps /\ todo'["pwm"] = todo["pwm"]
  BY <1>1 DEF Thread
<1>3. alive => pwm_thread_running
  BY <1>1 DEF ThreadInv, AtEnd
<1> QED
  BY <1>2, <1>3, Zenon DEF ThreadInv

LEMMA TwoAndOne ==
  ASSUME NEW a, NEW b, NEW c
  PROVE  <<a, b>> \o <<c>> = <<a, b, c>>
<1> DEFINE S == {a, b, c}
           s == <<a, b>> \o <<c>>
           t == <<a, b, c>>
<1>1. <<a, b>> \in Seq(S) /\ <<c>> \in Seq(S) /\ t \in Seq(S)
  OBVIOUS
<1>2. s \in Seq(S) /\ Len(s) = 3
  BY <1>1, ConcatProperties
<1>3. s[1] = a /\ s[2] = b /\ s[3] = c
  BY <1>1, ConcatProperties
<1>4. Len(t) = 3 /\ t[1] = a /\ t[2] = b /\ t[3] = c
  OBVIOUS
<1> HIDE DEF s, t
<1>5. \A i \in 1 .. Len(s) : s[i] = t[i]
  BY <1>2, <1>3, <1>4
<1>6. s = t
  BY <1>1, <1>2, <1>4, <1>5, SeqEqual
<1> QED
  BY <1>6 DEF s, t

LEMMA SketchKeepsThread == ThreadInv /\ GpioSketch => ThreadInv'
<1> SUFFICES ASSUME ThreadInv, GpioSketch
             PROVE  ThreadInv'
  OBVIOUS
<1>0. wiring.pins \subseteq Pin /\ wiring.pwm \subseteq Pin
  BY WiringAssumption DEF ThreadInv
<1>1. CASE GpioBegin
  <2>1. /\ todo["main"] = <<>> /\ todo' = [todo EXCEPT !["main"] = <<>>] /\ is_open' = TRUE
        /\ UNCHANGED <<wiring, alive, pwm_thread_running>>
        /\ DOMAIN todo = Thread
    BY <1>1 DEF GpioBegin, GpioCall, threadVars, ThreadInv
  <2>2. DOMAIN todo' = Thread /\ todo'["main"] = <<>> /\ todo'["pwm"] = todo["pwm"]
    BY <2>1 DEF Thread
  <2>3. <<>> \in Seq(OrdinaryStep)
    OBVIOUS
  <2>4. alive => pwm_thread_running
    BY <2>1 DEF ThreadInv, AtEnd
  <2> QED
    BY <2>1, <2>2, <2>3, <2>4, Zenon DEF ThreadInv
<1>2. CASE GpioEnd
  <2> DEFINE stop == IF pwm_thread_running
                     THEN <<[do |-> "clear_running"], [do |-> "join"]>> ELSE <<>>
  <2>1. /\ todo["main"] = <<>> /\ todo' = [todo EXCEPT !["main"] = stop \o <<[do |-> "close"]>>]
        /\ UNCHANGED <<wiring, is_open, alive, pwm_thread_running>> /\ is_open
        /\ DOMAIN todo = Thread
    BY <1>2 DEF GpioEnd, GpioCall, classVars, threadVars, ThreadInv
  <2>2. /\ DOMAIN todo' = Thread /\ todo'["main"] = stop \o <<[do |-> "close"]>>
        /\ todo'["pwm"] = todo["pwm"]
    BY <2>1 DEF Thread
  <2>3. alive => pwm_thread_running
    BY <2>1 DEF ThreadInv, AtEnd
  <2>4. CASE pwm_thread_running
    <3>1. stop = <<[do |-> "clear_running"], [do |-> "join"]>>
      BY <2>4
    <3>2. todo'["main"] = <<[do |-> "clear_running"], [do |-> "join"], [do |-> "close"]>>
      BY <2>2, <3>1, TwoAndOne, Zenon
    <3> QED
      BY <2>1, <2>2, <3>2, Zenon DEF ThreadInv, AtEnd
  <2>5. CASE ~pwm_thread_running
    <3>1. todo'["main"] = <<[do |-> "close"]>>
      BY <2>2, <2>5
    <3> QED
      BY <2>1, <2>2, <2>3, <2>5, <3>1, Zenon DEF ThreadInv, AtEnd
  <2> QED
    BY <2>4, <2>5
<1>3. ASSUME NEW p \in Pin, NEW mode, pinMode(p, mode)
      PROVE  ThreadInv'
  BY <1>3, CallSteps, CallKeepsThread DEF pinMode, threadVars
<1>4. ASSUME NEW p \in Pin, NEW level \in Level, digitalWrite(p, level)
      PROVE  ThreadInv'
  BY <1>4, CallSteps, CallKeepsThread DEF digitalWrite, classVars, threadVars
<1>5. ASSUME NEW p \in Pin, digitalRead(p)
      PROVE  ThreadInv'
  BY <1>5, CallSteps, CallKeepsThread DEF digitalRead, classVars, threadVars
<1>6. ASSUME NEW p \in Pin, NEW value \in {0, 128, 255}, NEW on \in BOOLEAN,
             analogWrite(p, value, on)
      PROVE  ThreadInv'
  <2>1. /\ AnalogSteps(p, value, on) \in Seq(OrdinaryStep)
        /\ updateGPIOState(getChannel(p)) \o AnalogSteps(p, value, on) \in Seq(OrdinaryStep)
    BY CallSteps, ConcatProperties
  <2>2. is_open /\ UNCHANGED <<wiring, is_open, alive, pwm_thread_running>>
    BY <1>6 DEF analogWrite, threadVars
  <2>3. \/ GpioCall(AnalogSteps(p, value, on))
        \/ GpioCall(updateGPIOState(getChannel(p)) \o AnalogSteps(p, value, on))
    BY <1>6 DEF analogWrite
  <2> QED
    BY <2>1, <2>2, <2>3, CallKeepsThread
<1>7. ASSUME NEW p \in Pin, NEW on \in BOOLEAN, analogWriteFrequency(p, on)
      PROVE  ThreadInv'
  BY <1>7, CallSteps, CallKeepsThread DEF analogWriteFrequency, classVars, threadVars
<1> QED
  BY <1>0, <1>1, <1>2, <1>3, <1>4, <1>5, <1>6, <1>7 DEF GpioSketch

(* A step of either thread that is none of end(). *)
LEMMA SharedChanges ==
  ASSUME NEW t \in Thread, Shared(t)
  PROVE  /\ todo[t] # <<>> /\ Head(todo[t]).do \notin EndStep
         /\ UNCHANGED <<wiring, is_open, alive, pwm_thread_running>>
         /\ \/ todo' = [todo EXCEPT ![t] = Tail(@)]
            \/ todo' = [todo EXCEPT ![t] = GivenUp(@)]
<1>1. todo[t] # <<>> /\ Head(todo[t]).do \notin EndStep
  BY DEF Shared, Lock, Unlock, LoadValues, StoreValues, LoadDirections, UsbSetInterface,
         UsbSetBitmode, UsbWriteData, UsbReadPins, UsbFail, Doing, Now, EndStep
<1>2. UNCHANGED <<wiring, is_open, alive, pwm_thread_running>>
  BY DEF Shared, Lock, Unlock, LoadValues, StoreValues, LoadDirections, UsbSetInterface,
         UsbSetBitmode, UsbWriteData, UsbReadPins, UsbFail, classVars, threadVars
<1>3. \/ todo' = [todo EXCEPT ![t] = Tail(@)]
      \/ todo' = [todo EXCEPT ![t] = GivenUp(@)]
  BY DEF Shared, Lock, Unlock, LoadValues, StoreValues, LoadDirections, UsbSetInterface,
         UsbSetBitmode, UsbWriteData, UsbReadPins, UsbFail, StepDone
<1> QED
  BY <1>1, <1>2, <1>3

LEMMA EndSteps ==
  ASSUME AtEnd
  PROVE  todo["main"] # <<>> /\ Head(todo["main"]).do \in EndStep
BY DEF AtEnd, EndStep

(* A step of the main thread within a call but end(). *)
LEMMA OrdinaryKeepsThread ==
  ASSUME ThreadInv, todo["main"] # <<>>, Head(todo["main"]).do \notin EndStep,
         \/ todo' = [todo EXCEPT !["main"] = Tail(@)]
         \/ todo' = [todo EXCEPT !["main"] = GivenUp(@)],
         UNCHANGED <<wiring, is_open>>,
         \/ UNCHANGED <<alive, pwm_thread_running>>
         \/ alive' = TRUE /\ pwm_thread_running' = TRUE
  PROVE  ThreadInv'
<1>1. /\ todo["main"] \in Seq(OrdinaryStep) /\ (alive => pwm_thread_running)
      /\ DOMAIN todo = Thread /\ is_open
  BY EndSteps DEF ThreadInv
<1>2. /\ DOMAIN todo' = Thread /\ todo'["pwm"] = todo["pwm"]
      /\ todo'["main"] \in {Tail(todo["main"]), GivenUp(todo["main"])}
  <2>1. "main" \in DOMAIN todo /\ "pwm" \in DOMAIN todo /\ "pwm" # "main"
    BY <1>1 DEF Thread
  <2>2. CASE todo' = [todo EXCEPT !["main"] = Tail(@)]
    BY <1>1, <2>1, <2>2
  <2>3. CASE todo' = [todo EXCEPT !["main"] = GivenUp(@)]
    BY <1>1, <2>1, <2>3
  <2> QED
    BY <2>2, <2>3
<1>3. todo'["main"] \in Seq(OrdinaryStep)
  <2>1. Tail(todo["main"]) \in Seq(OrdinaryStep)
    BY <1>1, HeadTailProperties
  <2>2. GivenUp(todo["main"]) \in Seq(OrdinaryStep)
    BY <1>1, GivenUpIsRest
  <2> QED
    BY <1>2, <2>1, <2>2
<1>4. /\ alive' \in BOOLEAN /\ pwm_thread_running' \in BOOLEAN
      /\ (alive' => pwm_thread_running') /\ (alive => alive')
  <2>1. CASE UNCHANGED <<alive, pwm_thread_running>>
    BY <1>1, <2>1 DEF ThreadInv
  <2>2. CASE alive' = TRUE /\ pwm_thread_running' = TRUE
    BY <2>2
  <2> QED
    BY <2>1, <2>2
<1> QED
  BY <1>1, <1>2, <1>3, <1>4, Zenon DEF ThreadInv

(* The steps of end(). *)
LEMMA EndKeepsThread == ThreadInv /\ (ClearRunning \/ Join \/ CloseContext) => ThreadInv'
<1> SUFFICES ASSUME ThreadInv, ClearRunning \/ Join \/ CloseContext
             PROVE  ThreadInv'
  OBVIOUS
<1>1. /\ todo["main"] # <<>> /\ DOMAIN todo = Thread
      /\ todo' = [todo EXCEPT !["main"] = Tail(@)] /\ UNCHANGED <<wiring, alive>>
  BY DEF ClearRunning, Join, CloseContext, Doing, StepDone, threadVars, ThreadInv
<1>2. Head(todo["main"]).do \in EndStep
  BY DEF ClearRunning, Join, CloseContext, Doing, EndStep
<1>3. AtEnd
  <2> SUFFICES ASSUME todo["main"] \in Seq(OrdinaryStep)
               PROVE  FALSE
    BY DEF ThreadInv
  <2>1. Head(todo["main"]) \in OrdinaryStep
    BY <1>1, HeadTailProperties
  <2> QED
    BY <1>2, <2>1 DEF OrdinaryStep, EndStep
<1>4. /\ DOMAIN todo' = Thread /\ todo'["pwm"] = todo["pwm"]
      /\ todo'["main"] = Tail(todo["main"])
  BY <1>1 DEF Thread
<1>5. CASE ClearRunning
  <2>1. todo["main"] = <<[do |-> "clear_running"], [do |-> "join"], [do |-> "close"]>>
    BY <1>3, <1>5 DEF ClearRunning, Doing, AtEnd
  <2>2. /\ todo'["main"] = <<[do |-> "join"], [do |-> "close"]>>
        /\ pwm_thread_running' = FALSE /\ is_open' = is_open
    BY <1>4, <1>5, <2>1 DEF ClearRunning, classVars
  <2>3. AtEnd'
    BY <2>2 DEF AtEnd
  <2> QED
    BY <1>1, <1>4, <2>2, <2>3, Zenon DEF ThreadInv
<1>6. CASE Join
  <2>1. todo["main"] = <<[do |-> "join"], [do |-> "close"]>> /\ ~pwm_thread_running
    BY <1>3, <1>6 DEF Join, Doing, AtEnd
  <2>2. /\ todo'["main"] = <<[do |-> "close"]>> /\ ~alive
        /\ UNCHANGED <<pwm_thread_running, is_open>>
    BY <1>4, <1>6, <2>1 DEF Join, classVars, threadVars
  <2>3. AtEnd'
    BY <1>1, <2>1, <2>2 DEF AtEnd
  <2> QED
    BY <1>1, <1>4, <2>2, <2>3, Zenon DEF ThreadInv
<1>7. CASE CloseContext
  <2>1. todo["main"] = <<[do |-> "close"]>> /\ ~alive
    BY <1>3, <1>7 DEF CloseContext, Doing, AtEnd
  <2>2. /\ todo'["main"] = <<>> /\ is_open' = FALSE /\ UNCHANGED pwm_thread_running
    BY <1>4, <1>7, <2>1 DEF CloseContext, threadVars
  <2>3. todo'["main"] \in Seq(OrdinaryStep)
    BY <2>2
  <2> QED
    BY <1>1, <1>4, <2>1, <2>2, <2>3, Zenon DEF ThreadInv
<1> QED
  BY <1>5, <1>6, <1>7

(* The PWM thread. *)
LEMMA PwmKeepsThread == ThreadInv /\ Pwm => ThreadInv'
<1> SUFFICES ASSUME ThreadInv, Pwm
             PROVE  ThreadInv'
  OBVIOUS
<1>1. UNCHANGED <<wiring, is_open, pwm_thread_running>>
  <2>1. Shared("pwm") => UNCHANGED <<wiring, is_open, pwm_thread_running>>
    BY SharedChanges DEF Thread
  <2> QED
    BY <2>1 DEF Pwm, pwmThreadFunction, Edges, classVars, threadVars
<1>2. alive
  <2>1. Shared("pwm") => todo["pwm"] # <<>>
    BY SharedChanges DEF Thread
  <2>2. Edges("pwm") => todo["pwm"] # <<>>
    BY DEF Edges, Doing
  <2>3. pwmThreadFunction => alive
    BY DEF pwmThreadFunction
  <2> QED
    BY <2>1, <2>2, <2>3, Zenon DEF Pwm, ThreadInv
<1>3. \/ alive' = alive /\ \E steps : todo' = [todo EXCEPT !["pwm"] = steps]
      \/ todo["pwm"] = <<>> /\ todo' = todo /\ alive' = FALSE /\ ~pwm_thread_running
  <2>1. Shared("pwm") => /\ alive' = alive
                         /\ \/ todo' = [todo EXCEPT !["pwm"] = Tail(@)]
                            \/ todo' = [todo EXCEPT !["pwm"] = GivenUp(@)]
    BY SharedChanges DEF Thread
  <2>2. Edges("pwm") => alive' = alive /\ \E steps : todo' = [todo EXCEPT !["pwm"] = steps]
    BY Zenon DEF Edges, threadVars
  <2>3. pwmThreadFunction =>
          \/ alive' = alive /\ \E steps : todo' = [todo EXCEPT !["pwm"] = steps]
          \/ todo["pwm"] = <<>> /\ todo' = todo /\ alive' = FALSE /\ ~pwm_thread_running
    BY Zenon DEF pwmThreadFunction
  <2> QED
    BY <2>1, <2>2, <2>3, Zenon DEF Pwm
<1>4. CASE alive' = alive /\ \E steps : todo' = [todo EXCEPT !["pwm"] = steps]
  <2>1. DOMAIN todo' = Thread /\ todo'["main"] = todo["main"]
    BY <1>4 DEF ThreadInv, Thread
  <2>2. AtEnd => AtEnd'
    BY <1>1, <1>4, <2>1 DEF AtEnd
  <2> QED
    BY <1>1, <1>2, <1>4, <2>1, <2>2, Zenon DEF ThreadInv
<1>5. CASE todo["pwm"] = <<>> /\ todo' = todo /\ alive' = FALSE /\ ~pwm_thread_running
  <2>1. AtEnd => AtEnd'
    BY <1>1, <1>5 DEF AtEnd
  <2> QED
    BY <1>1, <1>5, <2>1, Zenon DEF ThreadInv
<1> QED
  BY <1>3, <1>4, <1>5

LEMMA StepThreadInv == ThreadInv /\ [FtdiGpioNext]_ftdiGpioVars => ThreadInv'
<1> SUFFICES ASSUME ThreadInv, [FtdiGpioNext]_ftdiGpioVars
             PROVE  ThreadInv'
  OBVIOUS
<1>1. CASE Shared("main")
  BY <1>1, SharedChanges, OrdinaryKeepsThread DEF Thread
<1>2. CASE ChangeEntry
  BY <1>2, OrdinaryKeepsThread DEF ChangeEntry, Now, StepDone, threadVars, EndStep
<1>3. CASE startPWMThread
  <2>1. Head(todo["main"]).do \notin EndStep /\ todo["main"] # <<>>
    BY <1>3 DEF startPWMThread, Doing, EndStep
  <2> QED
    BY <1>3, <2>1, OrdinaryKeepsThread DEF startPWMThread, StepDone, classVars
<1>4. CASE UNCHANGED ftdiGpioVars
  <2>1. UNCHANGED <<wiring, is_open, alive, pwm_thread_running, todo>>
    BY <1>4 DEF ftdiGpioVars, classVars, threadVars
  <2> QED
    BY <2>1 DEF ThreadInv, AtEnd
<1> QED
  BY <1>1, <1>2, <1>3, <1>4, SketchKeepsThread, EndKeepsThread, PwmKeepsThread
  DEF FtdiGpioNext, Main

LEMMA ThreadInvariant == FtdiGpioSpec => []ThreadInv
BY InitThreadInv, StepThreadInv, PTL DEF FtdiGpioSpec

(* No call of libftdi is made with a context that end() has freed,         *)
(* whatever the PWM thread was doing when end() was called.                *)
THEOREM ContextOutlivesThread == FtdiGpioSpec => []NoUseAfterFree
<1>1. ThreadInv => NoUseAfterFree
  BY DEF ThreadInv, NoUseAfterFree, Thread
<1> QED
  BY <1>1, ThreadInvariant, PTL

(***************************************************************************)
(* Lists of steps.  W, O, C, B and F are sets of steps.                    *)
(***************************************************************************)
(* At place k an O has come and no C since, where `held' tells whether     *)
(* that was so at the beginning.                                           *)
Within(s, k, O, C, held) ==
  \/ held /\ \A j \in 1 .. k - 1 : s[j] \notin C
  \/ \E j \in 1 .. k - 1 : s[j] \in O /\ \A m \in j + 1 .. k - 1 : s[m] \notin C
Covered(s, W, O, C, held) ==
  \A k \in 1 .. Len(s) : s[k] \in W => Within(s, k, O, C, held)

(* Each W comes right after a B, but for the first step of the list; in a  *)
(* list that is complete, also that one.                                   *)
Preceded(s, W, B) == \A k \in 2 .. Len(s) : s[k] \in W => s[k - 1] \in B
StartsWithout(s, W) == s # <<>> => s[1] \notin W

(* After each W there is an F. *)
Has(s, F) == \E k \in 1 .. Len(s) : s[k] \in F
Followed(s, W, F) ==
  \A k \in 1 .. Len(s) : s[k] \in W => \E j \in k + 1 .. Len(s) : s[j] \in F

(* What is left of a list after its first n steps. *)
RestOf(r, s, n) ==
  n \in 1 .. Len(s) /\ Len(r) = Len(s) - n /\ \A i \in 1 .. Len(r) : r[i] = s[i + n]

LEMMA TailIsRest ==
  ASSUME NEW S, NEW s \in Seq(S), s # <<>>
  PROVE  Tail(s) \in Seq(S) /\ RestOf(Tail(s), s, 1) /\ Head(s) = s[1] /\ s[1] \in S
<1>1. Len(s) \in Nat /\ Len(s) # 0
  OBVIOUS
<1>2. Len(Tail(s)) = Len(s) - 1 /\ \A i \in 1 .. Len(Tail(s)) : Tail(s)[i] = s[i + 1]
  OBVIOUS
<1> QED
  BY <1>1, <1>2 DEF RestOf

LEMMA RestIsFollowed ==
  ASSUME NEW S, NEW s \in Seq(S), NEW r \in Seq(S), NEW n, RestOf(r, s, n),
         NEW W, NEW F, Followed(s, W, F)
  PROVE  Followed(r, W, F)
<1>1. Len(s) \in Nat /\ Len(r) \in Nat /\ n \in Nat
  BY DEF RestOf
<1> SUFFICES ASSUME NEW k \in 1 .. Len(r), r[k] \in W
             PROVE  \E j \in k + 1 .. Len(r) : r[j] \in F
  BY DEF Followed
<1>2. k + n \in 1 .. Len(s) /\ s[k + n] \in W
  BY <1>1 DEF RestOf
<1>3. PICK j \in k + n + 1 .. Len(s) : s[j] \in F
  BY <1>2 DEF Followed
<1>4. j - n \in k + 1 .. Len(r) /\ r[j - n] = s[j]
  BY <1>1, <1>3 DEF RestOf
<1> QED
  BY <1>3, <1>4

LEMMA RestIsPreceded ==
  ASSUME NEW S, NEW s \in Seq(S), NEW r \in Seq(S), NEW n, RestOf(r, s, n),
         NEW W, NEW B, Preceded(s, W, B)
  PROVE  Preceded(r, W, B)
<1>1. Len(s) \in Nat /\ Len(r) \in Nat /\ n \in Nat
  BY DEF RestOf
<1> SUFFICES ASSUME NEW k \in 2 .. Len(r), r[k] \in W
             PROVE  r[k - 1] \in B
  BY DEF Preceded
<1>2. k + n \in 2 .. Len(s) /\ s[k + n] \in W
  BY <1>1 DEF RestOf
<1>3. s[(k + n) - 1] \in B
  BY <1>1, <1>2, Zenon DEF Preceded
<1>4. k - 1 \in 1 .. Len(r) /\ (k - 1) + n = (k + n) - 1
  BY <1>1
<1>5. r[k - 1] = s[(k + n) - 1]
  BY <1>4 DEF RestOf
<1> QED
  BY <1>3, <1>5

LEMMA RestHas ==
  ASSUME NEW S, NEW s \in Seq(S), NEW r \in Seq(S), NEW n, RestOf(r, s, n), NEW F
  PROVE  /\ Has(r, F) => Has(s, F)
         /\ Has(s, F) /\ (\A i \in 1 .. n : s[i] \notin F) => Has(r, F)
<1>1. Len(s) \in Nat /\ Len(r) \in Nat /\ n \in Nat
  BY DEF RestOf
<1>2. ASSUME NEW k \in 1 .. Len(r), r[k] \in F
      PROVE  Has(s, F)
  <2>1. k + n \in 1 .. Len(s) /\ s[k + n] \in F
    BY <1>1, <1>2 DEF RestOf
  <2> QED
    BY <2>1 DEF Has
<1>3. ASSUME NEW k \in 1 .. Len(s), s[k] \in F, \A i \in 1 .. n : s[i] \notin F
      PROVE  Has(r, F)
  <2>1. k \notin 1 .. n
    BY <1>3
  <2>2. k - n \in 1 .. Len(r) /\ k - n + n = k
    BY <1>1, <2>1 DEF RestOf
  <2>3. r[k - n] = s[k]
    BY <2>2 DEF RestOf
  <2> QED
    BY <1>3, <2>2, <2>3 DEF Has
<1> QED
  BY <1>2, <1>3 DEF Has

(* After steps that are neither O nor C nothing changes; a C takes away    *)
(* and an O gives.                                                         *)
Passes(s, n, O, C, held, after) ==
  \/ after = held /\ \A i \in 1 .. n : s[i] \notin O \cup C
  \/ n = 1 /\ s[1] \in O /\ after = TRUE
  \/ n = 1 /\ s[1] \in C /\ s[1] \notin O

LEMMA RestIsWithin ==
  ASSUME NEW S, NEW s \in Seq(S), NEW r \in Seq(S), NEW n, RestOf(r, s, n),
         NEW O, NEW C, NEW held \in BOOLEAN, NEW after \in BOOLEAN,
         Passes(s, n, O, C, held, after),
         NEW k \in 1 .. Len(r) + 1, Within(s, k + n, O, C, held)
  PROVE  Within(r, k, O, C, after)
<1>1. Len(s) \in Nat /\ Len(r) \in Nat /\ n \in Nat /\ n >= 1 /\ k \in Nat
  BY DEF RestOf
<1>2. \A i \in 1 .. k - 1 : i \in 1 .. Len(r) /\ r[i] = s[i + n] /\ i + n \in 1 .. (k + n) - 1
  BY <1>1 DEF RestOf
<1>3. 1 \in 1 .. (k + n) - 1
  BY <1>1
<1>4. CASE held /\ \A j \in 1 .. (k + n) - 1 : s[j] \notin C
  <2>1. \A j \in 1 .. k - 1 : r[j] \notin C
    BY <1>2, <1>4
  <2>2. after
    BY <1>3, <1>4 DEF Passes
  <2> QED
    BY <2>1, <2>2 DEF Within
<1>5. ASSUME NEW j \in 1 .. (k + n) - 1, s[j] \in O,
             \A m \in j + 1 .. (k + n) - 1 : s[m] \notin C
      PROVE  Within(r, k, O, C, after)
  <2>1. CASE j > n
    <3>1. j - n \in 1 .. k - 1 /\ j - n + n = j
      BY <1>1, <2>1
    <3>2. r[j - n] \in O
      BY <1>2, <1>5, <3>1
    <3>3. \A m \in j - n + 1 .. k - 1 : m \in 1 .. k - 1 /\ m + n \in j + 1 .. (k + n) - 1
      BY <1>1, <2>1
    <3>4. \A m \in j - n + 1 .. k - 1 : r[m] \notin C
      BY <1>2, <1>5, <3>3
    <3> QED
      BY <3>1, <3>2, <3>4 DEF Within
  <2>2. CASE j <= n
    <3>1. n = 1 /\ j = 1 /\ after = TRUE
      BY <1>1, <1>5, <2>2 DEF Passes
    <3>2. \A m \in 1 .. k - 1 : m + n \in j + 1 .. (k + n) - 1
      BY <1>1, <3>1
    <3>3. \A m \in 1 .. k - 1 : r[m] \notin C
      BY <1>2, <1>5, <3>2
    <3> QED
      BY <3>1, <3>3 DEF Within
  <2> QED
    BY <1>1, <2>1, <2>2
<1> QED
  BY <1>4, <1>5, Zenon DEF Within

LEMMA RestIsCovered ==
  ASSUME NEW S, NEW s \in Seq(S), NEW r \in Seq(S), NEW n, RestOf(r, s, n),
         NEW W, NEW O, NEW C, NEW held \in BOOLEAN, NEW after \in BOOLEAN,
         Passes(s, n, O, C, held, after),
         Covered(s, W, O, C, held)
  PROVE  Covered(r, W, O, C, after)
<1> SUFFICES ASSUME NEW k \in 1 .. Len(r), r[k] \in W
             PROVE  Within(r, k, O, C, after)
  BY DEF Covered
<1>1. Len(s) \in Nat /\ Len(r) \in Nat /\ n \in Nat
  BY DEF RestOf
<1>2. k + n \in 1 .. Len(s) /\ s[k + n] \in W /\ k \in 1 .. Len(r) + 1
  BY <1>1 DEF RestOf
<1>3. Within(s, k + n, O, C, held)
  BY <1>2 DEF Covered
<1> QED
  BY <1>2, <1>3, RestIsWithin

LEMMA ConcatPlaces ==
  ASSUME NEW S, NEW s \in Seq(S), NEW r \in Seq(S)
  PROVE  /\ s \o r \in Seq(S) /\ Len(s) \in Nat /\ Len(r) \in Nat
         /\ Len(s \o r) = Len(s) + Len(r)
         /\ \A i \in 1 .. Len(s) : (s \o r)[i] = s[i]
         /\ \A i \in 1 .. Len(r) : (s \o r)[Len(s) + i] = r[i]
         /\ \A i \in 1 .. Len(s \o r) :
              \/ i \in 1 .. Len(s)
              \/ i - Len(s) \in 1 .. Len(r) /\ Len(s) + (i - Len(s)) = i
<1> DEFINE a == Len(s)
           b == Len(r)
           c == s \o r
<1>1. c \in Seq(S) /\ Len(c) = a + b /\ a \in Nat /\ b \in Nat
  BY ConcatProperties
<1>2. \A i \in 1 .. a + b : c[i] = IF i <= a THEN s[i] ELSE r[i - a]
  BY ConcatProperties
<1> HIDE DEF a, b, c
<1>3. ASSUME NEW i \in 1 .. a
      PROVE  c[i] = s[i]
  BY <1>1, <1>2
<1>4. ASSUME NEW i \in 1 .. b
      PROVE  c[a + i] = r[i]
  <2>1. a + i \in 1 .. a + b /\ ~(a + i <= a) /\ (a + i) - a = i
    BY <1>1
  <2> QED
    BY <1>2, <2>1
<1>5. \A i \in 1 .. Len(c) : i \in 1 .. a \/ (i - a \in 1 .. b /\ a + (i - a) = i)
  BY <1>1
<1> QED
  BY <1>1, <1>3, <1>4, <1>5 DEF a, b, c

LEMMA ConcatHas ==
  ASSUME NEW S, NEW s \in Seq(S), NEW r \in Seq(S), NEW F
  PROVE  Has(s \o r, F) <=> Has(s, F) \/ Has(r, F)
<1> DEFINE a == Len(s)
           c == s \o r
<1>1. /\ a \in Nat /\ Len(r) \in Nat /\ Len(c) = a + Len(r)
      /\ \A i \in 1 .. a : c[i] = s[i]
      /\ \A i \in 1 .. Len(r) : c[a + i] = r[i]
      /\ \A i \in 1 .. Len(c) : i \in 1 .. a \/ (i - a \in 1 .. Len(r) /\ a + (i - a) = i)
  BY ConcatPlaces
<1> HIDE DEF c
<1>2. ASSUME NEW i \in 1 .. Len(c), c[i] \in F
      PROVE  Has(s, F) \/ Has(r, F)
  <2>1. CASE i \in 1 .. a
    BY <1>1, <1>2, <2>1 DEF Has
  <2>2. CASE i - a \in 1 .. Len(r) /\ a + (i - a) = i
    <3>1. r[i - a] = c[i]
      BY <1>1, <2>2
    <3> QED
      BY <1>2, <2>2, <3>1 DEF Has
  <2> QED
    BY <1>1, <2>1, <2>2
<1>3. ASSUME NEW i \in 1 .. a, s[i] \in F
      PROVE  Has(c, F)
  <2>1. i \in 1 .. Len(c)
    BY <1>1
  <2> QED
    BY <1>1, <1>3, <2>1 DEF Has
<1>4. ASSUME NEW i \in 1 .. Len(r), r[i] \in F
      PROVE  Has(c, F)
  <2>1. a + i \in 1 .. Len(c)
    BY <1>1
  <2> QED
    BY <1>1, <1>4, <2>1 DEF Has
<1>5. (Has(c, F) => Has(s, F) \/ Has(r, F)) /\ (Has(s, F) => Has(c, F)) /\ (Has(r, F) => Has(c, F))
  BY <1>2, <1>3, <1>4 DEF Has
<1> QED
  BY <1>5 DEF c

LEMMA ConcatFollowed ==
  ASSUME NEW S, NEW s \in Seq(S), NEW r \in Seq(S), NEW W, NEW F,
         Followed(s, W, F) \/ Has(r, F), Followed(r, W, F)
  PROVE  Followed(s \o r, W, F)
<1> DEFINE a == Len(s)
           c == s \o r
<1>1. /\ a \in Nat /\ Len(r) \in Nat /\ Len(c) = a + Len(r)
      /\ \A i \in 1 .. a : c[i] = s[i]
      /\ \A i \in 1 .. Len(r) : c[a + i] = r[i]
      /\ \A i \in 1 .. Len(c) : i \in 1 .. a \/ (i - a \in 1 .. Len(r) /\ a + (i - a) = i)
  BY ConcatPlaces
<1> HIDE DEF c
<1>2. ASSUME NEW k \in 1 .. a, s[k] \in W
      PROVE  \E j \in k + 1 .. Len(c) : c[j] \in F
  <2>1. CASE Has(r, F)
    <3>1. PICK i \in 1 .. Len(r) : r[i] \in F
      BY <2>1 DEF Has
    <3>2. a + i \in k + 1 .. Len(c) /\ c[a + i] \in F
      BY <1>1, <3>1
    <3> QED
      BY <3>2
  <2>2. CASE Followed(s, W, F)
    <3>1. PICK j \in k + 1 .. a : s[j] \in F
      BY <1>2, <2>2 DEF Followed
    <3>2. j \in k + 1 .. Len(c) /\ c[j] \in F
      BY <1>1, <3>1
    <3> QED
      BY <3>2
  <2> QED
    BY <2>1, <2>2
<1>3. ASSUME NEW k \in 1 .. Len(r), r[k] \in W
      PROVE  \E j \in a + k + 1 .. Len(c) : c[j] \in F
  <2>1. PICK j \in k + 1 .. Len(r) : r[j] \in F
    BY <1>3 DEF Followed
  <2>2. a + j \in a + k + 1 .. Len(c) /\ c[a + j] \in F
    BY <1>1, <2>1
  <2> QED
    BY <2>2
<1>4. ASSUME NEW k \in 1 .. Len(c), c[k] \in W
      PROVE  \E j \in k + 1 .. Len(c) : c[j] \in F
  <2>1. CASE k \in 1 .. a
    BY <1>1, <1>2, <1>4, <2>1
  <2>2. CASE k - a \in 1 .. Len(r) /\ a + (k - a) = k
    <3>1. r[k - a] \in W
      BY <1>1, <1>4, <2>2
    <3>2. \E j \in a + (k - a) + 1 .. Len(c) : c[j] \in F
      BY <1>3, <2>2, <3>1
    <3> QED
      BY <2>2, <3>2
  <2> QED
    BY <1>1, <2>1, <2>2
<1>5. Followed(c, W, F)
  BY <1>4 DEF Followed
<1> QED
  BY <1>5 DEF c

LEMMA ConcatPreceded ==
  ASSUME NEW S, NEW s \in Seq(S), NEW r \in Seq(S), NEW W, NEW B,
         Preceded(s, W, B), Preceded(r, W, B), StartsWithout(s, W), StartsWithout(r, W)
  PROVE  Preceded(s \o r, W, B) /\ StartsWithout(s \o r, W)
<1> DEFINE a == Len(s)
           c == s \o r
<1>1. /\ a \in Nat /\ Len(r) \in Nat /\ Len(c) = a + Len(r) /\ c \in Seq(S)
      /\ \A i \in 1 .. a : c[i] = s[i]
      /\ \A i \in 1 .. Len(r) : c[a + i] = r[i]
      /\ \A i \in 1 .. Len(c) : i \in 1 .. a \/ (i - a \in 1 .. Len(r) /\ a + (i - a) = i)
  BY ConcatPlaces
<1> HIDE DEF c
<1>2. \A i \in 1 .. Len(r) : i = 1 => r[i] \notin W
  BY <1>1 DEF StartsWithout
<1>3. ASSUME NEW k \in 1 .. Len(c), c[k] \in W
      PROVE  k # 1 /\ c[k - 1] \in B
  <2>1. CASE k \in 1 .. a
    <3>1. s[k] \in W /\ k # 1
      BY <1>1, <1>3, <2>1 DEF StartsWithout
    <3>2. k \in 2 .. a /\ k - 1 \in 1 .. a
      BY <1>1, <2>1, <3>1
    <3>3. s[k - 1] \in B
      BY <3>1, <3>2 DEF Preceded
    <3> QED
      BY <1>1, <3>1, <3>2, <3>3
  <2>2. CASE k - a \in 1 .. Len(r) /\ a + (k - a) = k
    <3>1. r[k - a] \in W
      BY <1>1, <1>3, <2>2
    <3>2. k - a # 1
      BY <1>2, <2>2, <3>1
    <3>3. k - a \in 2 .. Len(r) /\ (k - a) - 1 \in 1 .. Len(r) /\ a + ((k - a) - 1) = k - 1 /\ k # 1
      BY <1>1, <2>2, <3>2
    <3>4. r[(k - a) - 1] \in B
      BY <3>1, <3>3 DEF Preceded
    <3> QED
      BY <1>1, <3>3, <3>4
  <2> QED
    BY <1>1, <2>1, <2>2
<1>4. Preceded(c, W, B)
  BY <1>1, <1>3 DEF Preceded
<1>5. StartsWithout(c, W)
  BY <1>1, <1>3 DEF StartsWithout
<1> QED
  BY <1>4, <1>5 DEF c

LEMMA ConcatWithin ==
  ASSUME NEW S, NEW s \in Seq(S), NEW r \in Seq(S), NEW O, NEW C, NEW held \in BOOLEAN
  PROVE  /\ \A k \in 1 .. Len(s) + 1 :
              Within(s, k, O, C, held) => Within(s \o r, k, O, C, held)
         /\ \A k \in 1 .. Len(r) + 1, between \in BOOLEAN :
              /\ between => Within(s, Len(s) + 1, O, C, held)
              /\ Within(r, k, O, C, between)
              => Within(s \o r, Len(s) + k, O, C, held)
<1> DEFINE a == Len(s)
           c == s \o r
<1>1. /\ a \in Nat /\ Len(r) \in Nat /\ Len(c) = a + Len(r)
      /\ \A i \in 1 .. a : c[i] = s[i]
      /\ \A i \in 1 .. Len(r) : c[a + i] = r[i]
  BY ConcatPlaces
<1> HIDE DEF c
<1>2. ASSUME NEW k \in 1 .. a + 1, Within(s, k, O, C, held)
      PROVE  Within(c, k, O, C, held)
  <2>1. \A i \in 1 .. k - 1 : i \in 1 .. a /\ c[i] = s[i]
    BY <1>1
  <2>2. \A j \in 1 .. k - 1 : \A m \in j + 1 .. k - 1 : m \in 1 .. k - 1
    BY <1>1
  <2> QED
    BY <1>2, <2>1, <2>2 DEF Within
<1>3. ASSUME NEW k \in 1 .. Len(r) + 1, NEW between \in BOOLEAN,
             between => Within(s, a + 1, O, C, held), Within(r, k, O, C, between)
      PROVE  Within(c, a + k, O, C, held)
  <2> DEFINE b == a + k
  <2>1. b \in Nat /\ k \in Nat /\ b - 1 = a + (k - 1) /\ (a + 1) - 1 = a
    BY <1>1
  <2>2. \A i \in 1 .. k - 1 : i \in 1 .. Len(r) /\ c[a + i] = r[i] /\ a + i \in 1 .. b - 1
    BY <1>1
  <2>3. \A i \in 1 .. b - 1 : i \in 1 .. a \/ (i - a \in 1 .. k - 1 /\ a + (i - a) = i)
    BY <1>1
  <2>4. CASE between /\ \A j \in 1 .. k - 1 : r[j] \notin C
    <3>1. \A i \in 1 .. b - 1 : i \in 1 .. a \/ c[i] \notin C
      BY <2>2, <2>3, <2>4
    <3>2. CASE held /\ \A j \in 1 .. a : s[j] \notin C
      <4>1. \A i \in 1 .. b - 1 : c[i] \notin C
        BY <1>1, <3>1, <3>2
      <4> QED
        BY <3>2, <4>1 DEF Within, b
    <3>3. ASSUME NEW j \in 1 .. a, s[j] \in O, \A m \in j + 1 .. a : s[m] \notin C
          PROVE  Within(c, b, O, C, held)
      <4>1. j \in 1 .. b - 1 /\ c[j] \in O
        BY <1>1, <3>3
      <4>2. \A m \in j + 1 .. b - 1 : m \in 1 .. b - 1 /\ (m \in 1 .. a => m \in j + 1 .. a)
        BY <1>1
      <4>3. \A m \in j + 1 .. b - 1 : c[m] \notin C
        BY <1>1, <3>1, <3>3, <4>2
      <4> QED
        BY <4>1, <4>3 DEF Within
    <3>4. \/ held /\ \A j \in 1 .. a : s[j] \notin C
          \/ \E j \in 1 .. a : s[j] \in O /\ \A m \in j + 1 .. a : s[m] \notin C
      BY <1>3, <2>1, <2>4 DEF Within
    <3> QED
      BY <3>2, <3>3, <3>4 DEF b
  <2>5. ASSUME NEW j \in 1 .. k - 1, r[j] \in O, \A m \in j + 1 .. k - 1 : r[m] \notin C
        PROVE  Within(c, b, O, C, held)
    <3>1. a + j \in 1 .. b - 1 /\ c[a + j] \in O
      BY <2>2, <2>5
    <3>2. ASSUME NEW m \in a + j + 1 .. b - 1
          PROVE  c[m] \notin C
      <4>1. m - a \in j + 1 .. k - 1 /\ m - a \in 1 .. k - 1 /\ a + (m - a) = m
        BY <1>1, <2>1
      <4> QED
        BY <2>2, <2>5, <4>1
    <3> QED
      BY <3>1, <3>2 DEF Within
  <2> QED
    BY <1>3, <2>4, <2>5 DEF Within, b
<1> QED
  BY <1>2, <1>3 DEF c

LEMMA ConcatCovered ==
  ASSUME NEW S, NEW s \in Seq(S), NEW r \in Seq(S), NEW W, NEW O, NEW C,
         NEW held \in BOOLEAN, NEW between \in BOOLEAN,
         between => Within(s, Len(s) + 1, O, C, held),
         Covered(s, W, O, C, held), Covered(r, W, O, C, between)
  PROVE  Covered(s \o r, W, O, C, held)
<1> DEFINE a == Len(s)
           c == s \o r
<1>1. /\ a \in Nat /\ Len(r) \in Nat
      /\ \A i \in 1 .. a : c[i] = s[i]
      /\ \A i \in 1 .. Len(r) : c[a + i] = r[i]
      /\ \A i \in 1 .. Len(c) : i \in 1 .. a \/ (i - a \in 1 .. Len(r) /\ a + (i - a) = i)
  BY ConcatPlaces
<1>2. /\ \A k \in 1 .. a + 1 : Within(s, k, O, C, held) => Within(c, k, O, C, held)
      /\ \A k \in 1 .. Len(r) + 1 :
           Within(r, k, O, C, between) => Within(c, a + k, O, C, held)
  BY ConcatWithin
<1> HIDE DEF c
<1>3. ASSUME NEW k \in 1 .. Len(c), c[k] \in W
      PROVE  Within(c, k, O, C, held)
  <2>1. CASE k \in 1 .. a
    <3>1. Within(s, k, O, C, held) /\ k \in 1 .. a + 1
      BY <1>1, <1>3, <2>1 DEF Covered
    <3> QED
      BY <1>2, <3>1
  <2>2. CASE k - a \in 1 .. Len(r) /\ a + (k - a) = k
    <3>0. r[k - a] = c[k]
      BY <1>1, <2>2
    <3>1. Within(r, k - a, O, C, between) /\ k - a \in 1 .. Len(r) + 1
      BY <1>1, <1>3, <2>2, <3>0 DEF Covered
    <3>2. Within(c, a + (k - a), O, C, held)
      BY <1>2, <3>1
    <3> QED
      BY <2>2, <3>2
  <2> QED
    BY <1>1, <2>1, <2>2
<1>4. Covered(c, W, O, C, held)
  BY <1>3 DEF Covered
<1> QED
  BY <1>4 DEF c

(***************************************************************************)
(* The steps of FtdiGpio by what they do.                                  *)
(***************************************************************************)
GpioStep == OrdinaryStep \cup [do : EndStep \cup {"edges"}]

(* A step as the calls and the PWM thread make it: the channel is that of  *)
(* the pin, and only pins under PWM get an entry.                          *)
LegalStep ==
  {x \in GpioStep : /\ x.do = "store_values" => x.ch = getChannel(x.pin)
                    /\ x.do = "updatePWMPin" => x.pin \in wiring.pwm
                    /\ x.do = "startPWMThread" => wiring.pwm # {}}

StepsThat(what) == {x \in GpioStep : x.do \in what}
StepsOn(c, what) == {x \in GpioStep : x.do \in what /\ x.ch = c}
StepsFor(p, what) == {x \in GpioStep : x.do \in what /\ x.pin = p}

StoresOrUsb ==
  StepsThat({"store_values", "set_bitmode", "write_data", "set_interface", "read_pins"})
Locks == StepsThat({"lock"})
Unlocks == StepsThat({"unlock"})
Switches == StepsThat({"set_interface"})
SwitchesTo(c) == {x \in Switches : x.to = c}
Uses(c) == StepsOn(c, {"set_bitmode", "write_data", "read_pins"})
StoresTo(c) == StepsOn(c, {"store_values"})
Loads(c) == StepsOn(c, {"load_values"})
SetsMode(c) == StepsOn(c, {"set_bitmode"})
LoadsDirections(c) == StepsOn(c, {"load_directions"})
WritesData(c) == StepsOn(c, {"write_data"})

(* What each thread does only with pwm_mutex held. *)
MainLocked == StepsThat({"unlock", "disable"})
PwmLocked == StepsThat({"unlock", "edges", "store_values"})

(* A list in which a thread takes the mutex for what needs it, switches to *)
(* the channel it uses and back, and loads before it stores and before it  *)
(* sets the directions.                                                    *)
WellMade(s, W, held) ==
  /\ s \in Seq(LegalStep)
  /\ Covered(s, W, Locks, Unlocks, held)
  /\ \A c \in Channel :
       /\ Preceded(s, StoresTo(c), Loads(c)) /\ StartsWithout(s, StoresTo(c))
       /\ Preceded(s, SetsMode(c), LoadsDirections(c)) /\ StartsWithout(s, SetsMode(c))
       /\ Covered(s, Uses(c), SwitchesTo(c), Switches, c = "A")
  /\ Within(s, Len(s) + 1, SwitchesTo("A"), Switches, TRUE)

LEMMA ConcatHeldWellMade ==
  ASSUME NEW s, NEW r, NEW W, NEW held \in BOOLEAN, NEW between \in BOOLEAN,
         between => Within(s, Len(s) + 1, Locks, Unlocks, held),
         WellMade(s, W, held), WellMade(r, W, between)
  PROVE  WellMade(s \o r, W, held)
<1>1. s \in Seq(LegalStep) /\ r \in Seq(LegalStep)
  BY DEF WellMade
<1>2. s \o r \in Seq(LegalStep) /\ Len(s \o r) = Len(s) + Len(r) /\ Len(s) \in Nat /\ Len(r) \in Nat
  BY <1>1, ConcatPlaces
<1>3. Covered(s \o r, W, Locks, Unlocks, held)
  <2>1. Covered(s, W, Locks, Unlocks, held) /\ Covered(r, W, Locks, Unlocks, between)
    BY DEF WellMade
  <2> QED
    BY <1>1, <2>1, ConcatCovered
<1>4. ASSUME NEW c \in Channel
      PROVE  /\ Preceded(s \o r, StoresTo(c), Loads(c)) /\ StartsWithout(s \o r, StoresTo(c))
             /\ Preceded(s \o r, SetsMode(c), LoadsDirections(c))
             /\ StartsWithout(s \o r, SetsMode(c))
             /\ Covered(s \o r, Uses(c), SwitchesTo(c), Switches, c = "A")
  <2>1. /\ Preceded(s, StoresTo(c), Loads(c)) /\ StartsWithout(s, StoresTo(c))
        /\ Preceded(r, StoresTo(c), Loads(c)) /\ StartsWithout(r, StoresTo(c))
        /\ Preceded(s, SetsMode(c), LoadsDirections(c)) /\ StartsWithout(s, SetsMode(c))
        /\ Preceded(r, SetsMode(c), LoadsDirections(c)) /\ StartsWithout(r, SetsMode(c))
        /\ Covered(s, Uses(c), SwitchesTo(c), Switches, c = "A")
        /\ Covered(r, Uses(c), SwitchesTo(c), Switches, c = "A")
    BY DEF WellMade
  <2> DEFINE first == (c = "A")
  <2>2. first \in BOOLEAN /\ (first => Within(s, Len(s) + 1, SwitchesTo(c), Switches, first))
    BY DEF WellMade
  <2>3. Preceded(s \o r, StoresTo(c), Loads(c)) /\ StartsWithout(s \o r, StoresTo(c))
    BY <1>1, <2>1, ConcatPreceded
  <2>4. Preceded(s \o r, SetsMode(c), LoadsDirections(c)) /\ StartsWithout(s \o r, SetsMode(c))
    BY <1>1, <2>1, ConcatPreceded
  <2>5. Covered(s, Uses(c), SwitchesTo(c), Switches, first)
        /\ Covered(r, Uses(c), SwitchesTo(c), Switches, first)
    BY <2>1
  <2> HIDE DEF first
  <2>6. Covered(s \o r, Uses(c), SwitchesTo(c), Switches, first)
    BY <1>1, <2>2, <2>5, ConcatCovered
  <2> QED
    BY <2>3, <2>4, <2>6 DEF first
<1>5. Within(s \o r, Len(s \o r) + 1, SwitchesTo("A"), Switches, TRUE)
  <2>1. /\ Within(s, Len(s) + 1, SwitchesTo("A"), Switches, TRUE)
        /\ Within(r, Len(r) + 1, SwitchesTo("A"), Switches, TRUE)
    BY DEF WellMade
  <2>2. Len(r) + 1 \in 1 .. Len(r) + 1 /\ Len(s) + (Len(r) + 1) = Len(s \o r) + 1
    BY <1>2
  <2>3. Within(s \o r, Len(s) + (Len(r) + 1), SwitchesTo("A"), Switches, TRUE)
    BY <1>1, <2>1, <2>2, ConcatWithin
  <2> QED
    BY <2>2, <2>3
<1> QED
  BY <1>2, <1>3, <1>4, <1>5 DEF WellMade

LEMMA ConcatWellMade ==
  ASSUME NEW s, NEW r, NEW W, NEW held \in BOOLEAN,
         WellMade(s, W, held), WellMade(r, W, FALSE)
  PROVE  WellMade(s \o r, W, held)
<1> DEFINE between == FALSE
<1>1. between \in BOOLEAN /\ (between => Within(s, Len(s) + 1, Locks, Unlocks, held))
  OBVIOUS
<1>2. WellMade(r, W, between)
  OBVIOUS
<1> HIDE DEF between
<1> QED
  BY <1>1, <1>2, ConcatHeldWellMade

(* In a list without such steps there is nothing to show. *)
LEMMA WithoutThem ==
  ASSUME NEW S, NEW s \in Seq(S), NEW W, NEW O, NEW C, NEW B, NEW F, NEW held \in BOOLEAN
  PROVE  /\ ~Has(s, W) => /\ Covered(s, W, O, C, held) /\ Preceded(s, W, B)
                          /\ StartsWithout(s, W) /\ Followed(s, W, F)
         /\ ~Has(s, C) => /\ Within(s, Len(s) + 1, O, C, TRUE) /\ Covered(s, W, O, C, TRUE)
<1>1. Len(s) \in Nat /\ (s # <<>> => 1 \in 1 .. Len(s))
  OBVIOUS
<1>2. ASSUME ~Has(s, W)
      PROVE  /\ Covered(s, W, O, C, held) /\ Preceded(s, W, B)
             /\ StartsWithout(s, W) /\ Followed(s, W, F)
  <2>1. \A k \in 1 .. Len(s) : s[k] \notin W
    BY <1>2 DEF Has
  <2>2. \A k \in 2 .. Len(s) : k \in 1 .. Len(s)
    BY <1>1
  <2> QED
    BY <1>1, <2>1, <2>2 DEF Covered, Preceded, StartsWithout, Followed
<1>3. ASSUME ~Has(s, C)
      PROVE  Within(s, Len(s) + 1, O, C, TRUE) /\ Covered(s, W, O, C, TRUE)
  <2>1. \A k \in 1 .. Len(s) : s[k] \notin C
    BY <1>3 DEF Has
  <2>2. \A k \in 1 .. Len(s) + 1 : \A j \in 1 .. k - 1 : j \in 1 .. Len(s)
    BY <1>1
  <2>3. \A k \in 1 .. Len(s) + 1 : Within(s, k, O, C, TRUE)
    BY <2>1, <2>2 DEF Within
  <2>4. Len(s) + 1 \in 1 .. Len(s) + 1 /\ \A k \in 1 .. Len(s) : k \in 1 .. Len(s) + 1
    BY <1>1
  <2> QED
    BY <2>3, <2>4 DEF Covered
<1> QED
  BY <1>2, <1>3

(* Lists that only take and release the mutex for what is done between. *)
LEMMA OnlyMutex ==
  ASSUME NEW s \in Seq(LegalStep), NEW W, NEW held \in BOOLEAN,
         ~Has(s, StoresOrUsb),
         Covered(s, W, Locks, Unlocks, held)
  PROVE  WellMade(s, W, held)
<1>1. \A k \in 1 .. Len(s) :
        s[k] \notin StoresOrUsb
  BY DEF Has
<1>2. ~Has(s, Switches)
  BY <1>1 DEF Has, Switches, StepsThat, StoresOrUsb
<1>3. ASSUME NEW c
      PROVE  ~Has(s, StoresTo(c)) /\ ~Has(s, SetsMode(c)) /\ ~Has(s, Uses(c))
  BY <1>1 DEF Has, StoresTo, SetsMode, Uses, StepsOn, StepsThat, StoresOrUsb
<1>4. ASSUME NEW c \in Channel
      PROVE  /\ Preceded(s, StoresTo(c), Loads(c)) /\ StartsWithout(s, StoresTo(c))
             /\ Preceded(s, SetsMode(c), LoadsDirections(c)) /\ StartsWithout(s, SetsMode(c))
             /\ Covered(s, Uses(c), SwitchesTo(c), Switches, c = "A")
  <2> DEFINE first == (c = "A")
  <2>1. first \in BOOLEAN
    OBVIOUS
  <2> HIDE DEF first
  <2>2. Preceded(s, StoresTo(c), Loads(c)) /\ StartsWithout(s, StoresTo(c))
    BY <1>3, WithoutThem
  <2>3. Preceded(s, SetsMode(c), LoadsDirections(c)) /\ StartsWithout(s, SetsMode(c))
    BY <1>3, WithoutThem
  <2>4. Covered(s, Uses(c), SwitchesTo(c), Switches, first)
    BY <1>3, <2>1, WithoutThem
  <2> QED
    BY <2>2, <2>3, <2>4 DEF first
<1>5. Within(s, Len(s) + 1, SwitchesTo("A"), Switches, TRUE)
  BY <1>2, WithoutThem
<1> QED
  BY <1>4, <1>5 DEF WellMade

LEMMA ChannelOfPin == \A p : getChannel(p) \in Channel
BY DEF getChannel, Channel

(* The literal steps. *)
LEMMA LiteralSteps ==
  /\ \A c \in Channel, what \in {"load_values", "load_directions", "set_bitmode", "write_data",
                                 "read_pins"} :
       [do |-> what, ch |-> c] \in LegalStep
  /\ \A c, to \in Channel : [do |-> "set_interface", ch |-> c, to |-> to] \in LegalStep
  /\ \A p \in Pin, level \in Level :
       [do |-> "store_values", ch |-> getChannel(p), pin |-> p, level |-> level] \in LegalStep
  /\ \A what \in {"lock", "unlock", "clear_running", "join", "close", "edges"} :
       [do |-> what] \in LegalStep
  /\ wiring.pwm # {} => [do |-> "startPWMThread"] \in LegalStep
  /\ \A p \in Pin : [do |-> "disable", pin |-> p] \in LegalStep
  /\ \A p \in Pin, on \in BOOLEAN :
       [do |-> "analogWriteFrequency", pin |-> p, on |-> on] \in LegalStep
  /\ \A p \in Pin \cap wiring.pwm, on \in BOOLEAN :
       [do |-> "updatePWMPin", pin |-> p, on |-> on] \in LegalStep
<1>1. ASSUME NEW c \in Channel, NEW what \in {"load_values", "load_directions", "set_bitmode",
                                              "write_data", "read_pins"}
      PROVE  [do |-> what, ch |-> c] \in LegalStep
  BY DEF LegalStep, GpioStep, OrdinaryStep
<1>2. ASSUME NEW c \in Channel, NEW to \in Channel
      PROVE  [do |-> "set_interface", ch |-> c, to |-> to] \in LegalStep
  BY DEF LegalStep, GpioStep, OrdinaryStep
<1>3. ASSUME NEW p \in Pin, NEW level \in Level
      PROVE  [do |-> "store_values", ch |-> getChannel(p), pin |-> p, level |-> level] \in LegalStep
  <2> DEFINE c == getChannel(p)
  <2>1. c \in Channel
    BY ChannelOfPin
  <2>2. [do |-> "store_values", ch |-> c, pin |-> p, level |-> level] \in GpioStep
    <3> HIDE DEF c
    <3> QED
      BY <2>1 DEF GpioStep, OrdinaryStep
  <2> QED
    BY <2>2 DEF LegalStep
<1>4. ASSUME NEW what \in {"lock", "unlock", "clear_running", "join", "close", "edges"}
      PROVE  [do |-> what] \in LegalStep
  BY DEF LegalStep, GpioStep, OrdinaryStep, EndStep
<1>8. wiring.pwm # {} => [do |-> "startPWMThread"] \in LegalStep
  BY DEF LegalStep, GpioStep, OrdinaryStep
<1>5. ASSUME NEW p \in Pin
      PROVE  [do |-> "disable", pin |-> p] \in LegalStep
  BY DEF LegalStep, GpioStep, OrdinaryStep
<1>6. ASSUME NEW p \in Pin, NEW on \in BOOLEAN
      PROVE  [do |-> "analogWriteFrequency", pin |-> p, on |-> on] \in LegalStep
  BY DEF LegalStep, GpioStep, OrdinaryStep
<1>7. ASSUME NEW p \in Pin \cap wiring.pwm, NEW on \in BOOLEAN
      PROVE  [do |-> "updatePWMPin", pin |-> p, on |-> on] \in LegalStep
  BY DEF LegalStep, GpioStep, OrdinaryStep
<1> QED
  BY <1>1, <1>2, <1>3, <1>4, <1>5, <1>6, <1>7, <1>8

LEMMA LockedIsWellMade ==
  ASSUME NEW step \in LegalStep, step.do \in {"disable", "updatePWMPin", "analogWriteFrequency"}
  PROVE  WellMade(Locked(step), MainLocked, FALSE)
<1> DEFINE a == [do |-> "lock"]
           b == [do |-> "unlock"]
           s == <<a, step, b>>
<1>1. a \in LegalStep /\ b \in LegalStep
  BY LiteralSteps
<1>2. /\ a \in Locks /\ b \notin Locks /\ a \notin MainLocked
      /\ a \notin Unlocks /\ step \notin Unlocks
  BY <1>1 DEF Locks, Unlocks, MainLocked, StepsThat, StoresOrUsb, LegalStep
<1>3. /\ a \notin StoresOrUsb
      /\ b \notin StoresOrUsb
      /\ step \notin StoresOrUsb
  BY DEF StepsThat, StoresOrUsb
<1> HIDE DEF a, b
<1>4. s \in Seq(LegalStep) /\ Len(s) = 3 /\ s[1] = a /\ s[2] = step /\ s[3] = b
  BY <1>1
<1>5. Locked(step) = s
  BY DEF Locked, a, b
<1> HIDE DEF s
<1>6. \A k \in 1 .. Len(s) : s[k] \in {a, step, b}
  BY <1>4
<1>7. ~Has(s, StoresOrUsb)
  BY <1>3, <1>6 DEF Has
<1>8. Covered(s, MainLocked, Locks, Unlocks, FALSE)
  <2> SUFFICES ASSUME NEW k \in 1 .. 3, s[k] \in MainLocked
               PROVE  \E j \in 1 .. k - 1 : s[j] \in Locks
                                           /\ \A m \in j + 1 .. k - 1 : s[m] \notin Unlocks
    BY <1>4 DEF Covered, Within
  <2>1. k \in {2, 3}
    BY <1>2, <1>4
  <2>2. 1 \in 1 .. k - 1 /\ \A m \in 1 + 1 .. k - 1 : m = 2
    BY <2>1
  <2> QED
    BY <1>2, <1>4, <2>2
<1> QED
  BY <1>4, <1>5, <1>7, <1>8, OnlyMutex

(* Lists that do not touch the mutex. *)
LEMMA NoMutex ==
  ASSUME NEW s \in Seq(LegalStep), NEW held \in BOOLEAN,
         ~Has(s, StepsThat({"lock", "unlock", "disable", "edges"}))
  PROVE  /\ Covered(s, MainLocked, Locks, Unlocks, held)
         /\ Covered(s, PwmLocked, Locks, Unlocks, TRUE)
         /\ ~Has(s, StepsThat({"store_values"})) => Covered(s, PwmLocked, Locks, Unlocks, held)
<1>1. ~Has(s, MainLocked) /\ ~Has(s, Unlocks)
  BY DEF Has, MainLocked, Unlocks, StepsThat
<1>2. ~Has(s, StepsThat({"store_values"})) => ~Has(s, PwmLocked)
  BY DEF Has, PwmLocked, StepsThat
<1> QED
  BY <1>1, <1>2, WithoutThem

LEMMA OneAndOne ==
  ASSUME NEW a, NEW b
  PROVE  <<a>> \o <<b>> = <<a, b>>
<1> DEFINE S == {a, b}
           s == <<a>> \o <<b>>
           t == <<a, b>>
<1>1. <<a>> \in Seq(S) /\ <<b>> \in Seq(S) /\ t \in Seq(S)
  OBVIOUS
<1>2. s \in Seq(S) /\ Len(s) = 2
  BY <1>1, ConcatProperties
<1>3. s[1] = a /\ s[2] = b
  BY <1>1, ConcatProperties
<1>4. Len(t) = 2 /\ t[1] = a /\ t[2] = b
  OBVIOUS
<1> HIDE DEF s, t
<1>5. \A i \in 1 .. Len(s) : s[i] = t[i]
  BY <1>2, <1>3, <1>4
<1>6. s = t
  BY <1>1, <1>2, <1>4, <1>5, SeqEqual
<1> QED
  BY <1>6 DEF s, t

LEMMA OneAndThree ==
  ASSUME NEW a, NEW b, NEW c, NEW d
  PROVE  <<a>> \o <<b, c, d>> = <<a, b, c, d>>
<1> DEFINE S == {a, b, c, d}
           s == <<a>> \o <<b, c, d>>
           t == <<a, b, c, d>>
<1>1. <<a>> \in Seq(S) /\ <<b, c, d>> \in Seq(S) /\ t \in Seq(S)
  OBVIOUS
<1>2. s \in Seq(S) /\ Len(s) = 4
  BY <1>1, ConcatProperties
<1>3. s[1] = a /\ s[2] = b /\ s[3] = c /\ s[4] = d
  BY <1>1, ConcatProperties
<1>4. Len(t) = 4 /\ t[1] = a /\ t[2] = b /\ t[3] = c /\ t[4] = d
  OBVIOUS
<1> HIDE DEF s, t
<1>5. \A i \in 1 .. Len(s) : s[i] = t[i]
  BY <1>2, <1>3, <1>4
<1>6. s = t
  BY <1>1, <1>2, <1>4, <1>5, SeqEqual
<1> QED
  BY <1>6 DEF s, t

LEMMA FourAndOne ==
  ASSUME NEW a, NEW b, NEW c, NEW d, NEW e
  PROVE  <<a, b, c, d>> \o <<e>> = <<a, b, c, d, e>>
<1> DEFINE S == {a, b, c, d, e}
           s == <<a, b, c, d>> \o <<e>>
           t == <<a, b, c, d, e>>
<1>1. <<a, b, c, d>> \in Seq(S) /\ <<e>> \in Seq(S) /\ t \in Seq(S)
  OBVIOUS
<1>2. s \in Seq(S) /\ Len(s) = 5
  BY <1>1, ConcatProperties
<1>3. s[1] = a /\ s[2] = b /\ s[3] = c /\ s[4] = d /\ s[5] = e
  BY <1>1, ConcatProperties
<1>4. Len(t) = 5 /\ t[1] = a /\ t[2] = b /\ t[3] = c /\ t[4] = d /\ t[5] = e
  OBVIOUS
<1> HIDE DEF s, t
<1>5. \A i \in 1 .. Len(s) : s[i] = t[i]
  BY <1>2, <1>3, <1>4
<1>6. s = t
  BY <1>1, <1>2, <1>4, <1>5, SeqEqual
<1> QED
  BY <1>6 DEF s, t

LEMMA UpdateList ==
  ASSUME NEW c \in Channel
  PROVE  updateGPIOState(c) =
           LET a == [do |-> "load_directions", ch |-> c]
               b == [do |-> "set_bitmode", ch |-> c]
               d == [do |-> "write_data", ch |-> c]
           IN IF c = "A" THEN <<a, b, d>>
              ELSE <<[do |-> "set_interface", ch |-> "B", to |-> "B"], a, b, d,
                     [do |-> "set_interface", ch |-> "B", to |-> "A"]>>
<1> DEFINE a == [do |-> "load_directions", ch |-> c]
           b == [do |-> "set_bitmode", ch |-> c]
           d == [do |-> "write_data", ch |-> c]
           x == [do |-> "set_interface", ch |-> "B", to |-> "B"]
           y == [do |-> "set_interface", ch |-> "B", to |-> "A"]
<1>1. updateGPIOState(c) = IF c = "A" THEN <<a>> \o <<b>> \o <<d>>
                           ELSE <<x>> \o (<<a>> \o <<b>> \o <<d>>) \o <<y>>
  BY DEF updateGPIOState, Step, Select
<1> HIDE DEF a, b, d, x, y
<1>2. <<a>> \o <<b>> \o <<d>> = <<a, b, d>>
  <2>1. <<a>> \o <<b>> = <<a, b>>
    BY OneAndOne
  <2>2. <<a, b>> \o <<d>> = <<a, b, d>>
    BY TwoAndOne
  <2> QED
    BY <2>1, <2>2
<1>3. <<x>> \o <<a, b, d>> \o <<y>> = <<x, a, b, d, y>>
  <2>1. <<x>> \o <<a, b, d>> = <<x, a, b, d>>
    BY OneAndThree
  <2>2. <<x, a, b, d>> \o <<y>> = <<x, a, b, d, y>>
    BY FourAndOne
  <2> QED
    BY <2>1, <2>2
<1> QED
  BY <1>1, <1>2, <1>3, Zenon DEF a, b, d, x, y

(* updateGPIOState() and readGPIOState(): what they use they have selected, *)
(* and they leave channel A selected.                                       *)
LEMMA UpdateIsWellMade ==
  ASSUME NEW c \in Channel, NEW held \in BOOLEAN
  PROVE  /\ WellMade(updateGPIOState(c), MainLocked, held)
         /\ WellMade(updateGPIOState(c), PwmLocked, held)
         /\ ~Has(updateGPIOState(c),
                 StepsThat({"store_values", "disable", "lock", "unlock", "edges"}))
         /\ Has(updateGPIOState(c), WritesData(c)) /\ Has(updateGPIOState(c), SetsMode(c))
         /\ \A e \in Channel : Has(updateGPIOState(c), WritesData(e)) => e = c
         /\ c = "A" => ~Has(updateGPIOState(c), Switches \cup Uses("B"))
<1> DEFINE a == [do |-> "load_directions", ch |-> c]
           b == [do |-> "set_bitmode", ch |-> c]
           d == [do |-> "write_data", ch |-> c]
           x == [do |-> "set_interface", ch |-> "B", to |-> "B"]
           y == [do |-> "set_interface", ch |-> "B", to |-> "A"]
           s == updateGPIOState(c)
<1>0. c = "A" \/ c = "B"
  BY DEF Channel
<1>1. {a, b, d, x, y} \subseteq LegalStep /\ {a, b, d, x, y} \subseteq GpioStep
  <2>1. a \in LegalStep /\ b \in LegalStep /\ d \in LegalStep
    BY LiteralSteps
  <2>2. x \in LegalStep /\ y \in LegalStep
    BY LiteralSteps DEF Channel
  <2> QED
    BY <2>1, <2>2 DEF LegalStep
<1>2. /\ a.do = "load_directions" /\ b.do = "set_bitmode" /\ d.do = "write_data"
      /\ x.do = "set_interface" /\ y.do = "set_interface"
      /\ a.ch = c /\ b.ch = c /\ d.ch = c /\ x.to = "B" /\ y.to = "A"
  OBVIOUS
<1>3. s = IF c = "A" THEN <<a, b, d>> ELSE <<x, a, b, d, y>>
  BY UpdateList, Zenon
<1> HIDE DEF a, b, d, x, y, s
<1>4. c = "A" => s \in Seq(LegalStep) /\ Len(s) = 3 /\ s[1] = a /\ s[2] = b /\ s[3] = d
  BY <1>1, <1>3
<1>5. c = "B" => /\ s \in Seq(LegalStep) /\ Len(s) = 5
                 /\ s[1] = x /\ s[2] = a /\ s[3] = b /\ s[4] = d /\ s[5] = y
  BY <1>1, <1>3
<1>6. s \in Seq(LegalStep) /\ \A k \in 1 .. Len(s) : s[k] \in {a, b, d, x, y}
  BY <1>0, <1>4, <1>5
<1>7. ASSUME c = "A", NEW k \in 1 .. Len(s)
      PROVE  s[k] \in {a, b, d}
  <2>0. Len(s) = 3
    BY <1>4, <1>7
  <2>1. k = 1 \/ k = 2 \/ k = 3
    BY <1>7, <2>0
  <2> QED
    BY <1>4, <1>7, <2>1
<1>8. /\ ~Has(s, StepsThat({"lock", "unlock", "disable", "edges"}))
      /\ ~Has(s, StepsThat({"store_values"}))
      /\ ~Has(s, StepsThat({"store_values", "disable", "lock", "unlock", "edges"}))
  BY <1>2, <1>6 DEF Has, StepsThat
<1>9. Covered(s, MainLocked, Locks, Unlocks, held) /\ Covered(s, PwmLocked, Locks, Unlocks, held)
  BY <1>6, <1>8, NoMutex
<1>10. ASSUME NEW e \in Channel
       PROVE  /\ Preceded(s, StoresTo(e), Loads(e)) /\ StartsWithout(s, StoresTo(e))
              /\ Preceded(s, SetsMode(e), LoadsDirections(e)) /\ StartsWithout(s, SetsMode(e))
              /\ Covered(s, Uses(e), SwitchesTo(e), Switches, e = "A")
  <2>1. ~Has(s, StoresTo(e))
    BY <1>8 DEF Has, StoresTo, StepsOn, StepsThat
  <2>2. Preceded(s, StoresTo(e), Loads(e)) /\ StartsWithout(s, StoresTo(e))
    BY <1>6, <2>1, WithoutThem
  <2>3. /\ a \notin SetsMode(e) /\ d \notin SetsMode(e) /\ x \notin SetsMode(e)
        /\ y \notin SetsMode(e) /\ (b \in SetsMode(e) => a \in LoadsDirections(e))
    BY <1>1, <1>2 DEF SetsMode, LoadsDirections, StepsOn
  <2>4. Preceded(s, SetsMode(e), LoadsDirections(e)) /\ StartsWithout(s, SetsMode(e))
    <3>1. CASE c = "A"
      <4>1. StartsWithout(s, SetsMode(e))
        BY <1>4, <2>3, <3>1 DEF StartsWithout
      <4>2. \A k \in 2 .. 3 : s[k] \in SetsMode(e) => k = 2
        BY <1>4, <2>3, <3>1
      <4>3. \A k \in 2 .. Len(s) : s[k] \in SetsMode(e) => s[k - 1] \in LoadsDirections(e)
        <5>1. Len(s) = 3
          BY <1>4, <3>1
        <5>2. s[2 - 1] = a /\ s[2] = b
          BY <1>4, <3>1
        <5> QED
          BY <2>3, <4>2, <5>1, <5>2
      <4> QED
        BY <4>1, <4>3 DEF Preceded
    <3>2. CASE c = "B"
      <4>1. StartsWithout(s, SetsMode(e))
        BY <1>5, <2>3, <3>2 DEF StartsWithout
      <4>2. \A k \in 2 .. 5 : s[k] \in SetsMode(e) => k = 3
        BY <1>5, <2>3, <3>2
      <4>3. \A k \in 2 .. Len(s) : s[k] \in SetsMode(e) => s[k - 1] \in LoadsDirections(e)
        <5>1. Len(s) = 5
          BY <1>5, <3>2
        <5>2. s[3 - 1] = a /\ s[3] = b
          BY <1>5, <3>2
        <5> QED
          BY <2>3, <4>2, <5>1, <5>2
      <4> QED
        BY <4>1, <4>3 DEF Preceded
    <3> QED
      BY <1>0, <3>1, <3>2
  <2>5. /\ a \notin Switches /\ b \notin Switches /\ d \notin Switches
        /\ x \notin Uses(e) /\ y \notin Uses(e) /\ a \notin Uses(e)
        /\ (b \in Uses(e) \/ d \in Uses(e) => e = c) /\ x \in SwitchesTo("B")
    BY <1>1, <1>2 DEF Switches, SwitchesTo, Uses, StepsOn, StepsThat
  <2>6. Covered(s, Uses(e), SwitchesTo(e), Switches, e = "A")
    <3>1. CASE c = "A"
      <4>1. ~Has(s, Switches)
        BY <1>4, <1>7, <2>5, <3>1 DEF Has
      <4>2. CASE e = "A"
        <5>1. Covered(s, Uses(e), SwitchesTo(e), Switches, TRUE)
          BY <1>6, <4>1, WithoutThem
        <5> QED
          BY <4>2, <5>1
      <4>3. CASE e # "A"
        <5>1. ~Has(s, Uses(e))
          BY <1>4, <1>7, <2>5, <3>1, <4>3 DEF Has
        <5>2. Covered(s, Uses(e), SwitchesTo(e), Switches, FALSE)
          BY <1>6, <5>1, WithoutThem
        <5> QED
          BY <4>3, <5>2
      <4> QED
        BY <4>2, <4>3
    <3>2. CASE c = "B"
      <4> SUFFICES ASSUME NEW k \in 1 .. 5, s[k] \in Uses(e)
                   PROVE  \E j \in 1 .. k - 1 :
                            /\ s[j] \in SwitchesTo(e)
                            /\ \A m \in j + 1 .. k - 1 : s[m] \notin Switches
        BY <1>5, <3>2 DEF Covered, Within
      <4>1. k \in {3, 4} /\ e = "B"
        BY <1>5, <2>5, <3>2
      <4>2. 1 \in 1 .. k - 1 /\ \A m \in 1 + 1 .. k - 1 : m \in {2, 3}
        BY <4>1
      <4>3. s[1] \in SwitchesTo(e) /\ s[2] \notin Switches /\ s[3] \notin Switches
        BY <1>5, <2>5, <3>2, <4>1
      <4> QED
        BY <4>2, <4>3
    <3> QED
      BY <1>0, <3>1, <3>2
  <2> QED
    BY <2>2, <2>4, <2>6
<1>11. Within(s, Len(s) + 1, SwitchesTo("A"), Switches, TRUE)
  <2>1. a \notin Switches /\ b \notin Switches /\ d \notin Switches /\ y \in SwitchesTo("A")
    BY <1>1, <1>2 DEF Switches, SwitchesTo, StepsThat
  <2>2. CASE c = "A"
    <3>1. ~Has(s, Switches)
      BY <1>7, <2>1, <2>2 DEF Has
    <3> QED
      BY <1>6, <3>1, WithoutThem
  <2>3. CASE c = "B"
    <3>0. Len(s) = 5
      BY <1>5, <2>3
    <3>1. 5 \in 1 .. (Len(s) + 1) - 1 /\ \A m \in 5 + 1 .. (Len(s) + 1) - 1 : FALSE
      BY <3>0
    <3>2. s[5] \in SwitchesTo("A")
      BY <1>5, <2>1, <2>3
    <3> QED
      BY <3>1, <3>2 DEF Within
  <2> QED
    BY <1>0, <2>2, <2>3
<1>12. WellMade(s, MainLocked, held) /\ WellMade(s, PwmLocked, held)
  BY <1>6, <1>9, <1>10, <1>11 DEF WellMade
<1>13. Has(s, WritesData(c)) /\ Has(s, SetsMode(c))
  <2>1. d \in WritesData(c) /\ b \in SetsMode(c)
    BY <1>1, <1>2 DEF WritesData, SetsMode, StepsOn
  <2> QED
    BY <1>0, <1>4, <1>5, <2>1 DEF Has
<1>14. ASSUME NEW e \in Channel, Has(s, WritesData(e))
       PROVE  e = c
  BY <1>2, <1>6, <1>14 DEF Has, WritesData, StepsOn
<1>15. c = "A" => ~Has(s, Switches \cup Uses("B"))
  BY <1>2, <1>7 DEF Has, Switches, Uses, StepsOn, StepsThat
<1> QED
  BY <1>8, <1>12, <1>13, <1>14, <1>15 DEF s

Disables(p) == StepsFor(p, {"disable"})
Stores(p) == StepsFor(p, {"store_values"})

(* Stores of another pin, or of another level. *)
OtherStores(p, level) ==
  {x \in GpioStep : x.do = "store_values" /\ ~(x.pin = p /\ x.level = level)}

(* A list of which every store reaches the device, with the directions.    *)
Complete(s) ==
  \A c \in Channel : /\ Followed(s, StoresTo(c), WritesData(c))
                     /\ Has(s, WritesData(c)) => Has(s, SetsMode(c))

(* A list of a call for pin p that writes no level but the given one. *)
CallList(s, p, level) ==
  /\ WellMade(s, MainLocked, FALSE) /\ Complete(s)
  /\ ~Has(s, OtherStores(p, level))
  /\ getChannel(p) = "A" => ~Has(s, Switches \cup Uses("B"))

LEMMA ConcatComplete ==
  ASSUME NEW S, NEW s \in Seq(S), NEW r \in Seq(S), Complete(s), Complete(r)
  PROVE  Complete(s \o r)
<1> SUFFICES ASSUME NEW c \in Channel
             PROVE  /\ Followed(s \o r, StoresTo(c), WritesData(c))
                    /\ Has(s \o r, WritesData(c)) => Has(s \o r, SetsMode(c))
  BY DEF Complete
<1>1. /\ Followed(s, StoresTo(c), WritesData(c)) /\ Followed(r, StoresTo(c), WritesData(c))
      /\ Has(s, WritesData(c)) => Has(s, SetsMode(c))
      /\ Has(r, WritesData(c)) => Has(r, SetsMode(c))
  BY DEF Complete
<1>2. Followed(s \o r, StoresTo(c), WritesData(c))
  BY <1>1, ConcatFollowed
<1>3. /\ Has(s \o r, WritesData(c)) <=> Has(s, WritesData(c)) \/ Has(r, WritesData(c))
      /\ Has(s \o r, SetsMode(c)) <=> Has(s, SetsMode(c)) \/ Has(r, SetsMode(c))
  BY ConcatHas
<1> QED
  BY <1>1, <1>2, <1>3

LEMMA ConcatCallList ==
  ASSUME NEW s, NEW r, NEW p, NEW level, CallList(s, p, level), CallList(r, p, level)
  PROVE  CallList(s \o r, p, level)
<1>1. s \in Seq(LegalStep) /\ r \in Seq(LegalStep)
  BY DEF CallList, WellMade
<1>2. WellMade(s \o r, MainLocked, FALSE)
  BY ConcatWellMade DEF CallList
<1>3. Complete(s \o r)
  BY <1>1, ConcatComplete DEF CallList
<1>4. ~Has(s \o r, OtherStores(p, level))
  BY <1>1, ConcatHas DEF CallList
<1>5. getChannel(p) = "A" => ~Has(s \o r, Switches \cup Uses("B"))
  BY <1>1, ConcatHas DEF CallList
<1> QED
  BY <1>2, <1>3, <1>4, <1>5 DEF CallList

(* A list that neither stores nor uses the device. *)
LEMMA PlainCallList ==
  ASSUME NEW s, NEW p, NEW level, WellMade(s, MainLocked, FALSE),
         ~Has(s, StoresOrUsb)
  PROVE  CallList(s, p, level)
<1>1. s \in Seq(LegalStep)
  BY DEF WellMade
<1>2. \A k \in 1 .. Len(s) :
        s[k] \notin StoresOrUsb
  BY DEF Has
<1>3. ~Has(s, OtherStores(p, level)) /\ ~Has(s, Switches \cup Uses("B"))
  BY <1>2 DEF Has, OtherStores, Switches, Uses, StepsOn, StepsThat, StoresOrUsb
<1>4. ASSUME NEW c \in Channel
      PROVE  /\ Followed(s, StoresTo(c), WritesData(c))
             /\ Has(s, WritesData(c)) => Has(s, SetsMode(c))
  <2>1. ~Has(s, StoresTo(c)) /\ ~Has(s, WritesData(c))
    BY <1>2 DEF Has, StoresTo, WritesData, StepsOn, StepsThat, StoresOrUsb
  <2> QED
    BY <1>1, <2>1, WithoutThem
<1> QED
  BY <1>3, <1>4 DEF CallList, Complete

LEMMA UpdateIsCallList ==
  ASSUME NEW p, NEW level
  PROVE  CallList(updateGPIOState(getChannel(p)), p, level)
<1> DEFINE c == getChannel(p)
           s == updateGPIOState(c)
<1>1. c \in Channel
  BY ChannelOfPin
<1>2. /\ WellMade(s, MainLocked, FALSE)
      /\ ~Has(s, StepsThat({"store_values", "disable", "lock", "unlock", "edges"}))
      /\ Has(s, WritesData(c)) /\ Has(s, SetsMode(c))
      /\ \A e \in Channel : Has(s, WritesData(e)) => e = c
      /\ c = "A" => ~Has(s, Switches \cup Uses("B"))
  BY <1>1, UpdateIsWellMade
<1>3. s \in Seq(LegalStep)
  BY <1>2 DEF WellMade
<1> HIDE DEF s
<1>4. \A k \in 1 .. Len(s) :
        s[k] \notin StepsThat({"store_values", "disable", "lock", "unlock", "edges"})
  BY <1>2 DEF Has
<1>5. ~Has(s, OtherStores(p, level))
  BY <1>4 DEF Has, OtherStores, StepsThat
<1>6. ASSUME NEW e \in Channel
      PROVE  /\ Followed(s, StoresTo(e), WritesData(e))
             /\ Has(s, WritesData(e)) => Has(s, SetsMode(e))
  <2>1. ~Has(s, StoresTo(e))
    BY <1>4 DEF Has, StoresTo, StepsOn, StepsThat
  <2> QED
    BY <1>2, <1>3, <2>1, WithoutThem
<1>7. CallList(s, p, level)
  BY <1>2, <1>5, <1>6 DEF CallList, Complete
<1> QED
  BY <1>7 DEF s, c

LEMMA SetBitList ==
  ASSUME NEW p \in Pin, NEW level \in Level
  PROVE  LET a == [do |-> "load_values", ch |-> getChannel(p)]
             b == [do |-> "store_values", ch |-> getChannel(p), pin |-> p, level |-> level]
         IN /\ SetBit(p, level) = <<a, b>> /\ a \in LegalStep /\ b \in LegalStep
            /\ a \in Loads(getChannel(p)) /\ b \in StoresTo(getChannel(p)) /\ b \in Stores(p)
            /\ b \notin OtherStores(p, level)
            /\ a \notin StepsThat({"store_values"})
            /\ \A c : b \in StoresTo(c) => c = getChannel(p)
<1> DEFINE c == getChannel(p)
           a == [do |-> "load_values", ch |-> c]
           b == [do |-> "store_values", ch |-> c, pin |-> p, level |-> level]
<1>1. SetBit(p, level) = <<a>> \o <<b>>
  BY DEF SetBit, Step
<1>2. c \in Channel
  BY ChannelOfPin
<1>3. a \in LegalStep /\ b \in LegalStep
  BY <1>2, LiteralSteps
<1>4. a \in GpioStep /\ b \in GpioStep
  BY <1>3 DEF LegalStep
<1>5. /\ a.do = "load_values" /\ a.ch = c
      /\ b.do = "store_values" /\ b.ch = c /\ b.pin = p /\ b.level = level
  OBVIOUS
<1> HIDE DEF a, b, c
<1>6. <<a>> \o <<b>> = <<a, b>>
  BY OneAndOne
<1>7. /\ a \in Loads(c) /\ b \in StoresTo(c) /\ b \in Stores(p) /\ b \notin OtherStores(p, level)
      /\ a \notin StepsThat({"store_values"}) /\ \A e : b \in StoresTo(e) => e = c
  BY <1>4, <1>5 DEF Loads, StoresTo, Stores, OtherStores, StepsOn, StepsFor, StepsThat
<1> QED
  BY <1>1, <1>3, <1>6, <1>7 DEF a, b, c

LEMMA SetBitIsWellMade ==
  ASSUME NEW p \in Pin, NEW level \in Level
  PROVE  /\ WellMade(SetBit(p, level), MainLocked, FALSE)
         /\ Has(SetBit(p, level), Stores(p)) /\ ~Has(SetBit(p, level), OtherStores(p, level))
         /\ ~Has(SetBit(p, level), StepsThat({"set_bitmode", "write_data", "set_interface",
                                              "read_pins", "lock", "unlock", "disable", "edges"}))
         /\ \A c \in Channel : Has(SetBit(p, level), StoresTo(c)) => c = getChannel(p)
<1> DEFINE a == [do |-> "load_values", ch |-> getChannel(p)]
           b == [do |-> "store_values", ch |-> getChannel(p), pin |-> p, level |-> level]
           s == SetBit(p, level)
<1>1. /\ s = <<a, b>> /\ a \in LegalStep /\ b \in LegalStep
      /\ a \in Loads(getChannel(p)) /\ b \in StoresTo(getChannel(p)) /\ b \in Stores(p)
      /\ b \notin OtherStores(p, level) /\ a \notin StepsThat({"store_values"})
      /\ \A c : b \in StoresTo(c) => c = getChannel(p)
  BY SetBitList
<1>2. a.do = "load_values" /\ b.do = "store_values"
  OBVIOUS
<1> HIDE DEF a, b, s
<1>3. s \in Seq(LegalStep) /\ Len(s) = 2 /\ s[1] = a /\ s[2] = b
  BY <1>1
<1>4. \A k \in 1 .. Len(s) : (k = 1 /\ s[k] = a) \/ (k = 2 /\ s[k] = b)
  BY <1>3
<1>5. ~Has(s, StepsThat({"set_bitmode", "write_data", "set_interface",
                         "read_pins", "lock", "unlock", "disable", "edges"}))
  BY <1>2, <1>4 DEF Has, StepsThat
<1>6. /\ ~Has(s, StepsThat({"lock", "unlock", "disable", "edges"})) /\ ~Has(s, Switches)
      /\ \A c : ~Has(s, SetsMode(c)) /\ ~Has(s, Uses(c))
  BY <1>2, <1>4 DEF Has, Switches, SetsMode, Uses, StepsOn, StepsThat
<1>7. Covered(s, MainLocked, Locks, Unlocks, FALSE)
  BY <1>3, <1>6, NoMutex
<1>8. ASSUME NEW c \in Channel
      PROVE  /\ Preceded(s, StoresTo(c), Loads(c)) /\ StartsWithout(s, StoresTo(c))
             /\ Preceded(s, SetsMode(c), LoadsDirections(c)) /\ StartsWithout(s, SetsMode(c))
             /\ Covered(s, Uses(c), SwitchesTo(c), Switches, c = "A")
  <2>1. a \notin StoresTo(c) /\ (b \in StoresTo(c) => a \in Loads(c))
    BY <1>1 DEF StoresTo, StepsOn, StepsThat
  <2>2. Preceded(s, StoresTo(c), Loads(c))
    <3> SUFFICES ASSUME NEW k \in 2 .. 2, s[k] \in StoresTo(c)
                 PROVE  s[k - 1] \in Loads(c)
      BY <1>3 DEF Preceded
    <3>1. k = 2 /\ k - 1 = 1
      OBVIOUS
    <3> QED
      BY <1>3, <2>1, <3>1
  <2>3. StartsWithout(s, StoresTo(c))
    BY <1>3, <2>1 DEF StartsWithout
  <2>4. Preceded(s, SetsMode(c), LoadsDirections(c)) /\ StartsWithout(s, SetsMode(c))
    BY <1>3, <1>6, WithoutThem
  <2> DEFINE first == (c = "A")
  <2>5. first \in BOOLEAN
    OBVIOUS
  <2> HIDE DEF first
  <2>6. Covered(s, Uses(c), SwitchesTo(c), Switches, first)
    BY <1>3, <1>6, <2>5, WithoutThem
  <2> QED
    BY <2>2, <2>3, <2>4, <2>6 DEF first
<1>9. Within(s, Len(s) + 1, SwitchesTo("A"), Switches, TRUE)
  BY <1>3, <1>6, WithoutThem
<1>10. WellMade(s, MainLocked, FALSE)
  BY <1>3, <1>7, <1>8, <1>9 DEF WellMade
<1>11. a \notin OtherStores(p, level)
  BY <1>2 DEF OtherStores
<1>12. Has(s, Stores(p)) /\ ~Has(s, OtherStores(p, level))
  BY <1>1, <1>3, <1>4, <1>11 DEF Has
<1>13. ASSUME NEW c \in Channel, Has(s, StoresTo(c))
       PROVE  c = getChannel(p)
  <2>1. a \notin StoresTo(c)
    BY <1>2 DEF StoresTo, StepsOn
  <2> QED
    BY <1>1, <1>4, <1>13, <2>1 DEF Has
<1> QED
  BY <1>5, <1>10, <1>12, <1>13 DEF s

LEMMA WriteIsCallList ==
  ASSUME NEW p \in Pin, NEW level \in Level
  PROVE  /\ CallList(WriteSteps(p, level), p, level)
         /\ Has(WriteSteps(p, level), Stores(p))
         /\ ~Has(WriteSteps(p, level), StepsThat({"disable"}))
<1> DEFINE c == getChannel(p)
           s == SetBit(p, level)
           r == updateGPIOState(c)
<1>1. WriteSteps(p, level) = s \o r /\ c \in Channel
  BY ChannelOfPin DEF WriteSteps
<1>2. /\ WellMade(s, MainLocked, FALSE)
      /\ Has(s, Stores(p)) /\ ~Has(s, OtherStores(p, level))
      /\ ~Has(s, StepsThat({"set_bitmode", "write_data", "set_interface",
                            "read_pins", "lock", "unlock", "disable", "edges"}))
      /\ \A e \in Channel : Has(s, StoresTo(e)) => e = c
  BY SetBitIsWellMade
<1>3. /\ CallList(r, p, level) /\ Has(r, WritesData(c)) /\ Has(r, SetsMode(c))
      /\ \A e \in Channel : Has(r, WritesData(e)) => e = c
      /\ ~Has(r, StepsThat({"store_values", "disable", "lock", "unlock", "edges"}))
  BY <1>1, UpdateIsCallList, UpdateIsWellMade
<1>4. s \in Seq(LegalStep) /\ r \in Seq(LegalStep)
  BY <1>2, <1>3 DEF WellMade, CallList
<1> HIDE DEF s, r, c
<1>5. WellMade(s \o r, MainLocked, FALSE)
  BY <1>2, <1>3, ConcatWellMade DEF CallList
<1>6. ~Has(s, Switches \cup Uses("B")) /\ \A e : ~Has(s, WritesData(e))
  <2>1. \A k \in 1 .. Len(s) :
          s[k] \notin StepsThat({"set_bitmode", "write_data", "set_interface", "read_pins",
                                 "lock", "unlock", "disable", "edges"})
    BY <1>2 DEF Has
  <2> QED
    BY <2>1 DEF Has, Switches, Uses, WritesData, StepsOn, StepsThat
<1>7. getChannel(p) = "A" => ~Has(s \o r, Switches \cup Uses("B"))
  BY <1>3, <1>4, <1>6, ConcatHas DEF CallList
<1>8. ~Has(s \o r, OtherStores(p, level)) /\ Has(s \o r, Stores(p))
  BY <1>2, <1>3, <1>4, ConcatHas DEF CallList
<1>9. ASSUME NEW e \in Channel
      PROVE  /\ Followed(s \o r, StoresTo(e), WritesData(e))
             /\ Has(s \o r, WritesData(e)) => Has(s \o r, SetsMode(e))
  <2>1. Followed(s, StoresTo(e), WritesData(e)) \/ Has(r, WritesData(e))
    <3>1. CASE Has(s, StoresTo(e))
      BY <1>2, <1>3, <3>1
    <3>2. CASE ~Has(s, StoresTo(e))
      BY <1>4, <3>2, WithoutThem
    <3> QED
      BY <3>1, <3>2
  <2>2. Followed(r, StoresTo(e), WritesData(e))
    BY <1>3 DEF CallList, Complete
  <2>3. Followed(s \o r, StoresTo(e), WritesData(e))
    BY <1>4, <2>1, <2>2, ConcatFollowed
  <2>4. Has(s \o r, WritesData(e)) => Has(s \o r, SetsMode(e))
    BY <1>3, <1>4, <1>6, ConcatHas
  <2> QED
    BY <2>3, <2>4
<1>10. ~Has(s \o r, StepsThat({"disable"}))
  <2>1. ~Has(s, StepsThat({"disable"})) /\ ~Has(r, StepsThat({"disable"}))
    BY <1>2, <1>3 DEF Has, StepsThat
  <2> QED
    BY <1>4, <2>1, ConcatHas
<1> QED
  BY <1>1, <1>5, <1>7, <1>8, <1>9, <1>10 DEF CallList, Complete

(* What a call of the sketch may be: a call list in which what ends PWM on  *)
(* a pin is followed by a write of that pin.                                *)
SketchList(s, p, level) ==
  CallList(s, p, level) /\ \A q : Followed(s, Disables(q), Stores(q))

LEMMA NoDisable ==
  ASSUME NEW s, NEW p, NEW level, CallList(s, p, level), ~Has(s, StepsThat({"disable"}))
  PROVE  SketchList(s, p, level)
<1>1. s \in Seq(LegalStep)
  BY DEF CallList, WellMade
<1>2. \A q : ~Has(s, Disables(q))
  BY DEF Has, Disables, StepsFor, StepsThat
<1> QED
  BY <1>1, <1>2, WithoutThem DEF SketchList

LEMMA ConcatSketchList ==
  ASSUME NEW s, NEW r, NEW p, NEW level,
         CallList(s, p, level), SketchList(r, p, level),
         \A q : Followed(s, Disables(q), Stores(q)) \/ Has(r, Stores(q))
  PROVE  SketchList(s \o r, p, level)
<1>1. s \in Seq(LegalStep) /\ r \in Seq(LegalStep)
  BY DEF SketchList, CallList, WellMade
<1>2. CallList(s \o r, p, level)
  BY ConcatCallList DEF SketchList
<1>3. ASSUME NEW q
      PROVE  Followed(s \o r, Disables(q), Stores(q))
  <2>1. Followed(s, Disables(q), Stores(q)) \/ Has(r, Stores(q))
    OBVIOUS
  <2>2. Followed(r, Disables(q), Stores(q))
    BY DEF SketchList
  <2> QED
    BY <1>1, <2>1, <2>2, ConcatFollowed
<1> QED
  BY <1>2, <1>3 DEF SketchList

LEMMA UpdateIsSketchList ==
  ASSUME NEW p, NEW level
  PROVE  /\ SketchList(updateGPIOState(getChannel(p)), p, level)
         /\ Has(updateGPIOState(getChannel(p)), SetsMode(getChannel(p)))
<1> DEFINE s == updateGPIOState(getChannel(p))
<1>1. /\ ~Has(s, StepsThat({"store_values", "disable", "lock", "unlock", "edges"}))
      /\ Has(s, SetsMode(getChannel(p)))
  <2>1. FALSE \in BOOLEAN
    OBVIOUS
  <2> QED
    BY <2>1, ChannelOfPin, UpdateIsWellMade
<1>2. CallList(s, p, level)
  BY UpdateIsCallList
<1> HIDE DEF s
<1>3. ~Has(s, StepsThat({"disable"}))
  BY <1>1 DEF Has, StepsThat
<1>4. SketchList(s, p, level)
  BY <1>2, <1>3, NoDisable
<1> QED
  BY <1>1, <1>4 DEF s

LEMMA ReadList ==
  ASSUME NEW c \in Channel
  PROVE  readGPIOState(c) =
           LET r == [do |-> "read_pins", ch |-> c]
           IN IF c = "A" THEN <<r>>
              ELSE <<[do |-> "set_interface", ch |-> "B", to |-> "B"], r,
                     [do |-> "set_interface", ch |-> "B", to |-> "A"]>>
<1> DEFINE r == [do |-> "read_pins", ch |-> c]
           x == [do |-> "set_interface", ch |-> "B", to |-> "B"]
           y == [do |-> "set_interface", ch |-> "B", to |-> "A"]
<1>1. readGPIOState(c) = IF c = "A" THEN <<r>> ELSE <<x>> \o <<r>> \o <<y>>
  BY DEF readGPIOState, Step, Select
<1> HIDE DEF r, x, y
<1>2. <<x>> \o <<r>> \o <<y>> = <<x, r, y>>
  <2>1. <<x>> \o <<r>> = <<x, r>>
    BY OneAndOne
  <2>2. <<x, r>> \o <<y>> = <<x, r, y>>
    BY TwoAndOne
  <2> QED
    BY <2>1, <2>2
<1> QED
  BY <1>1, <1>2, Zenon DEF r, x, y

LEMMA ReadIsSketchList ==
  ASSUME NEW p, NEW level
  PROVE  SketchList(readGPIOState(getChannel(p)), p, level)
<1> DEFINE c == getChannel(p)
           r == [do |-> "read_pins", ch |-> c]
           x == [do |-> "set_interface", ch |-> "B", to |-> "B"]
           y == [do |-> "set_interface", ch |-> "B", to |-> "A"]
           s == readGPIOState(c)
<1>0. c \in Channel /\ (c = "A" \/ c = "B")
  BY ChannelOfPin DEF Channel
<1>1. {r, x, y} \subseteq LegalStep /\ {r, x, y} \subseteq GpioStep
  <2>1. r \in LegalStep
    BY <1>0, LiteralSteps
  <2>2. x \in LegalStep /\ y \in LegalStep
    BY LiteralSteps DEF Channel
  <2> QED
    BY <2>1, <2>2 DEF LegalStep
<1>2. /\ r.do = "read_pins" /\ x.do = "set_interface" /\ y.do = "set_interface" /\ y.to = "A"
  OBVIOUS
<1>16. r.ch = c /\ x.to = "B"
  OBVIOUS
<1>3. s = IF c = "A" THEN <<r>> ELSE <<x, r, y>>
  BY <1>0, ReadList, Zenon
<1> HIDE DEF r, x, y, s, c
<1>4. c = "A" => s \in Seq(LegalStep) /\ Len(s) = 1 /\ s[1] = r
  BY <1>1, <1>3
<1>5. c = "B" => s \in Seq(LegalStep) /\ Len(s) = 3 /\ s[1] = x /\ s[2] = r /\ s[3] = y
  BY <1>1, <1>3
<1>6. s \in Seq(LegalStep) /\ \A k \in 1 .. Len(s) : s[k] \in {r, x, y}
  BY <1>0, <1>4, <1>5
<1>7. /\ ~Has(s, StepsThat({"lock", "unlock", "disable", "edges"}))
      /\ ~Has(s, StepsThat({"store_values", "disable", "set_bitmode", "write_data"}))
  BY <1>2, <1>6 DEF Has, StepsThat
<1>8. Covered(s, MainLocked, Locks, Unlocks, FALSE)
  BY <1>6, <1>7, NoMutex
<1>9. /\ \A k \in 1 .. Len(s) :
           s[k] \notin StepsThat({"store_values", "disable", "set_bitmode", "write_data"})
  BY <1>7 DEF Has
<1>10. ASSUME NEW e \in Channel
       PROVE  /\ Preceded(s, StoresTo(e), Loads(e)) /\ StartsWithout(s, StoresTo(e))
              /\ Preceded(s, SetsMode(e), LoadsDirections(e)) /\ StartsWithout(s, SetsMode(e))
              /\ Covered(s, Uses(e), SwitchesTo(e), Switches, e = "A")
              /\ Followed(s, StoresTo(e), WritesData(e)) /\ ~Has(s, WritesData(e))
  <2>1. ~Has(s, StoresTo(e)) /\ ~Has(s, SetsMode(e)) /\ ~Has(s, WritesData(e))
    BY <1>9 DEF Has, StoresTo, SetsMode, WritesData, StepsOn, StepsThat
  <2>2. /\ r \notin Switches /\ x \notin Uses(e) /\ y \notin Uses(e)
        /\ (r \in Uses(e) => e = c) /\ x \in SwitchesTo("B")
    BY <1>1, <1>2, <1>16 DEF Switches, SwitchesTo, Uses, StepsOn, StepsThat
  <2>3. /\ Preceded(s, StoresTo(e), Loads(e)) /\ StartsWithout(s, StoresTo(e))
        /\ Preceded(s, SetsMode(e), LoadsDirections(e)) /\ StartsWithout(s, SetsMode(e))
    BY <1>6, <2>1, WithoutThem
  <2>4. Followed(s, StoresTo(e), WritesData(e))
    BY <1>6, <2>1, WithoutThem
  <2>5. Covered(s, Uses(e), SwitchesTo(e), Switches, e = "A")
    <3> SUFFICES ASSUME NEW k \in 1 .. Len(s), s[k] \in Uses(e)
                 PROVE  Within(s, k, SwitchesTo(e), Switches, e = "A")
      BY DEF Covered
    <3>1. CASE c = "A"
      <4>1. Len(s) = 1 /\ s[1] = r
        BY <1>4, <3>1
      <4>2. k = 1
        BY <4>1
      <4>3. e = "A" /\ \A j \in 1 .. k - 1 : FALSE
        BY <2>2, <3>1, <4>1, <4>2
      <4> QED
        BY <4>3 DEF Within
    <3>2. CASE c = "B"
      <4>1. Len(s) = 3 /\ s[1] = x /\ s[2] = r /\ s[3] = y
        BY <1>5, <3>2
      <4>2. k \in {1, 2, 3}
        BY <4>1
      <4>3. k = 2 /\ e = "B"
        BY <2>2, <3>2, <4>1, <4>2
      <4>4. 1 \in 1 .. k - 1 /\ \A m \in 1 + 1 .. k - 1 : FALSE
        BY <4>3
      <4>5. s[1] \in SwitchesTo(e)
        BY <2>2, <4>1, <4>3
      <4> QED
        BY <4>4, <4>5 DEF Within
    <3> QED
      BY <1>0, <3>1, <3>2
  <2> QED
    BY <2>1, <2>3, <2>4, <2>5
<1>11. Within(s, Len(s) + 1, SwitchesTo("A"), Switches, TRUE)
  <2>1. r \notin Switches /\ y \in SwitchesTo("A")
    BY <1>1, <1>2 DEF Switches, SwitchesTo, StepsThat
  <2>2. CASE c = "A"
    <3>0. Len(s) = 1 /\ s[1] = r
      BY <1>4, <2>2
    <3>1. \A k \in 1 .. Len(s) : s[k] = r
      BY <3>0
    <3>2. ~Has(s, Switches)
      BY <2>1, <3>1 DEF Has
    <3> QED
      BY <1>6, <3>2, WithoutThem
  <2>3. CASE c = "B"
    <3>0. Len(s) = 3
      BY <1>5, <2>3
    <3>1. 3 \in 1 .. (Len(s) + 1) - 1 /\ \A m \in 3 + 1 .. (Len(s) + 1) - 1 : FALSE
      BY <3>0
    <3>2. s[3] \in SwitchesTo("A")
      BY <1>5, <2>1, <2>3
    <3> QED
      BY <3>1, <3>2 DEF Within
  <2> QED
    BY <1>0, <2>2, <2>3
<1>12. c = "A" => ~Has(s, Switches \cup Uses("B"))
  <2> SUFFICES ASSUME c = "A", NEW k \in 1 .. Len(s)
               PROVE  s[k] \notin Switches \cup Uses("B")
    BY DEF Has
  <2>0. Len(s) = 1 /\ s[1] = r
    BY <1>4
  <2>1. s[k] = r
    BY <2>0
  <2> QED
    BY <1>2, <1>16, <2>1 DEF Switches, Uses, StepsOn, StepsThat
<1>13. ~Has(s, OtherStores(p, level)) /\ ~Has(s, StepsThat({"disable"}))
  BY <1>9 DEF Has, OtherStores, StepsThat
<1>14. WellMade(s, MainLocked, FALSE) /\ Complete(s)
  BY <1>6, <1>8, <1>10, <1>11 DEF WellMade, Complete
<1>15. CallList(s, p, level)
  BY <1>12, <1>13, <1>14 DEF CallList, c
<1> QED
  BY <1>13, <1>15, NoDisable DEF s, c

LEMMA LockedIsCallList ==
  ASSUME NEW step \in LegalStep, step.do \in {"disable", "updatePWMPin", "analogWriteFrequency"},
         NEW p, NEW level
  PROVE  /\ CallList(Locked(step), p, level)
         /\ step.do # "disable" => SketchList(Locked(step), p, level)
         /\ \A q : ~(step.do = "disable" /\ step.pin = q) =>
              Followed(Locked(step), Disables(q), Stores(q))
<1> DEFINE a == [do |-> "lock"]
           b == [do |-> "unlock"]
           s == Locked(step)
<1>0. WellMade(s, MainLocked, FALSE)
  BY LockedIsWellMade
<1>1. s = <<a, step, b>>
  BY DEF Locked
<1>2. a.do = "lock" /\ b.do = "unlock"
  OBVIOUS
<1>3. a \in LegalStep /\ b \in LegalStep
  BY LiteralSteps
<1> HIDE DEF a, b, s
<1>4. s \in Seq(LegalStep) /\ \A k \in 1 .. Len(s) : s[k] \in {a, step, b}
  BY <1>1, <1>3
<1>5. ~Has(s, StoresOrUsb)
  BY <1>2, <1>4 DEF Has, StepsThat, StoresOrUsb
<1>6. CallList(s, p, level)
  BY <1>0, <1>5, PlainCallList
<1>7. step.do # "disable" => ~Has(s, StepsThat({"disable"}))
  BY <1>2, <1>4 DEF Has, StepsThat, StoresOrUsb
<1>8. ASSUME NEW q, ~(step.do = "disable" /\ step.pin = q)
      PROVE  Followed(s, Disables(q), Stores(q))
  <2>1. ~Has(s, Disables(q))
    BY <1>2, <1>4, <1>8 DEF Has, Disables, StepsFor
  <2> QED
    BY <1>4, <2>1, WithoutThem
<1> QED
  BY <1>6, <1>7, <1>8, NoDisable DEF s

LEMMA StartIsSketchList ==
  ASSUME wiring.pwm # {}, NEW p, NEW level
  PROVE  SketchList(<<[do |-> "startPWMThread"]>>, p, level)
<1> DEFINE a == [do |-> "startPWMThread"]
           s == <<a>>
<1>1. a \in LegalStep /\ a.do = "startPWMThread"
  BY LiteralSteps
<1> HIDE DEF a
<1>2. s \in Seq(LegalStep) /\ \A k \in 1 .. Len(s) : s[k] = a
  BY <1>1
<1> HIDE DEF s
<1>3. /\ ~Has(s, StoresOrUsb)
      /\ ~Has(s, StepsThat({"lock", "unlock", "disable", "edges"}))
      /\ ~Has(s, StepsThat({"disable"}))
  BY <1>1, <1>2 DEF Has, StepsThat, StoresOrUsb
<1>4. FALSE \in BOOLEAN
  OBVIOUS
<1>5. Covered(s, MainLocked, Locks, Unlocks, FALSE)
  BY <1>2, <1>3, <1>4, NoMutex
<1>6. WellMade(s, MainLocked, FALSE)
  BY <1>2, <1>3, <1>4, <1>5, OnlyMutex
<1>7. SketchList(s, p, level)
  BY <1>3, <1>6, PlainCallList, NoDisable
<1> QED
  BY <1>7 DEF s, a

(* The level a call leaves at the pin it is for, if it writes that pin. *)
Written(value) == IF value = 0 THEN "LOW" ELSE IF value = 255 THEN "HIGH" ELSE "none"

LEMMA AnalogIsSketchList ==
  ASSUME NEW p \in Pin \cap wiring.pwm, NEW value \in {0, 128, 255}, NEW on \in BOOLEAN
  PROVE  /\ SketchList(AnalogSteps(p, value, on), p, Written(value))
         /\ value \in {0, 255} => Has(AnalogSteps(p, value, on), Stores(p))
<1> DEFINE off == [do |-> "disable", pin |-> p]
           up == [do |-> "updatePWMPin", pin |-> p, on |-> on]
           start == <<[do |-> "startPWMThread"]>>
<1>1. /\ off \in LegalStep /\ off.do = "disable" /\ off.pin = p
      /\ up \in LegalStep /\ up.do = "updatePWMPin"
  BY LiteralSteps
<1>2. AnalogSteps(p, value, on) =
        CASE value = 0   -> Locked(off) \o WriteSteps(p, "LOW")
          [] value = 255 -> Locked(off) \o WriteSteps(p, "HIGH")
          [] OTHER       -> Locked(up) \o start
  BY DEF AnalogSteps
<1>3. wiring.pwm # {}
  OBVIOUS
<1>4. \A level : SketchList(start, p, level)
  BY <1>3, StartIsSketchList
<1> HIDE DEF off, up, start
<1>5. ASSUME NEW level \in Level
      PROVE  /\ SketchList(Locked(off) \o WriteSteps(p, level), p, level)
             /\ Has(Locked(off) \o WriteSteps(p, level), Stores(p))
  <2>1. CallList(Locked(off), p, level)
    BY <1>1, LockedIsCallList
  <2>2. /\ CallList(WriteSteps(p, level), p, level) /\ Has(WriteSteps(p, level), Stores(p))
        /\ ~Has(WriteSteps(p, level), StepsThat({"disable"}))
    BY WriteIsCallList
  <2>3. SketchList(WriteSteps(p, level), p, level)
    BY <2>2, NoDisable
  <2>4. ASSUME NEW q
        PROVE  Followed(Locked(off), Disables(q), Stores(q)) \/ Has(WriteSteps(p, level), Stores(q))
    <3>1. CASE q = p
      BY <2>2, <3>1
    <3>2. CASE q # p
      BY <1>1, <3>2, LockedIsCallList
    <3> QED
      BY <3>1, <3>2
  <2>5. SketchList(Locked(off) \o WriteSteps(p, level), p, level)
    BY <2>1, <2>3, <2>4, ConcatSketchList
  <2>6. Locked(off) \in Seq(LegalStep) /\ WriteSteps(p, level) \in Seq(LegalStep)
    BY <2>1, <2>2 DEF CallList, WellMade
  <2>7. Has(Locked(off) \o WriteSteps(p, level), Stores(p))
    BY <2>2, <2>6, ConcatHas
  <2> QED
    BY <2>5, <2>7
<1>6. ASSUME NEW level
      PROVE  SketchList(Locked(up) \o start, p, level)
  <2>1. SketchList(Locked(up), p, level)
    BY <1>1, LockedIsCallList
  <2> QED
    BY <1>4, <2>1, ConcatSketchList DEF SketchList
<1>7. CASE value = 0
  <2>1. /\ AnalogSteps(p, value, on) = Locked(off) \o WriteSteps(p, "LOW")
        /\ Written(value) = "LOW" /\ "LOW" \in Level
    BY <1>2, <1>7 DEF Written, Level
  <2> QED
    BY <1>5, <2>1
<1>8. CASE value = 255
  <2>1. /\ AnalogSteps(p, value, on) = Locked(off) \o WriteSteps(p, "HIGH")
        /\ Written(value) = "HIGH" /\ "HIGH" \in Level
    BY <1>2, <1>8 DEF Written, Level
  <2> QED
    BY <1>5, <2>1
<1>9. CASE value = 128
  <2>1. AnalogSteps(p, value, on) = Locked(up) \o start /\ value \notin {0, 255}
    BY <1>2, <1>9
  <2> QED
    BY <1>6, <2>1
<1> QED
  BY <1>7, <1>8, <1>9

LEMMA EndIsSketchList ==
  ASSUME NEW stop, stop \in {<<>>, <<[do |-> "clear_running"], [do |-> "join"]>>}, NEW p, NEW level
  PROVE  SketchList(stop \o <<[do |-> "close"]>>, p, level)
<1> DEFINE a == [do |-> "clear_running"]
           b == [do |-> "join"]
           c == [do |-> "close"]
           s == stop \o <<c>>
<1>1. /\ {a, b, c} \subseteq LegalStep
      /\ a.do = "clear_running" /\ b.do = "join" /\ c.do = "close"
  BY LiteralSteps
<1>2. stop = <<>> \/ stop = <<a, b>>
  OBVIOUS
<1> HIDE DEF a, b, c
<1>3. s = <<c>> \/ s = <<a, b, c>>
  <2>1. <<a, b>> \o <<c>> = <<a, b, c>>
    BY TwoAndOne
  <2>2. <<>> \o <<c>> = <<c>>
    OBVIOUS
  <2> QED
    BY <1>2, <2>1, <2>2
<1> HIDE DEF s
<1>4. s \in Seq(LegalStep) /\ \A k \in 1 .. Len(s) : s[k] \in {a, b, c}
  <2>1. CASE s = <<c>>
    BY <1>1, <2>1
  <2>2. CASE s = <<a, b, c>>
    BY <1>1, <2>2
  <2> QED
    BY <1>3, <2>1, <2>2
<1>5. /\ ~Has(s, StoresOrUsb)
      /\ ~Has(s, StepsThat({"lock", "unlock", "disable", "edges"}))
      /\ ~Has(s, StepsThat({"disable"}))
  BY <1>1, <1>4 DEF Has, StepsThat, StoresOrUsb
<1>6. FALSE \in BOOLEAN
  OBVIOUS
<1>7. Covered(s, MainLocked, Locks, Unlocks, FALSE)
  BY <1>4, <1>5, <1>6, NoMutex
<1>8. WellMade(s, MainLocked, FALSE)
  BY <1>4, <1>5, <1>6, <1>7, OnlyMutex
<1>9. SketchList(s, p, level)
  BY <1>5, <1>8, PlainCallList, NoDisable
<1> QED
  BY <1>9 DEF s, c

LEMMA EmptyIsSketchList ==
  ASSUME NEW p, NEW level
  PROVE  SketchList(<<>>, p, level)
<1> DEFINE s == <<>>
<1>1. s \in Seq(LegalStep) /\ Len(s) = 0
  OBVIOUS
<1> HIDE DEF s
<1>2. \A F : ~Has(s, F)
  BY <1>1 DEF Has
<1>3. FALSE \in BOOLEAN
  OBVIOUS
<1>4. Covered(s, MainLocked, Locks, Unlocks, FALSE)
  BY <1>1, <1>2, <1>3, NoMutex
<1>5. WellMade(s, MainLocked, FALSE)
  BY <1>1, <1>2, <1>3, <1>4, OnlyMutex
<1>6. SketchList(s, p, level)
  BY <1>2, <1>5, PlainCallList, NoDisable
<1> QED
  BY <1>6 DEF s

(* The places of what a pass of the PWM thread writes. *)
LEMMA PassWritesPlaces ==
  ASSUME NEW now, NEW pins \in Seq(Pin), NEW w, w = PassWrites(now, pins)
  PROVE  /\ w \in Seq(LegalStep)
         /\ \A k \in 1 .. Len(w) :
              \E i \in 1 .. Len(pins) :
                \/ w[k] \in Loads(getChannel(pins[i]))
                \/ /\ w[k] \in StoresTo(getChannel(pins[i])) \cap Stores(pins[i])
                   /\ k # 1 /\ w[k - 1] \in Loads(getChannel(pins[i]))
<1> DEFINE n == Len(pins)
           at(k) == pins[(k + 1) \div 2]
           level(k) == IF now[at(k)] THEN "HIGH" ELSE "LOW"
           a(k) == [do |-> "load_values", ch |-> getChannel(at(k))]
           b(k) == [do |-> "store_values", ch |-> getChannel(at(k)), pin |-> at(k),
                    level |-> level(k)]
<1>1. n \in Nat /\ 2 * n \in Nat
  OBVIOUS
<1>2. w = [k \in 1 .. 2 * n |-> SetBit(at(k), level(k))[2 - (k % 2)]]
  BY DEF PassWrites
<1>3. Len(w) = 2 * n /\ \A k \in 1 .. 2 * n : w[k] = SetBit(at(k), level(k))[2 - (k % 2)]
  <2> HIDE DEF at, level, n
  <2> QED
    BY <1>1, <1>2
<1>4. ASSUME NEW k \in 1 .. 2 * n
      PROVE  (k + 1) \div 2 \in 1 .. n /\ at(k) \in Pin
  <2>1. (k + 1) \div 2 \in 1 .. n
    BY <1>1
  <2>2. \A i \in 1 .. n : pins[i] \in Pin
    OBVIOUS
  <2> QED
    BY <2>1, <2>2
<1>5. ASSUME NEW k \in 1 .. 2 * n
      PROVE  /\ SetBit(at(k), level(k)) = <<a(k), b(k)>> /\ a(k) \in LegalStep /\ b(k) \in LegalStep
             /\ a(k) \in Loads(getChannel(at(k))) /\ b(k) \in StoresTo(getChannel(at(k)))
             /\ b(k) \in Stores(at(k))
  <2>1. at(k) \in Pin /\ level(k) \in Level
    BY <1>4 DEF Level
  <2> HIDE DEF at, level
  <2> QED
    BY <2>1, SetBitList
<1>6. ASSUME NEW k \in 1 .. 2 * n
      PROVE  \/ k % 2 = 1 /\ w[k] = a(k)
             \/ k % 2 = 0 /\ w[k] = b(k)
  <2>1. k % 2 = 0 \/ k % 2 = 1
    OBVIOUS
  <2>2. /\ SetBit(at(k), level(k)) = <<a(k), b(k)>>
        /\ w[k] = SetBit(at(k), level(k))[2 - (k % 2)]
    BY <1>3, <1>5
  <2> HIDE DEF a, b, at, level, n
  <2>3. w[k] = <<a(k), b(k)>>[2 - (k % 2)]
    BY <2>2
  <2>4. <<a(k), b(k)>>[1] = a(k) /\ <<a(k), b(k)>>[2] = b(k)
    OBVIOUS
  <2>5. CASE k % 2 = 0
    BY <2>3, <2>4, <2>5
  <2>6. CASE k % 2 = 1
    <3>1. 2 - (k % 2) = 1
      BY <2>6
    <3> QED
      BY <2>3, <2>4, <2>6, <3>1
  <2> QED
    BY <2>1, <2>5, <2>6
<1>7. \A k \in 1 .. 2 * n : a(k) \in LegalStep /\ b(k) \in LegalStep
  BY <1>5
<1>8. w \in Seq(LegalStep)
  <2> HIDE DEF a, b, at, level, n
  <2>1. \A k \in 1 .. 2 * n : w[k] \in LegalStep
    BY <1>6, <1>7
  <2>2. w \in [1 .. 2 * n -> LegalStep]
    BY <1>2, <2>1
  <2> QED
    BY <1>1, <2>2
<1>9. ASSUME NEW k \in 1 .. 2 * n
      PROVE  \E i \in 1 .. n :
               \/ w[k] \in Loads(getChannel(pins[i]))
               \/ /\ w[k] \in StoresTo(getChannel(pins[i])) \cap Stores(pins[i])
                  /\ k # 1 /\ w[k - 1] \in Loads(getChannel(pins[i]))
  <2> DEFINE i == (k + 1) \div 2
  <2>1. i \in 1 .. n /\ pins[i] = at(k)
    BY <1>4
  <2>2. CASE k % 2 = 1
    <3>1. w[k] \in Loads(getChannel(at(k)))
      <4> HIDE DEF a, b, at, level, n
      <4> QED
        BY <1>5, <1>6, <2>2
    <3> QED
      BY <2>1, <3>1
  <2>3. CASE k % 2 = 0
    <3>1. w[k] \in StoresTo(getChannel(at(k))) \cap Stores(at(k))
      <4> HIDE DEF a, b, at, level, n
      <4> QED
        BY <1>5, <1>6, <2>3
    <3>2. /\ k # 1 /\ k - 1 \in 1 .. 2 * n /\ (k - 1) % 2 = 1
          /\ ((k - 1) + 1) \div 2 = (k + 1) \div 2
      BY <1>1, <2>3
    <3>3. at(k - 1) = at(k)
      BY <3>2
    <3>4. w[k - 1] = a(k - 1) /\ a(k - 1) \in Loads(getChannel(at(k - 1)))
      <4> HIDE DEF a, b, at, level, n
      <4> QED
        BY <1>5, <1>6, <3>2
    <3>5. w[k - 1] \in Loads(getChannel(pins[i]))
      BY <2>1, <3>3, <3>4
    <3> QED
      BY <2>1, <3>1, <3>2, <3>5
  <2>4. k % 2 = 0 \/ k % 2 = 1
    OBVIOUS
  <2> QED
    BY <2>2, <2>3, <2>4
<1> QED
  BY <1>3, <1>8, <1>9

(* A pass of the PWM thread: it takes the mutex before the list begins and *)
(* stores before it lets it go; it writes only the given pins.             *)
Pass(s, pins) ==
  /\ WellMade(s, PwmLocked, TRUE)
  /\ Covered(s, StepsThat({"store_values"}), {}, Unlocks, TRUE)
  /\ ~Has(s, StepsThat({"edges"}))
  /\ \A q : Has(s, Stores(q)) => \E i \in 1 .. Len(pins) : pins[i] = q
  /\ (\A i \in 1 .. Len(pins) : getChannel(pins[i]) = "A") => ~Has(s, Switches \cup Uses("B"))

LEMMA ConcatPass ==
  ASSUME NEW s, NEW r, NEW pins, Pass(s, pins), WellMade(r, PwmLocked, FALSE),
         ~Has(r, StepsThat({"store_values", "edges"})),
         (\A i \in 1 .. Len(pins) : getChannel(pins[i]) = "A") => ~Has(r, Switches \cup Uses("B"))
  PROVE  /\ Pass(s \o r, pins)
         /\ \A c : Followed(s, StoresTo(c), WritesData(c)) \/ Has(r, WritesData(c))
                   => Followed(s \o r, StoresTo(c), WritesData(c))
<1>1. s \in Seq(LegalStep) /\ r \in Seq(LegalStep) /\ WellMade(s, PwmLocked, TRUE)
  BY DEF Pass, WellMade
<1>2. WellMade(s \o r, PwmLocked, TRUE)
  <2>1. TRUE \in BOOLEAN
    OBVIOUS
  <2> QED
    BY <1>1, <2>1, ConcatWellMade
<1>3. /\ ~Has(r, StepsThat({"store_values"})) /\ ~Has(r, StepsThat({"edges"}))
      /\ \A q : ~Has(r, Stores(q)) /\ \A c : ~Has(r, StoresTo(c))
  <2>1. \A k \in 1 .. Len(r) : r[k] \notin StepsThat({"store_values", "edges"})
    BY DEF Has
  <2> QED
    BY <2>1 DEF Has, Stores, StoresTo, StepsFor, StepsOn, StepsThat
<1>4. Covered(s \o r, StepsThat({"store_values"}), {}, Unlocks, TRUE)
  <2>1. FALSE \in BOOLEAN /\ TRUE \in BOOLEAN
    OBVIOUS
  <2>2. Covered(r, StepsThat({"store_values"}), {}, Unlocks, FALSE)
    BY <1>1, <1>3, <2>1, WithoutThem
  <2>3. Covered(s, StepsThat({"store_values"}), {}, Unlocks, TRUE)
    BY DEF Pass
  <2> DEFINE between == FALSE
  <2>4. /\ between \in BOOLEAN /\ (between => Within(s, Len(s) + 1, {}, Unlocks, TRUE))
        /\ Covered(r, StepsThat({"store_values"}), {}, Unlocks, between)
    BY <2>2
  <2> HIDE DEF between
  <2> QED
    BY <1>1, <2>1, <2>3, <2>4, ConcatCovered
<1>5. ~Has(s \o r, StepsThat({"edges"}))
  BY <1>1, <1>3, ConcatHas DEF Pass
<1>6. ASSUME NEW q, Has(s \o r, Stores(q))
      PROVE  \E i \in 1 .. Len(pins) : pins[i] = q
  <2>1. Has(s, Stores(q))
    BY <1>1, <1>3, <1>6, ConcatHas
  <2> QED
    BY <2>1 DEF Pass
<1>7. (\A i \in 1 .. Len(pins) : getChannel(pins[i]) = "A") => ~Has(s \o r, Switches \cup Uses("B"))
  BY <1>1, ConcatHas DEF Pass
<1>8. ASSUME NEW c, Followed(s, StoresTo(c), WritesData(c)) \/ Has(r, WritesData(c))
      PROVE  Followed(s \o r, StoresTo(c), WritesData(c))
  <2>1. Followed(r, StoresTo(c), WritesData(c))
    BY <1>1, <1>3, WithoutThem
  <2> QED
    BY <1>1, <1>8, <2>1, ConcatFollowed
<1> QED
  BY <1>2, <1>4, <1>5, <1>6, <1>7, <1>8 DEF Pass

LEMMA PassWritesIsPass ==
  ASSUME NEW now, NEW pins \in Seq(Pin), NEW w, w = PassWrites(now, pins)
  PROVE  /\ Pass(w, pins) /\ ~Has(w, Unlocks)
         /\ \A c \in Channel : Has(w, StoresTo(c)) =>
              \E i \in 1 .. Len(pins) : getChannel(pins[i]) = c
<1>1. /\ w \in Seq(LegalStep)
      /\ \A k \in 1 .. Len(w) :
           \E i \in 1 .. Len(pins) :
             \/ w[k] \in Loads(getChannel(pins[i]))
             \/ /\ w[k] \in StoresTo(getChannel(pins[i])) \cap Stores(pins[i])
                /\ k # 1 /\ w[k - 1] \in Loads(getChannel(pins[i]))
  BY PassWritesPlaces
<1>2. \A k \in 1 .. Len(w) : w[k].do \in {"load_values", "store_values"}
  BY <1>1 DEF Loads, StoresTo, StepsOn
<1>3. /\ ~Has(w, StepsThat({"lock", "unlock", "disable", "edges"}))
      /\ ~Has(w, StepsThat({"edges"})) /\ ~Has(w, Unlocks) /\ ~Has(w, Switches)
      /\ ~Has(w, Switches \cup Uses("B"))
      /\ \A c : ~Has(w, SetsMode(c)) /\ ~Has(w, Uses(c))
  BY <1>2 DEF Has, Unlocks, Switches, Uses, SetsMode, StepsOn, StepsThat
<1>4. Covered(w, PwmLocked, Locks, Unlocks, TRUE)
  <2>1. TRUE \in BOOLEAN
    OBVIOUS
  <2> QED
    BY <1>1, <1>3, <2>1, NoMutex
<1>5. Covered(w, StepsThat({"store_values"}), {}, Unlocks, TRUE)
  <2>1. TRUE \in BOOLEAN
    OBVIOUS
  <2> QED
    BY <1>1, <1>3, <2>1, WithoutThem
<1>6. ASSUME NEW c, NEW k \in 1 .. Len(w), w[k] \in StoresTo(c)
      PROVE  /\ k # 1 /\ w[k - 1] \in Loads(c)
             /\ \E i \in 1 .. Len(pins) : getChannel(pins[i]) = c
  <2>1. PICK i \in 1 .. Len(pins) :
          \/ w[k] \in Loads(getChannel(pins[i]))
          \/ /\ w[k] \in StoresTo(getChannel(pins[i])) \cap Stores(pins[i])
             /\ k # 1 /\ w[k - 1] \in Loads(getChannel(pins[i]))
    BY <1>1
  <2>2. w[k] \notin Loads(getChannel(pins[i]))
    BY <1>6 DEF Loads, StoresTo, StepsOn
  <2>3. getChannel(pins[i]) = c
    BY <1>6, <2>1, <2>2 DEF StoresTo, StepsOn
  <2> QED
    BY <2>1, <2>2, <2>3
<1>7. ASSUME NEW c \in Channel
      PROVE  /\ Preceded(w, StoresTo(c), Loads(c)) /\ StartsWithout(w, StoresTo(c))
             /\ Preceded(w, SetsMode(c), LoadsDirections(c)) /\ StartsWithout(w, SetsMode(c))
             /\ Covered(w, Uses(c), SwitchesTo(c), Switches, c = "A")
  <2>1. Preceded(w, StoresTo(c), Loads(c))
    <3>1. \A k \in 2 .. Len(w) : k \in 1 .. Len(w)
      BY <1>1
    <3> QED
      BY <1>6, <3>1 DEF Preceded
  <2>2. StartsWithout(w, StoresTo(c))
    <3>1. w # <<>> => 1 \in 1 .. Len(w)
      BY <1>1
    <3> QED
      BY <1>6, <3>1 DEF StartsWithout
  <2>3. Preceded(w, SetsMode(c), LoadsDirections(c)) /\ StartsWithout(w, SetsMode(c))
    BY <1>1, <1>3, WithoutThem
  <2> DEFINE first == (c = "A")
  <2>4. first \in BOOLEAN
    OBVIOUS
  <2> HIDE DEF first
  <2>5. Covered(w, Uses(c), SwitchesTo(c), Switches, first)
    BY <1>1, <1>3, <2>4, WithoutThem
  <2> QED
    BY <2>1, <2>2, <2>3, <2>5 DEF first
<1>8. Within(w, Len(w) + 1, SwitchesTo("A"), Switches, TRUE)
  BY <1>1, <1>3, WithoutThem
<1>9. WellMade(w, PwmLocked, TRUE)
  BY <1>1, <1>4, <1>7, <1>8 DEF WellMade
<1>10. ASSUME NEW q, Has(w, Stores(q))
       PROVE  \E i \in 1 .. Len(pins) : pins[i] = q
  <2>1. PICK k \in 1 .. Len(w) : w[k] \in Stores(q)
    BY <1>10 DEF Has
  <2>2. PICK i \in 1 .. Len(pins) :
          \/ w[k] \in Loads(getChannel(pins[i]))
          \/ w[k] \in StoresTo(getChannel(pins[i])) \cap Stores(pins[i])
    BY <1>1
  <2>3. w[k] \notin Loads(getChannel(pins[i]))
    BY <2>1 DEF Loads, Stores, StepsOn, StepsFor
  <2> QED
    BY <2>1, <2>2, <2>3 DEF Stores, StepsFor
<1>11. \A c : Has(w, StoresTo(c)) => \E i \in 1 .. Len(pins) : getChannel(pins[i]) = c
  BY <1>6 DEF Has
<1> QED
  BY <1>3, <1>5, <1>9, <1>10, <1>11 DEF Pass

LEMMA PassUpdate ==
  ASSUME NEW c \in Channel, NEW changed \in BOOLEAN, NEW s,
         s = IF changed THEN updateGPIOState(c) ELSE <<>>
  PROVE  /\ WellMade(s, PwmLocked, FALSE)
         /\ ~Has(s, StepsThat({"store_values", "edges"}))
         /\ changed => Has(s, WritesData(c))
         /\ c = "A" \/ ~changed => ~Has(s, Switches \cup Uses("B"))
<1>0. FALSE \in BOOLEAN
  OBVIOUS
<1>1. CASE changed
  <2>1. s = updateGPIOState(c)
    BY <1>1
  <2>2. /\ WellMade(s, PwmLocked, FALSE) /\ Has(s, WritesData(c))
        /\ ~Has(s, StepsThat({"store_values", "disable", "lock", "unlock", "edges"}))
        /\ c = "A" => ~Has(s, Switches \cup Uses("B"))
    BY <1>0, <2>1, UpdateIsWellMade
  <2>3. ~Has(s, StepsThat({"store_values", "edges"}))
    BY <2>2 DEF Has, StepsThat
  <2> QED
    BY <1>1, <2>2, <2>3
<1>2. CASE ~changed
  <2>1. s \in Seq(LegalStep) /\ Len(s) = 0
    BY <1>2
  <2>2. \A F : ~Has(s, F)
    BY <2>1 DEF Has
  <2>3. Covered(s, PwmLocked, Locks, Unlocks, FALSE)
    BY <1>0, <2>1, <2>2, WithoutThem
  <2>4. WellMade(s, PwmLocked, FALSE)
    BY <1>0, <2>1, <2>2, <2>3, OnlyMutex
  <2> QED
    BY <1>2, <2>2, <2>4
<1> QED
  BY <1>1, <1>2

(* The mutex is let go after the values are changed. *)
LEMMA UnlockAfterPass ==
  ASSUME NEW w, NEW pins, Pass(w, pins), ~Has(w, Unlocks), NEW s,
         s = w \o <<[do |-> "unlock"]>>
  PROVE  /\ Pass(s, pins)
         /\ \A c : Has(s, StoresTo(c)) => Has(w, StoresTo(c))
<1> DEFINE a == [do |-> "unlock"]
           u == <<a>>
<1>0. TRUE \in BOOLEAN /\ FALSE \in BOOLEAN
  OBVIOUS
<1>1. a \in LegalStep /\ a.do = "unlock"
  BY LiteralSteps
<1> HIDE DEF a
<1>2. u \in Seq(LegalStep) /\ Len(u) = 1 /\ u[1] = a /\ \A k \in 1 .. Len(u) : u[k] = a /\ k = 1
  BY <1>1
<1>3. s = w \o u
  BY DEF a
<1> HIDE DEF u
<1>4. w \in Seq(LegalStep)
  BY DEF Pass, WellMade
<1>5. ~Has(u, StoresOrUsb)
  BY <1>1, <1>2 DEF Has, StepsThat, StoresOrUsb
<1>6. /\ ~Has(u, StepsThat({"store_values"})) /\ ~Has(u, StepsThat({"edges"}))
      /\ ~Has(u, Switches \cup Uses("B"))
      /\ \A q : ~Has(u, Stores(q)) /\ ~Has(u, StoresTo(q))
  BY <1>1, <1>2 DEF Has, Switches, Uses, Stores, StoresTo, StepsOn, StepsFor, StepsThat, StoresOrUsb
<1>7. Covered(u, PwmLocked, Locks, Unlocks, TRUE)
  <2> SUFFICES ASSUME NEW k \in 1 .. Len(u)
               PROVE  Within(u, k, Locks, Unlocks, TRUE)
    BY DEF Covered
  <2>1. \A j \in 1 .. k - 1 : FALSE
    BY <1>2
  <2> QED
    BY <2>1 DEF Within
<1>8. WellMade(u, PwmLocked, TRUE)
  BY <1>0, <1>2, <1>5, <1>7, OnlyMutex
<1>9. WellMade(s, PwmLocked, TRUE)
  <2>1. Within(w, Len(w) + 1, Locks, Unlocks, TRUE)
    BY <1>0, <1>4, WithoutThem
  <2>2. WellMade(w, PwmLocked, TRUE)
    BY DEF Pass
  <2> DEFINE between == TRUE
  <2>3. /\ between \in BOOLEAN /\ (between => Within(w, Len(w) + 1, Locks, Unlocks, TRUE))
        /\ WellMade(u, PwmLocked, between)
    BY <1>8, <2>1
  <2> HIDE DEF between
  <2> QED
    BY <1>0, <1>3, <2>2, <2>3, ConcatHeldWellMade
<1>10. Covered(s, StepsThat({"store_values"}), {}, Unlocks, TRUE)
  <2> DEFINE between == FALSE
  <2>1. /\ between \in BOOLEAN /\ (between => Within(w, Len(w) + 1, {}, Unlocks, TRUE))
        /\ Covered(u, StepsThat({"store_values"}), {}, Unlocks, between)
    BY <1>0, <1>2, <1>6, WithoutThem
  <2>2. Covered(w, StepsThat({"store_values"}), {}, Unlocks, TRUE)
    BY DEF Pass
  <2> HIDE DEF between
  <2> QED
    BY <1>0, <1>2, <1>3, <1>4, <2>1, <2>2, ConcatCovered
<1>11. \A F : Has(s, F) <=> Has(w, F) \/ Has(u, F)
  BY <1>2, <1>3, <1>4, ConcatHas
<1>12. Pass(s, pins)
  BY <1>6, <1>9, <1>10, <1>11 DEF Pass
<1> QED
  BY <1>6, <1>11, <1>12

(* The thread takes the mutex before it looks at the entries. *)
LEMMA LockFirst ==
  ASSUME NEW what \in {"unlock", "edges"}, NEW s, s = <<[do |-> "lock"], [do |-> what]>>
  PROVE  /\ WellMade(s, PwmLocked, FALSE)
         /\ ~Has(s, StepsThat({"store_values", "write_data"}))
         /\ ~Has(s, Switches \cup Uses("B"))
         /\ what = "unlock" => ~Has(s, StepsThat({"store_values", "edges"}))
<1> DEFINE l == [do |-> "lock"]
           n == [do |-> what]
<1>0. FALSE \in BOOLEAN
  OBVIOUS
<1>1. l \in LegalStep /\ n \in LegalStep /\ l.do = "lock" /\ n.do = what
  BY LiteralSteps
<1>2. s = <<l, n>>
  OBVIOUS
<1> HIDE DEF l, n
<1>3. s \in Seq(LegalStep) /\ Len(s) = 2 /\ s[1] = l /\ s[2] = n
  BY <1>1, <1>2
<1>4. \A k \in 1 .. Len(s) : (k = 1 /\ s[k] = l) \/ (k = 2 /\ s[k] = n)
  BY <1>3
<1>5. /\ ~Has(s, StoresOrUsb)
      /\ ~Has(s, StepsThat({"store_values", "write_data"}))
      /\ ~Has(s, Switches \cup Uses("B"))
      /\ what = "unlock" => ~Has(s, StepsThat({"store_values", "edges"}))
  BY <1>1, <1>4 DEF Has, Switches, Uses, StepsOn, StepsThat, StoresOrUsb
<1>6. l \in Locks /\ l \notin PwmLocked
  BY <1>1 DEF Locks, PwmLocked, StepsThat, StoresOrUsb, LegalStep
<1>7. Covered(s, PwmLocked, Locks, Unlocks, FALSE)
  <2> SUFFICES ASSUME NEW k \in 1 .. Len(s), s[k] \in PwmLocked
               PROVE  \E j \in 1 .. k - 1 : s[j] \in Locks
                                           /\ \A m \in j + 1 .. k - 1 : s[m] \notin Unlocks
    BY DEF Covered, Within
  <2>1. k = 2
    BY <1>4, <1>6
  <2>2. 1 \in 1 .. k - 1 /\ \A m \in 1 + 1 .. k - 1 : FALSE
    BY <2>1
  <2> QED
    BY <1>3, <1>6, <2>2
<1> QED
  BY <1>0, <1>3, <1>5, <1>7, OnlyMutex

LEMMA PassStepsIsPass ==
  ASSUME NEW now, NEW pins \in Seq(Pin), NEW s, s = PassSteps(now, pins)
  PROVE  Pass(s, pins) /\ \A c \in Channel : Followed(s, StoresTo(c), WritesData(c))
<1> DEFINE changed(c) == \E i \in 1 .. Len(pins) : getChannel(pins[i]) = c
           w == PassWrites(now, pins)
           u == w \o <<[do |-> "unlock"]>>
           a == IF changed("A") THEN updateGPIOState("A") ELSE <<>>
           b == IF changed("B") THEN updateGPIOState("B") ELSE <<>>
           z == <<[do |-> "lock"], [do |-> "unlock"]>>
<1>1. s = ((u \o a) \o b) \o z
  BY DEF PassSteps
<1>2. Pass(u, pins) /\ \A c \in Channel : Has(u, StoresTo(c)) => changed(c)
  <2>1. /\ Pass(w, pins) /\ ~Has(w, Unlocks)
        /\ \A c \in Channel : Has(w, StoresTo(c)) => changed(c)
    BY PassWritesIsPass
  <2> HIDE DEF w, changed
  <2>2. Pass(u, pins) /\ \A c : Has(u, StoresTo(c)) => Has(w, StoresTo(c))
    BY <2>1, UnlockAfterPass
  <2> QED
    BY <2>1, <2>2
<1>3. /\ WellMade(a, PwmLocked, FALSE) /\ ~Has(a, StepsThat({"store_values", "edges"}))
      /\ changed("A") => Has(a, WritesData("A"))
      /\ ~Has(a, Switches \cup Uses("B"))
  <2>1. "A" \in Channel /\ changed("A") \in BOOLEAN
    BY DEF Channel
  <2> HIDE DEF changed
  <2> QED
    BY <2>1, PassUpdate
<1>4. /\ WellMade(b, PwmLocked, FALSE) /\ ~Has(b, StepsThat({"store_values", "edges"}))
      /\ changed("B") => Has(b, WritesData("B"))
      /\ ~changed("B") => ~Has(b, Switches \cup Uses("B"))
  <2>1. "B" \in Channel /\ changed("B") \in BOOLEAN
    BY DEF Channel
  <2> HIDE DEF changed
  <2> QED
    BY <2>1, PassUpdate
<1>5. (\A i \in 1 .. Len(pins) : getChannel(pins[i]) = "A") => ~changed("B")
  OBVIOUS
<1>6. /\ WellMade(z, PwmLocked, FALSE) /\ ~Has(z, StepsThat({"store_values", "edges"}))
      /\ ~Has(z, Switches \cup Uses("B"))
  BY LockFirst
<1>7. ASSUME NEW c \in Channel
      PROVE  /\ changed(c) => (\/ c = "A" /\ Has(a, WritesData(c))
                               \/ c = "B" /\ Has(b, WritesData(c)))
             /\ ~changed(c) => Followed(u, StoresTo(c), WritesData(c))
  <2>1. c = "A" \/ c = "B"
    BY DEF Channel
  <2>2. u \in Seq(LegalStep)
    BY <1>2 DEF Pass, WellMade
  <2>3. ~changed(c) => ~Has(u, StoresTo(c))
    BY <1>2
  <2> HIDE DEF changed, a, b, u
  <2>4. ~changed(c) => Followed(u, StoresTo(c), WritesData(c))
    BY <2>2, <2>3, WithoutThem
  <2> QED
    BY <1>3, <1>4, <2>1, <2>4
<1> HIDE DEF changed, a, b, u, z
<1>8. /\ Pass(u \o a, pins)
      /\ \A c : Followed(u, StoresTo(c), WritesData(c)) \/ Has(a, WritesData(c))
                => Followed(u \o a, StoresTo(c), WritesData(c))
  BY <1>2, <1>3, ConcatPass
<1>9. /\ Pass((u \o a) \o b, pins)
      /\ \A c : Followed(u \o a, StoresTo(c), WritesData(c)) \/ Has(b, WritesData(c))
                => Followed((u \o a) \o b, StoresTo(c), WritesData(c))
  BY <1>4, <1>5, <1>8, ConcatPass
<1>10. /\ Pass(((u \o a) \o b) \o z, pins)
       /\ \A c : Followed((u \o a) \o b, StoresTo(c), WritesData(c)) \/ Has(z, WritesData(c))
                 => Followed(((u \o a) \o b) \o z, StoresTo(c), WritesData(c))
  BY <1>6, <1>9, ConcatPass
<1>11. ASSUME NEW c \in Channel
       PROVE  Followed(s, StoresTo(c), WritesData(c))
  BY <1>1, <1>7, <1>8, <1>9, <1>10
<1> QED
  BY <1>1, <1>10, <1>11


(***************************************************************************)
(* The steps of both threads.                                              *)
(***************************************************************************)
UsbCall == {"set_interface", "set_bitmode", "write_data", "read_pins"}
UsbStep == UsbCall \cup {"load_directions"}

(* A failing call of libftdi drops only calls of libftdi. *)
LEMMA GivenUpDrops ==
  ASSUME NEW s \in Seq(LegalStep), s # <<>>, Head(s).do \in UsbCall
  PROVE  /\ GivenUp(s) \in Seq(LegalStep)
         /\ \E n : RestOf(GivenUp(s), s, n) /\ \A i \in 1 .. n : s[i].do \in UsbStep
<1> DEFINE c == Head(s).ch
           other == {k \in 1 .. Len(s) : ~IsUsb(s[k], c)}
           first == CHOOSE k \in other : \A j \in other : k <= j
<1>1. GivenUp(s) \in Seq(LegalStep)
  BY GivenUpIsRest
<1>2. s[1] = Head(s) /\ Len(s) \in Nat /\ 1 \in 1 .. Len(s)
  OBVIOUS
<1>3. CASE Head(s).do = "read_pins"
  <2>1. GivenUp(s) = Tail(s)
    BY <1>3 DEF GivenUp
  <2>2. RestOf(Tail(s), s, 1)
    BY TailIsRest
  <2>3. \A i \in 1 .. 1 : s[i].do \in UsbStep
    BY <1>2, <1>3 DEF UsbStep, UsbCall
  <2> QED
    BY <1>1, <2>1, <2>2, <2>3
<1>4. CASE Head(s).do # "read_pins" /\ other = {}
  <2>1. GivenUp(s) = <<>>
    BY <1>4 DEF GivenUp
  <2>2. RestOf(<<>>, s, Len(s))
    BY <1>2 DEF RestOf
  <2>3. \A i \in 1 .. Len(s) : s[i].do \in UsbStep
    BY <1>4 DEF IsUsb, UsbStep, UsbCall
  <2> QED
    BY <1>1, <2>1, <2>2, <2>3
<1>5. CASE Head(s).do # "read_pins" /\ other # {}
  <2>1. GivenUp(s) = SubSeq(s, first, Len(s))
    BY <1>5 DEF GivenUp
  <2>2. first \in other /\ \A j \in other : first <= j
    <3>1. other \subseteq Nat
      OBVIOUS
    <3>2. \E k \in other : \A j \in other : k <= j
      BY <1>5, <3>1, LeastOfNats
    <3> QED
      BY <3>2
  <2>3. 1 \notin other
    BY <1>2 DEF IsUsb, UsbCall
  <2> HIDE DEF first
  <2>4. first \in 2 .. Len(s)
    BY <2>2, <2>3
  <2>5. RestOf(GivenUp(s), s, first - 1)
    <3>1. Len(GivenUp(s)) = Len(s) - (first - 1)
      BY <1>2, <2>1, <2>4
    <3>2. \A i \in 1 .. Len(GivenUp(s)) : GivenUp(s)[i] = s[i + (first - 1)]
      BY <1>2, <2>1, <2>4, <3>1
    <3> QED
      BY <1>2, <2>4, <3>1, <3>2 DEF RestOf
  <2>6. ASSUME NEW i \in 1 .. first - 1
        PROVE  s[i].do \in UsbStep
    <3>1. i \in 1 .. Len(s) /\ ~(first <= i)
      BY <1>2, <2>4
    <3>2. i \notin other
      BY <2>2, <3>1
    <3> QED
      BY <3>1, <3>2 DEF IsUsb, UsbStep, UsbCall
  <2> QED
    BY <1>1, <2>5, <2>6
<1> QED
  BY <1>3, <1>4, <1>5

(* Thread t has done, or given up, the first n steps of its list. *)
Advance(t, n) ==
  /\ DOMAIN todo' = Thread
     /\ \A u \in Thread \ {t} : todo'[u] = todo[u]
  /\ todo'[t] \in Seq(LegalStep) /\ RestOf(todo'[t], todo[t], n)

LEMMA StepDoneAdvances ==
  ASSUME DOMAIN todo = Thread, NEW t \in Thread, todo[t] \in Seq(LegalStep), todo[t] # <<>>,
         StepDone(t)
  PROVE  /\ Advance(t, 1) /\ Now(t) = todo[t][1] /\ Now(t) \in LegalStep
         /\ todo'[t] = Tail(todo[t])
<1>1. todo' = [todo EXCEPT ![t] = Tail(@)]
  BY DEF StepDone
<1>2. todo'[t] = Tail(todo[t]) /\ DOMAIN todo' = Thread
     /\ \A u \in Thread \ {t} : todo'[u] = todo[u]
  BY <1>1
<1>3. /\ Tail(todo[t]) \in Seq(LegalStep) /\ RestOf(Tail(todo[t]), todo[t], 1)
      /\ Head(todo[t]) = todo[t][1] /\ todo[t][1] \in LegalStep
  BY TailIsRest
<1> QED
  BY <1>2, <1>3 DEF Advance, Now

LEMMA FailAdvances ==
  ASSUME DOMAIN todo = Thread, NEW t \in Thread, todo[t] \in Seq(LegalStep), UsbFail(t)
  PROVE  \E n : Advance(t, n) /\ \A i \in 1 .. n : todo[t][i].do \in UsbStep
<1>1. todo' = [todo EXCEPT ![t] = GivenUp(@)] /\ todo[t] # <<>> /\ Head(todo[t]).do \in UsbCall
  BY DEF UsbFail, Now, UsbCall
<1>2. todo'[t] = GivenUp(todo[t]) /\ DOMAIN todo' = Thread
      /\ \A u \in Thread \ {t} : todo'[u] = todo[u]
  BY <1>1
<1>3. /\ GivenUp(todo[t]) \in Seq(LegalStep)
      /\ \E n : RestOf(GivenUp(todo[t]), todo[t], n) /\ \A i \in 1 .. n : todo[t][i].do \in UsbStep
  BY <1>1, GivenUpDrops
<1> QED
  BY <1>2, <1>3 DEF Advance

(* All that the invariants need to know of a step of thread t: it does the *)
(* first step of its list, or it gives up calls of libftdi.                *)
LEMMA SharedAdvances ==
  ASSUME DOMAIN todo = Thread, NEW t \in Thread, todo[t] \in Seq(LegalStep), Shared(t)
  PROVE  \/ /\ Advance(t, 1) /\ Now(t) = todo[t][1] /\ Now(t) \in LegalStep /\ todo[t] # <<>>
            /\ todo'[t] = Tail(todo[t])
            /\ ~UsbFail(t)
         \/ UsbFail(t) /\ \E n : Advance(t, n) /\ \A i \in 1 .. n : todo[t][i].do \in UsbStep
<1>1. CASE UsbFail(t)
  BY <1>1, FailAdvances
<1>2. CASE ~UsbFail(t)
  <2>1. todo[t] # <<>> /\ StepDone(t)
    BY <1>2 DEF Shared, Lock, Unlock, LoadValues, StoreValues, LoadDirections, UsbSetInterface,
                UsbSetBitmode, UsbWriteData, UsbReadPins, Doing
  <2> QED
    BY <1>2, <2>1, StepDoneAdvances
<1> QED
  BY <1>1, <1>2

(***************************************************************************)
(* A call of the sketch: its list, the pin it is for and the level it      *)
(* leaves there, "none" if it writes no pin.                               *)
(***************************************************************************)
OneChannel == \A p \in wiring.pins : getChannel(p) = "A"

PwmEntry == [enabled : BOOLEAN, on : BOOLEAN, current_state : BOOLEAN]
DeviceState == [directions : SUBSET Pin, values : SUBSET Pin, told : BOOLEAN]
GpioTypes ==
  /\ wiring \in Wirings /\ DOMAIN todo = Thread
  /\ mutex \in {"free"} \cup Thread
  /\ pin_directions \in [Channel -> SUBSET Pin] /\ pin_values \in [Channel -> SUBSET Pin]
  /\ pwm_pins \in [Pin -> PwmEntry]
  /\ reg \in [Thread -> SUBSET Pin]
  /\ selected \in Channel /\ device \in [Channel -> DeviceState]
  /\ commanded \in [Pin -> Level \cup {"none"}]

Commands(s, p, level) ==
  \/ /\ p \in Pin /\ level \in Level /\ Has(s, Stores(p))
     /\ commanded' = [commanded EXCEPT ![p] = level]
  \/ /\ level = "none" /\ commanded' \in [Pin -> Level \cup {"none"}]
     /\ \A q \in Pin : commanded'[q] = commanded[q] \/ commanded'[q] = "none"

SketchCall(s, p, level) ==
  /\ todo["main"] = <<>> /\ todo'["main"] = s /\ todo'["pwm"] = todo["pwm"]
  /\ DOMAIN todo' = Thread /\ SketchList(s, p, level) /\ Commands(s, p, level)
  /\ UNCHANGED <<wiring, pin_values, pwm_pins, alive, mutex, reg>>
  /\ pin_directions' \in [Channel -> SUBSET Pin]
  /\ \A c \in Channel : pin_directions'[c] = pin_directions[c] \/ Has(s, SetsMode(c))
  /\ UNCHANGED usbVars \/ (selected' = "A" /\ device' = [c \in Channel |-> Untold] /\ s = <<>>)
  /\ OneChannel => ~Has(s, Switches \cup Uses("B"))

LEMMA CallEnters ==
  ASSUME DOMAIN todo = Thread, NEW s, GpioCall(s)
  PROVE  /\ todo["main"] = <<>> /\ todo'["main"] = s /\ todo'["pwm"] = todo["pwm"]
         /\ DOMAIN todo' = Thread
BY DEF GpioCall, Thread

LEMMA SetModeChanges ==
  ASSUME pin_directions \in [Channel -> SUBSET Pin], NEW p \in Pin, NEW mode, SetMode(p, mode)
  PROVE  /\ pin_directions' \in [Channel -> SUBSET Pin]
         /\ \A c \in Channel : pin_directions'[c] = pin_directions[c] \/ c = getChannel(p)
<1> DEFINE d == IF mode = "OUTPUT" THEN pin_directions[getChannel(p)] \cup {p}
                                   ELSE pin_directions[getChannel(p)] \ {p}
<1>1. getChannel(p) \in Channel
  BY ChannelOfPin
<1>2. d \in SUBSET Pin
  BY <1>1
<1>3. pin_directions' = [pin_directions EXCEPT ![getChannel(p)] = d]
  BY DEF SetMode
<1> HIDE DEF d
<1> QED
  BY <1>1, <1>2, <1>3

LEMMA NothingCommanded ==
  ASSUME GpioTypes, UNCHANGED commanded, NEW s, NEW p
  PROVE  Commands(s, p, "none")
BY DEF GpioTypes, Commands

LEMMA OnOneChannel ==
  ASSUME NEW p \in wiring.pins, NEW s, NEW level, SketchList(s, p, level)
  PROVE  OneChannel => ~Has(s, Switches \cup Uses("B"))
BY DEF OneChannel, SketchList, CallList

LEMMA SketchMakes ==
  ASSUME GpioTypes, GpioSketch
  PROVE  \E s, p, level : SketchCall(s, p, level)
<1>0. /\ wiring.pins \subseteq Pin /\ wiring.pwm \subseteq wiring.pins /\ DOMAIN todo = Thread
      /\ pin_directions \in [Channel -> SUBSET Pin]
  BY WiringAssumption DEF GpioTypes
<1>1. CASE GpioBegin
  <2>1. GpioCall(<<>>) /\ UNCHANGED <<wiring, pin_values, pwm_pins, alive, mutex, reg,
                                      pin_directions, commanded>>
        /\ selected' = "A" /\ device' = [c \in Channel |-> Untold]
    BY <1>1 DEF GpioBegin, threadVars, history
  <2>2. SketchList(<<>>, 0, "none")
    BY EmptyIsSketchList
  <2>3. Commands(<<>>, 0, "none")
    BY <2>1, NothingCommanded
  <2>4. ~Has(<<>>, Switches \cup Uses("B"))
    BY DEF Has
  <2>5. SketchCall(<<>>, 0, "none")
    BY <1>0, <2>1, <2>2, <2>3, <2>4, CallEnters DEF SketchCall
  <2> QED
    BY <2>5
<1>2. CASE GpioEnd
  <2> DEFINE stop == IF pwm_thread_running
                     THEN <<[do |-> "clear_running"], [do |-> "join"]>> ELSE <<>>
             s == stop \o <<[do |-> "close"]>>
  <2>1. GpioCall(s) /\ UNCHANGED <<wiring, pin_values, pwm_pins, alive, mutex, reg,
                                   pin_directions, commanded, usbVars>>
    BY <1>2 DEF GpioEnd, classVars, threadVars, history
  <2>2. \A p : SketchList(s, p, "none")
    <3>1. stop \in {<<>>, <<[do |-> "clear_running"], [do |-> "join"]>>}
      OBVIOUS
    <3> HIDE DEF stop
    <3> QED
      BY <3>1, EndIsSketchList
  <2> HIDE DEF s
  <2>3. Commands(s, 0, "none")
    BY <2>1, NothingCommanded
  <2>4. ~Has(s, Switches \cup Uses("B"))
    <3>1. SketchList(s, 0, "none") /\ getChannel(0) = "A"
      BY <2>2 DEF getChannel
    <3> QED
      BY <3>1 DEF SketchList, CallList
  <2>5. SketchCall(s, 0, "none")
    BY <1>0, <2>1, <2>2, <2>3, <2>4, CallEnters DEF SketchCall
  <2> QED
    BY <2>5
<1>3. ASSUME NEW p \in wiring.pins, NEW mode, pinMode(p, mode)
      PROVE  SketchCall(updateGPIOState(getChannel(p)), p, "none")
  <2> DEFINE s == updateGPIOState(getChannel(p))
  <2>1. GpioCall(s) /\ UNCHANGED <<wiring, pin_values, pwm_pins, alive, mutex, reg,
                                   commanded, usbVars>> /\ SetMode(p, mode)
    BY <1>3 DEF pinMode, threadVars, history
  <2>2. SketchList(s, p, "none") /\ Has(s, SetsMode(getChannel(p)))
    BY UpdateIsSketchList
  <2> HIDE DEF s
  <2>3. Commands(s, p, "none")
    BY <2>1, NothingCommanded
  <2>4. /\ pin_directions' \in [Channel -> SUBSET Pin]
        /\ \A c \in Channel : pin_directions'[c] = pin_directions[c] \/ Has(s, SetsMode(c))
    BY <1>0, <2>1, <2>2, SetModeChanges
  <2>5. OneChannel => ~Has(s, Switches \cup Uses("B"))
    BY <2>2, OnOneChannel
  <2> QED
    BY <1>0, <2>1, <2>2, <2>3, <2>4, <2>5, CallEnters DEF SketchCall, s
<1>4. ASSUME NEW p \in wiring.pins, NEW level \in Level, digitalWrite(p, level)
      PROVE  SketchCall(WriteSteps(p, level), p, level)
  <2> DEFINE s == WriteSteps(p, level)
  <2>1. GpioCall(s) /\ UNCHANGED <<wiring, pin_values, pwm_pins, alive, mutex, reg,
                                   pin_directions, usbVars>>
        /\ commanded' = [commanded EXCEPT ![p] = level]
    BY <1>4 DEF digitalWrite, classVars, threadVars
  <2>2. /\ CallList(s, p, level) /\ Has(s, Stores(p)) /\ ~Has(s, StepsThat({"disable"}))
    BY <1>0, WriteIsCallList
  <2> HIDE DEF s
  <2>3. SketchList(s, p, level)
    BY <2>2, NoDisable
  <2>4. Commands(s, p, level)
    BY <1>0, <2>1, <2>2 DEF Commands
  <2>5. OneChannel => ~Has(s, Switches \cup Uses("B"))
    BY <2>3, OnOneChannel
  <2> QED
    BY <1>0, <2>1, <2>3, <2>4, <2>5, CallEnters DEF SketchCall, s
<1>5. ASSUME NEW p \in wiring.pins, digitalRead(p)
      PROVE  SketchCall(readGPIOState(getChannel(p)), p, "none")
  <2> DEFINE s == readGPIOState(getChannel(p))
  <2>1. GpioCall(s) /\ UNCHANGED <<wiring, pin_values, pwm_pins, alive, mutex, reg,
                                   pin_directions, commanded, usbVars>>
    BY <1>5 DEF digitalRead, classVars, threadVars, history
  <2>2. SketchList(s, p, "none")
    BY ReadIsSketchList
  <2> HIDE DEF s
  <2>3. Commands(s, p, "none")
    BY <2>1, NothingCommanded
  <2>4. OneChannel => ~Has(s, Switches \cup Uses("B"))
    BY <2>2, OnOneChannel
  <2> QED
    BY <1>0, <2>1, <2>2, <2>3, <2>4, CallEnters DEF SketchCall, s
<1>6. ASSUME NEW p \in wiring.pwm, NEW value \in {0, 128, 255}, NEW on \in BOOLEAN,
             analogWrite(p, value, on)
      PROVE  \E s : SketchCall(s, p, Written(value))
  <2> DEFINE a == AnalogSteps(p, value, on)
             u == updateGPIOState(getChannel(p))
             level == Written(value)
  <2>0. p \in Pin \cap wiring.pwm /\ p \in wiring.pins
    BY <1>0
  <2>1. /\ UNCHANGED <<wiring, pin_values, pwm_pins, alive, mutex, reg, usbVars>>
        /\ commanded' = [commanded EXCEPT ![p] = level]
    <3>1. commanded' = [commanded EXCEPT ![p] = CASE value = 0   -> "LOW"
                                                  [] value = 255 -> "HIGH"
                                                  [] OTHER       -> "none"]
      BY <1>6 DEF analogWrite
    <3>2. level = CASE value = 0   -> "LOW"
                    [] value = 255 -> "HIGH"
                    [] OTHER       -> "none"
      BY DEF Written
    <3>3. UNCHANGED <<wiring, pin_values, pwm_pins, alive, mutex, reg, usbVars>>
      BY <1>6 DEF analogWrite, threadVars
    <3> HIDE DEF level
    <3> QED
      BY <3>1, <3>2, <3>3
  <2>2. SketchList(a, p, level) /\ (value \in {0, 255} => Has(a, Stores(p)))
    BY <2>0, AnalogIsSketchList
  <2>3. SketchList(u, p, level) /\ Has(u, SetsMode(getChannel(p)))
    BY UpdateIsSketchList
  <2>4. \/ GpioCall(u \o a) /\ SetMode(p, "OUTPUT")
        \/ GpioCall(a) /\ UNCHANGED pin_directions
    BY <1>6 DEF analogWrite
  <2>5. \/ value \in {0, 255} /\ level \in Level
        \/ value = 128 /\ level = "none"
    BY DEF Written, Level
  <2> HIDE DEF a, u, level
  <2>6. a \in Seq(LegalStep) /\ u \in Seq(LegalStep)
    BY <2>2, <2>3 DEF SketchList, CallList, WellMade
  <2>7. ASSUME NEW s, s = a \/ s = u \o a
        PROVE  /\ SketchList(s, p, level) /\ Commands(s, p, level)
               /\ OneChannel => ~Has(s, Switches \cup Uses("B"))
    <3>1. SketchList(u \o a, p, level)
      BY <2>2, <2>3, ConcatSketchList DEF SketchList
    <3>2. SketchList(s, p, level)
      BY <2>2, <2>7, <3>1
    <3>3. value \in {0, 255} => Has(s, Stores(p))
      <4>1. Has(a, Stores(p)) => Has(u \o a, Stores(p))
        BY <2>6, ConcatHas
      <4> QED
        BY <2>2, <2>7, <4>1
    <3>4. ASSUME value \in {0, 255} /\ level \in Level
          PROVE  Commands(s, p, level)
      <4>1. p \in Pin /\ level \in Level /\ Has(s, Stores(p))
        BY <2>0, <3>3, <3>4
      <4>2. commanded' = [commanded EXCEPT ![p] = level]
        BY <2>1
      <4>3. Commands(s, p, level)
        BY <4>1, <4>2 DEF Commands
      <4> QED
        BY <4>3
    <3>5. ASSUME value = 128 /\ level = "none"
          PROVE  Commands(s, p, level)
      <4>1. commanded \in [Pin -> Level \cup {"none"}]
        BY DEF GpioTypes
      <4>2. commanded' \in [Pin -> Level \cup {"none"}]
            /\ \A q \in Pin : commanded'[q] = commanded[q] \/ commanded'[q] = "none"
        BY <2>0, <2>1, <3>5, <4>1
      <4>3. level = "none"
        BY <3>5
      <4>4. Commands(s, p, level)
        BY <4>2, <4>3 DEF Commands
      <4> QED
        BY <4>4
    <3> QED
      BY <2>0, <2>5, <3>2, <3>4, <3>5, OnOneChannel
  <2>8. CASE GpioCall(u \o a) /\ SetMode(p, "OUTPUT")
    <3>1. /\ pin_directions' \in [Channel -> SUBSET Pin]
          /\ \A c \in Channel : pin_directions'[c] = pin_directions[c] \/ Has(u \o a, SetsMode(c))
      BY <1>0, <2>0, <2>3, <2>6, <2>8, SetModeChanges, ConcatHas
    <3>2. /\ SketchList(u \o a, p, level) /\ Commands(u \o a, p, level)
          /\ OneChannel => ~Has(u \o a, Switches \cup Uses("B"))
      BY <2>7
    <3>3. /\ todo["main"] = <<>> /\ todo'["main"] = u \o a /\ todo'["pwm"] = todo["pwm"]
          /\ DOMAIN todo' = Thread
      BY <1>0, <2>8, CallEnters
    <3>4. SketchCall(u \o a, p, level)
      BY <2>1, <3>1, <3>2, <3>3 DEF SketchCall
    <3> QED
      BY <3>4 DEF level
  <2>9. CASE GpioCall(a) /\ UNCHANGED pin_directions
    <3>1. /\ SketchList(a, p, level) /\ Commands(a, p, level)
          /\ OneChannel => ~Has(a, Switches \cup Uses("B"))
      BY <2>7
    <3>2. /\ todo["main"] = <<>> /\ todo'["main"] = a /\ todo'["pwm"] = todo["pwm"]
          /\ DOMAIN todo' = Thread
      BY <1>0, <2>9, CallEnters
    <3>3. SketchCall(a, p, level)
      BY <1>0, <2>1, <2>9, <3>1, <3>2 DEF SketchCall
    <3> QED
      BY <3>3 DEF level
  <2> QED
    BY <2>4, <2>8, <2>9
<1>7. ASSUME NEW p \in wiring.pwm, NEW on \in BOOLEAN, analogWriteFrequency(p, on)
      PROVE  \E s : SketchCall(s, p, "none")
  <2> DEFINE step == [do |-> "analogWriteFrequency", pin |-> p, on |-> on]
             s == Locked(step)
  <2>1. GpioCall(s) /\ UNCHANGED <<wiring, pin_values, pwm_pins, alive, mutex, reg,
                                   pin_directions, commanded, usbVars>>
    BY <1>7 DEF analogWriteFrequency, classVars, threadVars, history
  <2>2. step \in LegalStep /\ step.do = "analogWriteFrequency"
    BY <1>0, LiteralSteps
  <2> HIDE DEF step
  <2>3. SketchList(s, p, "none")
    BY <2>2, LockedIsCallList
  <2> HIDE DEF s
  <2>4. Commands(s, p, "none")
    BY <2>1, NothingCommanded
  <2>5. OneChannel => ~Has(s, Switches \cup Uses("B"))
    BY <1>0, <2>3, OnOneChannel
  <2>6. SketchCall(s, p, "none")
    BY <1>0, <2>1, <2>3, <2>4, <2>5, CallEnters DEF SketchCall
  <2> QED
    BY <2>6
<1> QED
  BY <1>1, <1>2, <1>3, <1>4, <1>5, <1>6, <1>7 DEF GpioSketch

(***************************************************************************)
(* The lists stay well made: what is done under pwm_mutex is done under    *)
(* it, a store comes right after the load of its channel, a set_bitmode    *)
(* right after the load of its directions, and a store is followed by a    *)
(* write to the device.                                                    *)
(***************************************************************************)
Holds(t) == mutex = t
LockedFor(t) == IF t = "main" THEN MainLocked ELSE PwmLocked

ListInv ==
  /\ \A t \in Thread :
       /\ todo[t] \in Seq(LegalStep)
       /\ Covered(todo[t], LockedFor(t), Locks, Unlocks, Holds(t))
       /\ \A c \in Channel : /\ Preceded(todo[t], StoresTo(c), Loads(c))
                             /\ Preceded(todo[t], SetsMode(c), LoadsDirections(c))
                             /\ Followed(todo[t], StoresTo(c), WritesData(c))
  /\ Covered(todo["pwm"], StepsThat({"store_values"}), {}, Unlocks, Holds("pwm"))
  /\ \A p \in Pin : Followed(todo["main"], Disables(p), Stores(p))
  /\ Has(todo["pwm"], StepsThat({"edges"}))
       => ~Has(todo["pwm"], StepsThat({"store_values", "write_data"}))

LEMMA HeldAtHead ==
  ASSUME NEW s, NEW W, NEW O, NEW C, NEW held \in BOOLEAN, Covered(s, W, O, C, held),
         1 \in 1 .. Len(s), s[1] \in W
  PROVE  held
<1>1. Within(s, 1, O, C, held)
  BY DEF Covered
<1>2. \A j \in 1 .. 1 - 1 : FALSE
  OBVIOUS
<1> QED
  BY <1>1, <1>2 DEF Within

LEMMA NotHeldIsWeaker ==
  ASSUME NEW s, NEW W, NEW O, NEW C, NEW held \in BOOLEAN, Covered(s, W, O, C, FALSE)
  PROVE  Covered(s, W, O, C, held)
BY DEF Covered, Within

(* How the mutex may change in the first n steps of thread t. *)
MutexMove(t, n) ==
  \/ mutex' = mutex /\ \A i \in 1 .. n : todo[t][i].do \notin {"lock", "unlock"}
  \/ n = 1 /\ todo[t][1].do = "lock" /\ mutex = "free" /\ mutex' = t
  \/ n = 1 /\ todo[t][1].do = "unlock" /\ mutex' = "free"

LEMMA AdvanceKeepsLists ==
  ASSUME ListInv, UNCHANGED wiring, NEW t \in Thread, NEW n, Advance(t, n), MutexMove(t, n)
  PROVE  ListInv'
<1> DEFINE s == todo[t]
           r == todo'[t]
           held == mutex = t
           after == mutex' = t
<1>1. /\ s \in Seq(LegalStep) /\ r \in Seq(LegalStep) /\ RestOf(r, s, n)
      /\ \A u \in Thread \ {t} : todo'[u] = todo[u]
      /\ n \in 1 .. Len(s) /\ 1 \in 1 .. Len(s)
  BY DEF Advance, ListInv, RestOf
<1>2. /\ Covered(s, LockedFor(t), Locks, Unlocks, held)
      /\ \A c \in Channel : /\ Preceded(s, StoresTo(c), Loads(c))
                            /\ Preceded(s, SetsMode(c), LoadsDirections(c))
                            /\ Followed(s, StoresTo(c), WritesData(c))
  BY DEF ListInv, Holds
<1>3. held \in BOOLEAN /\ after \in BOOLEAN
  OBVIOUS
<1>4. LegalStep' = LegalStep
  BY DEF LegalStep
<1>5. \A i \in 1 .. n : s[i] \in GpioStep
  BY <1>1 DEF LegalStep
<1>6. Passes(s, n, Locks, Unlocks, held, after)
  <2>1. CASE mutex' = mutex /\ \A i \in 1 .. n : s[i].do \notin {"lock", "unlock"}
    <3>1. \A i \in 1 .. n : s[i] \notin Locks \cup Unlocks
      BY <2>1 DEF Locks, Unlocks, StepsThat
    <3> QED
      BY <2>1, <3>1 DEF Passes
  <2>2. CASE n = 1 /\ s[1].do = "lock" /\ mutex = "free" /\ mutex' = t
    <3>1. s[1] \in Locks /\ after = TRUE
      BY <1>5, <2>2 DEF Locks, StepsThat
    <3> QED
      BY <2>2, <3>1 DEF Passes
  <2>3. CASE n = 1 /\ s[1].do = "unlock" /\ mutex' = "free"
    <3>1. s[1] \in Unlocks /\ s[1] \notin Locks
      BY <1>5, <2>3 DEF Locks, Unlocks, StepsThat
    <3> QED
      BY <2>3, <3>1 DEF Passes
  <2> QED
    BY <2>1, <2>2, <2>3 DEF MutexMove
<1>7. \A u \in Thread \ {t} : (mutex' = u) = (mutex = u)
  <2>1. ASSUME n = 1, s[1].do = "unlock"
        PROVE  mutex = t
    <3>1. s[1] \in LockedFor(t)
      BY <1>5, <2>1 DEF LockedFor, MainLocked, PwmLocked, StepsThat
    <3> HIDE DEF held
    <3>2. held
      BY <1>1, <1>2, <1>3, <3>1, HeldAtHead
    <3> QED
      BY <3>2 DEF held
  <2> QED
    BY <2>1 DEF MutexMove, Thread
<1>8. ASSUME t = "pwm"
      PROVE  Covered(r, StepsThat({"store_values"}), {}, Unlocks, after)
  <2>1. Covered(s, StepsThat({"store_values"}), {}, Unlocks, held)
    BY <1>8 DEF ListInv, Holds
  <2>2. CASE mutex' = mutex /\ \A i \in 1 .. n : s[i].do \notin {"lock", "unlock"}
    <3>1. Passes(s, n, {}, Unlocks, held, after)
      BY <2>2 DEF Passes, Unlocks, StepsThat
    <3> HIDE DEF s, r, held, after
    <3> QED
      BY <1>1, <1>3, <2>1, <3>1, RestIsCovered
  <2>3. CASE n = 1 /\ s[1].do = "lock" /\ mutex = "free" /\ mutex' = t
    <3>1. ~held
      BY <2>3 DEF Thread
    <3>2. ~Has(s, StepsThat({"store_values"}))
      BY <2>1, <3>1 DEF Covered, Within, Has
    <3>3. ~Has(r, StepsThat({"store_values"}))
      BY <1>1, <3>2, RestHas
    <3> HIDE DEF s, r, held, after
    <3> QED
      BY <1>1, <1>3, <3>3, WithoutThem
  <2>4. CASE n = 1 /\ s[1].do = "unlock" /\ mutex' = "free"
    <3>1. s[1] \in Unlocks
      BY <1>5, <2>4 DEF Unlocks, StepsThat
    <3>2. Passes(s, n, {}, Unlocks, held, after)
      BY <2>4, <3>1 DEF Passes
    <3> HIDE DEF s, r, held, after
    <3> QED
      BY <1>1, <1>3, <2>1, <3>2, RestIsCovered
  <2> QED
    BY <2>2, <2>3, <2>4 DEF MutexMove
<1>9. ASSUME t = "main", NEW p \in Pin
      PROVE  Followed(r, Disables(p), Stores(p))
  <2>1. Followed(s, Disables(p), Stores(p))
    BY <1>9 DEF ListInv
  <2> HIDE DEF s, r
  <2> QED
    BY <1>1, <2>1, RestIsFollowed
<1>10. ASSUME t = "pwm", Has(r, StepsThat({"edges"}))
       PROVE  ~Has(r, StepsThat({"store_values", "write_data"}))
  <2>1. Has(s, StepsThat({"edges"})) => ~Has(s, StepsThat({"store_values", "write_data"}))
    BY <1>10 DEF ListInv
  <2> HIDE DEF s, r
  <2> QED
    BY <1>1, <1>10, <2>1, RestHas
<1>11. /\ Covered(r, LockedFor(t), Locks, Unlocks, after)
       /\ \A c \in Channel : /\ Preceded(r, StoresTo(c), Loads(c))
                             /\ Preceded(r, SetsMode(c), LoadsDirections(c))
                             /\ Followed(r, StoresTo(c), WritesData(c))
  <2> HIDE DEF s, r, held, after
  <2>1. Covered(r, LockedFor(t), Locks, Unlocks, after)
    BY <1>1, <1>2, <1>3, <1>6, RestIsCovered
  <2>2. ASSUME NEW c \in Channel
        PROVE  /\ Preceded(r, StoresTo(c), Loads(c))
               /\ Preceded(r, SetsMode(c), LoadsDirections(c))
               /\ Followed(r, StoresTo(c), WritesData(c))
    BY <1>1, <1>2, RestIsPreceded, RestIsFollowed
  <2> QED
    BY <2>1, <2>2
<1>12. ASSUME NEW u \in Thread
       PROVE  /\ todo'[u] \in Seq(LegalStep)
              /\ Covered(todo'[u], LockedFor(u), Locks, Unlocks, mutex' = u)
              /\ \A c \in Channel : /\ Preceded(todo'[u], StoresTo(c), Loads(c))
                                    /\ Preceded(todo'[u], SetsMode(c), LoadsDirections(c))
                                    /\ Followed(todo'[u], StoresTo(c), WritesData(c))
  <2>1. CASE u = t
    BY <1>1, <1>11, <2>1
  <2>2. CASE u # t
    <3>1. todo'[u] = todo[u] /\ (mutex' = u) = (mutex = u)
      BY <1>1, <1>7, <2>2
    <3> QED
      BY <3>1 DEF ListInv, Holds
  <2> QED
    BY <2>1, <2>2
<1>13. Covered(todo'["pwm"], StepsThat({"store_values"}), {}, Unlocks, mutex' = "pwm")
  <2>1. CASE t = "pwm"
    BY <1>8, <2>1
  <2>2. CASE t # "pwm"
    <3>1. todo'["pwm"] = todo["pwm"] /\ (mutex' = "pwm") = (mutex = "pwm")
      BY <1>1, <1>7, <2>2 DEF Thread
    <3> QED
      BY <3>1 DEF ListInv, Holds
  <2> QED
    BY <2>1, <2>2
<1>14. \A p \in Pin : Followed(todo'["main"], Disables(p), Stores(p))
  <2>1. CASE t = "main"
    BY <1>9, <2>1
  <2>2. CASE t # "main"
    <3>1. todo'["main"] = todo["main"]
      BY <1>1, <2>2 DEF Thread
    <3> QED
      BY <3>1 DEF ListInv
  <2> QED
    BY <2>1, <2>2
<1>15. Has(todo'["pwm"], StepsThat({"edges"}))
         => ~Has(todo'["pwm"], StepsThat({"store_values", "write_data"}))
  <2>1. CASE t = "pwm"
    BY <1>10, <2>1
  <2>2. CASE t # "pwm"
    <3>1. todo'["pwm"] = todo["pwm"]
      BY <1>1, <2>2 DEF Thread
    <3> QED
      BY <3>1 DEF ListInv
  <2> QED
    BY <2>1, <2>2
<1> QED
  BY <1>4, <1>12, <1>13, <1>14, <1>15 DEF ListInv, Holds

(* The fields of a step. *)
LEMMA StepFields ==
  ASSUME NEW x \in LegalStep
  PROVE  /\ x \in GpioStep
         /\ x.do \in {"load_values", "load_directions", "set_bitmode", "write_data", "read_pins",
                      "set_interface", "store_values"} => x.ch \in Channel
         /\ x.do = "set_interface" => x.to \in Channel
         /\ x.do = "store_values" => /\ x.pin \in Pin /\ x.level \in Level
                                     /\ x.ch = getChannel(x.pin)
         /\ x.do \in {"disable", "updatePWMPin", "analogWriteFrequency"} => x.pin \in Pin
         /\ x.do \in {"updatePWMPin", "analogWriteFrequency"} => x.on \in BOOLEAN
         /\ x.do = "updatePWMPin" => x.pin \in wiring.pwm
         /\ x.do = "startPWMThread" => wiring.pwm # {}
BY DEF LegalStep, GpioStep, OrdinaryStep, EndStep

(* The step a thread is about to do. *)
LEMMA Begins ==
  ASSUME ListInv, NEW t \in Thread, todo[t] # <<>>
  PROVE  Now(t) = todo[t][1] /\ Now(t) \in LegalStep /\ 1 \in 1 .. Len(todo[t])
<1>1. todo[t] \in Seq(LegalStep)
  BY DEF ListInv
<1>2. Head(todo[t]) = todo[t][1] /\ todo[t][1] \in LegalStep
  BY <1>1, TailIsRest
<1>3. 1 \in 1 .. Len(todo[t])
  BY <1>1
<1> QED
  BY <1>2, <1>3 DEF Now

LEMMA SharedKeepsLists ==
  ASSUME GpioTypes, ListInv, NEW t \in Thread, Shared(t)
  PROVE  ListInv'
<1>0. DOMAIN todo = Thread /\ todo[t] \in Seq(LegalStep)
  BY DEF GpioTypes, ListInv
<1>1. UNCHANGED wiring
  BY SharedChanges
<1>2. CASE UsbFail(t)
  <2>1. PICK n : Advance(t, n) /\ \A i \in 1 .. n : todo[t][i].do \in UsbStep
    BY <1>0, <1>2, FailAdvances
  <2>2. mutex' = mutex
    BY <1>2 DEF UsbFail, threadVars
  <2>3. MutexMove(t, n)
    BY <2>1, <2>2 DEF MutexMove, UsbStep, UsbCall
  <2> QED
    BY <1>1, <2>1, <2>3, AdvanceKeepsLists
<1>3. CASE ~UsbFail(t)
  <2>1. Advance(t, 1) /\ Now(t) = todo[t][1] /\ todo[t] # <<>>
    BY <1>0, <1>3, SharedAdvances
  <2>2. CASE Lock(t)
    <3>1. Now(t).do = "lock" /\ mutex = "free" /\ mutex' = t
      BY <2>2 DEF Lock, Doing, Now
    <3> QED
      BY <1>1, <2>1, <3>1, AdvanceKeepsLists DEF MutexMove
  <2>3. CASE Unlock(t)
    <3>1. Now(t).do = "unlock" /\ mutex' = "free"
      BY <2>3 DEF Unlock, Doing, Now
    <3> QED
      BY <1>1, <2>1, <3>1, AdvanceKeepsLists DEF MutexMove
  <2>4. CASE ~Lock(t) /\ ~Unlock(t)
    <3>1. Now(t).do \notin {"lock", "unlock"} /\ mutex' = mutex
      BY <1>3, <2>4 DEF Shared, LoadValues, StoreValues, LoadDirections, UsbSetInterface,
         UsbSetBitmode, UsbWriteData, UsbReadPins, Doing, Now, threadVars
    <3>2. \A i \in 1 .. 1 : i = 1
      OBVIOUS
    <3>3. MutexMove(t, 1)
      BY <2>1, <3>1, <3>2 DEF MutexMove
    <3> QED
      BY <1>1, <2>1, <3>3, AdvanceKeepsLists
  <2> QED
    BY <2>2, <2>3, <2>4
<1> QED
  BY <1>2, <1>3

(* What only the main thread does. *)
MainOnly == ChangeEntry \/ startPWMThread \/ ClearRunning \/ Join \/ CloseContext

LEMMA MainAdvances ==
  ASSUME GpioTypes, ListInv, MainOnly
  PROVE  /\ Advance("main", 1) /\ Now("main") = todo["main"][1] /\ Now("main") \in LegalStep
         /\ todo["main"] # <<>> /\ todo'["main"] = Tail(todo["main"])
         /\ UNCHANGED <<wiring, mutex, pin_directions, pin_values, reg, usbVars>>
         /\ Now("main").do \in {"disable", "updatePWMPin", "analogWriteFrequency",
                                "startPWMThread", "clear_running", "join", "close"}
<1>1. todo["main"] # <<>> /\ StepDone("main")
  BY DEF MainOnly, ChangeEntry, startPWMThread, ClearRunning, Join, CloseContext, Doing
<1>2. DOMAIN todo = Thread /\ "main" \in Thread /\ todo["main"] \in Seq(LegalStep)
  BY DEF GpioTypes, ListInv, Thread
<1>3. UNCHANGED <<wiring, mutex, pin_directions, pin_values, reg, usbVars>>
  BY DEF MainOnly, ChangeEntry, startPWMThread, ClearRunning, Join, CloseContext, classVars,
     threadVars
<1>4. Now("main").do \in {"disable", "updatePWMPin", "analogWriteFrequency",
                          "startPWMThread", "clear_running", "join", "close"}
  BY DEF MainOnly, ChangeEntry, startPWMThread, ClearRunning, Join, CloseContext, Doing, Now
<1> QED
  BY <1>1, <1>2, <1>3, <1>4, StepDoneAdvances

LEMMA MainKeepsLists ==
  ASSUME GpioTypes, ListInv, MainOnly
  PROVE  ListInv'
<1>1. /\ Advance("main", 1) /\ Now("main") = todo["main"][1] /\ UNCHANGED <<wiring, mutex>>
      /\ Now("main").do \notin {"lock", "unlock"} /\ "main" \in Thread
  BY MainAdvances DEF Thread
<1>2. \A i \in 1 .. 1 : i = 1
  OBVIOUS
<1>3. MutexMove("main", 1)
  BY <1>1, <1>2 DEF MutexMove
<1> QED
  BY <1>1, <1>3, AdvanceKeepsLists

LEMMA SketchKeepsLists ==
  ASSUME GpioTypes, ListInv, NEW s, NEW p, NEW level, SketchCall(s, p, level)
  PROVE  ListInv'
<1> DEFINE held == mutex = "main"
<1>1. /\ todo'["main"] = s /\ todo'["pwm"] = todo["pwm"] /\ UNCHANGED <<wiring, mutex>>
      /\ WellMade(s, MainLocked, FALSE) /\ Complete(s)
      /\ \A q : Followed(s, Disables(q), Stores(q))
  BY DEF SketchCall, SketchList, CallList
<1>2. LegalStep' = LegalStep
  BY <1>1 DEF LegalStep
<1>3. Covered(s, MainLocked, Locks, Unlocks, held)
  <2>1. Covered(s, MainLocked, Locks, Unlocks, FALSE) /\ held \in BOOLEAN
    BY <1>1 DEF WellMade
  <2> HIDE DEF held
  <2> QED
    BY <2>1, NotHeldIsWeaker
<1>4. /\ s \in Seq(LegalStep)
      /\ \A c \in Channel : /\ Preceded(s, StoresTo(c), Loads(c))
                            /\ Preceded(s, SetsMode(c), LoadsDirections(c))
                            /\ Followed(s, StoresTo(c), WritesData(c))
  BY <1>1 DEF WellMade, Complete
<1>5. ASSUME NEW u \in Thread
      PROVE  /\ todo'[u] \in Seq(LegalStep)
             /\ Covered(todo'[u], LockedFor(u), Locks, Unlocks, mutex' = u)
             /\ \A c \in Channel : /\ Preceded(todo'[u], StoresTo(c), Loads(c))
                                   /\ Preceded(todo'[u], SetsMode(c), LoadsDirections(c))
                                   /\ Followed(todo'[u], StoresTo(c), WritesData(c))
  <2>1. CASE u = "main"
    BY <1>1, <1>3, <1>4, <2>1 DEF LockedFor
  <2>2. CASE u = "pwm"
    BY <1>1, <2>2 DEF ListInv, Holds
  <2> QED
    BY <2>1, <2>2 DEF Thread
<1>6. Covered(todo'["pwm"], StepsThat({"store_values"}), {}, Unlocks, mutex' = "pwm")
  BY <1>1 DEF ListInv, Holds
<1>7. \A q \in Pin : Followed(todo'["main"], Disables(q), Stores(q))
  BY <1>1
<1>8. Has(todo'["pwm"], StepsThat({"edges"}))
        => ~Has(todo'["pwm"], StepsThat({"store_values", "write_data"}))
  BY <1>1 DEF ListInv
<1> QED
  BY <1>2, <1>5, <1>6, <1>7, <1>8 DEF ListInv, Holds

(* A new list of the PWM thread. *)
LEMMA NewPwmKeepsLists ==
  ASSUME ListInv, UNCHANGED <<wiring, mutex>>, NEW s,
         todo'["main"] = todo["main"], todo'["pwm"] = s,
         NEW held \in BOOLEAN, held => mutex = "pwm", WellMade(s, PwmLocked, held),
         Covered(s, StepsThat({"store_values"}), {}, Unlocks, held),
         \A c \in Channel : Followed(s, StoresTo(c), WritesData(c)),
         Has(s, StepsThat({"edges"})) => ~Has(s, StepsThat({"store_values", "write_data"}))
  PROVE  ListInv'
<1> DEFINE now == mutex = "pwm"
<1>1. LegalStep' = LegalStep
  BY DEF LegalStep
<1>2. /\ Covered(s, PwmLocked, Locks, Unlocks, now)
      /\ Covered(s, StepsThat({"store_values"}), {}, Unlocks, now)
  <2>1. Covered(s, PwmLocked, Locks, Unlocks, held)
    BY DEF WellMade
  <2> QED
    BY <2>1 DEF Covered, Within
<1>3. /\ s \in Seq(LegalStep)
      /\ \A c \in Channel : /\ Preceded(s, StoresTo(c), Loads(c))
                            /\ Preceded(s, SetsMode(c), LoadsDirections(c))
                            /\ Followed(s, StoresTo(c), WritesData(c))
  BY DEF WellMade
<1>4. ASSUME NEW u \in Thread
      PROVE  /\ todo'[u] \in Seq(LegalStep)
             /\ Covered(todo'[u], LockedFor(u), Locks, Unlocks, mutex' = u)
             /\ \A c \in Channel : /\ Preceded(todo'[u], StoresTo(c), Loads(c))
                                   /\ Preceded(todo'[u], SetsMode(c), LoadsDirections(c))
                                   /\ Followed(todo'[u], StoresTo(c), WritesData(c))
  <2>1. CASE u = "main"
    BY <2>1 DEF ListInv, Holds
  <2>2. CASE u = "pwm"
    BY <1>2, <1>3, <2>2 DEF LockedFor
  <2> QED
    BY <2>1, <2>2 DEF Thread
<1>5. Covered(todo'["pwm"], StepsThat({"store_values"}), {}, Unlocks, mutex' = "pwm")
  BY <1>2
<1>6. \A p \in Pin : Followed(todo'["main"], Disables(p), Stores(p))
  BY DEF ListInv
<1> QED
  BY <1>1, <1>4, <1>5, <1>6 DEF ListInv, Holds

LEMMA EdgesMakes ==
  ASSUME GpioTypes, ListInv, Edges("pwm")
  PROVE  /\ mutex = "pwm" /\ todo["pwm"] # <<>> /\ ~Has(todo["pwm"], StepsThat({"write_data"}))
         /\ UNCHANGED <<wiring, mutex, alive, pin_directions, pin_values, reg, usbVars, commanded>>
         /\ todo'["main"] = todo["main"] /\ DOMAIN todo' = Thread
         /\ pwm_pins' \in [Pin -> PwmEntry]
         /\ \A p \in Pin : pwm_pins'[p].enabled = pwm_pins[p].enabled
         /\ \E now, pins : /\ pins \in Seq(Pin) /\ todo'["pwm"] = PassSteps(now, pins)
                           /\ \A i \in 1 .. Len(pins) : pwm_pins[pins[i]].enabled
<1>0. /\ DOMAIN todo = Thread /\ "pwm" \in Thread /\ "main" \in Thread
      /\ pwm_pins \in [Pin -> PwmEntry]
  BY DEF GpioTypes, Thread
<1>1. todo["pwm"] # <<>> /\ Head(todo["pwm"]).do = "edges"
  BY DEF Edges, Doing
<1>2. /\ Now("pwm") = todo["pwm"][1] /\ Now("pwm") \in LegalStep /\ 1 \in 1 .. Len(todo["pwm"])
      /\ Now("pwm").do = "edges"
  BY <1>0, <1>1, Begins DEF Now
<1>3. todo["pwm"][1] \in StepsThat({"edges"}) /\ todo["pwm"][1] \in PwmLocked
  BY <1>2, StepFields DEF StepsThat, PwmLocked
<1>4. mutex = "pwm"
  <2> DEFINE held == mutex = "pwm"
  <2>1. Covered(todo["pwm"], PwmLocked, Locks, Unlocks, held) /\ held \in BOOLEAN
    BY <1>0 DEF ListInv, LockedFor, Holds
  <2> HIDE DEF held
  <2>2. held
    BY <1>2, <1>3, <2>1, HeldAtHead
  <2> QED
    BY <2>2 DEF held
<1>5. ~Has(todo["pwm"], StepsThat({"write_data"}))
  <2>1. Has(todo["pwm"], StepsThat({"edges"}))
    BY <1>2, <1>3 DEF Has
  <2>2. ~Has(todo["pwm"], StepsThat({"store_values", "write_data"}))
    BY <2>1 DEF ListInv
  <2> QED
    BY <2>2 DEF Has, StepsThat
<1>6. UNCHANGED <<wiring, mutex, alive, pin_directions, pin_values, reg, usbVars, commanded>>
  BY DEF Edges, threadVars, history
<1>7. PICK now \in [Pin -> BOOLEAN] :
        /\ \A p \in Pin :
             now[p] \in IF pwm_pins[p].enabled
                        THEN {pwm_pins[p].current_state, pwm_pins[p].on, FALSE}
                        ELSE {pwm_pins[p].current_state}
        /\ pwm_pins' = [p \in Pin |-> [pwm_pins[p] EXCEPT !.current_state = now[p]]]
        /\ LET changed == {p \in Pin : now[p] # pwm_pins[p].current_state}
           IN \E pins \in [1 .. Cardinality(changed) -> changed] :
                todo' = [todo EXCEPT !["pwm"] = PassSteps(now, pins)]
  BY DEF Edges
<1> DEFINE changed == {p \in Pin : now[p] # pwm_pins[p].current_state}
<1>8. PICK pins \in [1 .. Cardinality(changed) -> changed] :
        todo' = [todo EXCEPT !["pwm"] = PassSteps(now, pins)]
  BY <1>7
<1>9. Cardinality(changed) \in Nat
  <2>1. IsFiniteSet(0 .. 15)
    <3>1. 0 \in Int /\ 15 \in Int
      OBVIOUS
    <3> QED
      BY <3>1, FS_Interval, Zenon
  <2>2. changed \subseteq 0 .. 15
    BY PinAssumption
  <2> HIDE DEF changed
  <2> QED
    BY <2>1, <2>2, FS_Subset, FS_CardinalityType
<1>10. changed \subseteq Pin /\ \A p \in changed : pwm_pins[p].enabled
  BY <1>7
<1> HIDE DEF changed
<1>11. pins \in Seq(Pin) /\ \A i \in 1 .. Len(pins) : pwm_pins[pins[i]].enabled
  <2>1. pins \in [1 .. Cardinality(changed) -> Pin] /\ Len(pins) = Cardinality(changed)
    BY <1>8, <1>9, <1>10
  <2>2. pins \in Seq(Pin)
    BY <1>9, <2>1
  <2>3. \A i \in 1 .. Len(pins) : pins[i] \in changed
    BY <1>8, <2>1
  <2> QED
    BY <1>10, <2>2, <2>3
<1>12. ASSUME NEW p \in Pin
       PROVE  /\ pwm_pins'[p] \in PwmEntry
              /\ pwm_pins'[p].enabled = pwm_pins[p].enabled
  <2>1. pwm_pins'[p] = [pwm_pins[p] EXCEPT !.current_state = now[p]] /\ now[p] \in BOOLEAN
    BY <1>7
  <2>2. pwm_pins[p] \in PwmEntry
    BY <1>0
  <2> QED
    BY <2>1, <2>2 DEF PwmEntry
<1>13. pwm_pins' \in [Pin -> PwmEntry]
  BY <1>7, <1>12
<1>14. todo'["main"] = todo["main"] /\ DOMAIN todo' = Thread
       /\ todo'["pwm"] = PassSteps(now, pins)
  BY <1>0, <1>8
<1>15. \E n, s : /\ s \in Seq(Pin) /\ todo'["pwm"] = PassSteps(n, s)
                 /\ \A i \in 1 .. Len(s) : pwm_pins[s[i]].enabled
  BY <1>11, <1>14
<1> QED
  BY <1>1, <1>4, <1>5, <1>6, <1>12, <1>13, <1>14, <1>15

(* The PWM thread begins a pass or leaves. *)
LEMMA PwmBegins ==
  ASSUME GpioTypes, pwmThreadFunction
  PROVE  /\ UNCHANGED <<wiring, mutex, pin_directions, pin_values, pwm_pins, reg, usbVars,
                        commanded>>
         /\ todo'["main"] = todo["main"] /\ DOMAIN todo' = Thread /\ alive
         /\ todo["pwm"] = <<>>
         /\ todo'["pwm"] = <<>> \/ todo'["pwm"] = <<[do |-> "lock"], [do |-> "edges"]>>
         /\ alive' => alive
<1>1. DOMAIN todo = Thread
  BY DEF GpioTypes
<1>2. UNCHANGED <<wiring, mutex, pin_directions, pin_values, pwm_pins, reg, usbVars,
                        commanded>>
  BY DEF pwmThreadFunction, classVars, history
<1>3. alive /\ todo["pwm"] = <<>>
  BY DEF pwmThreadFunction
<1>4. CASE pwm_thread_running
  <2>1. todo' = [todo EXCEPT !["pwm"] = <<[do |-> "lock"], [do |-> "edges"]>>]
    BY <1>4 DEF pwmThreadFunction
  <2>2. /\ todo'["pwm"] = <<[do |-> "lock"], [do |-> "edges"]>>
        /\ todo'["main"] = todo["main"] /\ DOMAIN todo' = Thread
    BY <1>1, <2>1 DEF Thread
  <2> QED
    BY <1>2, <1>3, <2>2
<1>5. CASE ~pwm_thread_running
  <2>1. todo' = todo
    BY <1>5 DEF pwmThreadFunction
  <2> QED
    BY <1>1, <1>2, <1>3, <2>1
<1> QED
  BY <1>4, <1>5

LEMMA PwmKeepsLists ==
  ASSUME GpioTypes, ListInv, pwmThreadFunction \/ Edges("pwm")
  PROVE  ListInv'
<1>0. FALSE \in BOOLEAN /\ TRUE \in BOOLEAN
  OBVIOUS
<1>1. CASE pwmThreadFunction
  <2>1. /\ UNCHANGED <<wiring, mutex>> /\ todo'["main"] = todo["main"] /\ todo["pwm"] = <<>>
        /\ todo'["pwm"] = <<>> \/ todo'["pwm"] = <<[do |-> "lock"], [do |-> "edges"]>>
    BY <1>1, PwmBegins
  <2>2. CASE todo'["pwm"] = <<>>
    <3>1. todo'["pwm"] = todo["pwm"] /\ LegalStep' = LegalStep
      BY <2>1, <2>2 DEF LegalStep
    <3>2. \A u \in Thread : todo'[u] = todo[u]
      BY <2>1, <3>1 DEF Thread
    <3> QED
      BY <2>1, <3>1, <3>2 DEF ListInv, Holds
  <2>3. CASE todo'["pwm"] = <<[do |-> "lock"], [do |-> "edges"]>>
    <3> DEFINE s == todo'["pwm"]
    <3>1. /\ WellMade(s, PwmLocked, FALSE)
          /\ ~Has(s, StepsThat({"store_values", "write_data"}))
      BY <2>3, LockFirst
    <3> HIDE DEF s
    <3>2. s \in Seq(LegalStep)
      BY <3>1 DEF WellMade
    <3>3. ~Has(s, StepsThat({"store_values"})) /\ \A c : ~Has(s, StoresTo(c))
      BY <3>1 DEF Has, StoresTo, StepsOn, StepsThat
    <3>4. /\ Covered(s, StepsThat({"store_values"}), {}, Unlocks, FALSE)
          /\ \A c \in Channel : Followed(s, StoresTo(c), WritesData(c))
      BY <1>0, <3>2, <3>3, WithoutThem
    <3> DEFINE held == FALSE
    <3>5. /\ held \in BOOLEAN /\ (held => mutex = "pwm") /\ WellMade(s, PwmLocked, held)
          /\ Covered(s, StepsThat({"store_values"}), {}, Unlocks, held)
      BY <3>1, <3>4
    <3> HIDE DEF held
    <3> QED
      BY <2>1, <3>1, <3>4, <3>5, NewPwmKeepsLists DEF s
  <2> QED
    BY <2>1, <2>2, <2>3
<1>2. CASE Edges("pwm")
  <2>1. /\ mutex = "pwm" /\ UNCHANGED <<wiring, mutex>> /\ todo'["main"] = todo["main"]
        /\ \E now, pins : pins \in Seq(Pin) /\ todo'["pwm"] = PassSteps(now, pins)
    BY <1>2, EdgesMakes
  <2> DEFINE s == todo'["pwm"]
             held == TRUE
  <2>2. PICK now, pins : pins \in Seq(Pin) /\ s = PassSteps(now, pins)
    BY <2>1
  <2> HIDE DEF s
  <2>3. Pass(s, pins) /\ \A c \in Channel : Followed(s, StoresTo(c), WritesData(c))
    BY <2>2, PassStepsIsPass
  <2>4. /\ held \in BOOLEAN /\ (held => mutex = "pwm") /\ WellMade(s, PwmLocked, held)
        /\ Covered(s, StepsThat({"store_values"}), {}, Unlocks, held)
        /\ ~Has(s, StepsThat({"edges"}))
    BY <2>1, <2>3 DEF Pass
  <2> HIDE DEF held
  <2> QED
    BY <2>1, <2>3, <2>4, NewPwmKeepsLists DEF s
<1> QED
  BY <1>1, <1>2

LEMMA InitGpioTypes == FtdiGpioInit => GpioTypes /\ ListInv
<1> SUFFICES ASSUME FtdiGpioInit
             PROVE  GpioTypes /\ ListInv
  OBVIOUS
<1>1. todo = [t \in Thread |-> <<>>]
  BY DEF FtdiGpioInit
<1>2. DOMAIN todo = Thread /\ \A t \in Thread : todo[t] = <<>>
  BY <1>1
<1>3. GpioTypes
  <2>1. NoPwm \in PwmEntry
    BY DEF NoPwm, PwmEntry
  <2>2. Untold \in DeviceState
    BY DEF Untold, DeviceState
  <2>3. "A" \in Channel
    BY DEF Channel
  <2> QED
    BY <1>2, <2>1, <2>2, <2>3 DEF FtdiGpioInit, GpioTypes
<1>4. ASSUME NEW s, s = <<>>
      PROVE  s \in Seq(LegalStep) /\ Len(s) = 0 /\ \A F : ~Has(s, F)
  BY <1>4 DEF Has
<1>5. ASSUME NEW s, s = <<>>, NEW W, NEW O, NEW C, NEW held \in BOOLEAN
      PROVE  Covered(s, W, O, C, held) /\ Preceded(s, W, O) /\ Followed(s, W, O)
  <2>1. s \in Seq(LegalStep) /\ ~Has(s, W)
    BY <1>4, <1>5
  <2> QED
    BY <2>1, WithoutThem
<1>6. "pwm" \in Thread /\ "main" \in Thread /\ \A t \in Thread : Holds(t) \in BOOLEAN
  BY DEF Thread, Holds
<1>7. ListInv
  BY <1>2, <1>4, <1>5, <1>6 DEF ListInv
<1> QED
  BY <1>3, <1>7

LEMMA SketchKeepsTypes ==
  ASSUME GpioTypes, NEW s, NEW p, NEW level, SketchCall(s, p, level)
  PROVE  GpioTypes'
<1>1. commanded' \in [Pin -> Level \cup {"none"}]
  BY DEF SketchCall, Commands, GpioTypes
<1>2. selected' \in Channel /\ device' \in [Channel -> DeviceState]
  <2>1. Untold \in DeviceState /\ "A" \in Channel
    BY DEF Untold, DeviceState, Channel
  <2> QED
    BY <2>1 DEF SketchCall, usbVars, GpioTypes
<1> QED
  BY <1>1, <1>2 DEF SketchCall, GpioTypes

LEMMA SharedKeepsTypes ==
  ASSUME GpioTypes, ListInv, NEW t \in Thread, Shared(t)
  PROVE  GpioTypes'
<1>0. DOMAIN todo = Thread /\ todo[t] \in Seq(LegalStep) /\ todo[t] # <<>>
  BY SharedChanges DEF GpioTypes, ListInv
<1>1. DOMAIN todo' = Thread
  BY <1>0, SharedAdvances DEF Advance
<1>2. Now(t) \in LegalStep
  BY <1>0, Begins
<1>3. /\ UNCHANGED <<wiring, pin_directions, pwm_pins>>
      /\ commanded' = commanded
  BY DEF Shared, Lock, Unlock, LoadValues, StoreValues, LoadDirections, UsbSetInterface,
     UsbSetBitmode, UsbWriteData, UsbReadPins, UsbFail, classVars, history
<1>4. mutex' \in {"free"} \cup Thread
  BY DEF Shared, Lock, Unlock, LoadValues, StoreValues, LoadDirections, UsbSetInterface,
     UsbSetBitmode, UsbWriteData, UsbReadPins, UsbFail, threadVars, GpioTypes
<1>5. pin_values' \in [Channel -> SUBSET Pin]
  <2>1. CASE StoreValues(t)
    <3>1. Now(t).pin \in Pin /\ Now(t).ch \in Channel
      BY <1>2, <2>1, StepFields DEF StoreValues, Doing, Now
    <3>2. reg[t] \in SUBSET Pin
      BY DEF GpioTypes
    <3>3. \/ pin_values' = [pin_values EXCEPT ![Now(t).ch] = reg[t] \cup {Now(t).pin}]
          \/ pin_values' = [pin_values EXCEPT ![Now(t).ch] = reg[t] \ {Now(t).pin}]
      BY <2>1 DEF StoreValues
    <3> QED
      BY <3>1, <3>2, <3>3 DEF GpioTypes
  <2>2. CASE ~StoreValues(t)
    <3>1. UNCHANGED pin_values
      BY <2>2 DEF Shared, Lock, Unlock, LoadValues, LoadDirections, UsbSetInterface,
         UsbSetBitmode, UsbWriteData, UsbReadPins, UsbFail, classVars
    <3> QED
      BY <3>1 DEF GpioTypes
  <2> QED
    BY <2>1, <2>2
<1>6. reg' \in [Thread -> SUBSET Pin]
  <2>1. CASE LoadValues(t)
    <3>1. Now(t).ch \in Channel
      BY <1>2, <2>1, StepFields DEF LoadValues, Doing, Now
    <3> QED
      BY <2>1, <3>1 DEF LoadValues, GpioTypes
  <2>2. CASE LoadDirections(t)
    <3>1. Now(t).ch \in Channel
      BY <1>2, <2>2, StepFields DEF LoadDirections, Doing, Now
    <3> QED
      BY <2>2, <3>1 DEF LoadDirections, GpioTypes
  <2>3. CASE ~LoadValues(t) /\ ~LoadDirections(t)
    <3>1. reg' = reg \/ reg' = [reg EXCEPT ![t] = {}]
      BY <2>3 DEF Shared, Lock, Unlock, StoreValues, UsbSetInterface,
         UsbSetBitmode, UsbWriteData, UsbReadPins, UsbFail
    <3> QED
      BY <3>1 DEF GpioTypes
  <2> QED
    BY <2>1, <2>2, <2>3
<1>7. selected' \in Channel
  <2>1. CASE UsbSetInterface(t)
    <3>1. Now(t).to \in Channel
      BY <1>2, <2>1, StepFields DEF UsbSetInterface, Doing, Now
    <3> QED
      BY <2>1, <3>1 DEF UsbSetInterface
  <2>2. CASE ~UsbSetInterface(t)
    <3>1. UNCHANGED selected
      BY <2>2 DEF Shared, Lock, Unlock, LoadValues, StoreValues, LoadDirections,
         UsbSetBitmode, UsbWriteData, UsbReadPins, UsbFail, usbVars
    <3> QED
      BY <3>1 DEF GpioTypes
  <2> QED
    BY <2>1, <2>2
<1>8. device' \in [Channel -> DeviceState]
  <2>0. selected \in Channel /\ device \in [Channel -> DeviceState]
    BY DEF GpioTypes
  <2>1. CASE UsbSetBitmode(t)
    <3>1. reg[t] \in SUBSET Pin
      BY DEF GpioTypes
    <3>2. [device[selected] EXCEPT !.directions = reg[t]] \in DeviceState
      BY <2>0, <3>1 DEF DeviceState
    <3>3. device' = [device EXCEPT ![selected] = [device[selected] EXCEPT !.directions = reg[t]]]
      BY <2>0, <2>1 DEF UsbSetBitmode
    <3> QED
      BY <2>0, <3>2, <3>3
  <2>2. CASE UsbWriteData(t)
    <3>1. Now(t).ch \in Channel
      BY <1>2, <2>2, StepFields DEF UsbWriteData, Doing, Now
    <3>2. pin_values[Now(t).ch] \in SUBSET Pin
      BY <3>1 DEF GpioTypes
    <3> DEFINE d == [device[selected] EXCEPT !.values = pin_values[Now(t).ch], !.told = TRUE]
    <3>3. d \in DeviceState
      BY <2>0, <3>2 DEF DeviceState
    <3>4. device' = [device EXCEPT ![selected] = d]
      BY <2>0, <2>2 DEF UsbWriteData
    <3> HIDE DEF d
    <3> QED
      BY <2>0, <3>3, <3>4
  <2>3. CASE ~UsbSetBitmode(t) /\ ~UsbWriteData(t)
    <3>1. UNCHANGED device
      BY <2>3 DEF Shared, Lock, Unlock, LoadValues, StoreValues, LoadDirections,
         UsbSetInterface, UsbReadPins, UsbFail, usbVars
    <3> QED
      BY <3>1 DEF GpioTypes
  <2> QED
    BY <2>1, <2>2, <2>3
<1> QED
  BY <1>1, <1>3, <1>4, <1>5, <1>6, <1>7, <1>8 DEF GpioTypes

(* What the main thread makes of an entry. *)
LEMMA EntryChanges ==
  ASSUME GpioTypes, ListInv, ChangeEntry
  PROVE  /\ pwm_pins' \in [Pin -> PwmEntry] /\ commanded' = commanded
         /\ \A q \in Pin :
              \/ pwm_pins'[q].enabled = pwm_pins[q].enabled
              \/ Now("main").do = "updatePWMPin" /\ q = Now("main").pin /\ pwm_pins'[q].enabled
              \/ Now("main").do = "disable" /\ q = Now("main").pin /\ ~pwm_pins'[q].enabled
<1> DEFINE p == Now("main").pin
           e == Entry(p)
<1>1. Now("main") \in LegalStep /\ todo["main"] # <<>>
  BY Begins DEF ChangeEntry, Thread
<1>2. Now("main").do \in {"disable", "updatePWMPin", "analogWriteFrequency"}
  BY DEF ChangeEntry
<1>3. p \in Pin /\ (Now("main").do # "disable" => Now("main").on \in BOOLEAN)
  BY <1>1, <1>2, StepFields
<1>4. pwm_pins \in [Pin -> PwmEntry] /\ pwm_pins[p] \in PwmEntry
  BY <1>3 DEF GpioTypes
<1>5. pwm_pins' = [pwm_pins EXCEPT ![p] = e] /\ commanded' = commanded
  BY DEF ChangeEntry, history
<1> HIDE DEF p
<1>6. CASE Now("main").do = "disable"
  <2>1. e = [pwm_pins[p] EXCEPT !.enabled = FALSE]
    BY <1>6 DEF Entry
  <2>2. e \in PwmEntry /\ e.enabled = FALSE
    BY <1>4, <2>1 DEF PwmEntry
  <2> HIDE DEF e
  <2> QED
    BY <1>3, <1>4, <1>5, <1>6, <2>2 DEF p
<1>7. CASE Now("main").do = "updatePWMPin"
  <2>1. e = [enabled |-> TRUE, on |-> Now("main").on, current_state |-> FALSE]
    BY <1>7 DEF Entry
  <2>2. e \in PwmEntry /\ e.enabled = TRUE
    BY <1>3, <1>7, <2>1 DEF PwmEntry
  <2> HIDE DEF e
  <2> QED
    BY <1>3, <1>4, <1>5, <1>7, <2>2 DEF p
<1>8. CASE Now("main").do = "analogWriteFrequency"
  <2>1. e = IF pwm_pins[p].enabled THEN [pwm_pins[p] EXCEPT !.on = Now("main").on]
                                   ELSE pwm_pins[p]
    BY <1>8 DEF Entry
  <2>2. e \in PwmEntry /\ e.enabled = pwm_pins[p].enabled
    BY <1>3, <1>4, <1>8, <2>1 DEF PwmEntry
  <2> HIDE DEF e
  <2> QED
    BY <1>3, <1>4, <1>5, <2>2
<1> QED
  BY <1>2, <1>6, <1>7, <1>8

LEMMA MainKeepsTypes ==
  ASSUME GpioTypes, ListInv, MainOnly
  PROVE  GpioTypes'
<1>1. /\ DOMAIN todo' = Thread
      /\ UNCHANGED <<wiring, mutex, pin_directions, pin_values, reg, usbVars>>
  BY MainAdvances DEF Advance
<1>2. pwm_pins' \in [Pin -> PwmEntry] /\ commanded' \in [Pin -> Level \cup {"none"}]
  <2>1. CASE ChangeEntry
    BY <2>1, EntryChanges DEF GpioTypes
  <2>2. CASE CloseContext
    <3>1. NoPwm \in PwmEntry
      BY DEF NoPwm, PwmEntry
    <3> QED
      BY <2>2, <3>1 DEF CloseContext
  <2>3. CASE startPWMThread \/ ClearRunning \/ Join
    BY <2>3 DEF startPWMThread, ClearRunning, Join, classVars, history, GpioTypes
  <2> QED
    BY <2>1, <2>2, <2>3 DEF MainOnly
<1> QED
  BY <1>1, <1>2 DEF GpioTypes, usbVars

LEMMA PwmKeepsTypes ==
  ASSUME GpioTypes, ListInv, pwmThreadFunction \/ Edges("pwm")
  PROVE  GpioTypes'
<1>1. CASE pwmThreadFunction
  BY <1>1, PwmBegins DEF GpioTypes, usbVars
<1>2. CASE Edges("pwm")
  BY <1>2, EdgesMakes DEF GpioTypes, usbVars
<1> QED
  BY <1>1, <1>2

(* The steps of the system as the invariants see them. *)
LEMMA GpioSteps ==
  ASSUME GpioTypes, [FtdiGpioNext]_ftdiGpioVars
  PROVE  \/ \E s, p, level : SketchCall(s, p, level)
         \/ \E t \in Thread : Shared(t)
         \/ MainOnly
         \/ pwmThreadFunction \/ Edges("pwm")
         \/ UNCHANGED ftdiGpioVars
BY SketchMakes DEF FtdiGpioNext, Main, Pwm, MainOnly, Thread

LEMMA StepGpioTypes == GpioTypes /\ ListInv /\ [FtdiGpioNext]_ftdiGpioVars => GpioTypes' /\ ListInv'
<1> SUFFICES ASSUME GpioTypes, ListInv, [FtdiGpioNext]_ftdiGpioVars
             PROVE  GpioTypes' /\ ListInv'
  OBVIOUS
<1>1. ASSUME NEW s, NEW p, NEW level, SketchCall(s, p, level)
      PROVE  GpioTypes' /\ ListInv'
  BY <1>1, SketchKeepsTypes, SketchKeepsLists
<1>2. ASSUME NEW t \in Thread, Shared(t)
      PROVE  GpioTypes' /\ ListInv'
  BY <1>2, SharedKeepsTypes, SharedKeepsLists
<1>3. CASE MainOnly
  BY <1>3, MainKeepsTypes, MainKeepsLists
<1>4. CASE pwmThreadFunction \/ Edges("pwm")
  BY <1>4, PwmKeepsTypes, PwmKeepsLists
<1>5. CASE UNCHANGED ftdiGpioVars
  <2>1. UNCHANGED <<wiring, todo, mutex, pin_directions, pin_values, pwm_pins, reg, selected,
                    device, commanded>>
    BY <1>5 DEF ftdiGpioVars, classVars, threadVars, usbVars, history
  <2>2. LegalStep' = LegalStep
    BY <2>1 DEF LegalStep
  <2> QED
    BY <2>1, <2>2 DEF GpioTypes, ListInv, Holds
<1> QED
  BY <1>1, <1>2, <1>3, <1>4, <1>5, GpioSteps

LEMMA GpioInvariant == FtdiGpioSpec => [](GpioTypes /\ ListInv)
BY InitGpioTypes, StepGpioTypes, PTL DEF FtdiGpioSpec

(***************************************************************************)
(* What the sketch writes stays.  The PWM thread writes only pins that are *)
(* enabled, the main thread only what was commanded, and between a load    *)
(* and its store nobody else writes the byte.                              *)
(***************************************************************************)
StoresBut(p, level) == {x \in GpioStep : x.do = "store_values" /\ x.pin = p /\ x.level # level}

PwmWrites(p) ==
  /\ pwm_pins[p].enabled => p \in wiring.pwm
  /\ Has(todo["pwm"], Stores(p)) => pwm_pins[p].enabled

(* The bit is as commanded, also in what the main thread is about to store *)
(* for another pin of the byte.                                            *)
Settled(p) ==
  commanded[p] # "none" /\ ~pwm_pins[p].enabled /\ ~SharesByte(p)
    /\ ~Has(todo["main"], Stores(p))
  => /\ p \in pin_values[getChannel(p)] <=> commanded[p] = "HIGH"
     /\ todo["main"] # <<>> /\ Now("main") \in StoresTo(getChannel(p))
          => (p \in reg["main"] <=> commanded[p] = "HIGH")

SettledInv ==
  \A p \in Pin : /\ PwmWrites(p) /\ Settled(p)
                 /\ ~Has(todo["main"], StoresBut(p, commanded[p]))

(* A call of the sketch. *)
LEMMA SketchKeepsSettled ==
  ASSUME GpioTypes, SettledInv, NEW s, NEW p, NEW level, SketchCall(s, p, level)
  PROVE  SettledInv'
<1>1. /\ todo["main"] = <<>> /\ todo'["main"] = s /\ todo'["pwm"] = todo["pwm"]
      /\ WellMade(s, MainLocked, FALSE) /\ ~Has(s, OtherStores(p, level))
      /\ Commands(s, p, level) /\ UNCHANGED <<wiring, pin_values, pwm_pins>>
  BY DEF SketchCall, SketchList, CallList
<1>2. \A F : ~Has(todo["main"], F)
  <2>1. Len(todo["main"]) = 0
    BY <1>1
  <2> QED
    BY <2>1 DEF Has
<1>3. ASSUME NEW q \in Pin
      PROVE  PwmWrites(q)'
  BY <1>1, <1>3 DEF SettledInv, PwmWrites
<1>4. ASSUME NEW q \in Pin
      PROVE  \/ commanded'[q] = "none" \/ commanded'[q] = commanded[q]
             \/ q = p /\ Has(s, Stores(q)) /\ commanded'[q] = level
  BY <1>1, <1>4 DEF Commands, GpioTypes
<1>5. ASSUME NEW q \in Pin
      PROVE  Settled(q)'
  <2> SUFFICES ASSUME commanded'[q] # "none", ~pwm_pins[q].enabled, ~SharesByte(q),
                      ~Has(s, Stores(q))
               PROVE  /\ q \in pin_values[getChannel(q)] <=> commanded'[q] = "HIGH"
                      /\ ~(s # <<>> /\ Head(s) \in StoresTo(getChannel(q)))
    BY <1>1 DEF Settled, SharesByte, Now
  <2>1. commanded'[q] = commanded[q]
    BY <1>4
  <2>2. q \in pin_values[getChannel(q)] <=> commanded[q] = "HIGH"
    BY <1>2, <2>1 DEF SettledInv, Settled
  <2>3. s # <<>> => Head(s) \notin StoresTo(getChannel(q))
    <3>1. s \in Seq(LegalStep) /\ StartsWithout(s, StoresTo(getChannel(q)))
      BY <1>1, ChannelOfPin DEF WellMade
    <3>2. s # <<>> => Head(s) = s[1]
      BY <3>1
    <3> QED
      BY <3>1, <3>2 DEF StartsWithout
  <2> QED
    BY <2>1, <2>2, <2>3
<1>6. ASSUME NEW q \in Pin
      PROVE  ~Has(s, StoresBut(q, commanded'[q]))
  <2> SUFFICES ASSUME NEW k \in 1 .. Len(s), s[k] \in StoresBut(q, commanded'[q])
               PROVE  FALSE
    BY DEF Has
  <2>1. s[k] \in GpioStep /\ s[k].do = "store_values" /\ s[k].pin = q /\ s[k].level # commanded'[q]
    BY DEF StoresBut
  <2>2. s[k].pin = p /\ s[k].level = level
    BY <1>1, <2>1 DEF Has, OtherStores
  <2>3. s[k].level \in Level
    BY <2>1 DEF GpioStep, OrdinaryStep, EndStep
  <2>4. level # "none"
    BY <2>2, <2>3 DEF Level
  <2>5. commanded' = [commanded EXCEPT ![p] = level] /\ p \in Pin
    BY <1>1, <2>4 DEF Commands
  <2>6. commanded'[p] = level
    BY <2>5 DEF GpioTypes
  <2> QED
    BY <2>1, <2>2, <2>6
<1> QED
  BY <1>1, <1>3, <1>5, <1>6 DEF SettledInv

(* Nothing but the list of the main thread changes. *)
LEMMA AdvanceKeepsObeyed ==
  ASSUME ListInv, SettledInv, NEW n, Advance("main", n), NEW p \in Pin, UNCHANGED commanded
  PROVE  ~Has(todo'["main"], StoresBut(p, commanded'[p]))
<1> DEFINE s == todo["main"]
           r == todo'["main"]
<1>1. s \in Seq(LegalStep) /\ r \in Seq(LegalStep) /\ RestOf(r, s, n)
  BY DEF Advance, ListInv, Thread
<1>2. ~Has(s, StoresBut(p, commanded[p]))
  BY DEF SettledInv
<1> HIDE DEF s, r
<1>3. ~Has(r, StoresBut(p, commanded[p]))
  BY <1>1, <1>2, RestHas
<1> QED
  BY <1>3 DEF r

(* Steps of the main thread that neither load nor store. *)
LEMMA AdvanceKeepsSettled ==
  ASSUME GpioTypes, ListInv, SettledInv, NEW n, Advance("main", n), NEW p \in Pin,
         \A i \in 1 .. n : todo["main"][i].do \notin {"load_values", "store_values"},
         UNCHANGED <<wiring, pin_values, commanded>>,
         \/ pwm_pins'[p].enabled \/ ~pwm_pins[p].enabled
         \/ \E i \in 1 .. n : todo["main"][i] \in Disables(p)
  PROVE  Settled(p)'
<1> DEFINE s == todo["main"]
           r == todo'["main"]
           c == getChannel(p)
<1>1. s \in Seq(LegalStep) /\ r \in Seq(LegalStep) /\ RestOf(r, s, n) /\ c \in Channel
      /\ n \in 1 .. Len(s) /\ Len(s) \in Nat /\ Len(r) \in Nat
  BY ChannelOfPin DEF Advance, ListInv, Thread, RestOf
<1>2. /\ Preceded(s, StoresTo(c), Loads(c)) /\ Followed(s, Disables(p), Stores(p))
  BY <1>1 DEF ListInv, Thread
<1>3. \A i \in 1 .. n : s[i] \notin Stores(p) /\ s[i] \notin Loads(c)
  BY DEF Stores, Loads, StepsFor, StepsOn
<1>4. r # <<>> => Head(r) \notin StoresTo(c)
  <2> SUFFICES ASSUME r # <<>>, r[1] \in StoresTo(c)
               PROVE  FALSE
    BY <1>1
  <2>1. 1 \in 1 .. Len(r)
    BY <1>1
  <2> HIDE DEF s, r, c
  <2>2. r[1] = s[1 + n] /\ 1 + n \in 2 .. Len(s) /\ (1 + n) - 1 = n /\ n \in 1 .. n
    <3>1. Len(r) = Len(s) - n /\ \A i \in 1 .. Len(r) : r[i] = s[i + n]
      BY <1>1 DEF RestOf
    <3>2. r[1] = s[1 + n]
      BY <2>1, <3>1
    <3>3. 1 + n \in 2 .. Len(s) /\ (1 + n) - 1 = n /\ n \in 1 .. n
      <4> DEFINE a == Len(s)
                 b == Len(r)
      <4>1. a \in Nat /\ b \in Nat /\ n \in 1 .. a /\ b = a - n /\ 1 \in 1 .. b
        BY <1>1, <2>1, <3>1
      <4> HIDE DEF a, b
      <4>2. 1 + n \in 2 .. a /\ (1 + n) - 1 = n /\ n \in 1 .. n
        BY <4>1
      <4> QED
        BY <4>2 DEF a
    <3> QED
      BY <3>2, <3>3
  <2>3. s[n] \in Loads(c)
    BY <1>2, <2>2 DEF Preceded
  <2> QED
    BY <1>3, <2>2, <2>3
<1>5. Has(s, Stores(p)) => Has(r, Stores(p))
  <2> HIDE DEF s, r
  <2> QED
    BY <1>1, <1>3, RestHas
<1>6. (\E i \in 1 .. n : s[i] \in Disables(p)) => Has(s, Stores(p))
  <2> SUFFICES ASSUME NEW i \in 1 .. n, s[i] \in Disables(p)
               PROVE  Has(s, Stores(p))
    OBVIOUS
  <2> HIDE DEF s
  <2>1. i \in 1 .. Len(s)
    BY <1>1
  <2>2. PICK j \in i + 1 .. Len(s) : s[j] \in Stores(p)
    BY <1>2, <2>1 DEF Followed
  <2>3. j \in 1 .. Len(s)
    BY <1>1, <2>1, <2>2
  <2> QED
    BY <2>2, <2>3 DEF Has
<1>7. SUFFICES ASSUME commanded[p] # "none", ~pwm_pins'[p].enabled, ~SharesByte(p),
                      ~Has(r, Stores(p))
               PROVE  p \in pin_values[c] <=> commanded[p] = "HIGH"
  BY <1>4 DEF Settled, SharesByte, Now
<1>8. ~Has(s, Stores(p)) /\ ~pwm_pins[p].enabled
  BY <1>5, <1>6, <1>7
<1> QED
  BY <1>7, <1>8 DEF SettledInv, Settled

LEMMA LoadKeepsSettled ==
  ASSUME GpioTypes, ListInv, SettledInv, LoadValues("main"), Advance("main", 1), NEW p \in Pin
  PROVE  Settled(p)'
<1> DEFINE s == todo["main"]
           r == todo'["main"]
           c == getChannel(p)
<1>1. s \in Seq(LegalStep) /\ r \in Seq(LegalStep) /\ RestOf(r, s, 1) /\ c \in Channel
  BY ChannelOfPin DEF Advance, ListInv, Thread
<1>2. /\ s # <<>> /\ s[1].do = "load_values" /\ reg' = [reg EXCEPT !["main"] = pin_values[s[1].ch]]
      /\ UNCHANGED <<wiring, pin_values, pwm_pins, commanded>>
  BY <1>1 DEF LoadValues, Doing, Now, classVars, history
<1>3. reg'["main"] = pin_values[s[1].ch]
  BY <1>2 DEF GpioTypes, Thread
<1>4. Preceded(s, StoresTo(c), Loads(c))
  BY <1>1 DEF ListInv, Thread
<1>5. Has(s, Stores(p)) => Has(r, Stores(p))
  <2>1. \A i \in 1 .. 1 : s[i] \notin Stores(p)
    BY <1>2 DEF Stores, StepsFor
  <2> HIDE DEF s, r
  <2> QED
    BY <1>1, <2>1, RestHas
<1>6. r # <<>> /\ Head(r) \in StoresTo(c) => s[1].ch = c
  <2> SUFFICES ASSUME r # <<>>, r[1] \in StoresTo(c)
               PROVE  s[1].ch = c
    BY <1>1
  <2> HIDE DEF s, r, c
  <2>1. 1 \in 1 .. Len(r) /\ Len(r) = Len(s) - 1 /\ Len(s) \in Nat
    BY <1>1 DEF RestOf
  <2>2. r[1] = s[1 + 1] /\ 2 \in 2 .. Len(s)
    BY <1>1, <2>1 DEF RestOf
  <2>3. s[2 - 1] \in Loads(c)
    BY <1>4, <2>2 DEF Preceded
  <2> QED
    BY <2>3 DEF Loads, StepsOn
<1>7. SUFFICES ASSUME commanded[p] # "none", ~pwm_pins[p].enabled, ~SharesByte(p),
                      ~Has(r, Stores(p))
               PROVE  /\ p \in pin_values[c] <=> commanded[p] = "HIGH"
                      /\ r # <<>> /\ Head(r) \in StoresTo(c)
                           => (p \in reg'["main"] <=> commanded[p] = "HIGH")
  BY <1>2 DEF Settled, SharesByte, Now
<1>8. p \in pin_values[c] <=> commanded[p] = "HIGH"
  BY <1>5, <1>7 DEF SettledInv, Settled
<1> QED
  BY <1>3, <1>6, <1>8

LEMMA StoreKeepsSettled ==
  ASSUME GpioTypes, ListInv, SettledInv, StoreValues("main"), Advance("main", 1), NEW p \in Pin
  PROVE  Settled(p)'
<1> DEFINE s == todo["main"]
           r == todo'["main"]
           c == getChannel(p)
           x == s[1]
<1>1. s \in Seq(LegalStep) /\ r \in Seq(LegalStep) /\ RestOf(r, s, 1) /\ c \in Channel
      /\ s # <<>> /\ x \in LegalStep /\ Now("main") = x /\ 1 \in 1 .. Len(s)
  <2>1. todo["main"] # <<>>
    BY DEF StoreValues, Doing
  <2> QED
    BY <2>1, Begins, ChannelOfPin DEF Advance, ListInv, Thread
<1>2. /\ x.do = "store_values"
      /\ pin_values' = [pin_values EXCEPT ![x.ch] =
                          IF x.level = "HIGH" THEN reg["main"] \cup {x.pin}
                                              ELSE reg["main"] \ {x.pin}]
      /\ UNCHANGED <<wiring, pwm_pins, commanded>>
  BY <1>1 DEF StoreValues, Doing, Now, history
<1>3. /\ x.pin \in Pin /\ x.ch = getChannel(x.pin) /\ x.ch \in Channel /\ x \in GpioStep
      /\ x.level \in Level
  BY <1>1, <1>2, StepFields
<1>4. r # <<>> => Head(r) \notin StoresTo(c)
  <2> SUFFICES ASSUME r # <<>>, r[1] \in StoresTo(c)
               PROVE  FALSE
    BY <1>1
  <2>0. Preceded(s, StoresTo(c), Loads(c))
    BY <1>1 DEF ListInv, Thread
  <2>1. s[1].do # "load_values"
    BY <1>2
  <2> HIDE DEF s, r, c, x
  <2>2. 1 \in 1 .. Len(r) /\ Len(r) = Len(s) - 1 /\ Len(s) \in Nat
    BY <1>1 DEF RestOf
  <2>3. r[1] = s[1 + 1] /\ 2 \in 2 .. Len(s)
    BY <1>1, <2>2 DEF RestOf
  <2>4. s[2 - 1] \in Loads(c)
    BY <2>0, <2>3 DEF Preceded
  <2> QED
    BY <2>1, <2>4 DEF Loads, StepsOn
<1>5. SUFFICES ASSUME commanded[p] # "none", ~pwm_pins[p].enabled, ~SharesByte(p),
                      ~Has(r, Stores(p))
               PROVE  p \in pin_values'[c] <=> commanded[p] = "HIGH"
  BY <1>2, <1>4 DEF Settled, SharesByte, Now
<1>6. CASE x.pin = p
  <2>1. x \notin StoresBut(p, commanded[p])
    BY <1>1 DEF SettledInv, Has
  <2>2. x.level = commanded[p]
    BY <1>2, <1>3, <1>6, <2>1 DEF StoresBut
  <2>3. pin_values'[c] = IF x.level = "HIGH" THEN reg["main"] \cup {p} ELSE reg["main"] \ {p}
    BY <1>1, <1>2, <1>3, <1>6 DEF GpioTypes
  <2> QED
    BY <2>2, <2>3
<1>7. CASE x.pin # p
  <2>1. ~Has(s, Stores(p))
    <3>1. \A i \in 1 .. 1 : s[i] \notin Stores(p)
      BY <1>7 DEF Stores, StepsFor
    <3> HIDE DEF s, r
    <3> QED
      BY <1>1, <1>5, <3>1, RestHas
  <2>2. /\ p \in pin_values[c] <=> commanded[p] = "HIGH"
        /\ x \in StoresTo(c) => (p \in reg["main"] <=> commanded[p] = "HIGH")
    BY <1>1, <1>5, <2>1 DEF SettledInv, Settled
  <2>3. CASE x.ch = c
    <3>1. x \in StoresTo(c)
      BY <1>2, <1>3, <2>3 DEF StoresTo, StepsOn
    <3>2. pin_values'[c] = IF x.level = "HIGH" THEN reg["main"] \cup {x.pin}
                                               ELSE reg["main"] \ {x.pin}
      BY <1>1, <1>2, <2>3 DEF GpioTypes
    <3> QED
      BY <1>7, <2>2, <3>1, <3>2
  <2>4. CASE x.ch # c
    <3>1. pin_values'[c] = pin_values[c]
      BY <1>1, <1>2, <2>4 DEF GpioTypes
    <3> QED
      BY <2>2, <3>1
  <2> QED
    BY <2>3, <2>4
<1> QED
  BY <1>6, <1>7

LEMMA SharedMainKeepsSettled ==
  ASSUME GpioTypes, ListInv, SettledInv, Shared("main")
  PROVE  SettledInv'
<1>0. /\ "main" \in Thread /\ "pwm" \in Thread \ {"main"} /\ DOMAIN todo = Thread
      /\ todo["main"] \in Seq(LegalStep)
  BY DEF Thread, GpioTypes, ListInv
<1>1. /\ UNCHANGED <<wiring, pwm_pins, commanded>>
  BY DEF Shared, Lock, Unlock, LoadValues, StoreValues, LoadDirections, UsbSetInterface,
     UsbSetBitmode, UsbWriteData, UsbReadPins, UsbFail, classVars, history
<1>2. \E n : Advance("main", n)
  BY <1>0, SharedAdvances
<1>3. todo'["pwm"] = todo["pwm"]
  BY <1>0, <1>2 DEF Advance
<1>4. ASSUME NEW p \in Pin
      PROVE  PwmWrites(p)' /\ ~Has(todo'["main"], StoresBut(p, commanded'[p]))
  <2>1. PwmWrites(p)'
    BY <1>1, <1>3, <1>4 DEF SettledInv, PwmWrites
  <2>2. ~Has(todo'["main"], StoresBut(p, commanded'[p]))
    BY <1>1, <1>2, AdvanceKeepsObeyed
  <2> QED
    BY <2>1, <2>2
<1>5. ASSUME NEW p \in Pin
      PROVE  Settled(p)'
  <2>1. CASE UsbFail("main")
    <3>1. PICK n : Advance("main", n) /\ \A i \in 1 .. n : todo["main"][i].do \in UsbStep
      BY <1>0, <2>1, FailAdvances
    <3>2. \A i \in 1 .. n : todo["main"][i].do \notin {"load_values", "store_values"}
      BY <3>1 DEF UsbStep, UsbCall
    <3>3. UNCHANGED pin_values
      BY <2>1 DEF UsbFail, classVars
    <3> QED
      BY <1>1, <3>1, <3>2, <3>3, AdvanceKeepsSettled
  <2>2. CASE ~UsbFail("main")
    <3>1. Advance("main", 1) /\ Now("main") = todo["main"][1]
      BY <1>0, <2>2, SharedAdvances
    <3>2. CASE LoadValues("main")
      BY <3>1, <3>2, LoadKeepsSettled
    <3>3. CASE StoreValues("main")
      BY <3>1, <3>3, StoreKeepsSettled
    <3>4. CASE ~LoadValues("main") /\ ~StoreValues("main")
      <4>1. Now("main").do \notin {"load_values", "store_values"} /\ UNCHANGED pin_values
        BY <2>2, <3>4 DEF Shared, Lock, Unlock, LoadDirections, UsbSetInterface,
           UsbSetBitmode, UsbWriteData, UsbReadPins, Doing, Now, classVars
      <4>2. \A i \in 1 .. 1 : todo["main"][i].do \notin {"load_values", "store_values"}
        BY <3>1, <4>1
      <4> QED
        BY <1>1, <3>1, <4>1, <4>2, AdvanceKeepsSettled
    <3> QED
      BY <3>2, <3>3, <3>4
  <2> QED
    BY <2>1, <2>2
<1> QED
  BY <1>4, <1>5 DEF SettledInv

LEMMA MainOnlyKeepsSettled ==
  ASSUME ThreadInv, GpioTypes, ListInv, SettledInv, MainOnly
  PROVE  SettledInv'
<1>0. /\ "main" \in Thread /\ "pwm" \in Thread \ {"main"} /\ DOMAIN todo = Thread
  BY DEF Thread, GpioTypes
<1>1. /\ Advance("main", 1) /\ Now("main") = todo["main"][1] /\ Now("main") \in LegalStep
      /\ todo["main"] # <<>> /\ todo'["main"] = Tail(todo["main"])
      /\ UNCHANGED <<wiring, mutex, pin_values, reg>>
      /\ Now("main").do \in {"disable", "updatePWMPin", "analogWriteFrequency",
                             "startPWMThread", "clear_running", "join", "close"}
  BY MainAdvances
<1>2. todo'["pwm"] = todo["pwm"]
  BY <1>0, <1>1 DEF Advance
<1>3. CASE CloseContext
  <2>1. /\ pwm_pins' = [p \in Pin |-> NoPwm] /\ commanded' = [p \in Pin |-> "none"]
        /\ Head(todo["main"]).do = "close"
    BY <1>3 DEF CloseContext, Doing
  <2>2. AtEnd
    <3> SUFFICES ASSUME todo["main"] \in Seq(OrdinaryStep)
                 PROVE  FALSE
      BY DEF ThreadInv
    <3>1. Head(todo["main"]) \in OrdinaryStep
      BY <1>1, HeadTailProperties
    <3> QED
      BY <2>1, <3>1 DEF OrdinaryStep
  <2>3. todo["main"] = <<[do |-> "close"]>> /\ ~alive
    BY <2>1, <2>2 DEF AtEnd
  <2>4. todo'["main"] = <<>> /\ todo'["pwm"] = <<>>
    BY <1>1, <1>2, <2>3 DEF ThreadInv
  <2>5. \A F : ~Has(todo'["main"], F) /\ ~Has(todo'["pwm"], F)
    <3>1. Len(todo'["main"]) = 0 /\ Len(todo'["pwm"]) = 0
      BY <2>4
    <3> QED
      BY <3>1 DEF Has
  <2>6. ASSUME NEW p \in Pin
        PROVE  PwmWrites(p)' /\ Settled(p)'
    <3>1. pwm_pins'[p].enabled = FALSE /\ commanded'[p] = "none"
      BY <2>1 DEF NoPwm
    <3> QED
      BY <2>5, <3>1 DEF PwmWrites, Settled
  <2> QED
    BY <2>5, <2>6 DEF SettledInv
<1>4. CASE ~CloseContext
  <2>1. /\ UNCHANGED commanded
        /\ \A q \in Pin :
              \/ pwm_pins'[q].enabled = pwm_pins[q].enabled
              \/ Now("main").do = "updatePWMPin" /\ q = Now("main").pin /\ pwm_pins'[q].enabled
              \/ Now("main").do = "disable" /\ q = Now("main").pin /\ ~pwm_pins'[q].enabled
    <3>1. CASE ChangeEntry
      BY <3>1, EntryChanges
    <3>2. CASE startPWMThread \/ ClearRunning \/ Join
      BY <3>2 DEF startPWMThread, ClearRunning, Join, classVars, history
    <3> QED
      BY <1>4, <3>1, <3>2 DEF MainOnly
  <2>2. ASSUME NEW p \in Pin
        PROVE  PwmWrites(p)'
    <3>1. PwmWrites(p)
      BY DEF SettledInv
    <3>2. CASE pwm_pins'[p].enabled = pwm_pins[p].enabled
      BY <1>1, <1>2, <3>1, <3>2 DEF PwmWrites
    <3>3. CASE Now("main").do = "updatePWMPin" /\ p = Now("main").pin /\ pwm_pins'[p].enabled
      <4>1. p \in wiring.pwm
        BY <1>1, <3>3, StepFields
      <4> QED
        BY <1>1, <3>3, <4>1 DEF PwmWrites
    <3>4. CASE Now("main").do = "disable" /\ p = Now("main").pin /\ ~pwm_pins'[p].enabled
      <4> DEFINE held == mutex = "main"
                 other == mutex = "pwm"
      <4>1. Covered(todo["main"], MainLocked, Locks, Unlocks, held) /\ held \in BOOLEAN
        BY <1>0 DEF ListInv, LockedFor, Holds
      <4>2. todo["main"][1] \in MainLocked /\ 1 \in 1 .. Len(todo["main"])
        BY <1>0, <1>1, <3>4, Begins, StepFields DEF MainLocked, StepsThat
      <4>3. mutex = "main"
        <5> HIDE DEF held
        <5>1. held
          BY <4>1, <4>2, HeldAtHead
        <5> QED
          BY <5>1 DEF held
      <4>4. Covered(todo["pwm"], StepsThat({"store_values"}), {}, Unlocks, other) /\ ~other
        BY <4>3 DEF ListInv, Holds
      <4>5. ~Has(todo["pwm"], Stores(p))
        <5> HIDE DEF other
        <5>1. \A k \in 1 .. Len(todo["pwm"]) : todo["pwm"][k] \notin StepsThat({"store_values"})
          BY <4>4 DEF Covered, Within
        <5> QED
          BY <5>1 DEF Has, Stores, StepsFor, StepsThat
      <4> QED
        BY <1>2, <3>4, <4>5 DEF PwmWrites
    <3> QED
      BY <2>1, <3>2, <3>3, <3>4
  <2>3. ASSUME NEW p \in Pin
        PROVE  Settled(p)'
    <3>1. \A i \in 1 .. 1 : todo["main"][i].do \notin {"load_values", "store_values"}
      BY <1>1
    <3>2. \/ pwm_pins'[p].enabled \/ ~pwm_pins[p].enabled
          \/ \E i \in 1 .. 1 : todo["main"][i] \in Disables(p)
      <4>1. CASE Now("main").do = "disable" /\ p = Now("main").pin
        <5>1. todo["main"][1] \in Disables(p)
          BY <1>1, <4>1, StepFields DEF Disables, StepsFor
        <5> QED
          BY <5>1
      <4>2. CASE ~(Now("main").do = "disable" /\ p = Now("main").pin)
        BY <2>1, <4>2
      <4> QED
        BY <4>1, <4>2
    <3> QED
      BY <1>1, <2>1, <3>1, <3>2, AdvanceKeepsSettled
  <2>4. ASSUME NEW p \in Pin
        PROVE  ~Has(todo'["main"], StoresBut(p, commanded'[p]))
    BY <1>1, <2>1, AdvanceKeepsObeyed
  <2> QED
    BY <2>2, <2>3, <2>4 DEF SettledInv
<1> QED
  BY <1>3, <1>4

(* What the PWM thread stores is for an enabled pin. *)
LEMMA PwmStoresEnabled ==
  ASSUME GpioTypes, ListInv, SettledInv, StoreValues("pwm"),
         NEW p \in Pin, ~pwm_pins[p].enabled, ~SharesByte(p)
  PROVE  pin_values'[getChannel(p)] = pin_values[getChannel(p)]
<1> DEFINE s == todo["pwm"]
           x == s[1]
<1>1. s # <<>> /\ Now("pwm") = x /\ x \in LegalStep /\ 1 \in 1 .. Len(s)
  <2>1. todo["pwm"] # <<>>
    BY DEF StoreValues, Doing
  <2> QED
    BY <2>1, Begins DEF Thread
<1>2. /\ x.do = "store_values"
      /\ pin_values' = [pin_values EXCEPT ![x.ch] =
                          IF x.level = "HIGH" THEN reg["pwm"] \cup {x.pin}
                                              ELSE reg["pwm"] \ {x.pin}]
  BY <1>1 DEF StoreValues, Doing, Now
<1>3. x.pin \in Pin /\ x.ch = getChannel(x.pin) /\ x.ch \in Channel /\ x \in GpioStep
  BY <1>1, <1>2, StepFields
<1>4. Has(s, Stores(x.pin))
  BY <1>1, <1>2, <1>3 DEF Has, Stores, StepsFor
<1>5. pwm_pins[x.pin].enabled /\ x.pin \in wiring.pwm
  BY <1>3, <1>4 DEF SettledInv, PwmWrites
<1>6. x.ch # getChannel(p)
  BY <1>3, <1>5 DEF SharesByte
<1> QED
  BY <1>2, <1>3, <1>6, ChannelOfPin DEF GpioTypes

LEMMA SharedPwmKeepsSettled ==
  ASSUME GpioTypes, ListInv, SettledInv, Shared("pwm")
  PROVE  SettledInv'
<1>0. /\ "pwm" \in Thread /\ "main" \in Thread \ {"pwm"} /\ DOMAIN todo = Thread
      /\ todo["pwm"] \in Seq(LegalStep)
  BY DEF Thread, GpioTypes, ListInv
<1>1. /\ UNCHANGED <<wiring, pwm_pins, commanded>>
      /\ reg'["main"] = reg["main"]
      /\ pin_values' = pin_values \/ StoreValues("pwm")
  BY <1>0 DEF Shared, Lock, Unlock, LoadValues, StoreValues, LoadDirections, UsbSetInterface,
     UsbSetBitmode, UsbWriteData, UsbReadPins, UsbFail, classVars, history, GpioTypes
<1>2. PICK n : Advance("pwm", n)
  BY <1>0, SharedAdvances
<1>3. todo'["main"] = todo["main"]
  BY <1>0, <1>2 DEF Advance
<1>4. ASSUME NEW p \in Pin
      PROVE  PwmWrites(p)'
  <2>1. Has(todo'["pwm"], Stores(p)) => Has(todo["pwm"], Stores(p))
    <3> DEFINE s == todo["pwm"]
               r == todo'["pwm"]
    <3>1. s \in Seq(LegalStep) /\ r \in Seq(LegalStep) /\ RestOf(r, s, n)
      BY <1>0, <1>2 DEF Advance
    <3> HIDE DEF s, r
    <3>2. Has(r, Stores(p)) => Has(s, Stores(p))
      BY <3>1, RestHas
    <3> QED
      BY <3>2 DEF r, s
  <2> QED
    BY <1>1, <2>1 DEF SettledInv, PwmWrites
<1>5. ASSUME NEW p \in Pin
      PROVE  Settled(p)'
  <2> DEFINE high == p \in pin_values[getChannel(p)]
  <2> SUFFICES ASSUME commanded[p] # "none", ~pwm_pins[p].enabled, ~SharesByte(p),
                      ~Has(todo["main"], Stores(p))
               PROVE  pin_values'[getChannel(p)] = pin_values[getChannel(p)]
    BY <1>1, <1>3 DEF SettledInv, Settled, SharesByte, Now
  <2> QED
    BY <1>1, PwmStoresEnabled
<1> QED
  BY <1>1, <1>3, <1>4, <1>5 DEF SettledInv

(* A pass begins, or its edges make the rest of it. *)
LEMMA PwmKeepsSettled ==
  ASSUME GpioTypes, ListInv, SettledInv, pwmThreadFunction \/ Edges("pwm")
  PROVE  SettledInv'
<1>1. /\ UNCHANGED <<wiring, pin_values, reg, commanded>> /\ todo'["main"] = todo["main"]
      /\ \A p \in Pin : pwm_pins'[p].enabled = pwm_pins[p].enabled
  BY EdgesMakes, PwmBegins
<1>2. ASSUME NEW p \in Pin
      PROVE  Settled(p)' /\ ~Has(todo'["main"], StoresBut(p, commanded'[p]))
  BY <1>1 DEF SettledInv, Settled, SharesByte, Now
<1>3. ASSUME NEW p \in Pin, Has(todo'["pwm"], Stores(p))
      PROVE  pwm_pins[p].enabled
  <2>1. CASE pwmThreadFunction
    <3> DEFINE s == todo'["pwm"]
    <3>1. s = <<>> \/ s = <<[do |-> "lock"], [do |-> "edges"]>>
      BY <2>1, PwmBegins
    <3>2. ~Has(s, StepsThat({"store_values"}))
      <4>1. CASE s = <<>>
        <5>1. Len(s) = 0
          BY <4>1
        <5> QED
          BY <5>1 DEF Has
      <4>2. CASE s = <<[do |-> "lock"], [do |-> "edges"]>>
        <5> HIDE DEF s
        <5>1. ~Has(s, StepsThat({"store_values", "write_data"}))
          BY <4>2, LockFirst
        <5> QED
          BY <5>1 DEF Has, StepsThat
      <4> QED
        BY <3>1, <4>1, <4>2
    <3>3. FALSE
      BY <1>3, <3>2 DEF Has, Stores, StepsFor, StepsThat
    <3> QED
      BY <3>3
  <2>2. CASE Edges("pwm")
    <3>1. PICK now, pins : /\ pins \in Seq(Pin) /\ todo'["pwm"] = PassSteps(now, pins)
                           /\ \A i \in 1 .. Len(pins) : pwm_pins[pins[i]].enabled
      BY <2>2, EdgesMakes
    <3>2. Pass(todo'["pwm"], pins)
      BY <3>1, PassStepsIsPass
    <3>3. PICK i \in 1 .. Len(pins) : pins[i] = p
      BY <1>3, <3>2 DEF Pass
    <3> QED
      BY <3>1, <3>3
  <2> QED
    BY <2>1, <2>2
<1>4. ASSUME NEW p \in Pin
      PROVE  PwmWrites(p)'
  BY <1>1, <1>3 DEF SettledInv, PwmWrites
<1> QED
  BY <1>2, <1>4 DEF SettledInv

LEMMA InitSettled == FtdiGpioInit => SettledInv
<1> SUFFICES ASSUME FtdiGpioInit
             PROVE  SettledInv
  OBVIOUS
<1>1. Len(todo["main"]) = 0 /\ Len(todo["pwm"]) = 0
  BY DEF FtdiGpioInit, Thread
<1>2. \A F : ~Has(todo["main"], F) /\ ~Has(todo["pwm"], F)
  BY <1>1 DEF Has
<1>3. \A p \in Pin : commanded[p] = "none" /\ ~pwm_pins[p].enabled
  BY DEF FtdiGpioInit, NoPwm
<1> QED
  BY <1>2, <1>3 DEF SettledInv, Settled, PwmWrites

LEMMA StepSettled ==
  ThreadInv /\ GpioTypes /\ ListInv /\ SettledInv /\ [FtdiGpioNext]_ftdiGpioVars => SettledInv'
<1> SUFFICES ASSUME ThreadInv, GpioTypes, ListInv, SettledInv, [FtdiGpioNext]_ftdiGpioVars
             PROVE  SettledInv'
  OBVIOUS
<1>1. ASSUME NEW s, NEW p, NEW level, SketchCall(s, p, level)
      PROVE  SettledInv'
  BY <1>1, SketchKeepsSettled
<1>2. ASSUME NEW t \in Thread, Shared(t)
      PROVE  SettledInv'
  BY <1>2, SharedMainKeepsSettled, SharedPwmKeepsSettled DEF Thread
<1>3. CASE MainOnly
  BY <1>3, MainOnlyKeepsSettled
<1>4. CASE pwmThreadFunction \/ Edges("pwm")
  BY <1>4, PwmKeepsSettled
<1>5. CASE UNCHANGED ftdiGpioVars
  <2>1. UNCHANGED <<wiring, todo, pin_values, pwm_pins, reg, commanded>>
    BY <1>5 DEF ftdiGpioVars, classVars, history
  <2> QED
    BY <2>1 DEF SettledInv, Settled, PwmWrites, SharesByte, Now
<1> QED
  BY <1>1, <1>2, <1>3, <1>4, <1>5, GpioSteps

LEMMA SettledInvariant == FtdiGpioSpec => []SettledInv
BY InitSettled, StepSettled, ThreadInvariant, GpioInvariant, PTL DEF FtdiGpioSpec

(* A level the sketch gave a pin is still its bit of pin_values when the   *)
(* call is over, whatever the PWM thread did meanwhile, unless the pin     *)
(* shares its byte with a pin under PWM (HardwareGPIO_FTDI.cpp             *)
(* digitalWrite(), analogWrite() and pwmThreadFunction()).                 *)
THEOREM WritesSurvive == FtdiGpioSpec => []WriteSurvives
<1>1. ASSUME SettledInv
      PROVE  WriteSurvives
  <2> SUFFICES ASSUME todo["main"] = <<>>, NEW p \in Pin, commanded[p] # "none",
                      ~pwm_pins[p].enabled, ~SharesByte(p)
               PROVE  (p \in pin_values[getChannel(p)]) = (commanded[p] = "HIGH")
    BY DEF WriteSurvives
  <2>1. Len(todo["main"]) = 0
    OBVIOUS
  <2>2. ~Has(todo["main"], Stores(p))
    BY <2>1 DEF Has
  <2>3. p \in pin_values[getChannel(p)] <=> commanded[p] = "HIGH"
    BY <1>1, <2>2 DEF SettledInv, Settled
  <2> QED
    BY <2>3
<1> QED
  BY <1>1, SettledInvariant, PTL

(***************************************************************************)
(* Which channel a call reaches.  Calls cannot be misrouted when all pins  *)
(* are on channel A, nor when there is one thread and no call fails: each  *)
(* list then switches to a channel before it uses it, and back.            *)
(***************************************************************************)
Alone == wiring.pwm = {}
RouteInv ==
  /\ OneChannel => selected = "A" /\ \A t \in Thread : ~Has(todo[t], Switches \cup Uses("B"))
  /\ Alone => todo["pwm"] = <<>> /\ ~alive
  /\ Alone /\ ~wiring.fails =>
       /\ \A c \in Channel :
            Covered(todo["main"], Uses(c), SwitchesTo(c), Switches, selected = c)
       /\ Within(todo["main"], Len(todo["main"]) + 1, SwitchesTo("A"), Switches, selected = "A")

LEMMA InitRoute == FtdiGpioInit => RouteInv
<1> SUFFICES ASSUME FtdiGpioInit
             PROVE  RouteInv
  OBVIOUS
<1>1. /\ todo["main"] = <<>> /\ todo["pwm"] = <<>> /\ ~alive /\ selected = "A"
      /\ Len(todo["main"]) = 0 /\ Len(todo["pwm"]) = 0
  BY DEF FtdiGpioInit, Thread
<1>2. \A t \in Thread : ~Has(todo[t], Switches \cup Uses("B"))
  BY <1>1 DEF Thread, Has
<1>3. \A c \in Channel : Covered(todo["main"], Uses(c), SwitchesTo(c), Switches, selected = c)
  BY <1>1 DEF Covered
<1>4. Within(todo["main"], Len(todo["main"]) + 1, SwitchesTo("A"), Switches, selected = "A")
  <2>1. \A j \in 1 .. (Len(todo["main"]) + 1) - 1 : FALSE
    BY <1>1
  <2> QED
    BY <1>1, <2>1 DEF Within
<1> QED
  BY <1>1, <1>2, <1>3, <1>4 DEF RouteInv

LEMMA SketchKeepsRoute ==
  ASSUME GpioTypes, RouteInv, NEW s, NEW p, NEW level, SketchCall(s, p, level)
  PROVE  RouteInv'
<1>1. /\ todo["main"] = <<>> /\ todo'["main"] = s /\ todo'["pwm"] = todo["pwm"]
      /\ WellMade(s, MainLocked, FALSE) /\ UNCHANGED <<wiring, alive>>
      /\ selected' = selected \/ selected' = "A"
      /\ OneChannel => ~Has(s, Switches \cup Uses("B"))
  BY DEF SketchCall, SketchList, CallList, usbVars
<1>2. ASSUME OneChannel
      PROVE  selected' = "A" /\ \A t \in Thread : ~Has(todo'[t], Switches \cup Uses("B"))
  BY <1>1, <1>2 DEF RouteInv, Thread
<1>3. ASSUME Alone, ~wiring.fails
      PROVE  selected' = "A"
  <2>1. Within(todo["main"], Len(todo["main"]) + 1, SwitchesTo("A"), Switches, selected = "A")
    BY <1>3 DEF RouteInv
  <2>2. Len(todo["main"]) = 0
    BY <1>1
  <2>3. \A j \in 1 .. (Len(todo["main"]) + 1) - 1 : FALSE
    BY <2>2
  <2>4. selected = "A"
    BY <2>1, <2>3 DEF Within
  <2> QED
    BY <1>1, <2>4
<1>4. ASSUME Alone, ~wiring.fails
      PROVE  /\ \A c \in Channel : Covered(s, Uses(c), SwitchesTo(c), Switches, selected' = c)
             /\ Within(s, Len(s) + 1, SwitchesTo("A"), Switches, selected' = "A")
  <2>1. selected' = "A"
    BY <1>3, <1>4
  <2>2. ASSUME NEW c \in Channel
        PROVE  Covered(s, Uses(c), SwitchesTo(c), Switches, selected' = c)
    <3>1. Covered(s, Uses(c), SwitchesTo(c), Switches, c = "A")
      BY <1>1, <2>2 DEF WellMade
    <3> QED
      BY <2>1, <3>1 DEF Covered, Within
  <2>3. Within(s, Len(s) + 1, SwitchesTo("A"), Switches, TRUE)
    BY <1>1 DEF WellMade
  <2> QED
    BY <2>1, <2>2, <2>3 DEF Within
<1> QED
  BY <1>1, <1>2, <1>4 DEF RouteInv, OneChannel, Alone

(* A step taken from the head of a list. *)
LEMMA AdvanceKeepsRoute ==
  ASSUME GpioTypes, ListInv, RouteInv, NEW t \in Thread, NEW n, Advance(t, n),
         UNCHANGED wiring, alive' => alive \/ ~Alone,
         \/ n = 1 /\ todo[t][1] \in Switches /\ selected' = todo[t][1].to
         \/ /\ selected' = selected
            /\ \/ wiring.fails
               \/ n = 1 /\ todo[t][1] \notin Switches
  PROVE  RouteInv'
<1> DEFINE s == todo[t]
           r == todo'[t]
<1>1. s \in Seq(LegalStep) /\ r \in Seq(LegalStep) /\ RestOf(r, s, n)
  BY DEF Advance, ListInv
<1>2. ASSUME OneChannel
      PROVE  selected' = "A" /\ \A u \in Thread : ~Has(todo'[u], Switches \cup Uses("B"))
  <2>1. ~Has(s, Switches \cup Uses("B")) /\ selected = "A"
    BY <1>2 DEF RouteInv
  <2>2. todo[t][1] \notin Switches
    <3>1. 1 \in 1 .. Len(s)
      <4> HIDE DEF s
      <4>1. Len(s) \in Nat /\ n \in 1 .. Len(s)
        BY <1>1 DEF RestOf
      <4> QED
        BY <4>1
    <3> QED
      BY <2>1, <3>1 DEF Has
  <2>3. ~Has(r, Switches \cup Uses("B"))
    <3> HIDE DEF s, r
    <3> QED
      BY <1>1, <2>1, RestHas
  <2>4. \A u \in Thread \ {t} : ~Has(todo'[u], Switches \cup Uses("B"))
    BY <1>2 DEF RouteInv, Advance
  <2> QED
    BY <2>1, <2>2, <2>3, <2>4
<1>3. ASSUME Alone
      PROVE  t = "main" /\ todo'["pwm"] = <<>> /\ ~alive'
  <2>1. todo["pwm"] = <<>> /\ ~alive
    BY <1>3 DEF RouteInv
  <2>2. t # "pwm"
    <3> SUFFICES ASSUME t = "pwm"
                 PROVE  FALSE
      OBVIOUS
    <3>1. Len(s) = 0
      BY <2>1
    <3> HIDE DEF s, r
    <3>2. n \in 1 .. 0
      BY <1>1, <3>1 DEF RestOf
    <3> QED
      BY <3>2
  <2>3. t = "main" /\ "pwm" \in Thread \ {t}
    BY <2>2 DEF Thread
  <2> QED
    BY <1>3, <2>1, <2>3 DEF Advance
<1>4. ASSUME Alone, ~wiring.fails, NEW c \in Channel
      PROVE  LET after == selected' = c
                 held == selected = c
             IN /\ Passes(s, n, SwitchesTo(c), Switches, held, after)
                /\ Covered(s, Uses(c), SwitchesTo(c), Switches, held)
                     => Covered(r, Uses(c), SwitchesTo(c), Switches, after)
                /\ Within(s, Len(s) + 1, SwitchesTo(c), Switches, held)
                     => Within(r, Len(r) + 1, SwitchesTo(c), Switches, after)
  <2> DEFINE after == selected' = c
             held == selected = c
  <2>1. n = 1
    BY <1>4
  <2>2. Passes(s, n, SwitchesTo(c), Switches, held, after)
    <3>1. CASE s[1] \in Switches
      BY <1>4, <2>1, <3>1 DEF Passes, SwitchesTo
    <3>2. CASE s[1] \notin Switches
      <4>1. \A i \in 1 .. n : s[i] \notin SwitchesTo(c) \cup Switches
        BY <2>1, <3>2 DEF SwitchesTo
      <4> QED
        BY <1>4, <3>2, <4>1 DEF Passes
    <3> QED
      BY <3>1, <3>2
  <2>3. held \in BOOLEAN /\ after \in BOOLEAN
    OBVIOUS
  <2>4. Len(r) + 1 \in 1 .. Len(r) + 1 /\ (Len(r) + 1) + n = Len(s) + 1
    <3> HIDE DEF s, r
    <3>1. Len(r) \in Nat /\ Len(s) \in Nat /\ n \in 1 .. Len(s) /\ Len(r) = Len(s) - n
      BY <1>1 DEF RestOf
    <3> DEFINE a == Len(s)
               b == Len(r)
    <3> HIDE DEF a, b
    <3>2. a \in Nat /\ b \in Nat /\ n \in 1 .. a /\ b = a - n
      BY <3>1 DEF a, b
    <3>3. b + 1 \in 1 .. b + 1 /\ (b + 1) + n = a + 1
      BY <3>2
    <3> QED
      BY <3>3 DEF a, b
  <2> HIDE DEF held, after, s, r
  <2>5. Covered(s, Uses(c), SwitchesTo(c), Switches, held)
          => Covered(r, Uses(c), SwitchesTo(c), Switches, after)
    BY <1>1, <2>2, <2>3, RestIsCovered
  <2>6. Within(s, Len(s) + 1, SwitchesTo(c), Switches, held)
          => Within(r, Len(r) + 1, SwitchesTo(c), Switches, after)
    <3> DEFINE k == Len(r) + 1
    <3> HIDE DEF k
    <3>1. k \in 1 .. Len(r) + 1 /\ k + n = Len(s) + 1
      BY <2>4 DEF k
    <3>2. Within(s, k + n, SwitchesTo(c), Switches, held)
            => Within(r, k, SwitchesTo(c), Switches, after)
      BY <1>1, <2>2, <2>3, <3>1, RestIsWithin
    <3> QED
      BY <3>1, <3>2 DEF k
  <2> QED
    BY <2>2, <2>5, <2>6 DEF held, after
<1>5. ASSUME Alone, ~wiring.fails
      PROVE  /\ \A c \in Channel :
                  Covered(todo'["main"], Uses(c), SwitchesTo(c), Switches, selected' = c)
             /\ Within(todo'["main"], Len(todo'["main"]) + 1, SwitchesTo("A"), Switches,
                       selected' = "A")
  <2>1. t = "main" /\ "A" \in Channel
    BY <1>3, <1>5 DEF Channel
  <2> QED
    BY <1>4, <1>5, <2>1 DEF RouteInv
<1> QED
  BY <1>2, <1>3, <1>5 DEF RouteInv, OneChannel, Alone

LEMMA SharedKeepsRoute ==
  ASSUME GpioTypes, ListInv, RouteInv, NEW t \in Thread, Shared(t)
  PROVE  RouteInv'
<1>0. DOMAIN todo = Thread /\ todo[t] \in Seq(LegalStep)
  BY DEF GpioTypes, ListInv
<1>1. UNCHANGED <<wiring, alive>>
  BY DEF Shared, Lock, Unlock, LoadValues, StoreValues, LoadDirections, UsbSetInterface,
     UsbSetBitmode, UsbWriteData, UsbReadPins, UsbFail, threadVars
<1>2. CASE UsbFail(t)
  <2>1. PICK n : Advance(t, n)
    BY <1>0, <1>2, FailAdvances
  <2>2. selected' = selected /\ wiring.fails
    BY <1>2 DEF UsbFail, usbVars
  <2> QED
    BY <1>1, <2>1, <2>2, AdvanceKeepsRoute
<1>3. CASE ~UsbFail(t)
  <2>1. Advance(t, 1) /\ Now(t) = todo[t][1] /\ Now(t) \in LegalStep
    BY <1>0, <1>3, SharedAdvances
  <2>2. \/ Now(t).do = "set_interface" /\ selected' = Now(t).to
        \/ Now(t).do # "set_interface" /\ selected' = selected
    BY <1>3 DEF Shared, Lock, Unlock, LoadValues, StoreValues, LoadDirections,
       UsbSetInterface, UsbSetBitmode, UsbWriteData, UsbReadPins, Doing, Now, usbVars
  <2>3. Now(t) \in Switches <=> Now(t).do = "set_interface"
    BY <2>1, StepFields DEF Switches, StepsThat
  <2> QED
    BY <1>1, <2>1, <2>2, <2>3, AdvanceKeepsRoute
<1> QED
  BY <1>2, <1>3

LEMMA MainKeepsRoute ==
  ASSUME GpioTypes, ListInv, RouteInv, MainOnly
  PROVE  RouteInv'
<1>1. /\ Advance("main", 1) /\ Now("main") = todo["main"][1] /\ Now("main") \in LegalStep
      /\ UNCHANGED <<wiring, selected>>
      /\ Now("main").do # "set_interface"
  BY MainAdvances DEF usbVars
<1>2. todo["main"][1] \notin Switches
  BY <1>1 DEF Switches, StepsThat
<1>3. alive' => alive \/ ~Alone
  <2>1. CASE startPWMThread
    <3>1. wiring.pwm # {}
      BY <1>1, <2>1, StepFields DEF startPWMThread, Doing, Now
    <3> QED
      BY <3>1 DEF Alone
  <2>2. CASE ~startPWMThread
    BY <2>2 DEF MainOnly, ChangeEntry, ClearRunning, Join, CloseContext, threadVars
  <2> QED
    BY <2>1, <2>2
<1> QED
  BY <1>1, <1>2, <1>3, AdvanceKeepsRoute DEF Thread

LEMMA PwmKeepsRoute ==
  ASSUME GpioTypes, ListInv, SettledInv, RouteInv, pwmThreadFunction \/ Edges("pwm")
  PROVE  RouteInv' /\ ~Alone
<1>1. /\ UNCHANGED <<wiring, selected>> /\ todo'["main"] = todo["main"]
  BY EdgesMakes, PwmBegins DEF usbVars
<1>2. ~Alone
  BY EdgesMakes, PwmBegins DEF RouteInv
<1>3. ASSUME OneChannel
      PROVE  ~Has(todo'["pwm"], Switches \cup Uses("B"))
  <2>1. CASE pwmThreadFunction
    <3> DEFINE s == todo'["pwm"]
    <3>1. CASE s = <<>>
      <4>1. Len(s) = 0
        BY <3>1
      <4> QED
        BY <4>1 DEF Has
    <3>2. CASE s = <<[do |-> "lock"], [do |-> "edges"]>>
      <4> HIDE DEF s
      <4>1. ~Has(s, Switches \cup Uses("B"))
        BY <3>2, LockFirst
      <4> QED
        BY <4>1 DEF s
    <3> QED
      BY <2>1, <3>1, <3>2, PwmBegins
  <2>2. CASE Edges("pwm")
    <3>1. PICK now, pins : /\ pins \in Seq(Pin) /\ todo'["pwm"] = PassSteps(now, pins)
                           /\ \A i \in 1 .. Len(pins) : pwm_pins[pins[i]].enabled
      BY <2>2, EdgesMakes
    <3>2. Pass(todo'["pwm"], pins)
      BY <3>1, PassStepsIsPass
    <3>3. ASSUME NEW i \in 1 .. Len(pins)
          PROVE  getChannel(pins[i]) = "A"
      <4>1. pins[i] \in Pin /\ pwm_pins[pins[i]].enabled
        BY <3>1
      <4>2. pins[i] \in wiring.pwm
        BY <4>1 DEF SettledInv, PwmWrites
      <4>3. pins[i] \in wiring.pins
        BY <4>2, WiringAssumption DEF GpioTypes
      <4> QED
        BY <1>3, <4>3 DEF OneChannel
    <3> QED
      BY <3>2, <3>3 DEF Pass
  <2> QED
    BY <2>1, <2>2
<1>4. ASSUME OneChannel
      PROVE  selected' = "A" /\ \A t \in Thread : ~Has(todo'[t], Switches \cup Uses("B"))
  BY <1>1, <1>3, <1>4 DEF RouteInv, Thread
<1> QED
  BY <1>1, <1>2, <1>4 DEF RouteInv, OneChannel, Alone

LEMMA StepRoute ==
  GpioTypes /\ ListInv /\ SettledInv /\ RouteInv /\ [FtdiGpioNext]_ftdiGpioVars => RouteInv'
<1> SUFFICES ASSUME GpioTypes, ListInv, SettledInv, RouteInv, [FtdiGpioNext]_ftdiGpioVars
             PROVE  RouteInv'
  OBVIOUS
<1>1. ASSUME NEW s, NEW p, NEW level, SketchCall(s, p, level)
      PROVE  RouteInv'
  BY <1>1, SketchKeepsRoute
<1>2. ASSUME NEW t \in Thread, Shared(t)
      PROVE  RouteInv'
  BY <1>2, SharedKeepsRoute
<1>3. CASE UNCHANGED ftdiGpioVars
  <2>1. UNCHANGED <<wiring, todo, alive, selected>>
    BY <1>3 DEF ftdiGpioVars, threadVars, usbVars
  <2> QED
    BY <2>1 DEF RouteInv, OneChannel, Alone
<1> QED
  BY <1>1, <1>2, <1>3, GpioSteps, MainKeepsRoute, PwmKeepsRoute

LEMMA RouteInvariant == FtdiGpioSpec => []RouteInv
BY InitRoute, StepRoute, GpioInvariant, SettledInvariant, PTL DEF FtdiGpioSpec

(* Where calls cannot be misrouted, one that uses a channel reaches it.    *)
Routed == OneChannel \/ (Alone /\ ~wiring.fails)
Routable == wiring.fails \/ Routed

LEMMA UseReaches ==
  ASSUME GpioTypes, ListInv, RouteInv, Routed, NEW t \in Thread,
         todo[t] # <<>>, Now(t).do \in {"set_bitmode", "write_data", "read_pins"}
  PROVE  selected = Now(t).ch
<1> DEFINE x == Now(t)
           s == todo[t]
<1>1. x = s[1] /\ x \in LegalStep /\ 1 \in 1 .. Len(s)
  BY Begins
<1>2. x \in GpioStep /\ x.ch \in Channel
  BY <1>1, StepFields
<1>3. x \in Uses(x.ch)
  BY <1>2 DEF Uses, StepsOn
<1>4. CASE OneChannel
  <2>1. selected = "A" /\ ~Has(s, Switches \cup Uses("B"))
    BY <1>4 DEF RouteInv
  <2>2. x.ch # "B"
    BY <1>1, <1>3, <2>1 DEF Has
  <2> QED
    BY <1>2, <2>1, <2>2 DEF Channel
<1>5. CASE Alone /\ ~wiring.fails
  <2>1. t = "main"
    BY <1>5 DEF RouteInv, Thread
  <2> DEFINE held == selected = x.ch
  <2>2. Covered(s, Uses(x.ch), SwitchesTo(x.ch), Switches, held) /\ held \in BOOLEAN
    BY <1>2, <1>5, <2>1 DEF RouteInv
  <2> HIDE DEF held
  <2>3. held
    BY <1>1, <1>3, <2>2, HeldAtHead
  <2> QED
    BY <2>3 DEF held
<1> QED
  BY <1>4, <1>5 DEF Routed

LEMMA ElsewhereReached ==
  ASSUME GpioSketch \/ MainOnly \/ pwmThreadFunction \/ Edges("pwm")
  PROVE  UNCHANGED <<wiring, misrouted>>
<1>1. CASE GpioSketch
  BY <1>1 DEF GpioSketch, GpioBegin, GpioEnd, pinMode, digitalWrite, digitalRead, analogWrite,
              analogWriteFrequency, history
<1>2. CASE MainOnly
  BY <1>2 DEF MainOnly, ChangeEntry, startPWMThread, ClearRunning, Join, CloseContext, history
<1>3. CASE pwmThreadFunction \/ Edges("pwm")
  BY <1>3 DEF pwmThreadFunction, Edges, history
<1> QED
  BY <1>1, <1>2, <1>3

LEMMA StepReached ==
  ASSUME GpioTypes, ListInv, RouteInv, Routed => RightChannel, [FtdiGpioNext]_ftdiGpioVars
  PROVE  (Routed => RightChannel)'
<1>1. ASSUME UNCHANGED <<wiring, misrouted>>
      PROVE  (Routed => RightChannel)'
  BY <1>1 DEF Routed, RightChannel, OneChannel, Alone
<1>2. ASSUME NEW t \in Thread, Shared(t)
      PROVE  (Routed => RightChannel)'
  <2>1. CASE UsbSetBitmode(t) \/ UsbWriteData(t) \/ UsbReadPins(t)
    <3>1. /\ todo[t] # <<>> /\ Now(t).do \in {"set_bitmode", "write_data", "read_pins"}
          /\ misrouted' = (misrouted \/ selected # Now(t).ch) /\ wiring' = wiring
      BY <2>1 DEF UsbSetBitmode, UsbWriteData, UsbReadPins, Doing, Now
    <3>2. Routed' => Routed
      BY <3>1 DEF Routed, OneChannel, Alone
    <3>3. Routed => selected = Now(t).ch
      BY <3>1, UseReaches
    <3> QED
      BY <3>1, <3>2, <3>3 DEF RightChannel
  <2>2. CASE ~(UsbSetBitmode(t) \/ UsbWriteData(t) \/ UsbReadPins(t))
    <3>1. UNCHANGED <<wiring, misrouted>>
      BY <1>2, <2>2 DEF Shared, Lock, Unlock, LoadValues, StoreValues, LoadDirections,
                        UsbSetInterface, UsbFail, history
    <3> QED
      BY <1>1, <3>1
  <2> QED
    BY <2>1, <2>2
<1>3. CASE UNCHANGED ftdiGpioVars
  BY <1>1, <1>3 DEF ftdiGpioVars, history
<1>4. ASSUME GpioSketch \/ MainOnly \/ pwmThreadFunction \/ Edges("pwm")
      PROVE  (Routed => RightChannel)'
  BY <1>1, <1>4, ElsewhereReached
<1> QED
  BY <1>2, <1>3, <1>4 DEF FtdiGpioNext, Main, Pwm, MainOnly, Thread

(* A call for a pin acts on the channel of that pin when the object uses   *)
(* channel A alone, or no PWM on a device whose calls do not fail          *)
(* (HardwareGPIO_FTDI.h:43-45; getChannel(), updateGPIOState() and         *)
(* readGPIOState()).  With PWM and pins of both channels it need not.      *)
THEOREM CallsReachChannel == FtdiGpioSpec => [](Routed => RightChannel)
<1>1. FtdiGpioInit => (Routed => RightChannel)
  BY DEF FtdiGpioInit, RightChannel
<1>2. GpioTypes /\ ListInv /\ RouteInv /\ (Routed => RightChannel) /\ [FtdiGpioNext]_ftdiGpioVars
        => (Routed => RightChannel)'
  BY StepReached
<1> QED
  BY <1>1, <1>2, GpioInvariant, RouteInvariant, PTL DEF FtdiGpioSpec

(***************************************************************************)
(* What the device was told.                                               *)
(***************************************************************************)
ValuesKept(c) ==
  device[c].told /\ device[c].values # pin_values[c] =>
    \E t \in Thread : Has(todo[t], WritesData(c))
DirectionsKept(c) ==
  /\ \/ device[c].directions = pin_directions[c]
     \/ Has(todo["main"], SetsMode(c))
     \/ ~device[c].told /\ ~Has(todo["main"], WritesData(c))
  /\ todo["main"] # <<>> /\ Now("main") \in SetsMode(c) => reg["main"] = pin_directions[c]

DeviceInv ==
  Routable /\ ~wiring.fails =>
    \A c \in Channel : ValuesKept(c) /\ (Alone => DirectionsKept(c))

LEMMA InitDevice == FtdiGpioInit => DeviceInv
<1> SUFFICES ASSUME FtdiGpioInit, NEW c \in Channel
             PROVE  ValuesKept(c) /\ DirectionsKept(c)
  BY DEF DeviceInv
<1>1. ~device[c].told /\ device[c].directions = pin_directions[c]
  BY DEF FtdiGpioInit, Untold
<1>2. todo["main"] = <<>>
  BY DEF FtdiGpioInit, Thread
<1> QED
  BY <1>1, <1>2 DEF ValuesKept, DirectionsKept

LEMMA SketchKeepsDevice ==
  ASSUME GpioTypes, DeviceInv, NEW s, NEW p, NEW level, SketchCall(s, p, level)
  PROVE  DeviceInv'
<1>1. /\ todo["main"] = <<>> /\ todo'["main"] = s /\ todo'["pwm"] = todo["pwm"]
      /\ WellMade(s, MainLocked, FALSE) /\ Complete(s) /\ UNCHANGED <<wiring, pin_values>>
      /\ \A c \in Channel : pin_directions'[c] = pin_directions[c] \/ Has(s, SetsMode(c))
      /\ UNCHANGED device \/ (device' = [c \in Channel |-> Untold] /\ s = <<>>)
  BY DEF SketchCall, SketchList, CallList, usbVars
<1>2. Len(todo["main"]) = 0
  BY <1>1
<1>3. \A F : ~Has(todo["main"], F)
  BY <1>2 DEF Has
<1> SUFFICES ASSUME Routable, ~wiring.fails, NEW c \in Channel
             PROVE  ValuesKept(c)' /\ (Alone => DirectionsKept(c)')
  BY <1>1 DEF DeviceInv, Routable, Routed, Alone, OneChannel
<1>4. ValuesKept(c) /\ (Alone => DirectionsKept(c))
  BY DEF DeviceInv
<1>5. CASE UNCHANGED device
  <2>1. ValuesKept(c)'
    BY <1>1, <1>3, <1>4, <1>5 DEF ValuesKept, Thread
  <2>2. s # <<>> => Head(s) \notin SetsMode(c)
    <3>1. s \in Seq(LegalStep) /\ StartsWithout(s, SetsMode(c))
      BY <1>1 DEF WellMade
    <3>2. s # <<>> => Head(s) = s[1]
      BY <3>1
    <3> QED
      BY <3>1, <3>2 DEF StartsWithout
  <2>3. Has(s, WritesData(c)) => Has(s, SetsMode(c))
    BY <1>1 DEF Complete
  <2>4. Alone => DirectionsKept(c)'
    BY <1>1, <1>3, <1>4, <1>5, <2>2, <2>3 DEF DirectionsKept, Now
  <2> QED
    BY <2>1, <2>4
<1>6. CASE device' = [e \in Channel |-> Untold] /\ s = <<>>
  <2>1. ~device'[c].told
    BY <1>6 DEF Untold
  <2>2. ~Has(s, WritesData(c))
    BY <1>1, <1>3, <1>6
  <2> QED
    BY <1>1, <1>6, <2>1, <2>2 DEF ValuesKept, DirectionsKept
<1> QED
  BY <1>1, <1>5, <1>6

(* What a list still has to do after its first step.                       *)
LEMMA AfterFirst ==
  ASSUME ListInv, NEW t \in Thread, Advance(t, 1)
  PROVE  /\ \A F : Has(todo'[t], F) => Has(todo[t], F)
         /\ \A F : Has(todo[t], F) => todo[t][1] \in F \/ Has(todo'[t], F)
         /\ \A u \in Thread \ {t} : todo'[u] = todo[u]
         /\ \A c \in Channel :
              /\ todo[t][1] \in StoresTo(c) => Has(todo'[t], WritesData(c))
              /\ todo'[t] # <<>> /\ Head(todo'[t]) \in SetsMode(c)
                   => todo[t][1] \in LoadsDirections(c)
<1> DEFINE s == todo[t]
           r == todo'[t]
<1>1. s \in Seq(LegalStep) /\ r \in Seq(LegalStep) /\ RestOf(r, s, 1)
  BY DEF Advance, ListInv
<1>2. ASSUME NEW F
      PROVE  (Has(r, F) => Has(s, F)) /\ (Has(s, F) => s[1] \in F \/ Has(r, F))
  <2> HIDE DEF s, r
  <2>1. (\A i \in 1 .. 1 : s[i] \notin F) <=> s[1] \notin F
    OBVIOUS
  <2> QED
    BY <1>1, <2>1, RestHas
<1>3. \A u \in Thread \ {t} : todo'[u] = todo[u]
  BY DEF Advance
<1>4. ASSUME NEW c \in Channel
      PROVE  /\ s[1] \in StoresTo(c) => Has(r, WritesData(c))
             /\ r # <<>> /\ Head(r) \in SetsMode(c) => s[1] \in LoadsDirections(c)
  <2>1. Followed(s, StoresTo(c), WritesData(c)) /\ Preceded(s, SetsMode(c), LoadsDirections(c))
    BY DEF ListInv
  <2> HIDE DEF s, r
  <2>2. Len(s) \in Nat /\ Len(r) \in Nat /\ 1 \in 1 .. Len(s) /\ Len(r) = Len(s) - 1
        /\ \A i \in 1 .. Len(r) : r[i] = s[i + 1]
    BY <1>1 DEF RestOf
  <2>3. ASSUME s[1] \in StoresTo(c)
        PROVE  Has(r, WritesData(c))
    <3>1. PICK j \in 1 + 1 .. Len(s) : s[j] \in WritesData(c)
      BY <2>1, <2>2, <2>3 DEF Followed
    <3>2. j - 1 \in 1 .. Len(r) /\ (j - 1) + 1 = j
      BY <2>2
    <3> QED
      BY <2>2, <3>1, <3>2 DEF Has
  <2>4. ASSUME r # <<>>, Head(r) \in SetsMode(c)
        PROVE  s[1] \in LoadsDirections(c)
    <3>1. Head(r) = r[1] /\ 1 \in 1 .. Len(r)
      BY <1>1, <2>2, <2>4
    <3>2. r[1] = s[1 + 1] /\ 2 \in 2 .. Len(s) /\ 2 - 1 = 1
      BY <2>2, <3>1
    <3> QED
      BY <2>1, <2>4, <3>1, <3>2 DEF Preceded
  <2> QED
    BY <2>3, <2>4
<1> QED
  BY <1>2, <1>3, <1>4

LEMMA SharedKeepsDevice ==
  ASSUME GpioTypes, ListInv, RouteInv, DeviceInv, NEW t \in Thread, Shared(t)
  PROVE  DeviceInv'
<1>0. DOMAIN todo = Thread /\ todo[t] \in Seq(LegalStep) /\ UNCHANGED <<wiring, pin_directions>>
  BY DEF GpioTypes, ListInv, Shared, Lock, Unlock, LoadValues, StoreValues, LoadDirections,
     UsbSetInterface, UsbSetBitmode, UsbWriteData, UsbReadPins, UsbFail, classVars
<1> SUFFICES ASSUME Routable, ~wiring.fails, NEW c \in Channel
             PROVE  ValuesKept(c)' /\ (Alone => DirectionsKept(c)')
  BY <1>0 DEF DeviceInv, Routable, Routed, Alone, OneChannel
<1> DEFINE x == Now(t)
<1>1. ~UsbFail(t)
  BY DEF UsbFail
<1>2. Advance(t, 1) /\ x = todo[t][1] /\ x \in LegalStep /\ todo[t] # <<>>
  BY <1>0, <1>1, SharedAdvances
<1>3. ValuesKept(c) /\ (Alone => DirectionsKept(c))
  BY DEF DeviceInv
<1>4. x \in GpioStep
  BY <1>2, StepFields
<1>5. Alone => t = "main"
  BY <1>2 DEF RouteInv, Thread
<1>6. /\ \A F : Has(todo'[t], F) => Has(todo[t], F)
      /\ \A F : Has(todo[t], F) => x \in F \/ Has(todo'[t], F)
      /\ \A u \in Thread \ {t} : todo'[u] = todo[u]
      /\ x \in StoresTo(c) => Has(todo'[t], WritesData(c))
      /\ todo'[t] # <<>> /\ Head(todo'[t]) \in SetsMode(c) => x \in LoadsDirections(c)
  BY <1>2, AfterFirst
<1>7. x \in WritesData(c) <=> x.do = "write_data" /\ x.ch = c
  BY <1>4 DEF WritesData, StepsOn
<1>8. x \in SetsMode(c) <=> x.do = "set_bitmode" /\ x.ch = c
  BY <1>4 DEF SetsMode, StepsOn
<1>9. x \in LoadsDirections(c) <=> x.do = "load_directions" /\ x.ch = c
  BY <1>4 DEF LoadsDirections, StepsOn
<1>10. (\E u \in Thread : Has(todo[u], WritesData(c))) /\ x \notin WritesData(c)
         => \E u \in Thread : Has(todo'[u], WritesData(c))
  BY <1>6
<1>11. x.do \in {"set_bitmode", "write_data"} => selected = x.ch
  BY <1>2, UseReaches DEF Routable
<1>12. /\ device \in [Channel -> DeviceState] /\ selected \in Channel
       /\ pin_values \in [Channel -> SUBSET Pin] /\ reg \in [Thread -> SUBSET Pin]
  BY DEF GpioTypes
<1>13. CASE x.do = "store_values"
  <2>1. /\ pin_values' = [pin_values EXCEPT ![x.ch] =
                            IF x.level = "HIGH" THEN reg[t] \cup {x.pin} ELSE reg[t] \ {x.pin}]
        /\ UNCHANGED device
    BY <1>1, <1>13 DEF Shared, Lock, Unlock, LoadValues, StoreValues, LoadDirections,
       UsbSetInterface, UsbSetBitmode, UsbWriteData, UsbReadPins, Doing, Now, usbVars
  <2>2. x.ch = c => x \in StoresTo(c)
    BY <1>4, <1>13 DEF StoresTo, StepsOn
  <2>3. x.ch # c => pin_values'[c] = pin_values[c]
    BY <1>12, <2>1
  <2>4. ValuesKept(c)'
    BY <1>3, <1>6, <1>7, <1>10, <1>13, <2>1, <2>2, <2>3 DEF ValuesKept
  <2>5. Alone => DirectionsKept(c)'
    BY <1>0, <1>3, <1>5, <1>6, <1>7, <1>8, <1>9, <1>13, <2>1 DEF DirectionsKept, Now
  <2> QED
    BY <2>4, <2>5
<1>14. CASE x.do = "write_data"
  <2>1. /\ device' = [device EXCEPT ![selected].values = pin_values[x.ch],
                                    ![selected].told = TRUE]
        /\ UNCHANGED pin_values
    BY <1>1, <1>14 DEF Shared, Lock, Unlock, LoadValues, StoreValues, LoadDirections,
       UsbSetInterface, UsbSetBitmode, UsbWriteData, UsbReadPins, Doing, Now, classVars
  <2>2. CASE x.ch = c
    <3>1. selected = c
      BY <1>11, <1>14, <2>2
    <3>2. device'[c].values = pin_values[c] /\ device'[c].directions = device[c].directions
      BY <1>12, <2>1, <2>2, <3>1 DEF DeviceState
    <3>3. Has(todo[t], WritesData(c))
      <4>1. 1 \in 1 .. Len(todo[t])
        BY <1>2, Begins
      <4> QED
        BY <1>2, <1>7, <1>14, <2>2, <4>1 DEF Has
    <3>4. Alone => DirectionsKept(c)'
      BY <1>0, <1>3, <1>5, <1>6, <1>8, <1>9, <1>14, <3>2, <3>3 DEF DirectionsKept, Now
    <3> QED
      BY <2>1, <3>2, <3>4 DEF ValuesKept
  <2>3. CASE x.ch # c
    <3>1. device'[c] = device[c]
      BY <1>11, <1>12, <1>14, <2>1, <2>3
    <3>2. ValuesKept(c)'
      BY <1>3, <1>7, <1>10, <2>1, <2>3, <3>1 DEF ValuesKept
    <3>3. Alone => DirectionsKept(c)'
      BY <1>0, <1>3, <1>5, <1>6, <1>7, <1>8, <1>9, <1>14, <2>3, <3>1 DEF DirectionsKept, Now
    <3> QED
      BY <3>2, <3>3
  <2> QED
    BY <2>2, <2>3
<1>15. CASE x.do = "set_bitmode"
  <2>1. device' = [device EXCEPT ![selected].directions = reg[t]] /\ UNCHANGED pin_values
    BY <1>1, <1>15 DEF Shared, Lock, Unlock, LoadValues, StoreValues, LoadDirections,
       UsbSetInterface, UsbSetBitmode, UsbWriteData, UsbReadPins, Doing, Now, classVars
  <2>2. device'[c].told = device[c].told /\ device'[c].values = device[c].values
    BY <1>12, <2>1 DEF DeviceState
  <2>3. ValuesKept(c)'
    BY <1>3, <1>7, <1>10, <1>15, <2>1, <2>2 DEF ValuesKept
  <2>4. x.ch = c => device'[c].directions = reg[t]
    BY <1>11, <1>12, <1>15, <2>1 DEF DeviceState
  <2>5. x.ch # c => device'[c] = device[c]
    BY <1>11, <1>12, <1>15, <2>1
  <2>6. Alone => DirectionsKept(c)'
    BY <1>0, <1>2, <1>3, <1>5, <1>6, <1>7, <1>8, <1>9, <1>15, <2>2, <2>4, <2>5
     DEF DirectionsKept, Now
  <2> QED
    BY <2>3, <2>6
<1>16. CASE x.do \notin {"store_values", "write_data", "set_bitmode"}
  <2>1. /\ UNCHANGED <<device, pin_values>>
        /\ x.do = "load_directions" => reg' = [reg EXCEPT ![t] = pin_directions[x.ch]]
    BY <1>1, <1>16 DEF Shared, Lock, Unlock, LoadValues, StoreValues, LoadDirections,
       UsbSetInterface, UsbSetBitmode, UsbWriteData, UsbReadPins, Doing, Now, classVars, usbVars
  <2>2. ValuesKept(c)'
    BY <1>3, <1>7, <1>10, <1>16, <2>1 DEF ValuesKept
  <2>3. x \in LoadsDirections(c) => reg'[t] = pin_directions[c]
    BY <1>9, <1>12, <2>1
  <2>4. Alone => DirectionsKept(c)'
    BY <1>0, <1>3, <1>5, <1>6, <1>7, <1>8, <1>16, <2>1, <2>3 DEF DirectionsKept, Now
  <2> QED
    BY <2>2, <2>4
<1> QED
  BY <1>13, <1>14, <1>15, <1>16

LEMMA MainKeepsDevice ==
  ASSUME GpioTypes, ListInv, RouteInv, DeviceInv, MainOnly
  PROVE  DeviceInv'
<1>1. /\ Advance("main", 1) /\ Now("main") = todo["main"][1]
      /\ UNCHANGED <<wiring, pin_directions, pin_values, reg, device>>
      /\ Now("main").do \in {"disable", "updatePWMPin", "analogWriteFrequency",
                             "startPWMThread", "clear_running", "join", "close"}
  BY MainAdvances DEF usbVars
<1> SUFFICES ASSUME Routable, ~wiring.fails, NEW c \in Channel
             PROVE  ValuesKept(c)' /\ (Alone => DirectionsKept(c)')
  BY <1>1 DEF DeviceInv, Routable, Routed, Alone, OneChannel
<1>2. ValuesKept(c) /\ (Alone => DirectionsKept(c))
  BY DEF DeviceInv
<1>3. /\ Now("main") \notin WritesData(c) /\ Now("main") \notin SetsMode(c)
      /\ Now("main") \notin LoadsDirections(c)
  BY <1>1 DEF WritesData, SetsMode, LoadsDirections, StepsOn
<1>4. /\ \A F : Has(todo'["main"], F) => Has(todo["main"], F)
      /\ \A F : Has(todo["main"], F) => Now("main") \in F \/ Has(todo'["main"], F)
      /\ \A u \in Thread \ {"main"} : todo'[u] = todo[u]
      /\ todo'["main"] # <<>> /\ Head(todo'["main"]) \in SetsMode(c)
           => Now("main") \in LoadsDirections(c)
  BY <1>1, AfterFirst DEF Thread
<1>5. ValuesKept(c)'
  BY <1>1, <1>2, <1>3, <1>4 DEF ValuesKept
<1>6. Alone => DirectionsKept(c)'
  BY <1>1, <1>2, <1>3, <1>4 DEF DirectionsKept, Now
<1> QED
  BY <1>5, <1>6

LEMMA PwmKeepsDevice ==
  ASSUME GpioTypes, ListInv, SettledInv, RouteInv, DeviceInv, pwmThreadFunction \/ Edges("pwm")
  PROVE  DeviceInv'
<1>1. UNCHANGED <<wiring, pin_values, device>> /\ todo'["main"] = todo["main"]
  BY EdgesMakes, PwmBegins DEF usbVars
<1>2. ~Alone
  BY PwmKeepsRoute
<1>3. ~Has(todo["pwm"], StepsThat({"write_data"}))
  <2>1. CASE Edges("pwm")
    BY <2>1, EdgesMakes
  <2>2. CASE pwmThreadFunction
    <3>1. Len(todo["pwm"]) = 0
      BY <2>2, PwmBegins
    <3> QED
      BY <3>1 DEF Has
  <2> QED
    BY <2>1, <2>2
<1>4. \A c : ~Has(todo["pwm"], WritesData(c))
  BY <1>3 DEF Has, WritesData, StepsOn, StepsThat
<1>5. ASSUME Routable, ~wiring.fails, NEW c \in Channel
      PROVE  ValuesKept(c)'
  BY <1>1, <1>4, <1>5 DEF DeviceInv, ValuesKept, Thread
<1> QED
  BY <1>1, <1>2, <1>5 DEF DeviceInv, Routable, Routed, Alone, OneChannel

LEMMA StepDevice ==
  GpioTypes /\ ListInv /\ SettledInv /\ RouteInv /\ DeviceInv /\ [FtdiGpioNext]_ftdiGpioVars
    => DeviceInv'
<1> SUFFICES ASSUME GpioTypes, ListInv, SettledInv, RouteInv, DeviceInv,
                    [FtdiGpioNext]_ftdiGpioVars
             PROVE  DeviceInv'
  OBVIOUS
<1>1. ASSUME NEW s, NEW p, NEW level, SketchCall(s, p, level)
      PROVE  DeviceInv'
  BY <1>1, SketchKeepsDevice
<1>2. ASSUME NEW t \in Thread, Shared(t)
      PROVE  DeviceInv'
  BY <1>2, SharedKeepsDevice
<1>3. CASE UNCHANGED ftdiGpioVars
  <2>1. UNCHANGED <<wiring, todo, reg, pin_values, pin_directions, device>>
    BY <1>3 DEF ftdiGpioVars, classVars, usbVars
  <2> QED
    BY <2>1 DEF DeviceInv, ValuesKept, DirectionsKept, Routable, Routed, Alone, OneChannel, Now
<1> QED
  BY <1>1, <1>2, <1>3, GpioSteps, MainKeepsDevice, PwmKeepsDevice

LEMMA DeviceInvariant == FtdiGpioSpec => []DeviceInv
BY InitDevice, StepDevice, GpioInvariant, SettledInvariant, RouteInvariant, PTL DEF FtdiGpioSpec

(* When both threads rest, each channel the device was ever told anything  *)
(* of has the values the class keeps, and with one thread its directions   *)
(* too.  Calls that fail, or that are misrouted because the PWM thread and *)
(* the sketch both switch channels, are the exceptions                     *)
(* (HardwareGPIO_FTDI.cpp updateGPIOState()).                              *)
THEOREM DeviceFollows == FtdiGpioSpec => [](Routable => DeviceAgrees)
<1>1. ASSUME DeviceInv, Routable
      PROVE  DeviceAgrees
  <2> SUFFICES ASSUME Resting, ~wiring.fails, NEW c \in Channel, device[c].told
               PROVE  /\ device[c].values = pin_values[c]
                      /\ wiring.pwm = {} => device[c].directions = pin_directions[c]
    BY DEF DeviceAgrees, ValuesReachDevice, DirectionsReachDevice
  <2>1. \A t \in Thread : Len(todo[t]) = 0
    BY DEF Resting
  <2>2. \A t \in Thread : \A F : ~Has(todo[t], F)
    BY <2>1 DEF Has
  <2>3. ValuesKept(c) /\ (Alone => DirectionsKept(c))
    BY <1>1 DEF DeviceInv
  <2> QED
    BY <2>2, <2>3 DEF ValuesKept, DirectionsKept, Alone, Thread
<1> QED
  BY <1>1, DeviceInvariant, PTL

(***************************************************************************)
(* SPI: what the chip does with the bytes of one sendData().               *)
(***************************************************************************)

(* A set with 0 and, below m, the successor of each of its members.        *)
LEMMA UpTo ==
  ASSUME NEW m \in Nat, NEW T, 0 \in T, \A n \in 0 .. m - 1 : n \in T => n + 1 \in T
  PROVE  0 .. m \subseteq T
<1> DEFINE U == {n \in 0 .. m : n \notin T}
<1>1. U = {}
  <2> SUFFICES ASSUME U # {}
               PROVE  FALSE
    OBVIOUS
  <2>1. U \subseteq Nat
    OBVIOUS
  <2>2. PICK n \in U : \A k \in U : n <= k
    BY <2>1, LeastOfNats
  <2>3. n \in 0 .. m /\ n \notin T /\ n # 0
    OBVIOUS
  <2>4. n - 1 \in 0 .. m - 1 /\ ~(n <= n - 1)
    BY <2>3
  <2>5. n - 1 \notin U
    BY <2>2, <2>4
  <2>6. n - 1 \in T
    BY <2>4, <2>5
  <2>7. n - 1 + 1 = n
    BY <2>3
  <2> QED
    BY <2>3, <2>4, <2>6, <2>7
<1> QED
  BY <1>1

ByteByByte(s, bytes) ==
  CHOOSE after : after = [k \in 0 .. Len(bytes) |->
                            IF k = 0 THEN s ELSE Clocked(after[k - 1], bytes[k])]

LEMMA ByteByByteExists ==
  ASSUME NEW bytes \in Seq(Int), NEW s
  PROVE  ByteByByte(s, bytes) =
           [k \in 0 .. Len(bytes) |->
              IF k = 0 THEN s ELSE Clocked(ByteByByte(s, bytes)[k - 1], bytes[k])]
<1> DEFINE Solves(f, m) == f = [k \in 0 .. m |-> IF k = 0 THEN s ELSE Clocked(f[k - 1], bytes[k])]
           T == {m \in Nat : \E f : Solves(f, m)}
<1>1. Len(bytes) \in Nat
  OBVIOUS
<1>2. 0 \in T
  <2> DEFINE f == [k \in 0 .. 0 |-> s]
  <2>1. Solves(f, 0)
    OBVIOUS
  <2> QED
    BY <2>1
<1>3. ASSUME NEW m \in 0 .. Len(bytes) - 1, m \in T
      PROVE  m + 1 \in T
  <2>1. PICK f : Solves(f, m)
    BY <1>3
  <2>2. m \in Nat /\ m + 1 \in Nat
    BY <1>1
  <2> DEFINE g == [k \in 0 .. m + 1 |-> IF k = 0 THEN s ELSE Clocked(f[k - 1], bytes[k])]
             h == [k \in 0 .. m + 1 |-> IF k = 0 THEN s ELSE Clocked(g[k - 1], bytes[k])]
  <2>3. \A k \in 0 .. m : g[k] = f[k]
    BY <2>1, <2>2
  <2>4. ASSUME NEW k \in 0 .. m + 1
        PROVE  g[k] = h[k]
    <3>1. CASE k = 0
      BY <2>2, <3>1
    <3>2. CASE k # 0
      <4>1. k - 1 \in 0 .. m
        BY <2>2, <3>2
      <4>2. g[k - 1] = f[k - 1]
        BY <2>3, <4>1
      <4> QED
        BY <3>2, <4>2
    <3> QED
      BY <3>1, <3>2
  <2>5. g = h
    BY <2>4
  <2>6. Solves(g, m + 1)
    BY <2>5
  <2> QED
    BY <2>2, <2>6
<1>4. 0 .. Len(bytes) \subseteq T
  <2> HIDE DEF T
  <2> QED
    BY <1>1, <1>2, <1>3, UpTo
<1>5. \E f : Solves(f, Len(bytes))
  BY <1>1, <1>4
<1> QED
  BY <1>5 DEF ByteByByte

LEMMA EachByte ==
  ASSUME NEW bytes \in Seq(Int), NEW s
  PROVE  /\ ClockedAll(s, bytes) = ByteByByte(s, bytes)[Len(bytes)]
         /\ ByteByByte(s, bytes)[0] = s
         /\ \A k \in 1 .. Len(bytes) :
              ByteByByte(s, bytes)[k] = Clocked(ByteByByte(s, bytes)[k - 1], bytes[k])
<1> DEFINE P == ByteByByte(s, bytes)
           m == Len(bytes)
<1>1. m \in Nat
  OBVIOUS
<1>2. ClockedAll(s, bytes) = P[m]
  BY DEF ClockedAll, ByteByByte
<1>3. P = [k \in 0 .. m |-> IF k = 0 THEN s ELSE Clocked(P[k - 1], bytes[k])]
  BY ByteByByteExists
<1> HIDE DEF P, m
<1>4. P[0] = s
  BY <1>1, <1>3
<1>5. ASSUME NEW k \in 1 .. m
      PROVE  P[k] = Clocked(P[k - 1], bytes[k])
  <2>1. k \in 0 .. m /\ k # 0
    BY <1>1
  <2> QED
    BY <1>3, <2>1
<1> QED
  BY <1>2, <1>4, <1>5 DEF P, m

(* What the chip makes of a byte, by what it takes. *)
LEMMA TakeCommand ==
  ASSUME NEW c, NEW byte, c.takes = "command"
  PROVE  Take(c, byte) = IF byte \in ExchangeCommands
         THEN [takes |-> "length", missing |-> form, length |-> 0, weight |-> 1]
         ELSE [takes |-> IF byte = SetDivisor THEN "divisorLow" ELSE "nothing"]
BY DEF Take

LEMMA TakeLow ==
  ASSUME NEW c, NEW byte, c.takes = "divisorLow"
  PROVE  Take(c, byte) = [takes |-> "divisorHigh", low |-> byte]
BY DEF Take

LEMMA TakeHigh ==
  ASSUME NEW c, NEW byte, c.takes = "divisorHigh"
  PROVE  Take(c, byte) = Idle
BY DEF Take

LEMMA TakeLength ==
  ASSUME NEW c, NEW byte, c.takes = "length"
  PROVE  Take(c, byte) = LET length == c.length + c.weight * byte
         IN IF c.missing > 1
            THEN [takes |-> "length", missing |-> c.missing - 1, length |-> length,
                  weight |-> c.weight * Base]
            ELSE [takes |-> "data", missing |-> length + 1]
BY DEF Take

LEMMA TakeData ==
  ASSUME NEW c, NEW byte, c.takes = "data"
  PROVE  Take(c, byte) = IF c.missing > 1 THEN [c EXCEPT !.missing = @ - 1] ELSE Idle
BY DEF Take

LEMMA ClockedData ==
  ASSUME NEW s, NEW byte, s.chip.takes = "data"
  PROVE  /\ Clocked(s, byte).heard = Append(s.heard, byte)
         /\ Clocked(s, byte).answers = Append(s.answers, Len(s.heard) + 1)
         /\ Clocked(s, byte).chip = Take(s.chip, byte) /\ Clocked(s, byte).divisor = s.divisor
BY DEF Clocked

LEMMA ClockedOther ==
  ASSUME NEW s, NEW byte, s.chip.takes # "data"
  PROVE  /\ Clocked(s, byte).heard = s.heard /\ Clocked(s, byte).answers = s.answers
         /\ Clocked(s, byte).chip = Take(s.chip, byte)
BY DEF Clocked

LEMMA ClockedChip ==
  ASSUME NEW s, NEW t, NEW byte, s.chip = t.chip, s.divisor = t.divisor
  PROVE  /\ Clocked(s, byte).chip = Clocked(t, byte).chip
         /\ Clocked(s, byte).divisor = Clocked(t, byte).divisor
<1>1. Clocked(s, byte).chip = Take(s.chip, byte) /\ Clocked(t, byte).chip = Take(t.chip, byte)
  BY DEF Clocked
<1>2. /\ Clocked(s, byte).divisor =
           IF s.chip.takes = "divisorHigh" THEN s.chip.low + Base * byte ELSE s.divisor
      /\ Clocked(t, byte).divisor =
           IF t.chip.takes = "divisorHigh" THEN t.chip.low + Base * byte ELSE t.divisor
  BY DEF Clocked
<1> QED
  BY <1>1, <1>2

(* With k answers to read, the slave has heard the first L + k bytes of g. *)
Taken(s, g, L, k) ==
  /\ s.heard \in Seq(Int) /\ Len(s.heard) = L + k
  /\ \A i \in 1 .. L + k : s.heard[i] = g[i]
  /\ s.answers \in Seq(Int) /\ Len(s.answers) = k
  /\ \A i \in 1 .. k : s.answers[i] = L + i

LEMMA DataTaken ==
  ASSUME NEW L \in Nat, NEW k \in Nat, NEW s, NEW g, NEW byte \in Int,
         s.chip.takes = "data", Taken(s, g, L, k), g[L + k + 1] = byte
  PROVE  /\ Taken(Clocked(s, byte), g, L, k + 1) /\ Clocked(s, byte).chip = Take(s.chip, byte)
         /\ Clocked(s, byte).divisor = s.divisor
<1> DEFINE h == s.heard
           a == s.answers
           r == Clocked(s, byte)
<1>1. /\ r.heard = Append(h, byte) /\ r.answers = Append(a, Len(h) + 1)
      /\ r.chip = Take(s.chip, byte) /\ r.divisor = s.divisor
  BY DEF Clocked
<1>2. /\ h \in Seq(Int) /\ Len(h) = L + k /\ \A i \in 1 .. L + k : h[i] = g[i]
      /\ a \in Seq(Int) /\ Len(a) = k /\ \A i \in 1 .. k : a[i] = L + i
  BY DEF Taken
<1> HIDE DEF h, a, r
<1>3. /\ r.heard \in Seq(Int) /\ Len(r.heard) = L + (k + 1)
      /\ \A i \in 1 .. L + (k + 1) : r.heard[i] = g[i]
  <2>1. r.heard \in Seq(Int) /\ Len(r.heard) = (L + k) + 1
    <3>1. r.heard \in Seq(Int) /\ Len(r.heard) = Len(h) + 1
      BY <1>1, <1>2
    <3> QED
      BY <1>2, <3>1
  <2>2. ASSUME NEW i \in 1 .. (L + k) + 1
        PROVE  r.heard[i] = g[i]
    <3>1. CASE i = L + k + 1
      <4>1. i = Len(h) + 1
        BY <1>2, <3>1
      <4>2. r.heard[i] = byte
        BY <1>1, <1>2, <4>1
      <4> QED
        BY <3>1, <4>2
    <3>2. CASE i # L + k + 1
      <4>1. i \in 1 .. L + k
        BY <3>2
      <4>2. r.heard[i] = h[i]
        BY <1>1, <1>2, <4>1
      <4> QED
        BY <1>2, <4>1, <4>2
    <3> QED
      BY <3>1, <3>2
  <2>3. (L + k) + 1 = L + (k + 1)
    OBVIOUS
  <2> QED
    BY <2>1, <2>2, <2>3
<1>4. /\ r.answers \in Seq(Int) /\ Len(r.answers) = k + 1
      /\ \A i \in 1 .. k + 1 : r.answers[i] = L + i
  <2>1. r.answers = Append(a, L + k + 1)
    BY <1>1, <1>2
  <2>2. r.answers \in Seq(Int) /\ Len(r.answers) = k + 1
    <3>1. L + k + 1 \in Int
      OBVIOUS
    <3>2. r.answers \in Seq(Int) /\ Len(r.answers) = Len(a) + 1
      BY <1>2, <2>1, <3>1
    <3> QED
      BY <1>2, <3>2
  <2>3. ASSUME NEW i \in 1 .. k + 1
        PROVE  r.answers[i] = L + i
    <3>1. CASE i = k + 1
      BY <1>2, <2>1, <3>1
    <3>2. CASE i # k + 1
      <4>1. i \in 1 .. k
        BY <3>2
      <4>2. r.answers[i] = a[i]
        BY <1>2, <2>1, <4>1
      <4> QED
        BY <1>2, <4>1, <4>2
    <3> QED
      BY <3>1, <3>2
  <2> QED
    BY <2>2, <2>3
<1> QED
  BY <1>1, <1>3, <1>4 DEF Taken, r

LEMMA HeaderTaken ==
  ASSUME NEW s, NEW g, NEW L, NEW k, NEW byte, s.chip.takes \in {"command", "length"},
         Taken(s, g, L, k)
  PROVE  /\ Taken(Clocked(s, byte), g, L, k) /\ Clocked(s, byte).chip = Take(s.chip, byte)
         /\ Clocked(s, byte).divisor = s.divisor
<1>1. /\ Clocked(s, byte).heard = s.heard /\ Clocked(s, byte).answers = s.answers
      /\ Clocked(s, byte).chip = Take(s.chip, byte) /\ Clocked(s, byte).divisor = s.divisor
  BY DEF Clocked
<1> QED
  BY <1>1 DEF Taken

(* Three bytes in the form of transfer(data): a command, one byte of       *)
(* length, and one of data.                                                *)
LEMMA ByteForm ==
  ASSUME form = 1, NEW s, s.chip = Idle, NEW g, NEW L \in Nat, Taken(s, g, L, 0),
         NEW command \in ExchangeCommands, NEW byte \in Int, g[L + 1] = byte,
         NEW p, p = Clocked(s, command), NEW q, q = Clocked(p, 0), NEW r, r = Clocked(q, byte)
  PROVE  r.chip = Idle /\ r.divisor = s.divisor /\ Taken(r, g, L, 1)
<1>1. /\ Taken(p, g, L, 0) /\ p.divisor = s.divisor
      /\ p.chip = [takes |-> "length", missing |-> 1, length |-> 0, weight |-> 1]
  <2>1. Idle.takes = "command"
    BY DEF Idle
  <2>2. s.chip.takes \in {"command", "length"}
    BY <2>1
  <2>3. Taken(p, g, L, 0) /\ p.chip = Take(s.chip, command) /\ p.divisor = s.divisor
    BY <2>2, HeaderTaken
  <2>4. Take(s.chip, command) = [takes |-> "length", missing |-> form, length |-> 0, weight |-> 1]
    BY <2>1, TakeCommand
  <2> QED
    BY <2>3, <2>4
<1>2. Taken(q, g, L, 0) /\ q.divisor = s.divisor /\ q.chip = [takes |-> "data", missing |-> 1]
  <2>1. p.chip.takes \in {"command", "length"}
    BY <1>1
  <2>2. Taken(q, g, L, 0) /\ q.chip = Take(p.chip, 0) /\ q.divisor = p.divisor
    BY <1>1, <2>1, HeaderTaken
  <2>3. ~(p.chip.missing > 1) /\ p.chip.length + p.chip.weight * 0 + 1 = 1
    BY <1>1
  <2>4. p.chip.takes = "length"
    BY <1>1
  <2>5. Take(p.chip, 0) = [takes |-> "data", missing |-> 1]
    BY <2>3, <2>4, TakeLength
  <2> QED
    BY <1>1, <2>2, <2>5
<1>3. L + 0 + 1 = L + 1 /\ 0 + 1 = 1 /\ 0 \in Nat
  OBVIOUS
<1>4. q.chip.takes = "data" /\ g[L + 0 + 1] = byte
  BY <1>2, <1>3
<1>5. Taken(r, g, L, 0 + 1) /\ r.chip = Take(q.chip, byte) /\ r.divisor = q.divisor
  BY <1>2, <1>3, <1>4, DataTaken
<1>6. Take(q.chip, byte) = Idle
  <2>1. ~(q.chip.missing > 1)
    BY <1>2
  <2> QED
    BY <1>4, <2>1, TakeData
<1> QED
  BY <1>2, <1>3, <1>5, <1>6

LEMMA ByteExchanged ==
  ASSUME form = 1, NEW s, s.chip = Idle, NEW g, NEW L \in Nat, Taken(s, g, L, 0),
         NEW command \in ExchangeCommands, NEW byte \in Int, g[L + 1] = byte
  PROVE  LET r == ClockedAll(s, <<command, 0, byte>>)
         IN r.chip = Idle /\ r.divisor = s.divisor /\ Taken(r, g, L, 1)
<1> DEFINE bytes == <<command, 0, byte>>
           P == ByteByByte(s, bytes)
<1>1. bytes \in Seq(Int) /\ Len(bytes) = 3 /\ bytes[1] = command /\ bytes[2] = 0 /\ bytes[3] = byte
  BY DEF ExchangeCommands
<1> HIDE DEF bytes
<1>2. /\ P[0] = s /\ ClockedAll(s, bytes) = P[Len(bytes)]
      /\ \A k \in 1 .. Len(bytes) : P[k] = Clocked(P[k - 1], bytes[k])
  BY <1>1, EachByte, ZenonT(30)
<1> HIDE DEF P
<1>3. /\ P[0] = s /\ ClockedAll(s, bytes) = P[3]
      /\ \A k \in 1 .. 3 : P[k] = Clocked(P[k - 1], bytes[k])
  BY <1>1, <1>2
<1>4. P[1] = Clocked(s, command) /\ P[2] = Clocked(P[1], 0) /\ P[3] = Clocked(P[2], byte)
  <2>1. 1 \in 1 .. 3 /\ 2 \in 1 .. 3 /\ 3 \in 1 .. 3 /\ 1 - 1 = 0 /\ 2 - 1 = 1 /\ 3 - 1 = 2
    OBVIOUS
  <2> QED
    BY <1>1, <1>3, <2>1
<1>5. P[3].chip = Idle /\ P[3].divisor = s.divisor /\ Taken(P[3], g, L, 1)
  BY <1>4, ByteForm
<1> QED
  BY <1>3, <1>5 DEF bytes

LEMMA TwoDigits ==
  ASSUME NEW b \in Nat \ {0}, NEW m \in Nat, m < b * b
  PROVE  /\ m % b \in Int /\ (m \div b) % b \in Int
         /\ (m % b) + b * ((m \div b) % b) = m
<1> DEFINE q == m \div b
           r == m % b
<1>1. q \in Int /\ r \in 0 .. b - 1 /\ m = b * q + r
  OBVIOUS
<1> HIDE DEF q, r
<1>2. 0 <= q
  <2> SUFFICES ASSUME q <= -1
               PROVE  FALSE
    BY <1>1
  <2>1. b * q <= b * (-1)
    BY <1>1
  <2> QED
    BY <1>1, <2>1
<1>3. q < b
  <2> SUFFICES ASSUME b <= q
               PROVE  FALSE
    BY <1>1
  <2>1. b * b <= b * q
    BY <1>1
  <2> QED
    BY <1>1, <2>1
<1>4. q % b = q
  BY <1>1, <1>2, <1>3
<1> QED
  BY <1>1, <1>4 DEF q, r

(* The three bytes before a chunk of transfer(buf) name its length.        *)
LEMMA ChunkForm ==
  ASSUME form = 2, NEW s, s.chip = Idle, NEW g, NEW L \in Nat, Taken(s, g, L, 0),
         NEW command \in ExchangeCommands, NEW low \in Int, NEW high \in Int,
         NEW p, p = Clocked(s, command), NEW q, q = Clocked(p, low), NEW r, r = Clocked(q, high)
  PROVE  /\ r.chip = [takes |-> "data", missing |-> low + Base * high + 1] /\ Taken(r, g, L, 0)
         /\ r.divisor = s.divisor
<1>1. /\ Taken(p, g, L, 0) /\ p.divisor = s.divisor
      /\ p.chip = [takes |-> "length", missing |-> 2, length |-> 0, weight |-> 1]
  <2>1. Idle.takes = "command"
    BY DEF Idle
  <2>2. s.chip.takes \in {"command", "length"}
    BY <2>1
  <2>3. Taken(p, g, L, 0) /\ p.chip = Take(s.chip, command) /\ p.divisor = s.divisor
    BY <2>2, HeaderTaken
  <2> QED
    BY <2>1, <2>3 DEF Take
<1>2. /\ Taken(q, g, L, 0) /\ q.divisor = s.divisor
      /\ q.chip = [takes |-> "length", missing |-> 1, length |-> low, weight |-> Base]
  <2>1. p.chip.takes \in {"command", "length"}
    BY <1>1
  <2>2. Taken(q, g, L, 0) /\ q.chip = Take(p.chip, low) /\ q.divisor = p.divisor
    BY <1>1, <2>1, HeaderTaken
  <2>3. 0 + 1 * low = low /\ 1 * Base = Base /\ 2 - 1 = 1 /\ Base \in Int
    BY SpiAssumption
  <2>4. p.chip.takes = "length" /\ p.chip.missing = 2 /\ p.chip.length = 0 /\ p.chip.weight = 1
    BY <1>1
  <2>5. Take(p.chip, low) = [takes |-> "length", missing |-> 2 - 1, length |-> 0 + 1 * low,
                             weight |-> 1 * Base]
    BY <2>4 DEF Take
  <2> QED
    BY <1>1, <2>2, <2>3, <2>5
<1>3. q.chip.takes \in {"command", "length"}
  BY <1>2
<1>4. Taken(r, g, L, 0) /\ r.chip = Take(q.chip, high) /\ r.divisor = q.divisor
  BY <1>2, <1>3, HeaderTaken
<1> QED
  BY <1>2, <1>4 DEF Take

(* The data of a chunk.                                                    *)
LEMMA ChunkData ==
  ASSUME NEW n \in Nat \ {0}, NEW P, NEW g, NEW L \in Nat, Taken(P[3], g, L, 0),
         P[3].chip = [takes |-> "data", missing |-> n],
         NEW data, \A k \in 1 .. n : data[k] \in Int /\ g[L + k] = data[k],
         \A k \in 1 .. n : P[3 + k] = Clocked(P[3 + (k - 1)], data[k])
  PROVE  P[3 + n].chip = Idle /\ P[3 + n].divisor = P[3].divisor /\ Taken(P[3 + n], g, L, n)
<1> DEFINE T == {k \in 0 .. n :
                   /\ Taken(P[3 + k], g, L, k) /\ P[3 + k].divisor = P[3].divisor
                   /\ P[3 + k].chip = IF k < n THEN [takes |-> "data", missing |-> n - k] ELSE Idle}
<1>1. 0 \in T
  OBVIOUS
<1>2. ASSUME NEW k \in 0 .. n - 1, k \in T
      PROVE  k + 1 \in T
  <2> DEFINE p == P[3 + k]
             r == P[3 + (k + 1)]
             byte == data[k + 1]
  <2>1. k < n /\ k \in Nat /\ k + 1 \in 1 .. n /\ k + 1 - 1 = k /\ n - k \in Int
        /\ L + k + 1 = L + (k + 1) /\ k + 1 \in 0 .. n
    OBVIOUS
  <2>2. /\ Taken(p, g, L, k) /\ p.chip = [takes |-> "data", missing |-> n - k]
        /\ p.divisor = P[3].divisor
    BY <1>2, <2>1
  <2>3. r = Clocked(p, byte) /\ byte \in Int /\ g[L + (k + 1)] = byte
    BY <2>1
  <2>4. p.chip.takes = "data" /\ p.chip.missing = n - k
    BY <2>2
  <2> HIDE DEF p, r, byte, T
  <2>5. Taken(r, g, L, k + 1) /\ r.chip = Take(p.chip, byte) /\ r.divisor = p.divisor
    <3>1. g[L + k + 1] = byte
      BY <2>1, <2>3
    <3> QED
      BY <2>1, <2>2, <2>3, <2>4, <3>1, DataTaken
  <2>6. r.chip = IF k + 1 < n THEN [takes |-> "data", missing |-> n - (k + 1)] ELSE Idle
    <3>1. CASE k + 1 < n
      <4>1. n - k > 1 /\ n - k - 1 = n - (k + 1)
        BY <2>1, <3>1
      <4> QED
        BY <2>2, <2>5, <3>1, <4>1 DEF Take
    <3>2. CASE ~(k + 1 < n)
      <4>1. ~(n - k > 1)
        BY <2>1, <3>2
      <4> QED
        BY <2>2, <2>5, <3>2, <4>1 DEF Take
    <3> QED
      BY <3>1, <3>2
  <2> QED
    BY <2>1, <2>2, <2>5, <2>6 DEF T, r
<1>3. 0 .. n \subseteq T
  <2>1. n \in Nat
    OBVIOUS
  <2> HIDE DEF T
  <2> QED
    BY <1>1, <1>2, <2>1, UpTo
<1>4. n \in T
  BY <1>3
<1> QED
  BY <1>4

LEMMA ChunkExchanged ==
  ASSUME form = 2, NEW s, s.chip = Idle, NEW g, NEW L \in Nat, Taken(s, g, L, 0),
         NEW command \in ExchangeCommands, NEW data \in Seq(Int), Len(data) \in 1 .. Chunk,
         \A k \in 1 .. Len(data) : g[L + k] = data[k]
  PROVE  LET n == Len(data)
             r == ClockedAll(s, <<command, (n - 1) % Base, ((n - 1) \div Base) % Base>> \o data)
         IN r.chip = Idle /\ r.divisor = s.divisor /\ Taken(r, g, L, n)
<1> DEFINE n == Len(data)
           low == (n - 1) % Base
           high == ((n - 1) \div Base) % Base
           header == <<command, low, high>>
           bytes == header \o data
           P == ByteByByte(s, bytes)
<1>0. n \in Nat \ {0} /\ low \in Int /\ high \in Int /\ low + Base * high + 1 = n
  <2>1. Base \in Nat \ {0} /\ n - 1 \in Nat /\ n - 1 < Base * Base /\ n \in Nat \ {0}
    <3>1. Base \in Nat \ {0} /\ Base * Base \in Int /\ n \in 1 .. Base * Base
      BY SpiAssumption DEF Chunk
    <3> DEFINE square == Base * Base
    <3> HIDE DEF n, square
    <3>2. n - 1 \in Nat /\ n - 1 < square /\ n \in Nat \ {0}
      <4>1. square \in Int /\ n \in 1 .. square
        BY <3>1 DEF square
      <4> QED
        BY <4>1
    <3> QED
      BY <3>1, <3>2 DEF square
  <2>2. low \in Int /\ high \in Int /\ low + Base * high = n - 1
    BY <2>1, TwoDigits
  <2> HIDE DEF low, high, n
  <2> QED
    BY <2>1, <2>2
<1> HIDE DEF low, high
<1>1. /\ header \in Seq(Int) /\ Len(header) = 3
      /\ header[1] = command /\ header[2] = low /\ header[3] = high
  BY <1>0 DEF ExchangeCommands
<1> HIDE DEF header
<1>2. /\ bytes \in Seq(Int) /\ Len(bytes) = 3 + n
      /\ bytes[1] = command /\ bytes[2] = low /\ bytes[3] = high
      /\ \A k \in 1 .. n : bytes[3 + k] = data[k]
  <2>1. /\ bytes \in Seq(Int) /\ Len(bytes) = Len(header) + Len(data)
        /\ \A i \in 1 .. Len(header) : bytes[i] = header[i]
        /\ \A i \in 1 .. Len(data) : bytes[Len(header) + i] = data[i]
    <3>1. header \in Seq(Int) /\ data \in Seq(Int)
      BY <1>1
    <3> QED
      BY ONLY <3>1, ConcatPlaces
  <2>2. Len(header) = 3 /\ Len(data) = n
    BY <1>1
  <2> HIDE DEF n
  <2> HIDE DEF bytes
  <2>3. /\ Len(bytes) = 3 + n /\ \A i \in 1 .. 3 : bytes[i] = header[i]
        /\ \A i \in 1 .. n : bytes[3 + i] = data[i]
    BY <2>1, <2>2
  <2>4. 1 \in 1 .. 3 /\ 2 \in 1 .. 3 /\ 3 \in 1 .. 3
    OBVIOUS
  <2> QED
    BY <1>1, <2>1, <2>3, <2>4
<1> HIDE DEF bytes
<1>3. /\ P[0] = s /\ ClockedAll(s, bytes) = P[Len(bytes)]
      /\ \A k \in 1 .. Len(bytes) : P[k] = Clocked(P[k - 1], bytes[k])
  BY <1>2, EachByte, ZenonT(30)
<1> HIDE DEF P, n
<1>4. /\ P[0] = s /\ ClockedAll(s, bytes) = P[3 + n]
      /\ \A k \in 1 .. 3 + n : P[k] = Clocked(P[k - 1], bytes[k])
  BY <1>2, <1>3
<1>5. P[1] = Clocked(s, command) /\ P[2] = Clocked(P[1], low) /\ P[3] = Clocked(P[2], high)
  <2>1. /\ 1 \in 1 .. 3 + n /\ 2 \in 1 .. 3 + n /\ 3 \in 1 .. 3 + n
        /\ 1 - 1 = 0 /\ 2 - 1 = 1 /\ 3 - 1 = 2
    BY <1>0
  <2> QED
    BY <1>2, <1>4, <2>1
<1>6. /\ P[3].chip = [takes |-> "data", missing |-> n] /\ Taken(P[3], g, L, 0)
      /\ P[3].divisor = s.divisor
  <2>1. /\ P[3].chip = [takes |-> "data", missing |-> low + Base * high + 1]
        /\ Taken(P[3], g, L, 0) /\ P[3].divisor = s.divisor
    BY <1>0, <1>5, ChunkForm
  <2> QED
    BY <1>0, <2>1
<1>7. \A k \in 1 .. n : P[3 + k] = Clocked(P[3 + (k - 1)], data[k])
  <2> TAKE k \in 1 .. n
  <2>1. 3 + k \in 1 .. 3 + n /\ (3 + k) - 1 = 3 + (k - 1)
    BY <1>0
  <2>2. bytes[3 + k] = data[k]
    BY <1>2
  <2> QED
    BY <1>4, <2>1, <2>2
<1>8. \A k \in 1 .. n : data[k] \in Int /\ g[L + k] = data[k]
  <2> TAKE k \in 1 .. n
  <2>1. k \in 1 .. Len(data)
    BY DEF n
  <2>2. data[k] \in Int
    BY <2>1, ElementOfSeq
  <2> QED
    BY <2>1, <2>2
<1>9. P[3 + n].chip = Idle /\ P[3 + n].divisor = P[3].divisor /\ Taken(P[3 + n], g, L, n)
  <2>1. n \in Nat \ {0}
    BY <1>0
  <2> QED
    BY <2>1, <1>6, <1>7, <1>8, ChunkData, Zenon
<1> QED
  BY <1>4, <1>6, <1>9 DEF bytes, header, low, high, n

(* The divisor is a word, and near what was asked for.                     *)
LEMMA ChunkIsWord == Base \in Nat \ {0} /\ Chunk \in Nat \ {0}
BY SpiAssumption DEF Chunk

LEMMA DivisorIsWord ==
  ASSUME NEW f \in Nat \ {0}
  PROVE  Divisor(f) \in Nat /\ Divisor(f) < Chunk
<1>1. Chunk \in Nat \ {0} /\ HalfClock \in Nat
  BY ChunkIsWord DEF HalfClock
<1>2. CASE f > HalfClock
  BY <1>1, <1>2 DEF Divisor
<1>3. CASE ~(f > HalfClock)
  <2> DEFINE q == HalfClock \div f
  <2>1. q \in Int /\ HalfClock < f * (q + 1)
    BY <1>1
  <2> HIDE DEF q
  <2>2. q >= 1
    <3> SUFFICES ASSUME q + 1 <= 1
                 PROVE  FALSE
      BY <2>1
    <3>1. f * (q + 1) <= f * 1
      BY <2>1
    <3> QED
      BY <1>1, <1>3, <2>1, <3>1
  <2> QED
    BY <1>1, <1>3, <2>1, <2>2 DEF Divisor, Lesser, q
<1> QED
  BY <1>2, <1>3

(* Three bytes in the form of the clock command. *)
LEMMA ClockForm ==
  ASSUME NEW s, s.chip = Idle, NEW first, NEW second,
         NEW p, p = Clocked(s, SetDivisor), NEW q, q = Clocked(p, first),
         NEW r, r = Clocked(q, second)
  PROVE  /\ r.chip = Idle /\ r.heard = s.heard /\ r.answers = s.answers
         /\ r.divisor = first + Base * second
<1>1. p.chip = [takes |-> "divisorLow"] /\ p.heard = s.heard /\ p.answers = s.answers
  <2>1. s.chip.takes = "command" /\ SetDivisor \notin ExchangeCommands
    BY DEF Idle, SetDivisor, ExchangeCommands
  <2>2. Take(s.chip, SetDivisor) = [takes |-> "divisorLow"]
    BY <2>1, TakeCommand
  <2>3. s.chip.takes # "data"
    BY <2>1
  <2> QED
    BY <2>2, <2>3, ClockedOther
<1>2. /\ q.chip = [takes |-> "divisorHigh", low |-> first]
      /\ q.heard = s.heard /\ q.answers = s.answers
  <2>1. p.chip.takes = "divisorLow" /\ p.chip.takes # "data"
    BY <1>1
  <2>2. Take(p.chip, first) = [takes |-> "divisorHigh", low |-> first]
    BY <2>1, TakeLow
  <2> QED
    BY <1>1, <2>1, <2>2, ClockedOther
<1>3. q.chip.takes = "divisorHigh" /\ q.chip.takes # "data" /\ q.chip.low = first
  BY <1>2
<1>4. r.chip = Idle
  BY <1>3, TakeHigh, ClockedOther
<1>5. r.heard = s.heard /\ r.answers = s.answers
  BY <1>2, <1>3, ClockedOther
<1>6. r.divisor = first + Base * second
  BY <1>3 DEF Clocked
<1> QED
  BY <1>4, <1>5, <1>6

(* A chip that takes commands takes the clock command, and nothing goes to *)
(* the slave.                                                              *)
LEMMA ClockIsSet ==
  ASSUME NEW s, s.chip = Idle, NEW f \in Nat \ {0}
  PROVE  LET r == ClockedAll(s, ClockCommand(f))
         IN /\ r.chip = Idle /\ r.heard = s.heard /\ r.answers = s.answers
            /\ r.divisor = Divisor(f)
<1> DEFINE low == Divisor(f) % Base
           high == (Divisor(f) \div Base) % Base
           bytes == <<SetDivisor, low, high>>
           P == ByteByByte(s, bytes)
<1>1. low \in Int /\ high \in Int /\ low + Base * high = Divisor(f)
  <2>1. Base \in Nat \ {0} /\ Divisor(f) \in Nat /\ Divisor(f) < Base * Base
    BY ChunkIsWord, DivisorIsWord DEF Chunk
  <2> QED
    BY <2>1, TwoDigits
<1> HIDE DEF low, high
<1>2. /\ bytes \in Seq(Int) /\ Len(bytes) = 3
      /\ bytes[1] = SetDivisor /\ bytes[2] = low /\ bytes[3] = high
  BY <1>1 DEF SetDivisor
<1> HIDE DEF bytes
<1>3. /\ P[0] = s /\ ClockedAll(s, bytes) = P[Len(bytes)]
      /\ \A k \in 1 .. Len(bytes) : P[k] = Clocked(P[k - 1], bytes[k])
  BY <1>2, EachByte, ZenonT(30)
<1> HIDE DEF P
<1>4. /\ P[0] = s /\ ClockedAll(s, bytes) = P[3]
      /\ P[1] = Clocked(s, SetDivisor) /\ P[2] = Clocked(P[1], low) /\ P[3] = Clocked(P[2], high)
  <2>1. /\ 1 \in 1 .. Len(bytes) /\ 2 \in 1 .. Len(bytes) /\ 3 \in 1 .. Len(bytes)
        /\ 1 - 1 = 0 /\ 2 - 1 = 1 /\ 3 - 1 = 2
    BY <1>2
  <2> QED
    BY <1>2, <1>3, <2>1
<1>5. /\ P[3].chip = Idle /\ P[3].heard = s.heard /\ P[3].answers = s.answers
      /\ P[3].divisor = low + Base * high
  BY <1>4, ClockForm
<1> QED
  BY <1>1, <1>4, <1>5 DEF bytes, ClockCommand, low, high

(***************************************************************************)
(* The invariant: while every call has had the chip's form and no read     *)
(* came too early, the chip rests between two sends, and what the slave    *)
(* heard, what it answered and what the call has returned so far are the   *)
(* bytes of the call in their places.                                      *)
(***************************************************************************)
CallOnBytes == [name : {"transfer", "transfer16", "transferBuf"}, next : Nat \ {0}, reading : Nat]
Sending == [chip |-> chip, heard |-> spi_heard, answers |-> spi_answers, divisor |-> divisor]
SoFar == spi_call.next - 1

ReturnedSoFar ==
  IF spi_call.name = "transferBuf"
  THEN /\ form = 2 /\ Len(returned) = Len(given)
       /\ \A i \in 1 .. Len(given) : returned[i] = IF i <= SoFar THEN i ELSE given[i]
  ELSE /\ form = 1 /\ Len(returned) = SoFar
       /\ \A i \in 1 .. SoFar : returned[i] = i

InPlace ==
  /\ chip = Idle
  /\ spi_call = NoSPICall => spi_answers = <<>>
  /\ spi_call # NoSPICall =>
       /\ SoFar + spi_call.reading <= Len(given)
       /\ Taken(Sending, given, SoFar, spi_call.reading)
       /\ returned \in Seq(Int) /\ ReturnedSoFar

SPIInv ==
  /\ form \in LengthBytes
  /\ spi_call = NoSPICall \/ spi_call \in CallOnBytes
  /\ ~spi_is_open => spi_call = NoSPICall
  /\ given \in Seq(Int)
  /\ ~misread /\ ~spi_late => InPlace

LEMMA FirstBytes ==
  ASSUME NEW g
  PROVE  \A d : Taken([chip |-> Idle, heard |-> <<>>, answers |-> <<>>, divisor |-> d], g, 0, 0)
BY DEF Taken

LEMMA InitSPIInv == SPIInit => SPIInv
BY DEF SPIInit, SPIInv, InPlace

LEMMA OpenKeepsSPI == SPIInv /\ (SPIOpen \/ SPIEnd) => SPIInv'
<1> SUFFICES ASSUME SPIInv, SPIOpen \/ SPIEnd
             PROVE  SPIInv'
  OBVIOUS
<1>1. CASE SPIOpen
  <2>1. spi_call = NoSPICall /\ UNCHANGED <<form, spi_call>> /\ given' = <<>>
        /\ chip' = Idle /\ spi_answers' = <<>> /\ spi_is_open'
    BY <1>1 DEF SPIOpen, SPIInv
  <2>2. given' \in Seq(Int)
    BY <2>1
  <2> QED
    BY <2>1, <2>2 DEF SPIInv, InPlace
<1>2. CASE SPIEnd
  BY <1>2 DEF SPIEnd, SPIInv, InPlace, chipVars
<1> QED
  BY <1>1, <1>2

LEMMA TransactionKeepsSPI ==
  ASSUME SPIInv, NEW s, s.clock \in Frequency, beginTransaction(s)
  PROVE  SPIInv'
<1> DEFINE r == ClockedAll(Sending, ClockCommand(s.clock))
<1>1. /\ spi_call = NoSPICall /\ chip' = r.chip /\ spi_answers' = r.answers
      /\ UNCHANGED <<form, spi_is_open, spi_call, given, misread, spi_late>>
  BY DEF beginTransaction, sendData, Sending
<1>2. ASSUME ~misread, ~spi_late
      PROVE  r.chip = Idle /\ r.answers = <<>>
  <2>1. Sending.chip = Idle /\ Sending.answers = <<>>
    BY <1>1, <1>2 DEF SPIInv, InPlace, Sending
  <2>2. s.clock \in Nat \ {0}
    BY SpiAssumption
  <2> QED
    BY <2>1, <2>2, ClockIsSet
<1> HIDE DEF r
<1> QED
  BY <1>1, <1>2 DEF SPIInv, InPlace

LEMMA EnterKeepsSPI ==
  ASSUME SPIInv, NEW name, NEW bytes \in Seq(Int), NEW uses, Enter(name, bytes, uses),
         \/ name \in {"transfer", "transfer16"} /\ uses = 1 /\ returned' = <<>>
         \/ name = "transferBuf" /\ uses = 2 /\ returned' = bytes
  PROVE  SPIInv'
<1>1. /\ spi_call = NoSPICall /\ spi_is_open
      /\ spi_call' = [name |-> name, next |-> 1, reading |-> 0]
      /\ given' = bytes /\ spi_heard' = <<>>
      /\ misread' = (misread \/ uses # form)
      /\ UNCHANGED <<form, spi_is_open, chip, divisor, spi_answers, spi_late>>
  BY DEF Enter
<1>2. spi_call' \in CallOnBytes /\ spi_call' # NoSPICall /\ spi_call'.next = 1
      /\ spi_call'.reading = 0 /\ spi_call'.name = name
  BY <1>1 DEF CallOnBytes, NoSPICall
<1>3. ASSUME ~misread', ~spi_late'
      PROVE  InPlace'
  <2>1. ~misread /\ ~spi_late /\ uses = form
    BY <1>1, <1>3
  <2>2. chip = Idle /\ spi_answers = <<>>
    BY <1>1, <2>1 DEF SPIInv, InPlace
  <2>3. Taken([chip |-> Idle, heard |-> <<>>, answers |-> <<>>, divisor |-> divisor], bytes, 0, 0)
    BY FirstBytes
  <2>4. Sending' = [chip |-> Idle, heard |-> <<>>, answers |-> <<>>, divisor |-> divisor]
    BY <1>1, <2>2 DEF Sending
  <2>5. SoFar' = 0 /\ 0 + 0 <= Len(bytes) /\ Len(bytes) \in Nat
    BY <1>2 DEF SoFar
  <2>6. returned' \in Seq(Int)
    <3>1. <<>> \in Seq(Int) /\ (returned' = <<>> \/ returned' = bytes)
      OBVIOUS
    <3> QED
      BY <3>1, Zenon
  <2>7. ReturnedSoFar'
    <3>1. CASE name = "transferBuf"
      <4>1. form' = 2 /\ returned' = given'
        BY <1>1, <2>1, <3>1
      <4>2. \A i \in 1 .. Len(given') : ~(i <= SoFar')
        BY <1>1, <2>5
      <4> QED
        BY <1>2, <3>1, <4>1, <4>2 DEF ReturnedSoFar
    <3>2. CASE name # "transferBuf"
      <4>1. form' = 1 /\ returned' = <<>>
        BY <1>1, <2>1, <3>2
      <4>2. Len(returned') = 0 /\ \A i \in 1 .. SoFar' : FALSE
        BY <2>5, <4>1
      <4> QED
        BY <1>2, <2>5, <3>2, <4>1, <4>2 DEF ReturnedSoFar
    <3> QED
      BY <3>1, <3>2
  <2> QED
    BY <1>1, <1>2, <2>2, <2>3, <2>4, <2>5, <2>6, <2>7 DEF InPlace
<1> QED
  BY <1>1, <1>2, <1>3 DEF SPIInv

LEMMA CommandIsOne == getMPSSECommand \in ExchangeCommands
BY DEF getMPSSECommand, ExchangeCommands

(* The next byte of transfer() or transfer16() is sent. *)
LEMMA SendByteKeepsSPI == SPIInv /\ SendByte => SPIInv'
<1> SUFFICES ASSUME SPIInv, SendByte
             PROVE  SPIInv'
  OBVIOUS
<1> DEFINE n == spi_call.next
           r == ClockedAll(Sending, <<getMPSSECommand, 0, given[n]>>)
<1>1. /\ spi_call.name \in {"transfer", "transfer16"} /\ spi_call.reading = 0 /\ n <= Len(given)
      /\ chip' = r.chip /\ spi_heard' = r.heard /\ spi_answers' = r.answers
      /\ spi_call' = [spi_call EXCEPT !.reading = 1]
      /\ UNCHANGED <<form, spi_is_open, given, returned, misread, spi_late>>
  BY DEF SendByte, sendData, Sending
<1>2. spi_call \in CallOnBytes /\ spi_call # NoSPICall /\ given \in Seq(Int)
  BY <1>1 DEF SPIInv, NoSPICall
<1>3. n \in Nat \ {0} /\ n \in 1 .. Len(given) /\ SoFar = n - 1 /\ SoFar \in Nat /\ SoFar + 1 = n
  BY <1>1, <1>2 DEF CallOnBytes, SoFar
<1>4. /\ spi_call' \in CallOnBytes /\ spi_call' # NoSPICall /\ spi_call'.name = spi_call.name
      /\ spi_call'.next = n /\ spi_call'.reading = 1
  BY <1>1, <1>2 DEF CallOnBytes, NoSPICall
<1>5. SoFar' = SoFar
  BY <1>4 DEF SoFar
<1> HIDE DEF r, n
<1>6. ASSUME ~misread', ~spi_late'
      PROVE  InPlace'
  <2>1. InPlace
    BY <1>1, <1>6 DEF SPIInv
  <2>2. /\ Sending.chip = Idle /\ Taken(Sending, given, SoFar, 0) /\ form = 1
        /\ Len(returned) = SoFar /\ \A i \in 1 .. SoFar : returned[i] = i
        /\ returned \in Seq(Int)
    BY <1>1, <1>2, <2>1 DEF InPlace, ReturnedSoFar, Sending
  <2>3. given[n] \in Int /\ given[SoFar + 1] = given[n]
    BY <1>2, <1>3, ElementOfSeq
  <2>4. r.chip = Idle /\ Taken(r, given, SoFar, 1)
    BY <1>3, <2>2, <2>3, CommandIsOne, ByteExchanged DEF r
  <2>5. Taken(Sending', given, SoFar, 1)
    <3>1. Sending'.heard = r.heard /\ Sending'.answers = r.answers
      BY <1>1 DEF Sending
    <3> QED
      BY <2>4, <3>1 DEF Taken
  <2>6. ReturnedSoFar'
    BY <1>1, <1>4, <1>5, <2>2 DEF ReturnedSoFar
  <2> QED
    BY <1>1, <1>3, <1>4, <1>5, <2>2, <2>4, <2>5, <2>6 DEF InPlace
<1> QED
  BY <1>1, <1>2, <1>4, <1>6 DEF SPIInv

LEMMA CallMoves ==
  ASSUME NEW c \in CallOnBytes, NEW m \in Nat \ {0}
  PROVE  LET d == [c EXCEPT !.reading = 0, !.next = m]
         IN /\ d \in CallOnBytes /\ d # NoSPICall
            /\ d.name = c.name /\ d.next = m /\ d.reading = 0
<1> DEFINE e == [c EXCEPT !.reading = 0]
           d == [c EXCEPT !.reading = 0, !.next = m]
<1>1. e \in CallOnBytes /\ e.name = c.name /\ e.reading = 0
  BY DEF CallOnBytes
<1>2. d = [e EXCEPT !.next = m]
  OBVIOUS
<1> HIDE DEF e, d
<1>3. d \in CallOnBytes /\ d.name = e.name /\ d.next = m /\ d.reading = e.reading
  BY <1>1, <1>2 DEF CallOnBytes
<1>4. d # NoSPICall
  BY <1>3 DEF CallOnBytes, NoSPICall
<1> QED
  BY <1>1, <1>3, <1>4 DEF d

(* All n answers are read if they are there and the read is not early.     *)
LEMMA AllRead ==
  ASSUME NEW n \in Nat, NEW a \in Seq(Int), Len(a) = n, spi_answers = a,
         NEW got \in FirstAnswers(n), Receive(n, got), ~spi_late'
  PROVE  /\ ~spi_late /\ Len(got) = n /\ spi_answers' = <<>>
         /\ got \in Seq(Int) /\ \A i \in 1 .. n : got[i] = a[i]
<1>1. Lesser(n, n) = n
  BY DEF Lesser
<1>2. PICK k \in 0 .. n : got = SubSeq(a, 1, k)
  BY <1>1 DEF FirstAnswers
<1>3. got \in Seq(Int) /\ Len(got) = k /\ \A i \in 1 .. k : got[i] = a[i]
  <2>1. \A i \in 1 .. k : a[i] \in Int
    <3> TAKE i \in 1 .. k
    <3>1. i \in 1 .. Len(a)
      BY <1>2
    <3> QED
      BY <3>1, ElementOfSeq
  <2>2. got = [i \in 1 .. k |-> a[i]]
    BY <1>2
  <2> QED
    BY <1>2, <2>1, <2>2
<1>4. ~spi_late /\ ~(Len(got) < n)
  BY <1>1 DEF Receive
<1>5. k = n
  BY <1>2, <1>3, <1>4
<1>6. spi_answers' = <<>>
  <2>1. spi_answers' = SubSeq(a, n + 1, n)
    BY <1>3, <1>5 DEF Receive
  <2> QED
    BY <2>1
<1> QED
  BY <1>3, <1>4, <1>5, <1>6

(* What the slave has heard stays heard when its answers are read.         *)
LEMMA ReadKeepsTaken ==
  ASSUME NEW s, NEW g, NEW L \in Nat, NEW n \in Nat, Taken(s, g, L, n),
         NEW r, r.heard = s.heard, r.answers = <<>>
  PROVE  Taken(r, g, L + n, 0)
<1>1. (L + n) + 0 = L + n /\ Len(<<>>) = 0 /\ <<>> \in Seq(Int)
  OBVIOUS
<1> QED
  BY <1>1 DEF Taken

LEMMA ReceiveByteKeepsSPI == SPIInv /\ ReceiveSPIByte => SPIInv'
<1> SUFFICES ASSUME SPIInv, ReceiveSPIByte
             PROVE  SPIInv'
  OBVIOUS
<1> DEFINE n == spi_call.next
<1>1. PICK got \in FirstAnswers(1) :
        Receive(1, got) /\ returned' = Append(returned, IF got = <<>> THEN 0 ELSE got[1])
  BY DEF ReceiveSPIByte
<1>2. /\ spi_call.name \in {"transfer", "transfer16"} /\ spi_call.reading = 1
      /\ spi_call' = [spi_call EXCEPT !.reading = 0, !.next = @ + 1]
      /\ UNCHANGED <<form, spi_is_open, chip, spi_heard, given, misread>>
  BY DEF ReceiveSPIByte
<1>3. spi_call \in CallOnBytes /\ spi_call # NoSPICall
  BY <1>2 DEF SPIInv, NoSPICall
<1>4. n \in Nat \ {0} /\ SoFar = n - 1 /\ SoFar \in Nat /\ SoFar + 1 = n /\ (n + 1) - 1 = n
  BY <1>3 DEF CallOnBytes, SoFar
<1>5. /\ spi_call' \in CallOnBytes /\ spi_call' # NoSPICall /\ spi_call'.name = spi_call.name
      /\ spi_call'.next = n + 1 /\ spi_call'.reading = 0
  <2>1. spi_call' = [spi_call EXCEPT !.reading = 0, !.next = n + 1] /\ n + 1 \in Nat \ {0}
    BY <1>2, <1>4
  <2> QED
    BY <1>3, <2>1, CallMoves
<1>6. SoFar' = SoFar + 1
  BY <1>4, <1>5 DEF SoFar
<1> HIDE DEF n
<1>7. ASSUME ~misread', ~spi_late'
      PROVE  InPlace'
  <2>1. ~spi_late
    BY <1>1, <1>7 DEF Receive
  <2>2. InPlace
    BY <1>2, <1>7, <2>1 DEF SPIInv
  <2>3. /\ chip = Idle /\ Taken(Sending, given, SoFar, 1) /\ form = 1 /\ SoFar + 1 <= Len(given)
        /\ Len(returned) = SoFar /\ returned \in Seq(Int) /\ \A i \in 1 .. SoFar : returned[i] = i
    BY <1>2, <1>3, <2>2 DEF InPlace, ReturnedSoFar
  <2>4. spi_answers \in Seq(Int) /\ Len(spi_answers) = 1 /\ spi_answers[1] = SoFar + 1
    <3>1. 1 \in 1 .. 1 /\ Sending.answers = spi_answers
      BY DEF Sending
    <3> QED
      BY <2>3, <3>1 DEF Taken
  <2>5. Len(got) = 1 /\ got[1] = SoFar + 1 /\ spi_answers' = <<>>
    <3>1. 1 \in Nat /\ 1 \in 1 .. 1
      OBVIOUS
    <3> QED
      BY <1>1, <1>7, <2>4, <3>1, AllRead
  <2>6. returned' = Append(returned, SoFar + 1)
    <3>1. got # <<>>
      BY <2>5
    <3> QED
      BY <1>1, <2>5, <3>1
  <2>7. /\ returned' \in Seq(Int) /\ Len(returned') = SoFar + 1
        /\ \A i \in 1 .. SoFar + 1 : returned'[i] = i
    <3> DEFINE a == returned
               b == returned'
               m == SoFar
    <3>1. a \in Seq(Int) /\ Len(a) = m /\ b = Append(a, m + 1) /\ m \in Nat
          /\ \A i \in 1 .. m : a[i] = i
      BY <1>4, <2>3, <2>6
    <3> HIDE DEF a, b, m
    <3>2. b \in Seq(Int) /\ Len(b) = m + 1
      BY <3>1
    <3>3. ASSUME NEW i \in 1 .. m + 1
          PROVE  b[i] = i
      <4>1. CASE i = m + 1
        BY <3>1, <4>1
      <4>2. CASE i # m + 1
        <5>1. i \in 1 .. m
          BY <3>1, <4>2
        <5> QED
          BY <3>1, <5>1
      <4> QED
        BY <4>1, <4>2
    <3> QED
      BY <3>2, <3>3 DEF b, m
  <2>8. Taken(Sending', given, SoFar + 1, 0)
    <3>1. Sending'.heard = Sending.heard /\ Sending'.answers = <<>> /\ 1 \in Nat
      BY <1>2, <2>5 DEF Sending
    <3> QED
      BY <1>4, <2>3, <3>1, ReadKeepsTaken
  <2>9. ReturnedSoFar'
    BY <1>2, <1>5, <1>6, <2>3, <2>7 DEF ReturnedSoFar
  <2>10. SoFar + 1 + 0 <= Len(given)
    BY <1>4, <2>3
  <2> QED
    BY <1>2, <1>5, <1>6, <2>3, <2>7, <2>8, <2>9, <2>10 DEF InPlace
<1> QED
  BY <1>2, <1>3, <1>5, <1>7 DEF SPIInv

(* The next chunk of transfer(buf) is sent from the part of the buffer no  *)
(* answer has overwritten.                                                 *)
LEMMA SendChunkKeepsSPI == SPIInv /\ SendChunk => SPIInv'
<1> SUFFICES ASSUME SPIInv, SendChunk
             PROVE  SPIInv'
  OBVIOUS
<1> DEFINE first == spi_call.next
           m == Len(given)
           n == ChunkSize
           data == SubSeq(returned, first, first + n - 1)
           r == ClockedAll(Sending, ChunkHeader \o data)
<1>1. /\ spi_call.name = "transferBuf" /\ spi_call.reading = 0 /\ first <= m
      /\ chip' = r.chip /\ spi_heard' = r.heard /\ spi_answers' = r.answers
      /\ spi_call' = [spi_call EXCEPT !.reading = n]
      /\ UNCHANGED <<form, spi_is_open, given, returned, misread, spi_late>>
  BY DEF SendChunk, sendData, Sending
<1>2. spi_call \in CallOnBytes /\ spi_call # NoSPICall /\ given \in Seq(Int)
  BY <1>1 DEF SPIInv, NoSPICall
<1>3. first \in Nat \ {0} /\ m \in Nat
  BY <1>2 DEF CallOnBytes
<1>4. n = Lesser(m - first + 1, Chunk) /\ Chunk \in Nat \ {0}
  <2>1. Base * Base \in Nat \ {0}
    BY SpiAssumption
  <2> QED
    BY <2>1 DEF ChunkSize, Chunk
<1>5. SoFar = first - 1
  BY DEF SoFar
<1> HIDE DEF first, m, n, r
<1>6. /\ n \in Nat \ {0} /\ n \in 1 .. Chunk /\ SoFar \in Nat /\ SoFar + n <= m
      /\ first \in 1 .. m /\ first + n - 1 \in 1 .. m /\ first + n - 1 = SoFar + n
      /\ (first + n - 1) - first + 1 = n
  BY <1>1, <1>3, <1>4, <1>5 DEF Lesser
<1>7. /\ spi_call' \in CallOnBytes /\ spi_call' # NoSPICall /\ spi_call'.name = spi_call.name
      /\ spi_call'.next = first /\ spi_call'.reading = n
  BY <1>1, <1>2, <1>6 DEF CallOnBytes, NoSPICall, first
<1>8. SoFar' = SoFar
  BY <1>5, <1>7 DEF SoFar
<1>9. ASSUME ~misread', ~spi_late'
      PROVE  InPlace'
  <2>1. InPlace
    BY <1>1, <1>9 DEF SPIInv
  <2>2. /\ Sending.chip = Idle /\ Taken(Sending, given, SoFar, 0) /\ form = 2
        /\ Len(returned) = m /\ returned \in Seq(Int)
        /\ \A i \in 1 .. m : returned[i] = IF i <= SoFar THEN i ELSE given[i]
    BY <1>1, <1>2, <2>1 DEF InPlace, ReturnedSoFar, Sending, m
  <2>3. /\ data \in Seq(Int) /\ Len(data) = n
        /\ \A k \in 1 .. n : data[k] = given[SoFar + k]
    <3> DEFINE buf == returned
               last == first + n - 1
    <3>1. buf \in Seq(Int) /\ Len(buf) = m
      BY <2>2
    <3>2. first \in 1 .. m /\ last \in 1 .. m /\ last - first + 1 = n
      BY <1>6
    <3>3. \A k \in 1 .. n : first + k - 1 \in 1 .. m /\ first + k - 1 = SoFar + k
                            /\ ~(SoFar + k <= SoFar)
      BY <1>3, <1>5, <1>6
    <3>4. data = SubSeq(buf, first, last)
      OBVIOUS
    <3> HIDE DEF data, buf, last
    <3>5. data = [k \in 1 .. n |-> buf[first + k - 1]]
      BY <1>3, <3>1, <3>2, <3>4
    <3>6. \A k \in 1 .. n : buf[first + k - 1] \in Int
      <4> TAKE k \in 1 .. n
      <4>1. first + k - 1 \in 1 .. Len(buf)
        BY <3>1, <3>3
      <4> QED
        BY <3>1, <4>1, ElementOfSeq
    <3>7. data \in Seq(Int) /\ Len(data) = n
      BY <1>6, <3>5, <3>6
    <3>8. \A k \in 1 .. n : data[k] = given[SoFar + k]
      <4> TAKE k \in 1 .. n
      <4>1. data[k] = buf[SoFar + k] /\ SoFar + k \in 1 .. m
        BY <3>3, <3>5
      <4> QED
        BY <2>2, <3>3, <4>1 DEF buf
    <3> QED
      BY <3>7, <3>8
  <2>4. ChunkHeader = <<getMPSSECommand, (n - 1) % Base, ((n - 1) \div Base) % Base>>
    BY DEF ChunkHeader, n
  <2> HIDE DEF data
  <2>5. r.chip = Idle /\ Taken(r, given, SoFar, n)
    <3> DEFINE l == Len(data)
               full == ClockedAll(Sending, <<getMPSSECommand, (l - 1) % Base,
                                             ((l - 1) \div Base) % Base>> \o data)
    <3>1. l = n
      BY <2>3
    <3>2. Len(data) \in 1 .. Chunk /\ \A k \in 1 .. Len(data) : given[SoFar + k] = data[k]
      BY <1>6, <2>3
    <3>3. /\ form = 2 /\ Sending.chip = Idle /\ SoFar \in Nat /\ Taken(Sending, given, SoFar, 0)
          /\ data \in Seq(Int)
      BY <1>6, <2>2, <2>3
    <3>4. full.chip = Idle /\ Taken(full, given, SoFar, l)
      BY ONLY <3>2, <3>3, CommandIsOne, ChunkExchanged
    <3>5. full = r
      BY <2>4, <3>1 DEF r, data
    <3> QED
      BY <3>1, <3>4, <3>5
  <2>6. Taken(Sending', given, SoFar, n)
    <3>1. Sending'.heard = r.heard /\ Sending'.answers = r.answers
      BY <1>1 DEF Sending
    <3> QED
      BY <2>5, <3>1 DEF Taken
  <2>7. ReturnedSoFar'
    BY <1>1, <1>7, <1>8, <2>2 DEF ReturnedSoFar, m
  <2> QED
    BY <1>1, <1>6, <1>7, <1>8, <2>2, <2>5, <2>6, <2>7 DEF InPlace, m
<1> QED
  BY <1>1, <1>2, <1>7, <1>9 DEF SPIInv

LEMMA ReceiveChunkKeepsSPI == SPIInv /\ ReceiveChunk => SPIInv'
<1> SUFFICES ASSUME SPIInv, ReceiveChunk
             PROVE  SPIInv'
  OBVIOUS
<1> DEFINE first == spi_call.next
           n == spi_call.reading
           m == Len(given)
<1>1. PICK got \in FirstAnswers(n) :
        /\ Receive(n, got)
        /\ returned' = [i \in DOMAIN returned |->
                          IF i - first + 1 \in 1 .. Len(got) THEN got[i - first + 1]
                                                             ELSE returned[i]]
        /\ spi_call' = IF Len(got) < n
                       THEN [spi_call EXCEPT !.reading = 0, !.next = Len(given) + 1]
                       ELSE [spi_call EXCEPT !.reading = 0, !.next = @ + n]
  BY DEF ReceiveChunk
<1>2. /\ spi_call.name = "transferBuf" /\ n > 0
      /\ UNCHANGED <<form, spi_is_open, chip, spi_heard, given, misread>>
  BY DEF ReceiveChunk
<1>3. spi_call \in CallOnBytes /\ spi_call # NoSPICall /\ given \in Seq(Int)
  BY <1>2 DEF SPIInv, NoSPICall
<1>4. /\ first \in Nat \ {0} /\ n \in Nat /\ m \in Nat
      /\ SoFar = first - 1 /\ SoFar \in Nat /\ first + n \in Nat \ {0} /\ m + 1 \in Nat \ {0}
  BY <1>3 DEF CallOnBytes, SoFar
<1>5. /\ spi_call' \in CallOnBytes /\ spi_call' # NoSPICall /\ spi_call'.name = spi_call.name
      /\ spi_call'.reading = 0
      /\ ~(Len(got) < n) => spi_call'.next = first + n
  <2>1. CASE Len(got) < n
    <3>1. spi_call' = [spi_call EXCEPT !.reading = 0, !.next = m + 1]
      BY <1>1, <2>1
    <3> QED
      BY <1>3, <1>4, <2>1, <3>1, CallMoves
  <2>2. CASE ~(Len(got) < n)
    <3>1. spi_call' = [spi_call EXCEPT !.reading = 0, !.next = first + n]
      BY <1>1, <2>2
    <3> QED
      BY <1>3, <1>4, <3>1, CallMoves
  <2> QED
    BY <2>1, <2>2
<1> HIDE DEF first, n, m
<1>6. ASSUME ~misread', ~spi_late'
      PROVE  InPlace'
  <2>1. ~spi_late
    BY <1>1, <1>6 DEF Receive
  <2>2. InPlace
    BY <1>2, <1>6, <2>1 DEF SPIInv
  <2>3. /\ chip = Idle /\ Taken(Sending, given, SoFar, n) /\ form = 2 /\ SoFar + n <= m
        /\ Len(returned) = m /\ returned \in Seq(Int)
        /\ \A i \in 1 .. m : returned[i] = IF i <= SoFar THEN i ELSE given[i]
    BY <1>2, <1>3, <2>2 DEF InPlace, ReturnedSoFar, n, m
  <2>4. /\ spi_answers \in Seq(Int) /\ Len(spi_answers) = n
        /\ \A i \in 1 .. n : spi_answers[i] = SoFar + i
    <3>1. Sending.answers = spi_answers
      BY DEF Sending
    <3> QED
      BY <2>3, <3>1 DEF Taken
  <2>5. /\ Len(got) = n /\ spi_answers' = <<>> /\ \A i \in 1 .. n : got[i] = SoFar + i
    BY <1>1, <1>4, <1>6, <2>4, AllRead
  <2>6. spi_call'.next = first + n /\ SoFar' = SoFar + n
    <3>1. ~(Len(got) < n)
      BY <1>4, <2>5
    <3>2. spi_call'.next = first + n
      BY <1>5, <3>1
    <3> QED
      BY <1>4, <3>2 DEF SoFar
  <2>7. /\ returned' \in Seq(Int) /\ Len(returned') = m
        /\ \A i \in 1 .. m : returned'[i] = IF i <= SoFar + n THEN i ELSE given[i]
    <3> DEFINE new(i) == IF i - first + 1 \in 1 .. n THEN got[i - first + 1] ELSE returned[i]
    <3>1. DOMAIN returned = 1 .. m
      BY <2>3
    <3>2. returned' = [i \in 1 .. m |-> new(i)]
      BY <1>1, <2>5, <3>1
    <3>3. ASSUME NEW i \in 1 .. m
          PROVE  new(i) \in Int /\ new(i) = IF i <= SoFar + n THEN i ELSE given[i]
      <4>1. CASE i - first + 1 \in 1 .. n
        <5>1. got[i - first + 1] = SoFar + (i - first + 1)
          BY <2>5, <4>1
        <5>2. SoFar + (i - first + 1) = i /\ i <= SoFar + n
          BY <1>4, <4>1
        <5> QED
          BY <4>1, <5>1, <5>2
      <4>2. CASE i - first + 1 \notin 1 .. n
        <5>1. i <= SoFar \/ ~(i <= SoFar + n)
          BY <1>4, <4>2
        <5>2. SoFar <= SoFar + n
          BY <1>4
        <5>3. returned[i] \in Int
          <6>1. i \in 1 .. Len(returned)
            BY <2>3
          <6> QED
            BY <2>3, <6>1, ElementOfSeq
        <5>4. returned[i] = IF i <= SoFar + n THEN i ELSE given[i]
          <6>1. CASE i <= SoFar
            <7>1. i <= SoFar + n
              BY <1>4, <6>1
            <7> QED
              BY <2>3, <6>1, <7>1
          <6>2. CASE ~(i <= SoFar)
            BY <2>3, <5>1, <6>2
          <6> QED
            BY <6>1, <6>2
        <5> QED
          BY <4>2, <5>3, <5>4
      <4> QED
        BY <4>1, <4>2
    <3> HIDE DEF new
    <3>4. returned' \in Seq(Int) /\ Len(returned') = m
      BY <1>4, <3>2, <3>3
    <3> QED
      BY <3>2, <3>3, <3>4
  <2>8. Taken(Sending', given, SoFar + n, 0)
    <3>1. Sending'.heard = Sending.heard /\ Sending'.answers = <<>>
      BY <1>2, <2>5 DEF Sending
    <3> QED
      BY <1>4, <2>3, <3>1, ReadKeepsTaken
  <2>9. ReturnedSoFar'
    BY <1>2, <1>5, <2>3, <2>6, <2>7 DEF ReturnedSoFar, m
  <2>10. SoFar + n + 0 <= m
    BY <1>4, <2>3
  <2> QED
    BY <1>2, <1>5, <2>3, <2>6, <2>7, <2>8, <2>9, <2>10 DEF InPlace, m
<1> QED
  BY <1>2, <1>3, <1>5, <1>6 DEF SPIInv

LEMMA ReturnKeepsSPI == SPIInv /\ SPIReturn => SPIInv'
<1> SUFFICES ASSUME SPIInv, SPIReturn
             PROVE  SPIInv'
  OBVIOUS
<1>1. /\ spi_call # NoSPICall /\ spi_call.reading = 0 /\ spi_call' = NoSPICall /\ given' = <<>>
      /\ UNCHANGED <<form, spi_is_open, chip, spi_answers, misread, spi_late>>
  BY DEF SPIReturn
<1>2. ASSUME ~misread, ~spi_late
      PROVE  chip = Idle /\ spi_answers = <<>>
  <2>1. chip = Idle /\ Taken(Sending, given, SoFar, 0)
    BY <1>1, <1>2 DEF SPIInv, InPlace
  <2>2. spi_answers \in Seq(Int) /\ Len(spi_answers) = 0
    BY <2>1 DEF Taken, Sending
  <2>3. spi_answers = <<>>
    BY <2>2
  <2> QED
    BY <2>1, <2>3
<1>3. given' \in Seq(Int)
  BY <1>1
<1> QED
  BY <1>1, <1>2, <1>3 DEF SPIInv, InPlace

(* What the calls are given are sequences of numbers.                      *)
LEMMA EntersWithBytes ==
  /\ \A data \in Data : <<data>> \in Seq(Int)
  /\ \A high, low \in Data : <<high, low>> \in Seq(Int) /\ <<low, high>> \in Seq(Int)
  /\ \A buf \in BoundedSeq(Data, MaxCount) : buf \in Seq(Int)
<1>1. Data \subseteq Int
  BY SpiAssumption DEF Data
<1>2. ASSUME NEW buf \in BoundedSeq(Data, MaxCount)
      PROVE  buf \in Seq(Int)
  <2>1. PICK m \in 0 .. MaxCount : buf \in [1 .. m -> Data]
    BY DEF BoundedSeq, SeqOf
  <2>2. m \in Nat
    BY SpiAssumption
  <2>3. [1 .. m -> Data] \subseteq [1 .. m -> Int]
    BY <1>1
  <2>4. buf \in [1 .. m -> Int]
    BY <2>1, <2>3, Zenon
  <2> QED
    BY <2>2, <2>4
<1> QED
  BY <1>1, <1>2

LEMMA StepSPIInv == SPIInv /\ [SPINext]_spiVars => SPIInv'
<1> SUFFICES ASSUME SPIInv, [SPINext]_spiVars
             PROVE  SPIInv'
  OBVIOUS
<1>1. ASSUME NEW f \in Frequency, NEW mode, NEW order,
             beginTransaction([clock |-> f, mode |-> mode, order |-> order])
      PROVE  SPIInv'
  BY <1>1, TransactionKeepsSPI
<1>2. ASSUME NEW data \in Data, transfer(data)
      PROVE  SPIInv'
  BY <1>2, EntersWithBytes, EnterKeepsSPI DEF transfer
<1>3. ASSUME NEW high \in Data, NEW low \in Data, transfer16(high, low)
      PROVE  SPIInv'
  <2> DEFINE bytes == IF settings.order = "MSBFIRST" THEN <<high, low>> ELSE <<low, high>>
  <2>1. bytes \in Seq(Int)
    BY EntersWithBytes, Zenon
  <2>2. Enter("transfer16", bytes, 1) /\ returned' = <<>>
    BY <1>3 DEF transfer16
  <2> HIDE DEF bytes
  <2> QED
    BY <2>1, <2>2, EnterKeepsSPI
<1>4. ASSUME NEW buf \in BoundedSeq(Data, MaxCount), transferBuf(buf)
      PROVE  SPIInv'
  <2>1. buf \in Seq(Int)
    BY EntersWithBytes
  <2> QED
    BY <1>4, <2>1, EnterKeepsSPI DEF transferBuf
<1>5. CASE UNCHANGED spiVars
  <2>1. UNCHANGED <<form, spi_is_open, spi_call, chip, divisor, spi_heard, spi_answers, given,
                    returned, misread, spi_late>>
    BY <1>5 DEF spiVars, chipVars
  <2>2. Sending' = Sending /\ SoFar' = SoFar
    BY <2>1 DEF Sending, SoFar
  <2>3. ReturnedSoFar' = ReturnedSoFar
    BY <2>1, <2>2 DEF ReturnedSoFar
  <2> QED
    BY <2>1, <2>2, <2>3 DEF SPIInv, InPlace
<1> QED
  BY <1>1, <1>2, <1>3, <1>4, <1>5, OpenKeepsSPI, SendByteKeepsSPI, ReceiveByteKeepsSPI,
     SendChunkKeepsSPI, ReceiveChunkKeepsSPI, ReturnKeepsSPI DEF SPINext

LEMMA SPIInvariant == SPISpec => []SPIInv
BY InitSPIInv, StepSPIInv, PTL DEF SPISpec

(* Each byte a call is given reaches the slave once and in order, and what *)
(* the call returns are the answers, each at its place and across chunks   *)
(* of 65536 bytes (HardwareSPI_FTDI.cpp transfer() and transfer16()).      *)
THEOREM AnswersComeInPlace == SPISpec => []AnswersInPlace
<1>1. ASSUME SPIInv
      PROVE  AnswersInPlace
  <2> SUFFICES ASSUME SPIDone, ~spi_late, ~misread
               PROVE  Exchanged
    BY DEF AnswersInPlace
  <2> DEFINE n == Len(given)
  <2>1. InPlace /\ spi_call # NoSPICall /\ spi_call.reading = 0 /\ spi_call.next > n
    BY <1>1 DEF SPIInv, SPIDone
  <2>2. spi_call \in CallOnBytes /\ given \in Seq(Int)
    BY <1>1, <2>1 DEF SPIInv
  <2>3. SoFar = n /\ n \in Nat
    <3>1. spi_call.next \in Nat /\ SoFar = spi_call.next - 1 /\ SoFar + 0 <= n /\ n \in Nat
      BY <2>1, <2>2 DEF InPlace, CallOnBytes, SoFar
    <3> QED
      BY <2>1, <3>1
  <2>4. /\ spi_heard \in Seq(Int) /\ Len(spi_heard) = n
        /\ \A i \in 1 .. n : spi_heard[i] = given[i]
    <3>1. Taken(Sending, given, n, 0) /\ Sending.heard = spi_heard /\ n + 0 = n
      BY <2>1, <2>3 DEF InPlace, Sending
    <3> QED
      BY <3>1 DEF Taken
  <2>5. /\ returned \in Seq(Int) /\ Len(returned) = n
        /\ \A i \in 1 .. n : returned[i] = i
    BY <2>1, <2>3 DEF InPlace, ReturnedSoFar
  <2>6. spi_heard = given
    BY <2>2, <2>4, SMTT(30)
  <2>7. returned = [i \in 1 .. n |-> i]
    BY <2>3, <2>5
  <2> QED
    BY <2>6, <2>7 DEF Exchanged
<1> QED
  BY <1>1, SPIInvariant, PTL

(***************************************************************************)
(* SPI: the clock.  Reads that return too early leave the chip in step.    *)
(***************************************************************************)

(* What the chip takes and its divisor depend on the bytes alone, and what *)
(* is heard and answered are numbers.                                      *)
LEMMA ChipAlone ==
  ASSUME NEW bytes \in Seq(Int), NEW s, NEW t, s.chip = t.chip, s.divisor = t.divisor
  PROVE  /\ ClockedAll(s, bytes).chip = ClockedAll(t, bytes).chip
         /\ ClockedAll(s, bytes).divisor = ClockedAll(t, bytes).divisor
<1> DEFINE m == Len(bytes)
           P == ByteByByte(s, bytes)
           Q == ByteByByte(t, bytes)
           T == {k \in 0 .. m : P[k].chip = Q[k].chip /\ P[k].divisor = Q[k].divisor}
<1>1. /\ ClockedAll(s, bytes) = P[Len(bytes)] /\ P[0] = s
      /\ \A k \in 1 .. Len(bytes) : P[k] = Clocked(P[k - 1], bytes[k])
  BY EachByte, ZenonT(30)
<1>2. /\ ClockedAll(t, bytes) = Q[Len(bytes)] /\ Q[0] = t
      /\ \A k \in 1 .. Len(bytes) : Q[k] = Clocked(Q[k - 1], bytes[k])
  BY EachByte, ZenonT(30)
<1>3. m \in Nat
  OBVIOUS
<1> HIDE DEF m, P, Q
<1>4. 0 \in T
  BY <1>1, <1>2, <1>3
<1>5. ASSUME NEW k \in 0 .. m - 1, k \in T
      PROVE  k + 1 \in T
  <2>1. k + 1 \in 1 .. Len(bytes) /\ k + 1 \in 0 .. m /\ (k + 1) - 1 = k
    BY <1>3 DEF m
  <2>2. P[k + 1] = Clocked(P[k], bytes[k + 1]) /\ Q[k + 1] = Clocked(Q[k], bytes[k + 1])
    BY <1>1, <1>2, <2>1
  <2>3. P[k].chip = Q[k].chip /\ P[k].divisor = Q[k].divisor
    BY <1>5
  <2>4. /\ P[k + 1].chip = Q[k + 1].chip
        /\ P[k + 1].divisor = Q[k + 1].divisor
    BY <2>2, <2>3, ClockedChip
  <2> QED
    BY <2>1, <2>4
<1>6. 0 .. m \subseteq T
  <2> HIDE DEF T
  <2> QED
    BY <1>3, <1>4, <1>5, UpTo
<1>7. Len(bytes) \in T
  <2> HIDE DEF T
  <2> QED
    BY <1>3, <1>6 DEF m
<1> QED
  BY <1>1, <1>2, <1>7

LEMMA SendKeepsTypes ==
  ASSUME NEW bytes \in Seq(Int), NEW s, s.heard \in Seq(Int), s.answers \in Seq(Int)
  PROVE  ClockedAll(s, bytes).heard \in Seq(Int) /\ ClockedAll(s, bytes).answers \in Seq(Int)
<1> DEFINE m == Len(bytes)
           P == ByteByByte(s, bytes)
           T == {k \in 0 .. m : P[k].heard \in Seq(Int) /\ P[k].answers \in Seq(Int)}
<1>1. /\ ClockedAll(s, bytes) = P[Len(bytes)] /\ P[0] = s
      /\ \A k \in 1 .. Len(bytes) : P[k] = Clocked(P[k - 1], bytes[k])
  BY EachByte, ZenonT(30)
<1>2. m \in Nat
  OBVIOUS
<1> HIDE DEF m, P
<1>3. 0 \in T
  BY <1>1, <1>2
<1>4. ASSUME NEW k \in 0 .. m - 1, k \in T
      PROVE  k + 1 \in T
  <2> DEFINE byte == bytes[k + 1]
             p == P[k]
             q == P[k + 1]
  <2>1. k + 1 \in 1 .. Len(bytes) /\ k + 1 \in 0 .. m /\ (k + 1) - 1 = k
    BY <1>2 DEF m
  <2>2. q = Clocked(p, byte) /\ byte \in Int
    <3>1. byte \in Int
      BY <2>1, ElementOfSeq
    <3> QED
      BY <1>1, <2>1, <3>1
  <2>3. p.heard \in Seq(Int) /\ p.answers \in Seq(Int)
    BY <1>4
  <2> HIDE DEF p, q, byte
  <2>4. q.heard \in Seq(Int) /\ q.answers \in Seq(Int)
    <3>1. CASE p.chip.takes = "data"
      <4>1. q.heard = Append(p.heard, byte) /\ q.answers = Append(p.answers, Len(p.heard) + 1)
        BY <2>2, <3>1, ClockedData
      <4>2. Len(p.heard) + 1 \in Int
        BY <2>3
      <4> QED
        BY <2>2, <2>3, <4>1, <4>2
    <3>2. CASE p.chip.takes # "data"
      BY <2>2, <2>3, <3>2, ClockedOther
    <3> QED
      BY <3>1, <3>2
  <2> QED
    BY <2>1, <2>4 DEF q
<1>5. 0 .. m \subseteq T
  <2> HIDE DEF T
  <2> QED
    BY <1>2, <1>3, <1>4, UpTo
<1>6. Len(bytes) \in T
  <2> HIDE DEF T
  <2> QED
    BY <1>2, <1>5 DEF m
<1> QED
  BY <1>1, <1>6

LEMMA DivisorIsNear ==
  ASSUME NEW f \in Nat, f \in HalfClock \div Chunk + 1 .. HalfClock
  PROVE  /\ f * (Divisor(f) + 1) <= HalfClock
         /\ HalfClock \div (Divisor(f) + 1) < 2 * f
<1> DEFINE q == HalfClock \div f
           least == HalfClock \div Chunk
<1>1. f \in Nat \ {0} /\ f <= HalfClock /\ HalfClock \in Nat /\ Chunk \in Nat \ {0}
  <2>1. Chunk \in Nat \ {0} /\ HalfClock \in Nat
    BY ChunkIsWord DEF HalfClock
  <2>2. least \in Int /\ 0 <= least
    BY <2>1
  <2> QED
    BY <2>1, <2>2
<1>2. q \in Int /\ f * q <= HalfClock /\ HalfClock < f * (q + 1)
  BY <1>1
<1>3. least \in Int /\ HalfClock < Chunk * (least + 1) /\ least + 1 <= f
  BY <1>1
<1> HIDE DEF q, least
<1>4. q >= 1
  <2> SUFFICES ASSUME q + 1 <= 1
               PROVE  FALSE
    BY <1>2
  <2>1. f * (q + 1) <= f * 1
    BY <1>1, <1>2
  <2> QED
    BY <1>1, <1>2, <2>1
<1>5. q <= Chunk
  <2> SUFFICES ASSUME Chunk <= q
               PROVE  q <= Chunk
    BY <1>1, <1>2
  <2>1. Chunk * (least + 1) <= Chunk * f
    BY <1>1, <1>3
  <2>2. Chunk * f <= f * q
    BY <1>1, <1>2
  <2> QED
    BY <1>1, <1>2, <1>3, <2>1, <2>2
<1>6. Divisor(f) + 1 = q
  BY <1>1, <1>2, <1>4, <1>5 DEF Divisor, Lesser, q
<1>7. HalfClock \div q < 2 * f
  <2> DEFINE p == HalfClock \div q
  <2>1. p \in Int /\ p * q <= HalfClock
    BY <1>1, <1>2, <1>4
  <2> HIDE DEF p
  <2>2. p * q < f * (q + 1)
    BY <1>1, <1>2, <2>1
  <2>3. f * (q + 1) <= 2 * f * q
    BY <1>1, <1>2, <1>4
  <2>4. p * q < 2 * f * q
    BY <1>1, <1>2, <2>1, <2>2, <2>3
  <2>5. p < 2 * f
    BY <1>1, <1>2, <1>4, <2>1, <2>4
  <2> QED
    BY <2>5 DEF p
<1> QED
  BY <1>2, <1>6, <1>7

(* While every call has had the chip's form, it takes a command between    *)
(* two sends and has the divisor of the settings.                          *)
ClockTypes ==
  /\ settings.clock \in Nat \ {0}
  /\ spi_heard \in Seq(Int) /\ spi_answers \in Seq(Int) /\ returned \in Seq(Int)
  /\ spi_call.name = "transferBuf" => Len(returned) = Len(given)

InStep ==
  ~misread =>
    /\ spi_is_open => chip = Idle /\ divisor = Divisor(settings.clock)
    /\ spi_call # NoSPICall => form = IF spi_call.name = "transferBuf" THEN 2 ELSE 1

ClockInv == ClockTypes /\ InStep

LEMMA EnterKeepsClock ==
  ASSUME ClockInv, NEW name, NEW bytes \in Seq(Int), NEW uses, Enter(name, bytes, uses),
         \/ name \in {"transfer", "transfer16"} /\ uses = 1 /\ returned' = <<>>
         \/ name = "transferBuf" /\ uses = 2 /\ returned' = bytes
  PROVE  ClockInv'
<1>1. /\ spi_call'.name = name /\ spi_call = NoSPICall
      /\ given' = bytes /\ spi_heard' = <<>>
      /\ misread' = (misread \/ uses # form)
      /\ UNCHANGED <<form, spi_is_open, settings, chip, divisor, spi_answers>>
  BY DEF Enter
<1>2. <<>> \in Seq(Int)
  OBVIOUS
<1>3. ClockTypes'
  BY <1>1, <1>2 DEF ClockInv, ClockTypes
<1>4. InStep'
  BY <1>1 DEF ClockInv, InStep
<1> QED
  BY <1>3, <1>4 DEF ClockInv

(* Bytes sent in the chip's form leave chip and divisor as they are.       *)
LEMMA SendKeepsClock ==
  ASSUME ClockInv, spi_call \in CallOnBytes, spi_is_open, NEW bytes \in Seq(Int), sendData(bytes),
         spi_call'.name = spi_call.name, spi_call' # NoSPICall,
         UNCHANGED <<form, spi_is_open, settings, given, returned, misread>>,
         \A s : s.chip = Idle /\ s.divisor = divisor /\ s.heard = <<>> /\ s.answers = <<>> /\ ~misread
                 => ClockedAll(s, bytes).chip = Idle /\ ClockedAll(s, bytes).divisor = divisor
  PROVE  ClockInv'
<1> DEFINE r == ClockedAll(Sending, bytes)
           s == [chip |-> Idle, heard |-> <<>>, answers |-> <<>>, divisor |-> divisor]
<1>1. chip' = r.chip /\ spi_heard' = r.heard /\ spi_answers' = r.answers /\ divisor' = r.divisor
  BY DEF sendData, Sending
<1>2. Sending.heard \in Seq(Int) /\ Sending.answers \in Seq(Int)
  BY DEF ClockInv, ClockTypes, Sending
<1>3. r.heard \in Seq(Int) /\ r.answers \in Seq(Int)
  BY <1>2, SendKeepsTypes
<1>4. ASSUME ~misread
      PROVE  r.chip = Idle /\ r.divisor = divisor
  <2>1. Sending.chip = s.chip /\ Sending.divisor = s.divisor
    BY <1>4 DEF ClockInv, InStep, Sending
  <2>2. ClockedAll(s, bytes).chip = Idle /\ ClockedAll(s, bytes).divisor = divisor
    BY <1>4
  <2> HIDE DEF s
  <2> QED
    BY <2>1, <2>2, ChipAlone
<1> HIDE DEF r, s
<1>5. ClockTypes'
  BY <1>1, <1>3 DEF ClockInv, ClockTypes
<1>6. InStep'
  <2>1. spi_call # NoSPICall
    BY DEF CallOnBytes, NoSPICall
  <2> QED
    BY <1>1, <1>4, <2>1 DEF ClockInv, InStep
<1> QED
  BY <1>5, <1>6 DEF ClockInv

LEMMA SendByteKeepsClock == SPIInv /\ ClockInv /\ SendByte => ClockInv'
<1> SUFFICES ASSUME SPIInv, ClockInv, SendByte
             PROVE  ClockInv'
  OBVIOUS
<1> DEFINE byte == given[spi_call.next]
<1>1. /\ spi_call.name \in {"transfer", "transfer16"} /\ spi_call.next <= Len(given)
      /\ sendData(<<getMPSSECommand, 0, byte>>)
      /\ spi_call' = [spi_call EXCEPT !.reading = 1]
      /\ UNCHANGED <<form, spi_is_open, settings, given, returned, misread>>
  BY DEF SendByte
<1>2. spi_call \in CallOnBytes /\ spi_call # NoSPICall /\ spi_is_open /\ given \in Seq(Int)
  BY <1>1 DEF SPIInv, NoSPICall
<1>3. spi_call'.name = spi_call.name /\ spi_call' # NoSPICall
  BY <1>1, <1>2 DEF CallOnBytes, NoSPICall
<1>4. byte \in Int
  <2>1. spi_call.next \in 1 .. Len(given)
    BY <1>1, <1>2 DEF CallOnBytes
  <2> QED
    BY <1>2, <2>1, ElementOfSeq
<1> HIDE DEF byte
<1>5. <<getMPSSECommand, 0, byte>> \in Seq(Int)
  BY <1>4, CommandIsOne DEF ExchangeCommands
<1>6. ASSUME NEW s, s.chip = Idle, s.heard = <<>>, s.answers = <<>>, ~misread
      PROVE  /\ ClockedAll(s, <<getMPSSECommand, 0, byte>>).chip = Idle
             /\ ClockedAll(s, <<getMPSSECommand, 0, byte>>).divisor = s.divisor
  <2>1. form = 1
    BY <1>1, <1>2, <1>6 DEF ClockInv, InStep
  <2>2. Taken(s, <<byte>>, 0, 0)
    BY <1>6 DEF Taken
  <2>3. <<byte>>[0 + 1] = byte /\ 0 \in Nat
    OBVIOUS
  <2> QED
    BY <1>4, <1>6, <2>1, <2>2, <2>3, CommandIsOne, ByteExchanged
<1> QED
  BY <1>1, <1>2, <1>3, <1>5, <1>6, SendKeepsClock

LEMMA SendChunkKeepsClock == SPIInv /\ ClockInv /\ SendChunk => ClockInv'
<1> SUFFICES ASSUME SPIInv, ClockInv, SendChunk
             PROVE  ClockInv'
  OBVIOUS
<1> DEFINE first == spi_call.next
           m == Len(given)
           n == ChunkSize
           data == SubSeq(returned, first, first + n - 1)
           low == (n - 1) % Base
           high == ((n - 1) \div Base) % Base
           bytes == <<getMPSSECommand, low, high>> \o data
<1>1. /\ spi_call.name = "transferBuf" /\ first <= m
      /\ sendData(ChunkHeader \o data)
      /\ spi_call' = [spi_call EXCEPT !.reading = n]
      /\ UNCHANGED <<form, spi_is_open, settings, given, returned, misread>>
  BY DEF SendChunk
<1>2. spi_call \in CallOnBytes /\ spi_call # NoSPICall /\ spi_is_open /\ given \in Seq(Int)
  BY <1>1 DEF SPIInv, NoSPICall
<1>3. first \in Nat \ {0} /\ m \in Nat /\ returned \in Seq(Int) /\ Len(returned) = m
  BY <1>1, <1>2 DEF CallOnBytes, ClockInv, ClockTypes
<1>4. spi_call'.name = spi_call.name /\ spi_call' # NoSPICall
  BY <1>1, <1>2 DEF CallOnBytes, NoSPICall
<1>5. n = Lesser(m - first + 1, Chunk)
  BY DEF ChunkSize
<1>6. ChunkHeader = <<getMPSSECommand, low, high>>
  BY DEF ChunkHeader
<1> HIDE DEF first, m, n
<1>7. n \in 1 .. Chunk /\ n \in Nat \ {0} /\ first \in 1 .. m /\ first + n - 1 \in 1 .. m
      /\ (first + n - 1) - first + 1 = n
  <2>1. Chunk \in Nat \ {0} /\ first <= m
    BY <1>1, ChunkIsWord
  <2>2. n \in 1 .. Chunk /\ n \in 1 .. m - first + 1
    BY <1>3, <1>5, <2>1 DEF Lesser
  <2> QED
    BY <1>3, <2>1, <2>2
<1>8. data \in Seq(Int) /\ Len(data) = n
  <2> DEFINE buf == returned
             last == first + n - 1
  <2>1. buf \in Seq(Int) /\ Len(buf) = m /\ first \in 1 .. m /\ last \in 1 .. m
        /\ last - first + 1 = n
    BY <1>3, <1>7
  <2>2. data = SubSeq(buf, first, last)
    OBVIOUS
  <2> HIDE DEF data, buf, last
  <2>3. data = [k \in 1 .. n |-> buf[first + k - 1]]
    BY <1>3, <2>1, <2>2
  <2>4. \A k \in 1 .. n : buf[first + k - 1] \in Int
    <3> TAKE k \in 1 .. n
    <3>1. first + k - 1 \in 1 .. Len(buf)
      BY <1>3, <1>7, <2>1
    <3> QED
      BY <2>1, <3>1, ElementOfSeq
  <2> QED
    BY <1>7, <2>3, <2>4
<1>9. low \in Int /\ high \in Int
  BY <1>7, ChunkIsWord
<1>10. bytes \in Seq(Int)
  <2>1. <<getMPSSECommand, low, high>> \in Seq(Int)
    BY <1>9, CommandIsOne DEF ExchangeCommands
  <2> HIDE DEF data, low, high
  <2> QED
    BY <1>8, <2>1, ConcatProperties
<1>11. ASSUME NEW s, s.chip = Idle, s.heard = <<>>, s.answers = <<>>, ~misread
       PROVE  ClockedAll(s, bytes).chip = Idle /\ ClockedAll(s, bytes).divisor = s.divisor
  <2> DEFINE l == Len(data)
             full == ClockedAll(s, <<getMPSSECommand, (l - 1) % Base,
                                     ((l - 1) \div Base) % Base>> \o data)
  <2>1. form = 2
    BY <1>1, <1>2, <1>11 DEF ClockInv, InStep
  <2>2. Taken(s, data, 0, 0)
    BY <1>11 DEF Taken
  <2>3. Len(data) \in 1 .. Chunk /\ 0 \in Nat
    BY <1>7, <1>8
  <2> HIDE DEF data
  <2>4. \A k \in 1 .. Len(data) : data[0 + k] = data[k]
    OBVIOUS
  <2>5. full.chip = Idle /\ full.divisor = s.divisor
    BY ONLY <1>8, <1>11, <2>1, <2>2, <2>3, <2>4, CommandIsOne, ChunkExchanged
  <2>6. full = ClockedAll(s, bytes)
    BY <1>8
  <2> QED
    BY <2>5, <2>6
<1>12. sendData(bytes)
  BY <1>1, <1>6
<1> HIDE DEF bytes
<1> QED
  BY <1>1, <1>2, <1>4, <1>10, <1>11, <1>12, SendKeepsClock

(* What is read is part of what was answered, or 0.                        *)
LEMMA ReadIsInt ==
  ASSUME ClockInv, NEW n \in Nat, NEW got \in FirstAnswers(n), Receive(n, got)
  PROVE  got \in Seq(Int) /\ spi_answers' \in Seq(Int)
<1> DEFINE a == spi_answers
<1>1. a \in Seq(Int) /\ Len(a) \in Nat
  BY DEF ClockInv, ClockTypes
<1>2. PICK k \in 0 .. Lesser(n, Len(a)) : got = SubSeq(a, 1, k)
  BY DEF FirstAnswers
<1>3. k \in Nat /\ k <= Len(a)
  BY <1>1, <1>2 DEF Lesser
<1>4. spi_answers' = SubSeq(a, Len(got) + 1, Len(a))
  BY DEF Receive
<1> HIDE DEF a
<1>5. got \in Seq(Int) /\ Len(got) = k
  <2>1. got = [i \in 1 .. k |-> a[i]] /\ \A i \in 1 .. k : a[i] \in Int
    <3>1. \A i \in 1 .. k : i \in 1 .. Len(a)
      BY <1>1, <1>3
    <3> QED
      BY <1>1, <1>2, <1>3, <3>1, ElementOfSeq
  <2> QED
    BY <1>3, <2>1
<1>6. SubSeq(a, k + 1, Len(a)) \in Seq(Int)
  BY <1>1, <1>3
<1> QED
  BY <1>4, <1>5, <1>6

LEMMA ReceiveKeepsClock ==
  SPIInv /\ ClockInv /\ (ReceiveSPIByte \/ ReceiveChunk) => ClockInv'
<1> SUFFICES ASSUME SPIInv, ClockInv, ReceiveSPIByte \/ ReceiveChunk
             PROVE  ClockInv'
  OBVIOUS
<1>1. /\ spi_call \in CallOnBytes /\ spi_call # NoSPICall
      /\ UNCHANGED <<form, spi_is_open, settings, chip, divisor, spi_heard, given, misread>>
  BY DEF ReceiveSPIByte, ReceiveChunk, SPIInv, NoSPICall
<1>2. spi_call'.name = spi_call.name /\ spi_call' # NoSPICall
  BY <1>1 DEF ReceiveSPIByte, ReceiveChunk, CallOnBytes, NoSPICall
<1>3. /\ spi_answers' \in Seq(Int) /\ returned' \in Seq(Int)
      /\ spi_call.name = "transferBuf" => Len(returned') = Len(returned)
  <2>1. CASE ReceiveSPIByte
    <3>1. PICK got \in FirstAnswers(1) :
            Receive(1, got) /\ returned' = Append(returned, IF got = <<>> THEN 0 ELSE got[1])
      BY <2>1 DEF ReceiveSPIByte
    <3>2. 1 \in Nat
      OBVIOUS
    <3>3. got \in Seq(Int) /\ spi_answers' \in Seq(Int)
      BY <3>1, <3>2, ReadIsInt
    <3>4. (IF got = <<>> THEN 0 ELSE got[1]) \in Int
      <4>1. got # <<>> => 1 \in 1 .. Len(got)
        BY <3>3
      <4> QED
        BY <3>3, <4>1, ElementOfSeq
    <3>5. returned \in Seq(Int) /\ spi_call.name # "transferBuf"
      BY <2>1 DEF ClockInv, ClockTypes, ReceiveSPIByte
    <3> QED
      BY <3>1, <3>3, <3>4, <3>5
  <2>2. CASE ReceiveChunk
    <3> DEFINE first == spi_call.next
               m == Len(returned)
    <3>1. PICK got \in FirstAnswers(spi_call.reading) :
            /\ Receive(spi_call.reading, got)
            /\ returned' = [i \in DOMAIN returned |->
                              IF i - first + 1 \in 1 .. Len(got) THEN got[i - first + 1]
                                                                 ELSE returned[i]]
      BY <2>2 DEF ReceiveChunk
    <3>2. spi_call.reading \in Nat
      BY <1>1 DEF CallOnBytes
    <3>3. got \in Seq(Int) /\ spi_answers' \in Seq(Int)
      BY <3>1, <3>2, ReadIsInt
    <3> DEFINE new(i) == IF i - first + 1 \in 1 .. Len(got) THEN got[i - first + 1]
                                                            ELSE returned[i]
    <3>4. m \in Nat /\ DOMAIN returned = 1 .. m /\ returned \in Seq(Int)
      BY DEF ClockInv, ClockTypes
    <3>5. \A i \in 1 .. m : new(i) \in Int
      BY <3>3, <3>4, ElementOfSeq
    <3>6. returned' = [i \in 1 .. m |-> new(i)]
      BY <3>1, <3>4
    <3> HIDE DEF new, m
    <3>7. returned' \in Seq(Int) /\ Len(returned') = m
      BY <3>4, <3>5, <3>6
    <3> QED
      BY <3>3, <3>7 DEF m
  <2> QED
    BY <2>1, <2>2
<1>4. ClockTypes'
  BY <1>1, <1>2, <1>3 DEF ClockInv, ClockTypes
<1>5. InStep'
  BY <1>1, <1>2 DEF ClockInv, InStep
<1> QED
  BY <1>4, <1>5 DEF ClockInv

LEMMA TransactionKeepsClock ==
  ASSUME SPIInv, ClockInv, NEW s, s.clock \in Frequency, beginTransaction(s)
  PROVE  ClockInv'
<1> DEFINE bytes == ClockCommand(s.clock)
           r == ClockedAll(Sending, bytes)
<1>1. /\ spi_call = NoSPICall /\ settings' = s
      /\ chip' = r.chip /\ spi_heard' = r.heard /\ spi_answers' = r.answers
      /\ divisor' = r.divisor
      /\ UNCHANGED <<form, spi_is_open, spi_call, given, returned, misread>>
      /\ spi_is_open
  BY DEF beginTransaction, sendData, Sending
<1>2. s.clock \in Nat \ {0}
  BY SpiAssumption
<1>3. bytes \in Seq(Int)
  <2>1. Divisor(s.clock) \in Nat /\ Base \in Nat \ {0}
    BY <1>2, DivisorIsWord, ChunkIsWord
  <2>2. Divisor(s.clock) % Base \in Int /\ (Divisor(s.clock) \div Base) % Base \in Int
    BY <2>1
  <2> QED
    BY <2>2 DEF ClockCommand, SetDivisor
<1>4. r.heard \in Seq(Int) /\ r.answers \in Seq(Int)
  <2>1. Sending.heard \in Seq(Int) /\ Sending.answers \in Seq(Int)
    BY DEF ClockInv, ClockTypes, Sending
  <2> HIDE DEF bytes
  <2> QED
    BY <1>3, <2>1, SendKeepsTypes
<1>5. ASSUME ~misread
      PROVE  r.chip = Idle /\ r.divisor = Divisor(s.clock)
  <2>1. Sending.chip = Idle
    BY <1>1, <1>5 DEF ClockInv, InStep, Sending
  <2> QED
    BY <1>2, <2>1, ClockIsSet
<1> HIDE DEF r, bytes
<1>6. ClockTypes'
  BY <1>1, <1>2, <1>4 DEF ClockInv, ClockTypes
<1>7. InStep'
  BY <1>1, <1>5 DEF ClockInv, InStep
<1> QED
  BY <1>6, <1>7 DEF ClockInv

LEMMA OpenKeepsClock == SPIInv /\ ClockInv /\ (SPIOpen \/ SPIEnd \/ SPIReturn) => ClockInv'
<1> SUFFICES ASSUME SPIInv, ClockInv, SPIOpen \/ SPIEnd \/ SPIReturn
             PROVE  ClockInv'
  OBVIOUS
<1>1. <<>> \in Seq(Int) /\ settings' = settings
  BY DEF SPIOpen, SPIEnd, SPIReturn
<1>2. ClockTypes'
  BY <1>1 DEF ClockInv, ClockTypes, SPIOpen, SPIEnd, SPIReturn, chipVars
<1>3. InStep'
  <2>1. CASE SPIOpen
    BY <2>1 DEF SPIInv, InStep, SPIOpen
  <2>2. CASE SPIEnd
    BY <2>2 DEF ClockInv, InStep, SPIEnd, chipVars
  <2>3. CASE SPIReturn
    BY <2>3 DEF ClockInv, InStep, SPIReturn
  <2> QED
    BY <2>1, <2>2, <2>3
<1> QED
  BY <1>2, <1>3 DEF ClockInv

LEMMA StepClockInv == SPIInv /\ ClockInv /\ [SPINext]_spiVars => ClockInv'
<1> SUFFICES ASSUME SPIInv, ClockInv, [SPINext]_spiVars
             PROVE  ClockInv'
  OBVIOUS
<1>1. ASSUME NEW f \in Frequency, NEW mode, NEW order,
             beginTransaction([clock |-> f, mode |-> mode, order |-> order])
      PROVE  ClockInv'
  BY <1>1, TransactionKeepsClock
<1>2. ASSUME NEW data \in Data, transfer(data)
      PROVE  ClockInv'
  BY <1>2, EntersWithBytes, EnterKeepsClock DEF transfer
<1>3. ASSUME NEW high \in Data, NEW low \in Data, transfer16(high, low)
      PROVE  ClockInv'
  <2> DEFINE bytes == IF settings.order = "MSBFIRST" THEN <<high, low>> ELSE <<low, high>>
  <2>1. bytes \in Seq(Int)
    BY EntersWithBytes, Zenon
  <2>2. Enter("transfer16", bytes, 1) /\ returned' = <<>>
    BY <1>3 DEF transfer16
  <2> HIDE DEF bytes
  <2> QED
    BY <2>1, <2>2, EnterKeepsClock
<1>4. ASSUME NEW buf \in BoundedSeq(Data, MaxCount), transferBuf(buf)
      PROVE  ClockInv'
  <2>1. buf \in Seq(Int)
    BY EntersWithBytes
  <2> QED
    BY <1>4, <2>1, EnterKeepsClock DEF transferBuf
<1>5. CASE UNCHANGED spiVars
  BY <1>5 DEF spiVars, chipVars, ClockInv, ClockTypes, InStep
<1> QED
  BY <1>1, <1>2, <1>3, <1>4, <1>5, OpenKeepsClock, SendByteKeepsClock, SendChunkKeepsClock,
     ReceiveKeepsClock DEF SPINext

LEMMA InitClockInv == SPIInit => ClockInv
<1> SUFFICES ASSUME SPIInit
             PROVE  ClockInv
  OBVIOUS
<1>1. <<>> \in Seq(Int) /\ DefaultSettings.clock \in Nat \ {0} /\ NoSPICall.name # "transferBuf"
  BY DEF DefaultSettings, NoSPICall
<1> QED
  BY <1>1 DEF SPIInit, ClockInv, ClockTypes, InStep

(* The clock is the one asked for, or less than twice as fast, also after  *)
(* begin() is called again with the settings of an earlier session, until  *)
(* a call does not have the chip's form (HardwareSPI_FTDI.cpp              *)
(* setClockFrequency()).                                                   *)
THEOREM ClockIsNear == SPISpec => []ClockNearRequest
<1>1. ClockInv => ClockNearRequest
  <2>1. HalfClock \in Nat
    BY DEF HalfClock
  <2> QED
    BY <2>1, DivisorIsNear DEF ClockInv, ClockTypes, InStep, ClockNearRequest
<1> QED
  BY <1>1, InitClockInv, StepClockInv, SPIInvariant, PTL DEF SPISpec
=============================================================================
