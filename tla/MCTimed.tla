------------------------------- MODULE MCTimed --------------------------------
(* Values for what waits for an answer, a thread or the time, one part in   *)
(* each behaviour:                                                          *)
(* HardwareService with methods of each kind, GPIO's, SPI's and I2C's, over *)
(* a reliable stream and over UDP with losses; the handshake of begin();    *)
(* a serialib and its SerialImpl; HardwareGPIO_FTDI with one pin under PWM  *)
(* whose calls of libftdi may fail.                                         *)
EXTENDS HardwareService, HandShake, Serialib, FtdiGpio

(* No answer, one byte, two bytes (not flushed), two receives of one byte. *)
Methods == {"digitalWrite", "digitalRead", "i2cRead", "transfer"}

Tcp(used) == [transport |-> "tcp", used |-> used, losses |-> 0]
Udp(used, losses) == [transport |-> "udp", used |-> used, losses |-> losses]

BothLinks == {Tcp(Methods), Udp(Methods, 1)}

FailingPwm == {[pins |-> Pin, pwm |-> Pin, fails |-> TRUE]}

VARIABLE part  \* the part this behaviour is about
-----------------------------------------------------------------------------
Parts == {"HardwareService", "handShake", "serialib", "FtdiGpio"}

allVars == <<part, vars, handShakeVars, serialibVars, ftdiGpioVars>>

MCInit ==
  /\ part \in Parts
  /\ Init /\ (part # "HardwareService" => link = CHOOSE l \in Links : l.transport = "tcp")
  /\ HandShakeInit /\ (part # "handShake" => transport = "udp")
  /\ SerialibInit
  /\ part # "serialib" =>
       charSigned /\ wrapped /\ fd = 0 /\ file = [f \in Fd |-> "free"]
  /\ FtdiGpioInit

(* A step of one part; the others keep one initial state. *)
HardwareStep(A) ==
  part = "HardwareService" /\ A /\ UNCHANGED <<part, handShakeVars, serialibVars, ftdiGpioVars>>
HandStep(A) == part = "handShake" /\ A /\ UNCHANGED <<part, vars, serialibVars, ftdiGpioVars>>
SerialStep(A) == part = "serialib" /\ A /\ UNCHANGED <<part, vars, handShakeVars, ftdiGpioVars>>
GpioStep(A) == part = "FtdiGpio" /\ A /\ UNCHANGED <<part, vars, handShakeVars, serialibVars>>

MCNext ==
  \/ HardwareStep(Next)
  \/ HandStep(HandShakeNext)
  \/ SerialStep(SerialibNext)
  \/ GpioStep(FtdiGpioNext)

MCSpec == MCInit /\ [][MCNext]_allVars

SketchRuns ==
  \/ HardwareStep(ReadByte \/ ReceiveDone \/ ReceiveTimeout)
  \/ HandStep(HandShake)
  \/ SerialStep(Loop)
  \/ GpioStep(Main)
WorldGoesOn == HandStep(Deliver) \/ SerialStep(Tick) \/ GpioStep(Pwm)

(* The fairness of each part: the sketch's thread goes on, and so does what *)
(* it waits for: a stream delivers what was sent, the time passes, the PWM  *)
(* thread runs.  Only one part takes steps, so this is the fairness of that *)
(* part.                                                                    *)
MCFairSpec == MCSpec /\ WF_allVars(SketchRuns) /\ WF_allVars(WorldGoesOn)
=============================================================================
