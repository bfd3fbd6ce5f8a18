--------------------------------- MODULE Servo ---------------------------------
(***************************************************************************)
(* Servo objects, which write to the PWM channels below /sys/class/pwm     *)
(* themselves, past HardwareGPIO_RPI, whose own PWM calls go on meanwhile: *)
(* pins 12 and 18 are one channel, and so are 13 and 19.  A unit of time   *)
(* is a microsecond when Second is 10^6.                                   *)
(***************************************************************************)
EXTENDS RpiPwm

CONSTANTS
  ServoId,     \* servos
  OtherPin,    \* pins without hardware PWM a sketch attaches a servo to
  PulseRange,  \* ranges [min, max] a sketch attaches a servo with
  Pulse        \* pulse widths a sketch asks for

ASSUME PulseAssumption ==
  /\ PulseRange \subseteq [min : Int, max : Int] /\ Pulse \subseteq Int
  /\ NoPin \notin OtherPin

VARIABLES
  _pin,        \* of each servo, NoPin if it is detached
  _range,      \* its _min and _max
  _pulseUs,
  driver       \* history: the servo that wrote each channel last, for which
               \* pin and pulse, and if it met all files open and neither
               \* its pulse nor the duty in effect was above its period

servo == <<_pin, _range, _pulseUs, driver>>
servoVars == <<pwmVars, servo>>
-----------------------------------------------------------------------------
DefaultRange == [min |-> 544, max |-> 2400]
ServoPeriod == Second \div 50
PulseDuty(us) == IF us > 0 THEN us * (Second \div 1000000) ELSE 0
NoDriver == [who |-> "nobody", pin |-> NoPin, us |-> 0, exact |-> FALSE]

(* max(min, min(us, max)): a range with min > max gives its min. *)
Clamped(us, r) ==
  LET below == IF us > r.max THEN r.max ELSE us
  IN IF below < r.min THEN r.min ELSE below
angleToPulse(angle, r) == r.min + (angle * (r.max - r.min)) \div 180

ServoInit ==
  /\ RpiPwmInit
  /\ _pin = [s \in ServoId |-> NoPin]
  /\ _range = [s \in ServoId |-> DefaultRange]
  /\ _pulseUs = [s \in ServoId |-> (DefaultRange.min + DefaultRange.max) \div 2]
  /\ driver = [c \in Channel |-> NoDriver]

(* Mutation of WritePulse: the output is enabled before it has a period. *)
WritePulseEnablesFirst(s, pin, us, opens) ==
  IF pin \notin PwmPin THEN UNCHANGED <<period, duty, enabled, last, driver>>
  ELSE
    LET c == ChannelOf(pin)
        now == InEffect(c, ServoPeriod, PulseDuty(us), opens)
    IN /\ period' = [period EXCEPT ![c] = now.period]
       /\ duty' = [duty EXCEPT ![c] = now.duty]
       /\ enabled' = [enabled EXCEPT ![c] =
                        IF "enable" \in opens /\ period[c] # 0 THEN us > 0 ELSE @]
       /\ last' = [last EXCEPT ![c] = [command |-> NoCommand, met |-> FALSE]]
       /\ driver' = [driver EXCEPT ![c] =
                       [who |-> s, pin |-> pin, us |-> us,
                        exact |-> /\ duty[c] <= ServoPeriod /\ PulseDuty(us) <= ServoPeriod
                                  /\ opens = Files]]

(* _writePulse(): period, duty and enable of the pin's channel; nothing    *)
(* for a pin without one.                                                  *)
WritePulse(s, pin, us, opens) ==
  IF pin \notin PwmPin THEN UNCHANGED <<period, duty, enabled, last, driver>>
  ELSE
    LET c == ChannelOf(pin)
        now == InEffect(c, ServoPeriod, PulseDuty(us), opens)
    IN /\ period' = [period EXCEPT ![c] = now.period]
       /\ duty' = [duty EXCEPT ![c] = now.duty]
       /\ enabled' = [enabled EXCEPT ![c] =
                        IF "enable" \in opens /\ now.period # 0 THEN us > 0 ELSE @]
       /\ last' = [last EXCEPT ![c] = [command |-> NoCommand, met |-> FALSE]]
       /\ driver' = [driver EXCEPT ![c] =
                       [who |-> s, pin |-> pin, us |-> us,
                        exact |-> /\ duty[c] <= ServoPeriod /\ PulseDuty(us) <= ServoPeriod
                                  /\ opens = Files]]

(* attach(pin, min, max): the pulse is the one from before, also when it   *)
(* is outside the new range, and the pin of before keeps its pulse.        *)
attach(s, pin, r, opens) ==
  /\ playing = NoPin
  /\ _pin' = [_pin EXCEPT ![s] = pin]
  /\ _range' = [_range EXCEPT ![s] = r]
  /\ gpio_frequencies' = [p \in PwmPin |-> IF p = pin THEN 50 ELSE gpio_frequencies[p]]
  /\ WritePulse(s, pin, _pulseUs[s], opens)
  /\ UNCHANGED <<max_value, playing, _pulseUs>>

(* detach() *)
detach(s, opens) ==
  /\ playing = NoPin /\ _pin[s] # NoPin
  /\ WritePulse(s, _pin[s], 0, opens)
  /\ _pin' = [_pin EXCEPT ![s] = NoPin]
  /\ UNCHANGED <<set, _range, _pulseUs>>

(* The destructor detaches; a new servo takes its place. *)
Renew(s, opens) ==
  /\ playing = NoPin
  /\ IF _pin[s] # NoPin THEN WritePulse(s, _pin[s], 0, opens)
     ELSE UNCHANGED <<period, duty, enabled, last, driver>>
  /\ _pin' = [_pin EXCEPT ![s] = NoPin]
  /\ _range' = [_range EXCEPT ![s] = DefaultRange]
  /\ _pulseUs' = [_pulseUs EXCEPT ![s] = (DefaultRange.min + DefaultRange.max) \div 2]
  /\ UNCHANGED set

(* writeMicroseconds(us) *)
writeMicroseconds(s, us, opens) ==
  /\ playing = NoPin
  /\ LET pulse == Clamped(us, _range[s])
     IN /\ _pulseUs' = [_pulseUs EXCEPT ![s] = pulse]
        /\ IF _pin[s] # NoPin THEN WritePulse(s, _pin[s], pulse, opens)
           ELSE UNCHANGED <<period, duty, enabled, last, driver>>
  /\ UNCHANGED <<set, _pin, _range>>

(* write(value): up to 200 an angle, above it a pulse width. *)
write(s, value, opens) ==
  IF value > 200 THEN writeMicroseconds(s, value, opens)
  ELSE writeMicroseconds(s,
         angleToPulse(IF value < 0 THEN 0 ELSE IF value > 180 THEN 180 ELSE value, _range[s]),
         opens)

(* The calls of HardwareGPIO_RPI; those that write drive their channel. *)
Direct ==
  /\ RpiPwmNext
  /\ driver' = [c \in Channel |-> IF last'[c] # last[c] THEN NoDriver ELSE driver[c]]
  /\ UNCHANGED <<_pin, _range, _pulseUs>>

ServoNext ==
  \/ \E s \in ServoId, opens \in Opens :
       \/ \E pin \in PwmPin \cup OtherPin, r \in PulseRange : attach(s, pin, r, opens)
       \/ detach(s, opens)
       \/ Renew(s, opens)
       \/ \E value \in Pulse : write(s, value, opens)
  \/ Direct

ServoSpec == ServoInit /\ [][ServoNext]_servoVars
-----------------------------------------------------------------------------
(* The channel a servo was the last to write has a period of 20 ms and the *)
(* pulse the servo remembers, enabled, as long as the servo is attached to *)
(* that pin; after detach() it is silent.  It holds unless a file did not  *)
(* open or the pulse, or the duty in effect before, was above 20 ms.       *)
PulseAsWritten ==
  \A c \in Channel :
    driver[c].exact =>
      /\ period[c] = ServoPeriod
      /\ duty[c] = PulseDuty(driver[c].us)
      /\ enabled[c] <=> driver[c].us > 0
      /\ _pin[driver[c].who] = driver[c].pin => driver[c].us = _pulseUs[driver[c].who]
=============================================================================
