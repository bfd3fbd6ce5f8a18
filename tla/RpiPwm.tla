--------------------------------- MODULE RpiPwm ---------------------------------
(***************************************************************************)
(* The PWM output of HardwareGPIO_RPI: analogWrite(), tone(), noTone(),    *)
(* analogWriteFrequency() and analogWriteResolution().  External: a        *)
(* channel's files in /sys/class/pwm take a period that is not 0 and not   *)
(* below the duty in effect, and a duty not above the period; anything     *)
(* else they refuse, and the code does not look.  A file may not open (the *)
(* channel was just exported and its files are not writable yet).          *)
(***************************************************************************)
EXTENDS Integers

CONSTANTS
  Frequency,    \* frequencies a sketch sets
  Bits,         \* resolutions a sketch sets
  PwmPin,       \* pins with hardware PWM in use: a subset of {12, 13, 18, 19}
  Second,       \* the units of time of one second, 10^9 in the code
  PwmWord       \* 2^32: products of duty and period wrap at it

(* A unit of time is at most a microsecond. *)
ASSUME SecondAssumption == Second \in Nat /\ Second >= 1000000
ASSUME PwmAssumption ==
  Frequency \subseteq Int /\ PwmPin \subseteq {12, 13, 18, 19} /\ PwmWord \in Nat \ {0}

VARIABLES
  gpio_frequencies, \* of each pin, Unset if it has none
  max_value,
  playing,          \* the pin whose tone() waits for its end, or NoPin
  period, duty,     \* of each channel, in effect; a period of 0 is unset
  enabled,          \* of each channel
  last              \* history: of each channel, the last command, and if it
                    \* met a duty not above its period or was a repetition

set == <<gpio_frequencies, max_value, playing>>
pwmVars == <<set, period, duty, enabled, last>>
-----------------------------------------------------------------------------
Unset == -1
NoPin == 255  \* SERVO_NO_PIN
Channel == {0, 1}
Files == {"period", "duty", "enable"}
(* Every file opens, or one does not. *)
Opens == {Files} \cup {Files \ {f} : f \in Files}
NoCommand == [pin |-> NoPin, value |-> 0, max |-> 1, freq |-> 0, ok |-> FALSE]

ChannelOf(pin) == IF pin \in {18, 12} THEN 0 ELSE 1

getFrequency(pin) == IF gpio_frequencies[pin] = Unset THEN 1000 ELSE gpio_frequencies[pin]

PeriodOf(freq) == IF freq > 0 THEN Second \div freq ELSE Second \div 50000

DutyOf(value, p) == ((value * p) % PwmWord) \div max_value

Clipped(value) == IF value < 0 THEN 0 ELSE IF value > max_value THEN max_value ELSE value

RpiPwmInit ==
  /\ gpio_frequencies = [p \in PwmPin |-> Unset]
  /\ max_value = 255 /\ playing = NoPin
  /\ period = [c \in Channel |-> 0] /\ duty = period
  /\ enabled = [c \in Channel |-> FALSE]
  /\ last = [c \in Channel |-> [command |-> NoCommand, met |-> FALSE]]

(* Mutation of InEffect: the duty is written before the period. *)
InEffectDutyFirst(c, p, d, opens) ==
  LET duty1 == IF "duty" \in opens /\ d <= period[c] /\ period[c] # 0 THEN d ELSE duty[c]
  IN [period |-> IF "period" \in opens /\ p # 0 /\ duty1 <= p THEN p ELSE period[c],
      duty |-> duty1]

(* The channel after the period and then the duty were written to the files *)
(* that open.                                                              *)
InEffect(c, p, d, opens) ==
  LET period1 == IF "period" \in opens /\ p # 0 /\ duty[c] <= p THEN p ELSE period[c]
  IN [period |-> period1,
      duty |-> IF "duty" \in opens /\ d <= period1 /\ period1 # 0 THEN d ELSE duty[c]]

(* analogWrite(pin, value), when the frequencies are freqs. *)
Write(pin, value, freq, opens) ==
  LET c == ChannelOf(pin)
      v == Clipped(value)
      p == PeriodOf(freq)
      now == InEffect(c, p, DutyOf(v, p), opens)
      command == [pin |-> pin, value |-> v, max |-> max_value, freq |-> freq,
                  ok |-> opens = Files]
      repeated == command = last[c].command /\ command.ok
  IN /\ period' = [period EXCEPT ![c] = now.period]
     /\ duty' = [duty EXCEPT ![c] = now.duty]
     /\ enabled' = [enabled EXCEPT ![c] = @ \/ ("enable" \in opens /\ now.period # 0)]
     /\ last' = [last EXCEPT ![c] =
                   [command |-> command, met |-> repeated \/ duty[c] <= p]]

analogWrite(pin, value, opens) ==
  /\ playing = NoPin
  /\ Write(pin, value, getFrequency(pin), opens)
  /\ UNCHANGED set

analogWriteFrequency(pin, freq) ==
  /\ playing = NoPin
  /\ gpio_frequencies' = [gpio_frequencies EXCEPT ![pin] = freq]
  /\ UNCHANGED <<max_value, playing, period, duty, enabled, last>>

(* Other numbers of bits are refused. *)
analogWriteResolution(bits) ==
  /\ playing = NoPin
  /\ bits \in 1 .. 16
  /\ max_value' = 2 ^ bits - 1
  /\ UNCHANGED <<gpio_frequencies, playing, period, duty, enabled, last>>

(* tone() sets the frequency and half the maximum; with a duration it waits *)
(* and calls noTone().                                                     *)
tone(pin, freq, timed, opens) ==
  /\ playing = NoPin
  /\ gpio_frequencies' = [gpio_frequencies EXCEPT ![pin] = freq]
  /\ playing' = IF timed THEN pin ELSE NoPin
  /\ Write(pin, max_value \div 2, freq, opens)
  /\ UNCHANGED max_value

(* noTone(), or the end of a timed tone. *)
noTone(pin, opens) ==
  /\ playing \in {NoPin, pin}
  /\ playing' = NoPin
  /\ Write(pin, 0, getFrequency(pin), opens)
  /\ UNCHANGED <<gpio_frequencies, max_value>>
-----------------------------------------------------------------------------
RpiPwmNext ==
  \E pin \in PwmPin :
    \/ \E value \in {-1, max_value \div 4, max_value, max_value + 1}, opens \in Opens :
         analogWrite(pin, value, opens)
    \/ \E freq \in Frequency : analogWriteFrequency(pin, freq)
    \/ \E freq \in Frequency, timed \in BOOLEAN, opens \in Opens : tone(pin, freq, timed, opens)
    \/ \E opens \in Opens : noTone(pin, opens)
    \/ \E bits \in Bits : analogWriteResolution(bits)

RpiPwmSpec == RpiPwmInit /\ [][RpiPwmNext]_pwmVars
-----------------------------------------------------------------------------
(* The output of a channel is what its last command says: the period of the *)
(* frequency of its pin, that share of it high, and enabled.  It holds     *)
(* unless a file did not open or the command's period is below the duty in *)
(* effect; then giving the command again is enough, because the refused    *)
(* command has left its own smaller duty behind.  A product of 2^32 and    *)
(* more comes out as a shorter pulse, never a longer one.                  *)
PwmAsCommanded ==
  \A c \in Channel :
    LET command == last[c].command
        p == PeriodOf(command.freq)
        product == command.value * p
    IN command.ok /\ last[c].met /\ p # 0 =>
         /\ enabled[c] /\ period[c] = p
         /\ duty[c] <= product \div command.max
         /\ product < PwmWord => duty[c] = product \div command.max

(* "Generate a tone on a pin ... Frequency in Hz" (HardwareGPIO_RPI.h:97): *)
(* after tone() with every file written, the channel has that frequency.   *)
ToneHasFrequency ==
  [][ \A pin \in PwmPin, freq \in Frequency, timed \in BOOLEAN :
        tone(pin, freq, timed, Files) /\ freq \in 1 .. Second
          => period'[ChannelOf(pin)] = PeriodOf(freq) ]_pwmVars
=============================================================================
