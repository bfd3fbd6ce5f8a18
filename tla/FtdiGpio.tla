------------------------------- MODULE FtdiGpio -------------------------------
(***************************************************************************)
(* HardwareGPIO_FTDI: the sketch's thread ("main") and the software PWM    *)
(* thread ("pwm") share the pin values and one libftdi context.  Each      *)
(* thread has a list of the steps it has still to do; a step is what the   *)
(* other thread cannot interrupt: a load, a store, one call of libftdi,    *)
(* taking or releasing pwm_mutex.  A pin value register is the set of the  *)
(* pins whose bit is 1.  Time is left out: at each pass of the PWM thread  *)
(* any edge that the period and the on-time allow may be due.              *)
(***************************************************************************)
EXTENDS Integers, Sequences, FiniteSets

CONSTANTS
  Pin,       \* the pins of the chip that are wired in some instance
  Wirings    \* the instances, see below

(* Of an instance: `pins' are the pins the sketch uses, `pwm' those it     *)
(* also hands to analogWrite(), and `fails' tells whether a call of        *)
(* libftdi can fail.                                                       *)
ASSUME PinAssumption == Pin \subseteq 0 .. 15
ASSUME WiringAssumption ==
  \A w \in Wirings : w.pins \subseteq Pin /\ w.pwm \subseteq w.pins /\ w.fails \in BOOLEAN

VARIABLES
  wiring,             \* what is wired and used
  is_open,            \* is_open, and ftdi_context # nullptr
  pin_modes,          \* the mode of each pin, "none" if it has no entry
  pin_directions,     \* pin_directions_a and pin_directions_b
  pin_values,         \* pin_values_a and pin_values_b
  pwm_pins,           \* the entry of each pin
  pwm_thread_running, \* the flag
  alive,              \* the thread has not left its function
  mutex,              \* who holds pwm_mutex
  todo,               \* the steps each thread has to do
  reg,                \* what each thread has loaded
  selected,           \* libftdi: the selected interface
  device,             \* libftdi: what each channel was last told
  commanded,          \* history: the level the sketch gave each pin
  misrouted           \* history: a call reached the other channel

classVars == <<is_open, pin_modes, pin_directions, pin_values, pwm_pins>>
threadVars == <<pwm_thread_running, alive, mutex>>
usbVars == <<selected, device>>
history == <<commanded, misrouted>>
ftdiGpioVars == <<wiring, classVars, threadVars, usbVars, history, todo, reg>>
-----------------------------------------------------------------------------
Thread == {"main", "pwm"}
Level == {"HIGH", "LOW"}
Channel == {"A", "B"}
getChannel(p) == IF p >= 8 THEN "B" ELSE "A"

NoPwm == [enabled |-> FALSE, on |-> FALSE, current_state |-> FALSE]
Untold == [directions |-> {}, values |-> {}, told |-> FALSE]

FtdiGpioInit ==
  /\ wiring \in Wirings
  /\ is_open = FALSE
  /\ pin_modes = [p \in Pin |-> "none"]
  /\ pin_directions = [c \in Channel |-> {}]
  /\ pin_values = [c \in Channel |-> {}]
  /\ pwm_pins = [p \in Pin |-> NoPwm]
  /\ pwm_thread_running = FALSE
  /\ alive = FALSE
  /\ mutex = "free"
  /\ todo = [t \in Thread |-> <<>>]
  /\ reg = [t \in Thread |-> {}]
  /\ selected = "A"
  /\ device = [c \in Channel |-> Untold]
  /\ commanded = [p \in Pin |-> "none"]
  /\ misrouted = FALSE
-----------------------------------------------------------------------------
(* The lists of steps. *)
Step(what, c) == <<[do |-> what, ch |-> c]>>
Select(c, to) == <<[do |-> "set_interface", ch |-> c, to |-> to]>>

(* updateGPIOState(): the argument of ftdi_set_bitmode() is loaded before  *)
(* the call, the byte of ftdi_write_data() in it.                          *)
updateGPIOState(c) ==
  LET update == Step("load_directions", c) \o Step("set_bitmode", c)
                \o Step("write_data", c)
  IN IF c = "A" THEN update
     ELSE Select("B", "B") \o update \o Select("B", "A")

readGPIOState(c) ==
  IF c = "A" THEN Step("read_pins", c)
  ELSE Select("B", "B") \o Step("read_pins", c) \o Select("B", "A")

(* pin_values_x |= bit, pin_values_x &= ~bit *)
SetBit(p, level) ==
  Step("load_values", getChannel(p)) \o
  <<[do |-> "store_values", ch |-> getChannel(p), pin |-> p, level |-> level]>>

WriteSteps(p, level) == SetBit(p, level) \o updateGPIOState(getChannel(p))

Locked(step) == <<[do |-> "lock"], step, [do |-> "unlock"]>>

(* A libftdi call that fails ends the function that made it: what is left  *)
(* of the calls for this channel is dropped.  digitalRead() alone switches *)
(* back to channel A.                                                      *)
IsUsb(s, c) ==
  /\ s.do \in {"set_interface", "load_directions", "set_bitmode", "write_data",
               "read_pins"}
  /\ s.ch = c
GivenUp(steps) ==
  IF Head(steps).do = "read_pins" THEN Tail(steps)
  ELSE LET c == Head(steps).ch
           other == {k \in 1 .. Len(steps) : ~IsUsb(steps[k], c)}
       IN IF other = {} THEN <<>>
          ELSE SubSeq(steps, CHOOSE k \in other : \A j \in other : k <= j, Len(steps))
-----------------------------------------------------------------------------
(* The calls of the sketch.  Each enters its steps for the main thread and *)
(* changes at once what only the main thread writes.                       *)
GpioCall(steps) ==
  /\ todo["main"] = <<>>
  /\ todo' = [todo EXCEPT !["main"] = steps]

(* begin() with a device that answers; a new context has interface A. *)
GpioBegin ==
  /\ ~is_open
  /\ GpioCall(<<>>)
  /\ is_open' = TRUE
  /\ selected' = "A"
  /\ device' = [c \in Channel |-> Untold]
  /\ UNCHANGED <<wiring, pin_modes, pin_directions, pin_values, pwm_pins, threadVars,
                 history, reg>>

(* Mutation of GpioEnd: the context is freed before the thread is stopped. *)
EndClosesFirst ==
  /\ is_open
  /\ GpioCall(<<[do |-> "close"]>> \o
          IF pwm_thread_running THEN <<[do |-> "clear_running"], [do |-> "join"]>>
                                ELSE <<>>)
  /\ UNCHANGED <<wiring, classVars, threadVars, usbVars, history, reg>>

(* Mutation of GpioEnd: the thread is joined before the flag is cleared. *)
EndJoinsFirst ==
  /\ is_open
  /\ GpioCall((IF pwm_thread_running THEN <<[do |-> "join"], [do |-> "clear_running"]>>
                                 ELSE <<>>) \o <<[do |-> "close"]>>)
  /\ UNCHANGED <<wiring, classVars, threadVars, usbVars, history, reg>>

(* end(): stopPWMThread() clears the flag and joins, then the context is   *)
(* freed and the maps are cleared.                                         *)
GpioEnd ==
  /\ is_open
  /\ GpioCall((IF pwm_thread_running THEN <<[do |-> "clear_running"], [do |-> "join"]>>
                                 ELSE <<>>) \o <<[do |-> "close"]>>)
  /\ UNCHANGED <<wiring, classVars, threadVars, usbVars, history, reg>>

SetMode(p, mode) ==
  /\ pin_modes' = [pin_modes EXCEPT ![p] = mode]
  /\ pin_directions' = [pin_directions EXCEPT ![getChannel(p)] =
                          IF mode = "OUTPUT" THEN @ \cup {p} ELSE @ \ {p}]

pinMode(p, mode) ==
  /\ is_open
  /\ GpioCall(updateGPIOState(getChannel(p)))
  /\ SetMode(p, mode)
  /\ UNCHANGED <<wiring, is_open, pin_values, pwm_pins, threadVars, usbVars, history, reg>>

digitalWrite(p, level) ==
  /\ is_open /\ pin_modes[p] = "OUTPUT"
  /\ GpioCall(WriteSteps(p, level))
  /\ commanded' = [commanded EXCEPT ![p] = level]
  /\ UNCHANGED <<wiring, classVars, threadVars, usbVars, misrouted, reg>>

digitalRead(p) ==
  /\ is_open
  /\ GpioCall(readGPIOState(getChannel(p)))
  /\ UNCHANGED <<wiring, classVars, threadVars, usbVars, history, reg>>

(* Mutation of AnalogSteps: the pin is written while PWM is still on. *)
AnalogStepsWriteFirst(p, value, on) ==
  CASE value = 0   -> WriteSteps(p, "LOW") \o Locked([do |-> "disable", pin |-> p])
    [] value = 255 -> WriteSteps(p, "HIGH") \o Locked([do |-> "disable", pin |-> p])
    [] OTHER       -> Locked([do |-> "updatePWMPin", pin |-> p, on |-> on])
                      \o <<[do |-> "startPWMThread"]>>

(* What analogWrite() does after the pin is an output: 0 and 255 end PWM   *)
(* on the pin and write it, another value starts it.  `on' tells whether   *)
(* the on-time, rounded down to microseconds, is above 0.                  *)
AnalogSteps(p, value, on) ==
  CASE value = 0   -> Locked([do |-> "disable", pin |-> p]) \o WriteSteps(p, "LOW")
    [] value = 255 -> Locked([do |-> "disable", pin |-> p]) \o WriteSteps(p, "HIGH")
    [] OTHER       -> Locked([do |-> "updatePWMPin", pin |-> p, on |-> on])
                      \o <<[do |-> "startPWMThread"]>>

analogWrite(p, value, on) ==
  /\ is_open
  /\ IF pin_modes[p] # "OUTPUT"
     THEN /\ SetMode(p, "OUTPUT")
          /\ GpioCall(updateGPIOState(getChannel(p)) \o AnalogSteps(p, value, on))
     ELSE /\ GpioCall(AnalogSteps(p, value, on))
          /\ UNCHANGED <<pin_modes, pin_directions>>
  /\ commanded' = [commanded EXCEPT ![p] = CASE value = 0   -> "LOW"
                                             [] value = 255 -> "HIGH"
                                             [] OTHER       -> "none"]
  /\ UNCHANGED <<wiring, is_open, pin_values, pwm_pins, threadVars, usbVars, misrouted, reg>>

analogWriteFrequency(p, on) ==
  /\ is_open
  /\ GpioCall(Locked([do |-> "analogWriteFrequency", pin |-> p, on |-> on]))
  /\ UNCHANGED <<wiring, classVars, threadVars, usbVars, history, reg>>

GpioSketch ==
  \/ GpioBegin
  \/ GpioEnd
  \/ \E p \in wiring.pins, mode \in {"INPUT", "OUTPUT"} : pinMode(p, mode)
  \/ \E p \in wiring.pins, level \in Level : digitalWrite(p, level)
  \/ \E p \in wiring.pins : digitalRead(p)
  \/ \E p \in wiring.pwm, value \in {0, 128, 255}, on \in BOOLEAN :
       analogWrite(p, value, on)
  \/ \E p \in wiring.pwm, on \in BOOLEAN : analogWriteFrequency(p, on)
-----------------------------------------------------------------------------
(* The PWM thread begins a pass, or leaves its function. *)
pwmThreadFunction ==
  /\ alive /\ todo["pwm"] = <<>>
  /\ IF pwm_thread_running
     THEN /\ todo' = [todo EXCEPT !["pwm"] = <<[do |-> "lock"], [do |-> "edges"]>>]
          /\ UNCHANGED alive
     ELSE /\ alive' = FALSE
          /\ UNCHANGED todo
  /\ UNCHANGED <<wiring, classVars, pwm_thread_running, mutex, usbVars, history, reg>>

Doing(t, what) == todo[t] # <<>> /\ Head(todo[t]).do = what
Now(t) == Head(todo[t])
StepDone(t) == todo' = [todo EXCEPT ![t] = Tail(@)]

(* What a pass writes: the new bit of each of the pins, in their order. *)
PassWrites(now, pins) ==
  [k \in 1 .. 2 * Len(pins) |->
     LET p == pins[(k + 1) \div 2]
     IN SetBit(p, IF now[p] THEN "HIGH" ELSE "LOW")[2 - (k % 2)]]

(* Mutation of PassSteps: no changed channel is noted. *)
PassStepsNoUpdate(now, pins) ==
  PassWrites(now, pins) \o <<[do |-> "unlock"], [do |-> "lock"], [do |-> "unlock"]>>

(* The rest of a pass: the values of the pins that change, then the        *)
(* changed channels, then a look at the periods.                           *)
PassSteps(now, pins) ==
  LET changed(c) == \E i \in 1 .. Len(pins) : getChannel(pins[i]) = c
  IN PassWrites(now, pins) \o <<[do |-> "unlock"]>>
     \o (IF changed("A") THEN updateGPIOState("A") ELSE <<>>)
     \o (IF changed("B") THEN updateGPIOState("B") ELSE <<>>)
     \o <<[do |-> "lock"], [do |-> "unlock"]>>

(* Of each enabled pin the period may be over (it goes high if it has an   *)
(* on-time), or the on-time (it goes low), or neither.  The map holds the  *)
(* pins in ascending order.                                                *)
Edges(t) ==
  /\ Doing(t, "edges")
  /\ \E now \in [Pin -> BOOLEAN] :
       /\ \A p \in Pin :
            now[p] \in IF pwm_pins[p].enabled
                       THEN {pwm_pins[p].current_state, pwm_pins[p].on, FALSE}
                       ELSE {pwm_pins[p].current_state}
       /\ pwm_pins' = [p \in Pin |-> [pwm_pins[p] EXCEPT !.current_state = now[p]]]
       /\ LET changed == {p \in Pin : now[p] # pwm_pins[p].current_state}
          IN \E pins \in [1 .. Cardinality(changed) -> changed] :
               /\ \A i, j \in DOMAIN pins : i < j => pins[i] < pins[j]
               /\ todo' = [todo EXCEPT ![t] = PassSteps(now, pins)]
  /\ UNCHANGED <<wiring, is_open, pin_modes, pin_directions, pin_values, threadVars,
                 usbVars, history, reg>>
-----------------------------------------------------------------------------
Lock(t) ==
  /\ Doing(t, "lock") /\ mutex = "free"
  /\ mutex' = t
  /\ StepDone(t)
  /\ UNCHANGED <<wiring, classVars, pwm_thread_running, alive, usbVars, history, reg>>

Unlock(t) ==
  /\ Doing(t, "unlock")
  /\ mutex' = "free"
  /\ StepDone(t)
  /\ UNCHANGED <<wiring, classVars, pwm_thread_running, alive, usbVars, history, reg>>

(* What is done under pwm_mutex to the entry of one pin. *)
Entry(p) ==
  CASE Now("main").do = "disable" -> [pwm_pins[p] EXCEPT !.enabled = FALSE]
    [] Now("main").do = "updatePWMPin" ->
         [enabled |-> TRUE, on |-> Now("main").on, current_state |-> FALSE]
    [] Now("main").do = "analogWriteFrequency" ->
         IF pwm_pins[p].enabled THEN [pwm_pins[p] EXCEPT !.on = Now("main").on]
                                ELSE pwm_pins[p]

ChangeEntry ==
  /\ todo["main"] # <<>>
  /\ Now("main").do \in {"disable", "updatePWMPin", "analogWriteFrequency"}
  /\ pwm_pins' = [pwm_pins EXCEPT ![Now("main").pin] = Entry(Now("main").pin)]
  /\ StepDone("main")
  /\ UNCHANGED <<wiring, is_open, pin_modes, pin_directions, pin_values, threadVars,
                 usbVars, history, reg>>

startPWMThread ==
  /\ Doing("main", "startPWMThread")
  /\ pwm_thread_running' = TRUE
  /\ alive' = TRUE
  /\ StepDone("main")
  /\ UNCHANGED <<wiring, classVars, mutex, usbVars, history, reg>>

ClearRunning ==
  /\ Doing("main", "clear_running")
  /\ pwm_thread_running' = FALSE
  /\ StepDone("main")
  /\ UNCHANGED <<wiring, classVars, alive, mutex, usbVars, history, reg>>

Join ==
  /\ Doing("main", "join") /\ ~alive
  /\ StepDone("main")
  /\ UNCHANGED <<wiring, classVars, threadVars, usbVars, history, reg>>

(* The context is freed; modes and PWM entries go, values and directions   *)
(* stay for the next begin().                                              *)
CloseContext ==
  /\ Doing("main", "close")
  /\ is_open' = FALSE
  /\ pin_modes' = [p \in Pin |-> "none"]
  /\ pwm_pins' = [p \in Pin |-> NoPwm]
  /\ commanded' = [p \in Pin |-> "none"]
  /\ StepDone("main")
  /\ UNCHANGED <<wiring, pin_directions, pin_values, threadVars, usbVars, misrouted, reg>>

LoadValues(t) ==
  /\ Doing(t, "load_values")
  /\ reg' = [reg EXCEPT ![t] = pin_values[Now(t).ch]]
  /\ StepDone(t)
  /\ UNCHANGED <<wiring, classVars, threadVars, usbVars, history>>

StoreValues(t) ==
  /\ Doing(t, "store_values")
  /\ pin_values' = [pin_values EXCEPT ![Now(t).ch] =
       IF Now(t).level = "HIGH" THEN reg[t] \cup {Now(t).pin}
                                ELSE reg[t] \ {Now(t).pin}]
  /\ reg' = [reg EXCEPT ![t] = {}]
  /\ StepDone(t)
  /\ UNCHANGED <<wiring, is_open, pin_modes, pin_directions, pwm_pins, threadVars,
                 usbVars, history>>

LoadDirections(t) ==
  /\ Doing(t, "load_directions")
  /\ reg' = [reg EXCEPT ![t] = pin_directions[Now(t).ch]]
  /\ StepDone(t)
  /\ UNCHANGED <<wiring, classVars, threadVars, usbVars, history>>
-----------------------------------------------------------------------------
(* libftdi: a call acts on the interface that is selected. *)
UsbSetInterface(t) ==
  /\ Doing(t, "set_interface")
  /\ selected' = Now(t).to
  /\ StepDone(t)
  /\ UNCHANGED <<wiring, classVars, threadVars, device, history, reg>>

UsbSetBitmode(t) ==
  /\ Doing(t, "set_bitmode")
  /\ device' = [device EXCEPT ![selected].directions = reg[t]]
  /\ reg' = [reg EXCEPT ![t] = {}]
  /\ misrouted' = (misrouted \/ selected # Now(t).ch)
  /\ StepDone(t)
  /\ UNCHANGED <<wiring, classVars, threadVars, selected, commanded>>

UsbWriteData(t) ==
  /\ Doing(t, "write_data")
  /\ device' = [device EXCEPT ![selected].values = pin_values[Now(t).ch],
                              ![selected].told = TRUE]
  /\ misrouted' = (misrouted \/ selected # Now(t).ch)
  /\ StepDone(t)
  /\ UNCHANGED <<wiring, classVars, threadVars, selected, commanded, reg>>

UsbReadPins(t) ==
  /\ Doing(t, "read_pins")
  /\ misrouted' = (misrouted \/ selected # Now(t).ch)
  /\ StepDone(t)
  /\ UNCHANGED <<wiring, classVars, threadVars, usbVars, commanded, reg>>

UsbFail(t) ==
  /\ wiring.fails
  /\ todo[t] # <<>>
  /\ Now(t).do \in {"set_interface", "set_bitmode", "write_data", "read_pins"}
  /\ todo' = [todo EXCEPT ![t] = GivenUp(@)]
  /\ reg' = [reg EXCEPT ![t] = {}]
  /\ UNCHANGED <<wiring, classVars, threadVars, usbVars, history>>

Shared(t) ==
  \/ Lock(t) \/ Unlock(t)
  \/ LoadValues(t) \/ StoreValues(t) \/ LoadDirections(t)
  \/ UsbSetInterface(t) \/ UsbSetBitmode(t) \/ UsbWriteData(t)
  \/ UsbReadPins(t) \/ UsbFail(t)

Main ==
  \/ Shared("main") \/ ChangeEntry
  \/ startPWMThread \/ ClearRunning \/ Join \/ CloseContext
Pwm == Shared("pwm") \/ pwmThreadFunction \/ Edges("pwm")

FtdiGpioNext == GpioSketch \/ Main \/ Pwm

FtdiGpioSpec == FtdiGpioInit /\ [][FtdiGpioNext]_ftdiGpioVars

(* The operating system runs both threads, and calls of libftdi return;    *)
(* nothing makes the sketch call anything.                                 *)
FtdiGpioFairSpec == FtdiGpioSpec /\ WF_ftdiGpioVars(Main) /\ WF_ftdiGpioVars(Pwm)
-----------------------------------------------------------------------------
(* No libftdi call is made with a context that end() has freed: the PWM    *)
(* thread is gone before the context is.                                   *)
NoUseAfterFree ==
  \A t \in Thread :
    todo[t] # <<>> /\ (\E c \in Channel : IsUsb(Now(t), c)) => is_open

(* What digitalWrite() or analogWrite(0 or 255) last wrote to a pin is     *)
(* still its bit of pin_values when the call is over, whatever the PWM     *)
(* thread does.  The exception is a pin that shares its channel, and thus  *)
(* its byte, with another pin under PWM: digitalWrite() changes the byte   *)
(* without pwm_mutex.                                                      *)
SharesByte(p) == \E q \in wiring.pwm \ {p} : getChannel(q) = getChannel(p)
WriteSurvives ==
  todo["main"] = <<>> =>
    \A p \in Pin :
      commanded[p] # "none" /\ ~pwm_pins[p].enabled /\ ~SharesByte(p) =>
        (p \in pin_values[getChannel(p)]) = (commanded[p] = "HIGH")

(* When neither thread has anything left to do, the device has been told   *)
(* the values of each channel it was ever told anything of, unless a call  *)
(* of libftdi failed.                                                      *)
Resting == (\A t \in Thread : todo[t] = <<>>) /\ is_open
ValuesReachDevice ==
  Resting /\ ~wiring.fails =>
    \A c \in Channel : device[c].told => device[c].values = pin_values[c]

(* The same of the directions when there is one thread.  With two, one     *)
(* thread may send the directions it loaded before the other changed them. *)
DirectionsReachDevice ==
  Resting /\ ~wiring.fails /\ wiring.pwm = {} =>
    \A c \in Channel :
      device[c].told => device[c].directions = pin_directions[c]

(* What the device was told is what the class keeps.                       *)
DeviceAgrees == ValuesReachDevice /\ DirectionsReachDevice

(* A call for pins 0-7 acts on channel A and one for pins 8-15 on          *)
(* channel B (HardwareGPIO_FTDI.h:43-45).                                  *)
RightChannel == ~misrouted

(* end() returns: the PWM thread sees the flag, whatever it was doing, and *)
(* can be joined.                                                          *)
Ending == \E k \in 1 .. Len(todo["main"]) : todo["main"][k].do = "close"
EndReturns == Ending ~> ~is_open
=============================================================================
