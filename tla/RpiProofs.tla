------------------------------- MODULE RpiProofs -------------------------------
(***************************************************************************)
(* The hardware of the Raspberry Pi: the shared map of line requests and   *)
(* the levels written, the settings of SPI transfers, the bytes of the I2C *)
(* and the output of the PWM channels and of servos, for every set of      *)
(* objects, pins, settings, slaves, frequencies and pulses.                *)
(***************************************************************************)
EXTENDS RpiGpio, RpiSpi, RpiI2C, Servo, SequenceTheorems, TLAPS

(***************************************************************************)
(* RpiGpio                                                                 *)
(***************************************************************************)
Owner == PinMode \cup {"free", "other"}
Request == [device : Device \cup {"none"}, mode : PinMode \cup {"none", "failed"}]

GpioTypeOK ==
  /\ device_name \in [Object -> Device]
  /\ gpio_chip \in Device \cup {"none"}
  /\ requests \in [Pin -> Request]
  /\ owner \in [Device -> [Pin -> Owner]]

GpioInv == GpioTypeOK /\ HeldIsMapped

(* Changing the line of p on device d: what the other lines have, stays. *)
LEMMA Line ==
  ASSUME NEW o \in [Device -> [Pin -> Owner]], NEW d \in Device, NEW p \in Pin,
         NEW m \in Owner
  PROVE  LET o2 == [o EXCEPT ![d][p] = m]
         IN /\ o2 \in [Device -> [Pin -> Owner]]
            /\ \A e \in Device, q \in Pin :
                 o2[e][q] = IF e = d /\ q = p THEN m ELSE o[e][q]
OBVIOUS

(* Released() frees the line of the entry of p and no other. *)
LEMMA ReleasedFrees ==
  ASSUME GpioInv, NEW p \in Pin
  PROVE  /\ Released(p).owner \in [Device -> [Pin -> Owner]]
         /\ Released(p).entry = NoRequest
         /\ \A d \in Device : Released(p).owner[d][p] \notin PinMode
         /\ \A d \in Device, q \in Pin \ {p} : Released(p).owner[d][q] = owner[d][q]
<1> DEFINE o == [d \in Device |-> [owner[d] EXCEPT ![p] =
                   IF requests[p].device = d /\ @ \in PinMode THEN "free" ELSE @]]
<1>1. Released(p).owner = o /\ Released(p).entry = NoRequest
  BY DEF Released
<1>2. \A d \in Device : owner[d] \in [Pin -> Owner]
  BY DEF GpioInv, GpioTypeOK
<1>3. ASSUME NEW d \in Device
      PROVE  /\ o[d] \in [Pin -> Owner]
             /\ o[d][p] \notin PinMode
             /\ \A q \in Pin \ {p} : o[d][q] = owner[d][q]
  <2>1. owner[d] \in [Pin -> Owner]
    BY <1>2
  <2>2. o[d] = [owner[d] EXCEPT ![p] =
                  IF requests[p].device = d /\ owner[d][p] \in PinMode
                  THEN "free" ELSE owner[d][p]]
    OBVIOUS
  <2>3. owner[d][p] \in PinMode => requests[p].device = d
    <3>1. SUFFICES ASSUME NEW mode \in PinMode, owner[d][p] = mode
                   PROVE  requests[p].device = d
      OBVIOUS
    <3>2. requests[p] = [device |-> d, mode |-> mode]
      BY <3>1 DEF GpioInv, HeldIsMapped
    <3>3. QED
      BY <3>2
  <2>4. "free" \in Owner /\ "free" \notin PinMode
    BY DEF Owner, PinMode
  <2>5. CASE owner[d][p] \in PinMode
    BY <2>1, <2>2, <2>3, <2>4, <2>5
  <2>6. CASE owner[d][p] \notin PinMode
    <3>1. o[d] = [owner[d] EXCEPT ![p] = owner[d][p]]
      BY <2>2, <2>6
    <3>2. QED
      BY <2>1, <2>6, <3>1
  <2>7. QED
    BY <2>5, <2>6
<1>4. o \in [Device -> [Pin -> Owner]]
  BY <1>3
<1>5. QED
  BY <1>1, <1>3, <1>4

(* pinMode(), alone or inside digitalWrite() and digitalRead(), keeps the  *)
(* lines and the map in step.                                              *)
LEMMA RequestedKeeps ==
  ASSUME GpioInv, NEW p \in Pin, NEW mode \in PinMode,
         owner' = Requested(p, mode).owner,
         requests' = [requests EXCEPT ![p] = Requested(p, mode).entry],
         UNCHANGED <<gpio_chip, device_name>>
  PROVE  GpioInv'
<1>1. CASE gpio_chip = "none"
  <2>1. owner' = owner /\ requests' = [requests EXCEPT ![p] = requests[p]]
    BY <1>1 DEF Requested
  <2>2. requests' = requests
    BY <2>1 DEF GpioInv, GpioTypeOK
  <2>3. QED
    BY <2>1, <2>2 DEF GpioInv, GpioTypeOK, HeldIsMapped
<1>2. CASE gpio_chip # "none" /\ Released(p).owner[gpio_chip][p] = "other"
  <2>1. owner' = Released(p).owner /\ requests' = [requests EXCEPT ![p] = Failed(NoRequest)]
    BY <1>2, ReleasedFrees DEF Requested
  <2>2. Failed(NoRequest) \in Request /\ Failed(NoRequest).mode \notin PinMode
    BY DEF Failed, NoRequest, Request, PinMode, GpioInv, GpioTypeOK
  <2>3. GpioTypeOK'
    BY <2>1, <2>2, ReleasedFrees DEF GpioInv, GpioTypeOK
  <2>4. HeldIsMapped'
    BY <2>1, <2>2, ReleasedFrees DEF GpioInv, GpioTypeOK, HeldIsMapped
  <2>5. QED
    BY <2>3, <2>4 DEF GpioInv
<1>3. CASE gpio_chip # "none" /\ Released(p).owner[gpio_chip][p] # "other"
  <2> DEFINE o == Released(p).owner
  <2>1. gpio_chip \in Device /\ mode \in Owner
    BY <1>3 DEF GpioInv, GpioTypeOK, Owner
  <2>2. /\ owner' = [o EXCEPT ![gpio_chip][p] = mode]
        /\ requests' = [requests EXCEPT ![p] = [device |-> gpio_chip, mode |-> mode]]
    BY <1>3 DEF Requested
  <2>3. o \in [Device -> [Pin -> Owner]]
    BY ReleasedFrees
  <2>4. /\ owner' \in [Device -> [Pin -> Owner]]
        /\ \A d \in Device, q \in Pin :
             owner'[d][q] = IF d = gpio_chip /\ q = p THEN mode ELSE o[d][q]
    BY <2>1, <2>2, <2>3, Line
  <2>5. [device |-> gpio_chip, mode |-> mode] \in Request
    BY <2>1 DEF Request
  <2>6. GpioTypeOK'
    BY <2>2, <2>4, <2>5 DEF GpioInv, GpioTypeOK
  <2>7. HeldIsMapped'
    BY <2>1, <2>2, <2>4, ReleasedFrees DEF GpioInv, GpioTypeOK, HeldIsMapped
  <2>8. QED
    BY <2>6, <2>7 DEF GpioInv
<1>4. QED
  BY <1>1, <1>2, <1>3

(* The same for a pin that is used before pinMode(). *)
LEMMA EnsuredKeeps ==
  ASSUME GpioInv, NEW p \in Pin, NEW mode \in PinMode,
         owner' = EnsuredFor(p, mode).owner,
         requests' = [requests EXCEPT ![p] = EnsuredFor(p, mode).entry],
         UNCHANGED <<gpio_chip, device_name>>
  PROVE  GpioInv'
<1>1. CASE requests[p] = NoRequest
  BY <1>1, RequestedKeeps DEF EnsuredFor
<1>2. CASE requests[p] # NoRequest
  <2>1. owner' = owner /\ requests' = [requests EXCEPT ![p] = requests[p]]
    BY <1>2 DEF EnsuredFor
  <2>2. requests' = requests
    BY <2>1 DEF GpioInv, GpioTypeOK
  <2>3. QED
    BY <2>1, <2>2 DEF GpioInv, GpioTypeOK, HeldIsMapped
<1>3. QED
  BY <1>1, <1>2

(* The destructor releases every line of every object. *)
LEMMA GpioDestroyKeeps ==
  ASSUME GpioInv, NEW o \in Object, GpioDestroy(o)
  PROVE  GpioInv'
<1>1. /\ requests' = [p \in Pin |-> NoRequest]
      /\ owner' = [d \in Device |-> [p \in Pin |->
                     IF owner[d][p] \in PinMode THEN "free" ELSE owner[d][p]]]
      /\ gpio_chip' = "none" /\ device_name' = device_name
  BY DEF GpioDestroy
<1>2. NoRequest \in Request /\ NoRequest.mode \notin PinMode
  BY DEF NoRequest, Request, PinMode
<1>3. \A d \in Device, p \in Pin : owner'[d][p] \in Owner \ PinMode
  BY <1>1 DEF GpioInv, GpioTypeOK, Owner, PinMode
<1>4. GpioTypeOK'
  BY <1>1, <1>2, <1>3 DEF GpioInv, GpioTypeOK
<1>5. HeldIsMapped'
  BY <1>1, <1>2, <1>3 DEF HeldIsMapped
<1>6. QED
  BY <1>4, <1>5 DEF GpioInv

(* Another program takes and leaves lines that are not ours. *)
LEMMA OtherKeeps ==
  ASSUME GpioInv, NEW d \in Device, NEW p \in Pin, OtherProgram(d, p)
  PROVE  GpioInv'
<1> DEFINE m == IF owner[d][p] = "free" THEN "other" ELSE "free"
<1>1. /\ owner[d][p] \in {"free", "other"}
      /\ owner' = [owner EXCEPT ![d][p] = m]
      /\ UNCHANGED <<device_name, gpio_chip, requests>>
  BY DEF OtherProgram
<1>2. m \in Owner /\ m \notin PinMode /\ owner[d][p] \notin PinMode
  BY <1>1 DEF Owner, PinMode
<1>3. /\ owner' \in [Device -> [Pin -> Owner]]
      /\ \A e \in Device, q \in Pin :
           owner'[e][q] = IF e = d /\ q = p THEN m ELSE owner[e][q]
  BY <1>1, <1>2, Line DEF GpioInv, GpioTypeOK
<1> HIDE DEF m
<1>4. GpioTypeOK'
  BY <1>1, <1>3 DEF GpioInv, GpioTypeOK
<1>5. \A e \in Device, q \in Pin, mode \in PinMode :
        owner'[e][q] = mode <=> owner[e][q] = mode
  BY <1>2, <1>3
<1>6. HeldIsMapped'
  <2>1. requests' = requests /\ HeldIsMapped
    BY <1>1 DEF GpioInv
  <2>2. SUFFICES ASSUME NEW e \in Device, NEW q \in Pin, NEW mode \in PinMode
                 PROVE  owner'[e][q] = mode <=> requests'[q] = [device |-> e, mode |-> mode]
    BY DEF HeldIsMapped
  <2>3. QED
    BY <1>5, <2>1 DEF HeldIsMapped
<1>7. QED
  BY <1>4, <1>6 DEF GpioInv

(* GpioInv is inductive. *)
LEMMA StepGpioInv ==
  ASSUME GpioInv, [RpiGpioNext]_rpiGpioVars
  PROVE  GpioInv'
<1>1. ASSUME NEW o \in Object, NEW opens \in BOOLEAN, GpioBegin(o, opens) PROVE GpioInv'
  BY <1>1 DEF GpioBegin, kernel, GpioInv, GpioTypeOK, HeldIsMapped
<1>2. ASSUME NEW o \in Object, GpioDestroy(o) PROVE GpioInv'
  BY <1>2, GpioDestroyKeeps
<1>3. ASSUME NEW o \in Object, NEW p \in Pin, NEW mode \in PinMode, pinMode(o, p, mode)
      PROVE  GpioInv'
  BY <1>3, RequestedKeeps DEF pinMode
<1>4. ASSUME NEW o \in Object, NEW p \in Pin, NEW status \in {"HIGH", "LOW"},
             digitalWrite(o, p, status)
      PROVE  GpioInv'
  BY <1>4, EnsuredKeeps DEF digitalWrite, PinMode
<1>5. ASSUME NEW o \in Object, NEW p \in Pin, digitalRead(o, p) PROVE GpioInv'
  BY <1>5, EnsuredKeeps DEF digitalRead, PinMode
<1>6. ASSUME NEW d \in Device, NEW p \in Pin, OtherProgram(d, p) PROVE GpioInv'
  BY <1>6, OtherKeeps
<1>7. CASE UNCHANGED rpiGpioVars
  BY <1>7 DEF rpiGpioVars, GpioInv, GpioTypeOK, HeldIsMapped
<1>8. QED
  BY <1>1, <1>2, <1>3, <1>4, <1>5, <1>6, <1>7 DEF RpiGpioNext

(* The lines this program owns are those of the map, in the same mode,     *)
(* whichever objects request, release and are destroyed and whatever other *)
(* programs hold: pinMode(), requestLine() and the destructor.             *)
THEOREM LinesAreMapped == RpiGpioSpec => []HeldIsMapped
<1>1. RpiGpioInit => GpioInv
  BY DEF RpiGpioInit, GpioInv, GpioTypeOK, HeldIsMapped, Owner, Request, NoRequest, PinMode
<1>2. GpioInv /\ [RpiGpioNext]_rpiGpioVars => GpioInv'
  BY StepGpioInv
<1>3. GpioInv => HeldIsMapped
  BY DEF GpioInv
<1>4. QED
  BY <1>1, <1>2, <1>3, PTL DEF RpiGpioSpec

(* Every line has a level, and those that exist keep having one. *)
Levels == level \in [Device -> [Pin -> {"LOW", "HIGH"}]]

LEMMA LevelSet ==
  ASSUME NEW l \in [Device -> [Pin -> {"LOW", "HIGH"}]], NEW d, NEW p \in Pin,
         NEW status \in {"LOW", "HIGH"}
  PROVE  [l EXCEPT ![d][p] = status] \in [Device -> [Pin -> {"LOW", "HIGH"}]]
OBVIOUS

LEMMA RequestedLevels ==
  ASSUME Levels, NEW p \in Pin, NEW mode \in PinMode
  PROVE  Requested(p, mode).level \in [Device -> [Pin -> {"LOW", "HIGH"}]]
<1>1. \/ Requested(p, mode).level = level
      \/ Requested(p, mode).level = [level EXCEPT ![gpio_chip][p] = "LOW"]
  BY DEF Requested
<1>2. [level EXCEPT ![gpio_chip][p] = "LOW"] \in [Device -> [Pin -> {"LOW", "HIGH"}]]
  BY LevelSet DEF Levels
<1>3. QED
  BY <1>1, <1>2 DEF Levels

LEMMA EnsuredLevels ==
  ASSUME Levels, NEW p \in Pin, NEW mode \in PinMode
  PROVE  EnsuredFor(p, mode).level \in [Device -> [Pin -> {"LOW", "HIGH"}]]
BY RequestedLevels DEF EnsuredFor, Levels

LEMMA StepLevels ==
  ASSUME Levels, [RpiGpioNext]_rpiGpioVars
  PROVE  Levels'
<1>1. ASSUME NEW o \in Object, NEW opens \in BOOLEAN, GpioBegin(o, opens) PROVE Levels'
  BY <1>1 DEF GpioBegin, kernel, Levels
<1>2. ASSUME NEW o \in Object, GpioDestroy(o) PROVE Levels'
  BY <1>2 DEF GpioDestroy, Levels
<1>3. ASSUME NEW o \in Object, NEW p \in Pin, NEW mode \in PinMode, pinMode(o, p, mode)
      PROVE  Levels'
  BY <1>3, RequestedLevels DEF pinMode, Levels
<1>4. ASSUME NEW o \in Object, NEW p \in Pin, NEW status \in {"HIGH", "LOW"},
             digitalWrite(o, p, status)
      PROVE  Levels'
  <2> DEFINE l == EnsuredFor(p, "OUTPUT").level
             d == EnsuredFor(p, "OUTPUT").entry.device
  <2>1. level' = l \/ level' = [l EXCEPT ![d][p] = status]
    BY <1>4 DEF digitalWrite
  <2>2. l \in [Device -> [Pin -> {"LOW", "HIGH"}]]
    BY EnsuredLevels DEF PinMode
  <2> HIDE DEF l, d
  <2>3. status \in {"LOW", "HIGH"}
    OBVIOUS
  <2>4. [l EXCEPT ![d][p] = status] \in [Device -> [Pin -> {"LOW", "HIGH"}]]
    BY <2>2, <2>3, LevelSet
  <2>5. QED
    BY <2>1, <2>2, <2>4 DEF Levels
<1>5. ASSUME NEW o \in Object, NEW p \in Pin, digitalRead(o, p) PROVE Levels'
  BY <1>5, EnsuredLevels DEF digitalRead, PinMode, Levels
<1>6. ASSUME NEW d \in Device, NEW p \in Pin, OtherProgram(d, p) PROVE Levels'
  BY <1>6 DEF OtherProgram, Levels
<1>7. CASE UNCHANGED rpiGpioVars
  BY <1>7 DEF rpiGpioVars, Levels
<1>8. QED
  BY <1>1, <1>2, <1>3, <1>4, <1>5, <1>6, <1>7 DEF RpiGpioNext

(* A writable pin has, or gets, a line of its object's chip as an output.  *)
LEMMA EnsuredReaches ==
  ASSUME GpioInv, NEW o \in Object, NEW p \in Pin, Writable(o, p)
  PROVE  EnsuredFor(p, "OUTPUT").entry = [device |-> device_name[o], mode |-> "OUTPUT"]
<1>1. gpio_chip = device_name[o] /\ gpio_chip \in Device /\ gpio_chip # "none"
  BY DeviceAssumption DEF Writable, GpioInv, GpioTypeOK
<1>2. CASE requests[p] = NoRequest
  <2>1. owner[gpio_chip] \in [Pin -> Owner] /\ owner[gpio_chip][p] # "other"
    BY <1>1 DEF Writable, GpioInv, GpioTypeOK
  <2>2. Released(p).owner[gpio_chip][p] # "other"
    <3>1. Released(p).owner[gpio_chip] =
            [owner[gpio_chip] EXCEPT ![p] =
               IF requests[p].device = gpio_chip /\ owner[gpio_chip][p] \in PinMode
               THEN "free" ELSE owner[gpio_chip][p]]
      BY <1>1 DEF Released
    <3>2. QED
      BY <2>1, <3>1
  <2>3. QED
    BY <1>1, <1>2, <2>2 DEF EnsuredFor, Requested
<1>3. CASE requests[p] = [device |-> gpio_chip, mode |-> "OUTPUT"]
  <2>1. requests[p] # NoRequest
    BY <1>3 DEF NoRequest
  <2>2. QED
    BY <1>1, <1>3, <2>1 DEF EnsuredFor
<1>4. QED
  BY <1>2, <1>3 DEF Writable

(* A request for an output changes the level of that line only. *)
LEMMA RequestedChanges ==
  ASSUME GpioInv, Levels, NEW p \in Pin, NEW d \in Device, NEW q \in Pin,
         Requested(p, "OUTPUT").level[d][q] # level[d][q]
  PROVE  q = p /\ Requested(p, "OUTPUT").owner[d][q] = "OUTPUT"
<1>1. /\ gpio_chip # "none" /\ Released(p).owner[gpio_chip][p] # "other"
      /\ Requested(p, "OUTPUT").level = [level EXCEPT ![gpio_chip][p] = "LOW"]
      /\ Requested(p, "OUTPUT").owner = [Released(p).owner EXCEPT ![gpio_chip][p] = "OUTPUT"]
  BY DEF Requested
<1> DEFINE after == Requested(p, "OUTPUT").level
<1>2. d = gpio_chip /\ q = p
  <2>1. level \in [Device -> [Pin -> {"LOW", "HIGH"}]] /\ after = [level EXCEPT ![gpio_chip][p] = "LOW"]
    BY <1>1 DEF Levels
  <2>2. after[d][q] # level[d][q]
    OBVIOUS
  <2> HIDE DEF after
  <2>3. CASE d # gpio_chip
    <3>1. after[d] = level[d]
      BY <2>1, <2>3
    <3>2. QED
      BY <2>2, <3>1
  <2>4. CASE d = gpio_chip /\ q # p
    <3>1. after[d] = [level[d] EXCEPT ![p] = "LOW"] /\ level[d] \in [Pin -> {"LOW", "HIGH"}]
      BY <2>1, <2>4
    <3>2. after[d][q] = level[d][q]
      BY <2>4, <3>1
    <3>3. QED
      BY <2>2, <3>2
  <2>5. QED
    BY <2>3, <2>4
<1>3. Released(p).owner \in [Device -> [Pin -> Owner]] /\ "OUTPUT" \in Owner
  BY ReleasedFrees DEF Owner, PinMode
<1>4. QED
  BY <1>1, <1>2, <1>3, Line

(* What digitalWrite() changes is a line this program holds as an output. *)
LEMMA WritesOutputs ==
  ASSUME GpioInv, Levels, NEW o \in Object, NEW p \in Pin, NEW status \in {"HIGH", "LOW"},
         digitalWrite(o, p, status), NEW d \in Device, NEW q \in Pin,
         level'[d][q] # level[d][q]
  PROVE  q = p /\ owner'[d][q] = "OUTPUT"
<1> DEFINE l == EnsuredFor(p, "OUTPUT").level
           entry == EnsuredFor(p, "OUTPUT").entry
<1>1. /\ owner' = EnsuredFor(p, "OUTPUT").owner
      /\ level' = IF entry.mode = "OUTPUT" THEN [l EXCEPT ![entry.device][p] = status] ELSE l
      /\ requests' = [requests EXCEPT ![p] = entry]
      /\ UNCHANGED <<gpio_chip, device_name>>
  BY DEF digitalWrite
<1>2. GpioInv'
  BY <1>1, EnsuredKeeps DEF PinMode
<1>3. l \in [Device -> [Pin -> {"LOW", "HIGH"}]]
  BY EnsuredLevels DEF PinMode
<1>4. CASE l[d][q] # level[d][q]
  <2>1. requests[p] = NoRequest
    BY <1>4 DEF EnsuredFor
  <2>2. QED
    BY <1>1, <1>4, <2>1, RequestedChanges DEF EnsuredFor
<1>5. CASE l[d][q] = level[d][q]
  <2> HIDE DEF l, entry
  <2>1. entry.mode = "OUTPUT" /\ entry.device = d /\ q = p
    BY <1>1, <1>3, <1>5
  <2>2. requests'[p] = entry /\ entry \in Request
    BY <1>1, <1>2 DEF GpioInv, GpioTypeOK
  <2>3. requests'[p] = [device |-> d, mode |-> "OUTPUT"]
    BY <2>1, <2>2 DEF Request
  <2>4. QED
    BY <1>2, <2>1, <2>3 DEF GpioInv, HeldIsMapped, PinMode
<1>6. QED
  BY <1>4, <1>5

(* digitalWrite() changes no line but one of that pin's number that this   *)
(* program holds as an output, whatever chip the shared map stands for by  *)
(* then; and it puts the level on the line of the object's own chip if     *)
(* that is the shared chip, the line is not another program's and the map  *)
(* has no entry for another chip, an input or a refused line               *)
(* (HardwareGPIO_RPI.h:73).                                                *)
THEOREM WritesArrive == RpiGpioSpec => WriteReaches
<1>1. RpiGpioInit => GpioInv /\ Levels
  BY DEF RpiGpioInit, GpioInv, GpioTypeOK, HeldIsMapped, Owner, Request, NoRequest, PinMode,
         Levels
<1>2. GpioInv /\ Levels /\ [RpiGpioNext]_rpiGpioVars => GpioInv' /\ Levels'
  BY StepGpioInv, StepLevels
<1>3. ASSUME GpioInv, Levels, NEW o \in Object, NEW p \in Pin, NEW status \in {"HIGH", "LOW"},
             digitalWrite(o, p, status), Writable(o, p)
      PROVE  level'[device_name[o]][p] = status
  <2> DEFINE l == EnsuredFor(p, "OUTPUT").level
             entry == EnsuredFor(p, "OUTPUT").entry
  <2>0. entry.mode = "OUTPUT" /\ entry.device = device_name[o]
    <3>1. entry = [device |-> device_name[o], mode |-> "OUTPUT"]
      BY <1>3, EnsuredReaches
    <3> HIDE DEF entry
    <3>2. QED
      BY <3>1
  <2>1. level' = [l EXCEPT ![device_name[o]][p] = status]
    <3>1. level' = IF entry.mode = "OUTPUT" THEN [l EXCEPT ![entry.device][p] = status] ELSE l
      BY <1>3 DEF digitalWrite
    <3> HIDE DEF l, entry
    <3>2. QED
      BY <2>0, <3>1
  <2>2. l \in [Device -> [Pin -> {"LOW", "HIGH"}]] /\ device_name[o] \in Device
    BY <1>3, EnsuredLevels DEF PinMode, GpioInv, GpioTypeOK
  <2> HIDE DEF l
  <2>3. QED
    BY <2>1, <2>2
<1>4. GpioInv /\ Levels =>
        \A o \in Object, p \in Pin, status \in {"HIGH", "LOW"} :
          digitalWrite(o, p, status) =>
            /\ Writable(o, p) => level'[device_name[o]][p] = status
            /\ \A d \in Device, q \in Pin :
                 level'[d][q] # level[d][q] => q = p /\ owner'[d][q] = "OUTPUT"
  BY <1>3, WritesOutputs
<1>5. QED
  BY <1>1, <1>2, <1>4, PTL DEF RpiGpioSpec, WriteReaches

-----------------------------------------------------------------------------
(***************************************************************************)
(* RpiSpi                                                                  *)
(***************************************************************************)
(* The object keeps the mode and the speed that were asked for; the device *)
(* has the mode as long as it is open, and the bit order unless it was     *)
(* opened again or refuses the order.                                      *)
SpiInv ==
  /\ spi_mode = asked.mode /\ spi_speed = asked.speed
  /\ asked.order \in Order
  /\ spi_fd = "open" =>
       /\ device.mode = asked.mode
       /\ device.order # asked.order =>
            asked.order = "LSBFIRST" /\ (reopened \/ ~lsbWorks)

LEMMA StepSpiInv ==
  ASSUME SpiInv, [RpiSpiNext]_rpiSpiVars
  PROVE  SpiInv'
<1> USE DEF SpiInv, Order
<1>1. ASSUME NEW opens \in BOOLEAN, SPIBegin(opens) PROVE SpiInv'
  BY <1>1 DEF SPIBegin
<1>2. ASSUME NEW s \in Settings, beginTransaction(s) PROVE SpiInv'
  BY <1>2 DEF beginTransaction, Settings
<1>3. CASE SPIEnd
  BY <1>3 DEF SPIEnd
<1>4. CASE transfer
  BY <1>4 DEF transfer
<1>5. CASE UNCHANGED rpiSpiVars
  BY <1>5 DEF rpiSpiVars
<1>6. QED
  BY <1>1, <1>2, <1>3, <1>4, <1>5 DEF RpiSpiNext

(* Whatever the order of begin(), end() and beginTransaction(), a transfer *)
(* has the mode and the speed of the last settings, and their bit order    *)
(* but for the two exceptions TransferAsSettings names.                    *)
THEOREM SettingsReachTheWire == RpiSpiSpec => TransferAsSettings
<1>1. RpiSpiInit => SpiInv
  BY DEF RpiSpiInit, SpiInv, DefaultSettings, Order
<1>2. SpiInv /\ [RpiSpiNext]_rpiSpiVars => SpiInv'
  BY StepSpiInv
<1>3. SpiInv /\ transfer =>
        /\ wire'.mode = asked.mode /\ wire'.speed = asked.speed
        /\ wire'.order # asked.order => asked.order = "LSBFIRST" /\ (reopened \/ ~lsbWorks)
  BY DEF SpiInv, transfer
<1>4. QED
  BY <1>1, <1>2, <1>3, PTL DEF RpiSpiSpec, TransferAsSettings

-----------------------------------------------------------------------------
(***************************************************************************)
(* RpiI2C                                                                  *)
(***************************************************************************)
Target == Slave \cup {None}
Begun == [for : Target, refused : BOOLEAN, moved : BOOLEAN]
I2CByte == [no : Nat, of : Begun]
Delivery == [byte : I2CByte, by : Target]

I2CTypeOK ==
  /\ address \in Target /\ begun \in Begun
  /\ written \in Nat
  /\ i2c_tx_buffer \in Seq(I2CByte)
  /\ delivered \in Seq(Delivery)

(* The numbers of the bytes grow through what was delivered and then       *)
(* through the buffer, up to the last one written.                         *)
Ascending ==
  /\ \A i \in DOMAIN i2c_tx_buffer :
       /\ i2c_tx_buffer[i].no \in 1 .. written
       /\ \A j \in DOMAIN i2c_tx_buffer : i < j => i2c_tx_buffer[i].no < i2c_tx_buffer[j].no
  /\ \A i \in DOMAIN delivered :
       /\ delivered[i].byte.no \in 1 .. written
       /\ \A j \in DOMAIN delivered : i < j => delivered[i].byte.no < delivered[j].byte.no
       /\ \A j \in DOMAIN i2c_tx_buffer : delivered[i].byte.no < i2c_tx_buffer[j].no

InBuffer(n) == \E i \in DOMAIN i2c_tx_buffer : i2c_tx_buffer[i].no = n
Delivered(n) == \E i \in DOMAIN delivered : delivered[i].byte.no = n

(* What is neither in the buffer nor delivered was dropped. *)
NoneLost ==
  \A n : n \in dropped <=> n \in 1 .. written /\ ~InBuffer(n) /\ ~Delivered(n)

(* The kernel's address is that of the transmissions whose address was     *)
(* neither refused nor changed, unless the descriptor was closed.          *)
Addressed ==
  /\ Sure(begun) => address \in {begun.for, None}
  /\ \A i \in DOMAIN i2c_tx_buffer :
       Sure(i2c_tx_buffer[i].of) => address \in {i2c_tx_buffer[i].of.for, None}
  /\ ReachesItsSlave

Replied ==
  /\ answer \in Seq(Target \X Nat)
  /\ i2c_rx_buffer = answer
  /\ i2c_rx_pos \in 0 .. Len(i2c_rx_buffer)

I2CInv == I2CTypeOK /\ Ascending /\ NoneLost /\ Addressed /\ Replied

(* A sequence followed by n more elements. *)
LEMMA Joined ==
  ASSUME NEW S, NEW s \in Seq(S), NEW n \in Nat, NEW t \in [1 .. n -> S]
  PROVE  /\ s \o t \in Seq(S) /\ Len(s) \in Nat
         /\ DOMAIN s = 1 .. Len(s) /\ DOMAIN (s \o t) = 1 .. Len(s) + n
         /\ \A i \in 1 .. Len(s) : (s \o t)[i] = s[i]
         /\ \A i \in 1 .. n : (s \o t)[Len(s) + i] = t[i]
         /\ \A i \in DOMAIN (s \o t) : i \in 1 .. Len(s) \/ i - Len(s) \in 1 .. n
<1>1. t \in Seq(S) /\ Len(t) = n
  <2>1. t \in Seq(S)
    BY SeqDef
  <2>2. QED
    BY <2>1, LenProperties
<1>2. /\ s \o t \in Seq(S) /\ Len(s \o t) = Len(s) + n
      /\ \A i \in 1 .. Len(s) + n : (s \o t)[i] = IF i <= Len(s) THEN s[i] ELSE t[i - Len(s)]
  BY <1>1, ConcatProperties
<1>3. Len(s) \in Nat /\ DOMAIN s = 1 .. Len(s) /\ DOMAIN (s \o t) = 1 .. Len(s) + n
  BY <1>2, LenProperties
<1>4. \A i \in 1 .. n : (s \o t)[Len(s) + i] = t[i]
  <2> SUFFICES ASSUME NEW i \in 1 .. n
               PROVE  (s \o t)[Len(s) + i] = t[i]
    OBVIOUS
  <2>1. Len(s) + i \in 1 .. Len(s) + n /\ ~(Len(s) + i <= Len(s)) /\ (Len(s) + i) - Len(s) = i
    BY <1>3
  <2>2. QED
    BY <1>2, <2>1
<1>5. QED
  BY <1>2, <1>3, <1>4

(* A byte of the buffer keeps its number when a slave is addressed, and    *)
(* its transmission too, but for the note that it is another slave.        *)
LEMMA MovedBytes ==
  ASSUME I2CTypeOK, NEW a \in Slave, NEW accepted \in BOOLEAN, SetAddress(a, accepted)
  PROVE  /\ i2c_tx_buffer' \in Seq(I2CByte) /\ DOMAIN i2c_tx_buffer' = DOMAIN i2c_tx_buffer
         /\ \A i \in DOMAIN i2c_tx_buffer :
              /\ i2c_tx_buffer'[i].no = i2c_tx_buffer[i].no
              /\ i2c_tx_buffer'[i].of = Moved(i2c_tx_buffer[i].of, a, accepted)
              /\ i2c_tx_buffer[i].of \in Begun
<1> DEFINE b == i2c_tx_buffer'
           n == Len(i2c_tx_buffer)
<1>1. /\ n \in Nat /\ DOMAIN i2c_tx_buffer = 1 .. n
      /\ \A i \in 1 .. n : i2c_tx_buffer[i] \in I2CByte
  BY LenProperties, ElementOfSeq DEF I2CTypeOK
<1>2. b = [i \in 1 .. n |-> [i2c_tx_buffer[i] EXCEPT !.of = Moved(@, a, accepted)]]
  BY <1>1 DEF SetAddress
<1>3. \A i \in 1 .. n :
        /\ b[i] \in I2CByte /\ b[i].no = i2c_tx_buffer[i].no
        /\ b[i].of = Moved(i2c_tx_buffer[i].of, a, accepted)
        /\ i2c_tx_buffer[i].of \in Begun
  <2> SUFFICES ASSUME NEW i \in 1 .. n
               PROVE  /\ b[i] \in I2CByte /\ b[i].no = i2c_tx_buffer[i].no
                      /\ b[i].of = Moved(i2c_tx_buffer[i].of, a, accepted)
                      /\ i2c_tx_buffer[i].of \in Begun
    OBVIOUS
  <2>1. i2c_tx_buffer[i] \in I2CByte /\ i2c_tx_buffer[i].of \in Begun
    BY <1>1 DEF I2CByte
  <2>2. Moved(i2c_tx_buffer[i].of, a, accepted) \in Begun
    BY <2>1 DEF Moved, Begun
  <2>3. QED
    BY <1>2, <2>1, <2>2 DEF I2CByte
<1>4. b \in [1 .. n -> I2CByte]
  BY <1>2, <1>3
<1>5. b \in Seq(I2CByte)
  BY <1>1, <1>4, SeqDef
<1>6. QED
  BY <1>1, <1>2, <1>3, <1>5

(* A slave is addressed, or refused: begin(address), beginTransmission()   *)
(* and requestFrom().                                                      *)
LEMMA Readdressed ==
  ASSUME I2CInv, NEW a \in Slave, NEW accepted \in BOOLEAN, SetAddress(a, accepted),
         \/ begun' = Moved(begun, a, accepted)
         \/ begun' = Transmission(a, ~accepted),
         UNCHANGED <<written, outcome>>
  PROVE  I2CTypeOK' /\ Ascending' /\ NoneLost' /\ Addressed'
<1>1. /\ i2c_tx_buffer' \in Seq(I2CByte) /\ DOMAIN i2c_tx_buffer' = DOMAIN i2c_tx_buffer
      /\ \A i \in DOMAIN i2c_tx_buffer :
           /\ i2c_tx_buffer'[i].no = i2c_tx_buffer[i].no
           /\ i2c_tx_buffer'[i].of = Moved(i2c_tx_buffer[i].of, a, accepted)
           /\ i2c_tx_buffer[i].of \in Begun
  BY MovedBytes DEF I2CInv
<1>2. /\ delivered' = delivered /\ dropped' = dropped /\ written' = written
      /\ address' = IF accepted THEN a ELSE address
  BY DEF outcome, SetAddress
<1>3. I2CTypeOK'
  <2>1. begun' \in Begun
    <3>1. begun \in Begun
      BY DEF I2CInv, I2CTypeOK
    <3>2. Moved(begun, a, accepted) \in Begun
      BY <3>1 DEF Moved, Begun
    <3>3. Transmission(a, ~accepted) \in Begun
      BY DEF Transmission, Begun, Target
    <3>4. QED
      BY <3>2, <3>3
  <2>2. QED
    BY <1>1, <1>2, <2>1 DEF I2CInv, I2CTypeOK, Target
<1>4. Ascending'
  BY <1>1, <1>2 DEF I2CInv, Ascending
<1>5. NoneLost'
  <2>1. \A n : (InBuffer(n)' <=> InBuffer(n)) /\ (Delivered(n)' <=> Delivered(n))
    BY <1>1, <1>2 DEF InBuffer, Delivered
  <2>2. QED
    BY <1>2, <2>1 DEF I2CInv, NoneLost
<1>6. Addressed'
  <2>1. ASSUME NEW t \in Begun, Sure(t) => address \in {t.for, None}, Sure(Moved(t, a, accepted))
        PROVE  address' \in {Moved(t, a, accepted).for, None}
    BY <1>2, <2>1 DEF Begun, Moved, Sure
  <2>2. Sure(Transmission(a, ~accepted)) => address' = Transmission(a, ~accepted).for
    BY <1>2 DEF Transmission, Sure
  <2>3. begun \in Begun
    BY DEF I2CInv, I2CTypeOK
  <2>4. Sure(begun') => address' \in {begun'.for, None}
    BY <2>1, <2>2, <2>3 DEF I2CInv, Addressed
  <2>5. \A i \in DOMAIN i2c_tx_buffer' :
          Sure(i2c_tx_buffer'[i].of) => address' \in {i2c_tx_buffer'[i].of.for, None}
    BY <1>1, <2>1 DEF I2CInv, Addressed
  <2>6. QED
    BY <1>2, <2>4, <2>5 DEF I2CInv, Addressed, ReachesItsSlave
<1>7. QED
  BY <1>3, <1>4, <1>5, <1>6

(* write() appends the next n bytes. *)
LEMMA I2CWriteKeeps ==
  ASSUME I2CInv, NEW n \in Nat, i2cWrite(n)
  PROVE  I2CInv'
<1> DEFINE len == Len(i2c_tx_buffer)
           new == [i \in 1 .. n |-> [no |-> written + i, of |-> begun]]
<1>1. /\ i2c_tx_buffer' = i2c_tx_buffer \o new /\ written' = written + n
      /\ UNCHANGED <<address, begun, i2c_rx_buffer, i2c_rx_pos, answer, delivered, dropped>>
  BY DEF i2cWrite, rx, outcome
<1>2. new \in [1 .. n -> I2CByte]
  BY DEF I2CByte, I2CInv, I2CTypeOK
<1>3. \A i \in 1 .. n : new[i].no = written + i /\ new[i].of = begun
  OBVIOUS
<1> HIDE DEF new
<1>4. /\ i2c_tx_buffer' \in Seq(I2CByte) /\ len \in Nat
      /\ DOMAIN i2c_tx_buffer = 1 .. len /\ DOMAIN i2c_tx_buffer' = 1 .. len + n
      /\ \A i \in 1 .. len : i2c_tx_buffer'[i] = i2c_tx_buffer[i]
      /\ \A i \in 1 .. n : i2c_tx_buffer'[len + i] = new[i]
      /\ \A i \in DOMAIN i2c_tx_buffer' : i \in 1 .. len \/ i - len \in 1 .. n
  BY <1>1, <1>2, Joined DEF I2CInv, I2CTypeOK
<1>5. written \in Nat /\ written' \in Nat
  BY <1>1 DEF I2CInv, I2CTypeOK
<1> HIDE DEF len
<1>6. \A i \in DOMAIN i2c_tx_buffer' :
        \/ i \in 1 .. len /\ i2c_tx_buffer'[i] = i2c_tx_buffer[i]
        \/ /\ i - len \in 1 .. n /\ i2c_tx_buffer'[i].no = written + (i - len)
           /\ i2c_tx_buffer'[i].of = begun
  <2> SUFFICES ASSUME NEW i \in DOMAIN i2c_tx_buffer', i - len \in 1 .. n
               PROVE  i2c_tx_buffer'[i] = new[i - len]
    BY <1>3, <1>4
  <2>1. i2c_tx_buffer'[len + (i - len)] = new[i - len]
    BY <1>4
  <2>2. len + (i - len) = i
    BY <1>4
  <2>3. QED
    BY <2>1, <2>2
<1>7. I2CTypeOK'
  BY <1>1, <1>4, <1>5 DEF I2CInv, I2CTypeOK
<1>8. Ascending'
  <2>1. ASSUME NEW i \in DOMAIN i2c_tx_buffer'
        PROVE  i2c_tx_buffer'[i].no \in 1 .. written'
    <3>1. CASE i \in 1 .. len /\ i2c_tx_buffer'[i] = i2c_tx_buffer[i]
      <4>1. i2c_tx_buffer[i].no \in 1 .. written
        BY <1>4, <3>1 DEF I2CInv, Ascending
      <4>2. QED
        BY <1>1, <1>5, <3>1, <4>1
    <3>2. CASE i - len \in 1 .. n /\ i2c_tx_buffer'[i].no = written + (i - len)
      BY <1>1, <1>5, <3>2
    <3>3. QED
      BY <1>6, <3>1, <3>2
  <2>2. ASSUME NEW i \in DOMAIN i2c_tx_buffer', NEW j \in DOMAIN i2c_tx_buffer', i < j
        PROVE  i2c_tx_buffer'[i].no < i2c_tx_buffer'[j].no
    <3>1. CASE i - len \in 1 .. n /\ i2c_tx_buffer'[i].no = written + (i - len)
      <4>1. /\ j - len \in 1 .. n /\ i2c_tx_buffer'[j].no = written + (j - len)
            /\ i \in Nat /\ j \in Nat
        BY <1>4, <1>6, <2>2, <3>1
      <4> QED
        BY <1>4, <1>5, <2>2, <3>1, <4>1
    <3>2. CASE i \in 1 .. len /\ i2c_tx_buffer'[i] = i2c_tx_buffer[i]
      <4>1. i2c_tx_buffer[i].no \in 1 .. written
        BY <1>4, <3>2 DEF I2CInv, Ascending
      <4>2. CASE j \in 1 .. len /\ i2c_tx_buffer'[j] = i2c_tx_buffer[j]
        BY <1>4, <2>2, <3>2, <4>2 DEF I2CInv, Ascending
      <4>3. CASE j - len \in 1 .. n /\ i2c_tx_buffer'[j].no = written + (j - len)
        BY <1>4, <1>5, <3>2, <4>1, <4>3
      <4> QED
        BY <1>6, <4>2, <4>3
    <3> QED
      BY <1>6, <3>1, <3>2
  <2>3. ASSUME NEW i \in DOMAIN delivered
        PROVE  /\ delivered[i].byte.no \in 1 .. written'
               /\ \A j \in DOMAIN i2c_tx_buffer' :
                    delivered[i].byte.no < i2c_tx_buffer'[j].no
    <3>1. delivered[i].byte.no \in 1 .. written
      BY DEF I2CInv, Ascending
    <3>2. delivered[i].byte.no \in 1 .. written'
      BY <1>1, <1>5, <3>1
    <3>3. ASSUME NEW j \in DOMAIN i2c_tx_buffer'
          PROVE  delivered[i].byte.no < i2c_tx_buffer'[j].no
      <4>1. CASE j \in 1 .. len /\ i2c_tx_buffer'[j] = i2c_tx_buffer[j]
        BY <1>4, <4>1 DEF I2CInv, Ascending
      <4>2. CASE j - len \in 1 .. n /\ i2c_tx_buffer'[j].no = written + (j - len)
        BY <1>4, <1>5, <3>1, <4>2
      <4> QED
        BY <1>6, <4>1, <4>2
    <3> QED
      BY <3>2, <3>3
  <2>4. QED
    BY <1>1, <2>1, <2>2, <2>3 DEF I2CInv, Ascending
<1>9. NoneLost'
  <2>1. ASSUME NEW m
        PROVE  InBuffer(m)' <=> InBuffer(m) \/ m \in written + 1 .. written'
    <3>1. ASSUME InBuffer(m) PROVE InBuffer(m)'
      BY <1>4, <3>1 DEF InBuffer
    <3>2. ASSUME m \in written + 1 .. written' PROVE InBuffer(m)'
      <4>1. m - written \in 1 .. n /\ written + (m - written) = m
        BY <1>1, <1>5, <3>2
      <4>2. len + (m - written) \in DOMAIN i2c_tx_buffer'
        BY <1>4, <4>1
      <4>3. i2c_tx_buffer'[len + (m - written)].no = m
        BY <1>3, <1>4, <4>1
      <4>4. QED
        BY <4>2, <4>3 DEF InBuffer
    <3>3. ASSUME InBuffer(m)' PROVE InBuffer(m) \/ m \in written + 1 .. written'
      <4>1. PICK i \in DOMAIN i2c_tx_buffer' : i2c_tx_buffer'[i].no = m
        BY <3>3 DEF InBuffer
      <4>2. CASE i \in 1 .. len /\ i2c_tx_buffer'[i] = i2c_tx_buffer[i]
        BY <1>4, <4>1, <4>2 DEF InBuffer
      <4>3. CASE i - len \in 1 .. n /\ i2c_tx_buffer'[i].no = written + (i - len)
        <5>1. m = written + (i - len) /\ written' = written + n
          BY <1>1, <4>1, <4>3
        <5>2. QED
          BY <1>5, <4>3, <5>1
      <4>4. QED
        BY <1>6, <4>1, <4>2, <4>3
    <3>4. QED
      BY <3>1, <3>2, <3>3
  <2>2. \A m : Delivered(m)' <=> Delivered(m)
    BY <1>1 DEF Delivered
  <2>3. \A m : Delivered(m) => m \in 1 .. written
    BY DEF I2CInv, Ascending, Delivered
  <2>4. ASSUME NEW m
        PROVE  m \in dropped' <=> m \in 1 .. written' /\ ~InBuffer(m)' /\ ~Delivered(m)'
    <3>1. m \in 1 .. written' <=> m \in 1 .. written \/ m \in written + 1 .. written'
      BY <1>1, <1>5
    <3>2. ~(m \in 1 .. written /\ m \in written + 1 .. written')
      BY <1>5
    <3>3. m \in dropped <=> m \in 1 .. written /\ ~InBuffer(m) /\ ~Delivered(m)
      BY DEF I2CInv, NoneLost
    <3>4. QED
      BY <1>1, <2>1, <2>2, <2>3, <3>1, <3>2, <3>3
  <2>5. QED
    BY <2>4 DEF NoneLost
<1>10. Addressed'
  <2>1. \A i \in DOMAIN i2c_tx_buffer' :
          Sure(i2c_tx_buffer'[i].of) => address \in {i2c_tx_buffer'[i].of.for, None}
    BY <1>4, <1>6 DEF I2CInv, Addressed
  <2>2. QED
    BY <1>1, <2>1 DEF I2CInv, Addressed, ReachesItsSlave
<1>11. Replied'
  BY <1>1 DEF I2CInv, Replied
<1>12. QED
  BY <1>7, <1>8, <1>9, <1>10, <1>11 DEF I2CInv

(* endTransmission() delivers the buffer to the slave that is addressed,   *)
(* or drops it.                                                            *)
LEMMA EndTransmissionKeeps ==
  ASSUME I2CInv, NEW acked \in BOOLEAN, endTransmission(acked)
  PROVE  I2CInv'
<1> DEFINE len == Len(delivered)
           n == Len(i2c_tx_buffer)
<1>1. /\ i2c_tx_buffer' = <<>>
      /\ UNCHANGED <<address, begun, written, i2c_rx_buffer, i2c_rx_pos, answer>>
  BY DEF endTransmission, rx
<1>2. /\ n \in Nat /\ DOMAIN i2c_tx_buffer = 1 .. n
      /\ \A i \in 1 .. n : i2c_tx_buffer[i] \in I2CByte
  BY LenProperties, ElementOfSeq DEF I2CInv, I2CTypeOK
<1>3. <<>> \in Seq(I2CByte) /\ DOMAIN <<>> = {} /\ \A m : ~InBuffer(m)'
  BY <1>1, EmptySeq DEF InBuffer
<1>4. Replied'
  BY <1>1 DEF I2CInv, Replied
<1> HIDE DEF n, len
<1>5. CASE acked
  <2> DEFINE new == [i \in 1 .. n |-> [byte |-> i2c_tx_buffer[i], by |-> address]]
  <2>1. delivered' = delivered \o new /\ dropped' = dropped
    BY <1>2, <1>5 DEF endTransmission
  <2>2. new \in [1 .. n -> Delivery]
    BY <1>2 DEF Delivery, I2CInv, I2CTypeOK
  <2>3. \A i \in 1 .. n : new[i].byte = i2c_tx_buffer[i] /\ new[i].by = address
    OBVIOUS
  <2> HIDE DEF new
  <2>4. /\ delivered' \in Seq(Delivery) /\ len \in Nat
        /\ DOMAIN delivered = 1 .. len /\ DOMAIN delivered' = 1 .. len + n
        /\ \A i \in 1 .. len : delivered'[i] = delivered[i]
        /\ \A i \in 1 .. n : delivered'[len + i] = new[i]
        /\ \A i \in DOMAIN delivered' : i \in 1 .. len \/ i - len \in 1 .. n
    <3>1. delivered \in Seq(Delivery) /\ n \in Nat
      BY <1>2 DEF I2CInv, I2CTypeOK
    <3>2. QED
      BY <2>1, <2>2, <3>1, Joined DEF len
  <2>5. \A i \in DOMAIN delivered' :
          \/ i \in DOMAIN delivered /\ delivered'[i] = delivered[i]
          \/ /\ i - len \in DOMAIN i2c_tx_buffer
             /\ delivered'[i].byte = i2c_tx_buffer[i - len] /\ delivered'[i].by = address
    <3> SUFFICES ASSUME NEW i \in DOMAIN delivered', i - len \in 1 .. n
                 PROVE  delivered'[i] = new[i - len]
      BY <1>2, <2>3, <2>4
    <3>1. delivered'[len + (i - len)] = new[i - len] /\ len + (i - len) = i
      BY <2>4
    <3>2. QED
      BY <3>1
  <2>6. I2CTypeOK'
    BY <1>1, <1>3, <2>4 DEF I2CInv, I2CTypeOK
  <2>7. Ascending'
    <3>1. \A i \in DOMAIN delivered' : delivered'[i].byte.no \in 1 .. written
      BY <2>5 DEF I2CInv, Ascending
    <3>2. ASSUME NEW i \in DOMAIN delivered', NEW j \in DOMAIN delivered', i < j
          PROVE  delivered'[i].byte.no < delivered'[j].byte.no
      <4>1. CASE j \in DOMAIN delivered
        BY <2>4, <3>2, <4>1 DEF I2CInv, Ascending
      <4>2. CASE i \in DOMAIN delivered /\ j - len \in DOMAIN i2c_tx_buffer
        BY <1>2, <2>4, <2>5, <4>2 DEF I2CInv, Ascending
      <4>3. CASE i - len \in DOMAIN i2c_tx_buffer /\ j - len \in DOMAIN i2c_tx_buffer
        <5>1. i - len < j - len
          BY <2>4, <3>2
        <5>2. i \notin DOMAIN delivered /\ j \notin DOMAIN delivered
          BY <1>2, <2>4, <4>3
        <5>3. QED
          BY <2>5, <4>3, <5>1, <5>2 DEF I2CInv, Ascending
      <4>4. QED
        BY <1>2, <2>4, <3>2, <4>1, <4>2, <4>3
    <3>3. QED
      BY <1>1, <1>3, <3>1, <3>2 DEF Ascending
  <2>8. NoneLost'
    <3>1. ASSUME NEW m
          PROVE  Delivered(m)' <=> Delivered(m) \/ InBuffer(m)
      <4>1. ASSUME Delivered(m) PROVE Delivered(m)'
        BY <1>2, <2>4, <4>1 DEF Delivered
      <4>2. ASSUME NEW i \in DOMAIN i2c_tx_buffer, i2c_tx_buffer[i].no = m PROVE Delivered(m)'
        <5>1. len + i \in DOMAIN delivered' /\ delivered'[len + i].byte = i2c_tx_buffer[i]
          BY <1>2, <2>3, <2>4
        <5>2. QED
          BY <4>2, <5>1 DEF Delivered
      <4>3. ASSUME Delivered(m)' PROVE Delivered(m) \/ InBuffer(m)
        BY <2>5, <4>3 DEF Delivered, InBuffer
      <4>4. QED
        BY <4>1, <4>2, <4>3 DEF InBuffer
    <3>2. QED
      BY <1>1, <1>3, <2>1, <3>1 DEF I2CInv, NoneLost
  <2>9. Addressed'
    <3>1. address # None
      BY <1>5 DEF endTransmission
    <3>3. ReachesItsSlave'
      BY <2>5, <3>1 DEF I2CInv, Addressed, ReachesItsSlave
    <3>2. QED
      BY <1>1, <1>3, <3>3 DEF I2CInv, Addressed
  <2>10. QED
    BY <1>4, <2>6, <2>7, <2>8, <2>9 DEF I2CInv
<1>6. CASE ~acked
  <2>1. /\ delivered' = delivered
        /\ dropped' = dropped \cup {i2c_tx_buffer[i].no : i \in DOMAIN i2c_tx_buffer}
    BY <1>6 DEF endTransmission
  <2>2. I2CTypeOK'
    BY <1>1, <1>3, <2>1 DEF I2CInv, I2CTypeOK
  <2>3. Ascending'
    BY <1>1, <1>3, <2>1 DEF I2CInv, Ascending
  <2>4. NoneLost'
    <3>1. ASSUME NEW m
          PROVE  m \in dropped' <=> m \in 1 .. written /\ ~Delivered(m)
      <4>1. m \in dropped' <=> m \in dropped \/ InBuffer(m)
        BY <2>1 DEF InBuffer
      <4>2. InBuffer(m) => m \in 1 .. written /\ ~Delivered(m)
        BY DEF I2CInv, Ascending, InBuffer, Delivered
      <4>3. QED
        BY <4>1, <4>2 DEF I2CInv, NoneLost
    <3>2. \A m : Delivered(m)' <=> Delivered(m)
      BY <2>1 DEF Delivered
    <3>3. QED
      BY <1>1, <1>3, <3>1, <3>2 DEF NoneLost
  <2>5. Addressed'
    BY <1>1, <1>3, <2>1 DEF I2CInv, Addressed, ReachesItsSlave
  <2>6. QED
    BY <1>4, <2>2, <2>3, <2>4, <2>5 DEF I2CInv
<1>7. QED
  BY <1>5, <1>6

(* requestFrom() addresses the slave and takes its answer. *)
LEMMA RequestFromKeeps ==
  ASSUME I2CInv, NEW a \in Slave, NEW len \in Nat, NEW got \in Nat, NEW accepted \in BOOLEAN,
         requestFrom(a, len, accepted, got)
  PROVE  I2CInv'
<1> DEFINE bytes == [i \in 1 .. got |-> <<address', i>>]
           room == Resized(i2c_rx_buffer, len)
           filled == [i \in 1 .. len |-> IF i <= got THEN bytes[i] ELSE room[i]]
<1>1. I2CTypeOK' /\ Ascending' /\ NoneLost' /\ Addressed'
  BY Readdressed DEF requestFrom
<1>2. bytes \in [1 .. got -> Target \X Nat]
  BY <1>1 DEF I2CTypeOK
<1>3. bytes \in Seq(Target \X Nat)
  BY <1>2, SeqDef
<1>4. /\ got <= len /\ i2c_rx_pos' = 0 /\ answer' = bytes
      /\ i2c_rx_buffer' = Resized(filled, got)
  BY DEF requestFrom
<1>5. \A i \in 1 .. got : i \in DOMAIN filled /\ filled[i] = bytes[i]
  BY <1>4
<1>6. Resized(filled, got) = [i \in 1 .. got |-> bytes[i]]
  BY <1>5 DEF Resized
<1>7. i2c_rx_buffer' = bytes
  BY <1>4, <1>6
<1> HIDE DEF bytes, filled
<1>8. Replied'
  BY <1>3, <1>4, <1>7, LenProperties DEF Replied
<1>9. QED
  BY <1>1, <1>8 DEF I2CInv

(* I2CInv is inductive. *)
LEMMA StepI2CInv ==
  ASSUME I2CInv, [RpiI2CNext]_rpiI2CVars
  PROVE  I2CInv'
<1>1. ASSUME NEW opens \in BOOLEAN, I2CBegin(opens) PROVE I2CInv'
  BY <1>1 DEF I2CBegin, tx, rx, outcome, I2CInv, I2CTypeOK, Ascending, NoneLost, Addressed,
              ReachesItsSlave, Replied, InBuffer, Delivered
<1>2. ASSUME NEW a \in Slave, NEW opens \in BOOLEAN, NEW accepted \in BOOLEAN,
             BeginAddress(a, opens, accepted)
      PROVE  I2CInv'
  <2>1. I2CTypeOK' /\ Ascending' /\ NoneLost' /\ Addressed'
    BY <1>2, Readdressed DEF BeginAddress
  <2>2. QED
    BY <1>2, <2>1 DEF BeginAddress, rx, I2CInv, Replied
<1>3. CASE I2CEnd
  BY <1>3 DEF I2CEnd, tx, rx, outcome, I2CInv, I2CTypeOK, Ascending, NoneLost, Addressed,
              ReachesItsSlave, Replied, InBuffer, Delivered, Target
<1>4. CASE read
  <2>1. i2c_rx_pos' \in 0 .. Len(i2c_rx_buffer)
    BY <1>4, LenProperties DEF read, I2CInv, Replied
  <2>2. QED
    BY <1>4, <2>1 DEF read, tx, outcome, I2CInv, I2CTypeOK, Ascending, NoneLost, Addressed,
                      ReachesItsSlave, Replied, InBuffer, Delivered
<1>5. ASSUME NEW a \in Slave, NEW accepted \in BOOLEAN, beginTransmission(a, accepted)
      PROVE  I2CInv'
  <2>1. I2CTypeOK' /\ Ascending' /\ NoneLost' /\ Addressed'
    BY <1>5, Readdressed DEF beginTransmission
  <2>2. QED
    BY <1>5, <2>1 DEF beginTransmission, rx, I2CInv, Replied
<1>6. ASSUME NEW n \in 1 .. MaxLen, i2cWrite(n) PROVE I2CInv'
  BY <1>6, I2CWriteKeeps, LenAssumption
<1>7. ASSUME NEW acked \in BOOLEAN, endTransmission(acked) PROVE I2CInv'
  BY <1>7, EndTransmissionKeeps
<1>8. ASSUME NEW a \in Slave, NEW len \in 1 .. MaxLen, NEW got \in 0 .. MaxLen,
             NEW accepted \in BOOLEAN, requestFrom(a, len, accepted, got)
      PROVE  I2CInv'
  <2>1. len \in Nat /\ got \in Nat
    BY LenAssumption
  <2>2. QED
    BY <1>8, <2>1, RequestFromKeeps
<1>9. CASE UNCHANGED rpiI2CVars
  BY <1>9 DEF rpiI2CVars, tx, rx, outcome, I2CInv, I2CTypeOK, Ascending, NoneLost, Addressed,
              ReachesItsSlave, Replied, InBuffer, Delivered
<1>10. QED
  BY <1>1, <1>2, <1>3, <1>4, <1>5, <1>6, <1>7, <1>8, <1>9 DEF RpiI2CNext

LEMMA InitI2CInv == RpiI2CInit => I2CInv
<1> SUFFICES ASSUME RpiI2CInit
             PROVE  I2CInv
  OBVIOUS
<1>1. <<>> \in Seq(I2CByte) /\ <<>> \in Seq(Delivery) /\ <<>> \in Seq(Target \X Nat)
  BY EmptySeq
<1>2. DOMAIN <<>> = {} /\ Len(<<>>) = 0
  BY EmptySeq
<1>3. QED
  BY <1>1, <1>2 DEF RpiI2CInit, I2CInv, I2CTypeOK, Ascending, NoneLost, Addressed,
                    ReachesItsSlave, Replied, InBuffer, Delivered, Target, Begun, Transmission, Sure

(* j is s and the n elements of t behind it. *)
JoinOf(j, s, n, t) ==
  /\ DOMAIN j = 1 .. Len(s) + n
  /\ \A i \in 1 .. Len(s) : j[i] = s[i]
  /\ \A i \in 1 .. n : j[Len(s) + i] = t[i]
  /\ \A i \in DOMAIN j : i \in 1 .. Len(s) \/ i - Len(s) \in 1 .. n

LEMMA NumbersJoined ==
  ASSUME NEW s \in Seq(Nat), NEW n \in Nat, NEW t \in [1 .. n -> Nat]
  PROVE  JoinOf(s \o t, s, n, t)
<1>1. DOMAIN (s \o t) = 1 .. Len(s) + n
  BY Joined
<1>2. \A i \in 1 .. Len(s) : (s \o t)[i] = s[i]
  BY Joined
<1>3. \A i \in 1 .. n : (s \o t)[Len(s) + i] = t[i]
  BY Joined
<1>4. \A i \in DOMAIN (s \o t) : i \in 1 .. Len(s) \/ i - Len(s) \in 1 .. n
  BY Joined
<1>5. QED
  BY <1>1, <1>2, <1>3, <1>4 DEF JoinOf

(* The numbers of the bytes delivered and then of those in the buffer. *)
LEMMA EveryByte ==
  ASSUME I2CInv
  PROVE  EachByteOnce
<1> DEFINE len == Len(delivered)
           n == Len(i2c_tx_buffer)
           sent == [i \in DOMAIN delivered |-> delivered[i].byte.no]
           kept == [i \in DOMAIN i2c_tx_buffer |-> i2c_tx_buffer[i].no]
           numbers == sent \o kept
<1>1. /\ len \in Nat /\ DOMAIN delivered = 1 .. len
      /\ n \in Nat /\ DOMAIN i2c_tx_buffer = 1 .. n
  BY LenProperties DEF I2CInv, I2CTypeOK
<1>2. /\ \A i \in 1 .. len : delivered[i].byte.no \in Nat
      /\ \A i \in 1 .. n : i2c_tx_buffer[i].no \in Nat
  BY <1>1 DEF I2CInv, Ascending
<1>3. sent \in [1 .. len -> Nat] /\ kept \in [1 .. n -> Nat]
  BY <1>1, <1>2
<1>4. sent \in Seq(Nat)
  BY <1>1, <1>3, SeqDef
<1>5. Len(sent) = len
  BY <1>1, <1>3, <1>4, LenProperties
<1>6. /\ \A i \in 1 .. len : sent[i] = delivered[i].byte.no
      /\ \A i \in 1 .. n : kept[i] = i2c_tx_buffer[i].no
  BY <1>1
<1> HIDE DEF sent, kept, len, n
<1>7. /\ DOMAIN numbers = 1 .. len + n
      /\ \A i \in 1 .. len : numbers[i] = sent[i]
      /\ \A i \in 1 .. n : numbers[len + i] = kept[i]
      /\ \A i \in DOMAIN numbers : i \in 1 .. len \/ i - len \in 1 .. n
  <2>1. n \in Nat
    BY <1>1
  <2>2. JoinOf(sent \o kept, sent, n, kept)
    BY <1>3, <1>4, <2>1, NumbersJoined
  <2>3. JoinOf(numbers, sent, n, kept)
    BY <2>2
  <2> HIDE DEF numbers
  <2>4. QED
    BY <1>5, <2>3 DEF JoinOf
<1> HIDE DEF numbers
<1>8. \A i \in DOMAIN numbers :
        \/ i \in 1 .. len /\ numbers[i] = delivered[i].byte.no
        \/ i - len \in 1 .. n /\ numbers[i] = i2c_tx_buffer[i - len].no
  <2> SUFFICES ASSUME NEW i \in DOMAIN numbers, i - len \in 1 .. n
               PROVE  numbers[i] = kept[i - len]
    BY <1>6, <1>7
  <2>1. numbers[len + (i - len)] = kept[i - len] /\ len + (i - len) = i
    BY <1>1, <1>7
  <2>2. QED
    BY <2>1
<1>9. ASSUME NEW i \in DOMAIN numbers, NEW j \in DOMAIN numbers, i < j
      PROVE  numbers[i] < numbers[j]
  <2>1. CASE j \in 1 .. len
    <3>1. i \in 1 .. len
      BY <1>1, <1>7, <1>9, <2>1
    <3>2. QED
      BY <1>1, <1>6, <1>7, <1>9, <2>1, <3>1 DEF I2CInv, Ascending
  <2>2. CASE i \in 1 .. len /\ j - len \in 1 .. n
    <3>1. numbers[j] = i2c_tx_buffer[j - len].no /\ numbers[i] = delivered[i].byte.no
      BY <1>1, <1>6, <1>7, <1>8, <2>2
    <3>2. QED
      BY <1>1, <2>2, <3>1 DEF I2CInv, Ascending
  <2>3. CASE i - len \in 1 .. n /\ j - len \in 1 .. n
    <3>1. numbers[j] = i2c_tx_buffer[j - len].no /\ numbers[i] = i2c_tx_buffer[i - len].no
      BY <1>1, <1>7, <1>8, <2>3
    <3>2. i - len < j - len
      BY <1>1, <1>7, <1>9
    <3>3. QED
      BY <1>1, <2>3, <3>1, <3>2 DEF I2CInv, Ascending
  <2>4. QED
    BY <1>1, <1>7, <1>9, <2>1, <2>2, <2>3
<1>10. ASSUME NEW m
       PROVE  m \in {numbers[i] : i \in DOMAIN numbers} <=> InBuffer(m) \/ Delivered(m)
  <2>1. ASSUME NEW i \in DOMAIN numbers, m = numbers[i] PROVE InBuffer(m) \/ Delivered(m)
    BY <1>1, <1>8, <2>1 DEF InBuffer, Delivered
  <2>2. ASSUME NEW i \in DOMAIN i2c_tx_buffer, i2c_tx_buffer[i].no = m
        PROVE  \E j \in DOMAIN numbers : numbers[j] = m
    <3>1. len + i \in DOMAIN numbers /\ numbers[len + i] = m
      BY <1>1, <1>6, <1>7, <2>2
    <3>2. QED
      BY <3>1
  <2>3. ASSUME NEW i \in DOMAIN delivered, delivered[i].byte.no = m
        PROVE  \E j \in DOMAIN numbers : numbers[j] = m
    <3>1. i \in DOMAIN numbers /\ numbers[i] = m
      BY <1>1, <1>6, <1>7, <2>3
    <3>2. QED
      BY <3>1
  <2>4. QED
    BY <2>1, <2>2, <2>3 DEF InBuffer, Delivered
<1>11. dropped = 1 .. written \ {numbers[i] : i \in DOMAIN numbers}
  <2>1. \A m : m \in dropped <=> m \in 1 .. written \ {numbers[i] : i \in DOMAIN numbers}
    BY <1>10 DEF I2CInv, NoneLost
  <2>2. QED
    BY <2>1
<1>12. QED
  BY <1>9, <1>11 DEF EachByteOnce, numbers, sent, kept

(* HardwareI2C_RPI sends each byte written once and in order, or drops it  *)
(* with a message that failed; a byte gets to another slave than its       *)
(* transmission was begun for only if the ioctl of beginTransmission() was *)
(* refused or another slave was addressed before endTransmission(); and    *)
(* read() gives the last answer: through every order of the calls, begin() *)
(* and end() among them, and of failures.                                  *)
THEOREM I2CBytesAccounted == RpiI2CSpec => []BytesAccounted
<1>1. RpiI2CInit => I2CInv
  BY InitI2CInv
<1>2. I2CInv /\ [RpiI2CNext]_rpiI2CVars => I2CInv'
  BY StepI2CInv
<1>3. I2CInv => BytesAccounted
  <2>1. ASSUME I2CInv PROVE ReadsLastAnswer
    <3>1. /\ Len(i2c_rx_buffer) \in Nat /\ i2c_rx_buffer = answer
          /\ i2c_rx_pos \in 0 .. Len(i2c_rx_buffer)
      BY <2>1, LenProperties DEF I2CInv, Replied
    <3>2. QED
      BY <3>1 DEF available, ReadsLastAnswer
  <2>2. QED
    BY <2>1, EveryByte DEF I2CInv, Addressed, BytesAccounted
<1>4. QED
  BY <1>1, <1>2, <1>3, PTL DEF RpiI2CSpec

-----------------------------------------------------------------------------
(***************************************************************************)
(* RpiPwm and Servo                                                        *)
(***************************************************************************)
Command == [pin : PwmPin \cup {NoPin}, value : Int, max : Nat \ {0}, freq : Int, ok : BOOLEAN]
Driver == [who : ServoId \cup {"nobody"}, pin : PwmPin \cup {NoPin}, us : Int, exact : BOOLEAN]

(* What is in effect on the channels. *)
EffectTypeOK ==
  /\ period \in [Channel -> Nat] /\ duty \in [Channel -> Nat]
  /\ enabled \in [Channel -> BOOLEAN]
  /\ last \in [Channel -> [command : Command, met : BOOLEAN]]

SettingTypeOK ==
  /\ gpio_frequencies \in [PwmPin -> Int]
  /\ max_value \in Nat \ {0}

(* A duty is never above the period in effect, and not above the one of a  *)
(* command that met all files open: such a command may be refused its      *)
(* period once, and not when it is given again.                            *)
DutyFits ==
  \A c \in Channel :
    LET p == PeriodOf(last[c].command.freq)
    IN /\ duty[c] <= period[c]
       /\ last[c].command.ok /\ p # 0 => duty[c] <= p

ServoTypeOK ==
  /\ _pin \in [ServoId -> PwmPin \cup OtherPin \cup {NoPin}]
  /\ _range \in [ServoId -> [min : Int, max : Int]]
  /\ _pulseUs \in [ServoId -> Int]
  /\ driver \in [Channel -> Driver]

(* The pulse in effect on a channel was written for a pin of that channel, *)
(* and by no command of HardwareGPIO_RPI.                                  *)
DriverOfChannel ==
  \A c \in Channel :
    driver[c].exact => /\ driver[c].who \in ServoId
                       /\ driver[c].pin \in PwmPin /\ ChannelOf(driver[c].pin) = c
                       /\ last[c].command = NoCommand

Effect == EffectTypeOK /\ DutyFits /\ PwmAsCommanded
Drivers == ServoTypeOK /\ DriverOfChannel /\ PulseAsWritten
ServoInv == SettingTypeOK /\ Effect /\ Drivers

LEMMA Multiplied == ASSUME NEW a \in Nat, NEW b \in Nat, NEW m \in Nat, a <= b PROVE a * m <= b * m
OBVIOUS

LEMMA Divided ==
  ASSUME NEW a \in Nat, NEW b \in Nat, NEW m \in Nat \ {0}, a <= b
  PROVE  a \div m \in Nat /\ a \div m <= b \div m
OBVIOUS

LEMMA Cancelled == ASSUME NEW p \in Nat, NEW m \in Nat \ {0} PROVE (m * p) \div m = p
OBVIOUS

LEMMA Wrapped ==
  ASSUME NEW a \in Nat, NEW w \in Nat \ {0}
  PROVE  a % w \in Nat /\ a % w <= a /\ (a < w => a % w = a)
OBVIOUS

(* The duty of a value is its share of the period, or less if the product  *)
(* wraps.                                                                  *)
LEMMA DutyShare ==
  ASSUME max_value \in Nat \ {0}, NEW v \in 0 .. max_value, NEW p \in Nat
  PROVE  LET d == DutyOf(v, p)
         IN /\ d \in Nat /\ d <= p
            /\ d <= (v * p) \div max_value
            /\ v * p < PwmWord => d = (v * p) \div max_value
<1> DEFINE product == v * p
<1>1. v \in Nat /\ max_value \in Nat /\ PwmWord \in Nat \ {0} /\ v <= max_value
  BY PwmAssumption
<1>2. product \in Nat /\ product <= max_value * p /\ max_value * p \in Nat
  BY <1>1, Multiplied
<1> HIDE DEF product
<1>3. /\ product % PwmWord \in Nat /\ product % PwmWord <= product
      /\ product < PwmWord => product % PwmWord = product
  BY <1>1, <1>2, Wrapped
<1>4. /\ (product % PwmWord) \div max_value \in Nat
      /\ (product % PwmWord) \div max_value <= product \div max_value
  BY <1>2, <1>3, Divided
<1>5. product \div max_value \in Nat /\ product \div max_value <= (max_value * p) \div max_value
  BY <1>2, Divided
<1>6. (max_value * p) \div max_value = p
  BY Cancelled
<1>7. DutyOf(v, p) = (product % PwmWord) \div max_value
  BY DEF DutyOf, product
<1>8. product = v * p
  BY DEF product
<1>9. (product % PwmWord) \div max_value <= p
  BY <1>4, <1>5, <1>6
<1>10. QED
  BY <1>3, <1>4, <1>7, <1>8, <1>9

LEMMA PeriodIsNat == \A freq \in Int : PeriodOf(freq) \in Nat
<1>1. Second \in Nat /\ 50000 \in Nat \ {0}
  BY SecondAssumption
<1>2. ASSUME NEW freq \in Int, freq > 0 PROVE Second \div freq \in Nat
  BY <1>1, <1>2, Divided
<1>3. Second \div 50000 \in Nat
  BY <1>1, Divided
<1>4. QED
  BY <1>2, <1>3 DEF PeriodOf

LEMMA PinHasChannel == \A pin \in PwmPin : ChannelOf(pin) \in Channel /\ pin # NoPin
BY PwmAssumption DEF ChannelOf, Channel, NoPin

(* A period and a duty written to a channel. *)
LEMMA EffectOf ==
  ASSUME EffectTypeOK, DutyFits, NEW c \in Channel, NEW p \in Nat, NEW d \in Nat, NEW opens
  PROVE  LET now == InEffect(c, p, d, opens)
         IN /\ now.period \in Nat /\ now.duty \in Nat /\ now.duty <= now.period
            /\ opens = Files /\ d <= p /\ p # 0 =>
                 /\ now.period # 0 /\ now.duty = d
                 /\ duty[c] <= p => now.period = p
<1>1. duty[c] \in Nat /\ period[c] \in Nat /\ duty[c] <= period[c]
  BY DEF EffectTypeOK, DutyFits
<1>2. opens = Files => "period" \in opens /\ "duty" \in opens
  BY DEF Files
<1>3. QED
  BY <1>1, <1>2 DEF InEffect

(* A command of HardwareGPIO_RPI: analogWrite(), tone() and noTone(). *)
LEMMA CommandKeeps ==
  ASSUME max_value \in Nat \ {0}, Effect, NEW pin \in PwmPin, NEW value \in Int,
         NEW freq \in Int, NEW opens, Write(pin, value, freq, opens)
  PROVE  /\ Effect'
         /\ \A e \in Channel :
              last'[e] = last[e] \/ last'[e].command.pin = pin
         /\ \A e \in Channel : last'[e] = last[e] /\ last[e].command = NoCommand =>
              period'[e] = period[e] /\ duty'[e] = duty[e] /\ enabled'[e] = enabled[e]
<1> DEFINE c == ChannelOf(pin)
           v == Clipped(value)
           p == PeriodOf(freq)
           d == DutyOf(v, p)
           now == InEffect(c, p, d, opens)
           command == [pin |-> pin, value |-> v, max |-> max_value, freq |-> freq,
                       ok |-> opens = Files]
           met == (command = last[c].command /\ command.ok) \/ duty[c] <= p
<1>1. c \in Channel /\ p \in Nat /\ pin # NoPin
  BY PinHasChannel, PeriodIsNat
<1>2. v \in 0 .. max_value
  BY DEF Clipped
<1>3. /\ d \in Nat /\ d <= p
      /\ d <= (v * p) \div max_value /\ (v * p < PwmWord => d = (v * p) \div max_value)
  BY <1>1, <1>2, DutyShare
<1>4. /\ period' = [period EXCEPT ![c] = now.period]
      /\ duty' = [duty EXCEPT ![c] = now.duty]
      /\ enabled' = [enabled EXCEPT ![c] = @ \/ ("enable" \in opens /\ now.period # 0)]
      /\ last' = [last EXCEPT ![c] = [command |-> command, met |-> met]]
  BY DEF Write
<1>5. command \in Command /\ met \in BOOLEAN
  BY <1>2 DEF Command
<1>6. command.freq = freq /\ command.value = v /\ command.max = max_value
      /\ command.pin = pin /\ command.ok = (opens = Files)
  OBVIOUS
<1>7. command # NoCommand
  BY <1>1 DEF NoCommand
<1> HIDE DEF c, v, d, now, command, met
<1>8. /\ now.period \in Nat /\ now.duty \in Nat /\ now.duty <= now.period
      /\ opens = Files /\ p # 0 =>
           /\ now.period # 0 /\ now.duty = d
           /\ duty[c] <= p => now.period = p
  BY <1>1, <1>3, EffectOf DEF Effect, now
<1> HIDE DEF p
<1>9. EffectTypeOK'
  BY <1>1, <1>4, <1>5, <1>8 DEF Effect, EffectTypeOK
<1>10. /\ period'[c] = now.period /\ duty'[c] = now.duty
       /\ last'[c].command = command /\ last'[c].met = met
  BY <1>1, <1>4 DEF Effect, EffectTypeOK
<1>11. opens = Files => enabled'[c] = (enabled[c] \/ now.period # 0)
  BY <1>1, <1>4 DEF Effect, EffectTypeOK, Files
<1>12. \A e \in Channel \ {c} :
         /\ period'[e] = period[e] /\ duty'[e] = duty[e]
         /\ enabled'[e] = enabled[e] /\ last'[e] = last[e]
  BY <1>4 DEF Effect, EffectTypeOK
<1>13. p = PeriodOf(command.freq)
  BY <1>6 DEF p
<1>14. DutyFits'
  <2>1. /\ duty'[c] <= period'[c]
        /\ command.ok /\ p # 0 => duty'[c] <= p
    BY <1>1, <1>3, <1>6, <1>8, <1>10
  <2>2. QED
    BY <1>10, <1>12, <1>13, <2>1 DEF Effect, DutyFits, PeriodOf
<1>15. PwmAsCommanded'
  <2>1. ASSUME command.ok, met, p # 0
        PROVE  /\ enabled'[c] /\ period'[c] = p
               /\ duty'[c] <= (v * p) \div max_value
               /\ v * p < PwmWord => duty'[c] = (v * p) \div max_value
    <3>1. duty[c] <= p
      BY <1>1, <1>13, <2>1 DEF met, Effect, DutyFits
    <3>2. QED
      BY <1>3, <1>6, <1>8, <1>10, <1>11, <2>1, <3>1
  <2>2. \A e \in Channel \ {c} :
          LET p2 == PeriodOf(last'[e].command.freq)
              product == last'[e].command.value * p2
          IN last'[e].command.ok /\ last'[e].met /\ p2 # 0 =>
               /\ enabled'[e] /\ period'[e] = p2
               /\ duty'[e] <= product \div last'[e].command.max
               /\ product < PwmWord => duty'[e] = product \div last'[e].command.max
    BY <1>12 DEF Effect, PwmAsCommanded
  <2>3. QED
    BY <1>6, <1>10, <1>13, <2>1, <2>2 DEF PwmAsCommanded, PeriodOf
<1>16. QED
  BY <1>6, <1>7, <1>9, <1>10, <1>12, <1>14, <1>15 DEF Effect

LEMMA PowersOfTwo == \A bits \in 1 .. 16 : 2 ^ bits - 1 \in Nat \ {0}
<1> SUFFICES ASSUME NEW bits \in 1 .. 16
             PROVE  2 ^ bits - 1 \in Nat \ {0}
  OBVIOUS
<1>1. CASE bits = 1
  BY <1>1
<1>2. CASE bits = 2
  BY <1>2
<1>3. CASE bits = 3
  BY <1>3
<1>4. CASE bits = 4
  BY <1>4
<1>5. CASE bits = 5
  BY <1>5
<1>6. CASE bits = 6
  BY <1>6
<1>7. CASE bits = 7
  BY <1>7
<1>8. CASE bits = 8
  BY <1>8
<1>9. CASE bits = 9
  BY <1>9
<1>10. CASE bits = 10
  BY <1>10
<1>11. CASE bits = 11
  BY <1>11
<1>12. CASE bits = 12
  BY <1>12
<1>13. CASE bits = 13
  BY <1>13
<1>14. CASE bits = 14
  BY <1>14
<1>15. CASE bits = 15
  BY <1>15
<1>16. CASE bits = 16
  BY <1>16
<1>17. QED
  BY <1>1, <1>2, <1>3, <1>4, <1>5, <1>6, <1>7, <1>8, <1>9,
     <1>10, <1>11, <1>12, <1>13, <1>14, <1>15, <1>16

(* A channel nothing was written to keeps its pulse, if its servo keeps    *)
(* its own while it is attached to the pin of that pulse.                  *)
LEMMA ChannelKeeps ==
  ASSUME Drivers, NEW c \in Channel,
         period'[c] = period[c], duty'[c] = duty[c], enabled'[c] = enabled[c],
         last'[c] = last[c], driver'[c] = driver[c],
         _pin'[driver[c].who] = driver[c].pin =>
           _pin[driver[c].who] = driver[c].pin
             /\ _pulseUs'[driver[c].who] = _pulseUs[driver[c].who]
  PROVE  driver'[c].exact =>
           /\ driver'[c].who \in ServoId
           /\ driver'[c].pin \in PwmPin /\ ChannelOf(driver'[c].pin) = c
           /\ last'[c].command = NoCommand
           /\ period'[c] = ServoPeriod
           /\ duty'[c] = PulseDuty(driver'[c].us)
           /\ enabled'[c] <=> driver'[c].us > 0
           /\ _pin'[driver'[c].who] = driver'[c].pin =>
                driver'[c].us = _pulseUs'[driver'[c].who]
BY DEF Drivers, DriverOfChannel, PulseAsWritten

LEMMA PulseDutyIsNat == \A us \in Int : PulseDuty(us) \in Nat
<1>1. Second \div 1000000 \in Nat
  BY SecondAssumption, Divided
<1>2. ASSUME NEW us \in Int, us > 0 PROVE us * (Second \div 1000000) \in Nat
  <2>1. us \in Nat
    BY <1>2
  <2>2. QED
    BY <1>1, <2>1, Multiplied
<1>3. QED
  BY <1>2 DEF PulseDuty

(* _writePulse() of servo s, whose pulse is us if it stays attached.       *)
LEMMA PulseKeeps ==
  ASSUME Effect, Drivers, NEW s \in ServoId, NEW pin, NEW us \in Int, NEW opens,
         pin # NoPin, WritePulse(s, pin, us, opens),
         _pin'[s] \in {pin, NoPin}, _pin'[s] = pin => _pulseUs'[s] = us,
         \A t \in ServoId \ {s} : _pin'[t] = _pin[t] /\ _pulseUs'[t] = _pulseUs[t]
  PROVE  Effect' /\ driver' \in [Channel -> Driver] /\ DriverOfChannel' /\ PulseAsWritten'
<1> DEFINE Kept(c) ==
             driver'[c].exact =>
               /\ driver'[c].who \in ServoId
               /\ driver'[c].pin \in PwmPin /\ ChannelOf(driver'[c].pin) = c
               /\ last'[c].command = NoCommand
               /\ period'[c] = ServoPeriod
               /\ duty'[c] = PulseDuty(driver'[c].us)
               /\ enabled'[c] <=> driver'[c].us > 0
               /\ _pin'[driver'[c].who] = driver'[c].pin =>
                    driver'[c].us = _pulseUs'[driver'[c].who]
<1>1. \A p \in PwmPin : ChannelOf(p) \in Channel /\ p # NoPin
  BY PinHasChannel
<1>2. (\A c \in Channel : Kept(c)) => DriverOfChannel' /\ PulseAsWritten'
  BY DEF DriverOfChannel, PulseAsWritten, ServoPeriod, PulseDuty
<1>3. ASSUME NEW c \in Channel, pin \in PwmPin => c # ChannelOf(pin),
             period'[c] = period[c], duty'[c] = duty[c], enabled'[c] = enabled[c],
             last'[c] = last[c], driver'[c] = driver[c]
      PROVE  Kept(c)
  <2> SUFFICES ASSUME driver[c].exact
               PROVE  Kept(c)
    BY <1>3
  <2>1. driver[c].pin \in PwmPin /\ ChannelOf(driver[c].pin) = c
    BY DEF Drivers, DriverOfChannel
  <2>2. driver[c].pin # pin /\ driver[c].pin # NoPin
    BY <1>1, <1>3, <2>1
  <2>3. CASE driver[c].who = s
    BY <1>3, <2>2, <2>3, ChannelKeeps
  <2>4. CASE driver[c].who \in ServoId \ {s}
    BY <1>3, <2>4, ChannelKeeps
  <2>5. driver[c].who \in ServoId
    BY DEF Drivers, DriverOfChannel
  <2>6. QED
    BY <2>3, <2>4, <2>5
<1>4. CASE pin \notin PwmPin
  <2>1. UNCHANGED <<period, duty, enabled, last, driver>>
    BY <1>4 DEF WritePulse
  <2>2. Effect'
    BY <2>1 DEF Effect, EffectTypeOK, DutyFits, PwmAsCommanded, PeriodOf
  <2>3. \A c \in Channel : Kept(c)
    BY <1>3, <1>4, <2>1
  <2>4. QED
    BY <1>2, <2>1, <2>2, <2>3 DEF Drivers, ServoTypeOK
<1>5. CASE pin \in PwmPin
  <2> DEFINE c == ChannelOf(pin)
             p == ServoPeriod
             d == PulseDuty(us)
             now == InEffect(c, p, d, opens)
             command == [who |-> s, pin |-> pin, us |-> us,
                         exact |-> duty[c] <= p /\ d <= p /\ opens = Files]
  <2>1. c \in Channel /\ d \in Nat
    BY <1>1, <1>5, PulseDutyIsNat
  <2>2. p \in Nat /\ p # 0
    <3>1. Second \in Nat /\ 50 <= Second
      BY SecondAssumption
    <3>2. Second \div 50 \in Nat /\ 50 \div 50 <= Second \div 50
      BY <3>1, Divided
    <3>3. QED
      BY <3>2 DEF ServoPeriod
  <2>3. /\ period' = [period EXCEPT ![c] = now.period]
        /\ duty' = [duty EXCEPT ![c] = now.duty]
        /\ enabled' = [enabled EXCEPT ![c] =
                         IF "enable" \in opens /\ now.period # 0 THEN us > 0 ELSE @]
        /\ last' = [last EXCEPT ![c] = [command |-> NoCommand, met |-> FALSE]]
        /\ driver' = [driver EXCEPT ![c] = command]
    BY <1>5 DEF WritePulse
  <2>4. /\ command \in Driver
        /\ command.who = s /\ command.pin = pin /\ command.us = us
        /\ command.exact = (duty[c] <= p /\ d <= p /\ opens = Files)
    BY <1>5 DEF Driver
  <2>5. d = PulseDuty(us) /\ p = ServoPeriod
    OBVIOUS
  <2> HIDE DEF c, p, d, now, command
  <2>6. /\ now.period \in Nat /\ now.duty \in Nat /\ now.duty <= now.period
        /\ opens = Files /\ d <= p =>
             /\ now.period # 0 /\ now.duty = d
             /\ duty[c] <= p => now.period = p
    BY <2>1, <2>2, EffectOf DEF Effect, now
  <2>7. NoCommand \in Command /\ NoCommand.ok = FALSE
    BY DEF NoCommand, Command, NoPin
  <2>8. EffectTypeOK' /\ driver' \in [Channel -> Driver]
    <3>1. period' \in [Channel -> Nat] /\ duty' \in [Channel -> Nat]
      BY <2>1, <2>3, <2>6 DEF Effect, EffectTypeOK
    <3>2. enabled' \in [Channel -> BOOLEAN]
      <4>1. CASE "enable" \in opens /\ now.period # 0
        BY <2>1, <2>3, <4>1 DEF Effect, EffectTypeOK
      <4>2. CASE ~("enable" \in opens /\ now.period # 0)
        BY <2>1, <2>3, <4>2 DEF Effect, EffectTypeOK
      <4>3. QED
        BY <4>1, <4>2
    <3>3. last' \in [Channel -> [command : Command, met : BOOLEAN]]
      BY <2>1, <2>3, <2>7 DEF Effect, EffectTypeOK
    <3>4. driver' \in [Channel -> Driver]
      BY <2>1, <2>3, <2>4 DEF Drivers, ServoTypeOK
    <3>5. QED
      BY <3>1, <3>2, <3>3, <3>4 DEF EffectTypeOK
  <2>9. /\ period'[c] = now.period /\ duty'[c] = now.duty
        /\ last'[c].command = NoCommand /\ driver'[c] = command
        /\ opens = Files /\ now.period # 0 => enabled'[c] = (us > 0)
    BY <2>1, <2>3 DEF Effect, EffectTypeOK, Drivers, ServoTypeOK, Files
  <2>10. \A e \in Channel \ {c} :
          /\ period'[e] = period[e] /\ duty'[e] = duty[e] /\ enabled'[e] = enabled[e]
          /\ last'[e] = last[e] /\ driver'[e] = driver[e]
    BY <2>3 DEF Effect, EffectTypeOK, Drivers, ServoTypeOK
  <2>11. DutyFits'
    <3>1. duty'[c] <= period'[c] /\ ~last'[c].command.ok
      BY <2>6, <2>7, <2>9
    <3>2. QED
      BY <2>10, <3>1 DEF Effect, DutyFits, PeriodOf
  <2>12. PwmAsCommanded'
    <3>1. ~last'[c].command.ok
      BY <2>7, <2>9
    <3>2. QED
      BY <2>10, <3>1 DEF Effect, PwmAsCommanded, PeriodOf
  <2>13. Kept(c)
    <3>1. SUFFICES ASSUME command.exact
                   PROVE  Kept(c)
      BY <2>9
    <3>2. /\ driver'[c].who = s /\ driver'[c].pin = pin /\ driver'[c].us = us
          /\ duty[c] <= p /\ d <= p /\ opens = Files
      BY <2>4, <2>9, <3>1
    <3>3. /\ period'[c] = ServoPeriod /\ duty'[c] = PulseDuty(driver'[c].us)
          /\ enabled'[c] = (us > 0)
      BY <2>5, <2>6, <2>9, <3>2
    <3>4. ChannelOf(driver'[c].pin) = c
      BY <3>2 DEF c
    <3>5. QED
      BY <1>5, <2>9, <3>2, <3>3, <3>4
  <2>14. \A e \in Channel \ {c} : Kept(e)
    BY <1>3, <1>5, <2>10 DEF c
  <2>15. QED
    BY <1>2, <2>8, <2>11, <2>12, <2>13, <2>14 DEF Effect
<1>6. QED
  BY <1>4, <1>5

(* A servo that is not attached writes nothing. *)
LEMMA DetachedKeeps ==
  ASSUME Effect, Drivers, NEW s \in ServoId, _pin[s] = NoPin, _pin' = [_pin EXCEPT ![s] = NoPin],
         \A t \in ServoId \ {s} : _pulseUs'[t] = _pulseUs[t],
         UNCHANGED <<period, duty, enabled, last, driver>>
  PROVE  Effect' /\ driver' \in [Channel -> Driver] /\ DriverOfChannel' /\ PulseAsWritten'
<1>1. Effect'
  BY DEF Effect, EffectTypeOK, DutyFits, PwmAsCommanded, PeriodOf
<1>2. _pin' = _pin
  BY DEF Drivers, ServoTypeOK
<1>3. \A c \in Channel : driver[c].exact /\ _pin[driver[c].who] = driver[c].pin =>
        driver[c].who \in ServoId \ {s}
  BY PinHasChannel DEF Drivers, DriverOfChannel
<1>4. DriverOfChannel'
  BY DEF Drivers, DriverOfChannel
<1>5. PulseAsWritten'
  BY <1>2, <1>3 DEF Drivers, PulseAsWritten
<1>6. QED
  BY <1>1, <1>4, <1>5 DEF Drivers, ServoTypeOK

LEMMA StepServoInv ==
  ASSUME ServoInv, [ServoNext]_servoVars
  PROVE  ServoInv'
<1> USE DEF ServoInv
<1>1. ASSUME NEW s \in ServoId, NEW pin \in PwmPin \cup OtherPin, NEW r \in PulseRange,
             NEW opens \in Opens, attach(s, pin, r, opens)
      PROVE  ServoInv'
  <2>1. /\ _pin' \in [ServoId -> PwmPin \cup OtherPin \cup {NoPin}] /\ _pin'[s] = pin /\ _pulseUs' = _pulseUs
        /\ \A t \in ServoId \ {s} : _pin'[t] = _pin[t]
        /\ _range' \in [ServoId -> [min : Int, max : Int]]
    BY <1>1, PulseAssumption DEF attach, Drivers, ServoTypeOK
  <2>2. pin # NoPin /\ _pulseUs[s] \in Int /\ WritePulse(s, pin, _pulseUs[s], opens)
    BY <1>1, PinHasChannel, PulseAssumption DEF attach, Drivers, ServoTypeOK
  <2>3. SettingTypeOK'
    BY <1>1 DEF attach, SettingTypeOK
  <2>4. QED
    BY <2>1, <2>2, <2>3, PulseKeeps DEF Drivers, ServoTypeOK
<1>2. ASSUME NEW s \in ServoId, NEW opens \in Opens, detach(s, opens)
      PROVE  ServoInv'
  <2>1. /\ _pin' \in [ServoId -> PwmPin \cup OtherPin \cup {NoPin}] /\ _pin'[s] = NoPin
        /\ _pulseUs' = _pulseUs /\ _range' = _range
        /\ \A t \in ServoId \ {s} : _pin'[t] = _pin[t]
    BY <1>2 DEF detach, Drivers, ServoTypeOK
  <2>2. _pin[s] # NoPin /\ 0 \in Int /\ WritePulse(s, _pin[s], 0, opens)
    BY <1>2 DEF detach
  <2>3. SettingTypeOK'
    BY <1>2 DEF detach, set, SettingTypeOK
  <2>4. QED
    BY <2>1, <2>2, <2>3, PulseKeeps DEF Drivers, ServoTypeOK
<1>3. ASSUME NEW s \in ServoId, NEW opens \in Opens, Renew(s, opens)
      PROVE  ServoInv'
  <2>1. /\ _pin' \in [ServoId -> PwmPin \cup OtherPin \cup {NoPin}] /\ _pin'[s] = NoPin
        /\ \A t \in ServoId \ {s} : _pin'[t] = _pin[t] /\ _pulseUs'[t] = _pulseUs[t]
    BY <1>3 DEF Renew, Drivers, ServoTypeOK
  <2>2. DefaultRange \in [min : Int, max : Int] /\ (DefaultRange.min + DefaultRange.max) \div 2 \in Int
    BY DEF DefaultRange
  <2>3. _range' \in [ServoId -> [min : Int, max : Int]] /\ _pulseUs' \in [ServoId -> Int]
    BY <1>3, <2>2 DEF Renew, Drivers, ServoTypeOK
  <2>4. SettingTypeOK'
    BY <1>3 DEF Renew, set, SettingTypeOK
  <2>5. CASE _pin[s] # NoPin
    <3>1. 0 \in Int /\ WritePulse(s, _pin[s], 0, opens)
      BY <1>3, <2>5 DEF Renew
    <3>2. QED
      BY <2>1, <2>3, <2>4, <2>5, <3>1, PulseKeeps DEF Drivers, ServoTypeOK
  <2>6. CASE _pin[s] = NoPin
    <3>1. UNCHANGED <<period, duty, enabled, last, driver>> /\ _pin' = [_pin EXCEPT ![s] = NoPin]
      BY <1>3, <2>6 DEF Renew
    <3>2. QED
      BY <2>1, <2>3, <2>4, <2>6, <3>1, DetachedKeeps DEF Drivers, ServoTypeOK
  <2>7. QED
    BY <2>5, <2>6
<1>4. ASSUME NEW s \in ServoId, NEW us \in Int, NEW opens \in Opens,
             writeMicroseconds(s, us, opens)
      PROVE  ServoInv'
  <2> DEFINE pulse == Clamped(us, _range[s])
  <2>1. pulse \in Int
    BY DEF Clamped, Drivers, ServoTypeOK
  <2>2. /\ _pin' = _pin /\ _range' = _range /\ _pulseUs' = [_pulseUs EXCEPT ![s] = pulse]
        /\ UNCHANGED set
    BY <1>4 DEF writeMicroseconds
  <2>3. /\ _pin' \in [ServoId -> PwmPin \cup OtherPin \cup {NoPin}] /\ _pulseUs' \in [ServoId -> Int] /\ _pulseUs'[s] = pulse
        /\ \A t \in ServoId \ {s} : _pin'[t] = _pin[t] /\ _pulseUs'[t] = _pulseUs[t]
    BY <2>1, <2>2 DEF Drivers, ServoTypeOK
  <2>4. SettingTypeOK'
    BY <2>2 DEF set, SettingTypeOK
  <2>5. CASE _pin[s] # NoPin
    <3>1. WritePulse(s, _pin[s], pulse, opens)
      BY <1>4, <2>5 DEF writeMicroseconds
    <3>2. QED
      BY <2>1, <2>2, <2>3, <2>4, <2>5, <3>1, PulseKeeps DEF Drivers, ServoTypeOK
  <2>6. CASE _pin[s] = NoPin
    <3>1. UNCHANGED <<period, duty, enabled, last, driver>>
      BY <1>4, <2>6 DEF writeMicroseconds
    <3>2. _pin' = [_pin EXCEPT ![s] = NoPin]
      BY <2>2, <2>6 DEF Drivers, ServoTypeOK
    <3>3. QED
      BY <2>2, <2>3, <2>4, <2>6, <3>1, <3>2, DetachedKeeps DEF Drivers, ServoTypeOK
  <2>7. QED
    BY <2>5, <2>6
<1>5. ASSUME NEW s \in ServoId, NEW value \in Pulse, NEW opens \in Opens, write(s, value, opens)
      PROVE  ServoInv'
  <2>1. value \in Int /\ _range[s] \in [min : Int, max : Int]
    BY PulseAssumption DEF Drivers, ServoTypeOK
  <2>2. \A angle \in 0 .. 180 : angleToPulse(angle, _range[s]) \in Int
    BY <2>1 DEF angleToPulse
  <2>3. CASE value > 200
    BY <1>4, <1>5, <2>1, <2>3 DEF write
  <2>4. CASE ~(value > 200)
    <3> DEFINE angle == IF value < 0 THEN 0 ELSE IF value > 180 THEN 180 ELSE value
    <3>1. angle \in 0 .. 180
      BY <2>1
    <3>2. writeMicroseconds(s, angleToPulse(angle, _range[s]), opens)
      BY <1>5, <2>4 DEF write
    <3> HIDE DEF angle
    <3>3. QED
      BY <1>4, <2>2, <3>1, <3>2
  <2>5. QED
    BY <2>3, <2>4
<1>6. CASE Direct
  <2>1. PICK pin \in PwmPin :
          \/ \E value \in {-1, max_value \div 4, max_value, max_value + 1}, opens \in Opens :
               analogWrite(pin, value, opens)
          \/ \E freq \in Frequency : analogWriteFrequency(pin, freq)
          \/ \E freq \in Frequency, timed \in BOOLEAN, opens \in Opens :
               tone(pin, freq, timed, opens)
          \/ \E opens \in Opens : noTone(pin, opens)
          \/ \E bits \in Bits : analogWriteResolution(bits)
    BY <1>6 DEF Direct, RpiPwmNext
  <2>2. max_value \in Nat \ {0} /\ \A q \in PwmPin : getFrequency(q) \in Int
    BY DEF SettingTypeOK, getFrequency
  <2>3. ASSUME NEW value \in Int, NEW freq \in Int, NEW opens, Write(pin, value, freq, opens)
        PROVE  Effect' /\ Drivers'
    <3>1. Effect'
      BY <2>2, <2>3, CommandKeeps
    <3>2. \A e \in Channel : last'[e] = last[e] \/ last'[e].command.pin = pin
      BY <2>2, <2>3, CommandKeeps
    <3>3. \A e \in Channel : last'[e] = last[e] /\ last[e].command = NoCommand =>
            period'[e] = period[e] /\ duty'[e] = duty[e] /\ enabled'[e] = enabled[e]
      BY <2>2, <2>3, CommandKeeps
    <3>4. /\ driver' = [c \in Channel |-> IF last'[c] # last[c] THEN NoDriver ELSE driver[c]]
          /\ UNCHANGED <<_pin, _range, _pulseUs>>
      BY <1>6 DEF Direct
    <3>5. NoDriver \in Driver /\ NoDriver.exact = FALSE
      BY DEF NoDriver, Driver, NoPin
    <3>6. \A c \in Channel : driver'[c].exact => driver'[c] = driver[c] /\ last'[c] = last[c]
      BY <3>4, <3>5
    <3>7. driver' \in [Channel -> Driver]
      BY <3>4, <3>5 DEF Drivers, ServoTypeOK
    <3>8. DriverOfChannel'
      BY <3>6 DEF Drivers, DriverOfChannel
    <3>9. PulseAsWritten'
      BY <3>3, <3>4, <3>6 DEF Drivers, DriverOfChannel, PulseAsWritten
    <3>10. QED
      BY <3>1, <3>4, <3>7, <3>8, <3>9 DEF Drivers, ServoTypeOK
  <2>4. ASSUME UNCHANGED <<period, duty, enabled, last>>
        PROVE  Effect' /\ Drivers'
    <3>1. driver' = driver /\ UNCHANGED <<_pin, _range, _pulseUs>>
      BY <1>6, <2>4 DEF Direct, Drivers, ServoTypeOK
    <3>2. Effect'
      BY <2>4 DEF Effect, EffectTypeOK, DutyFits, PwmAsCommanded, PeriodOf
    <3>3. Drivers'
      BY <2>4, <3>1 DEF Drivers, ServoTypeOK, DriverOfChannel, PulseAsWritten
    <3>4. QED
      BY <3>2, <3>3
  <2>5. ASSUME NEW value \in {-1, max_value \div 4, max_value, max_value + 1}, NEW opens,
               analogWrite(pin, value, opens)
        PROVE  ServoInv'
    <3>1. value \in Int
      BY <2>2
    <3>2. Write(pin, value, getFrequency(pin), opens) /\ UNCHANGED set
      BY <2>5 DEF analogWrite
    <3>3. QED
      BY <2>2, <2>3, <3>1, <3>2 DEF set, SettingTypeOK
  <2>6. ASSUME NEW freq \in Frequency, analogWriteFrequency(pin, freq)
        PROVE  ServoInv'
    <3>1. SettingTypeOK'
      BY <2>6, PwmAssumption DEF analogWriteFrequency, SettingTypeOK
    <3>2. QED
      BY <2>4, <2>6, <3>1 DEF analogWriteFrequency
  <2>7. ASSUME NEW freq \in Frequency, NEW timed \in BOOLEAN, NEW opens,
               tone(pin, freq, timed, opens)
        PROVE  ServoInv'
    <3>1. max_value \div 2 \in Int /\ freq \in Int
      BY <2>2, PwmAssumption
    <3>2. SettingTypeOK'
      BY <2>7, <3>1 DEF tone, SettingTypeOK
    <3>3. QED
      BY <2>3, <2>7, <3>1, <3>2 DEF tone
  <2>8. ASSUME NEW opens, noTone(pin, opens)
        PROVE  ServoInv'
    <3>1. 0 \in Int /\ getFrequency(pin) \in Int
      BY <2>2
    <3>2. Write(pin, 0, getFrequency(pin), opens) /\ UNCHANGED <<gpio_frequencies, max_value>>
      BY <2>8 DEF noTone
    <3>3. QED
      BY <2>3, <3>1, <3>2 DEF SettingTypeOK
  <2>9. ASSUME NEW bits \in Bits, analogWriteResolution(bits)
        PROVE  ServoInv'
    <3>1. 2 ^ bits - 1 \in Nat \ {0}
      BY <2>9, PowersOfTwo DEF analogWriteResolution
    <3>2. SettingTypeOK'
      BY <2>9, <3>1 DEF analogWriteResolution, SettingTypeOK
    <3>3. QED
      BY <2>4, <2>9, <3>2 DEF analogWriteResolution
  <2>10. QED
    BY <2>1, <2>5, <2>6, <2>7, <2>8, <2>9
<1>7. CASE UNCHANGED servoVars
  BY <1>7 DEF servoVars, servo, pwmVars, set, SettingTypeOK, Effect, EffectTypeOK, DutyFits,
              PwmAsCommanded, PeriodOf, Drivers, ServoTypeOK, DriverOfChannel, PulseAsWritten
<1>8. QED
  BY <1>1, <1>2, <1>3, <1>5, <1>6, <1>7 DEF ServoNext

LEMMA InitServoInv == ServoInit => ServoInv
<1> SUFFICES ASSUME ServoInit
             PROVE  ServoInv
  OBVIOUS
<1>1. NoCommand \in Command /\ NoCommand.ok = FALSE /\ NoDriver \in Driver /\ NoDriver.exact = FALSE
  BY DEF NoCommand, Command, NoDriver, Driver, NoPin
<1>2. SettingTypeOK
  BY DEF ServoInit, RpiPwmInit, SettingTypeOK, Unset
<1>3. Effect
  BY <1>1 DEF ServoInit, RpiPwmInit, Effect, EffectTypeOK, DutyFits, PwmAsCommanded
<1>4. DefaultRange \in [min : Int, max : Int] /\ (DefaultRange.min + DefaultRange.max) \div 2 \in Int
  BY DEF DefaultRange
<1>5. Drivers
  BY <1>1, <1>4 DEF ServoInit, Drivers, ServoTypeOK, DriverOfChannel, PulseAsWritten
<1>6. QED
  BY <1>2, <1>3, <1>5 DEF ServoInv

(* The PWM output of HardwareGPIO_RPI, next to the servos that write to    *)
(* the same channels, is what the last command says, or the same command   *)
(* given again makes it so.                                                *)
THEOREM OutputIsCommanded == ServoSpec => []PwmAsCommanded
<1>1. ServoInit => ServoInv
  BY InitServoInv
<1>2. ServoInv /\ [ServoNext]_servoVars => ServoInv'
  BY StepServoInv
<1>3. ServoInv => PwmAsCommanded
  BY DEF ServoInv, Effect
<1>4. QED
  BY <1>1, <1>2, <1>3, PTL DEF ServoSpec

(* A servo's channel has the pulse that servo remembers until something    *)
(* else writes to the channel, through attach(), detach(), angles and      *)
(* pulses of every servo.                                                  *)
THEOREM ServoHoldsPulse == ServoSpec => []PulseAsWritten
<1>1. ServoInit => ServoInv
  BY InitServoInv
<1>2. ServoInv /\ [ServoNext]_servoVars => ServoInv'
  BY StepServoInv
<1>3. ServoInv => PulseAsWritten
  BY DEF ServoInv, Drivers
<1>4. QED
  BY <1>1, <1>2, <1>3, PTL DEF ServoSpec
=============================================================================
