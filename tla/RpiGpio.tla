-------------------------------- MODULE RpiGpio --------------------------------
(***************************************************************************)
(* The digital pins of HardwareGPIO_RPI.  The chip and the map of line     *)
(* requests are static: all objects of the class share them, whatever      *)
(* device each was made for.  External, of libgpiod: a line has one owner; *)
(* a request for a line another program owns fails; an output starts LOW.  *)
(***************************************************************************)
CONSTANTS
  Api,      \* the libgpiod versions to check: a subset of {"v1", "v2"}
  Object,   \* objects of the class
  Device,   \* the GPIO chips
  Pin

(* "none" stands for a null pointer to the chip. *)
ASSUME DeviceAssumption == "none" \notin Device

VARIABLES
  api,          \* the version this program is built for
  device_name,  \* of each object
  gpio_alive,   \* objects that exist
  is_open,      \* of each object
  gpio_chip,    \* the shared chip, "none" if nullptr
  requests,     \* gpio_requests, or gpio_lines with v1: device and mode of
                \* each pin's line, NoRequest if there is none or nullptr
  owner,        \* of each line: "free", "other" program, or our mode
  level         \* of each line

rpiGpioVars == <<api, device_name, gpio_alive, is_open, gpio_chip, requests, owner, level>>
kernel == <<owner, level>>
-----------------------------------------------------------------------------
PinMode == {"INPUT", "OUTPUT"}
NoRequest == [device |-> "none", mode |-> "none"]

RpiGpioInit ==
  /\ api \in Api
  /\ device_name \in [Object -> Device]
  /\ gpio_alive = Object
  /\ is_open = [o \in Object |-> FALSE]
  /\ gpio_chip = "none"
  /\ requests = [p \in Pin |-> NoRequest]
  /\ owner = [d \in Device |-> [p \in Pin |-> "free"]]
  /\ level = [d \in Device |-> [p \in Pin |-> "LOW"]]

(* begin() opens the chip of this object for all of them.  If that fails   *)
(* nobody has a chip any more, and is_open keeps its value.                *)
GpioBegin(o, opens) ==
  /\ o \in gpio_alive
  /\ gpio_chip' = IF opens THEN device_name[o] ELSE "none"
  /\ is_open' = [is_open EXCEPT ![o] = @ \/ opens]
  /\ UNCHANGED <<api, device_name, gpio_alive, requests, kernel>>

(* The destructor releases the lines and closes the chip of all objects. *)
GpioDestroy(o) ==
  /\ o \in gpio_alive
  /\ gpio_alive' = gpio_alive \ {o}
  /\ requests' = [p \in Pin |-> NoRequest]
  /\ owner' = [d \in Device |-> [p \in Pin |->
                 IF owner[d][p] \in PinMode THEN "free" ELSE owner[d][p]]]
  /\ gpio_chip' = "none"
  /\ UNCHANGED <<api, device_name, is_open, level>>

(* Mutation of Released: the pointer to the released request stays. *)
ReleasedStays(p) ==
  [owner |-> [d \in Device |-> [owner[d] EXCEPT ![p] =
                IF requests[p].device = d /\ @ \in PinMode THEN "free" ELSE @]],
   entry |-> requests[p]]

(* The request of the pin, if any, is released and its entry cleared. *)
Released(p) ==
  [owner |-> [d \in Device |-> [owner[d] EXCEPT ![p] =
                IF requests[p].device = d /\ @ \in PinMode THEN "free" ELSE @]],
   entry |-> NoRequest]

(* What a failed request leaves: with v1 the line without an owner. *)
Failed(entry) ==
  IF api = "v1" THEN [device |-> gpio_chip, mode |-> "failed"] ELSE entry

(* The state after pinMode(p, mode): the old request is released, then the *)
(* line of the shared chip is requested.                                   *)
Requested(p, mode) ==
  LET free == Released(p)
      busy == free.owner[gpio_chip][p] = "other"
  IN IF gpio_chip = "none"
     THEN [owner |-> owner, level |-> level, entry |-> requests[p]]
     ELSE IF busy
     THEN [owner |-> free.owner, level |-> level, entry |-> Failed(free.entry)]
     ELSE [owner |-> [free.owner EXCEPT ![gpio_chip][p] = mode],
           level |-> IF mode = "OUTPUT" THEN [level EXCEPT ![gpio_chip][p] = "LOW"]
                                        ELSE level,
           entry |-> [device |-> gpio_chip, mode |-> mode]]

pinMode(o, p, mode) ==
  /\ o \in gpio_alive
  /\ LET now == Requested(p, mode)
     IN /\ owner' = now.owner /\ level' = now.level
        /\ requests' = [requests EXCEPT ![p] = now.entry]
  /\ UNCHANGED <<api, device_name, gpio_alive, is_open, gpio_chip>>

(* Mutation of EnsuredFor: a pin to be written becomes an input. *)
EnsuredForInput(p, mode) ==
  IF requests[p] = NoRequest THEN Requested(p, "INPUT")
  ELSE [owner |-> owner, level |-> level, entry |-> requests[p]]

(* Without a request digitalWrite() and digitalRead() call pinMode(). *)
EnsuredFor(p, mode) ==
  IF requests[p] = NoRequest THEN Requested(p, mode)
  ELSE [owner |-> owner, level |-> level, entry |-> requests[p]]

(* libgpiod sets the value of a line that is requested as an output; an    *)
(* error is only logged.                                                   *)
digitalWrite(o, p, status) ==
  /\ o \in gpio_alive
  /\ LET now == EnsuredFor(p, "OUTPUT")
     IN /\ owner' = now.owner
        /\ level' = IF now.entry.mode = "OUTPUT"
                    THEN [now.level EXCEPT ![now.entry.device][p] = status]
                    ELSE now.level
        /\ requests' = [requests EXCEPT ![p] = now.entry]
  /\ UNCHANGED <<api, device_name, gpio_alive, is_open, gpio_chip>>

digitalRead(o, p) ==
  /\ o \in gpio_alive
  /\ LET now == EnsuredFor(p, "INPUT")
     IN /\ owner' = now.owner /\ level' = now.level
        /\ requests' = [requests EXCEPT ![p] = now.entry]
  /\ UNCHANGED <<api, device_name, gpio_alive, is_open, gpio_chip>>

(* Another program takes a free line, or gives it back. *)
OtherProgram(d, p) ==
  /\ owner[d][p] \in {"free", "other"}
  /\ owner' = [owner EXCEPT ![d][p] = IF @ = "free" THEN "other" ELSE "free"]
  /\ UNCHANGED <<api, device_name, gpio_alive, is_open, gpio_chip, requests, level>>

RpiGpioNext ==
  \/ \E o \in Object, opens \in BOOLEAN : GpioBegin(o, opens)
  \/ \E o \in Object : GpioDestroy(o)
  \/ \E o \in Object, p \in Pin, mode \in PinMode : pinMode(o, p, mode)
  \/ \E o \in Object, p \in Pin, status \in {"HIGH", "LOW"} : digitalWrite(o, p, status)
  \/ \E o \in Object, p \in Pin : digitalRead(o, p)
  \/ \E d \in Device, p \in Pin : OtherProgram(d, p)

RpiGpioSpec == RpiGpioInit /\ [][RpiGpioNext]_rpiGpioVars
-----------------------------------------------------------------------------
(* The shared map accounts for the lines: a line this program owns is that *)
(* of its pin's entry, in the same mode, and the other way round.  No line *)
(* stays requested that no entry releases, and no entry is used that was   *)
(* released, also when a request fails half-way or objects for different   *)
(* chips take turns.                                                       *)
HeldIsMapped ==
  \A d \in Device, p \in Pin, mode \in PinMode :
    owner[d][p] = mode <=> requests[p] = [device |-> d, mode |-> mode]

(* A pin of o can be written: the shared chip is that of o (no object for  *)
(* another chip was begun since, none was destroyed, no begin() failed),   *)
(* the line is not another program's, and the shared map has no entry for  *)
(* the pin that is an input, a line of another chip, or with v1 a line     *)
(* that was refused.                                                       *)
Writable(o, p) ==
  /\ gpio_chip = device_name[o]
  /\ owner[gpio_chip][p] # "other"
  /\ requests[p] \in {NoRequest, [device |-> gpio_chip, mode |-> "OUTPUT"]}

(* "Write a digital value to a GPIO pin" (HardwareGPIO_RPI.h:73).  If the  *)
(* pin is Writable, the level is on the line of the object's own chip.  In *)
(* any case, whatever chip the shared map and the shared pointer stand for *)
(* by now, no line changes but one of this pin's number that this program  *)
(* holds as an output: not an input, not a line that was released, not one *)
(* of another program.                                                     *)
WriteReaches ==
  [][ \A o \in Object, p \in Pin, status \in {"HIGH", "LOW"} :
        digitalWrite(o, p, status) =>
          /\ Writable(o, p) => level'[device_name[o]][p] = status
          /\ \A d \in Device, q \in Pin :
               level'[d][q] # level[d][q] => q = p /\ owner'[d][q] = "OUTPUT" ]_rpiGpioVars
=============================================================================
