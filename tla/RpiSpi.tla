--------------------------------- MODULE RpiSpi ---------------------------------
(***************************************************************************)
(* HardwareSPI_RPI: spidev behind the SPI interface.  External: mode, bit  *)
(* order and speed belong to the device and outlive a descriptor; setting  *)
(* the mode from a byte without the order's bit resets the order; a        *)
(* controller may refuse LSB first, and the code does not look.            *)
(***************************************************************************)
EXTENDS Integers

CONSTANTS
  Mode,       \* SPI data modes
  Speed,      \* clock frequencies a sketch asks for
  MaxOpen     \* bound: descriptors open at once

VARIABLES
  spi_fd,     \* "none" or "open"
  leaked,     \* descriptors that are open and no object's
  spi_is_open,
  spi_mode, spi_speed,
  device,     \* the kernel's mode and bit order
  lsbWorks,   \* the controller can send the least significant bit first
  asked,      \* history: the last settings, or the defaults
  reopened,   \* history: begin() was called after they were given
  wire        \* history: the settings of the last transfer, or the defaults

rpiSpiVars == <<spi_fd, leaked, spi_is_open, spi_mode, spi_speed, device, lsbWorks,
                asked, reopened, wire>>
-----------------------------------------------------------------------------
Order == {"MSBFIRST", "LSBFIRST"}
Settings == [mode : Mode, order : Order, speed : Speed]
DefaultSettings == [mode |-> 0, order |-> "MSBFIRST", speed |-> 500000]

RpiSpiInit ==
  /\ spi_fd = "none" /\ leaked = 0 /\ spi_is_open = FALSE
  /\ spi_mode = DefaultSettings.mode /\ spi_speed = DefaultSettings.speed
  /\ device \in [mode : Mode, order : Order]
  /\ lsbWorks \in BOOLEAN
  /\ asked = DefaultSettings /\ reopened = FALSE /\ wire = DefaultSettings

(* Mutation of SPIBegin: begin() starts with the default mode. *)
BeginDefaultMode(opens) ==
  /\ leaked < MaxOpen
  /\ leaked' = leaked + (IF spi_fd = "open" THEN 1 ELSE 0)
  /\ spi_is_open' = opens
  /\ IF opens THEN /\ spi_fd' = "open"
                   /\ device' = [mode |-> 0, order |-> "MSBFIRST"]
              ELSE /\ spi_fd' = "none" /\ UNCHANGED device
  /\ reopened' = TRUE
  /\ UNCHANGED <<spi_mode, spi_speed, lsbWorks, asked, wire>>

(* begin() opens the device, once more if it is open, and sets the mode of *)
(* the last beginTransaction(), not its bit order.                         *)
SPIBegin(opens) ==
  /\ leaked < MaxOpen
  /\ leaked' = leaked + (IF spi_fd = "open" THEN 1 ELSE 0)
  /\ spi_is_open' = opens
  /\ IF opens THEN /\ spi_fd' = "open"
                   /\ device' = [mode |-> spi_mode, order |-> "MSBFIRST"]
              ELSE /\ spi_fd' = "none" /\ UNCHANGED device
  /\ reopened' = TRUE
  /\ UNCHANGED <<spi_mode, spi_speed, lsbWorks, asked, wire>>

(* end(); is_open stays. *)
SPIEnd ==
  /\ spi_fd' = "none"
  /\ UNCHANGED <<leaked, spi_is_open, spi_mode, spi_speed, device, lsbWorks,
                 asked, reopened, wire>>

(* beginTransaction(): the mode, then the order, in the device; without a  *)
(* descriptor only the object has them.                                    *)
beginTransaction(s) ==
  /\ spi_mode' = s.mode /\ spi_speed' = s.speed
  /\ device' = IF spi_fd = "none" THEN device
               ELSE [mode |-> s.mode,
                     order |-> IF lsbWorks THEN s.order ELSE "MSBFIRST"]
  /\ asked' = s
  /\ reopened' = FALSE
  /\ UNCHANGED <<spi_fd, leaked, spi_is_open, lsbWorks, wire>>

(* The three forms of transfer() give the speed with each message; without *)
(* a descriptor nothing is sent and the bytes received are 0.              *)
transfer ==
  /\ spi_fd = "open"
  /\ wire' = [mode |-> device.mode, order |-> device.order, speed |-> spi_speed]
  /\ UNCHANGED <<spi_fd, leaked, spi_is_open, spi_mode, spi_speed, device, lsbWorks,
                 asked, reopened>>

RpiSpiNext ==
  \/ \E opens \in BOOLEAN : SPIBegin(opens)
  \/ SPIEnd \/ transfer
  \/ \E s \in Settings : beginTransaction(s)

RpiSpiSpec == RpiSpiInit /\ [][RpiSpiNext]_rpiSpiVars
-----------------------------------------------------------------------------
(* Every transfer has the mode and the speed of the last settings, also    *)
(* when they were given before begin() or begin() is called again.  The    *)
(* bit order is theirs too, unless they ask for LSB first and the          *)
(* controller refuses it or begin() was called since.                      *)
TransferAsSettings ==
  [][ transfer =>
        /\ wire'.mode = asked.mode /\ wire'.speed = asked.speed
        /\ wire'.order # asked.order =>
             asked.order = "LSBFIRST" /\ (reopened \/ ~lsbWorks) ]_rpiSpiVars
=============================================================================
