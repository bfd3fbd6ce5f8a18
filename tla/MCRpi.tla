-------------------------------- MODULE MCRpi ---------------------------------
(* Values for the setups and for the hardware of the Raspberry Pi, one part *)
(* in each behaviour: the setups; the GPIO with both versions of libgpiod;  *)
(* the PWM with a servo, a nanosecond a thousand times as long and the word *)
(* as much smaller; the I2C and the SPI.                                    *)
EXTENDS HardwareSetup, RpiGpio, Servo, RpiI2C, RpiSpi

OneRange == {[min |-> 1000, max |-> 2000]}

(* No definition tells the slaves of the I2C bus apart. *)
AlikeSlaves == Permutations(Slave)

VARIABLE part  \* the part this behaviour is about
-----------------------------------------------------------------------------
Parts == {"setups", "RpiGpio", "Servo", "RpiI2C", "RpiSpi"}

allVars == <<part, vars, rpiGpioVars, servoVars, rpiI2CVars, rpiSpiVars>>

MCInit ==
  /\ part \in Parts
  /\ Init
  /\ RpiGpioInit
  /\ part # "RpiGpio" => api = "v1" /\ device_name = [o \in Object |-> "d1"]
  /\ ServoInit
  /\ RpiI2CInit
  /\ RpiSpiInit /\ (part # "RpiSpi" => device = [mode |-> 0, order |-> "MSBFIRST"] /\ lsbWorks)

(* The part takes its steps; the others keep one initial state. *)
MCNext ==
  \/ part = "setups" /\ Next
     /\ UNCHANGED <<part, rpiGpioVars, servoVars, rpiI2CVars, rpiSpiVars>>
  \/ part = "RpiGpio" /\ RpiGpioNext
     /\ UNCHANGED <<part, vars, servoVars, rpiI2CVars, rpiSpiVars>>
  \/ part = "Servo" /\ ServoNext
     /\ UNCHANGED <<part, vars, rpiGpioVars, rpiI2CVars, rpiSpiVars>>
  \/ part = "RpiI2C" /\ RpiI2CNext
     /\ UNCHANGED <<part, vars, rpiGpioVars, servoVars, rpiSpiVars>>
  \/ part = "RpiSpi" /\ RpiSpiNext
     /\ UNCHANGED <<part, vars, rpiGpioVars, servoVars, rpiI2CVars>>

MCSpec == MCInit /\ [][MCNext]_allVars
=============================================================================
