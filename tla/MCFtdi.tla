-------------------------------- MODULE MCFtdi --------------------------------
(* Values for the FTDI hardware, one part in each behaviour: the GPIO with  *)
(* pins of both channels, with two pins of channel A, one of them under     *)
(* PWM, and with a pin of channel B under PWM whose calls of libftdi may    *)
(* fail; the contexts of the three objects; the I2C and the SPI.            *)
EXTENDS FtdiGpio, FtdiContexts, FtdiI2C, FtdiSpi

Wired(pins, pwm, fails) == [pins |-> pins, pwm |-> pwm, fails |-> fails]

ThreeWirings == {Wired({0, 8, 9}, {}, FALSE), Wired({0, 1}, {0}, FALSE),
                 Wired({8}, {8}, TRUE)}

VARIABLE part  \* the part this behaviour is about
-----------------------------------------------------------------------------
Parts == {"FtdiGpio", "FtdiContexts", "FtdiI2C", "FtdiSpi"}

allVars == <<part, ftdiGpioVars, contextsVars, i2cVars, spiVars>>

MCInit ==
  /\ part \in Parts
  /\ FtdiGpioInit /\ (part # "FtdiGpio" => wiring = CHOOSE w \in Wirings : w.fails)
  /\ ContextsInit
  /\ I2CInit
  /\ SPIInit /\ (part # "FtdiSpi" => form = 1)

(* The part takes its steps; the others keep one initial state. *)
MCNext ==
  \/ part = "FtdiGpio" /\ FtdiGpioNext
     /\ UNCHANGED <<part, contextsVars, i2cVars, spiVars>>
  \/ part = "FtdiContexts" /\ ContextsNext
     /\ UNCHANGED <<part, ftdiGpioVars, i2cVars, spiVars>>
  \/ part = "FtdiI2C" /\ I2CNext
     /\ UNCHANGED <<part, ftdiGpioVars, contextsVars, spiVars>>
  \/ part = "FtdiSpi" /\ SPINext
     /\ UNCHANGED <<part, ftdiGpioVars, contextsVars, i2cVars>>

MCSpec == MCInit /\ [][MCNext]_allVars
=============================================================================
