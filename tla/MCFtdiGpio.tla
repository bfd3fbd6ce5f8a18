------------------------------ MODULE MCFtdiGpio ------------------------------
(* A value for FtdiGpio: a pin of each channel, that of B under PWM.        *)
EXTENDS FtdiGpio

BothChannels == {[pins |-> {0, 8}, pwm |-> {8}, fails |-> FALSE]}
=============================================================================
