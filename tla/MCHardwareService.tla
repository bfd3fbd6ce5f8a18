-------------------------- MODULE MCHardwareService --------------------------
(* A value for HardwareService: UDP without losses.                         *)
EXTENDS HardwareService

UdpLink ==
  {[transport |-> "udp", used |-> {"digitalRead", "analogRead"}, losses |-> 0]}
=============================================================================
