--------------------------- MODULE MCEthernetClient ---------------------------
(* A value for EthernetClient: a sketch that calls stop().                  *)
EXTENDS EthernetClient

StoppingSketch == {{"stop"}}
=============================================================================
