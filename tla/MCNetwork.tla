------------------------------ MODULE MCNetwork -------------------------------
(* Values for the network, one part in each behaviour: a UDP endpoint; the  *)
(* descriptors of clients and servers, of a sketch that copies its clients  *)
(* and runs a server, one that stops and reconnects clients of its own, and *)
(* one whose server begins several times and may fail; the context the      *)
(* secure sockets share.                                                    *)
EXTENDS WiFiUdpStream, EthernetClient, SecureSocket, TLC

ThreeSketches == {{"serve", "copy"}, {"stop", "unresolved", "reuse"},
                  {"serve", "rebegin", "unheard"}}

VARIABLE part  \* the part this behaviour is about
-----------------------------------------------------------------------------
Parts == {"UDP", "sockets", "secure"}

allVars == <<part, vars, ethernetClientVars, secureSocketVars>>

MCInit ==
  /\ part \in Parts
  /\ Init /\ (part # "UDP" => class = "EthernetUDP")
  /\ ClientInit /\ (part # "sockets" => events = {"serve", "copy"})
  /\ SecureInit

(* The part takes its steps; the others keep one initial state. *)
MCNext ==
  \/ part = "UDP" /\ Next
     /\ UNCHANGED <<part, ethernetClientVars, secureSocketVars>>
  \/ part = "sockets" /\ ClientNext
     /\ UNCHANGED <<part, vars, secureSocketVars>>
  \/ part = "secure" /\ SecureNext
     /\ UNCHANGED <<part, vars, ethernetClientVars>>

MCSpec == MCInit /\ [][MCNext]_allVars

-----------------------------------------------------------------------------
(* No action treats one client or one SocketImpl unlike another. *)
Alike == Permutations(Handle) \cup Permutations(Impl)
=============================================================================
