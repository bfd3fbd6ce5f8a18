----------------------------- MODULE HardwareSetup -----------------------------
(***************************************************************************)
(* The setup objects (HardwareSetupRemote, HardwareSetupFTDI,              *)
(* HardwareSetupRPI) and the global objects GPIO, SPI and Wire that        *)
(* delegate to the hardware objects inside one of them.  Every setup       *)
(* assigns the three global objects together, so one wrapper stands for    *)
(* them.  The handshake inside HardwareSetupRemote::begin() is module      *)
(* HandShake; here it has succeeded when begin() is over.                  *)
(***************************************************************************)
EXTENDS FiniteSets

CONSTANTS
  Setup,     \* setup objects
  Remote,    \* those of class HardwareSetupRemote
  Nobody     \* nullptr

ASSUME SetupAssumption ==
  Remote \subseteq Setup /\ Nobody \notin Setup

VARIABLES
  alive,      \* the setups that exist
  gone,       \* history: the setups that existed; each lives once
  is_default_objects_active,
  p_stream,   \* HardwareSetupRemote::p_stream: none, default_stream, other
  p_gpio,     \* GPIOWrapper::p_gpio: the setup whose object it points at
  p_source,   \* GPIOWrapper::p_source
  ended       \* history: the setups that were ended, and since then neither
              \* begun nor made the source

wrapper == <<p_gpio, p_source>>
vars == <<alive, gone, is_default_objects_active, p_stream, wrapper, ended>>
-----------------------------------------------------------------------------
Init ==
  /\ alive = {} /\ gone = {}
  /\ is_default_objects_active = [s \in Setup |-> FALSE]
  /\ p_stream = [s \in Setup |-> "none"]
  /\ p_gpio = Nobody /\ p_source = Nobody
  /\ ended = {}

(* The wrappers: an object excludes a source and the other way round, and  *)
(* a call goes to the object, or to what the source provides.              *)
setGPIO(s) == p_gpio' = s /\ p_source' = Nobody
setSource(s) == p_source' = s /\ p_gpio' = Nobody
getGPIO == IF p_gpio # Nobody THEN p_gpio ELSE p_source

(* The default constructor and HardwareSetupRemote(port). *)
Construct(s) ==
  /\ s \notin alive \cup gone
  /\ alive' = alive \cup {s}
  /\ UNCHANGED <<gone, is_default_objects_active, p_stream, wrapper, ended>>

(* HardwareSetupRemote(Stream&) is begin(&stream, false). *)
ConstructStream(s) ==
  /\ s \in Remote \ (alive \cup gone)
  /\ alive' = alive \cup {s}
  /\ p_stream' = [p_stream EXCEPT ![s] = "other"]
  /\ UNCHANGED <<gone, is_default_objects_active, wrapper, ended>>

(* begin(asDefault) stores the flag, FALSE over an earlier TRUE too;       *)
(* HardwareSetupRemote uses its own stream unless it has been given one.   *)
Begin(s, asDefault) ==
  /\ s \in alive
  /\ is_default_objects_active' = [is_default_objects_active EXCEPT ![s] = asDefault]
  /\ p_stream' = IF s \in Remote /\ p_stream[s] = "none"
                 THEN [p_stream EXCEPT ![s] = "default_stream"] ELSE p_stream
  /\ IF asDefault THEN setGPIO(s) ELSE UNCHANGED wrapper
  /\ ended' = ended \ {s}
  /\ UNCHANGED <<alive, gone>>

(* HardwareSetupRemote::begin(stream, asDefault) does not store the flag. *)
BeginStream(s, asDefault) ==
  /\ s \in alive \cap Remote
  /\ p_stream' = [p_stream EXCEPT ![s] = "other"]
  /\ IF asDefault THEN setGPIO(s) ELSE UNCHANGED wrapper
  /\ ended' = ended \ {s}
  /\ UNCHANGED <<alive, gone, is_default_objects_active>>

(* end() resets the global objects, whoever they point at by now and       *)
(* whether as the object or as the source, if the flag of this setup is    *)
(* set.  The flag and the stream stay.                                     *)
ResetGlobals(s) ==
  IF is_default_objects_active[s] THEN setGPIO(Nobody) ELSE UNCHANGED wrapper

End(s) ==
  /\ s \in alive
  /\ ResetGlobals(s)
  /\ ended' = ended \cup {s}
  /\ UNCHANGED <<alive, gone, is_default_objects_active, p_stream>>

(* Mutation of Destroy: no destructor calls end(). *)
DestroyOnly(s) ==
  /\ s \in alive
  /\ alive' = alive \ {s}
  /\ gone' = gone \cup {s}
  /\ UNCHANGED <<wrapper, ended, is_default_objects_active, p_stream>>

(* The destructors of HardwareSetupFTDI and HardwareSetupRPI call end();   *)
(* HardwareSetupRemote has none.                                           *)
Destroy(s) ==
  /\ s \in alive
  /\ IF s \in Remote
     THEN UNCHANGED <<wrapper, ended>>
     ELSE ResetGlobals(s) /\ ended' = ended \cup {s}
  /\ alive' = alive \ {s}
  /\ gone' = gone \cup {s}
  /\ UNCHANGED <<is_default_objects_active, p_stream>>

(* The sketch makes a setup the source of the global objects, or none. *)
UseSource(s) ==
  /\ s \in alive \cup {Nobody}
  /\ setSource(s)
  /\ ended' = ended \ {s}
  /\ UNCHANGED <<alive, gone, is_default_objects_active, p_stream>>

Next ==
  \/ \E s \in Setup : Construct(s)
  \/ \E s \in Setup : ConstructStream(s)
  \/ \E s \in Setup : End(s)
  \/ \E s \in Setup : Destroy(s)
  \/ \E s \in Setup, asDefault \in BOOLEAN : Begin(s, asDefault)
  \/ \E s \in Setup, asDefault \in BOOLEAN : BeginStream(s, asDefault)
  \/ \E s \in Setup \cup {Nobody} : UseSource(s)

Spec == Init /\ [][Next]_vars
-----------------------------------------------------------------------------
(* Types; a wrapper never has an object and a source at once. *)
TypeOK ==
  /\ alive \subseteq Setup /\ gone \subseteq Setup /\ alive \cap gone = {}
  /\ ended \subseteq alive \cup gone
  /\ is_default_objects_active \in [Setup -> BOOLEAN]
  /\ p_stream \in [Setup -> {"none", "default_stream", "other"}]
  /\ \A s \in Setup \ Remote : p_stream[s] = "none"
  /\ {p_gpio, p_source} \subseteq alive \cup gone \cup {Nobody}
  /\ p_gpio = Nobody \/ p_source = Nobody

(* A call of GPIO, SPI or Wire reaches a hardware object whose setup is    *)
(* gone, as the object or through the source, in two cases only, however   *)
(* the lifetimes of several setups overlap.  The last begin(asDefault) of  *)
(* that setup did not set the flag: it was begin(false), possibly after a  *)
(* begin(true), or there was none, and the setup came into the globals by  *)
(* begin(stream) or setSource().  Or it is a HardwareSetupRemote, which    *)
(* has no destructor, that was not ended.                                  *)
DefaultsAlive ==
  getGPIO # Nobody /\ getGPIO \notin alive =>
    \/ ~is_default_objects_active[getGPIO]
    \/ getGPIO \in Remote \ ended

(* "Call end() to release resources when done" (HardwareSetupRemote.h:52): *)
(* after end() no call of the global objects reaches this setup, as the    *)
(* object or through the source, unless its last begin(asDefault) did not  *)
(* set the flag (begin(true); begin(false); end() leaves it there).        *)
EndResetsGlobals == \A s \in ended : is_default_objects_active[s] => getGPIO # s

(* Both of the above with what makes them inductive. *)
IInv == TypeOK /\ DefaultsAlive /\ EndResetsGlobals
=============================================================================
