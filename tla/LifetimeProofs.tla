----------------------------- MODULE LifetimeProofs -----------------------------
(***************************************************************************)
(* Who still exists: the setups behind the global objects, the libftdi     *)
(* contexts of the FTDI objects and the WolfSSL context of the secure      *)
(* sockets, for any number of objects, of calls and of failures.           *)
(***************************************************************************)
EXTENDS HardwareSetup, FtdiContexts, SecureSocket, FiniteSetTheorems, SequenceTheorems, TLAPS

(***************************************************************************)
(* HardwareSetup                                                           *)
(***************************************************************************)
(* begin(asDefault) with TRUE puts an existing setup with the flag into    *)
(* the global objects; with FALSE it leaves whoever is there.              *)
LEMMA SetupBeginKeeps ==
  ASSUME IInv, NEW s \in Setup, NEW asDefault \in BOOLEAN, Begin(s, asDefault)
  PROVE  IInv'
<1> USE SetupAssumption DEF Begin, setGPIO, wrapper, IInv
<1>1. TypeOK'
  BY DEF TypeOK
<1>2. DefaultsAlive'
  BY DEF TypeOK, DefaultsAlive, EndResetsGlobals, getGPIO
<1>3. EndResetsGlobals'
  BY DEF TypeOK, EndResetsGlobals, getGPIO
<1>4. QED
  BY <1>1, <1>2, <1>3

(* begin(stream) puts an existing setup into the global objects, or leaves *)
(* who is there.                                                           *)
LEMMA SetupBeginStreamKeeps ==
  ASSUME IInv, NEW s \in Setup, NEW asDefault \in BOOLEAN, BeginStream(s, asDefault)
  PROVE  IInv'
<1> USE SetupAssumption DEF BeginStream, setGPIO, wrapper, IInv
<1>1. TypeOK'
  BY DEF TypeOK
<1>2. DefaultsAlive'
  BY DEF TypeOK, DefaultsAlive, EndResetsGlobals, getGPIO
<1>3. EndResetsGlobals'
  BY DEF TypeOK, EndResetsGlobals, getGPIO
<1>4. QED
  BY <1>1, <1>2, <1>3

(* Nothing points at a new setup yet. *)
LEMMA SetupConstructKeeps ==
  ASSUME IInv, NEW s \in Setup, Construct(s) \/ ConstructStream(s)
  PROVE  IInv'
<1> USE SetupAssumption DEF Construct, ConstructStream, wrapper, IInv
<1>1. TypeOK'
  BY DEF TypeOK
<1>2. DefaultsAlive'
  BY DEF TypeOK, DefaultsAlive, EndResetsGlobals, getGPIO
<1>3. EndResetsGlobals'
  BY DEF TypeOK, EndResetsGlobals, getGPIO
<1>4. QED
  BY <1>1, <1>2, <1>3

(* end() empties the global objects if the setup has the flag. *)
LEMMA SetupEndingKeeps ==
  ASSUME IInv, NEW s \in Setup, End(s)
  PROVE  IInv'
<1> USE SetupAssumption DEF End, ResetGlobals, setGPIO, wrapper, IInv
<1>1. TypeOK'
  BY DEF TypeOK
<1>2. DefaultsAlive'
  BY DEF TypeOK, DefaultsAlive, EndResetsGlobals, getGPIO
<1>3. EndResetsGlobals'
  BY DEF TypeOK, EndResetsGlobals, getGPIO
<1>4. QED
  BY <1>1, <1>2, <1>3

(* A setup that goes is a remote one, ended before or not, or its          *)
(* destructor ends it.                                                     *)
LEMMA SetupDestroyKeeps ==
  ASSUME IInv, NEW s \in Setup, Destroy(s)
  PROVE  IInv'
<1> USE SetupAssumption DEF Destroy, ResetGlobals, setGPIO, wrapper, IInv
<1>1. TypeOK'
  BY DEF TypeOK
<1>2. DefaultsAlive'
  BY DEF TypeOK, DefaultsAlive, EndResetsGlobals, getGPIO
<1>3. EndResetsGlobals'
  BY DEF TypeOK, EndResetsGlobals, getGPIO
<1>4. QED
  BY <1>1, <1>2, <1>3

(* A source is one that exists when it is set. *)
LEMMA SetupSourceKeeps ==
  ASSUME IInv, NEW s \in Setup \cup {Nobody}, UseSource(s)
  PROVE  IInv'
<1> USE SetupAssumption DEF UseSource, setSource, IInv
<1>1. TypeOK'
  BY DEF TypeOK
<1>2. DefaultsAlive'
  BY DEF TypeOK, DefaultsAlive, EndResetsGlobals, getGPIO
<1>3. EndResetsGlobals'
  BY DEF TypeOK, EndResetsGlobals, getGPIO
<1>4. QED
  BY <1>1, <1>2, <1>3

(* IInv is inductive. *)
LEMMA StepSetupInv ==
  ASSUME IInv, [Next]_vars
  PROVE  IInv'
<1>1. CASE Next
  <2>1. ASSUME NEW s \in Setup, Construct(s) \/ ConstructStream(s) PROVE IInv'
    BY <2>1, SetupConstructKeeps
  <2>2. ASSUME NEW s \in Setup, End(s) PROVE IInv'
    BY <2>2, SetupEndingKeeps
  <2>3. ASSUME NEW s \in Setup, Destroy(s) PROVE IInv'
    BY <2>3, SetupDestroyKeeps
  <2>4. ASSUME NEW s \in Setup, NEW asDefault \in BOOLEAN, Begin(s, asDefault)
        PROVE IInv'
    BY <2>4, SetupBeginKeeps
  <2>5. ASSUME NEW s \in Setup, NEW asDefault \in BOOLEAN, BeginStream(s, asDefault)
        PROVE IInv'
    BY <2>5, SetupBeginStreamKeeps
  <2>6. ASSUME NEW s \in Setup \cup {Nobody}, UseSource(s) PROVE IInv'
    BY <2>6, SetupSourceKeeps
  <2>7. QED
    BY <1>1, <2>1, <2>2, <2>3, <2>4, <2>5, <2>6 DEF Next
<1>2. CASE UNCHANGED vars
  BY <1>2 DEF vars, wrapper, IInv, TypeOK, DefaultsAlive, EndResetsGlobals, getGPIO
<1>3. QED
  BY <1>1, <1>2

LEMMA InitSetupInv == Init => IInv
BY SetupAssumption DEF Init, IInv, TypeOK, DefaultsAlive, EndResetsGlobals, getGPIO

(* The global objects delegate to a setup that is gone only if its last    *)
(* begin(asDefault) did not set the flag, or it is a HardwareSetupRemote   *)
(* that was not ended: GPIOWrapper::getGPIO(), object or source, with the  *)
(* begin(), end() and destructors of the three setup classes.              *)
THEOREM GlobalsNeverDangle == Spec => []DefaultsAlive
<1>1. Init => IInv
  BY InitSetupInv
<1>2. IInv /\ [Next]_vars => IInv'
  BY StepSetupInv
<1>3. IInv => DefaultsAlive
  BY DEF IInv
<1>4. QED
  BY <1>1, <1>2, <1>3, PTL DEF Spec

(* After end() the global objects delegate to that setup neither as the    *)
(* object nor through the source, unless its last begin(asDefault) did not *)
(* set the flag: end() of the three setup classes, in any order with their *)
(* begin() and with setSource().                                           *)
THEOREM EndGivesUpGlobals == Spec => []EndResetsGlobals
<1>1. Init => IInv
  BY InitSetupInv
<1>2. IInv /\ [Next]_vars => IInv'
  BY StepSetupInv
<1>3. IInv => EndResetsGlobals
  BY DEF IInv
<1>4. QED
  BY <1>1, <1>2, <1>3, PTL DEF Spec

-----------------------------------------------------------------------------
(***************************************************************************)
(* FtdiContexts                                                            *)
(***************************************************************************)
(* Types; contexts are numbered in the order they are made. *)
ContextsTypeOK ==
  /\ made \in Nat
  /\ ftdi_context \in [Object -> 0 .. made]
  /\ ftdi_is_open \in [Object -> BOOLEAN]
  /\ live \subseteq 1 .. made
  /\ claimed \in 0 .. made
  /\ begins \in Seq(Object)

(* The interface belongs to the only context there is, and no two objects  *)
(* share a context.                                                        *)
OneContext ==
  /\ live = {claimed} \ {0}
  /\ \A o, p \in Object : ftdi_context[o] # 0 /\ ftdi_context[o] = ftdi_context[p] => o = p

(* The context belongs to an object, unless an object lost one. *)
ContextOwned == ~overwritten /\ claimed # 0 => \E o \in Object : ftdi_context[o] = claimed

ContextsInv == ContextsTypeOK /\ OneContext /\ OpenMeansClaimed /\ ContextOwned

(* begin() of an object, alone or as a step of the setup's begin(). *)
LEMMA ObjectBeginKeeps ==
  ASSUME ContextsInv, NEW o \in Object, NEW how \in Outcome, BeginObject(o, how),
         begins' \in Seq(Object)
  PROVE  ContextsInv'
<1> USE DEF ContextsInv, BeginObject, Opened
<1>1. ContextsTypeOK'
  BY DEF ContextsTypeOK
<1>2. CASE how = "opens"
  <2>1. claimed = 0 /\ live = {} /\ \A p \in Object : ftdi_context[p] = 0
    BY <1>2 DEF OneContext, OpenMeansClaimed
  <2>2. claimed' = made + 1 /\ live' = {made + 1} /\ made + 1 # 0
    BY <1>2, <2>1 DEF ContextsTypeOK
  <2>3. ftdi_context' = [ftdi_context EXCEPT ![o] = made + 1] /\ ftdi_is_open'[o]
    BY <1>2 DEF ContextsTypeOK
  <2>4. QED
    BY <1>1, <2>1, <2>2, <2>3 DEF ContextsTypeOK, OneContext, OpenMeansClaimed, ContextOwned
<1>3. CASE how # "opens"
  <2>1. /\ live' = live /\ claimed' = claimed
        /\ ftdi_context' = [ftdi_context EXCEPT ![o] = 0]
        /\ \A p \in Object \ {o} : ftdi_is_open'[p] = ftdi_is_open[p]
    BY <1>3 DEF ContextsTypeOK
  <2>2. OneContext' /\ OpenMeansClaimed'
    BY <2>1 DEF ContextsTypeOK, OneContext, OpenMeansClaimed
  <2>3. ContextOwned'
    BY <2>1 DEF ContextsTypeOK, ContextOwned
  <2>4. QED
    BY <1>1, <2>2, <2>3
<1>4. QED
  BY <1>2, <1>3

(* end() of one object. *)
LEMMA ObjectCloseKeeps ==
  ASSUME ContextsInv, NEW o \in Object, EndAlone(o)
  PROVE  ContextsInv'
<1> USE DEF ContextsInv, EndAlone, Close, setup
<1>1. ContextsTypeOK'
  <2>1. begins' = begins /\ made' = made
    OBVIOUS
  <2>2. 0 \in 0 .. made
    BY DEF ContextsTypeOK
  <2>3. QED
    BY <2>1, <2>2 DEF ContextsTypeOK
<1>2. CASE ftdi_context[o] = 0
  <2>1. claimed' = claimed
    BY <1>2
  <2>2. live' = live
    BY <1>2 DEF ContextsTypeOK
  <2>3. \A p \in Object : ftdi_context'[p] = ftdi_context[p]
    BY <1>2 DEF ContextsTypeOK
  <2>4. \A p \in Object \ {o} : ftdi_is_open'[p] = ftdi_is_open[p]
    BY DEF ContextsTypeOK
  <2>5. QED
    BY <1>1, <1>2, <2>1, <2>2, <2>3, <2>4 DEF OneContext, OpenMeansClaimed, ContextOwned
<1>3. CASE ftdi_context[o] # 0
  <2>1. claimed = ftdi_context[o] /\ live' = {} /\ claimed' = 0
    BY <1>3 DEF ContextsTypeOK, OneContext, OpenMeansClaimed
  <2>2. \A p \in Object : ftdi_context'[p] = 0
    BY <1>3, <2>1 DEF ContextsTypeOK, OneContext, OpenMeansClaimed
  <2>3. QED
    BY <1>1, <2>1, <2>2 DEF OneContext, OpenMeansClaimed, ContextOwned
<1>4. QED
  BY <1>2, <1>3

(* HardwareSetupFTDI::end(), which ends all three. *)
LEMMA AllCloseKeeps ==
  ASSUME ContextsInv, SetupEnd
  PROVE  ContextsInv'
<1> USE DEF ContextsInv, SetupEnd, setup
<1>1. ContextsTypeOK'
  <2>1. begins' = begins /\ made' = made
    OBVIOUS
  <2>2. 0 \in 0 .. made
    BY DEF ContextsTypeOK
  <2>3. QED
    BY <2>1, <2>2 DEF ContextsTypeOK
<1>2. \A o \in Object : ftdi_context'[o] = 0
  OBVIOUS
<1>3. CASE \E o \in Object : ftdi_context[o] = claimed
  <2>1. PICK o \in Object : ftdi_context[o] = claimed
    BY <1>3
  <2>2. live' = {}
    BY <2>1 DEF OneContext
  <2>3. claimed' = 0
    BY <1>3
  <2>4. QED
    BY <1>1, <1>2, <2>2, <2>3 DEF OneContext, OpenMeansClaimed, ContextOwned
<1>4. CASE ~\E o \in Object : ftdi_context[o] = claimed
  <2>1. \A o \in Object : ftdi_context[o] = 0
    BY <1>4 DEF OpenMeansClaimed
  <2>2. live' = live /\ claimed' = claimed
    BY <1>4, <2>1 DEF ContextsTypeOK
  <2>3. QED
    BY <1>1, <1>2, <2>1, <2>2 DEF OneContext, OpenMeansClaimed, ContextOwned
<1>5. QED
  BY <1>3, <1>4

(* ContextsInv is inductive. *)
LEMMA StepContextsInv ==
  ASSUME ContextsInv, [ContextsNext]_contextsVars
  PROVE  ContextsInv'
<1>1. ASSUME NEW o \in Object, NEW how \in Outcome, BeginAlone(o, how) PROVE ContextsInv'
  <2>1. BeginObject(o, how) /\ begins' \in Seq(Object)
    BY <1>1 DEF BeginAlone, BeginOf, I2CBegin, SPIBegin, GPIOBegin, Object, setup, ContextsInv, ContextsTypeOK
  <2>2. QED
    BY <2>1, ObjectBeginKeeps
<1>2. ASSUME NEW how \in Outcome, SetupStep(how) PROVE ContextsInv'
  <2>1. Head(begins) \in Object /\ begins' \in Seq(Object)
    BY <1>2, HeadTailProperties DEF SetupStep, ContextsInv, ContextsTypeOK
  <2>2. BeginObject(Head(begins), how)
    BY <1>2, <2>1 DEF SetupStep, BeginOf, I2CBegin, SPIBegin, GPIOBegin, Object
  <2>3. QED
    BY <2>1, <2>2, ObjectBeginKeeps
<1>3. ASSUME NEW o \in Object, EndAlone(o) PROVE ContextsInv'
  BY <1>3, ObjectCloseKeeps
<1>4. CASE SetupEnd
  BY <1>4, AllCloseKeeps
<1>5. CASE SetupBegin \/ SetupReturn \/ UNCHANGED contextsVars
  <2>1. CASE SetupBegin
    <3>1. begins' = <<"gpio", "i2c", "spi">> /\ {"gpio", "i2c", "spi"} \subseteq Object
      BY <2>1 DEF SetupBegin, Object
    <3>2. QED
      BY <3>1, <2>1 DEF SetupBegin, ContextsInv, ContextsTypeOK, OneContext, OpenMeansClaimed, ContextOwned
  <2>2. CASE SetupReturn \/ UNCHANGED contextsVars
    BY <2>2 DEF SetupReturn, contextsVars, ContextsInv, ContextsTypeOK, OneContext, OpenMeansClaimed, ContextOwned
  <2>3. QED
    BY <1>5, <2>1, <2>2
<1>6. QED
  BY <1>1, <1>2, <1>3, <1>4, <1>5 DEF ContextsNext

LEMMA InitContextsInv == ContextsInit => ContextsInv
BY DEF ContextsInit, ContextsInv, ContextsTypeOK, OneContext, OpenMeansClaimed, ContextOwned

(* An object with a context owns the interface through it, in any order of *)
(* begin(), end() and destructors of the three FTDI objects and of         *)
(* HardwareSetupFTDI and whatever fails.                                   *)
THEOREM ContextsOwned == ContextsSpec => []OpenMeansClaimed
<1>1. ContextsInit => ContextsInv
  BY InitContextsInv
<1>2. ContextsInv /\ [ContextsNext]_contextsVars => ContextsInv'
  BY StepContextsInv
<1>3. ContextsInv => OpenMeansClaimed
  BY DEF ContextsInv
<1>4. QED
  BY <1>1, <1>2, <1>3, PTL DEF ContextsSpec

(* Once no object has a context, none is left and the interface is free,   *)
(* unless an object was begun twice.                                       *)
THEOREM InterfaceReleased == ContextsSpec => []ReleasedWhenEnded
<1>1. ContextsInit => ContextsInv
  BY InitContextsInv
<1>2. ContextsInv /\ [ContextsNext]_contextsVars => ContextsInv'
  BY StepContextsInv
<1>3. ContextsInv => ReleasedWhenEnded
  BY DEF ContextsInv, OneContext, ContextOwned, ReleasedWhenEnded
<1>4. QED
  BY <1>1, <1>2, <1>3, PTL DEF ContextsSpec

-----------------------------------------------------------------------------
(***************************************************************************)
(* SecureSocket                                                            *)
(***************************************************************************)
(* Types; the counter counts the sockets that exist. *)
SecureTypeOK ==
  /\ sockets \subseteq Socket /\ IsFiniteSet(sockets)
  /\ wolf_ssl_counter = Cardinality(sockets)
  /\ contexts \in [made : Nat, live : SUBSET Nat]
  /\ wolf_ctx \in 0 .. contexts.made
  /\ inits \in Int
  /\ ssl \in [Socket -> Nat]
  /\ ctxFailed \in BOOLEAN

(* As long as every context could be made, the sockets have one. *)
Served == ~ctxFailed /\ sockets # {} => wolf_ctx # 0

(* The context in use is the only one that lives, every session is its,    *)
(* and without sockets there is none.                                      *)
Serves ==
  /\ contexts.live = {wolf_ctx} \ {0}
  /\ \A s \in sockets : ssl[s] \in {0, wolf_ctx}
  /\ sockets = {} => wolf_ctx = 0

(* The library is set up once while there is a context. *)
SetUp == ~ctxFailed => inits = IF wolf_ctx = 0 THEN 0 ELSE 1

SecureInv == SecureTypeOK /\ Served /\ Serves /\ SetUp

(* The counter is 0 without sockets and 1 with the last. *)
LEMMA Counted ==
  ASSUME SecureTypeOK, NEW s \in Socket
  PROVE  /\ wolf_ssl_counter = 0 <=> sockets = {}
         /\ s \in sockets => (wolf_ssl_counter = 1 <=> sockets = {s})
         /\ s \in sockets => Cardinality(sockets \ {s}) = wolf_ssl_counter - 1
         /\ s \notin sockets => Cardinality(sockets \cup {s}) = wolf_ssl_counter + 1
<1>1. wolf_ssl_counter = 0 <=> sockets = {}
  BY FS_EmptySet DEF SecureTypeOK
<1>2. s \notin sockets => Cardinality(sockets \cup {s}) = wolf_ssl_counter + 1
  BY FS_AddElement DEF SecureTypeOK
<1>3. ASSUME s \in sockets
      PROVE  /\ Cardinality(sockets \ {s}) = wolf_ssl_counter - 1
             /\ wolf_ssl_counter = 1 <=> sockets = {s}
  <2>1. /\ IsFiniteSet(sockets \ {s}) 
        /\ Cardinality(sockets \ {s}) = wolf_ssl_counter - 1
    BY <1>3, FS_RemoveElement DEF SecureTypeOK
  <2>2. wolf_ssl_counter \in Nat
    BY FS_CardinalityType DEF SecureTypeOK
  <2>3. wolf_ssl_counter = 1 <=> Cardinality(sockets \ {s}) = 0
    BY <2>1, <2>2
  <2>4. Cardinality(sockets \ {s}) = 0 <=> sockets \ {s} = {}
    BY <2>1, FS_EmptySet
  <2>5. sockets \ {s} = {} <=> sockets = {s}
    BY <1>3
  <2>6. QED
    BY <2>1, <2>3, <2>4, <2>5
<1>4. QED
  BY <1>1, <1>2, <1>3

LEMMA SecureConstructKeeps ==
  ASSUME SecureInv, NEW s \in Socket, NEW ctxOk \in BOOLEAN, NEW sslOk \in BOOLEAN,
         SecureConstruct(s, ctxOk, sslOk)
  PROVE  SecureInv'
<1> USE DEF SecureInv, SecureConstruct
<1>1. /\ sockets' \subseteq Socket /\ IsFiniteSet(sockets')
      /\ wolf_ssl_counter' = Cardinality(sockets')
  BY Counted, FS_AddElement DEF SecureTypeOK
<1>2. CASE wolf_ctx # 0
  <2>1. wolf_ssl_counter # 0
    BY <1>2, Counted DEF Serves
  <2>2. UNCHANGED <<inits, ctxFailed, wolf_ctx, contexts>>
    BY <1>2, <2>1
  <2>3. SecureTypeOK'
    BY <1>1, <2>2 DEF SecureTypeOK
  <2>4. QED
    BY <1>2, <2>2, <2>3 DEF SecureTypeOK, Served, Serves, SetUp
<1>3. CASE wolf_ctx = 0
  <2>1. /\ inits' = inits + 1
        /\ ctxFailed' = (ctxFailed \/ ~ctxOk)
        /\ wolf_ctx' = IF ctxOk THEN contexts.made + 1 ELSE 0
        /\ contexts' = IF ctxOk
                       THEN [made |-> contexts.made + 1,
                             live |-> contexts.live \cup {contexts.made + 1}]
                       ELSE [contexts EXCEPT !.made = @ + 1]
    BY <1>3
  <2>2. contexts.live = {} /\ \A r \in sockets : ssl[r] = 0
    BY <1>3 DEF Serves
  <2>3. contexts' \in [made : Nat, live : SUBSET Nat] /\ contexts'.made = contexts.made + 1
    BY <2>1, <2>2 DEF SecureTypeOK
  <2>4. contexts'.live = {wolf_ctx'} \ {0}
    BY <2>1, <2>2 DEF SecureTypeOK
  <2>5. wolf_ctx' \in 0 .. contexts'.made /\ ssl' \in [Socket -> Nat]
    BY <2>1, <2>3 DEF SecureTypeOK
  <2>6. SecureTypeOK'
    BY <1>1, <2>1, <2>3, <2>5 DEF SecureTypeOK
  <2>7. contexts.made + 1 # 0 /\ inits + 1 \in Int
    BY DEF SecureTypeOK
  <2>8. Serves'
    <3>1. ssl' = [ssl EXCEPT ![s] = IF sslOk THEN wolf_ctx' ELSE 0]
      OBVIOUS
    <3>2. \A r \in sockets' : ssl'[r] \in {0, wolf_ctx'}
      BY <2>2, <3>1 DEF SecureTypeOK
    <3>3. QED
      BY <2>4, <3>2 DEF Serves
  <2>9. CASE ctxOk
    <3>1. wolf_ctx' # 0
      BY <2>1, <2>7, <2>9
    <3>2. ~ctxFailed' => ~ctxFailed
      BY <2>1
    <3>3. ~ctxFailed => inits = 0
      BY <1>3 DEF SetUp
    <3>4. QED
      BY <2>1, <2>6, <2>8, <3>1, <3>2, <3>3 DEF Served, SetUp
  <2>10. CASE ~ctxOk
    BY <2>1, <2>6, <2>8, <2>10 DEF Served, SetUp
  <2>11. QED
    BY <2>9, <2>10
<1>4. QED
  BY <1>2, <1>3

LEMMA SecureDestroyKeeps ==
  ASSUME SecureInv, NEW s \in Socket, SecureDestroy(s)
  PROVE  SecureInv'
<1> USE DEF SecureInv, SecureDestroy
<1>1. /\ sockets' \subseteq Socket /\ IsFiniteSet(sockets')
      /\ wolf_ssl_counter' = Cardinality(sockets')
  BY Counted, FS_RemoveElement DEF SecureTypeOK
<1>2. wolf_ssl_counter = 1 <=> sockets' = {}
  BY Counted
<1>3. CASE wolf_ssl_counter = 1 /\ wolf_ctx # 0
  <2>1. /\ contexts' = [contexts EXCEPT !.live = @ \ {wolf_ctx}]
        /\ wolf_ctx' = 0 /\ inits' = inits - 1
    BY <1>3
  <2>2. contexts' \in [made : Nat, live : SUBSET Nat] /\ contexts'.made = contexts.made
    BY <2>1 DEF SecureTypeOK
  <2>3. contexts'.live = {}
    BY <2>1 DEF SecureTypeOK, Serves
  <2>4. sockets' = {}
    BY <1>2, <1>3
  <2>5. ~ctxFailed => inits = 1
    BY <1>3 DEF SetUp
  <2>6. inits' \in Int
    BY <2>1 DEF SecureTypeOK
  <2>7. SecureTypeOK'
    BY <1>1, <2>1, <2>2, <2>6 DEF SecureTypeOK
  <2>8. Served' /\ Serves' /\ SetUp'
    BY <2>1, <2>3, <2>4, <2>5 DEF Served, Serves, SetUp
  <2>9. QED
    BY <2>7, <2>8
<1>4. CASE ~(wolf_ssl_counter = 1 /\ wolf_ctx # 0)
  <2>1. UNCHANGED <<contexts, wolf_ctx, inits, ctxFailed>>
    BY <1>4
  <2>2. SecureTypeOK'
    BY <1>1, <2>1 DEF SecureTypeOK
  <2>3. Served' /\ Serves' /\ SetUp'
    BY <1>2, <1>4, <2>1 DEF SecureTypeOK, Served, Serves, SetUp
  <2>4. QED
    BY <2>2, <2>3
<1>5. QED
  BY <1>3, <1>4

(* SecureInv is inductive. *)
LEMMA StepSecureInv ==
  ASSUME SecureInv, [SecureNext]_secureSocketVars
  PROVE  SecureInv'
<1>1. ASSUME NEW s \in Socket, NEW ctxOk \in BOOLEAN, NEW sslOk \in BOOLEAN,
             SecureConstruct(s, ctxOk, sslOk)
      PROVE  SecureInv'
  BY <1>1, SecureConstructKeeps
<1>2. ASSUME NEW s \in Socket, SecureDestroy(s) PROVE SecureInv'
  BY <1>2, SecureDestroyKeeps
<1>3. ASSUME NEW s \in Socket, NEW ok \in BOOLEAN, connect(s, ok) PROVE SecureInv'
  BY <1>3 DEF connect, SecureInv, SecureTypeOK, Served, Serves, SetUp
<1>4. CASE UNCHANGED secureSocketVars
  BY <1>4 DEF secureSocketVars, SecureInv, SecureTypeOK, Served, Serves, SetUp
<1>5. QED
  BY <1>1, <1>2, <1>3, <1>4 DEF SecureNext

(* However many secure sockets come and go, the context they share is the  *)
(* only one, lives as long as one of them does and no longer, and every    *)
(* session is its: the counter in the constructor and the destructor of    *)
(* SocketImplSecure.                                                       *)
THEOREM ContextShared == SecureSpec => []ContextServesAll
<1>1. ASSUME SecureInit PROVE SecureInv
  <2>1. /\ contexts = [made |-> 0, live |-> {}]
        /\ wolf_ctx = 0 /\ sockets = {} /\ inits = 0
    BY <1>1 DEF SecureInit
  <2>2. SecureTypeOK
    <3>1. IsFiniteSet(sockets) /\ wolf_ssl_counter = Cardinality(sockets)
      BY <1>1, <2>1, FS_EmptySet DEF SecureInit
    <3>2. contexts \in [made : Nat, live : SUBSET Nat] /\ contexts.made = 0
      BY <2>1
    <3>3. ssl \in [Socket -> Nat] /\ ctxFailed \in BOOLEAN
      BY <1>1 DEF SecureInit
    <3>4. wolf_ctx \in 0 .. contexts.made
      BY <2>1, <3>2
    <3>5. QED
      BY <2>1, <3>1, <3>2, <3>3, <3>4 DEF SecureTypeOK
  <2>3. Served /\ Serves /\ SetUp
    BY <2>1 DEF Served, Serves, SetUp
  <2>4. QED
    BY <2>2, <2>3 DEF SecureInv
<1>2. SecureInv /\ [SecureNext]_secureSocketVars => SecureInv'
  BY StepSecureInv
<1>3. ASSUME SecureInv PROVE ContextServesAll
  <2>1. CASE wolf_ctx = 0
    <3>1. contexts.live = {}
      BY <1>3, <2>1 DEF SecureInv, Serves
    <3>2. Cardinality(contexts.live) = 0
      BY <3>1, FS_EmptySet
    <3>3. QED
      BY <1>3, <2>1, <3>2 DEF SecureInv, Serves, SetUp, ContextServesAll
  <2>2. CASE wolf_ctx # 0
    <3>1. contexts.live = {wolf_ctx}
      BY <1>3, <2>2 DEF SecureInv, Serves
    <3>2. Cardinality(contexts.live) = 1
      BY <3>1, FS_Singleton
    <3>3. QED
      BY <1>3, <2>2, <3>2 DEF SecureInv, Serves, SetUp, ContextServesAll
  <2>3. QED
    BY <2>1, <2>2
<1>4. QED
  BY <1>1, <1>2, <1>3, PTL DEF SecureSpec
=============================================================================
