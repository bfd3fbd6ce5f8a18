----------------------------- MODULE FtdiContexts -----------------------------
(***************************************************************************)
(* The libftdi contexts of the three objects inside a HardwareSetupFTDI,   *)
(* which all open interface A of the same chip.  A context is a number, 0  *)
(* is nullptr.  External: ftdi_new() makes a context, ftdi_free() destroys *)
(* it, and an interface belongs to one open context at a time.             *)
(***************************************************************************)
EXTENDS Naturals, Sequences

CONSTANT MaxBegun  \* bound: contexts made

VARIABLES
  ftdi_context,  \* of each object
  ftdi_is_open,  \* of each object
  made,          \* contexts made so far
  live,          \* contexts not freed
  claimed,       \* the context interface A belongs to
  begins,        \* HardwareSetupFTDI::begin(): objects still to begin
  result,        \* what it will return, "none" outside
  overwritten    \* history: begin() of an object that had a context

contextsVars == <<ftdi_context, ftdi_is_open, made, live, claimed, begins, result, overwritten>>
setup == <<begins, result>>
-----------------------------------------------------------------------------
Object == {"gpio", "i2c", "spi"}

ContextsInit ==
  /\ ftdi_context = [o \in Object |-> 0]
  /\ ftdi_is_open = [o \in Object |-> FALSE]
  /\ made = 0 /\ live = {} /\ claimed = 0
  /\ begins = <<>> /\ result = "none"
  /\ overwritten = FALSE

(* Mutation of Opened: the pointer to the freed context stays. *)
OpenedOrDangling(o, c, how) ==
  /\ ftdi_context' = [ftdi_context EXCEPT ![o] = IF how = "unusable" THEN 0 ELSE c]
  /\ ftdi_is_open' = [ftdi_is_open EXCEPT ![o] = how = "opens" \/ (how = "refused" /\ @)]
  /\ live' = IF how = "opens" THEN live \cup {c} ELSE live
  /\ claimed' = IF how = "opens" THEN c ELSE claimed

(* begin() of one object stores the new context c over the old one.  If    *)
(* the device is refused the context is freed and is_open keeps its value; *)
(* if it is open but cannot be reset or configured, end() closes it again. *)
Opened(o, c, how) ==
  /\ ftdi_context' = [ftdi_context EXCEPT ![o] = IF how = "opens" THEN c ELSE 0]
  /\ ftdi_is_open' = [ftdi_is_open EXCEPT ![o] = how = "opens" \/ (how = "refused" /\ @)]
  /\ live' = IF how = "opens" THEN live \cup {c} ELSE live
  /\ claimed' = IF how = "opens" THEN c ELSE claimed

BeginObject(o, how) ==
  /\ made < MaxBegun
  /\ how = "refused" \/ claimed = 0
  /\ made' = made + 1
  /\ Opened(o, made + 1, how)
  /\ overwritten' = (overwritten \/ ftdi_context[o] # 0)

(* HardwareI2C_FTDI::begin() and HardwareSPI_FTDI::begin(), which differ   *)
(* in what they configure, and HardwareGPIO_FTDI::begin(), which does not  *)
(* choose an interface and gets A.                                         *)
I2CBegin(how) == BeginObject("i2c", how)
SPIBegin(how) == BeginObject("spi", how)
GPIOBegin(how) == BeginObject("gpio", how)

BeginOf(o, how) ==
  CASE o = "i2c" -> I2CBegin(how) [] o = "spi" -> SPIBegin(how) [] o = "gpio" -> GPIOBegin(how)

Outcome == {"opens", "refused", "unusable"}

(* The sketch begins one object by itself, through Wire or SPI. *)
BeginAlone(o, how) ==
  /\ result = "none"
  /\ BeginOf(o, how)
  /\ UNCHANGED setup

(* Mutation of Close: the context is freed without being closed. *)
CloseFreesOnly(o) ==
  /\ live' = live \ {ftdi_context[o]}
  /\ ftdi_context' = [ftdi_context EXCEPT ![o] = 0]
  /\ ftdi_is_open' = [ftdi_is_open EXCEPT ![o] = FALSE]
  /\ UNCHANGED claimed

(* end() of one object, also called by its destructor. *)
Close(o) ==
  /\ live' = live \ {ftdi_context[o]}
  /\ claimed' = IF claimed = ftdi_context[o] THEN 0 ELSE claimed
  /\ ftdi_context' = [ftdi_context EXCEPT ![o] = 0]
  /\ ftdi_is_open' = [ftdi_is_open EXCEPT ![o] = FALSE]

EndAlone(o) ==
  /\ result = "none"
  /\ Close(o)
  /\ UNCHANGED <<made, setup, overwritten>>

(* HardwareSetupFTDI::begin() begins the three objects in this order, goes *)
(* on when one fails, and returns whether all have succeeded.              *)
SetupBegin ==
  /\ result = "none"
  /\ begins' = <<"gpio", "i2c", "spi">>
  /\ result' = "TRUE"
  /\ UNCHANGED <<ftdi_context, ftdi_is_open, made, live, claimed, overwritten>>

SetupStep(how) ==
  /\ begins # <<>>
  /\ BeginOf(Head(begins), how)
  /\ begins' = Tail(begins)
  /\ result' = IF how = "opens" THEN result ELSE "FALSE"

(* HardwareSetupFTDI::end() and its destructor end all three. *)
SetupEnd ==
  /\ result = "none"
  /\ live' = live \ {ftdi_context[o] : o \in Object}
  /\ claimed' = IF \E o \in Object : ftdi_context[o] = claimed THEN 0 ELSE claimed
  /\ ftdi_context' = [o \in Object |-> 0]
  /\ ftdi_is_open' = [o \in Object |-> FALSE]
  /\ UNCHANGED <<made, setup, overwritten>>

SetupReturn ==
  /\ begins = <<>> /\ result # "none"
  /\ result' = "none"
  /\ UNCHANGED <<ftdi_context, ftdi_is_open, made, live, claimed, begins, overwritten>>

ContextsNext ==
  \/ \E o \in Object, how \in Outcome : BeginAlone(o, how)
  \/ \E o \in Object : EndAlone(o)
  \/ SetupBegin
  \/ \E how \in Outcome : SetupStep(how)
  \/ SetupReturn \/ SetupEnd

ContextsSpec == ContextsInit /\ [][ContextsNext]_contextsVars
-----------------------------------------------------------------------------
(* An object that says it is open and has a context has one that exists    *)
(* and that the interface belongs to: whatever begin() fails at, and also  *)
(* when begin() is called twice, no object goes on with the interface of   *)
(* another or with a freed context.                                        *)
OpenMeansClaimed ==
  \A o \in Object : ftdi_context[o] # 0 =>
    ftdi_context[o] \in live /\ ftdi_is_open[o] /\ claimed = ftdi_context[o]

(* "Close the I2C interface and cleanup resources" (HardwareI2C_FTDI.h:91): *)
(* when no object has a context, none is left and the interface is free    *)
(* for the next begin(), on every path that fails, unless an object was    *)
(* begun twice: its first context is lost, and with it the interface.      *)
ReleasedWhenEnded ==
  (\A o \in Object : ftdi_context[o] = 0) /\ ~overwritten => live = {} /\ claimed = 0
=============================================================================
