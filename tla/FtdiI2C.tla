-------------------------------- MODULE FtdiI2C --------------------------------
(***************************************************************************)
(* HardwareI2C_FTDI after its context is open (module FtdiContexts).  One  *)
(* step is a write of a line command, or a byte sent or received with its  *)
(* acknowledge.                                                            *)
(*                                                                         *)
(* External: the chip takes one stream of bytes.  A line command is three  *)
(* bytes.  0x11 and 0x24 (bytes out, bytes in) take two bytes of length    *)
(* and 0x11 then length + 1 bytes of data, and that is what the code       *)
(* sends, in the form the bit commands 0x13 and 0x26 would have: one byte  *)
(* of length, then the data.  So the data is the high byte of a length,    *)
(* and what follows, the stop condition too, is swallowed as data.         *)
(*                                                                         *)
(* When the data ends within a write, when 0x24 is taken for a command,    *)
(* and when a write fails the chip is astray: what it makes of the bytes,  *)
(* and what it answers, can be anything until begin() resets it.           *)
(***************************************************************************)
EXTENDS Integers, Sequences

CONSTANTS
  BufferSize,  \* sizeof(tx_buffer), sizeof(rx_buffer)
  I2CBase,     \* 256, the number of values of a byte
  Address,     \* addresses of slaves
  MaxQuantity  \* bound: bytes requested, and bytes in one write()

ASSUME I2CAssumption ==
  BufferSize \in Nat \ {0} /\ I2CBase \in Nat \ {0} /\ Address \subseteq Nat

VARIABLES
  i2c_is_open,
  current_slave_address,
  tx_buffer_length,
  rx_available, \* rx_buffer_length - rx_buffer_index
  i2c_call,     \* the call in progress
  i2c_result,   \* of the last endTransmission() or requestFrom() since begin()
  lines,        \* the lines the chip was told to hold high
  swallows,     \* the data bytes the chip still takes, 0 if it takes a
                \* command, or Astray
  strayed       \* history: it has been astray since begin()

buffers == <<current_slave_address, tx_buffer_length, rx_available>>
chipI2CVars == <<lines, swallows, strayed>>
i2cVars == <<i2c_is_open, buffers, i2c_call, i2c_result, chipI2CVars>>
-----------------------------------------------------------------------------
Astray == -1
BothHigh == {"sda", "scl"}
StartLines == <<BothHigh, {"scl"}, {}>>
StopLines == <<{}, {"scl"}, BothHigh>>

NoI2CCall == [name |-> "none"]
InCall(name) == i2c_call.name = name
Going == -1  \* the code of a call that goes on
MinOf(a, b) == IF a < b THEN a ELSE b

I2CInit ==
  /\ i2c_is_open = FALSE
  /\ current_slave_address = 0 /\ tx_buffer_length = 0 /\ rx_available = 0
  /\ i2c_call = NoI2CCall /\ i2c_result = <<"none", 0>>
  /\ lines = BothHigh /\ swallows = 0 /\ strayed = FALSE

(* configureMPSSE(): the chip is reset and both lines go high. *)
I2COpen ==
  /\ ~i2c_is_open /\ InCall("none")
  /\ i2c_is_open' = TRUE
  /\ lines' = BothHigh /\ swallows' = 0 /\ strayed' = FALSE
  /\ i2c_result' = <<"none", 0>>
  /\ UNCHANGED <<buffers, i2c_call>>

I2CEnd ==
  /\ InCall("none")
  /\ i2c_is_open' = FALSE
  /\ tx_buffer_length' = 0 /\ rx_available' = 0
  /\ UNCHANGED <<current_slave_address, i2c_call, i2c_result, chipI2CVars>>

beginTransmission(address) ==
  /\ InCall("none")
  /\ current_slave_address' = address /\ tx_buffer_length' = 0
  /\ UNCHANGED <<i2c_is_open, rx_available, i2c_call, i2c_result, chipI2CVars>>

(* write(): what fits is stored. *)
write(quantity) ==
  /\ InCall("none")
  /\ tx_buffer_length' = MinOf(tx_buffer_length + quantity, BufferSize)
  /\ UNCHANGED <<i2c_is_open, current_slave_address, rx_available, i2c_call, i2c_result,
                chipI2CVars>>

read ==
  /\ InCall("none") /\ rx_available > 0
  /\ rx_available' = rx_available - 1
  /\ UNCHANGED <<i2c_is_open, current_slave_address, tx_buffer_length, i2c_call, i2c_result,
                chipI2CVars>>
-----------------------------------------------------------------------------
(* What the chip that swallows c bytes does after a write: of n bytes that *)
(* it takes for data; of a line or clock command; of 0x11, the low byte of *)
(* a length and the byte meant as data; of 0x24 and a byte, which no chip  *)
(* that takes commands is left with.                                       *)
Swallowed(c, n) == IF c < n THEN Astray ELSE c - n
AfterCommand(c) == IF c = 0 THEN 0 ELSE Swallowed(c, 3)
AfterData(c, low, byte) == IF c = 0 THEN I2CBase * byte + low + 1 ELSE Swallowed(c, 3)
AfterRead(c) == Swallowed(c, 2)

ChipGoes(c) == swallows' = c /\ strayed' = (strayed \/ c = Astray)

(* The lines hold unless the chip takes line commands nobody sent. *)
LinesHold == swallows' = Astray \/ lines' = lines

AnyLines == lines' \in SUBSET BothHigh

(* setClock() of an open object: the command for the divisor. *)
setClock ==
  /\ InCall("none") /\ i2c_is_open
  /\ ChipGoes(AfterCommand(swallows)) \/ ChipGoes(Astray)
  /\ AnyLines /\ LinesHold
  /\ UNCHANGED <<i2c_is_open, buffers, i2c_call, i2c_result>>

(* A call begins with a start condition; it is refused when the object is  *)
(* not open.                                                               *)
I2CCall(name, address, stopBit, quantity, refused) ==
  /\ InCall("none")
  /\ IF i2c_is_open
     THEN /\ i2c_call' = [name |-> name, address |-> address, stopBit |-> stopBit,
                          quantity |-> quantity, next |-> 0, lines |-> StartLines,
                          code |-> Going]
          /\ UNCHANGED i2c_result
     ELSE i2c_result' = <<name, refused>> /\ UNCHANGED i2c_call
  /\ UNCHANGED <<i2c_is_open, buffers, chipI2CVars>>

endTransmission(stopBit) ==
  I2CCall("end", 2 * current_slave_address, stopBit, tx_buffer_length, 4)

requestFrom(address, quantity, stopBit) ==
  I2CCall("request", 2 * address + 1, stopBit, MinOf(quantity, BufferSize), 0)

(* The call returns: only success clears tx_buffer. *)
Returned(code) ==
  /\ i2c_call' = NoI2CCall
  /\ i2c_result' = <<i2c_call.name, code>>
  /\ tx_buffer_length' = IF InCall("end") /\ code = 0 THEN 0 ELSE tx_buffer_length
  /\ UNCHANGED <<i2c_is_open, current_slave_address, rx_available>>

(* setLineStates(), the next of a start or of a stop condition. *)
LineDue == ~InCall("none") /\ i2c_call.lines # <<>>

LineSent ==
  /\ LineDue
  /\ ChipGoes(AfterCommand(swallows))
  /\ AnyLines
  /\ IF swallows = 0 THEN lines' = Head(i2c_call.lines) ELSE LinesHold
  /\ i2c_call' = [i2c_call EXCEPT !.lines = Tail(@)]
  /\ UNCHANGED <<i2c_is_open, buffers, i2c_result>>

(* It fails: so does the call when it starts, and endTransmission() that   *)
(* was about to return 0; otherwise the code stays what it was.            *)
LineFails ==
  /\ LineDue
  /\ ChipGoes(Astray) /\ AnyLines
  /\ Returned(IF InCall("end") /\ i2c_call.code \in {Going, 0} THEN 4
              ELSE IF i2c_call.code = Going THEN 0 ELSE i2c_call.code)

(* What is left is the stop condition, if it was asked for. *)
Stopping(code) ==
  i2c_call' = [i2c_call EXCEPT !.code = code,
                               !.lines = IF i2c_call.stopBit THEN StopLines ELSE <<>>]
-----------------------------------------------------------------------------
(* sendByteCheckAck() is due for the address and each byte of tx_buffer. *)
ByteDue ==
  /\ ~InCall("none") /\ i2c_call.lines = <<>> /\ i2c_call.code = Going
  /\ i2c_call.next <= IF InCall("end") THEN i2c_call.quantity ELSE 0

(* Its two writes, the second of which asks for an answer. *)
ByteSent ==
  /\ \E byte \in IF i2c_call.next = 0 THEN {i2c_call.address} ELSE 0 .. I2CBase - 1 :
       \/ ChipGoes(AfterRead(AfterData(swallows, 7, byte)))
       \/ ChipGoes(Astray)
  /\ AnyLines /\ LinesHold

(* Mutation of Answered: ack_bit is looked at although no answer came. *)
AnsweredOrNot == TRUE

(* Only a chip that is astray can have an answer, which may be anything. *)
Answered == swallows' = Astray

(* The bit says ACK: the next byte.  That of the address of requestFrom()  *)
(* clears rx_buffer.                                                       *)
ByteAcked ==
  /\ ByteDue
  /\ ByteSent
  /\ Answered
  /\ i2c_call' = [i2c_call EXCEPT !.next = @ + 1]
  /\ rx_available' = IF InCall("request") THEN 0 ELSE rx_available
  /\ UNCHANGED <<i2c_is_open, current_slave_address, tx_buffer_length, i2c_result>>

(* It says NACK, or there is no answer, or a write failed: endTransmission *)
(* returns 2 for the address and 3 for a data byte, requestFrom() 0.       *)
ByteNacked ==
  /\ ByteDue
  /\ ByteSent
  /\ Stopping(IF InCall("request") THEN 0 ELSE IF i2c_call.next = 0 THEN 2 ELSE 3)
  /\ UNCHANGED <<i2c_is_open, buffers, i2c_result>>

(* receiveByteSendAck(): a byte that does not come is stored as 0 and not  *)
(* acknowledged; the last is answered with 0x80.                           *)
ReceiveI2CByte ==
  /\ InCall("request") /\ i2c_call.lines = <<>> /\ i2c_call.code = Going
  /\ i2c_call.next \in 1 .. i2c_call.quantity
  /\ \/ ChipGoes(AfterRead(swallows))
     \/ ChipGoes(Astray)
  /\ AnyLines /\ LinesHold
  /\ rx_available' = rx_available + 1
  /\ i2c_call' = [i2c_call EXCEPT !.next = @ + 1]
  /\ UNCHANGED <<i2c_is_open, current_slave_address, tx_buffer_length, i2c_result>>

(* Every byte was sent, or received. *)
AllDone ==
  /\ ~InCall("none") /\ i2c_call.lines = <<>> /\ i2c_call.code = Going
  /\ i2c_call.next > i2c_call.quantity /\ ~ByteDue
  /\ Stopping(IF InCall("request") THEN rx_available ELSE 0)
  /\ UNCHANGED <<i2c_is_open, buffers, i2c_result, chipI2CVars>>

I2CReturn ==
  /\ ~InCall("none") /\ i2c_call.lines = <<>> /\ i2c_call.code # Going
  /\ Returned(i2c_call.code)
  /\ UNCHANGED chipI2CVars

I2CNext ==
  \/ I2COpen \/ I2CEnd \/ setClock \/ read
  \/ \E address \in Address : beginTransmission(address)
  \/ \E quantity \in 1 .. MaxQuantity : write(quantity)
  \/ \E stopBit \in BOOLEAN : endTransmission(stopBit)
  \/ \E address \in Address, quantity \in 1 .. MaxQuantity, stopBit \in BOOLEAN :
       requestFrom(address, quantity, stopBit)
  \/ LineSent \/ LineFails \/ ByteAcked \/ ByteNacked \/ ReceiveI2CByte
  \/ AllDone \/ I2CReturn

I2CSpec == I2CInit /\ [][I2CNext]_i2cVars
-----------------------------------------------------------------------------
(* No byte reaches a slave as the code means it, so no call may report     *)
(* success: endTransmission() does not return 0, and requestFrom() returns *)
(* 0, however many calls the chip has swallowed.  A chip that was astray   *)
(* since begin() may have answered anything.                               *)
NoFalseSuccess ==
  ~strayed => /\ i2c_result # <<"end", 0>>
              /\ i2c_result[1] = "request" => i2c_result[2] = 0

(* "Whether to send stop condition (default: true)"                        *)
(* (HardwareI2C_FTDI.h:124): a call with stopBit leaves both lines high,   *)
(* unless the chip was astray since begin().                               *)
BusReleased ==
  [][ ~InCall("none") =>
        (i2c_call'.name = "none" /\ i2c_call.stopBit /\ ~strayed' => lines' = BothHigh) ]_i2cVars
=============================================================================
