--------------------------------- MODULE RpiI2C ---------------------------------
(***************************************************************************)
(* HardwareI2C_RPI: i2c-dev behind the Wire interface.  External: the      *)
(* descriptor keeps the address of the last I2C_SLAVE call the kernel did  *)
(* not refuse and starts without one; a message or a read the slave does   *)
(* not acknowledge fails, and a read may be short.  Neither the address    *)
(* nor the buffers are tied to a transmission, so the history notes of     *)
(* which transmission each byte is: for which slave it was begun, and what *)
(* became of the address.                                                  *)
(***************************************************************************)
EXTENDS Integers, Sequences, SequencesExt

CONSTANTS
  Slave,      \* addresses
  MaxWrites,  \* bound: bytes written
  MaxLen      \* bound: bytes requested, and bytes in one write()

ASSUME LenAssumption == MaxLen \in Nat

VARIABLES
  i2c_fd,         \* "none" or "open"
  i2c_is_open,
  address,        \* the kernel's address of the descriptor, None without
  i2c_tx_buffer,  \* bytes: number, and the transmission it is of
  i2c_rx_buffer, i2c_rx_pos,
  begun,          \* history: the last beginTransmission(): its slave, if its
                  \* ioctl was refused, if another slave was addressed since
  written,        \* history: the number of bytes written
  delivered,      \* history: the bytes delivered, each with its receiver
  dropped,        \* history: the bytes of messages that failed
  answer          \* history: what the last requestFrom() got from its slave

tx == <<i2c_tx_buffer, begun, written>>
rx == <<i2c_rx_buffer, i2c_rx_pos, answer>>
outcome == <<delivered, dropped>>
rpiI2CVars == <<i2c_fd, i2c_is_open, address, tx, rx, outcome>>
-----------------------------------------------------------------------------
None == "none"
Transmission(a, refused) == [for |-> a, refused |-> refused, moved |-> FALSE]

RpiI2CInit ==
  /\ i2c_fd = "none" /\ i2c_is_open = FALSE /\ address = None
  /\ i2c_tx_buffer = <<>> /\ i2c_rx_buffer = <<>> /\ i2c_rx_pos = 0
  /\ begun = Transmission(None, FALSE) /\ written = 0
  /\ delivered = <<>> /\ dropped = {} /\ answer = <<>>

(* The I2C_SLAVE call; its failure is only logged.  It cannot succeed      *)
(* without a descriptor.  The bytes in the buffer stay, whatever slave     *)
(* they were written for.                                                  *)
Moved(t, a, accepted) == [t EXCEPT !.moved = @ \/ (accepted /\ t.for # a)]
SetAddress(a, accepted) ==
  /\ address' = IF accepted THEN a ELSE address
  /\ i2c_tx_buffer' = [i \in DOMAIN i2c_tx_buffer |->
                         [i2c_tx_buffer[i] EXCEPT !.of = Moved(@, a, accepted)]]

(* begin(): opens the device if it is not open. *)
I2CBegin(opens) ==
  /\ i2c_fd = "none"
  /\ i2c_fd' = IF opens THEN "open" ELSE "none"
  /\ i2c_is_open' = opens
  /\ UNCHANGED <<address, tx, rx, outcome>>

(* begin(address): the same, then the address. *)
BeginAddress(a, opens, accepted) ==
  /\ i2c_fd' = IF i2c_fd = "open" \/ opens THEN "open" ELSE "none"
  /\ accepted => i2c_fd' = "open"
  /\ i2c_is_open' = accepted
  /\ SetAddress(a, accepted) /\ begun' = Moved(begun, a, accepted)
  /\ UNCHANGED <<written, rx, outcome>>

(* end() closes the descriptor, which loses its address; is_open and the   *)
(* buffers stay.                                                           *)
I2CEnd ==
  /\ i2c_fd = "open"
  /\ i2c_fd' = "none" /\ address' = None
  /\ UNCHANGED <<i2c_is_open, tx, rx, outcome>>

(* The transmit buffer is not emptied; if the call is refused the kernel   *)
(* keeps the slave that was addressed before.                              *)
beginTransmission(a, accepted) ==
  /\ accepted => i2c_fd = "open"
  /\ SetAddress(a, accepted)
  /\ begun' = Transmission(a, ~accepted)
  /\ UNCHANGED <<i2c_fd, i2c_is_open, written, rx, outcome>>

i2cWrite(n) ==
  /\ written + n <= MaxWrites
  /\ i2c_tx_buffer' = i2c_tx_buffer \o
       [i \in 1 .. n |-> [no |-> written + i, of |-> begun]]
  /\ written' = written + n
  /\ UNCHANGED <<i2c_fd, i2c_is_open, address, begun, rx, outcome>>

(* Mutation of endTransmission: a message that fails stays in the buffer. *)
endTransmissionKeeps(acked) ==
  /\ i2c_fd = "open" /\ i2c_tx_buffer # <<>> /\ (acked => address # None)
  /\ IF acked
     THEN /\ delivered' = delivered \o
               [i \in DOMAIN i2c_tx_buffer |-> [byte |-> i2c_tx_buffer[i], by |-> address]]
          /\ i2c_tx_buffer' = <<>> /\ UNCHANGED dropped
     ELSE /\ dropped' = dropped \cup {i2c_tx_buffer[i].no : i \in DOMAIN i2c_tx_buffer}
          /\ UNCHANGED <<i2c_tx_buffer, delivered>>
  /\ UNCHANGED <<i2c_fd, i2c_is_open, address, begun, written, rx>>

(* One message with the whole buffer, which is then empty in any case.     *)
(* Without a descriptor, or with nothing to send, it is error 4 at once.   *)
endTransmission(acked) ==
  /\ i2c_fd = "open" /\ i2c_tx_buffer # <<>> /\ (acked => address # None)
  /\ IF acked
     THEN /\ delivered' = delivered \o
               [i \in DOMAIN i2c_tx_buffer |-> [byte |-> i2c_tx_buffer[i], by |-> address]]
          /\ UNCHANGED dropped
     ELSE /\ dropped' = dropped \cup {i2c_tx_buffer[i].no : i \in DOMAIN i2c_tx_buffer}
          /\ UNCHANGED delivered
  /\ i2c_tx_buffer' = <<>>
  /\ UNCHANGED <<i2c_fd, i2c_is_open, address, begun, written, rx>>

(* std::vector::resize(): what is there stays, what is new is 0. *)
Resized(v, n) == [i \in 1 .. n |-> IF i \in DOMAIN v THEN v[i] ELSE 0]

(* requestFrom() is a beginTransmission() and a read of the slave that is  *)
(* addressed then, which sends `got' bytes into the buffer, resized to     *)
(* `len' before and to `got' after; it is emptied if the read fails.       *)
requestFrom(a, len, accepted, got) ==
  /\ accepted => i2c_fd = "open"
  /\ SetAddress(a, accepted)
  /\ got <= len
  /\ got > 0 => i2c_fd = "open" /\ address' # None
  /\ answer' = [i \in 1 .. got |-> <<address', i>>]
  /\ LET room == Resized(i2c_rx_buffer, len)
         filled == [i \in 1 .. len |-> IF i <= got THEN answer'[i] ELSE room[i]]
     IN i2c_rx_buffer' = Resized(filled, got)
  /\ i2c_rx_pos' = 0
  /\ begun' = Moved(begun, a, accepted)
  /\ UNCHANGED <<i2c_fd, i2c_is_open, written, outcome>>

available == Len(i2c_rx_buffer) - i2c_rx_pos

read ==
  /\ i2c_rx_pos < Len(i2c_rx_buffer)
  /\ i2c_rx_pos' = i2c_rx_pos + 1
  /\ UNCHANGED <<i2c_fd, i2c_is_open, address, tx, i2c_rx_buffer, answer, outcome>>

RpiI2CNext ==
  \/ \E opens \in BOOLEAN : I2CBegin(opens)
  \/ \E a \in Slave, opens, accepted \in BOOLEAN : BeginAddress(a, opens, accepted)
  \/ I2CEnd \/ read
  \/ \E a \in Slave, accepted \in BOOLEAN : beginTransmission(a, accepted)
  \/ \E n \in 1 .. MaxLen : i2cWrite(n)
  \/ \E acked \in BOOLEAN : endTransmission(acked)
  \/ \E a \in Slave, len \in 1 .. MaxLen, got \in 0 .. MaxLen, accepted \in BOOLEAN :
       requestFrom(a, len, accepted, got)

RpiI2CSpec == RpiI2CInit /\ [][RpiI2CNext]_rpiI2CVars
-----------------------------------------------------------------------------
(* Every byte written is, in the order written, delivered once, or dropped *)
(* with a message that failed, or still in the buffer: across failed       *)
(* messages, end() and begin() none is sent twice, out of order, or        *)
(* forgotten.                                                              *)
EachByteOnce ==
  LET sent == [i \in DOMAIN delivered |-> delivered[i].byte.no]
      kept == [i \in DOMAIN i2c_tx_buffer |-> i2c_tx_buffer[i].no]
      numbers == sent \o kept
  IN /\ \A i, j \in DOMAIN numbers : i < j => numbers[i] < numbers[j]
     /\ dropped = 1 .. written \ {numbers[i] : i \in DOMAIN numbers}

(* A byte reaches the slave its transmission was begun for, also when it   *)
(* was left in the buffer by end() and begin() or by another transmission  *)
(* for the same slave.  Two cases are excepted, in which endTransmission() *)
(* returns 0 although another slave got the byte: the ioctl of the         *)
(* beginTransmission() was refused (HardwareI2C_RPI.cpp:73), so the slave  *)
(* addressed before stayed; or another slave was addressed before          *)
(* endTransmission(), by begin(address), beginTransmission() or            *)
(* requestFrom().                                                          *)
Sure(t) == t.for # None /\ ~t.refused /\ ~t.moved
ReachesItsSlave ==
  \A i \in DOMAIN delivered :
    Sure(delivered[i].byte.of) => delivered[i].by = delivered[i].byte.of.for

(* What can be read is what is left of the answer to the last              *)
(* requestFrom(), and nothing of an earlier one or of the room made for it *)
(* when the answer was short or failed.                                    *)
ReadsLastAnswer == available >= 0 /\ i2c_rx_buffer = answer

(* Both directions: no byte is lost, repeated or taken for another one.    *)
BytesAccounted == EachByteOnce /\ ReachesItsSlave /\ ReadsLastAnswer
=============================================================================
