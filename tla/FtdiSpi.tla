-------------------------------- MODULE FtdiSpi --------------------------------
(***************************************************************************)
(* HardwareSPI_FTDI after its context is open (module FtdiContexts).       *)
(* External: the chip takes a command byte, LengthBytes bytes of length,   *)
(* low byte first, and length + 1 bytes of data; the command for the clock *)
(* divisor takes two bytes.  The slave answers each data byte of a call    *)
(* with its number in the call.  The code uses two forms: transfer(data)   *)
(* sends one byte of length, transfer(buf) two, as the MPSSE wants it.     *)
(* ftdi_read_data() may return before the answers are there.               *)
(***************************************************************************)
EXTENDS Integers, Sequences, SequencesExt

CONSTANTS
  LengthBytes, \* the forms the chip may have: a subset of {1, 2}
  Base,        \* 256, the number of values of a byte
  Frequency,   \* clocks the sketch asks for, none is 0
  MaxCount,    \* bound: bytes in one transfer(buf)
  MaxLateSPI   \* bound: answers left in the chip by earlier calls

ASSUME SpiAssumption ==
  /\ LengthBytes \subseteq {1, 2} /\ Base \in Nat \ {0} /\ MaxCount \in Nat
  /\ Frequency \subseteq Nat \ {0}

VARIABLES
  form,         \* the length bytes this chip takes
  spi_is_open,
  settings,     \* current_clock, current_mode, current_bit_order
  divisor,      \* the clock divisor the chip was told
  spi_call,     \* the call in progress
  chip,         \* what the chip takes the next byte for
  spi_answers,  \* answers not read yet
  given,        \* history: the bytes this call has to send
  spi_heard,    \* history: the bytes the slave has heard in this call
  returned,     \* what the call returns; of transfer(buf), the buffer
  misread,      \* history: since begin() a call had not the chip's form
  spi_late      \* history: since begin() a read returned too early

chipVars == <<chip, divisor, spi_answers, spi_heard>>
spiVars == <<form, spi_is_open, settings, spi_call, chipVars, given, returned,
             misread, spi_late>>
-----------------------------------------------------------------------------
Data == 0 .. Base - 1
Chunk == Base * Base  \* 65536, the values of two bytes
NoSPICall == [name |-> "none"]
Idle == [takes |-> "command"]
Lesser(a, b) == IF a < b THEN a ELSE b

HalfClock == 30000000  \* half of the 60 MHz the chip divides

(* Mutation of Divisor: the counter of the chip counts from 1. *)
DivisorPlusOne(f) == IF f > HalfClock THEN Chunk - 1 ELSE Lesser(HalfClock \div f, Chunk - 1)

(* The divisor of setClockFrequency(); above 30 MHz the uint32_t wraps to  *)
(* 2^32 - 1.                                                               *)
Divisor(f) == IF f > HalfClock THEN Chunk - 1 ELSE Lesser(HalfClock \div f - 1, Chunk - 1)

DefaultSettings == [clock |-> 1000000, mode |-> 0, order |-> "MSBFIRST"]

SPIInit ==
  /\ form \in LengthBytes
  /\ spi_is_open = FALSE /\ settings = DefaultSettings /\ divisor = 0
  /\ spi_call = NoSPICall /\ chip = Idle /\ spi_answers = <<>>
  /\ given = <<>> /\ spi_heard = <<>> /\ returned = <<>>
  /\ misread = FALSE /\ spi_late = FALSE

(* The command byte: write and read, on the negative edge in modes 1 and   *)
(* 3, least significant bit first.                                         *)
getMPSSECommand == 16 + 32 + (IF settings.mode \in {1, 3} THEN 1 ELSE 0)
                           + (IF settings.order = "LSBFIRST" THEN 8 ELSE 0)
ExchangeCommands == {48, 49, 56, 57}  \* what it can be
SetDivisor == 134                     \* 0x86, the clock divisor
-----------------------------------------------------------------------------
(* The chip takes one byte.  A byte that is no command where it expects    *)
(* one leaves it lost until it is purged.                                  *)
Take(c, byte) ==
  CASE c.takes = "command" ->
         IF byte \in ExchangeCommands
         THEN [takes |-> "length", missing |-> form, length |-> 0, weight |-> 1]
         ELSE [takes |-> IF byte = SetDivisor THEN "divisorLow" ELSE "nothing"]
    [] c.takes = "divisorLow" -> [takes |-> "divisorHigh", low |-> byte]
    [] c.takes = "divisorHigh" -> Idle
    [] c.takes = "length" ->
         LET length == c.length + c.weight * byte
         IN IF c.missing > 1
            THEN [takes |-> "length", missing |-> c.missing - 1, length |-> length,
                  weight |-> c.weight * Base]
            ELSE [takes |-> "data", missing |-> length + 1]
    [] c.takes = "data" ->
         IF c.missing > 1 THEN [c EXCEPT !.missing = @ - 1] ELSE Idle
    [] OTHER -> c

(* A byte the chip takes for data is clocked out, and the slave answers    *)
(* it, whatever the code meant it for.                                     *)
Clocked(s, byte) ==
  LET data == s.chip.takes = "data"
  IN [chip |-> Take(s.chip, byte),
      heard |-> IF data THEN Append(s.heard, byte) ELSE s.heard,
      answers |-> IF data THEN Append(s.answers, Len(s.heard) + 1) ELSE s.answers,
      divisor |-> IF s.chip.takes = "divisorHigh" THEN s.chip.low + Base * byte
                  ELSE s.divisor]

ClockedAll(s, bytes) ==
  LET after[k \in 0 .. Len(bytes)] ==
        IF k = 0 THEN s ELSE Clocked(after[k - 1], bytes[k])
  IN after[Len(bytes)]

sendData(bytes) ==
  LET after == ClockedAll([chip |-> chip, heard |-> spi_heard, answers |-> spi_answers,
                           divisor |-> divisor], bytes)
  IN /\ chip' = after.chip /\ spi_heard' = after.heard
     /\ spi_answers' = after.answers /\ divisor' = after.divisor

(* configureMPSSE() purges the chip, which then takes the clock command.   *)
SPIOpen ==
  /\ ~spi_is_open
  /\ spi_is_open' = TRUE
  /\ chip' = Idle /\ spi_answers' = <<>> /\ divisor' = Divisor(settings.clock)
  /\ misread' = FALSE /\ spi_late' = FALSE
  /\ given' = <<>> /\ spi_heard' = <<>> /\ returned' = <<>>
  /\ UNCHANGED <<form, settings, spi_call>>

(* end() keeps the settings. *)
SPIEnd ==
  /\ spi_call = NoSPICall
  /\ spi_is_open' = FALSE
  /\ UNCHANGED <<form, settings, spi_call, chipVars, given, returned, misread, spi_late>>

(* setClockFrequency(): three bytes of the same stream. *)
ClockCommand(f) == <<SetDivisor, Divisor(f) % Base, (Divisor(f) \div Base) % Base>>

(* Ignored when not open. *)
beginTransaction(s) ==
  /\ spi_call = NoSPICall /\ spi_is_open /\ Len(spi_answers) <= MaxLateSPI
  /\ settings' = s
  /\ sendData(ClockCommand(s.clock))
  /\ UNCHANGED <<form, spi_is_open, spi_call, given, returned, misread, spi_late>>

(* receiveData(): n answers, or fewer if they are not there in time, or    *)
(* will not come.                                                          *)
Receive(n, got) ==
  /\ Len(got) <= n /\ IsPrefix(got, spi_answers)
  /\ spi_answers' = SubSeq(spi_answers, Len(got) + 1, Len(spi_answers))
  /\ spi_late' = (spi_late \/ Len(got) < Lesser(n, Len(spi_answers)))

FirstAnswers(n) == {SubSeq(spi_answers, 1, k) : k \in 0 .. Lesser(n, Len(spi_answers))}
-----------------------------------------------------------------------------
(* A call on an object that is open; otherwise nothing is sent. *)
Enter(name, bytes, uses) ==
  /\ spi_call = NoSPICall /\ spi_is_open /\ Len(spi_answers) <= MaxLateSPI
  /\ spi_call' = [name |-> name, next |-> 1, reading |-> 0]
  /\ given' = bytes /\ spi_heard' = <<>>
  /\ misread' = (misread \/ uses # form)
  /\ UNCHANGED <<form, spi_is_open, settings, divisor, chip, spi_answers, spi_late>>

(* transfer(data) and transfer16(data), the bytes in the order they are    *)
(* sent: the high byte first, or last with LSBFIRST.                       *)
transfer(data) == Enter("transfer", <<data>>, 1) /\ returned' = <<>>

transfer16(high, low) ==
  /\ Enter("transfer16",
           IF settings.order = "MSBFIRST" THEN <<high, low>> ELSE <<low, high>>, 1)
  /\ returned' = <<>>

(* transfer(buf, count): the answers overwrite the buffer. *)
transferBuf(buf) == Enter("transferBuf", buf, 2) /\ returned' = buf

(* transfer() of the next byte, which is two steps: send and receive. *)
SendByte ==
  /\ spi_call.name \in {"transfer", "transfer16"}
  /\ spi_call.reading = 0 /\ spi_call.next <= Len(given)
  /\ sendData(<<getMPSSECommand, 0, given[spi_call.next]>>)
  /\ spi_call' = [spi_call EXCEPT !.reading = 1]
  /\ UNCHANGED <<form, spi_is_open, settings, given, returned, misread, spi_late>>

ReceiveSPIByte ==
  /\ spi_call.name \in {"transfer", "transfer16"} /\ spi_call.reading = 1
  /\ \E got \in FirstAnswers(1) :
       /\ Receive(1, got)
       /\ returned' = Append(returned, IF got = <<>> THEN 0 ELSE got[1])
  /\ spi_call' = [spi_call EXCEPT !.reading = 0, !.next = @ + 1]
  /\ UNCHANGED <<form, spi_is_open, settings, divisor, chip, spi_heard, given, misread>>

ChunkSize == Lesser(Len(given) - spi_call.next + 1, Chunk)

(* Mutation of ChunkHeader: the length and not the length less one. *)
ChunkHeaderFull == <<getMPSSECommand, ChunkSize % Base, (ChunkSize \div Base) % Base>>

ChunkHeader ==
  <<getMPSSECommand, (ChunkSize - 1) % Base, ((ChunkSize - 1) \div Base) % Base>>

(* The next chunk of transfer(buf) is sent from the buffer and received    *)
(* into the same place; a short read ends the call.                        *)
SendChunk ==
  /\ spi_call.name = "transferBuf" /\ spi_call.reading = 0 /\ spi_call.next <= Len(given)
  /\ sendData(ChunkHeader \o SubSeq(returned, spi_call.next, spi_call.next + ChunkSize - 1))
  /\ spi_call' = [spi_call EXCEPT !.reading = ChunkSize]
  /\ UNCHANGED <<form, spi_is_open, settings, given, returned, misread, spi_late>>

ReceiveChunk ==
  /\ spi_call.name = "transferBuf" /\ spi_call.reading > 0
  /\ \E got \in FirstAnswers(spi_call.reading) :
       /\ Receive(spi_call.reading, got)
       /\ returned' = [i \in DOMAIN returned |->
                         IF i - spi_call.next + 1 \in 1 .. Len(got)
                         THEN got[i - spi_call.next + 1] ELSE returned[i]]
       /\ spi_call' = IF Len(got) < spi_call.reading
                  THEN [spi_call EXCEPT !.reading = 0, !.next = Len(given) + 1]
                  ELSE [spi_call EXCEPT !.reading = 0, !.next = @ + spi_call.reading]
  /\ UNCHANGED <<form, spi_is_open, settings, divisor, chip, spi_heard, given, misread>>

SPIReturn ==
  /\ spi_call # NoSPICall /\ spi_call.reading = 0 /\ spi_call.next > Len(given)
  /\ spi_call' = NoSPICall
  /\ given' = <<>> /\ spi_heard' = <<>> /\ returned' = <<>>
  /\ UNCHANGED <<form, spi_is_open, settings, divisor, chip, spi_answers, misread, spi_late>>

SPINext ==
  \/ SPIOpen \/ SPIEnd
  \/ \E f \in Frequency, mode \in {0, 1}, order \in {"MSBFIRST", "LSBFIRST"} :
       beginTransaction([clock |-> f, mode |-> mode, order |-> order])
  \/ \E data \in Data : transfer(data)
  \/ \E high, low \in Data : transfer16(high, low)
  \/ \E buf \in BoundedSeq(Data, MaxCount) \ {<<>>} : transferBuf(buf)
  \/ SendByte \/ ReceiveSPIByte \/ SendChunk \/ ReceiveChunk \/ SPIReturn

SPISpec == SPIInit /\ [][SPINext]_spiVars
-----------------------------------------------------------------------------
SPIDone == spi_call # NoSPICall /\ spi_call.reading = 0 /\ spi_call.next > Len(given)
Exchanged == spi_heard = given /\ returned = [i \in 1 .. Len(given) |-> i]

(* What a call returns are the slave's answers to the bytes it was given,  *)
(* each at its place and across chunks, if since begin() only calls of the *)
(* chip's own form were made and no read returned too early.               *)
AnswersInPlace == SPIDone /\ ~spi_late /\ ~misread => Exchanged

(* "return Received byte" (HardwareSPI_FTDI.h:90): the same whatever calls *)
(* are mixed.                                                              *)
ReceivedByte == SPIDone /\ ~spi_late => Exchanged

(* The clock the chip makes is the one asked for or less than twice as     *)
(* fast, from 458 Hz to 30 MHz, also after begin() is called again with    *)
(* the settings of an earlier session and when reads return too early.     *)
(* Above 30 MHz it is the slowest.  It is not what was asked for after a   *)
(* call that had not the chip's form, which leaves the chip taking the     *)
(* divisor for a length or for data.                                       *)
ClockNearRequest ==
  spi_is_open /\ ~misread /\ settings.clock \in HalfClock \div Chunk + 1 .. HalfClock =>
    /\ settings.clock * (divisor + 1) <= HalfClock
    /\ HalfClock \div (divisor + 1) < 2 * settings.clock
=============================================================================
