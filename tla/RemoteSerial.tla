------------------------------ MODULE RemoteSerial ------------------------------
(***************************************************************************)
(* RemoteSerialClass: a serial port on the other side of a stream, with a  *)
(* RingBufferExt for each direction.  External: the remote side sends what *)
(* it is told to, answers a write with a 16-bit count, and a read with the *)
(* bytes it has.  An answer may come after blockingRead() has given up;    *)
(* the next one then starts with it.                                       *)
(***************************************************************************)
EXTENDS Integers, Sequences, SequencesExt, FiniteSetsExt

CONSTANTS
  SerialBufferSize,   \* size of the two ring buffers
  max_buffer_len,     \* bytes read() asks for
  MaxSerialWritten,   \* bound: bytes written
  MaxSerialArray,     \* bound: bytes in one array
  MaxSerialReceived,  \* bound: bytes the remote port receives
  MaxIncoming         \* bound: units of late answers

ASSUME SerialAssumption ==
  /\ SerialBufferSize \in Nat \ {0} /\ max_buffer_len \in Nat
  /\ MaxSerialWritten \in Nat /\ MaxSerialArray \in Nat

VARIABLES
  write_buffer, read_buffer,
  incoming,        \* units of answers that came too late
  line,            \* bytes the remote port has sent
  port,            \* bytes the remote port has received and not passed on
  given,           \* history: bytes accepted by write()
  serial_arrived,  \* history: bytes the remote port received
  taken,           \* history: bytes read() and readBytes() returned, kept until
                   \* an answer is late
  zeros,           \* history: a zero was in write_buffer, or in read_buffer
                   \* when readBytes() was called
  late             \* history: an answer came too late

out == <<write_buffer, line, given>>
in == <<read_buffer, port, serial_arrived, taken>>
serialVars == <<out, in, incoming, zeros, late>>
-----------------------------------------------------------------------------
Unit == 0 .. MaxSerialWritten         \* 0, or the number of the byte's place
Junk == -1                      \* a byte of an array that was not set
Count == <<-2, -2>>             \* the two units of a 16-bit answer
Lesser(a, b) == IF a < b THEN a ELSE b
First(s, n) == SubSeq(s, 1, Lesser(n, Len(s)))
After(s, n) == SubSeq(s, Lesser(n, Len(s)) + 1, Len(s))

SerialInit ==
  /\ write_buffer = <<>> /\ read_buffer = <<>> /\ incoming = <<>>
  /\ line = <<>> /\ port = <<>>
  /\ given = <<>> /\ serial_arrived = <<>> /\ taken = <<>>
  /\ zeros = FALSE /\ late = FALSE

(* RingBufferExt: an array read of n bytes ends at a zero, which it drops. *)
ZeroAt(q, n) == Min({i \in 1 .. Len(q) : q[i] = 0} \cup {Lesser(n, Len(q)) + 1})
Text(q, n) == First(q, Lesser(n, ZeroAt(q, n) - 1))
SerialLeft(q, n) == After(q, Lesser(n, ZeroAt(q, n)))

(* receive(): of these units n, or only got of them if the rest is late. *)
Receive(units, n, got) ==
  /\ got \in 0 .. Lesser(n, Len(units))
  /\ incoming' = After(units, got)
  /\ Len(incoming') <= MaxIncoming
  /\ late' = (late \/ got < Lesser(n, Len(units)))

(* What the remote port sends for flush(): it reads the buffer as text and *)
(* hands as many bytes as there were to write(), which calls flush() for   *)
(* what a zero has left before it sends them.                              *)
WithJunk(q) == Text(q, Len(q)) \o [i \in 1 .. Len(q) - Len(Text(q, Len(q))) |-> Junk]

Flushed[q \in BoundedSeq(Unit, SerialBufferSize)] ==
  IF q = <<>> THEN <<>> ELSE Flushed[SerialLeft(q, Len(q))] \o WithJunk(q)

(* The count of each write inside flush() is waited for. *)
FlushAnswers[q \in BoundedSeq(Unit, SerialBufferSize)] ==
  IF q = <<>> THEN <<>> ELSE FlushAnswers[SerialLeft(q, Len(q))] \o Count

serialFlush(got) ==
  LET units == FlushAnswers[write_buffer]
  IN /\ Receive(incoming \o units, Len(units), got)
     /\ line' = line \o Flushed[write_buffer]
     /\ write_buffer' = <<>>
     /\ UNCHANGED <<given, in, zeros>>

(* write(c): a full buffer is flushed first. *)
writeByte(c, got) ==
  /\ Len(given) < MaxSerialWritten
  /\ LET full == Len(write_buffer) = SerialBufferSize
         units == IF full THEN FlushAnswers[write_buffer] ELSE <<>>
     IN /\ Receive(incoming \o units, Len(units), got)
        /\ line' = IF full THEN line \o Flushed[write_buffer] ELSE line
        /\ write_buffer' = IF full THEN <<c>> ELSE Append(write_buffer, c)
  /\ given' = Append(given, c)
  /\ zeros' = (zeros \/ c = 0)
  /\ UNCHANGED in

(* Mutation of Sent: write(str, len) does not flush the buffer first. *)
SentOnly(str) == line' = line \o str /\ UNCHANGED write_buffer

(* write(str, len): the buffer, then the array. *)
Sent(str) == line' = line \o Flushed[write_buffer] \o str /\ write_buffer' = <<>>

writeArray(str, got) ==
  /\ Len(given) + Len(str) <= MaxSerialWritten
  /\ LET units == FlushAnswers[write_buffer] \o Count
     IN Receive(incoming \o units, Len(units), got)
  /\ Sent(str)
  /\ given' = given \o str
  /\ UNCHANGED <<in, zeros>>
-----------------------------------------------------------------------------
(* The remote port receives a byte. *)
SerialArrive(b) ==
  /\ Len(serial_arrived) < MaxSerialReceived
  /\ port' = Append(port, b) /\ serial_arrived' = Append(serial_arrived, b)
  /\ UNCHANGED <<out, read_buffer, taken, incoming, zeros, late>>

(* SerialRead of n bytes; bytes is what receive() stores. *)
Request(n, got) ==
  /\ Receive(incoming \o First(port, n), n, got)
  /\ port' = After(port, n)

Answer(n, got) == First(incoming \o First(port, n), got)

(* A call returns these bytes. *)
Return(bytes) == taken' = IF late' THEN taken ELSE taken \o bytes

(* read(): an empty read_buffer is filled with one request. *)
serialRead(got) ==
  /\ IF read_buffer = <<>>
     THEN Request(max_buffer_len, got)
     ELSE got = 0 /\ UNCHANGED <<port, incoming, late>>
  /\ LET held == IF read_buffer = <<>> THEN Answer(max_buffer_len, got) ELSE read_buffer
     IN /\ read_buffer' = After(held, 1)
        /\ Return(First(held, 1))
  /\ UNCHANGED <<out, serial_arrived, zeros>>

(* Mutation of readBytes: the remote side is asked in any case. *)
readBytesRemote(n, got) ==
  /\ Request(n, got)
  /\ Return(Answer(n, got))
  /\ UNCHANGED <<out, read_buffer, serial_arrived, zeros>>

(* readBytes(n): what read_buffer has, or one request. *)
readBytes(n, got) ==
  /\ IF read_buffer # <<>>
     THEN /\ got = 0
          /\ UNCHANGED <<port, incoming, late>>
          /\ Return(Text(read_buffer, n))
          /\ read_buffer' = SerialLeft(read_buffer, n)
          /\ zeros' = (zeros \/ 0 \in Range(First(read_buffer, n)))
     ELSE /\ Request(n, got)
          /\ Return(Answer(n, got))
          /\ UNCHANGED <<read_buffer, zeros>>
  /\ UNCHANGED <<out, serial_arrived>>

(* available() and peek() ask the remote side only if read_buffer is empty, *)
(* and take two units.                                                     *)
availableOrPeek(got) ==
  /\ read_buffer = <<>>
  /\ Receive(incoming \o Count, 2, got)
  /\ UNCHANGED <<out, in, zeros>>

Got == 0 .. 2 * SerialBufferSize + 2

SerialNext ==
  \/ \E got \in Got : serialFlush(got)
  \/ \E c \in {0, Len(given) + 1}, got \in Got : writeByte(c, got)
  \/ \E n \in 0 .. MaxSerialArray, zero \in 0 .. MaxSerialArray, got \in Got :
       writeArray([i \in 1 .. n |-> IF i = zero THEN 0 ELSE Len(given) + i], got)
  \/ \E b \in {0, Len(serial_arrived) + 1} : SerialArrive(b)
  \/ \E got \in Got : serialRead(got)
  \/ \E n \in 1 .. MaxSerialArray, got \in Got : readBytes(n, got)
  \/ \E got \in Got : availableOrPeek(got)

SerialSpec == SerialInit /\ [][SerialNext]_serialVars
-----------------------------------------------------------------------------
(* The bytes written, one at a time or as arrays, with whatever calls of   *)
(* flush() between, are sent by the remote port in their order and once;   *)
(* unless one of those written singly is 0, which puts the bytes after it  *)
(* before the ones in front of it.                                         *)
SentInOrder == ~zeros => line \o write_buffer = given

(* What read() and readBytes() return is what the remote port received, in *)
(* order and without loss, whichever of the two is called; unless an       *)
(* answer came too late, or readBytes() met a zero in the buffer.          *)
ReadInOrder == ~late /\ ~zeros => taken \o read_buffer \o port = serial_arrived
=============================================================================
