------------------------------- MODULE TcpStream -------------------------------
(***************************************************************************)
(* The data path of EthernetClient over SocketImpl: the write buffer, the  *)
(* polls of available(), read() and connected() with their deadlines, and  *)
(* what a connection that ends or is made again does to them.  The read    *)
(* buffer of the class is never filled.  Who owns the descriptor is module *)
(* EthernetClient.  External: the kernel's socket and the peer.            *)
(***************************************************************************)
EXTENDS Integers, Sequences, SequencesExt

CONSTANTS
  TcpByte,         \* byte values in use
  Zero,            \* the byte 0, in Byte or not
  Garbage,         \* the value of memory nobody has set
  TcpBufferSize,   \* bufferSize
  MaxTcpArray,     \* bound: the longest array written or read
  MaxTcpWritten,   \* bound: bytes the sketch writes
  MaxTcpReceived,  \* bound: bytes the peer sends
  MaxConnects      \* bound: calls of connect()

VARIABLES
  is_connected,      \* EthernetClient::is_connected
  writeBuffer,
  link,              \* none (never opened or closed), refused, open, ended (the
                     \* peer has sent its last byte), reset
  queue,             \* the bytes in the socket's receive queue
  tcp_call,          \* the call that waits, or Idle
  peer,              \* what the peer of this connection has received
  due,               \* history: what the sketch has written to this peer, after
                     \* what was left in the buffer
  broken,            \* history: a send failed or a flush met a zero byte
  arrived, got,      \* history: what this peer has sent, what the sketch has read
  connects, written  \* history: the numbers of connects and of bytes written

connection == <<is_connected, link, connects>>
output == <<writeBuffer, peer, due, broken, written>>
input == <<queue, arrived, got>>
tcpVars == <<connection, output, input, tcp_call>>
-----------------------------------------------------------------------------
TcpArrays == UNION {[1 .. n -> TcpByte] : n \in 0 .. MaxTcpArray}

(* A call that waits, and whether a poll has found nothing for it. *)
TcpIdle == [op |-> "idle", len |-> 0, polled |-> FALSE]
Waiting(op, n) == [op |-> op, len |-> n, polled |-> FALSE]

TcpInit ==
  /\ is_connected = FALSE /\ writeBuffer = <<>> /\ link = "none" /\ queue = <<>>
  /\ tcp_call = TcpIdle
  /\ peer = <<>> /\ due = <<>> /\ broken = FALSE /\ arrived = <<>> /\ got = <<>>
  /\ connects = 0 /\ written = 0
-----------------------------------------------------------------------------
(* connect(): the old connection is closed, the buffer stays, and the      *)
(* client counts as connected also when the peer refuses.  A name that     *)
(* does not resolve ends the call.                                         *)
Connect(to) ==
  /\ tcp_call = TcpIdle /\ connects < MaxConnects
  /\ connects' = connects + 1
  /\ is_connected' = (to # "unresolved")
  /\ link' = IF to = "unresolved" THEN "none" ELSE to
  /\ peer' = <<>> /\ due' = writeBuffer
  /\ queue' = <<>> /\ arrived' = <<>> /\ got' = <<>>
  /\ broken' = FALSE
  /\ UNCHANGED <<writeBuffer, written, tcp_call>>

(* stop(): what the buffer holds stays there. *)
Stop ==
  /\ tcp_call = TcpIdle
  /\ link' = "none" /\ queue' = <<>>
  /\ UNCHANGED <<is_connected, connects, output, arrived, got, tcp_call>>

(* SocketImpl::write(): send() blocks until the kernel has all of it. *)
Reaches(s) == peer' = IF link \in {"open", "ended"} THEN peer \o s ELSE peer
Fails(s) == s # <<>> /\ link \notin {"open", "ended"}

(* RingBufferExt::read() of the whole buffer ends at a zero byte, which it *)
(* removes; flush() sends as many bytes as the buffer held all the same.   *)
TextLength(s) == SelectInSeq(s, LAMBDA b : b = Zero) - 1
HasZero(s) == Zero \in ToSet(s)

TcpFlushed(s) ==
  IF HasZero(s)
  THEN SubSeq(s, 1, TextLength(s)) \o [i \in 1 .. Len(s) - TextLength(s) |-> Garbage]
  ELSE s
TcpLeft(s) == IF HasZero(s) THEN SubSeq(s, TextLength(s) + 2, Len(s)) ELSE <<>>

tcpFlush ==
  /\ tcp_call = TcpIdle
  /\ Reaches(TcpFlushed(writeBuffer))
  /\ writeBuffer' = TcpLeft(writeBuffer)
  /\ broken' = (broken \/ Fails(writeBuffer) \/ HasZero(writeBuffer))
  /\ UNCHANGED <<connection, due, written, input, tcp_call>>

(* write(c) flushes a buffer that is full. *)
TcpWriteByte(b) ==
  /\ tcp_call = TcpIdle /\ written < MaxTcpWritten
  /\ written' = written + 1
  /\ due' = Append(due, b)
  /\ IF Len(writeBuffer) = TcpBufferSize
     THEN /\ Reaches(TcpFlushed(writeBuffer))
          /\ writeBuffer' = Append(TcpLeft(writeBuffer), b)
          /\ broken' = (broken \/ Fails(writeBuffer) \/ HasZero(writeBuffer))
     ELSE /\ writeBuffer' = Append(writeBuffer, b)
          /\ UNCHANGED <<peer, broken>>
  /\ UNCHANGED <<connection, input, tcp_call>>

(* Mutation of WriteArray: the array goes out before the buffer. *)
WriteArrayFirst(s) ==
  /\ tcp_call = TcpIdle /\ written + Len(s) <= MaxTcpWritten
  /\ written' = written + Len(s)
  /\ due' = due \o s
  /\ Reaches(s \o TcpFlushed(writeBuffer))
  /\ writeBuffer' = TcpLeft(writeBuffer)
  /\ broken' = (broken \/ Fails(writeBuffer \o s) \/ HasZero(writeBuffer))
  /\ UNCHANGED <<connection, input, tcp_call>>

(* write(array), print() and println(): a flush, and the array unbuffered. *)
WriteArray(s) ==
  /\ tcp_call = TcpIdle /\ written + Len(s) <= MaxTcpWritten
  /\ written' = written + Len(s)
  /\ due' = due \o s
  /\ Reaches(TcpFlushed(writeBuffer) \o s)
  /\ writeBuffer' = TcpLeft(writeBuffer)
  /\ broken' = (broken \/ Fails(writeBuffer \o s) \/ HasZero(writeBuffer))
  /\ UNCHANGED <<connection, input, tcp_call>>
-----------------------------------------------------------------------------
(* read(), readBytes(), available() and connected() begin to poll. *)
Call(op, n) ==
  /\ tcp_call = TcpIdle
  /\ op = "connected" => is_connected
  /\ tcp_call' = Waiting(op, n)
  /\ UNCHANGED <<connection, output, input>>

(* Mutation of PollRead: the loop asks again until the array is full, each *)
(* time for its beginning.                                                 *)
PollReadAgain ==
  /\ tcp_call.op = "read" /\ queue # <<>>
  /\ LET n == IF Len(queue) < tcp_call.len THEN Len(queue) ELSE tcp_call.len
         now == SubSeq(queue, 1, n)
     IN /\ queue' = SubSeq(queue, n + 1, Len(queue))
        /\ IF n = tcp_call.len THEN got' = got \o now /\ tcp_call' = TcpIdle
           ELSE UNCHANGED got /\ tcp_call' = [tcp_call EXCEPT !.polled = TRUE]
  /\ UNCHANGED <<connection, output, arrived>>

(* recv() hands out what is there, up to the length, and the call returns  *)
(* it however little that is.                                              *)
PollRead ==
  /\ tcp_call.op = "read" /\ queue # <<>>
  /\ LET n == IF Len(queue) < tcp_call.len THEN Len(queue) ELSE tcp_call.len
     IN /\ got' = got \o SubSeq(queue, 1, n)
        /\ queue' = SubSeq(queue, n + 1, Len(queue))
  /\ tcp_call' = TcpIdle
  /\ UNCHANGED <<connection, output, arrived>>

(* FIONREAD counts what is there; of a closed descriptor it counts nothing *)
(* and leaves any number behind.                                           *)
PollAvailable ==
  /\ tcp_call.op = "available" /\ (queue # <<>> \/ link = "none")
  /\ tcp_call' = TcpIdle
  /\ UNCHANGED <<connection, output, input>>

(* recv(MSG_PEEK) of a byte or of the end of the stream makes a client     *)
(* connected; otherwise getsockopt() does, with a length nobody has set.   *)
PollConnected ==
  /\ tcp_call.op = "connected" /\ link # "none"
  /\ tcp_call' = TcpIdle
  /\ UNCHANGED <<connection, output, input>>

(* A poll that found nothing is repeated after a delay. *)
PollNothing ==
  /\ tcp_call.op \in {"read", "available", "connected"}
  /\ queue = <<>>
  /\ tcp_call.op = "connected" => link # "ended"
  /\ tcp_call' = [tcp_call EXCEPT !.polled = TRUE]
  /\ UNCHANGED <<connection, output, input>>

(* The deadline: the call returns what its last poll found, nothing, also  *)
(* when something has come meanwhile.                                      *)
Expire ==
  /\ tcp_call.polled
  /\ tcp_call' = TcpIdle
  /\ UNCHANGED <<connection, output, input>>
-----------------------------------------------------------------------------
TcpArrive(b) ==
  /\ link = "open" /\ Len(arrived) < MaxTcpReceived
  /\ queue' = Append(queue, b) /\ arrived' = Append(arrived, b)
  /\ UNCHANGED <<connection, output, got, tcp_call>>

PeerEnds ==
  /\ link = "open"
  /\ link' = "ended"
  /\ UNCHANGED <<is_connected, connects, output, input, tcp_call>>

(* A reset discards what the sketch has not read. *)
PeerResets ==
  /\ link \in {"open", "ended"}
  /\ link' = "reset" /\ queue' = <<>>
  /\ UNCHANGED <<is_connected, connects, output, arrived, got, tcp_call>>

TcpNext ==
  \/ \E to \in {"open", "refused", "unresolved"} : Connect(to)
  \/ Stop
  \/ tcpFlush
  \/ \E b \in TcpByte : TcpWriteByte(b)
  \/ \E s \in TcpArrays : WriteArray(s)
  \/ \E n \in 1 .. MaxTcpArray : Call("read", n)
  \/ \E op \in {"available", "connected"} : Call(op, 0)
  \/ PollRead \/ PollAvailable \/ PollConnected \/ PollNothing
  \/ Expire
  \/ \E b \in TcpByte : TcpArrive(b)
  \/ PeerEnds
  \/ PeerResets

TcpSpec == TcpInit /\ [][TcpNext]_tcpVars
-----------------------------------------------------------------------------
(* The peer of a connection gets what was left in the buffer when the      *)
(* connection was made and then what the sketch wrote, in order and once,  *)
(* through single bytes, arrays and flushes, full buffers included; the    *)
(* rest is still in the buffer.  A failed send or a zero byte in the       *)
(* buffer ends that.                                                       *)
PeerGetsWritten == ~broken => peer \o writeBuffer = due

(* The sketch reads what the peer sent, in order and once: a deadline that *)
(* passes while bytes arrive loses none of them.                           *)
ReadsInOrder ==
  /\ IsPrefix(got, arrived)
  /\ link \in {"open", "ended"} => got \o queue = arrived
=============================================================================
