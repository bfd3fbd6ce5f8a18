------------------------------ MODULE MCBuffers -------------------------------
(* Values for the buffers and what is built on them, one part in each       *)
(* behaviour: RingBufferExt with three slots and every array up to length   *)
(* three over a zero byte, an ordinary byte and 0xFF; a cbuf up to size     *)
(* three over an ordinary char and 0xFF as a signed one; an MD5Builder with *)
(* blocks of four bytes, the last of them the length; the bytes of an       *)
(* EthernetClient and of a RemoteSerial with buffers of two.                *)
EXTENDS RingBufferExt, CBuf, MD5Builder, TcpStream, RemoteSerial

MCByte == {0, 1, 255}
MCChar == {-1, 7}

VARIABLE part  \* the part this behaviour is about
-----------------------------------------------------------------------------
Parts == {"RingBufferExt", "cbuf", "MD5Builder", "bytes", "RemoteSerial"}

allVars == <<part, vars, cbufVars, md5Vars, tcpVars, serialVars>>

MCInit ==
  /\ part \in Parts
  /\ Init
  /\ CBufInit /\ (part # "cbuf" => _size = 0)
  /\ MD5Init
  /\ TcpInit
  /\ SerialInit

(* The part takes its steps; the others keep one initial state. *)
MCNext ==
  \/ part = "RingBufferExt" /\ Next
     /\ UNCHANGED <<part, cbufVars, md5Vars, tcpVars, serialVars>>
  \/ part = "cbuf" /\ CBufNext
     /\ UNCHANGED <<part, vars, md5Vars, tcpVars, serialVars>>
  \/ part = "MD5Builder" /\ MD5Next
     /\ UNCHANGED <<part, vars, cbufVars, tcpVars, serialVars>>
  \/ part = "bytes" /\ TcpNext
     /\ UNCHANGED <<part, vars, cbufVars, md5Vars, serialVars>>
  \/ part = "RemoteSerial" /\ SerialNext
     /\ UNCHANGED <<part, vars, cbufVars, md5Vars, tcpVars>>

MCSpec == MCInit /\ [][MCNext]_allVars
=============================================================================
