------------------------------- MODULE MD5Builder -------------------------------
(***************************************************************************)
(* The block buffer, the padding and the stream reader of MD5Builder.  The *)
(* compression function is applied to whole blocks in order and is left    *)
(* uninterpreted: the hash is the sequence of the blocks it was applied    *)
(* to.  The standard wants the message, a 1 bit, zeros up to 56 bytes      *)
(* modulo 64, and the length of the message in 8 bytes.                    *)
(***************************************************************************)
EXTENDS Integers, Sequences

CONSTANTS
  MD5Byte,     \* the bytes of messages
  Block,       \* bytes of a block, 64 in the code
  LengthBytes, \* bytes of the length at the end of the last block, 8
  HexChunk,    \* bytes addHexString() converts at a time, 64
  StreamChunk, \* bytes addStream() reads at a time, 512
  MaxAdded,    \* bound: the longest array or string added
  MaxMessage   \* bound: the length of a message

ASSUME MD5Assumption ==
  Block \in Nat /\ LengthBytes \in 1 .. Block - 1 /\ HexChunk \in Nat \ {0} /\ MaxAdded \in Nat

VARIABLES
  md5_size, _input,
  stepped,     \* _buffer: the blocks since begin()
  _digest,     \* the blocks at the last calculate()
  stream,      \* the stream addStream() reads: [left, waiting]
  message,     \* history: the bytes handed over since begin()
  begun        \* history: begin() was called, and calculate() not yet

builder == <<md5_size, _input, stepped>>
md5Vars == <<builder, _digest, stream, message, begun>>
-----------------------------------------------------------------------------
One == "80"
Nought == "00"
MD5Garbage == "?"
Length(n) == [bytes |-> n]
MD5Arrays == UNION {[1 .. n -> MD5Byte] : n \in 0 .. MaxAdded}

NoStream == [left |-> 0, waiting |-> -1]

MD5Init ==
  /\ md5_size = 0 /\ _input = [i \in 0 .. Block - 1 |-> MD5Garbage] /\ stepped = <<>>
  /\ _digest = <<>> /\ stream = NoStream /\ message = <<>> /\ begun = FALSE

begin ==
  /\ stream = NoStream
  /\ md5_size' = 0 /\ stepped' = <<>>
  /\ message' = <<>> /\ begun' = TRUE
  /\ UNCHANGED <<_input, _digest, stream>>

MD5Contents(slots) == [i \in 1 .. Block |-> slots[i - 1]]

(* One byte of add(): it fills a slot, and with the last slot the block is *)
(* stepped.                                                                *)
Put(state, byte) ==
  LET input == [state.input EXCEPT ![state.offset] = byte]
      full == state.offset + 1 = Block
  IN [input |-> input,
      offset |-> IF full THEN 0 ELSE state.offset + 1,
      stepped |-> IF full THEN Append(state.stepped, MD5Contents(input)) ELSE state.stepped]

(* add(data, len) to a builder of which size bytes are known. *)
Added(bytes) ==
  LET after[k \in 0 .. Len(bytes)] ==
        IF k = 0 THEN [input |-> _input, offset |-> md5_size % Block, stepped |-> stepped]
        ELSE Put(after[k - 1], bytes[k])
  IN after[Len(bytes)]

Add(bytes) ==
  LET after == Added(bytes)
  IN /\ _input' = after.input /\ stepped' = after.stepped
     /\ md5_size' = md5_size + Len(bytes)
     /\ message' = message \o bytes

add(bytes) ==
  /\ begun /\ stream = NoStream /\ Len(message) + Len(bytes) <= MaxMessage
  /\ Add(bytes)
  /\ UNCHANGED <<_digest, stream, begun>>

(* addHexString() of an even number of digits (an odd number adds nothing) *)
(* adds chunk after chunk, up to the first with a bad digit; the bad digit *)
(* is in the byte after `good'.                                            *)
addHexString(bytes, good) ==
  /\ begun /\ stream = NoStream /\ Len(message) + Len(bytes) <= MaxMessage
  /\ Add(IF good >= Len(bytes) THEN bytes
         ELSE SubSeq(bytes, 1, (good \div HexChunk) * HexChunk))
  /\ UNCHANGED <<_digest, stream, begun>>
-----------------------------------------------------------------------------
(* addStream() looks at available() and goes on while it is not 0 and the  *)
(* limit is not reached.  An available() of -1 is a large size_t, and as   *)
(* much as the limit and the buffer allow is asked for.                    *)
Look(left) ==
  \E n \in -1 .. MaxAdded :
    stream' = IF n = 0 \/ left = 0 THEN NoStream ELSE [left |-> left, waiting |-> n]

addStream(maxLen) ==
  /\ begun /\ stream = NoStream /\ Len(message) + maxLen <= MaxMessage
  /\ Look(maxLen)
  /\ UNCHANGED <<builder, _digest, message, begun>>

Wanted ==
  LET limited == IF stream.waiting = -1 \/ stream.waiting > stream.left
                 THEN stream.left ELSE stream.waiting
  IN IF limited > StreamChunk THEN StreamChunk ELSE limited

(* readBytes() may return less than was asked for; nothing ends the call.  *)
StreamRead(bytes) ==
  /\ stream # NoStream
  /\ Len(bytes) <= Wanted
  /\ IF bytes = <<>>
     THEN stream' = NoStream /\ UNCHANGED <<builder, message>>
     ELSE Add(bytes) /\ Look(stream.left - Len(bytes))
  /\ UNCHANGED <<_digest, begun>>
-----------------------------------------------------------------------------
(* Mutation of PaddingLength: a message that ends where the length begins  *)
(* gets no padding.                                                        *)
PaddingLengthNone(offset) ==
  IF offset <= Block - LengthBytes THEN Block - LengthBytes - offset
  ELSE 2 * Block - LengthBytes - offset

PaddingLength(offset) ==
  IF offset < Block - LengthBytes THEN Block - LengthBytes - offset
  ELSE 2 * Block - LengthBytes - offset

Padding(n) == [i \in 1 .. n |-> IF i = 1 THEN One ELSE Nought]

(* calculate() adds the padding, does not count it, and steps a last block *)
(* of what the buffer begins with and the length.  What is added after it  *)
(* without begin() goes to a hash that is of no message.                   *)
calculate ==
  /\ begun /\ stream = NoStream
  /\ LET after == Added(Padding(PaddingLength(md5_size % Block)))
         final == [i \in 1 .. Block |-> IF i <= Block - LengthBytes
                                        THEN after.input[i - 1] ELSE Length(md5_size)]
     IN /\ _input' = after.input
        /\ stepped' = Append(after.stepped, final)
        /\ _digest' = stepped'
  /\ begun' = FALSE
  /\ UNCHANGED <<md5_size, stream, message>>

MD5Next ==
  \/ begin
  \/ \E bytes \in MD5Arrays : add(bytes)
  \/ \E bytes \in MD5Arrays, good \in 0 .. MaxAdded : addHexString(bytes, good)
  \/ \E maxLen \in 0 .. MaxAdded : addStream(maxLen)
  \/ \E bytes \in MD5Arrays : StreamRead(bytes)
  \/ calculate

MD5Spec == MD5Init /\ [][MD5Next]_md5Vars
-----------------------------------------------------------------------------
(* The message padded by the standard, as blocks. *)
Padded(m) ==
  LET zeros == CHOOSE n \in 0 .. Block - 1 : (Len(m) + 1 + n + LengthBytes) % Block = 0
      all == m \o <<One>> \o [i \in 1 .. zeros |-> Nought]
               \o [i \in 1 .. LengthBytes |-> Length(Len(m))]
  IN [b \in 1 .. Len(all) \div Block |-> SubSeq(all, (b - 1) * Block + 1, b * Block)]

(* The digest is the standard's for the whole message, however it was cut  *)
(* into arrays, hex strings and short reads of a stream, for every length  *)
(* of the last block.                                                      *)
DigestOfMessage == ~begun /\ _digest # <<>> => _digest = Padded(message)
=============================================================================
