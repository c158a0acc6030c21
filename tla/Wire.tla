-------------------------------- MODULE Wire --------------------------------
(***************************************************************************)
(* NightNetwork/src/TransportDetail.h and Protocol.h: frames as bytes on a *)
(* TCP connection, and the two reads, header and body, that a Session and  *)
(* a Client take them apart with.                                          *)
(*                                                                         *)
(*   magic (2) | version (1) | flags (1) | payload_size, big endian (4)    *)
(*   payload (payload_size)                                                *)
(*                                                                         *)
(* A shift by 8k bits and a cast to uint8_t is a division by 256^k and a   *)
(* remainder modulo 256.                                                   *)
(***************************************************************************)
EXTENDS Integers, Sequences, SequencesExt

CONSTANTS
    MAX_PAYLOAD_SIZE,   \* 2048
    Payloads,           \* what the layers above hand to send()
    ForeignHeaders,     \* headers of a peer that does not use write_header
    MaxFrames           \* bound: frames sent

Byte == 0 .. 255

ASSUME WireAssumption ==
    /\ MAX_PAYLOAD_SIZE \in Nat \ {0}
    /\ MAX_PAYLOAD_SIZE \div 65536 < 65536   \* payload_size is a uint32
    /\ Payloads \subseteq Seq(Byte)
    /\ \A h \in ForeignHeaders : h \in Seq(Byte) /\ Len(h) = 8
    /\ MaxFrames \in Nat

MAGIC == 78 * 256 + 78      \* 0x4E4E
VERSION == 1
FLAG_KEEPALIVE == 1         \* also KNOWN_FLAGS_MASK
HEADER_SIZE == 8

-----------------------------------------------------------------------------

read_u16_be(a, b) == a * 256 + b

read_u32_be(a, b, c, d) == a * 16777216 + b * 65536 + c * 256 + d

\* Mutant of write_header: the size in the byte order of the machine.
write_header_LittleEndian(flags, payload_size) ==
    <<MAGIC \div 256, MAGIC % 256, VERSION, flags,
      payload_size % 256, (payload_size \div 256) % 256,
      (payload_size \div 65536) % 256, (payload_size \div 16777216) % 256>>

write_header(flags, payload_size) ==
    <<MAGIC \div 256, MAGIC % 256, VERSION, flags,
      (payload_size \div 16777216) % 256, (payload_size \div 65536) % 256,
      (payload_size \div 256) % 256, payload_size % 256>>

build_frame(flags, payload) == write_header(flags, Len(payload)) \o payload

\* The only known flag is bit 0.
HasUnknownFlags(flags) == flags \div 2 # 0
is_keepalive(flags) == flags % 2 = FLAG_KEEPALIVE

Ok(flags, size) == [error |-> "none", flags |-> flags, payload_size |-> size]
Rejected(error) == [error |-> error, flags |-> 0, payload_size |-> 0]

\* Mutant of decode_header: the size is not compared with the maximum.
decode_header_NoMaximum(h) ==
    LET size == read_u32_be(h[5], h[6], h[7], h[8])
    IN  IF \/ read_u16_be(h[1], h[2]) # MAGIC
           \/ h[3] # VERSION
           \/ HasUnknownFlags(h[4])
           \/ is_keepalive(h[4]) # (size = 0)
        THEN Rejected("InvalidPayloadSize") ELSE Ok(h[4], size)

decode_header(h) ==
    LET size == read_u32_be(h[5], h[6], h[7], h[8])
    IN  IF read_u16_be(h[1], h[2]) # MAGIC THEN Rejected("InvalidMagic")
        ELSE IF h[3] # VERSION THEN Rejected("UnsupportedVersion")
        ELSE IF HasUnknownFlags(h[4]) THEN Rejected("InvalidFlags")
        ELSE IF size > MAX_PAYLOAD_SIZE THEN Rejected("InvalidPayloadSize")
        ELSE IF is_keepalive(h[4]) # (size = 0) THEN Rejected("InvalidPayloadSize")
        ELSE Ok(h[4], size)

-----------------------------------------------------------------------------
(* One direction of a connection.                                          *)

VARIABLES
    honest,     \* the sender builds its frames with write_header
    stream,     \* bytes sent and not yet read
    frames,     \* number of frames sent
    sent,       \* payloads sent
    body_size,  \* size of the body being read; 0 while a header is
    received,   \* payloads handed to the layer above
    closed      \* the reader has closed the connection

wireVars == <<honest, stream, frames, sent, body_size, received, closed>>

WireInit ==
    /\ honest \in BOOLEAN
    /\ stream = <<>> /\ frames = 0 /\ sent = <<>>
    /\ body_size = 0 /\ received = <<>> /\ closed = FALSE

async_write(bytes) ==
    /\ frames < MaxFrames
    /\ frames' = frames + 1
    /\ stream' = stream \o bytes
    /\ UNCHANGED <<honest, body_size, received, closed>>

\* send() ignores every other payload.
Admissible(payload) ==
    payload # <<>> /\ Len(payload) <= MAX_PAYLOAD_SIZE

build_data_frame(payload) ==
    /\ honest /\ Admissible(payload)
    /\ async_write(build_frame(0, payload))
    /\ sent' = Append(sent, payload)

build_keepalive_frame ==
    /\ honest
    /\ async_write(build_frame(FLAG_KEEPALIVE, <<>>))
    /\ UNCHANGED sent

\* The bytes of one foreign header may be read as the body of another.
ForeignFrame(h) ==
    /\ ~honest /\ ~closed
    /\ async_write(h)
    /\ UNCHANGED sent

\* async_read completes when it has all the bytes it asked for.
ReadHeader ==
    LET header == decode_header(SubSeq(stream, 1, HEADER_SIZE))
    IN  /\ ~closed /\ body_size = 0
        /\ Len(stream) >= HEADER_SIZE
        /\ stream' = SubSeq(stream, HEADER_SIZE + 1, Len(stream))
        /\ \/ /\ header.error # "none"
              /\ closed' = TRUE
              /\ UNCHANGED body_size
           \/ /\ header.error = "none"
              /\ body_size' = IF is_keepalive(header.flags) THEN 0
                              ELSE header.payload_size
              /\ UNCHANGED closed
        /\ UNCHANGED <<honest, frames, sent, received>>

ReadBody ==
    /\ ~closed /\ body_size > 0
    /\ Len(stream) >= body_size
    /\ received' = Append(received, SubSeq(stream, 1, body_size))
    /\ stream' = SubSeq(stream, body_size + 1, Len(stream))
    /\ body_size' = 0
    /\ UNCHANGED <<honest, frames, sent, closed>>

WireNext ==
    \/ \E payload \in Payloads : build_data_frame(payload)
    \/ build_keepalive_frame
    \/ \E h \in ForeignHeaders : ForeignFrame(h)
    \/ ReadHeader \/ ReadBody

WireSpec == WireInit /\ [][WireNext]_wireVars

-----------------------------------------------------------------------------
(* Properties.                                                             *)

\* A peer that frames with write_header is never cut off, and its payloads
\* come out whole, in order and none missing, whatever their bytes, also when
\* they look like headers.
FramesRecovered ==
    honest =>
        /\ ~closed
        /\ IsPrefix(received, sent)
        /\ stream = <<>> /\ body_size = 0 => received = sent

\* No header that a peer may send makes the reader resize its body buffer
\* beyond MAX_PAYLOAD_SIZE or read an empty body.
BodyBounded ==
    /\ body_size <= MAX_PAYLOAD_SIZE
    /\ \A i \in DOMAIN received : Len(received[i]) \in 1 .. MAX_PAYLOAD_SIZE

=============================================================================
