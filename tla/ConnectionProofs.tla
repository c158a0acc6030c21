-------------------------- MODULE ConnectionProofs --------------------------
(***************************************************************************)
(* What the two ends of a connection rely on.                              *)
(*                                                                         *)
(* Frames (module Wire): the header codec for every flags byte, every      *)
(* 32-bit size and every eight bytes, the bound on what a reader takes     *)
(* from the wire, and the recovery of every payload of an honest sender.   *)
(*                                                                         *)
(* Heartbeats (module Heartbeat): they never mistake a living peer for a   *)
(* dead one, and always notice a dead one, for every interval, timeout,    *)
(* delay and lag.                                                          *)
(*                                                                         *)
(* The owner of a client (module ChatClient): the window offers to connect *)
(* exactly while it has none, whatever a poll shows it.                    *)
(***************************************************************************)
EXTENDS Wire, Heartbeat, ChatClient, SequenceTheorems, WellFoundedInduction, TLAPS

UInt32 == {n \in Nat : n < 65536 * 65536}

\* The headers a frame of this protocol can have.
Legal(flags, size) ==
    \/ flags = 0 /\ size \in 1 .. MAX_PAYLOAD_SIZE
    \/ flags = FLAG_KEEPALIVE /\ size = 0

\* One byte off a number: the remainder is a byte, and what is left shifts
\* on.
LEMMA OneByte ==
    ASSUME NEW n \in Nat
    PROVE  /\ n \div 256 \in Nat
           /\ n % 256 \in Byte
           /\ n % 256 = n - 256 * (n \div 256)
           /\ n \div 65536 = (n \div 256) \div 256
           /\ n \div 16777216 = ((n \div 256) \div 256) \div 256
  BY SMT DEF Byte

\* The four size bytes of write_header are bytes, and read_u32_be puts them
\* together again.
LEMMA SizeBytes ==
    ASSUME NEW n \in UInt32
    PROVE  /\ n % 256 \in Byte
           /\ (n \div 256) % 256 \in Byte
           /\ (n \div 65536) % 256 \in Byte
           /\ (n \div 16777216) % 256 \in Byte
           /\ read_u32_be((n \div 16777216) % 256, (n \div 65536) % 256,
                          (n \div 256) % 256, n % 256) = n
<1>1. n \in Nat  BY SMT DEF UInt32
<1>2. PICK q \in Nat : q = n \div 256 /\ n % 256 = n - 256 * q  BY <1>1, OneByte, SMT
<1>3. PICK r \in Nat : r = q \div 256 /\ q % 256 = q - 256 * r  BY <1>2, OneByte, SMT
<1>4. PICK t \in Nat : t = r \div 256 /\ r % 256 = r - 256 * t  BY <1>3, OneByte, SMT
<1>5. n \div 65536 = r /\ n \div 16777216 = t
  BY <1>1, <1>2, <1>3, <1>4, OneByte, SMT
<1>6. t % 256 = t
  <2>1. /\ n >= 0 /\ n < 65536 * 65536
        /\ n - 256 * q \in 0 .. 255 /\ q - 256 * r \in 0 .. 255
        /\ r - 256 * t \in 0 .. 255
    BY <1>1, <1>2, <1>3, <1>4, OneByte, SMT DEF Byte, UInt32
  <2>2. t \in 0 .. 255  BY <2>1, <1>1, <1>2, <1>3, <1>4, SMT
  <2> QED  BY <2>2, SMT
<1>7. read_u32_be(t, r - 256 * t, q - 256 * r, n - 256 * q) = n
  BY <1>1, <1>2, <1>3, <1>4, SMT DEF read_u32_be
<1> QED
  BY <1>1, <1>2, <1>3, <1>4, <1>5, <1>6, <1>7, OneByte, SMT

\* The other way about: four bytes are the size bytes of the number they
\* stand for.
LEMMA BytesSize ==
    ASSUME NEW a \in Byte, NEW b \in Byte, NEW c \in Byte, NEW d \in Byte,
           NEW n, n = read_u32_be(a, b, c, d)
    PROVE  /\ n \in UInt32
           /\ (n \div 16777216) % 256 = a
           /\ (n \div 65536) % 256 = b
           /\ (n \div 256) % 256 = c
           /\ n % 256 = d
<1>1. /\ a \in 0 .. 255 /\ b \in 0 .. 255 /\ c \in 0 .. 255 /\ d \in 0 .. 255
      /\ n = a * 16777216 + b * 65536 + c * 256 + d
  BY SMT DEF Byte, read_u32_be
<1>2. n \in UInt32  BY <1>1, SMT DEF UInt32
<1>3. n % 256 = d /\ n \div 256 = a * 65536 + b * 256 + c  BY <1>1, SMT
<1>4. n \div 65536 = a * 256 + b  BY <1>1, SMT
<1>5. n \div 16777216 = a  BY <1>1, SMT
<1> QED  BY <1>1, <1>2, <1>3, <1>4, <1>5, SMT

LEMMA FlagBits ==
    ASSUME NEW flags \in Byte
    PROVE  /\ HasUnknownFlags(flags) <=> flags \notin {0, 1}
           /\ flags \in {0, 1} => (is_keepalive(flags) <=> flags = 1)
  BY SMT DEF Byte, HasUnknownFlags, is_keepalive, FLAG_KEEPALIVE

LEMMA MagicBytes ==
    /\ MAGIC \div 256 = 78
    /\ MAGIC % 256 = 78
    /\ \A a, b \in Byte : read_u16_be(a, b) = MAGIC <=> a = 78 /\ b = 78
  BY SMT DEF MAGIC, read_u16_be, Byte

\* decode_header takes h for a legal header, or rejects it.
Decodes(h, flags, size) ==
    /\ decode_header(h).error = "none" <=>
         h[1] = 78 /\ h[2] = 78 /\ h[3] = VERSION /\ Legal(flags, size)
    /\ decode_header(h).error = "none" => decode_header(h) = Ok(flags, size)

LEMMA LegalTests ==
    ASSUME NEW flags \in Byte, NEW size \in Nat
    PROVE  Legal(flags, size) <=>
             /\ ~HasUnknownFlags(flags)
             /\ ~(size > MAX_PAYLOAD_SIZE)
             /\ ~(is_keepalive(flags) # (size = 0))
<1>1. MAX_PAYLOAD_SIZE \in Nat \ {0}  BY WireAssumption
<1>2. CASE flags = 0
  BY <1>1, <1>2, SMT DEF Legal, FLAG_KEEPALIVE, HasUnknownFlags, is_keepalive
<1>3. CASE flags = 1
  BY <1>1, <1>3, SMT DEF Legal, FLAG_KEEPALIVE, HasUnknownFlags, is_keepalive
<1>4. CASE flags \notin {0, 1}  BY <1>4, FlagBits, SMT DEF Legal, FLAG_KEEPALIVE
<1> QED  BY <1>2, <1>3, <1>4

\* The tests of decode_header, one after the other.
LEMMA DecodeBytes ==
    ASSUME NEW h,
           h[1] \in Byte, h[2] \in Byte, h[4] \in Byte,
           NEW size \in Nat, size = read_u32_be(h[5], h[6], h[7], h[8])
    PROVE  Decodes(h, h[4], size)
<1>1. PICK flags \in Byte : flags = h[4]  OBVIOUS
<1>2. decode_header(h) =
        IF read_u16_be(h[1], h[2]) # MAGIC THEN Rejected("InvalidMagic")
        ELSE IF h[3] # VERSION THEN Rejected("UnsupportedVersion")
        ELSE IF HasUnknownFlags(flags) THEN Rejected("InvalidFlags")
        ELSE IF size > MAX_PAYLOAD_SIZE THEN Rejected("InvalidPayloadSize")
        ELSE IF is_keepalive(flags) # (size = 0) THEN Rejected("InvalidPayloadSize")
        ELSE Ok(flags, size)
  BY <1>1 DEF decode_header
<1>3. read_u16_be(h[1], h[2]) = MAGIC <=> h[1] = 78 /\ h[2] = 78
  BY MagicBytes
<1>4. Legal(flags, size) <=>
        /\ ~HasUnknownFlags(flags)
        /\ ~(size > MAX_PAYLOAD_SIZE)
        /\ ~(is_keepalive(flags) # (size = 0))
  BY LegalTests
<1>5. Ok(flags, size).error = "none"  BY DEF Ok
<1>6. /\ Rejected("InvalidMagic").error # "none"
      /\ Rejected("UnsupportedVersion").error # "none"
      /\ Rejected("InvalidFlags").error # "none"
      /\ Rejected("InvalidPayloadSize").error # "none"
  BY DEF Rejected
<1>7. decode_header(h).error = "none" <=>
        /\ read_u16_be(h[1], h[2]) = MAGIC /\ h[3] = VERSION
        /\ ~HasUnknownFlags(flags)
        /\ ~(size > MAX_PAYLOAD_SIZE) /\ ~(is_keepalive(flags) # (size = 0))
  BY <1>2, <1>5, <1>6
<1>8. decode_header(h).error = "none" => decode_header(h) = Ok(flags, size)
  BY <1>2, <1>6
<1> QED  BY <1>1, <1>3, <1>4, <1>7, <1>8, SMT DEF Decodes

LEMMA EightBytes ==
    ASSUME NEW h \in Seq(Byte), Len(h) = HEADER_SIZE
    PROVE  /\ h[1] \in Byte /\ h[2] \in Byte /\ h[3] \in Byte /\ h[4] \in Byte
           /\ h[5] \in Byte /\ h[6] \in Byte /\ h[7] \in Byte /\ h[8] \in Byte
<1>1. \A i \in 1 .. Len(h) : h[i] \in Byte  OBVIOUS
<1>2. Len(h) = 8  BY DEF HEADER_SIZE
<1> QED  BY <1>1, <1>2, SMT

\* What write_header writes, decode_header reads back, for every flags byte
\* and every uint32 size: exactly the legal headers are accepted.
THEOREM RoundTrip ==
    ASSUME NEW flags \in Byte, NEW n \in UInt32
    PROVE  /\ decode_header(write_header(flags, n)).error = "none" <=> Legal(flags, n)
           /\ Legal(flags, n) => decode_header(write_header(flags, n)) = Ok(flags, n)
<1>1. n \in Nat  BY SMT DEF UInt32
<1>2. 78 \in Byte  BY SMT DEF Byte
<1>3. PICK h : h = write_header(flags, n)  OBVIOUS
<1>4. /\ h[1] = 78 /\ h[2] = 78 /\ h[3] = VERSION /\ h[4] = flags
      /\ h[5] = (n \div 16777216) % 256 /\ h[6] = (n \div 65536) % 256
      /\ h[7] = (n \div 256) % 256 /\ h[8] = n % 256
  BY <1>3, MagicBytes, SMT DEF write_header
<1>5. n = read_u32_be(h[5], h[6], h[7], h[8])  BY <1>4, SizeBytes, SMT
<1>6. Decodes(h, flags, n)  BY <1>1, <1>2, <1>4, <1>5, DecodeBytes, SMT
<1> QED  BY <1>3, <1>4, <1>6, SMT DEF Decodes

\* decode_header accepts nothing else: eight bytes that it takes for a header
\* are the ones write_header writes for the flags and size it returns.
THEOREM DecodeExact ==
    ASSUME NEW h \in Seq(Byte), Len(h) = HEADER_SIZE,
           decode_header(h).error = "none"
    PROVE  \E size \in UInt32 :
             /\ Legal(h[4], size)
             /\ decode_header(h) = Ok(h[4], size)
             /\ h = write_header(h[4], size)
<1>1. /\ h[1] \in Byte /\ h[2] \in Byte /\ h[3] \in Byte /\ h[4] \in Byte
      /\ h[5] \in Byte /\ h[6] \in Byte /\ h[7] \in Byte /\ h[8] \in Byte
  BY EightBytes
<1>2. PICK n : n = read_u32_be(h[5], h[6], h[7], h[8])  OBVIOUS
<1>3. /\ n \in UInt32
      /\ (n \div 16777216) % 256 = h[5] /\ (n \div 65536) % 256 = h[6]
      /\ (n \div 256) % 256 = h[7] /\ n % 256 = h[8]
  BY <1>1, <1>2, BytesSize, SMT
<1>4. n \in Nat  BY <1>3, SMT DEF UInt32
<1>5. Decodes(h, h[4], n)  BY <1>1, <1>2, <1>4, DecodeBytes, SMT
<1>6. /\ h[1] = 78 /\ h[2] = 78 /\ h[3] = VERSION /\ Legal(h[4], n)
      /\ decode_header(h) = Ok(h[4], n)
  BY <1>5, SMT DEF Decodes
<1>7. write_header(h[4], n) =
        <<78, 78, VERSION, h[4], h[5], h[6], h[7], h[8]>>
  BY <1>3, MagicBytes, SMT DEF write_header
<1>8. h = <<78, 78, VERSION, h[4], h[5], h[6], h[7], h[8]>>
  BY <1>1, <1>6, SMT DEF HEADER_SIZE
<1> QED  BY <1>3, <1>6, <1>7, <1>8

-----------------------------------------------------------------------------
(* The reader.                                                             *)

\* What the reader holds, and the type of what it reads: BodyBounded is
\* inductive once every byte of the stream is known to be one.
ReaderInv ==
    /\ stream \in Seq(Byte)
    /\ body_size \in 0 .. MAX_PAYLOAD_SIZE
    /\ received \in Seq(Seq(Byte))
    /\ \A i \in DOMAIN received : Len(received[i]) \in 1 .. MAX_PAYLOAD_SIZE

LEMMA HeaderType ==
    ASSUME NEW flags \in Byte, NEW n \in Nat
    PROVE  write_header(flags, n) \in Seq(Byte)
<1>1. /\ (n \div 16777216) % 256 \in Byte /\ (n \div 65536) % 256 \in Byte
      /\ (n \div 256) % 256 \in Byte /\ n % 256 \in Byte
  BY OneByte, SMT
<1>2. 78 \in Byte /\ VERSION \in Byte  BY SMT DEF Byte, VERSION
<1>3. write_header(flags, n) =
        <<78, 78, VERSION, flags, (n \div 16777216) % 256,
          (n \div 65536) % 256, (n \div 256) % 256, n % 256>>
  BY MagicBytes DEF write_header
<1> QED  BY <1>1, <1>2, <1>3

LEMMA FrameType ==
    ASSUME NEW flags \in Byte, NEW payload \in Seq(Byte)
    PROVE  build_frame(flags, payload) \in Seq(Byte)
<1>1. Len(payload) \in Nat  OBVIOUS
<1>2. write_header(flags, Len(payload)) \in Seq(Byte)  BY <1>1, HeaderType
<1> QED  BY <1>2 DEF build_frame

LEMMA TransmitInv ==
    ASSUME ReaderInv, NEW bytes \in Seq(Byte), async_write(bytes)
    PROVE  ReaderInv'
<1>1. stream' \in Seq(Byte)  BY DEF ReaderInv, async_write
<1> QED  BY <1>1 DEF ReaderInv, async_write

LEMMA ReadHeaderInv ==
    ASSUME ReaderInv, ReadHeader
    PROVE  ReaderInv'
<1>1. PICK h : h = SubSeq(stream, 1, HEADER_SIZE)  OBVIOUS
<1>2. Len(stream) >= HEADER_SIZE  BY DEF ReadHeader
<1>3. h \in Seq(Byte) /\ Len(h) = HEADER_SIZE
  BY <1>1, <1>2, SMT DEF ReaderInv, HEADER_SIZE
<1>4. stream' \in Seq(Byte)
  BY <1>2, SMT DEF ReadHeader, ReaderInv, HEADER_SIZE
<1>5. MAX_PAYLOAD_SIZE \in Nat  BY WireAssumption
<1>6. body_size' \in 0 .. MAX_PAYLOAD_SIZE
  <2>1. CASE decode_header(h).error # "none"
    BY <1>1, <2>1 DEF ReadHeader, ReaderInv
  <2>2. CASE decode_header(h).error = "none"
    <3>1. PICK size \in UInt32 : Legal(h[4], size) /\ decode_header(h) = Ok(h[4], size)
      BY <1>3, <2>2, DecodeExact
    <3>2. decode_header(h).payload_size = size  BY <3>1 DEF Ok
    <3>3. size \in 0 .. MAX_PAYLOAD_SIZE  BY <3>1, <1>5, SMT DEF Legal
    <3>4. body_size' = 0 \/ body_size' = decode_header(h).payload_size
      BY <1>1, <2>2 DEF ReadHeader
    <3> QED  BY <1>5, <3>2, <3>3, <3>4, SMT
  <2> QED  BY <2>1, <2>2
<1>7. UNCHANGED received  BY DEF ReadHeader
<1> QED  BY <1>4, <1>6, <1>7 DEF ReaderInv

LEMMA ReadBodyInv ==
    ASSUME ReaderInv, ReadBody
    PROVE  ReaderInv'
<1>1. MAX_PAYLOAD_SIZE \in Nat  BY WireAssumption
<1>2. PICK body : body = SubSeq(stream, 1, body_size)  OBVIOUS
<1>3. /\ body_size \in 1 .. MAX_PAYLOAD_SIZE
      /\ Len(stream) >= body_size /\ stream \in Seq(Byte)
  BY <1>1, SMT DEF ReaderInv, ReadBody
<1>4. body \in Seq(Byte) /\ Len(body) = body_size
  BY <1>1, <1>2, <1>3, SMT
<1>5. stream' \in Seq(Byte)  BY <1>1, <1>3, SMT DEF ReadBody
<1>6. body_size' \in 0 .. MAX_PAYLOAD_SIZE  BY <1>1, SMT DEF ReadBody
<1>7. /\ received' = Append(received, body) /\ received \in Seq(Seq(Byte))
      /\ \A i \in DOMAIN received : Len(received[i]) \in 1 .. MAX_PAYLOAD_SIZE
  BY <1>2 DEF ReadBody, ReaderInv
<1>8. received' \in Seq(Seq(Byte))  BY <1>4, <1>7
<1>9. ASSUME NEW i \in DOMAIN received'
      PROVE  Len(received'[i]) \in 1 .. MAX_PAYLOAD_SIZE
  <2>1. i \in 1 .. Len(received) + 1  BY <1>4, <1>7
  <2>2. CASE i = Len(received) + 1  BY <1>3, <1>4, <1>7, <2>2
  <2>3. CASE i \in 1 .. Len(received)
    <3>1. received'[i] = received[i] /\ i \in DOMAIN received  BY <1>7, <2>3
    <3> QED  BY <3>1, <1>7
  <2> QED  BY <2>1, <2>2, <2>3
<1> QED  BY <1>5, <1>6, <1>8, <1>9 DEF ReaderInv

LEMMA ReaderStep == ReaderInv /\ [WireNext]_wireVars => ReaderInv'
<1> SUFFICES ASSUME ReaderInv, [WireNext]_wireVars PROVE ReaderInv'  OBVIOUS
<1>1. ASSUME NEW payload \in Payloads, build_data_frame(payload)
      PROVE  ReaderInv'
  <2>1. payload \in Seq(Byte) /\ 0 \in Byte  BY WireAssumption, SMT DEF Byte
  <2>2. build_frame(0, payload) \in Seq(Byte)  BY <2>1, FrameType
  <2> QED  BY <1>1, <2>2, TransmitInv DEF build_data_frame
<1>2. CASE build_keepalive_frame
  <2>1. <<>> \in Seq(Byte) /\ FLAG_KEEPALIVE \in Byte
    BY SMT DEF Byte, FLAG_KEEPALIVE
  <2>2. build_frame(FLAG_KEEPALIVE, <<>>) \in Seq(Byte)  BY <2>1, FrameType
  <2> QED  BY <1>2, <2>2, TransmitInv DEF build_keepalive_frame
<1>3. ASSUME NEW h \in ForeignHeaders, ForeignFrame(h)
      PROVE  ReaderInv'
  <2>1. h \in Seq(Byte)  BY WireAssumption
  <2> QED  BY <1>3, <2>1, TransmitInv DEF ForeignFrame
<1>4. CASE ReadHeader  BY <1>4, ReadHeaderInv
<1>5. CASE ReadBody  BY <1>5, ReadBodyInv
<1>6. CASE UNCHANGED wireVars  BY <1>6 DEF wireVars, ReaderInv
<1> QED  BY <1>1, <1>2, <1>3, <1>4, <1>5, <1>6 DEF WireNext

\* Whatever bytes a peer sends, in headers of its own making or in payloads
\* that look like headers, a Session and a Client never resize their body
\* buffer beyond MAX_PAYLOAD_SIZE and hand up no empty or oversized payload.
THEOREM BodyBoundedTheorem == WireSpec => []BodyBounded
<1>1. WireInit => ReaderInv
  <2>1. MAX_PAYLOAD_SIZE \in Nat  BY WireAssumption
  <2> QED  BY <2>1 DEF WireInit, ReaderInv
<1>2. ReaderInv /\ [WireNext]_wireVars => ReaderInv'  BY ReaderStep
<1>3. ReaderInv => BodyBounded
  <2>1. MAX_PAYLOAD_SIZE \in Nat  BY WireAssumption
  <2> QED  BY <2>1, SMT DEF ReaderInv, BodyBounded
<1> QED  BY <1>1, <1>2, <1>3, PTL DEF WireSpec

-----------------------------------------------------------------------------
(* Framing.  The bytes under way from an honest sender are the rest of a   *)
(* body, if one is being read, and after it whole frames.                  *)

\* bytes stand in s behind the first c bytes.
At(s, c, bytes) ==
    /\ c + Len(bytes) <= Len(s)
    /\ \A j \in 1 .. Len(bytes) : s[c + j] = bytes[j]

LEMMA AtAppend ==
    ASSUME NEW s \in Seq(Byte), NEW c \in Nat, NEW bytes \in Seq(Byte),
           NEW more \in Seq(Byte), At(s, c, bytes)
    PROVE  At(s \o more, c, bytes)
<1>1. Len(s \o more) = Len(s) + Len(more)  OBVIOUS
<1>2. \A j \in 1 .. Len(bytes) : (s \o more)[c + j] = s[c + j]  BY DEF At
<1> QED  BY <1>1, <1>2 DEF At

LEMMA AtEnd ==
    ASSUME NEW s \in Seq(Byte), NEW bytes \in Seq(Byte)
    PROVE  At(s \o bytes, Len(s), bytes)
  BY DEF At

LEMMA AtShift ==
    ASSUME NEW s \in Seq(Byte), NEW c \in Nat, NEW d \in Nat, d <= Len(s),
           NEW bytes \in Seq(Byte), At(s, c + d, bytes)
    PROVE  At(SubSeq(s, d + 1, Len(s)), c, bytes)
<1>1. Len(SubSeq(s, d + 1, Len(s))) = Len(s) - d  OBVIOUS
<1>2. \A j \in 1 .. Len(bytes) : SubSeq(s, d + 1, Len(s))[c + j] = s[(c + d) + j]
  <2> TAKE j \in 1 .. Len(bytes)
  <2>1. c + j \in 1 .. Len(s) - d  BY DEF At
  <2>2. SubSeq(s, d + 1, Len(s))[c + j] = s[d + 1 + (c + j) - 1]  BY <2>1
  <2>3. d + 1 + (c + j) - 1 = (c + d) + j  OBVIOUS
  <2> QED  BY <2>2, <2>3
<1> QED  BY <1>1, <1>2 DEF At

LEMMA RestLength ==
    ASSUME NEW s \in Seq(Byte), NEW d \in Nat, d <= Len(s)
    PROVE  /\ Len(SubSeq(s, d + 1, Len(s))) = Len(s) - d
           /\ SubSeq(s, 1, d) \in Seq(Byte) /\ Len(SubSeq(s, 1, d)) = d
  OBVIOUS

LEMMA AtStart ==
    ASSUME NEW s \in Seq(Byte), NEW bytes \in Seq(Byte), At(s, 0, bytes)
    PROVE  SubSeq(s, 1, Len(bytes)) = bytes
<1>1. Len(SubSeq(s, 1, Len(bytes))) = Len(bytes)  BY DEF At
<1>2. \A j \in 1 .. Len(bytes) : SubSeq(s, 1, Len(bytes))[j] = bytes[j]
  BY DEF At
<1> QED  BY <1>1, <1>2

\* Frame i, between the marks i - 1 and i, is a keepalive, or the frame of
\* the payload that num counts.
FrameAt(s, out, pos, num, i) ==
    \/ /\ num[i] = num[i - 1]
       /\ pos[i] = pos[i - 1] + HEADER_SIZE
       /\ At(s, pos[i - 1], write_header(FLAG_KEEPALIVE, 0))
    \/ /\ num[i] = num[i - 1] + 1
       /\ num[i] \in 1 .. Len(out)
       /\ pos[i] = pos[i - 1] + HEADER_SIZE + Len(out[num[i]])
       /\ At(s, pos[i - 1], write_header(0, Len(out[num[i]])))
       /\ At(s, pos[i - 1] + HEADER_SIZE, out[num[i]])

\* s is a body of the given size, of payload number n, and k frames up to
\* the last payload of out; pos and num are the positions and the numbers of
\* payloads at the ends of the frames.
Marked(s, out, size, n, k, pos, num) ==
    /\ pos[0] = size /\ num[0] = n
    /\ pos[k] = Len(s) /\ num[k] = Len(out)
    /\ \A i, j \in 0 .. k : i <= j => pos[i] <= pos[j]
    /\ \A i \in 1 .. k : FrameAt(s, out, pos, num, i)

Layout(s, out, size, n) ==
    \E k \in Nat : \E pos, num \in [0 .. k -> Nat] :
        Marked(s, out, size, n, k, pos, num)

LEMMA FlagBytes == 0 \in Byte /\ FLAG_KEEPALIVE \in Byte /\ 0 \in Nat
  BY SMT DEF Byte, FLAG_KEEPALIVE

LEMMA HeaderLength ==
    ASSUME NEW flags \in Byte, NEW n \in Nat
    PROVE  /\ write_header(flags, n) \in Seq(Byte)
           /\ Len(write_header(flags, n)) = HEADER_SIZE
<1>1. Len(write_header(flags, n)) = 8  BY DEF write_header
<1> QED  BY <1>1, HeaderType DEF HEADER_SIZE

LEMMA Regroup ==
    ASSUME NEW a \in Seq(Byte), NEW b \in Seq(Byte), NEW c \in Seq(Byte)
    PROVE  (a \o b) \o c = a \o (b \o c)
<1>1. a \o b \in Seq(Byte) /\ b \o c \in Seq(Byte)  OBVIOUS
<1>2. (a \o b) \o c \in Seq(Byte) /\ a \o (b \o c) \in Seq(Byte)  BY <1>1
<1>3. Len((a \o b) \o c) = Len(a \o (b \o c))  BY <1>1
<1>4. ASSUME NEW i \in 1 .. Len((a \o b) \o c)
      PROVE  ((a \o b) \o c)[i] = (a \o (b \o c))[i]
  <2>1. CASE i <= Len(a)  BY <2>1, <1>1
  <2>2. CASE i > Len(a) /\ i <= Len(a) + Len(b)  BY <2>2, <1>1
  <2>3. CASE i > Len(a) + Len(b)  BY <2>3, <1>1
  <2> QED  BY <2>1, <2>2, <2>3
<1> QED  BY <1>2, <1>3, <1>4, SeqEqual

\* A sender adds a frame: the marks get one more.
LEMMA MoreFrames ==
    ASSUME NEW s \in Seq(Byte), NEW out \in Seq(Seq(Byte)),
           NEW size \in Nat, NEW n \in Nat, Layout(s, out, size, n),
           NEW more \in Seq(Seq(Byte)), NEW added \in Seq(Byte),
           \/ more = out /\ added = write_header(FLAG_KEEPALIVE, 0)
           \/ \E payload \in Seq(Byte) :
                /\ more = Append(out, payload)
                /\ added = build_frame(0, payload)
    PROVE  Layout(s \o added, more, size, n)
<1>1. PICK k \in Nat : \E pos, num \in [0 .. k -> Nat] :
             Marked(s, out, size, n, k, pos, num)
  BY DEF Layout
<1>2. PICK pos \in [0 .. k -> Nat], num \in [0 .. k -> Nat] :
             Marked(s, out, size, n, k, pos, num)
  BY <1>1
<1> DEFINE pos2 == [i \in 0 .. k + 1 |-> IF i = k + 1 THEN Len(s \o added) ELSE pos[i]]
           num2 == [i \in 0 .. k + 1 |-> IF i = k + 1 THEN Len(more) ELSE num[i]]
<1>3. Len(s \o added) = Len(s) + Len(added) /\ s \o added \in Seq(Byte)  OBVIOUS
<1>4. pos2 \in [0 .. k + 1 -> Nat] /\ num2 \in [0 .. k + 1 -> Nat]  BY <1>3
<1>5. /\ Len(more) >= Len(out)
      /\ \A i \in 1 .. Len(out) : more[i] = out[i]
  <2>1. ASSUME NEW payload \in Seq(Byte), more = Append(out, payload)
        PROVE  /\ Len(more) >= Len(out)
               /\ \A i \in 1 .. Len(out) : more[i] = out[i]
    BY <2>1, AppendProperties
  <2>2. ASSUME more = out
        PROVE  /\ Len(more) >= Len(out)
               /\ \A i \in 1 .. Len(out) : more[i] = out[i]
    BY <2>2
  <2> QED  BY <2>1, <2>2
<1>6. ASSUME NEW i \in 1 .. k  PROVE FrameAt(s \o added, more, pos2, num2, i)
  <2>1. FrameAt(s, out, pos, num, i)  BY <1>2 DEF Marked
  <2>2. i \in 0 .. k /\ i - 1 \in 0 .. k  OBVIOUS
  <2>3. /\ pos2[i] = pos[i] /\ pos2[i - 1] = pos[i - 1]
        /\ num2[i] = num[i] /\ num2[i - 1] = num[i - 1]
    BY <2>2
  <2>4. pos[i - 1] \in Nat /\ pos[i - 1] + HEADER_SIZE \in Nat
    <3>1. PICK p \in Nat : p = pos[i - 1]  BY <2>2
    <3>2. p + HEADER_SIZE \in Nat  BY DEF HEADER_SIZE
    <3> QED  BY <3>1, <3>2
  <2>5. CASE /\ num[i] = num[i - 1]
             /\ pos[i] = pos[i - 1] + HEADER_SIZE
             /\ At(s, pos[i - 1], write_header(FLAG_KEEPALIVE, 0))
    <3>1. write_header(FLAG_KEEPALIVE, 0) \in Seq(Byte)
      BY FlagBytes, HeaderType
    <3>2. At(s \o added, pos[i - 1], write_header(FLAG_KEEPALIVE, 0))
      BY <2>4, <2>5, <3>1, AtAppend
    <3> HIDE DEF pos2, num2
    <3> QED  BY <2>3, <2>5, <3>2 DEF FrameAt
  <2>6. CASE /\ num[i] = num[i - 1] + 1
             /\ num[i] \in 1 .. Len(out)
             /\ pos[i] = pos[i - 1] + HEADER_SIZE + Len(out[num[i]])
             /\ At(s, pos[i - 1], write_header(0, Len(out[num[i]])))
             /\ At(s, pos[i - 1] + HEADER_SIZE, out[num[i]])
    <3>0. PICK m \in 1 .. Len(out) : m = num[i]  BY <2>6
    <3>1. out[num[i]] \in Seq(Byte) /\ more[num[i]] = out[num[i]]
      BY <1>5, <3>0, ElementOfSeq
    <3>2. Len(out[num[i]]) \in Nat  BY <3>1, LenProperties
    <3>3. write_header(0, Len(out[num[i]])) \in Seq(Byte)
      BY <3>2, FlagBytes, HeaderType
    <3>4. /\ At(s \o added, pos[i - 1], write_header(0, Len(out[num[i]])))
          /\ At(s \o added, pos[i - 1] + HEADER_SIZE, out[num[i]])
      BY <2>4, <2>6, <3>1, <3>3, AtAppend
    <3>5. num[i] \in 1 .. Len(more)
      <4>1. Len(more) \in Nat /\ Len(out) \in Nat  OBVIOUS
      <4> QED  BY <1>5, <3>0, <4>1
    <3> HIDE DEF pos2, num2
    <3> QED  BY <2>3, <2>6, <3>1, <3>4, <3>5 DEF FrameAt
  <2> QED  BY <2>1, <2>5, <2>6 DEF FrameAt
<1>7. FrameAt(s \o added, more, pos2, num2, k + 1)
  <2>1. /\ pos2[k + 1] = Len(s) + Len(added) /\ pos2[(k + 1) - 1] = Len(s)
        /\ num2[k + 1] = Len(more) /\ num2[(k + 1) - 1] = Len(out)
    BY <1>2, <1>3 DEF Marked
  <2>2. CASE more = out /\ added = write_header(FLAG_KEEPALIVE, 0)
    <3>1. Len(added) = HEADER_SIZE
      BY <2>2, FlagBytes, HeaderLength
    <3>2. At(s \o added, Len(s), added)  BY AtEnd
    <3> HIDE DEF pos2, num2
    <3> QED  BY <2>1, <2>2, <3>1, <3>2 DEF FrameAt
  <2>3. CASE \E payload \in Seq(Byte) :
                /\ more = Append(out, payload)
                /\ added = build_frame(0, payload)
    <3>1. PICK payload \in Seq(Byte) :
                /\ more = Append(out, payload)
                /\ added = build_frame(0, payload)
      BY <2>3
    <3> HIDE DEF pos2, num2
    <3>2. Len(payload) \in Nat  OBVIOUS
    <3>3. PICK h \in Seq(Byte) : h = write_header(0, Len(payload)) /\ Len(h) = HEADER_SIZE
      BY <3>2, FlagBytes, HeaderLength
    <3>4. added = h \o payload  BY <3>1, <3>3 DEF build_frame
    <3>5. /\ Len(more) = Len(out) + 1 /\ more[Len(more)] = payload
          /\ Len(added) = HEADER_SIZE + Len(payload)
          /\ Len(more) \in 1 .. Len(more)
      BY <3>1, <3>3, <3>4
    <3>a. (s \o h) \o payload = s \o (h \o payload)
      <4>1. s \in Seq(Byte) /\ h \in Seq(Byte) /\ payload \in Seq(Byte)  OBVIOUS
      <4> QED  BY ONLY <4>1, Regroup
    <3>b. s \o h \in Seq(Byte) /\ Len(s) \in Nat  BY <3>3
    <3>6. At(s \o added, Len(s), h)
      <4>1. At(s \o h, Len(s), h)  BY AtEnd
      <4>2. s \o added = (s \o h) \o payload  BY <3>4, <3>a
      <4>3. At((s \o h) \o payload, Len(s), h)  BY <4>1, <3>3, <3>b, AtAppend
      <4> QED  BY <4>2, <4>3
    <3>7. At(s \o added, Len(s) + HEADER_SIZE, payload)
      <4>1. s \o added = (s \o h) \o payload  BY <3>4, <3>a
      <4>2. Len(s \o h) = Len(s) + HEADER_SIZE  BY <3>3
      <4> QED  BY <4>1, <4>2, <3>b, AtEnd
    <3>8. Len(s) + Len(added) = Len(s) + HEADER_SIZE + Len(payload)
      BY <3>5 DEF HEADER_SIZE
    <3> QED  BY <2>1, <3>3, <3>5, <3>6, <3>7, <3>8 DEF FrameAt
  <2> QED  BY <2>2, <2>3
<1>8. Marked(s \o added, more, size, n, k + 1, pos2, num2)
  <2>1. pos2[0] = size /\ num2[0] = n  BY <1>2 DEF Marked
  <2>2. pos2[k + 1] = Len(s \o added) /\ num2[k + 1] = Len(more)  OBVIOUS
  <2>3. ASSUME NEW i \in 0 .. k + 1, NEW j \in 0 .. k + 1, i <= j
        PROVE  pos2[i] <= pos2[j]
    <3>1. pos[k] = Len(s) /\ \A a, b \in 0 .. k : a <= b => pos[a] <= pos[b]
      BY <1>2 DEF Marked
    <3>2. CASE j \in 0 .. k
      <4>1. i \in 0 .. k  BY <2>3, <3>2
      <4>2. pos2[i] = pos[i] /\ pos2[j] = pos[j]  BY <3>2, <4>1
      <4> QED  BY <2>3, <3>1, <3>2, <4>1, <4>2
    <3>3. CASE j = k + 1 /\ i \in 0 .. k
      <4>1. pos[i] <= pos[k]  BY <3>1, <3>3
      <4>2. pos2[i] = pos[i] /\ pos2[j] = Len(s) + Len(added)  BY <1>3, <3>3
      <4>3. pos[i] \in Nat /\ Len(s) \in Nat /\ Len(added) \in Nat  BY <3>3
      <4> QED  BY <3>1, <4>1, <4>2, <4>3
    <3>4. CASE i = k + 1  
      <4>1. j = i  BY <2>3, <3>4
      <4>2. pos2[i] = Len(s) + Len(added)  BY <1>3, <3>4
      <4> QED  BY <4>1, <4>2
    <3> QED  BY <3>2, <3>3, <3>4
  <2>4. ASSUME NEW i \in 1 .. k + 1  PROVE FrameAt(s \o added, more, pos2, num2, i)
    <3>1. i \in 1 .. k \/ i = k + 1  OBVIOUS
    <3> QED  BY <3>1, <1>6, <1>7
  <2> HIDE DEF pos2, num2
  <2> QED  BY <2>1, <2>2, <2>3, <2>4 DEF Marked
<1> HIDE DEF pos2, num2
<1>9. \E p, m \in [0 .. k + 1 -> Nat] : Marked(s \o added, more, size, n, k + 1, p, m)
  BY <1>4, <1>8
<1>10. k + 1 \in Nat  OBVIOUS
<1> QED  BY <1>9, <1>10 DEF Layout

\* A reader takes the first d bytes away: a frame behind them stays one.
LEMMA FrameShift ==
    ASSUME NEW s \in Seq(Byte), NEW out \in Seq(Seq(Byte)),
           NEW d \in Nat, d <= Len(s),
           NEW pos, NEW num, NEW i, pos[i - 1] \in Nat, pos[i - 1] >= d,
           pos[i] \in Nat, FrameAt(s, out, pos, num, i),
           NEW pos2, NEW num2, NEW j,
           pos2[j] = pos[i] - d, pos2[j - 1] = pos[i - 1] - d,
           num2[j] = num[i], num2[j - 1] = num[i - 1]
    PROVE  FrameAt(SubSeq(s, d + 1, Len(s)), out, pos2, num2, j)
<1>0. PICK p \in Nat : p = pos[i - 1]  OBVIOUS
<1>1. PICK c \in Nat : c = pos[i - 1] - d /\ pos[i - 1] = c + d /\ pos2[j - 1] = c
  <2>1. p - d \in Nat /\ p = (p - d) + d  BY <1>0
  <2> QED  BY <1>0, <2>1
<1>2. PICK t : t = SubSeq(s, d + 1, Len(s))  OBVIOUS
<1>3. CASE /\ num[i] = num[i - 1]
           /\ pos[i] = pos[i - 1] + HEADER_SIZE
           /\ At(s, pos[i - 1], write_header(FLAG_KEEPALIVE, 0))
  <2>1. write_header(FLAG_KEEPALIVE, 0) \in Seq(Byte)  BY FlagBytes, HeaderType
  <2>2. At(t, c, write_header(FLAG_KEEPALIVE, 0))
    BY <1>1, <1>2, <1>3, <2>1, AtShift
  <2>3. pos2[j] = c + HEADER_SIZE  BY <1>1, <1>3 DEF HEADER_SIZE
  <2> QED  BY <1>1, <1>2, <1>3, <2>2, <2>3 DEF FrameAt
<1>4. CASE /\ num[i] = num[i - 1] + 1
           /\ num[i] \in 1 .. Len(out)
           /\ pos[i] = pos[i - 1] + HEADER_SIZE + Len(out[num[i]])
           /\ At(s, pos[i - 1], write_header(0, Len(out[num[i]])))
           /\ At(s, pos[i - 1] + HEADER_SIZE, out[num[i]])
  <2>1. PICK body \in Seq(Byte) : body = out[num[i]]  BY <1>4, ElementOfSeq
  <2>2. PICK l \in Nat : l = Len(body)  BY LenProperties
  <2>3. write_header(0, l) \in Seq(Byte)  BY <2>2, FlagBytes, HeaderType
  <2>4. At(s, c + d, write_header(0, l)) /\ At(s, (c + HEADER_SIZE) + d, body)
    <3>1. (c + HEADER_SIZE) + d = (c + d) + HEADER_SIZE  BY DEF HEADER_SIZE
    <3> QED  BY <1>1, <1>4, <2>1, <2>2, <3>1
  <2>5. At(t, c, write_header(0, l))  BY <1>2, <2>3, <2>4, AtShift
  <2>6. At(t, c + HEADER_SIZE, body)
    <3>1. c + HEADER_SIZE \in Nat  BY DEF HEADER_SIZE
    <3> QED  BY <1>2, <2>4, <3>1, AtShift
  <2>7. pos2[j] = c + HEADER_SIZE + l
    <3>1. pos[i] = (c + d) + HEADER_SIZE + l  BY <1>1, <1>4, <2>1, <2>2
    <3>2. ((c + d) + HEADER_SIZE + l) - d = c + HEADER_SIZE + l  BY DEF HEADER_SIZE
    <3> QED  BY <3>1, <3>2
  <2> QED  BY <1>1, <1>2, <1>4, <2>1, <2>2, <2>5, <2>6, <2>7 DEF FrameAt
<1> QED  BY <1>3, <1>4 DEF FrameAt

\* do_read_body: the body is taken, the frames behind it are left.
LEMMA BodyTaken ==
    ASSUME NEW s \in Seq(Byte), NEW out \in Seq(Seq(Byte)),
           NEW size \in Nat, NEW n \in Nat, size <= Len(s), Layout(s, out, size, n)
    PROVE  Layout(SubSeq(s, size + 1, Len(s)), out, 0, n)
<1>1. PICK k \in Nat : \E pos, num \in [0 .. k -> Nat] :
             Marked(s, out, size, n, k, pos, num)
  BY DEF Layout
<1>2. PICK pos \in [0 .. k -> Nat], num \in [0 .. k -> Nat] :
             Marked(s, out, size, n, k, pos, num)
  BY <1>1
<1> DEFINE t == SubSeq(s, size + 1, Len(s))
           pos2 == [i \in 0 .. k |-> pos[i] - size]
<1>3. \A i \in 0 .. k : pos[i] \in Nat /\ pos[i] >= size
  <2> TAKE i \in 0 .. k
  <2>1. pos[0] = size /\ (0 <= i => pos[0] <= pos[i])  BY <1>2 DEF Marked
  <2> QED  BY <2>1
<1>4. pos2 \in [0 .. k -> Nat]  BY <1>3
<1>5. Len(t) = Len(s) - size  OBVIOUS
<1>6. ASSUME NEW i \in 1 .. k  PROVE FrameAt(t, out, pos2, num, i)
  <2>1. FrameAt(s, out, pos, num, i)  BY <1>2 DEF Marked
  <2>2. i \in 0 .. k /\ i - 1 \in 0 .. k  OBVIOUS
  <2>3. pos2[i] = pos[i] - size /\ pos2[i - 1] = pos[i - 1] - size  BY <2>2
  <2>4. /\ pos[i - 1] \in Nat /\ pos[i - 1] >= size /\ pos[i] \in Nat
    BY <1>3, <2>2
  <2> HIDE DEF pos2
  <2> QED  BY <2>1, <2>3, <2>4, FrameShift
<1>7. pos2[0] = 0 /\ pos2[k] = Len(t)  BY <1>2, <1>5 DEF Marked
<1>8. num[0] = n /\ num[k] = Len(out)  BY <1>2 DEF Marked
<1>9. ASSUME NEW i \in 0 .. k, NEW j \in 0 .. k, i <= j  PROVE pos2[i] <= pos2[j]
  <2>1. pos[i] <= pos[j]  BY <1>2, <1>9 DEF Marked
  <2> QED  BY <1>3, <2>1
<1> HIDE DEF pos2, t
<1>10. Marked(t, out, 0, n, k, pos2, num)  BY <1>6, <1>7, <1>8, <1>9 DEF Marked
<1>11. Layout(t, out, 0, n)  BY <1>4, <1>10 DEF Layout
<1> QED  BY <1>11 DEF t

LEMMA SizeFits ==
    ASSUME NEW l \in 0 .. MAX_PAYLOAD_SIZE
    PROVE  l \in UInt32
<1>1. MAX_PAYLOAD_SIZE \in Nat /\ MAX_PAYLOAD_SIZE \div 65536 < 65536
  BY WireAssumption
<1>2. MAX_PAYLOAD_SIZE < 65536 * 65536  BY <1>1, SMT
<1> QED  BY <1>1, <1>2, SMT DEF UInt32

\* What the first header of a stream at a frame boundary announces, and what
\* is left when it has been read.
HeaderRead(s, t, out, n) ==
    LET header == decode_header(SubSeq(s, 1, HEADER_SIZE))
    IN  \/ header = Ok(FLAG_KEEPALIVE, 0) /\ Layout(t, out, 0, n)
        \/ /\ n < Len(out)
           /\ header = Ok(0, Len(out[n + 1]))
           /\ At(t, 0, out[n + 1])
           /\ Layout(t, out, Len(out[n + 1]), n + 1)

\* do_read_header, at a frame boundary, meets the header of a frame.
LEMMA HeaderTaken ==
    ASSUME NEW s \in Seq(Byte), NEW out \in Seq(Seq(Byte)),
           \A i \in 1 .. Len(out) : Len(out[i]) \in 1 .. MAX_PAYLOAD_SIZE,
           NEW n \in Nat, Layout(s, out, 0, n), Len(s) >= HEADER_SIZE
    PROVE  HeaderRead(s, SubSeq(s, HEADER_SIZE + 1, Len(s)), out, n)
<1>1. PICK k \in Nat : \E pos, num \in [0 .. k -> Nat] :
             Marked(s, out, 0, n, k, pos, num)
  BY DEF Layout
<1>2. PICK pos \in [0 .. k -> Nat], num \in [0 .. k -> Nat] :
             Marked(s, out, 0, n, k, pos, num)
  BY <1>1
<1> DEFINE t == SubSeq(s, HEADER_SIZE + 1, Len(s))
           h == SubSeq(s, 1, HEADER_SIZE)
           pos2 == [i \in 0 .. k - 1 |-> pos[i + 1] - HEADER_SIZE]
           num2 == [i \in 0 .. k - 1 |-> num[i + 1]]
<1>3. HEADER_SIZE \in Nat /\ HEADER_SIZE = 8  BY DEF HEADER_SIZE
<1>4. k >= 1
  <2>1. SUFFICES ASSUME k = 0 PROVE FALSE  OBVIOUS
  <2>2. pos[0] = 0 /\ pos[k] = Len(s)  BY <1>2 DEF Marked
  <2> QED  BY <2>1, <2>2, <1>3
<1>5. \A i \in 0 .. k : pos[i] \in Nat /\ num[i] \in Nat  OBVIOUS
<1>6. \A i \in 1 .. k : FrameAt(s, out, pos, num, i)  BY <1>2 DEF Marked
<1>7. pos[0] = 0 /\ num[0] = n /\ pos[k] = Len(s) /\ num[k] = Len(out)
  BY <1>2 DEF Marked
<1>8. pos[1] \in Nat /\ pos[1] >= HEADER_SIZE
  <2>1. FrameAt(s, out, pos, num, 1)  BY <1>4, <1>6
  <2>2. pos[1] \in Nat /\ pos[1 - 1] = 0  BY <1>4, <1>5, <1>7
  <2>3. CASE num[1] \in 1 .. Len(out) /\ pos[1] = pos[1 - 1] + HEADER_SIZE + Len(out[num[1]])
    <3>1. Len(out[num[1]]) \in Nat  BY <2>3, WireAssumption
    <3> QED  BY <3>1, <2>2, <2>3, <1>3
  <2>4. CASE pos[1] = pos[1 - 1] + HEADER_SIZE  BY <2>4, <2>2, <1>3
  <2> QED  BY <2>1, <2>3, <2>4 DEF FrameAt
<1>9. \A i \in 1 .. k : pos[i] >= HEADER_SIZE
  <2> TAKE i \in 1 .. k
  <2>1. 1 \in 0 .. k /\ i \in 0 .. k /\ 1 <= i  BY <1>4
  <2>2. pos[1] <= pos[i]  BY <1>2, <2>1 DEF Marked
  <2> QED  BY <1>3, <1>5, <1>8, <2>1, <2>2
<1>10. /\ pos2 \in [0 .. k - 1 -> Nat] /\ num2 \in [0 .. k - 1 -> Nat]
  <2>1. \A i \in 0 .. k - 1 : i + 1 \in 1 .. k /\ i + 1 \in 0 .. k  BY <1>4
  <2>2. \A i \in 0 .. k - 1 : pos[i + 1] - HEADER_SIZE \in Nat /\ num[i + 1] \in Nat
    BY <1>3, <1>5, <1>9, <2>1
  <2> QED  BY <2>2
<1>11. ASSUME NEW i \in 1 .. k - 1  PROVE FrameAt(t, out, pos2, num2, i)
  <2>1. /\ i + 1 \in 1 .. k /\ (i + 1) - 1 = i /\ (i - 1) + 1 = i
        /\ i \in 0 .. k - 1 /\ i - 1 \in 0 .. k - 1 /\ i \in 1 .. k
    BY <1>4
  <2>2. FrameAt(s, out, pos, num, i + 1)  BY <1>6, <2>1
  <2>3. /\ pos2[i] = pos[i + 1] - HEADER_SIZE
        /\ pos2[i - 1] = pos[(i + 1) - 1] - HEADER_SIZE
        /\ num2[i] = num[i + 1] /\ num2[i - 1] = num[(i + 1) - 1]
    BY <2>1
  <2>4. /\ pos[(i + 1) - 1] \in Nat /\ pos[(i + 1) - 1] >= HEADER_SIZE
        /\ pos[i + 1] \in Nat
    BY <1>5, <1>9, <2>1
  <2> HIDE DEF pos2, num2
  <2> QED  BY <1>3, <2>2, <2>3, <2>4, FrameShift
<1>12. Len(t) = Len(s) - HEADER_SIZE
  BY <1>3, RestLength
<1>13. ASSUME NEW size \in Nat, NEW m \in Nat, size = pos[1] - HEADER_SIZE, m = num[1]
       PROVE  Layout(t, out, size, m)
  <2>1. pos2[0] = size /\ num2[0] = m  BY <1>4, <1>13
  <2>2. pos2[k - 1] = Len(t) /\ num2[k - 1] = Len(out)
    <3>1. k - 1 \in 0 .. k - 1 /\ (k - 1) + 1 = k  BY <1>4
    <3>2. pos2[k - 1] = pos[k] - HEADER_SIZE /\ num2[k - 1] = num[k]  BY <3>1
    <3> HIDE DEF pos2, num2, t
    <3> QED  BY <1>7, <1>12, <3>2
  <2>3. ASSUME NEW i \in 0 .. k - 1, NEW j \in 0 .. k - 1, i <= j
        PROVE  pos2[i] <= pos2[j]
    <3>1. i + 1 \in 0 .. k /\ j + 1 \in 0 .. k /\ i + 1 <= j + 1  BY <1>4, <2>3
    <3>2. pos[i + 1] <= pos[j + 1]  BY <1>2, <3>1 DEF Marked
    <3> QED  BY <1>3, <1>5, <3>1, <3>2
  <2>4. k - 1 \in Nat  BY <1>4
  <2> HIDE DEF pos2, num2, t
  <2>5. Marked(t, out, size, m, k - 1, pos2, num2)
    BY <2>1, <2>2, <2>3, <1>11 DEF Marked
  <2> QED  BY <1>10, <2>4, <2>5 DEF Layout
<1>14. h \in Seq(Byte) /\ Len(h) = HEADER_SIZE  BY <1>3, RestLength
<1>15. FrameAt(s, out, pos, num, 1)  BY <1>4, <1>6
<1>16. pos[1 - 1] = 0 /\ num[1 - 1] = n /\ num[1] \in Nat  BY <1>4, <1>5, <1>7
<1>17. CASE /\ num[1] = num[1 - 1]
            /\ pos[1] = pos[1 - 1] + HEADER_SIZE
            /\ At(s, pos[1 - 1], write_header(FLAG_KEEPALIVE, 0))
  <2>1. /\ write_header(FLAG_KEEPALIVE, 0) \in Seq(Byte)
        /\ Len(write_header(FLAG_KEEPALIVE, 0)) = HEADER_SIZE
    BY FlagBytes, HeaderLength
  <2>2. h = write_header(FLAG_KEEPALIVE, 0)  BY <1>16, <1>17, <2>1, AtStart
  <2>3. 0 \in UInt32 /\ Legal(FLAG_KEEPALIVE, 0)  BY SMT DEF UInt32, Legal
  <2>4. decode_header(h) = Ok(FLAG_KEEPALIVE, 0)  BY <2>2, <2>3, FlagBytes, RoundTrip
  <2>5. 0 = pos[1] - HEADER_SIZE /\ n = num[1]  BY <1>3, <1>16, <1>17
  <2>6. Layout(t, out, 0, n)  BY <1>13, <2>5
  <2> QED  BY <2>4, <2>6 DEF HeaderRead
<1>18. CASE /\ num[1] = num[1 - 1] + 1
            /\ num[1] \in 1 .. Len(out)
            /\ pos[1] = pos[1 - 1] + HEADER_SIZE + Len(out[num[1]])
            /\ At(s, pos[1 - 1], write_header(0, Len(out[num[1]])))
            /\ At(s, pos[1 - 1] + HEADER_SIZE, out[num[1]])
  <2>1. num[1] = n + 1 /\ n < Len(out) /\ n + 1 \in 1 .. Len(out)  BY <1>16, <1>18
  <2>2. PICK body \in Seq(Byte) : body = out[n + 1]  BY <2>1, ElementOfSeq
  <2>3. PICK l \in 1 .. MAX_PAYLOAD_SIZE : l = Len(body)  BY <2>1, <2>2
  <2>4. l \in Nat /\ l \in UInt32 /\ Legal(0, l)
    <3>1. MAX_PAYLOAD_SIZE \in Nat  BY WireAssumption
    <3>2. l \in 0 .. MAX_PAYLOAD_SIZE  BY <3>1
    <3> QED  BY <3>1, <3>2, SizeFits DEF Legal
  <2>5. /\ write_header(0, l) \in Seq(Byte)
        /\ Len(write_header(0, l)) = HEADER_SIZE
    BY <2>4, FlagBytes, HeaderLength
  <2>6. At(s, 0, write_header(0, l)) /\ At(s, 0 + HEADER_SIZE, body)
    BY <1>16, <1>18, <2>1, <2>2, <2>3
  <2>7. h = write_header(0, l)  BY <2>5, <2>6, AtStart
  <2>8. decode_header(h) = Ok(0, l)  BY <2>4, <2>7, FlagBytes, RoundTrip
  <2>9. At(t, 0, body)  BY <1>3, <2>6, AtShift
  <2>10. l = pos[1] - HEADER_SIZE  BY <1>3, <1>16, <1>18, <2>1, <2>2, <2>3, <2>4
  <2>11. Layout(t, out, l, n + 1)  BY <1>13, <2>1, <2>4, <2>10
  <2> QED  BY <2>1, <2>2, <2>3, <2>8, <2>9, <2>11 DEF HeaderRead
<1> QED  BY <1>15, <1>17, <1>18 DEF FrameAt

\* An honest sender's payloads, and how far the reader has got: at a frame
\* boundary, or in front of the body of the next payload.
FramedInv ==
    honest =>
        /\ ~closed
        /\ sent \in Seq(Seq(Byte))
        /\ \A i \in 1 .. Len(sent) : Len(sent[i]) \in 1 .. MAX_PAYLOAD_SIZE
        /\ Len(received) <= Len(sent)
        /\ \A i \in 1 .. Len(received) : received[i] = sent[i]
        /\ \/ /\ body_size = 0
              /\ Layout(stream, sent, 0, Len(received))
           \/ /\ Len(received) < Len(sent)
              /\ body_size = Len(sent[Len(received) + 1])
              /\ At(stream, 0, sent[Len(received) + 1])
              /\ Layout(stream, sent, body_size, Len(received) + 1)

\* build_data_frame or build_keepalive_frame.
LEMMA TransmitFramed ==
    ASSUME ReaderInv, FramedInv, honest,
           NEW added \in Seq(Byte), NEW out \in Seq(Seq(Byte)),
           async_write(added), sent' = out,
           \/ out = sent /\ added = write_header(FLAG_KEEPALIVE, 0)
           \/ \E payload \in Seq(Byte) :
                /\ Len(payload) \in 1 .. MAX_PAYLOAD_SIZE
                /\ out = Append(sent, payload)
                /\ added = build_frame(0, payload)
    PROVE  FramedInv'
<1>1. /\ ~closed /\ sent \in Seq(Seq(Byte))
      /\ \A i \in 1 .. Len(sent) : Len(sent[i]) \in 1 .. MAX_PAYLOAD_SIZE
      /\ Len(received) <= Len(sent)
      /\ \A i \in 1 .. Len(received) : received[i] = sent[i]
  BY DEF FramedInv
<1>2. /\ stream \in Seq(Byte) /\ received \in Seq(Seq(Byte)) /\ body_size \in Nat
      /\ Len(received) \in Nat
  BY WireAssumption DEF ReaderInv
<1>3. /\ UNCHANGED <<honest, body_size, received, closed>>
      /\ stream' = stream \o added
  BY DEF async_write
<1>4. /\ Len(out) >= Len(sent)
      /\ \A i \in 1 .. Len(sent) : out[i] = sent[i]
      /\ \A i \in 1 .. Len(out) : Len(out[i]) \in 1 .. MAX_PAYLOAD_SIZE
  <2>1. CASE out = sent  BY <1>1, <2>1
  <2>2. ASSUME NEW payload \in Seq(Byte), Len(payload) \in 1 .. MAX_PAYLOAD_SIZE,
               out = Append(sent, payload)
        PROVE  /\ Len(out) >= Len(sent)
               /\ \A i \in 1 .. Len(sent) : out[i] = sent[i]
               /\ \A i \in 1 .. Len(out) : Len(out[i]) \in 1 .. MAX_PAYLOAD_SIZE
    <3>1. /\ Len(out) = Len(sent) + 1 /\ out[Len(sent) + 1] = payload
          /\ \A i \in 1 .. Len(sent) : out[i] = sent[i]
      BY <1>1, <2>2, AppendProperties
    <3>2. ASSUME NEW i \in 1 .. Len(out)
          PROVE  Len(out[i]) \in 1 .. MAX_PAYLOAD_SIZE
      <4>1. i \in 1 .. Len(sent) \/ i = Len(sent) + 1  BY <1>1, <3>1
      <4> QED  BY <1>1, <2>2, <3>1, <4>1
    <3> QED  BY <1>1, <3>1, <3>2
  <2> QED  BY <2>1, <2>2
<1>5. ASSUME NEW size \in Nat, NEW n \in Nat, Layout(stream, sent, size, n)
      PROVE  Layout(stream', out, size, n)
  BY <1>1, <1>2, <1>3, <1>5, MoreFrames
<1>6. /\ Len(received) <= Len(out)
      /\ \A i \in 1 .. Len(received) : received[i] = out[i]
  <2>1. Len(received) \in Nat /\ Len(sent) \in Nat /\ Len(out) \in Nat  BY <1>1, <1>2
  <2> QED  BY <1>1, <1>4, <2>1
<1>7. \/ /\ body_size = 0
         /\ Layout(stream', out, 0, Len(received))
      \/ /\ Len(received) < Len(out)
         /\ body_size = Len(out[Len(received) + 1])
         /\ At(stream', 0, out[Len(received) + 1])
         /\ Layout(stream', out, body_size, Len(received) + 1)
  <2>1. CASE body_size = 0 /\ Layout(stream, sent, 0, Len(received))
    BY <1>2, <1>5, <2>1
  <2>2. CASE /\ Len(received) < Len(sent)
             /\ body_size = Len(sent[Len(received) + 1])
             /\ At(stream, 0, sent[Len(received) + 1])
             /\ Layout(stream, sent, body_size, Len(received) + 1)
    <3>1. /\ Len(received) + 1 \in 1 .. Len(sent) /\ Len(received) + 1 \in Nat
          /\ Len(received) < Len(out)
      <4>1. Len(sent) \in Nat /\ Len(out) \in Nat  BY <1>1
      <4>2. Len(received) \in Nat /\ Len(received) < Len(sent) /\ Len(out) >= Len(sent)
        BY <1>2, <1>4, <2>2
      <4> QED  BY ONLY <4>1, <4>2
    <3>2. PICK body \in Seq(Byte) : body = sent[Len(received) + 1]
      BY <1>1, <3>1, ElementOfSeq
    <3>3. out[Len(received) + 1] = body  BY <1>4, <3>1, <3>2
    <3>4. At(stream', 0, body)  BY <1>2, <1>3, <2>2, <3>2, AtAppend
    <3>5. Layout(stream', out, body_size, Len(received) + 1)
      BY <1>2, <1>5, <2>2, <3>1
    <3> QED  BY <2>2, <3>1, <3>2, <3>3, <3>4, <3>5
  <2> QED  BY <2>1, <2>2 DEF FramedInv
<1> QED  BY <1>1, <1>3, <1>4, <1>6, <1>7 DEF FramedInv

LEMMA ReadHeaderFramed ==
    ASSUME ReaderInv, FramedInv, honest, ReadHeader
    PROVE  FramedInv'
<1>1. /\ ~closed /\ sent \in Seq(Seq(Byte))
      /\ \A i \in 1 .. Len(sent) : Len(sent[i]) \in 1 .. MAX_PAYLOAD_SIZE
      /\ Len(received) <= Len(sent)
      /\ \A i \in 1 .. Len(received) : received[i] = sent[i]
  BY DEF FramedInv
<1>2. /\ stream \in Seq(Byte) /\ Len(received) \in Nat  BY DEF ReaderInv
<1>3. Layout(stream, sent, 0, Len(received))
  <2>1. body_size = 0  BY DEF ReadHeader
  <2>2. ASSUME Len(received) < Len(sent), body_size = Len(sent[Len(received) + 1])
        PROVE  FALSE
    <3>1. Len(received) + 1 \in 1 .. Len(sent)  BY <1>1, <1>2, <2>2
    <3>2. Len(sent[Len(received) + 1]) \in 1 .. MAX_PAYLOAD_SIZE  BY <1>1, <3>1
    <3> QED  BY <2>1, <2>2, <3>2, WireAssumption
  <2> QED  BY <2>2 DEF FramedInv
<1>4. PICK t : t = SubSeq(stream, HEADER_SIZE + 1, Len(stream))  OBVIOUS
<1>5. PICK header : header = decode_header(SubSeq(stream, 1, HEADER_SIZE))  OBVIOUS
<1>6. /\ Len(stream) >= HEADER_SIZE /\ stream' = t
      /\ UNCHANGED <<honest, sent, received>>
      /\ \/ header.error # "none"
         \/ /\ header.error = "none"
            /\ body_size' = IF is_keepalive(header.flags) THEN 0 ELSE header.payload_size
            /\ UNCHANGED closed
  BY <1>4, <1>5 DEF ReadHeader
<1>7. HeaderRead(stream, t, sent, Len(received))
  BY <1>1, <1>2, <1>3, <1>4, <1>6, HeaderTaken
<1>8. CASE header = Ok(FLAG_KEEPALIVE, 0) /\ Layout(t, sent, 0, Len(received))
  <2>1. header.error = "none" /\ header.flags = 1  BY <1>8 DEF Ok, FLAG_KEEPALIVE
  <2>2. is_keepalive(1)  BY DEF is_keepalive, FLAG_KEEPALIVE
  <2>3. body_size' = 0 /\ UNCHANGED closed  BY <1>6, <2>1, <2>2
  <2> QED  BY <1>1, <1>6, <1>8, <2>3 DEF FramedInv
<1>9. CASE /\ Len(received) < Len(sent)
           /\ header = Ok(0, Len(sent[Len(received) + 1]))
           /\ At(t, 0, sent[Len(received) + 1])
           /\ Layout(t, sent, Len(sent[Len(received) + 1]), Len(received) + 1)
  <2>1. /\ header.error = "none" /\ header.flags = 0
        /\ header.payload_size = Len(sent[Len(received) + 1])
    BY <1>9 DEF Ok
  <2>2. ~is_keepalive(0)  BY DEF is_keepalive, FLAG_KEEPALIVE
  <2>3. body_size' = Len(sent[Len(received) + 1]) /\ UNCHANGED closed
    BY <1>6, <2>1, <2>2
  <2> QED  BY <1>1, <1>6, <1>9, <2>3 DEF FramedInv
<1> QED  BY <1>5, <1>7, <1>8, <1>9 DEF HeaderRead

LEMMA ReadBodyFramed ==
    ASSUME ReaderInv, FramedInv, honest, ReadBody
    PROVE  FramedInv'
<1>1. /\ ~closed /\ sent \in Seq(Seq(Byte))
      /\ \A i \in 1 .. Len(sent) : Len(sent[i]) \in 1 .. MAX_PAYLOAD_SIZE
      /\ \A i \in 1 .. Len(received) : received[i] = sent[i]
  BY DEF FramedInv
<1>2. /\ stream \in Seq(Byte) /\ received \in Seq(Seq(Byte)) /\ Len(received) \in Nat
      /\ body_size \in Nat /\ body_size > 0 /\ body_size <= Len(stream)
  BY WireAssumption DEF ReaderInv, ReadBody
<1>3. /\ Len(received) < Len(sent)
      /\ body_size = Len(sent[Len(received) + 1])
      /\ At(stream, 0, sent[Len(received) + 1])
      /\ Layout(stream, sent, body_size, Len(received) + 1)
  BY <1>2 DEF FramedInv
<1>4. /\ Len(received) + 1 \in 1 .. Len(sent) /\ Len(received) + 1 \in Nat
  BY <1>1, <1>2, <1>3
<1>5. PICK body \in Seq(Byte) : body = sent[Len(received) + 1]
  BY <1>1, <1>4, ElementOfSeq
<1>6. SubSeq(stream, 1, body_size) = body  BY <1>2, <1>3, <1>5, AtStart
<1>7. /\ received' = Append(received, body) /\ body_size' = 0
      /\ stream' = SubSeq(stream, body_size + 1, Len(stream))
      /\ UNCHANGED <<honest, sent, closed>>
  BY <1>6 DEF ReadBody
<1>8. /\ Len(received') = Len(received) + 1
      /\ received'[Len(received) + 1] = body
      /\ \A i \in 1 .. Len(received) : received'[i] = received[i]
  BY <1>2, <1>7, AppendProperties
<1>9. Layout(stream', sent, 0, Len(received) + 1)
  BY <1>1, <1>2, <1>3, <1>4, <1>7, BodyTaken
<1>10. ASSUME NEW i \in 1 .. Len(received')  PROVE received'[i] = sent[i]
  <2>1. i \in 1 .. Len(received) \/ i = Len(received) + 1  BY <1>2, <1>8
  <2> QED  BY <1>1, <1>5, <1>8, <2>1
<1>11. Len(received') <= Len(sent)  BY <1>4, <1>8
<1>12. Layout(stream', sent', 0, Len(received'))  BY <1>7, <1>8, <1>9
<1> QED  BY <1>1, <1>7, <1>10, <1>11, <1>12 DEF FramedInv

\* A Session and a Client never cut off a peer that frames with write_header,
\* and hand up exactly its payloads, whole and in order, for every sequence of
\* payloads of every bytes (also ones that read as headers), keepalives in
\* between, and every division of the bytes into reads.
THEOREM FramesRecoveredTheorem == WireSpec => []FramesRecovered
<1>1. WireInit => ReaderInv /\ FramedInv
  <2> SUFFICES ASSUME WireInit PROVE ReaderInv /\ FramedInv  OBVIOUS
  <2>1. MAX_PAYLOAD_SIZE \in Nat  BY WireAssumption
  <2>2. ReaderInv  BY <2>1 DEF WireInit, ReaderInv
  <2>3. Marked(<<>>, <<>>, 0, 0, 0, [i \in 0 .. 0 |-> 0], [i \in 0 .. 0 |-> 0])
    BY DEF Marked
  <2>4. [i \in 0 .. 0 |-> 0] \in [0 .. 0 -> Nat]  OBVIOUS
  <2>5. Layout(<<>>, <<>>, 0, 0)  BY <2>3, <2>4, FlagBytes DEF Layout
  <2> QED  BY <2>2, <2>5 DEF WireInit, FramedInv
<1>2. ReaderInv /\ FramedInv /\ [WireNext]_wireVars => FramedInv'
  <2> SUFFICES ASSUME ReaderInv, FramedInv, [WireNext]_wireVars PROVE FramedInv'
    OBVIOUS
  <2>1. honest' = honest
    BY DEF WireNext, wireVars, build_data_frame, build_keepalive_frame,
           ForeignFrame, async_write, ReadHeader, ReadBody
  <2>2. CASE ~honest  BY <2>1, <2>2 DEF FramedInv
  <2>3. CASE honest
    <3>1. ASSUME NEW payload \in Payloads, build_data_frame(payload)
          PROVE  FramedInv'
      <4>1. payload \in Seq(Byte) /\ MAX_PAYLOAD_SIZE \in Nat  BY WireAssumption
      <4>2. Len(payload) \in 1 .. MAX_PAYLOAD_SIZE
        BY <3>1, <4>1 DEF build_data_frame, Admissible
      <4>3. build_frame(0, payload) \in Seq(Byte)  BY <4>1, FlagBytes, FrameType
      <4>4. sent \in Seq(Seq(Byte))  BY <2>3 DEF FramedInv
      <4>5. Append(sent, payload) \in Seq(Seq(Byte))  BY <4>1, <4>4
      <4> QED
        BY <2>3, <3>1, <4>1, <4>2, <4>3, <4>5, TransmitFramed DEF build_data_frame
    <3>2. CASE build_keepalive_frame
      <4>1. PICK h \in Seq(Byte) : h = write_header(FLAG_KEEPALIVE, 0)
        BY FlagBytes, HeaderType
      <4>2. build_frame(FLAG_KEEPALIVE, <<>>) = h
        <5>1. Len(<<>>) = 0  OBVIOUS
        <5>2. h \o <<>> = h  OBVIOUS
        <5> QED  BY <4>1, <5>1, <5>2 DEF build_frame
      <4>3. sent \in Seq(Seq(Byte))  BY <2>3 DEF FramedInv
      <4>4. async_write(h) /\ sent' = sent  BY <3>2, <4>2 DEF build_keepalive_frame
      <4> QED  BY <2>3, <4>1, <4>3, <4>4, TransmitFramed
    <3>3. ASSUME NEW h \in ForeignHeaders, ForeignFrame(h)  PROVE FALSE
      BY <2>3, <3>3 DEF ForeignFrame
    <3>4. CASE ReadHeader  BY <2>3, <3>4, ReadHeaderFramed
    <3>5. CASE ReadBody  BY <2>3, <3>5, ReadBodyFramed
    <3>6. CASE UNCHANGED wireVars  BY <3>6 DEF wireVars, FramedInv
    <3> QED  BY <3>1, <3>2, <3>3, <3>4, <3>5, <3>6 DEF WireNext
  <2> QED  BY <2>2, <2>3
<1>3. ReaderInv /\ FramedInv => FramesRecovered
  <2> SUFFICES ASSUME ReaderInv, FramedInv, honest
               PROVE  /\ ~closed /\ IsPrefix(received, sent)
                      /\ stream = <<>> /\ body_size = 0 => received = sent
    BY DEF FramesRecovered
  <2>1. /\ ~closed /\ sent \in Seq(Seq(Byte)) /\ received \in Seq(Seq(Byte))
        /\ Len(received) <= Len(sent)
        /\ \A i \in 1 .. Len(received) : received[i] = sent[i]
    BY DEF FramedInv, ReaderInv
  <2>2. IsPrefix(received, sent)
    <3>1. PICK a : a = SubSeq(received, 1, Len(received))  OBVIOUS
    <3>2. PICK b : b = SubSeq(sent, 1, Len(received))  OBVIOUS
    <3>3. /\ a \in Seq(Seq(Byte)) /\ Len(a) = Len(received)
          /\ \A i \in 1 .. Len(a) : a[i] = received[i]
      BY <2>1, <3>1
    <3>4. /\ b \in Seq(Seq(Byte)) /\ Len(b) = Len(received)
          /\ \A i \in 1 .. Len(b) : b[i] = sent[i]
      BY <2>1, <3>2
    <3>5. a = b  BY <2>1, <3>3, <3>4, SeqEqual
    <3> QED  BY <2>1, <3>1, <3>2, <3>5 DEF IsPrefix
  <2>3. ASSUME stream = <<>>, body_size = 0  PROVE received = sent
    <3>1. Layout(stream, sent, 0, Len(received))
      <4>1. ASSUME Len(received) < Len(sent), body_size = Len(sent[Len(received) + 1])
            PROVE  FALSE
        <5>1. Len(received) + 1 \in 1 .. Len(sent)  BY <2>1, <4>1
        <5>2. Len(sent[Len(received) + 1]) \in 1 .. MAX_PAYLOAD_SIZE
          BY <5>1 DEF FramedInv
        <5> QED  BY <2>3, <4>1, <5>2, WireAssumption
      <4> QED  BY <4>1 DEF FramedInv
    <3>2. PICK k \in Nat : \E pos, num \in [0 .. k -> Nat] :
                 Marked(stream, sent, 0, Len(received), k, pos, num)
      BY <3>1 DEF Layout
    <3>3. PICK pos \in [0 .. k -> Nat], num \in [0 .. k -> Nat] :
                 Marked(stream, sent, 0, Len(received), k, pos, num)
      BY <3>2
    <3>4. k = 0
      <4>1. SUFFICES ASSUME k # 0 PROVE FALSE  OBVIOUS
      <4>2. k \in 1 .. k /\ k - 1 \in 0 .. k /\ k \in 0 .. k  BY <4>1
      <4>3. pos[k] = 0  BY <2>3, <3>3 DEF Marked
      <4>4. pos[k - 1] \in Nat  BY <4>2
      <4>5. FrameAt(stream, sent, pos, num, k)  BY <3>3, <4>2 DEF Marked
      <4>6. CASE pos[k] = pos[k - 1] + HEADER_SIZE
        BY <4>3, <4>4, <4>6 DEF HEADER_SIZE
      <4>7. CASE At(stream, pos[k - 1] + HEADER_SIZE, sent[num[k]]) /\ num[k] \in 1 .. Len(sent)
        <5>1. sent[num[k]] \in Seq(Byte)  BY <2>1, <4>7, ElementOfSeq
        <5>2. Len(sent[num[k]]) \in Nat  BY <5>1, LenProperties
        <5>3. pos[k - 1] + HEADER_SIZE + Len(sent[num[k]]) <= 0
          BY <2>3, <4>7 DEF At
        <5>4. PICK a \in Nat : a = pos[k - 1]  BY <4>4
        <5>5. PICK b \in Nat : b = Len(sent[num[k]])  BY <5>2
        <5>6. a + 8 + b <= 0  BY <5>3, <5>4, <5>5 DEF HEADER_SIZE
        <5> QED  BY <5>6
      <4> QED  BY <4>5, <4>6, <4>7 DEF FrameAt
    <3>5. Len(received) = Len(sent)  BY <3>3, <3>4 DEF Marked
    <3> QED  BY <2>1, <3>5, SeqEqual
  <2> QED  BY <2>1, <2>2, <2>3
<1>4. ReaderInv /\ [WireNext]_wireVars => ReaderInv'  BY ReaderStep
<1> QED  BY <1>1, <1>2, <1>3, <1>4, PTL DEF WireSpec

-----------------------------------------------------------------------------
(* Heartbeats.                                                             *)

\* A client that connects waits in connect(); a connection that is not yet
\* accepted waits at the listening socket, and its client has heard nothing.
Phases ==
    /\ state["client"] = "none" =>
         /\ state["server"] = "none" /\ ~cut
         /\ wait <= MaxConnect /\ age["client"] = wait
    /\ state["client"] # "none" /\ state["server"] = "none" =>
         /\ wait <= MaxAccept
         /\ silent <= wait
         /\ age["client"] <= MaxConnect + wait
    /\ state["server"] = "none" => flight["client"] = {}

\* The timer of an open end is never overdue, and its last check passed.
Armed ==
    \A e \in End : state[e] = "open" =>
        /\ since[e] <= HEARTBEAT_INTERVAL + MaxLag
        /\ age[e] < HEARTBEAT_TIMEOUT + since[e]

\* No frame arrives after the cut, so an end has heard nothing since.
Silence ==
    /\ cut => \A e \in End : flight[e] = {}
    /\ ~cut => silent = 0
    /\ \A e \in End : state[e] = "open" => silent <= age[e] + MaxAccept

Basic == HeartbeatTypeOK /\ Phases /\ Armed /\ Silence

LEMMA Constants ==
    /\ HEARTBEAT_INTERVAL \in Nat /\ HEARTBEAT_INTERVAL > 0
    /\ HEARTBEAT_TIMEOUT \in Nat /\ MaxConnect < HEARTBEAT_TIMEOUT
    /\ MaxConnect \in Nat /\ MaxAccept \in Nat /\ MaxLag \in Nat /\ MaxDelay \in Nat
    /\ Noticed \in Nat
  BY HeartbeatAssumption, SMT DEF Noticed

LEMMA Ends ==
    /\ "client" \in End /\ "server" \in End
    /\ Peer("client") = "server" /\ Peer("server") = "client"
    /\ \A e \in End : Peer(e) \in End /\ Peer(e) # e /\ Peer(Peer(e)) = e
    /\ \A e \in End : e = "client" \/ e = "server"
  BY DEF End, Peer

LEMMA InitBasic == Init => Basic
<1> SUFFICES ASSUME Init PROVE Basic  OBVIOUS
<1>1. HeartbeatTypeOK  BY DEF Init, HeartbeatTypeOK
<1>2. Phases  BY Constants, Ends DEF Init, Phases
<1>3. Armed  BY DEF Init, Armed
<1>4. Silence  BY Constants DEF Init, Silence
<1> QED  BY <1>1, <1>2, <1>3, <1>4 DEF Basic

\* What an action that sends does to the frames in flight.
LEMMA TransmitType ==
    ASSUME HeartbeatTypeOK, NEW e \in End, Transmit(e)
    PROVE  /\ flight' \in [End -> SUBSET (0 .. MaxDelay)]
           /\ cut => flight' = flight
           /\ ~cut => flight'[Peer(e)] = flight[Peer(e)] \union {MaxDelay}
           /\ flight'[e] = flight[e]
<1>1. MaxDelay \in 0 .. MaxDelay  BY Constants
<1>2. flight \in [End -> SUBSET (0 .. MaxDelay)]  BY DEF HeartbeatTypeOK
<1>3. Peer(e) \in End /\ Peer(e) # e  BY Ends
<1> QED  BY <1>1, <1>2, <1>3 DEF Transmit

LEMMA StepBasic == Basic /\ [Next]_vars => Basic'
<1> SUFFICES ASSUME Basic, [Next]_vars PROVE Basic'  OBVIOUS
<1> USE Constants, Ends
<1>1. CASE Connected
  <2>1. HeartbeatTypeOK'  BY <1>1 DEF Connected, Basic, HeartbeatTypeOK
  <2>2. state' = [state EXCEPT !["client"] = "open"] /\ state["client"] = "none"
        /\ state["server"] = "none" /\ UNCHANGED <<age, flight, cut, silent>>
        /\ wait' = 0 /\ since' = [since EXCEPT !["client"] = 0] /\ ~cut /\ silent = 0
    BY <1>1 DEF Connected, Basic, Phases, Silence
  <2>3. state'["client"] = "open" /\ state'["server"] = "none" /\ since'["client"] = 0
    BY <2>2 DEF Basic, HeartbeatTypeOK
  <2>4. age["client"] \in Nat /\ age["client"] <= MaxConnect
    BY <1>1 DEF Connected, Basic, HeartbeatTypeOK, Phases
  <2>5. flight["client"] = {}
    BY <1>1 DEF Connected, Basic, Phases
  <2>6. Phases'  BY <2>2, <2>3, <2>4, <2>5, SMT DEF Phases
  <2>7. Armed'  BY <2>2, <2>3, <2>4, SMT DEF Armed
  <2>8. Silence'  BY <2>2, <2>3, <2>4, SMT DEF Silence
  <2> QED  BY <2>1, <2>6, <2>7, <2>8 DEF Basic
<1>2. CASE Accept
  <2>1. HeartbeatTypeOK'  BY <1>2 DEF Accept, Basic, HeartbeatTypeOK
  <2>2. /\ state'["client"] = state["client"] /\ state["client"] # "none"
        /\ state'["server"] = "open" /\ since'["server"] = 0 /\ age'["server"] = 0
        /\ since'["client"] = since["client"] /\ age'["client"] = age["client"]
        /\ UNCHANGED <<flight, cut, silent>>
    BY <1>2 DEF Accept, Basic, HeartbeatTypeOK
  <2>3. silent <= MaxAccept
    BY <1>2, SMT DEF Accept, Basic, HeartbeatTypeOK, Phases
  <2>4. Phases'  BY <2>2 DEF Phases
  <2>5. Armed'  BY <2>2, SMT DEF Armed, Basic
  <2>6. Silence'  BY <2>2, <2>3, SMT DEF Silence, Basic
  <2> QED  BY <2>1, <2>4, <2>5, <2>6 DEF Basic
<1>3. CASE Cut
  <2>1. HeartbeatTypeOK'  BY <1>3 DEF Cut, Basic, HeartbeatTypeOK
  <2>2. Phases'  BY <1>3 DEF Cut, Basic, Phases
  <2>3. Armed'  BY <1>3 DEF Cut, Basic, Armed
  <2>4. Silence'  BY <1>3 DEF Cut, Basic, Silence
  <2> QED  BY <2>1, <2>2, <2>3, <2>4 DEF Basic
<1>4. CASE Tick
  <2>1. HeartbeatTypeOK'
    <3>1. /\ wait' \in Nat /\ silent' \in Nat
          /\ state' \in [End -> {"none", "open", "timeout", "closed"}]
          /\ cut' \in BOOLEAN
          /\ since' \in [End -> Nat] /\ age' \in [End -> Nat]
      BY <1>4 DEF Tick, Basic, HeartbeatTypeOK
    <3>2. ASSUME NEW e \in End
          PROVE  {IF l > 0 THEN l - 1 ELSE 0 : l \in flight[e]} \in SUBSET (0 .. MaxDelay)
      <4>1. \A l \in flight[e] : l \in 0 .. MaxDelay
        BY DEF Basic, HeartbeatTypeOK
      <4> QED  BY <4>1, SMT
    <3>3. flight' \in [End -> SUBSET (0 .. MaxDelay)]
      BY <1>4, <3>2 DEF Tick
    <3> QED  BY <3>1, <3>3 DEF HeartbeatTypeOK
  <2>2. Phases'
    <3>1. /\ state' = state /\ cut' = cut
          /\ state["server"] = "none" => wait' = wait + 1
          /\ silent' \in Nat /\ silent' <= silent + 1
          /\ ~cut => silent' = silent
          /\ state["client"] = "none" => age'["client"] = age["client"] + 1
          /\ age'["client"] <= age["client"] + 1
          /\ age'["client"] \in Nat
      BY <1>4, SMT DEF Tick, Basic, HeartbeatTypeOK
    <3>2. state["client"] = "none" => wait < MaxConnect
      BY <1>4 DEF Tick, MayPass
    <3>3. state["client"] # "none" /\ state["server"] = "none" => wait < MaxAccept
      BY <1>4 DEF Tick, MayPass
    <3>4. flight["client"] = {} => flight'["client"] = {}  BY <1>4 DEF Tick
    <3> QED  BY <3>1, <3>2, <3>3, <3>4, SMT DEF Basic, HeartbeatTypeOK, Phases
  <2>3. ASSUME NEW e \in End, state[e] = "open"
        PROVE  /\ since'[e] = since[e] + 1 /\ age'[e] = age[e] + 1
               /\ since[e] \in Nat /\ age[e] \in Nat
               /\ since[e] < HEARTBEAT_INTERVAL + MaxLag
    BY <1>4, <2>3 DEF Tick, MayPass, Basic, HeartbeatTypeOK
  <2>4. state' = state /\ cut' = cut  BY <1>4 DEF Tick
  <2>5. Armed'  BY <2>3, <2>4, SMT DEF Armed, Basic
  <2>6. Silence'
    <3>1. cut => \A e \in End : flight'[e] = {}  BY <1>4 DEF Tick, Basic, Silence
    <3>2. /\ ~cut => silent' = silent
          /\ silent' <= silent + 1 /\ silent' \in Nat /\ silent \in Nat
      BY <1>4, SMT DEF Tick, Basic, HeartbeatTypeOK
    <3>3. ASSUME NEW e \in End, state[e] = "open"
          PROVE  silent' <= age'[e] + MaxAccept
      <4>1. silent <= age[e] + MaxAccept  BY <3>3 DEF Basic, Silence
      <4> QED  BY <4>1, <3>2, <3>3, <2>3, SMT
    <3> QED  BY <3>1, <3>2, <3>3, <2>4 DEF Basic, Silence
  <2> QED  BY <2>1, <2>2, <2>5, <2>6 DEF Basic
<1>5. ASSUME NEW e \in End, Heartbeat(e)
      PROVE  Basic'
  <2>0. Basic /\ HeartbeatTypeOK  BY DEF Basic
  <2>1. CASE age[e] >= HEARTBEAT_TIMEOUT
    <3>1. /\ state' = [state EXCEPT ![e] = "timeout"] /\ state[e] = "open"
          /\ UNCHANGED <<wait, since, age, flight, cut, silent>>
      BY <1>5, <2>0, <2>1, SMT DEF Heartbeat, HeartbeatTypeOK
    <3>2. HeartbeatTypeOK'  BY <2>0, <3>1 DEF HeartbeatTypeOK
    <3>3. \A f \in End : (state'[f] = "open" => state[f] = "open")
                         /\ (state'[f] = "none" <=> state[f] = "none")
      BY <2>0, <3>1 DEF HeartbeatTypeOK
    <3>4. Phases' /\ Armed' /\ Silence'
      BY <3>1, <3>3 DEF Basic, Phases, Armed, Silence
    <3> QED  BY <3>2, <3>4 DEF Basic
  <2>2. CASE age[e] < HEARTBEAT_TIMEOUT
    <3>1. /\ Transmit(e) /\ state[e] = "open"
          /\ since' = [since EXCEPT ![e] = 0]
          /\ UNCHANGED <<state, wait, age, cut, silent>>
      BY <1>5, <2>0, <2>2, SMT DEF Heartbeat, HeartbeatTypeOK
    <3>2. HeartbeatTypeOK'  BY <2>0, <3>1, TransmitType DEF HeartbeatTypeOK
    <3>3. Phases'  BY <2>0, <3>1, TransmitType DEF Basic, Phases
    <3>4. Armed'  BY <2>0, <2>2, <3>1, SMT DEF Basic, HeartbeatTypeOK, Armed
    <3>5. Silence'  BY <2>0, <3>1, TransmitType DEF Basic, Silence
    <3> QED  BY <3>2, <3>3, <3>4, <3>5 DEF Basic
  <2> QED  BY <2>0, <2>1, <2>2, SMT DEF HeartbeatTypeOK
<1>6. ASSUME NEW e \in End, SendData(e)
      PROVE  Basic'
  <2>0. Basic /\ HeartbeatTypeOK  BY DEF Basic
  <2>1. /\ Transmit(e) /\ state[e] = "open"
        /\ UNCHANGED <<state, wait, since, age, cut, silent>>
    BY <1>6 DEF SendData
  <2>2. HeartbeatTypeOK'  BY <2>0, <2>1, TransmitType DEF HeartbeatTypeOK
  <2>3. Phases'  BY <2>0, <2>1, TransmitType DEF Basic, Phases
  <2>4. Armed'  BY <2>1 DEF Basic, Armed
  <2>5. Silence'  BY <2>0, <2>1, TransmitType DEF Basic, Silence
  <2> QED  BY <2>2, <2>3, <2>4, <2>5 DEF Basic
<1>7. ASSUME NEW e \in End, Receive(e)
      PROVE  Basic'
  <2>0. Basic /\ HeartbeatTypeOK  BY DEF Basic
  <2>1. PICK l \in flight[e] : flight' = [flight EXCEPT ![e] = @ \ {l}]
    BY <1>7 DEF Receive
  <2>2. /\ state[e] = "open" /\ age' = [age EXCEPT ![e] = 0]
        /\ UNCHANGED <<state, wait, since, cut, silent>>
    BY <1>7 DEF Receive
  <2>3. ~cut  BY <2>0, <2>1 DEF Basic, Silence
  <2>4. HeartbeatTypeOK'  BY <2>0, <2>1, <2>2 DEF HeartbeatTypeOK
  <2>5. Phases'
    BY <2>0, <2>1, <2>2, SMT DEF Basic, HeartbeatTypeOK, Phases
  <2>6. Armed'  BY <2>0, <2>2, SMT DEF Basic, HeartbeatTypeOK, Armed
  <2>7. Silence'
    BY <2>0, <2>2, <2>3, SMT DEF Basic, HeartbeatTypeOK, Silence
  <2> QED  BY <2>4, <2>5, <2>6, <2>7 DEF Basic
<1>8. ASSUME NEW e \in End, Close(e)
      PROVE  Basic'
  <2>1. /\ state' = [state EXCEPT ![e] = "closed"] /\ state[e] = "open"
        /\ UNCHANGED <<wait, since, age, flight, cut, silent>>
    BY <1>8 DEF Close
  <2>2. HeartbeatTypeOK'  BY <2>1 DEF Basic, HeartbeatTypeOK
  <2>3. \A f \in End : (state'[f] = "open" => state[f] = "open")
                       /\ (state'[f] = "none" <=> state[f] = "none")
    BY <2>1 DEF Basic, HeartbeatTypeOK
  <2>4. Phases' /\ Armed' /\ Silence'
    BY <2>1, <2>3 DEF Basic, Phases, Armed, Silence
  <2> QED  BY <2>2, <2>4 DEF Basic
<1>9. CASE UNCHANGED vars
  BY <1>9 DEF vars, Basic, HeartbeatTypeOK, Phases, Armed, Silence
<1> QED
  BY <1>1, <1>2, <1>3, <1>4, <1>5, <1>6, <1>7, <1>8, <1>9 DEF Next

\* Both ends of a connection that went silent notice it within Noticed ticks:
\* the accept, the timeout, and one period in which the check comes just too
\* early.  It holds for every value of the constants that leaves the timeout
\* longer than connecting may take (HeartbeatAssumption).
THEOREM DeadPeerTheorem == Spec => []DeadPeerNoticed
<1>1. Basic => DeadPeerNoticed
  <2> SUFFICES ASSUME Basic, NEW e \in End, state[e] = "open" PROVE silent < Noticed
    BY DEF DeadPeerNoticed
  <2>1. silent \in Nat /\ age[e] \in Nat /\ since[e] \in Nat
    BY DEF Basic, HeartbeatTypeOK
  <2>2. /\ silent <= age[e] + MaxAccept
        /\ since[e] <= HEARTBEAT_INTERVAL + MaxLag
        /\ age[e] < HEARTBEAT_TIMEOUT + since[e]
    BY DEF Basic, Silence, Armed
  <2> QED  BY <2>1, <2>2, Constants, SMT DEF Noticed
<1> QED  BY <1>1, InitBasic, StepBasic, PTL DEF Spec

-----------------------------------------------------------------------------

\* What connecting, accepting, a period, its handler and a frame may take
\* together.
Slack == MaxConnect + MaxAccept + HEARTBEAT_INTERVAL + MaxLag

Timely == Slack + MaxDelay < HEARTBEAT_TIMEOUT

Healthy == ~cut /\ \A e \in End : state[e] # "closed"

\* An end has heard from its peer since the peer's timer was armed, or the
\* frame that says so is under way.
Heard(e) ==
    \/ age[e] <= since[Peer(e)] + MaxConnect + MaxAccept
    \/ \E l \in flight[e] : age[e] + l <= MaxDelay + Slack

Fresh ==
    Healthy => \A e \in End :
        /\ state[e] # "timeout"
        /\ state["client"] = "open" /\ state["server"] = "open" => Heard(e)

LEMMA SlackType == Slack \in Nat  BY Constants, SMT DEF Slack

LEMMA InitFresh == Init => Fresh
  BY Ends DEF Init, Fresh

\* An end that is open in a healthy connection passes its check.
LEMMA NotTimedOut ==
    ASSUME Timely, Basic, Fresh, Healthy, NEW e \in End, state[e] = "open"
    PROVE  age[e] < HEARTBEAT_TIMEOUT
<1> USE Constants, Ends, SlackType
<1>1. /\ age[e] \in Nat /\ since[Peer(e)] \in Nat /\ wait \in Nat
      /\ \A f \in End : state[f] \in {"none", "open", "timeout", "closed"}
  BY DEF Basic, HeartbeatTypeOK
<1>2. state[Peer(e)] = "none" \/ state[Peer(e)] = "open"
  BY <1>1 DEF Fresh, Healthy
<1>3. CASE state[Peer(e)] = "none"
  <2>1. e = "client" /\ state["server"] = "none" /\ state["client"] = "open"
    BY <1>3 DEF Basic, Phases
  <2>2. wait <= MaxAccept /\ age["client"] <= MaxConnect + wait
    BY <2>1 DEF Basic, Phases
  <2> QED  BY <1>1, <2>1, <2>2, SMT DEF Timely, Slack
<1>4. CASE state[Peer(e)] = "open"
  <2>1. state["client"] = "open" /\ state["server"] = "open"  BY <1>4
  <2>2. Heard(e)  BY <2>1 DEF Fresh
  <2>3. CASE age[e] <= since[Peer(e)] + MaxConnect + MaxAccept
    <3>1. since[Peer(e)] <= HEARTBEAT_INTERVAL + MaxLag  BY <1>4 DEF Basic, Armed
    <3> QED  BY <1>1, <2>3, <3>1, SMT DEF Timely, Slack
  <2>4. ASSUME NEW l \in flight[e], age[e] + l <= MaxDelay + Slack
        PROVE  age[e] < HEARTBEAT_TIMEOUT
    <3>1. l \in 0 .. MaxDelay  BY DEF Basic, HeartbeatTypeOK
    <3> QED  BY <1>1, <2>4, <3>1, SMT DEF Timely
  <2> QED  BY <2>2, <2>3, <2>4 DEF Heard
<1> QED  BY <1>2, <1>3, <1>4

LEMMA StepFresh ==
    ASSUME Timely, Basic, Fresh, [Next]_vars
    PROVE  Fresh'
<1> SUFFICES ASSUME Healthy' PROVE \A e \in End :
        /\ state'[e] # "timeout"
        /\ state'["client"] = "open" /\ state'["server"] = "open" => Heard(e)'
  BY DEF Fresh
<1> USE Constants, Ends, SlackType
<1>0. HeartbeatTypeOK  BY DEF Basic
<1>1. CASE Connected
  <2>1. /\ state'["client"] = "open" /\ state'["server"] = state["server"]
        /\ state["server"] = "none"
    BY <1>0, <1>1 DEF Connected, HeartbeatTypeOK, Basic, Phases
  <2> QED  BY <2>1
<1>2. CASE Accept
  <2>1. /\ state["client"] # "none" /\ state["server"] = "none"
        /\ state'["server"] = "open" /\ state'["client"] = state["client"]
        /\ since'["server"] = 0 /\ since'["client"] = since["client"]
        /\ age'["server"] = 0 /\ age'["client"] = age["client"]
        /\ UNCHANGED <<flight, cut>>
    BY <1>0, <1>2 DEF Accept, HeartbeatTypeOK
  <2>2. Healthy  BY <2>1 DEF Healthy
  <2>3. state["client"] # "timeout"  BY <2>2 DEF Fresh
  <2>4. wait <= MaxAccept /\ age["client"] <= MaxConnect + wait
    BY <2>1 DEF Basic, Phases
  <2>5. wait \in Nat /\ age["client"] \in Nat /\ since["client"] \in Nat
    BY <1>0 DEF HeartbeatTypeOK
  <2>6. age'["client"] <= since'["server"] + MaxConnect + MaxAccept
    BY <2>1, <2>4, <2>5, SMT
  <2>7. age'["server"] <= since'["client"] + MaxConnect + MaxAccept
    BY <2>1, <2>5, SMT
  <2>8. Heard("client")' /\ Heard("server")'  BY <2>6, <2>7 DEF Heard
  <2> QED  BY <2>1, <2>3, <2>8
<1>3. CASE Cut  BY <1>3 DEF Cut, Healthy
<1>4. CASE Tick
  <2>1. state' = state /\ Healthy  BY <1>4 DEF Tick, Healthy
  <2>2. \A e \in End : state'[e] # "timeout"  BY <2>1 DEF Fresh
  <2>3. ASSUME NEW e \in End, state["client"] = "open", state["server"] = "open"
        PROVE  Heard(e)'
    <3>1. state[e] = "open" /\ state[Peer(e)] = "open"  BY <2>3
    <3>2. /\ age'[e] = age[e] + 1 /\ age[e] \in Nat
          /\ since'[Peer(e)] = since[Peer(e)] + 1 /\ since[Peer(e)] \in Nat
      BY <1>0, <1>4, <3>1 DEF Tick, HeartbeatTypeOK
    <3>3. Heard(e)  BY <2>1, <2>3 DEF Fresh
    <3>4. CASE age[e] <= since[Peer(e)] + MaxConnect + MaxAccept
      <4>1. age'[e] <= since'[Peer(e)] + MaxConnect + MaxAccept
        BY <3>2, <3>4, SMT
      <4> QED  BY <4>1 DEF Heard
    <3>5. ASSUME NEW l \in flight[e], age[e] + l <= MaxDelay + Slack
          PROVE  Heard(e)'
      <4>1. l \in 0 .. MaxDelay  BY <1>0 DEF HeartbeatTypeOK
      <4>2. l # 0  BY <1>4, <3>1 DEF Tick, MayPass
      <4>3. flight'[e] = {IF m > 0 THEN m - 1 ELSE 0 : m \in flight[e]}
        BY <1>4 DEF Tick
      <4>4. l - 1 \in flight'[e]  BY <4>1, <4>2, <4>3, SMT
      <4>5. age'[e] + (l - 1) <= MaxDelay + Slack  BY <3>2, <3>5, <4>1, SMT
      <4> QED  BY <4>4, <4>5 DEF Heard
    <3> QED  BY <3>3, <3>4, <3>5 DEF Heard
  <2> QED  BY <2>1, <2>2, <2>3
<1>5. ASSUME NEW e \in End, Heartbeat(e)
      PROVE  \A f \in End :
               /\ state'[f] # "timeout"
               /\ state'["client"] = "open" /\ state'["server"] = "open" => Heard(f)'
  <2>1. state[e] = "open" /\ cut' = cut /\ UNCHANGED age  BY <1>5 DEF Heartbeat
  <2>2. Healthy
    BY <1>0, <1>5, <2>1 DEF Healthy, Heartbeat, HeartbeatTypeOK
  <2>3. age[e] < HEARTBEAT_TIMEOUT /\ age[e] \in Nat
    BY <1>0, <2>1, <2>2, NotTimedOut DEF HeartbeatTypeOK
  <2>4. /\ Transmit(e) /\ state' = state /\ since' = [since EXCEPT ![e] = 0]
    BY <1>5, <2>3, SMT DEF Heartbeat
  <2>5. \A f \in End : state'[f] # "timeout"  BY <2>2, <2>4 DEF Fresh
  <2>6. ASSUME NEW f \in End, state["client"] = "open", state["server"] = "open"
        PROVE  Heard(f)'
    <3>1. Heard(f)  BY <2>2, <2>6 DEF Fresh
    <3>2. /\ flight'[Peer(e)] = flight[Peer(e)] \union {MaxDelay}
          /\ flight'[e] = flight[e]
      BY <1>0, <2>2, <2>4, TransmitType DEF Healthy
    <3>3. CASE f = e
      <4>1. since'[Peer(e)] = since[Peer(e)]  BY <1>0, <2>4 DEF HeartbeatTypeOK
      <4> QED  BY <2>1, <3>1, <3>2, <3>3, <4>1 DEF Heard
    <3>4. CASE f = Peer(e)
      <4>1. /\ age[f] \in Nat /\ since[e] \in Nat /\ Peer(f) = e
            /\ since[e] <= HEARTBEAT_INTERVAL + MaxLag
        BY <1>0, <2>1, <3>4 DEF HeartbeatTypeOK, Basic, Armed
      <4>2. CASE age[f] <= since[Peer(f)] + MaxConnect + MaxAccept
        <5>1. age'[f] + MaxDelay <= MaxDelay + Slack
          BY <2>1, <4>1, <4>2, SMT DEF Slack
        <5> QED  BY <3>2, <3>4, <5>1 DEF Heard
      <4>3. ASSUME NEW l \in flight[f], age[f] + l <= MaxDelay + Slack
            PROVE  Heard(f)'
        BY <2>1, <3>2, <3>4, <4>3 DEF Heard
      <4> QED  BY <3>1, <4>2, <4>3 DEF Heard
    <3> QED  BY <3>3, <3>4
  <2> QED  BY <2>4, <2>5, <2>6
<1>6. ASSUME NEW e \in End, SendData(e)
      PROVE  \A f \in End :
               /\ state'[f] # "timeout"
               /\ state'["client"] = "open" /\ state'["server"] = "open" => Heard(f)'
  <2>1. /\ Transmit(e) /\ UNCHANGED <<state, since, age, cut>> /\ Healthy
    BY <1>6 DEF SendData, Healthy
  <2>2. \A f \in End : flight[f] \subseteq flight'[f]
    BY <1>0, <2>1, TransmitType
  <2> QED  BY <2>1, <2>2 DEF Fresh, Heard
<1>7. ASSUME NEW e \in End, Receive(e)
      PROVE  \A f \in End :
               /\ state'[f] # "timeout"
               /\ state'["client"] = "open" /\ state'["server"] = "open" => Heard(f)'
  <2>1. /\ age' = [age EXCEPT ![e] = 0] /\ UNCHANGED <<state, since, cut>> /\ Healthy
    BY <1>7 DEF Receive, Healthy
  <2>2. flight'[Peer(e)] = flight[Peer(e)]
    BY <1>0, <1>7 DEF Receive, HeartbeatTypeOK
  <2>3. age'[e] = 0 /\ age'[Peer(e)] = age[Peer(e)] /\ since[Peer(e)] \in Nat
    BY <1>0, <2>1 DEF HeartbeatTypeOK
  <2>4. Heard(e)'
    <3>1. age'[e] <= since'[Peer(e)] + MaxConnect + MaxAccept  BY <2>1, <2>3, SMT
    <3> QED  BY <3>1 DEF Heard
  <2>5. ASSUME state["client"] = "open", state["server"] = "open"
        PROVE  Heard(Peer(e))'
    <3>1. Heard(Peer(e))  BY <2>1, <2>5 DEF Fresh
    <3> QED  BY <2>1, <2>2, <2>3, <3>1 DEF Heard
  <2> QED  BY <2>1, <2>4, <2>5 DEF Fresh
<1>8. ASSUME NEW e \in End, Close(e)
      PROVE  FALSE
  BY <1>0, <1>8 DEF Close, Healthy, HeartbeatTypeOK
<1>9. CASE UNCHANGED vars
  BY <1>9 DEF vars, Fresh, Healthy, Heard
<1> QED
  BY <1>1, <1>2, <1>3, <1>4, <1>5, <1>6, <1>7, <1>8, <1>9 DEF Next

\* While nobody closes and the network delivers, no heartbeat cuts off a
\* living peer, provided connect(), the accept, the period, a late handler and
\* the slowest frame fit into the timeout together; with 5 and 15 seconds
\* that leaves 10 to the other four.
THEOREM NoFalseTimeoutTheorem ==
    ASSUME Timely
    PROVE  Spec => []NoFalseTimeout
<1>1. Init => Basic /\ Fresh  BY InitBasic, InitFresh
<1>2. Basic /\ Fresh /\ [Next]_vars => (Basic /\ Fresh)'
  BY StepBasic, StepFresh
<1>3. Basic /\ Fresh => NoFalseTimeout
  BY DEF Fresh, Healthy, NoFalseTimeout
<1> QED  BY <1>1, <1>2, <1>3, PTL DEF Spec

-----------------------------------------------------------------------------
(* The window that owns a client (module ChatClient).                      *)

\* Induction, without a predicate as a parameter.
LEMMA SetInduction ==
  ASSUME NEW S \in SUBSET Nat, 0 \in S, \A n \in S : n + 1 \in S
  PROVE  S = Nat
<1> DEFINE R == OpToRel(<, Nat)
           T == Nat \ S
<1>1. SUFFICES ASSUME T # {} PROVE FALSE
  OBVIOUS
<1>2. IsWellFoundedOn(R, Nat)
  BY NatLessThanWellFounded
<1>3. T \subseteq Nat
  OBVIOUS
<1>4. PICK x \in T : \A y \in T : ~ (<<y, x>> \in R)
  <2> HIDE DEF R, T
  <2> QED
    BY <1>1, <1>2, <1>3, WFMin
<1>5. x \in Nat /\ x # 0
  OBVIOUS
<1>6. x - 1 \in Nat /\ (x - 1) + 1 = x /\ x - 1 < x
  BY <1>5
<1>7. <<x - 1, x>> \in R
  BY <1>5, <1>6 DEF OpToRel
<1>8. x - 1 \notin T
  BY <1>4, <1>7
<1> QED
  BY <1>5, <1>6, <1>8

\* The recursive function inside Shown exists: it is what its definition says.
LEMMA ShownDefined ==
  ASSUME NEW f, NEW ps, NEW typed, Len(ps) \in Nat
  PROVE  Shown(f, ps, typed) =
           [n \in 0 .. Len(ps) |->
              IF n = 0 THEN f ELSE ShowPacket(Shown(f, ps, typed)[n - 1], ps[n], typed)]
<1> DEFINE Is(a, k) == a = [n \in 0 .. k |-> IF n = 0 THEN f
                                             ELSE ShowPacket(a[n - 1], ps[n], typed)]
           S == {k \in Nat : \E a : Is(a, k)}
<1>1. 0 \in S
  <2> DEFINE a == [n \in 0 .. 0 |-> f]
  <2>1. Is(a, 0)
    OBVIOUS
  <2> QED
    BY <2>1
<1>2. ASSUME NEW k \in S PROVE k + 1 \in S
  <2>1. PICK a : Is(a, k)
    BY <1>2
  <2> DEFINE g == [n \in 0 .. k + 1 |->
                     IF n = k + 1 THEN ShowPacket(a[k], ps[k + 1], typed) ELSE a[n]]
  <2>2. k \in Nat
    OBVIOUS
  <2>3. ASSUME NEW n \in 0 .. k + 1
        PROVE  g[n] = IF n = 0 THEN f ELSE ShowPacket(g[n - 1], ps[n], typed)
    <3>1. CASE n = 0
      BY <2>1, <2>2, <3>1
    <3>2. CASE n = k + 1
      BY <2>1, <2>2, <3>2
    <3>3. CASE n # 0 /\ n # k + 1
      <4>1. n \in 0 .. k /\ n - 1 \in 0 .. k /\ n - 1 # k + 1 /\ n - 1 \in 0 .. k + 1
        BY <2>2, <3>3
      <4>2. g[n] = a[n] /\ g[n - 1] = a[n - 1]
        BY <3>3, <4>1
      <4> QED
        BY <2>1, <3>3, <4>1, <4>2
    <3> QED
      BY <3>1, <3>2, <3>3
  <2>4. Is(g, k + 1)
    BY <2>3
  <2> HIDE DEF g, Is
  <2> QED
    BY <2>2, <2>4
<1>3. Len(ps) \in S
  <2> HIDE DEF S
  <2>1. S \subseteq Nat
    BY DEF S
  <2>2. S = Nat
    BY <1>1, <1>2, <2>1, SetInduction
  <2> QED
    BY <2>2
<1>4. \E a : a = [n \in 0 .. Len(ps) |-> IF n = 0 THEN f
                                         ELSE ShowPacket(a[n - 1], ps[n], typed)]
  BY <1>3
<1> HIDE DEF Is, S
<1> QED
  BY <1>4 DEF Shown

\* A window's members.
IsFrame(f) ==
    f = [open |-> f.open, client |-> f.client, controls |-> f.controls,
         rooms |-> f.rooms, current_room_id |-> f.current_room_id,
         user_list |-> f.user_list, next_request_id |-> f.next_request_id]

\* g is f after something that only concerns rooms and users.
SameClient(f, g) ==
    IsFrame(g) /\ g.open = f.open /\ g.client = f.client /\ g.controls = f.controls

LEMMA ExceptKeepsClient ==
  ASSUME NEW f, IsFrame(f), NEW x
  PROVE  /\ SameClient(f, [f EXCEPT !.rooms = x])
         /\ SameClient(f, [f EXCEPT !.current_room_id = x])
         /\ SameClient(f, [f EXCEPT !.user_list = x])
         /\ SameClient(f, f)
  BY DEF IsFrame, SameClient

\* One member of a window is assigned.
LEMMA SetOpen ==
  ASSUME NEW f, IsFrame(f), NEW x
  PROVE  IsFrame([f EXCEPT !.open = x]) /\ [f EXCEPT !.open = x].open = x
  BY DEF IsFrame

LEMMA SetClient ==
  ASSUME NEW f, IsFrame(f), NEW x
  PROVE  /\ IsFrame([f EXCEPT !.client = x])
         /\ [f EXCEPT !.client = x].client = x
         /\ [f EXCEPT !.client = x].open = f.open
  BY DEF IsFrame

LEMMA SetControls ==
  ASSUME NEW f, IsFrame(f), NEW x
  PROVE  /\ IsFrame([f EXCEPT !.controls = x])
         /\ [f EXCEPT !.controls = x].controls = x
         /\ [f EXCEPT !.controls = x].client = f.client
  BY DEF IsFrame

LEMMA SetRequestId ==
  ASSUME NEW f, IsFrame(f), NEW x
  PROVE  /\ IsFrame([f EXCEPT !.next_request_id = x])
         /\ [f EXCEPT !.next_request_id = x].controls = f.controls
         /\ [f EXCEPT !.next_request_id = x].client = f.client
  BY DEF IsFrame

\* No event of the protocol touches the client or the controls.
LEMMA EventKeepsClient ==
  ASSUME NEW f, IsFrame(f), NEW e, NEW typed
  PROVE  SameClient(f, ProcessProtocolEvent(f, e, typed))
<1>1. ASSUME NEW n PROVE SameClient(f, AddUser(f, n)) /\ SameClient(f, RemoveUser(f, n))
  BY ExceptKeepsClient DEF AddUser, RemoveUser
<1> QED
  BY <1>1, ExceptKeepsClient DEF ProcessProtocolEvent

LEMMA PacketKeepsClient ==
  ASSUME NEW f, IsFrame(f), NEW p, NEW typed
  PROVE  SameClient(f, ShowPacket(f, p, typed))
  BY EventKeepsClient, ExceptKeepsClient DEF ShowPacket

\* Nor does a whole poll.
LEMMA PollKeepsClient ==
  ASSUME NEW f, IsFrame(f), NEW ps, Len(ps) \in Nat, NEW typed
  PROVE  SameClient(f, Process(f, ps, typed))
<1> DEFINE N == Len(ps)
           a == Shown(f, ps, typed)
           S == {n \in Nat : n <= N => SameClient(f, a[n])}
<1>1. N \in Nat
  OBVIOUS
<1>2. a = [n \in 0 .. N |-> IF n = 0 THEN f ELSE ShowPacket(a[n - 1], ps[n], typed)]
  BY ShownDefined
<1> HIDE DEF a, N
<1>3. 0 \in S
  <2>1. a[0] = f
    BY <1>1, <1>2
  <2>2. SameClient(f, f)
    BY ExceptKeepsClient
  <2> QED
    BY <2>1, <2>2
<1>4. ASSUME NEW n \in S PROVE n + 1 \in S
  <2>1. n \in Nat
    OBVIOUS
  <2>2. ASSUME n + 1 <= N PROVE SameClient(f, a[n + 1])
    <3>1. n + 1 \in 0 .. N /\ n <= N /\ (n + 1) - 1 = n /\ n + 1 # 0
      BY <1>1, <2>1, <2>2
    <3>2. SameClient(f, a[n])
      BY <3>1
    <3>3. a[n + 1] = ShowPacket(a[n], ps[n + 1], typed)
      BY <1>2, <3>1
    <3>4. SameClient(a[n], ShowPacket(a[n], ps[n + 1], typed))
      BY <3>2, PacketKeepsClient DEF SameClient
    <3> QED
      BY <3>2, <3>3, <3>4 DEF SameClient
  <2> QED
    BY <2>1, <2>2
<1>5. S = Nat
  <2> HIDE DEF S
  <2>1. S \subseteq Nat
    BY DEF S
  <2> QED
    BY <1>3, <1>4, <2>1, SetInduction
<1>6. SameClient(f, a[N])
  <2> HIDE DEF S
  <2>1. N \in S /\ N <= N
    BY <1>1, <1>5
  <2> QED
    BY <2>1 DEF S
<1> QED
  BY <1>6 DEF Process, a, N

\* The invariant of the windows: their members are there, what client_ holds is
\* a queue of packets, and the button follows the client.
WInv ==
    /\ frame = [w \in Windows |-> frame[w]]
    /\ \A w \in Windows : IsFrame(frame[w])
    /\ receive_queue \in [Windows -> Seq(Packets)]
    /\ ConnectIffNoClient

\* One window changes, to a proper one.
LEMMA FrameChange ==
  ASSUME WInv, NEW w \in Windows, NEW g, IsFrame(g),
         g.open => (g.controls <=> g.client),
         frame' = [frame EXCEPT ![w] = g],
         receive_queue' \in [Windows -> Seq(Packets)]
  PROVE  WInv'
<1>1. /\ frame' = [v \in Windows |-> frame'[v]]
      /\ \A v \in Windows : frame'[v] = IF v = w THEN g ELSE frame[v]
  BY DEF WInv
<1> QED
  BY <1>1 DEF WInv, ConnectIffNoClient

\* No window changes.
LEMMA NoFrameChange ==
  ASSUME WInv, frame' = frame, receive_queue' \in [Windows -> Seq(Packets)]
  PROVE  WInv'
  BY DEF WInv, ConnectIffNoClient

\* Each handler, and each step of the I/O thread.
LEMMA WindowStep ==
  ASSUME WInv, NEW w \in Windows, Handler(w) \/ OnPollTimer(w) \/ IoThread(w)
  PROVE  WInv'
<1>1. IsFrame(frame[w]) /\ receive_queue \in [Windows -> Seq(Packets)]
      /\ (frame[w].open => (frame[w].controls <=> frame[w].client))
  BY DEF WInv, ConnectIffNoClient
<1>2. [receive_queue EXCEPT ![w] = <<>>] \in [Windows -> Seq(Packets)]
  BY <1>1
<1>3. ASSUME NEW typed \in Typed, OnConnectClicked(w, typed) PROVE WInv'
  <2> DEFINE g == [frame[w] EXCEPT !.client = TRUE, !.controls = TRUE,
                                   !.next_request_id = 3]
  <2>1. IsFrame(g) /\ g.controls = TRUE /\ g.client = TRUE
    <3> DEFINE f == [frame[w] EXCEPT !.client = TRUE]
               h == [f EXCEPT !.controls = TRUE]
    <3>1. g = [h EXCEPT !.next_request_id = 3]
      OBVIOUS
    <3>2. IsFrame(f) /\ f.client = TRUE
      BY <1>1, SetClient
    <3> HIDE DEF f
    <3>3. IsFrame(h) /\ h.client = TRUE /\ h.controls = TRUE
      BY <3>2, SetControls
    <3> HIDE DEF h, g
    <3> QED
      BY <3>1, <3>3, SetRequestId
  <2>2. frame' = [frame EXCEPT ![w] = g]
    BY <1>3 DEF OnConnectClicked, WInv
  <2> HIDE DEF g
  <2> QED
    BY <1>2, <1>3, <2>1, <2>2, FrameChange DEF OnConnectClicked
<1>4. ASSUME NEW request, Send(w, request) PROVE WInv'
  <2> DEFINE g == [frame[w] EXCEPT !.next_request_id = @ + 1]
  <2>1. /\ IsFrame(g) /\ g.open = frame[w].open
        /\ g.controls = frame[w].controls /\ g.client = frame[w].client
    BY <1>1 DEF IsFrame
  <2>2. frame' = [frame EXCEPT ![w] = g]
    BY <1>4 DEF Send, WInv
  <2> HIDE DEF g
  <2> QED
    BY <1>1, <1>4, <2>1, <2>2, FrameChange DEF Send
<1>5. CASE OnClose(w)
  <2> DEFINE g == [frame[w] EXCEPT !.open = FALSE, !.client = FALSE]
  <2>1. IsFrame(g) /\ g.open = FALSE
    <3> DEFINE f == [frame[w] EXCEPT !.open = FALSE]
    <3>1. g = [f EXCEPT !.client = FALSE]
      OBVIOUS
    <3>2. IsFrame(f) /\ f.open = FALSE
      BY <1>1, SetOpen
    <3> HIDE DEF f, g
    <3> QED
      BY <3>1, <3>2, SetClient
  <2>2. frame' = [frame EXCEPT ![w] = g]
    BY <1>5 DEF OnClose, WInv
  <2> HIDE DEF g
  <2> QED
    BY <1>2, <1>5, <2>1, <2>2, FrameChange DEF OnClose, Disconnect
<1>6. CASE PollTest(w)
  BY <1>1, <1>6, NoFrameChange DEF PollTest
<1>7. ASSUME NEW typed \in Typed, PollEvents(w, typed) PROVE WInv'
  <2> DEFINE g == Process(frame[w], receive_queue[w], typed)
  <2>1. SameClient(frame[w], g)
    <3>1. Len(receive_queue[w]) \in Nat
      BY <1>1
    <3> QED
      BY <1>1, <3>1, PollKeepsClient
  <2>2. frame' = [frame EXCEPT ![w] = g]
    BY <1>7 DEF PollEvents
  <2> HIDE DEF g
  <2> QED
    BY <1>1, <1>2, <1>7, <2>1, <2>2, FrameChange DEF PollEvents, SameClient
<1>8. CASE PollEnd(w)
  <2>1. CASE UNCHANGED <<frame, connected, receive_queue>>
    BY <1>1, <2>1, NoFrameChange
  <2>2. CASE /\ Disconnect(w)
             /\ frame' = [frame EXCEPT ![w].client = FALSE, ![w].controls = FALSE]
    <3> DEFINE g == [frame[w] EXCEPT !.client = FALSE, !.controls = FALSE]
    <3>1. IsFrame(g) /\ g.controls = FALSE /\ g.client = FALSE
      <4> DEFINE f == [frame[w] EXCEPT !.client = FALSE]
      <4>1. g = [f EXCEPT !.controls = FALSE]
        OBVIOUS
      <4>2. IsFrame(f) /\ f.client = FALSE
        BY <1>1, SetClient
      <4> HIDE DEF f, g
      <4> QED
        BY <4>1, <4>2, SetControls
    <3>2. frame' = [frame EXCEPT ![w] = g]
      BY <2>2 DEF WInv
    <3> HIDE DEF g
    <3> QED
      BY <1>2, <2>2, <3>1, <3>2, FrameChange DEF Disconnect
  <2> QED
    BY <1>8, <2>1, <2>2 DEF PollEnd
<1>9. CASE LoseConnection(w)
  BY <1>1, <1>9, NoFrameChange DEF LoseConnection
<1>10. ASSUME NEW p \in Packets, NEW still \in BOOLEAN, ReceivePacket(w, p, still)
       PROVE  WInv'
  <2>1. Append(receive_queue[w], p) \in Seq(Packets)
    BY <1>1
  <2>2. receive_queue' = [receive_queue EXCEPT ![w] = Append(receive_queue[w], p)]
    BY <1>10 DEF ReceivePacket
  <2>3. receive_queue' \in [Windows -> Seq(Packets)]
    BY <1>1, <2>1, <2>2
  <2> QED
    BY <1>10, <2>3, NoFrameChange DEF ReceivePacket
<1>11. CASE Handler(w)
  BY <1>3, <1>4, <1>5, <1>11
     DEF Handler, OnRefreshRoomsClicked, OnJoinRoomClicked, OnSendClicked
<1>12. CASE OnPollTimer(w)
  BY <1>6, <1>7, <1>8, <1>12 DEF OnPollTimer
<1>13. CASE IoThread(w)
  BY <1>9, <1>10, <1>13 DEF IoThread
<1> QED
  BY <1>11, <1>12, <1>13

LEMMA WindowInitStep ==
  ASSUME WindowInit
  PROVE  WInv
<1> DEFINE f == [open |-> TRUE, client |-> FALSE, controls |-> FALSE,
                 rooms |-> {}, current_room_id |-> 0, user_list |-> {},
                 next_request_id |-> 1]
           g == ProcessProtocolEvent(f, CreateMockEvents[1], EmptyName)
           h == ProcessProtocolEvent(g, CreateMockEvents[2], EmptyName)
<1>1. IsFrame(f) /\ f.controls = FALSE /\ f.client = FALSE
  BY DEF IsFrame
<1>2. h = NewFrame
  BY DEF NewFrame, LoadMockData
<1> HIDE DEF f
<1>3. SameClient(f, g)
  BY <1>1, EventKeepsClient
<1> HIDE DEF g
<1>4. SameClient(g, h)
  BY <1>3, EventKeepsClient DEF SameClient
<1>5. IsFrame(NewFrame) /\ NewFrame.controls = FALSE /\ NewFrame.client = FALSE
  BY <1>1, <1>2, <1>3, <1>4 DEF SameClient
<1>6. /\ frame = [w \in Windows |-> NewFrame]
      /\ receive_queue = [w \in Windows |-> <<>>]
  BY DEF WindowInit
<1>7. receive_queue \in [Windows -> Seq(Packets)]
  BY <1>6
<1> QED
  BY <1>5, <1>6, <1>7 DEF WInv, ConnectIffNoClient

\* However the clicks of a user, the polls of the timer and the I/O thread's
\* packets and losses interleave, in any number of windows, the connect button is
\* offered exactly while a window has no client_.
THEOREM ConnectIffNoClientTheorem == WindowSpec => []ConnectIffNoClient
<1>1. WInv /\ [WindowNext]_windowVars => WInv'
  <2>1. ASSUME WInv, UNCHANGED windowVars PROVE WInv'
    BY <2>1 DEF WInv, windowVars, ConnectIffNoClient
  <2> QED
    BY <2>1, WindowStep DEF WindowNext
<1>2. WInv => ConnectIffNoClient
  BY DEF WInv
<1> QED
  BY <1>1, <1>2, WindowInitStep, PTL DEF WindowSpec
=============================================================================
