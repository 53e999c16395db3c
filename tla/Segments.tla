--------------------------------- MODULE Segments ---------------------------------
(***************************************************************************)
(* The segments of protocol version 5 (frame.go, conn.go, crc.go): frames  *)
(* are cut into or packed in segments with a header checksum (CRC24) and a *)
(* payload checksum (CRC32), compressed or not, and put together again by  *)
(* recvSegment.  Frames are bytes: 9 of header, then the body.  The link   *)
(* may damage one byte.                                                    *)
(***************************************************************************)
EXTENDS Integers, Sequences, SequencesExt, Bitwise

CONSTANTS maxSegmentPayloadSize,   \* one less than a power of two, 2^17 - 1 in the code
          Bodies,                  \* the frame bodies that are sent
          MaxFrames,               \* bound: frames sent over a link
          Flips                    \* what a damaged byte is XORed with

VARIABLES compressed,    \* a compressor was agreed on
          sent,          \* the frames sent, in order
          link,          \* bytes sent and not read
          damaged,       \* one byte of the link was changed
          received,      \* the frames handed to processFrame
          dead           \* recvSegment returned an error: serve closes the connection

segmentVars == <<compressed, sent, link, damaged, received, dead>>

frameHeadSize == 9
Drop(s, n) == SubSeq(s, n + 1, Len(s))
Take(s, n) == SubSeq(s, 1, n)

--------------------------------------------------------------------------------
(* Checksums *)

\* Checksums are sequences of bytes, the highest first.
ByteXor == [a \in 0..255 |-> [b \in 0..255 |-> a ^^ b]]
BigEndian(n, size) == [i \in 1..size |-> (n \div 256^(size - i)) % 256]

\* Eight rounds of the bit loop, from a state with only its upper byte set.
crc24Init == <<135, 80, 96>>
crc24Poly == 26693387
crc24Byte ==
  [b \in 0..255 |->
     LET crc[i \in 0..8] == IF i = 0 THEN b * 2^16
                            ELSE LET c == crc[i - 1] * 2
                                 IN IF c >= 2^24 THEN c ^^ crc24Poly ELSE c
     IN BigEndian(crc[8], 3)]
Crc24(buf) ==
  LET shifted(c, t) == <<ByteXor[c[2]][t[1]], ByteXor[c[3]][t[2]], t[3]>>
      step(c, b) == shifted(c, crc24Byte[ByteXor[c[1]][b]])
  IN FoldLeft(step, crc24Init, buf)

\* hash/crc32 (IEEE, reflected): the rounds from a state with only its lower byte set,
\* the 32 bits in two halves.
crc32Poly == <<60856, 33568>>
crc32Byte ==
  [b \in 0..255 |->
     LET crc[i \in 0..8] ==
           IF i = 0 THEN <<0, b>>
           ELSE LET c == crc[i - 1]
                    half == <<c[1] \div 2, (c[2] \div 2) + (c[1] % 2) * 2^15>>
                IN IF c[2] % 2 = 0 THEN half
                   ELSE <<half[1] ^^ crc32Poly[1], half[2] ^^ crc32Poly[2]>>
     IN BigEndian(crc[8][1], 2) \o BigEndian(crc[8][2], 2)]
Crc32(payload) ==
  LET buf == <<250, 45, 85, 202>> \o payload
      shifted(c, t) == <<t[1], ByteXor[c[1]][t[2]], ByteXor[c[2]][t[3]], ByteXor[c[3]][t[4]]>>
      crc[i \in 0..Len(buf), c \in Seq(0..255)] ==
        IF i = Len(buf) THEN c ELSE crc[i + 1, shifted(c, crc32Byte[ByteXor[c[4]][buf[i + 1]]])]
      last == crc[0, <<255, 255, 255, 255>>]
  IN [i \in 1..4 |-> 255 - last[i]]

LittleEndian3(n) == <<n % 256, (n \div 256) % 256, n \div 2^16>>
Crc24Bytes(buf) == Reverse(Crc24(buf))
Crc32Bytes(buf) == Reverse(Crc32(buf))

--------------------------------------------------------------------------------
(* Writing *)

\* A Compressor (external): runs of equal bytes, so that some payloads shrink and others grow.
AppendCompressed(b) ==
  LET ends == {i \in DOMAIN b : i = Len(b) \/ b[i] # b[i + 1]}
      length(i) == i - Max({0} \cup {j \in ends : j < i})
  IN FlattenSeq([i \in DOMAIN b |-> IF i \in ends THEN <<length(i), b[i]>> ELSE <<>>])
AppendDecompressed(b) ==
  FlattenSeq([i \in 1..(Len(b) \div 2) |-> [j \in 1..b[2 * i - 1] |-> b[2 * i]]])

Segment(header, payload) == header \o Crc24Bytes(header) \o payload \o Crc32Bytes(payload)

newUncompressedSegment(payload, isSelfContained) ==
  Segment(LittleEndian3(Len(payload) + IF isSelfContained THEN 2^17 ELSE 0), payload)

\* The combined lengths take 17 bits each, the flag is bit 34.
CompressedHeader(compressedLen, uncompressedLen, isSelfContained) ==
  <<compressedLen % 256, (compressedLen \div 256) % 256,
    compressedLen \div 2^16 + (uncompressedLen % 2^7) * 2,
    (uncompressedLen \div 2^7) % 256,
    uncompressedLen \div 2^15 + IF isSelfContained THEN 4 ELSE 0>>

\* A payload that compression makes longer goes as it is.
Shorter(packed, plain, isSelfContained) ==
  IF Len(plain) < Len(packed)
  THEN Segment(CompressedHeader(Len(plain), 0, isSelfContained), plain)
  ELSE Segment(CompressedHeader(Len(packed), Len(plain), isSelfContained), packed)

newCompressedSegment(uncompressedPayload, isSelfContained) ==
  Shorter(AppendCompressed(uncompressedPayload), uncompressedPayload, isSelfContained)

newSegment(payload, isSelfContained) ==
  IF compressed THEN newCompressedSegment(payload, isSelfContained)
  ELSE newUncompressedSegment(payload, isSelfContained)

Chunks(buf) == (Len(buf) - 1) \div maxSegmentPayloadSize + 1
Piece(buf, i) ==
  SubSeq(buf, (i - 1) * maxSegmentPayloadSize + 1,
         IF i = Chunks(buf) THEN Len(buf) ELSE i * maxSegmentPayloadSize)

MutprepareModernLayout(buf) ==
  FlattenSeq([i \in 1..Chunks(buf) |-> newSegment(Piece(buf, i), i = Chunks(buf))])
prepareModernLayout(buf) ==
  FlattenSeq([i \in 1..Chunks(buf) |-> newSegment(Piece(buf, i), Chunks(buf) = 1)])

--------------------------------------------------------------------------------
(* Reading: [ok, payload, selfContained, rest] *)

Broken == [ok |-> FALSE, payload |-> <<>>, selfContained |-> FALSE, rest |-> <<>>]

\* The payload of size n after a header of size h, if both checksums are right.
Checked(b, h, n, selfContained) ==
  LET start == h + 3
  IN IF Len(b) < start + n + 4
        \/ SubSeq(b, start + n + 1, start + n + 4) # Crc32Bytes(SubSeq(b, start + 1, start + n))
     THEN Broken
     ELSE [ok |-> TRUE, payload |-> SubSeq(b, start + 1, start + n),
           selfContained |-> selfContained, rest |-> Drop(b, start + n + 4)]

readUncompressedSegment(b) ==
  LET headerInt == b[1] + b[2] * 256 + b[3] * 2^16
  IN IF Len(b) < 6 \/ SubSeq(b, 4, 6) # Crc24Bytes(Take(b, 3)) THEN Broken
     ELSE Checked(b, 3, headerInt % (maxSegmentPayloadSize + 1), (headerInt \div 2^17) % 2 = 1)

\* The segment r with its payload decompressed, to n bytes if n is not zero.
Decompressed(r, payload, n) ==
  IF ~r.ok \/ n = 0 THEN r
  ELSE IF Len(payload) # n THEN Broken
  ELSE [r EXCEPT !.payload = payload]
Unpacked(r, n) == Decompressed(r, AppendDecompressed(r.payload), n)

readCompressedSegment(b) ==
  LET compressedLen == b[1] + b[2] * 256 + (b[3] % 2) * 2^16
      uncompressedLen == (b[3] \div 2) + b[4] * 2^7 + (b[5] % 4) * 2^15
  IN IF Len(b) < 8 \/ SubSeq(b, 6, 8) # Crc24Bytes(Take(b, 5)) THEN Broken
     ELSE Unpacked(Checked(b, 5, compressedLen, (b[5] \div 4) % 2 = 1), uncompressedLen)

readSegment(b) == IF compressed THEN readCompressedSegment(b) ELSE readUncompressedSegment(b)

\* readHeader's length field.
LengthOf(b) == b[9] + b[8] * 256 + b[7] * 2^16 + b[6] * 2^24

\* processAllFramesInSegment: the frames of a self-contained segment; the last may be cut.
RECURSIVE processAllFramesInSegment(_)
processAllFramesInSegment(b) ==
  IF b = <<>> THEN [ok |-> TRUE, frames |-> <<>>]
  ELSE IF Len(b) < frameHeadSize \/ Len(b) < frameHeadSize + LengthOf(b)
  THEN [ok |-> FALSE, frames |-> <<>>]
  ELSE LET n == frameHeadSize + LengthOf(b)
           others == processAllFramesInSegment(Drop(b, n))
       IN [others EXCEPT !.frames = <<Take(b, n)>> \o @]

\* recvPartialFrames: segments are appended to dst until the frame is complete.
RECURSIVE recvPartialFrames(_, _, _)
AppendSegment(dst, size, s) ==
  IF ~s.ok \/ s.selfContained \/ Len(dst) + Len(s.payload) > size
  THEN [ok |-> FALSE, frame |-> dst, rest |-> s.rest]
  ELSE recvPartialFrames(dst \o s.payload, size, s.rest)
recvPartialFrames(dst, size, b) ==
  IF Len(dst) = size THEN [ok |-> TRUE, frame |-> dst, rest |-> b]
  ELSE AppendSegment(dst, size, readSegment(b))

--------------------------------------------------------------------------------
SegmentsInit ==
  /\ compressed \in BOOLEAN
  /\ sent = <<>> /\ link = <<>> /\ received = <<>> /\ damaged = FALSE /\ dead = FALSE

FrameOf(body) == <<5, 0, 0, 1, 7, 0, 0, 0, Len(body)>> \o body

\* A frame is cut into segments of its own (execInternal; the peer does the same).
SendFrame(body) ==
  /\ Len(sent) < MaxFrames
  /\ sent' = Append(sent, FrameOf(body))
  /\ link' = link \o prepareModernLayout(FrameOf(body))
  /\ UNCHANGED <<compressed, damaged, received, dead>>

\* The peer packs two small frames in one self-contained segment.
PackFrames(one, two) ==
  /\ Len(sent) + 1 < MaxFrames
  /\ Len(FrameOf(one) \o FrameOf(two)) <= maxSegmentPayloadSize
  /\ sent' = sent \o <<FrameOf(one), FrameOf(two)>>
  /\ link' = link \o newSegment(FrameOf(one) \o FrameOf(two), TRUE)
  /\ UNCHANGED <<compressed, damaged, received, dead>>

Damage(i, flip) ==
  /\ ~damaged /\ ~dead
  /\ link' = [link EXCEPT ![i] = @ ^^ flip]
  /\ damaged' = TRUE
  /\ UNCHANGED <<compressed, sent, received, dead>>

\* A self-contained segment, and the first of several that hold one frame.
Whole(s, all) ==
  /\ s.selfContained
  /\ link' = s.rest /\ received' = received \o all.frames /\ dead' = ~all.ok

FirstPart(s, frame) ==
  /\ ~s.selfContained
  /\ IF Len(s.payload) >= frameHeadSize /\ frame.ok
     THEN link' = frame.rest /\ received' = Append(received, frame.frame) /\ UNCHANGED dead
     ELSE dead' = TRUE /\ UNCHANGED <<link, received>>

recvSegment ==
  /\ ~dead /\ link # <<>>
  /\ \E s \in {readSegment(link)} :
       \/ /\ ~s.ok
          /\ dead' = TRUE /\ UNCHANGED <<link, received>>
       \/ s.ok /\ Whole(s, processAllFramesInSegment(s.payload))
       \/ s.ok /\ FirstPart(s, recvPartialFrames(s.payload, LengthOf(s.payload) + frameHeadSize, s.rest))
  /\ UNCHANGED <<compressed, sent, damaged>>

SegmentsNext ==
  \/ \E body \in Bodies : SendFrame(body)
  \/ \E one, two \in Bodies : PackFrames(one, two)
  \/ \E i \in DOMAIN link, flip \in Flips : Damage(i, flip)
  \/ recvSegment

--------------------------------------------------------------------------------
\* recvSegment hands over the frames that were sent, whole and in order, whatever their
\* size is against maxSegmentPayloadSize and however they are packed or compressed.  A
\* damaged byte makes it fail (both checksums are needed for that); it fails for no other
\* reason, and an undamaged link is read to its end.
FramesIntact ==
  /\ IsPrefix(received, sent)
  /\ dead => damaged
  /\ (link = <<>> /\ ~dead) => received = sent
================================================================================
