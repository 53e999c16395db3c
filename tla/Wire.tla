---------------------------------- MODULE Wire ----------------------------------
(***************************************************************************)
(* The primitives of the native protocol as framer reads and writes them   *)
(* (frame.go): bytes, big-endian integers of the code's widths, strings,   *)
(* byte strings, lists and maps.  A string is the sequence of its bytes.   *)
(* A map is the sequence of its entries in the order it is ranged over.    *)
(* What a reader returns is [ok, v, buf]: whether it found enough bytes,   *)
(* the value, and the rest of f.buf.                                       *)
(***************************************************************************)
EXTENDS Integers, Sequences, SequencesExt

\* A []byte that may be nil, or a bind variable that is not set.
Null == [tag |-> "null", b |-> <<>>]
Unset == [tag |-> "unset", b |-> <<>>]
Blob(b) == [tag |-> "bytes", b |-> b]

--------------------------------------------------------------------------------
(* Writers *)

writeByte(b) == <<b % 256>>
writeShort(n) == <<(n \div 256) % 256, n % 256>>
writeInt(n) == <<(n \div 16777216) % 256, (n \div 65536) % 256, (n \div 256) % 256, n % 256>>
writeLong(n) == LET s == IF n < 0 THEN 255 ELSE 0 IN <<s, s, s, s>> \o writeInt(n)

writeString(s) == writeShort(Len(s)) \o s
writeLongString(s) == writeInt(Len(s)) \o s
writeShortBytes(b) == writeShort(Len(b)) \o b
writeConsistency(c) == writeShort(c)

\* writeBytes and writeUnset
writeBytes(v) ==
  CASE v.tag = "null" -> writeInt(-1)
    [] v.tag = "unset" -> writeInt(-2)
    [] OTHER -> writeInt(Len(v.b)) \o v.b

Concat(parts) == FoldLeft(LAMBDA acc, p : acc \o p, <<>>, parts)

writeStringList(l) == writeShort(Len(l)) \o Concat([i \in DOMAIN l |-> writeString(l[i])])
writeStringMap(m) ==
  writeShort(Len(m)) \o Concat([i \in DOMAIN m |-> writeString(m[i].k) \o writeString(m[i].v)])
writeStringMultiMap(m) ==
  writeShort(Len(m)) \o Concat([i \in DOMAIN m |-> writeString(m[i].k) \o writeStringList(m[i].v)])
writeBytesMap(m) ==
  writeShort(Len(m)) \o Concat([i \in DOMAIN m |-> writeString(m[i].k) \o writeBytes(m[i].v)])

--------------------------------------------------------------------------------
(* Readers *)

Failed == [ok |-> FALSE, v |-> <<>>, buf |-> <<>>]
Got(v, buf) == [ok |-> TRUE, v |-> v, buf |-> buf]
From(buf, n) == SubSeq(buf, n + 1, Len(buf))

\* What K makes of r, if r was read.
After(r, K(_)) == IF r.ok THEN K(r) ELSE Failed

readByte(buf) == IF Len(buf) < 1 THEN Failed ELSE Got(buf[1], From(buf, 1))
readShort(buf) == IF Len(buf) < 2 THEN Failed ELSE Got(buf[1] * 256 + buf[2], From(buf, 2))

\* int(int32(...)): the first byte carries the sign.
readInt(buf) ==
  IF Len(buf) < 4 THEN Failed
  ELSE Got((IF buf[1] > 127 THEN buf[1] - 256 ELSE buf[1]) * 16777216
             + buf[2] * 65536 + buf[3] * 256 + buf[4], From(buf, 4))

\* The n bytes that follow a size r.
Chunk(r) ==
  IF ~r.ok \/ r.v > Len(r.buf) THEN Failed ELSE Got(SubSeq(r.buf, 1, r.v), From(r.buf, r.v))

readString(buf) == Chunk(readShort(buf))
readShortBytes(buf) == Chunk(readShort(buf))
readLongString(buf) == Chunk(readInt(buf))

\* Every negative size is null.
readBytes(buf) ==
  After(readInt(buf),
        LAMBDA size : IF size.v < 0 THEN Got(Null, size.buf)
                      ELSE After(Chunk(size), LAMBDA b : Got(Blob(b.v), b.buf)))

readConsistency(buf) == readShort(buf)

\* 4 or 16 bytes after their number.  The code only checks that one of them is there:
\* the slice of a body cut short would panic.
readInetAdressOnly(buf) ==
  After(readByte(buf), LAMBDA size : IF size.v \in {4, 16} THEN Chunk(size) ELSE Failed)

\* readTrace panics for fewer than 16 bytes.
readTrace(buf) == IF Len(buf) < 16 THEN Failed ELSE Got(SubSeq(buf, 1, 16), From(buf, 16))

--------------------------------------------------------------------------------
(* Records, lists and maps, by what they are made of: the fields of a      *)
(* record, and the number and the items of a list.                         *)

F(name, kind) == <<[name |-> name, kind |-> kind]>>
When(cond, layout) == IF cond THEN layout ELSE <<>>
Entry(key, value) == F("k", key) \o F("v", value)
List(number, item) == [number |-> number, item |-> item]

readInet == F("ip", "address") \o F("port", "short")
readStringList == List("short", "string")
readBytesMap == List("short", "bytes entry")
readStringMultiMap == List("short", "string list entry")
readErrorMap == List("int", "error")
================================================================================
