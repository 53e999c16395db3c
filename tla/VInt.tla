--------------------------------- MODULE VInt ----------------------------------
(***************************************************************************)
(* The variable length integers of the duration type (marshal.go) and of   *)
(* the lengths inside a vector (vector.go), and the duration codec.  The   *)
(* number of leading ones of the first byte is the number of bytes after   *)
(* it, so that the width of a byte bounds the length: a byte has W bits    *)
(* and a word W bytes (8 and 8 in the code), and the constants of the size *)
(* formula are written in W.                                               *)
(***************************************************************************)
EXTENDS Integers, Sequences, SequencesExt, Marshal

W == 4
VByte == 2^W
Word == W * W                 \* bits of a uint64, an int32 has half of them

\* bits.LeadingZeros64
LeadingZeros(v) == Word - BitLen(v)

\* (639 - lead0*9) >> 6
computeUnsignedVIntSize(v) ==
  ((W + 2) * Word - 1 - (W + 1) * LeadingZeros(v)) \div Word

\* A first byte with its extra leading ones.
Prefixed(b, extra) == VByte - 2^(W - extra) + (b % 2^(W - extra))

writeUnsignedVInt(v) ==
  LET n == computeUnsignedVIntSize(v)
      low == [i \in 1..n |-> (v \div VByte^(n - i)) % VByte]
  IN IF n <= 1 THEN <<v % VByte>> ELSE [low EXCEPT ![1] = Prefixed(@, n - 1)]

\* The value and how many bytes it took.
readUnsignedVInt(data) ==
  LET first == data[1]
      extra == IF first < VByte \div 2 THEN 0
               ELSE W - BitLen(VByte - 1 - first)
  IN IF data = <<>> THEN Err
     ELSE IF Len(data) < extra + 1 THEN Err
     ELSE Ok([n |-> extra + 1,
              v |-> FoldLeft(LAMBDA acc, d : acc * VByte + d,
                             first % 2^(W - extra), SubSeq(data, 2, extra + 1))])

encIntZigZag(n) == IF n >= 0 THEN 2 * n ELSE -2 * n - 1
decIntZigZag(n) == IF n % 2 = 0 THEN n \div 2 ELSE -((n + 1) \div 2)

encVint(v) == writeUnsignedVInt(encIntZigZag(v))

decVint(data) ==
  LET r == readUnsignedVInt(data)
  IN IF r.err THEN Err ELSE Ok([n |-> r.val.n, v |-> decIntZigZag(r.val.v)])

\* int32(x)
Int32(x) == LET m == 2^(Word \div 2)
            IN ((x + m \div 2) % m) - m \div 2

encVints(months, days, nanos) == encVint(months) \o encVint(days) \o encVint(nanos)

decVints(data) ==
  LET Rest(r, b) == SubSeq(b, r.val.n + 1, Len(b))
      month == decVint(data)
      b1 == Rest(month, data)
      days == decVint(b1)
      b2 == Rest(days, b1)
      nanos == decVint(b2)
  IN IF month.err THEN Err ELSE IF days.err THEN Err ELSE IF nanos.err THEN Err
     ELSE Ok([Months |-> Int32(month.val.v), Days |-> Int32(days.val.v),
              Nanoseconds |-> nanos.val.v])

--------------------------------------------------------------------------------
(* The duration type.  time.ParseDuration of a duration text gives its     *)
(* nanoseconds.                                                            *)

\* An int64 of a named type takes the encoding of a bigint.
DurationMarshal(g) ==
  CASE g.kind = "int64" /\ g.named ->
         Ok(Bytes([i \in 1..W |-> (g.x \div VByte^(W - i)) % VByte]))
    [] g.kind \in {"int64", "time.Duration", "duration text"} ->
         Ok(Bytes(encVints(0, 0, g.x)))
    [] g.kind = "Duration" -> Ok(Bytes(encVints(g.x.Months, g.x.Days, g.x.Nanoseconds)))
    [] OTHER -> Err

DurationUnmarshal(data, dst) ==
  LET d == decVints(data.b)
  IN CASE dst.kind \notin {"Duration", "interface"} -> Err
       [] data.b = <<>> ->
            Ok(Go("Duration", [Months |-> 0, Days |-> 0, Nanoseconds |-> 0]))
       [] OTHER -> IF d.err THEN Err ELSE Ok(Go("Duration", d.val))

================================================================================
