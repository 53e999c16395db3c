-------------------------------- MODULE Marshal --------------------------------
(***************************************************************************)
(* The codecs of the scalar CQL types (marshal.go, uuid.go): what          *)
(* TypeInfo.Marshal makes of a Go value and what TypeInfo.Unmarshal stores *)
(* in a destination.                                                       *)
(*                                                                         *)
(* A byte has two bits, so that TLC's integers hold nine of them; every    *)
(* width in bytes (1, 2, 4, 8, and 9 for an unsigned varint) is the code's.*)
(* A Go value is a record: its kind, whether its type is a named one (the  *)
(* reflection paths, of integers only here), and x.  A destination is a    *)
(* kind in the same way.  int and uint have 64 bits.                       *)
(***************************************************************************)
EXTENDS Integers, Sequences, SequencesExt

Bits == 2            \* of a byte
Base == 2^Bits
Half == Base \div 2  \* 0x80
Top == Base - 1      \* 0xFF

\* Go's integer division, which truncates.
Quo(a, b) == IF a >= 0 THEN a \div b ELSE -((-a) \div b)

\* A []byte that may be nil: nil is the CQL null.
Nil == [nil |-> TRUE, b |-> <<>>]
Bytes(b) == [nil |-> FALSE, b |-> b]

Err == [err |-> TRUE, panic |-> FALSE]
Panic == [err |-> TRUE, panic |-> TRUE]
Ok(v) == [err |-> FALSE, val |-> v]

Go(kind, x) == [kind |-> kind, named |-> FALSE, x |-> x]
Named(kind, x) == [kind |-> kind, named |-> TRUE, x |-> x]

--------------------------------------------------------------------------------
(* Big-endian integers *)

\* encInt, encShort, encBigInt: the low n bytes of x.
Enc(x, n) == [i \in 1..n |-> (x \div Base^(n - i)) % Base]

\* bytesToUint64
Unsigned(b) == FoldLeft(LAMBDA acc, d : acc * Base + d, 0, b)

\* decBigInt2C
TwosComplement(b) ==
  Unsigned(b) - (IF b # <<>> /\ b[1] >= Half THEN Base^Len(b) ELSE 0)

\* decTiny, decShort, decInt, decBigInt: null and empty are 0.
Dec(data, n) ==
  IF data.b = <<>> THEN Ok(0)
  ELSE IF Len(data.b) # n THEN Err ELSE Ok(TwosComplement(data.b))

MaxUint(n) == Base^n - 1
MaxInt(n) == Base^n \div 2 - 1
MinInt(n) == -(Base^n \div 2)
FitsInt(x, n) == MinInt(n) <= x /\ x <= MaxInt(n)

\* big.Int.Bytes: no leading zeros.
BigBytes(x) ==
  LET n == CHOOSE k \in 0..12 : Base^k > x /\ (k > 0 => Base^(k - 1) <= x)
  IN Enc(x, n)

\* big.Int.BitLen, of the absolute value.
BitLen(x) == LET a == IF x < 0 THEN -x ELSE x
             IN CHOOSE k \in 0..24 : 2^k > a /\ (k > 0 => 2^(k - 1) <= a)

encBigInt2C(x) ==
  LET up == BigBytes(x)
      down == BigBytes(x + Base^(BitLen(x) \div Bits + 1))
  IN CASE x = 0 -> <<0>>
       [] x > 0 -> IF up[1] >= Half THEN <<0>> \o up ELSE up
       [] x < 0 -> IF Len(down) >= 2 /\ down[1] = Top /\ down[2] >= Half
                   THEN Tail(down) ELSE down

--------------------------------------------------------------------------------
(* tinyint, smallint, int, bigint, varint *)

SignedKinds == {"int", "int64", "int32", "int16", "int8"}
UnsignedKinds == {"uint", "uint64", "uint32", "uint16", "uint8"}
Width == [int |-> 8, int64 |-> 8, int32 |-> 4, int16 |-> 2, int8 |-> 1,
          uint |-> 8, uint64 |-> 8, uint32 |-> 4, uint16 |-> 2, uint8 |-> 1]
TypeSize == [tinyint |-> 1, smallint |-> 2, int |-> 4, bigint |-> 8]

\* A signed integer and a numeral must fit, an unsigned one is only held to max
\* and its bits are taken as they are.
FixedMarshal(g, n, max) ==
  IF \/ g.kind \in SignedKinds \cup {"numeral"} /\ FitsInt(g.x, n)
     \/ g.kind \in UnsignedKinds /\ g.x <= max
  THEN Ok(Bytes(Enc(g.x, n))) ELSE Err

TinyIntMarshal(g) == FixedMarshal(g, 1, MaxUint(1))

SmallIntMarshal(g) == FixedMarshal(g, 2, MaxUint(2))

\* Reflection holds the unsigned integers to a lower bound.
IntMarshal(g) == FixedMarshal(g, 4, IF g.named THEN MaxInt(4) ELSE MaxUint(4))

BigIntMarshal(g) ==
  IF g.kind = "big" /\ FitsInt(g.x, 8) THEN Ok(Bytes(Enc(g.x, 8)))
  ELSE FixedMarshal(g, 8, IF g.kind = "uint64" /\ ~g.named THEN MaxUint(8)
                          ELSE MaxInt(8))

\* The loop that drops the leading bytes that only repeat the sign.
RECURSIVE Trim(_)
MutTrim(b) == IF Len(b) < 2 \/ b[1] \notin {0, Top} THEN b ELSE Trim(Tail(b))
Trim(b) ==
  IF Len(b) < 2 THEN b
  ELSE CASE b[1] \notin {0, Top} -> b
         [] b[1] = 0 /\ b[2] # 0 -> IF b[2] < Half THEN Tail(b) ELSE b
         [] b[1] = Top /\ b[2] # Top -> IF b[2] >= Half THEN Tail(b) ELSE b
         [] OTHER -> Trim(Tail(b))

VarintMarshal(g) ==
  LET r == IF g.kind = "uint64" /\ ~g.named
           THEN Ok(Bytes(Enc(g.x, IF g.x > MaxInt(8) THEN 9 ELSE 8)))
           ELSE IF g.kind = "big" THEN Ok(Bytes(encBigInt2C(g.x)))
           ELSE BigIntMarshal(g)
  IN IF r.err THEN r ELSE Ok(Bytes(Trim(r.val.b)))

\* An unsigned destination at least as wide as a fixed type takes its bits, *uint
\* and *uint64 those of any type; all others are checked.
IntoUnsigned(t, x, k) ==
  CASE t \in {"tinyint", "smallint", "int"} /\ TypeSize[t] <= Width[k] ->
         Ok(Go(k, x % Base^TypeSize[t]))
    [] t \in {"bigint", "varint"} /\ Width[k] = 8 -> Ok(Go(k, x % Base^8))
    [] OTHER -> IF 0 <= x /\ x <= MaxUint(Width[k]) THEN Ok(Go(k, x)) ELSE Err

unmarshalIntlike(t, x, data, dst) ==
  LET k == dst.kind
  IN CASE k \in {"int", "int64", "numeral"} -> Ok(Go(k, x))
       [] k = "big" -> Ok(Go(k, TwosComplement(data.b)))
       [] k \in {"int32", "int16", "int8"} ->
            IF FitsInt(x, Width[k]) THEN Ok(Go(k, x)) ELSE Err
       [] k \in UnsignedKinds -> IntoUnsigned(t, x, k)
       [] OTHER -> Err

\* What the fixed types store in an *interface{}.
Natural == [tinyint |-> Go("int8", 0), smallint |-> Go("int16", 0),
            int |-> Go("int", 0), bigint |-> Go("int64", 0)]

FixedUnmarshal(t, data, dst) ==
  LET d == Dec(data, TypeSize[t])
  IN IF d.err THEN Err
     ELSE unmarshalIntlike(t, d.val, data,
                           IF dst.kind = "interface" THEN Natural[t] ELSE dst)

VarintUnmarshal(data, dst) ==
  LET b == data.b
  IN CASE dst.kind \in {"big", "interface"} ->
            unmarshalIntlike("varint", 0, data, Go("big", 0))
       [] dst.kind = "uint64" /\ ~dst.named /\ Len(b) = 9 /\ b[1] = 0 ->
            Ok(Go("uint64", Unsigned(Tail(b))))
       [] OTHER -> IF Len(b) > 8 THEN Err
                   ELSE unmarshalIntlike("varint", TwosComplement(b), data, dst)

--------------------------------------------------------------------------------
(* varchar and blob, boolean, float, double, decimal *)

VarcharMarshal(g) ==
  CASE g.kind = "string" -> Ok(Bytes(g.x))
    [] g.kind = "bytes" -> Ok(g.x)
    [] OTHER -> Err

\* A []byte destination that was nil stays nil when the value is empty: append
\* has nothing to add.
VarcharUnmarshal(t, data, dst) ==
  CASE dst.kind = "string" -> Ok(Go("string", data.b))
    [] dst.kind = "bytes" -> Ok(Go("bytes", IF data.b = <<>> THEN Nil ELSE data))
    [] dst.kind = "interface" -> Ok(IF t = "blob" THEN Go("bytes", data)
                                    ELSE Go("string", data.b))
    [] OTHER -> Err

BooleanMarshal(g) ==
  IF g.kind = "bool" THEN Ok(Bytes(<<IF g.x THEN 1 ELSE 0>>)) ELSE Err

BooleanUnmarshal(data, dst) ==
  IF dst.kind \notin {"bool", "interface"} \/ Len(data.b) > 1 THEN Err
  ELSE Ok(Go("bool", data.b # <<>> /\ data.b[1] # 0))

\* A float is its bit pattern, n bytes of it.
FloatMarshal(g, n) ==
  IF g.kind = (IF n = 4 THEN "float32" ELSE "float64")
  THEN Ok(Bytes(Enc(g.x, n))) ELSE Err

FloatUnmarshal(data, dst, n) ==
  LET kind == IF n = 4 THEN "float32" ELSE "float64"
      d == Dec(data, n)
  IN IF d.err \/ dst.kind \notin {kind, "interface"} THEN Err
     ELSE Ok(Go(kind, d.val % Base^n))

DoubleMarshal(g) == FloatMarshal(g, 8)

DoubleUnmarshal(data, dst) == FloatUnmarshal(data, dst, 8)

DecimalMarshal(g) ==
  IF g.kind = "dec"
  THEN Ok(Bytes(Enc(g.x.scale, 4) \o encBigInt2C(g.x.unscaled))) ELSE Err

\* A null has fewer than four bytes as well.
DecimalUnmarshal(data, dst) ==
  IF Len(data.b) < 4 \/ dst.kind \notin {"dec", "interface"} THEN Err
  ELSE Ok(Go("dec", [scale |-> TwosComplement(SubSeq(data.b, 1, 4)),
                     unscaled |-> TwosComplement(SubSeq(data.b, 5, Len(data.b)))]))

--------------------------------------------------------------------------------
(* timestamp, time, date.  A time.Time is a number of nanoseconds; the units *)
(* are scaled.  Unix() rounds down, and Nanosecond() is not negative.        *)

Hundred == 2                  \* hundred nanoseconds
Milli == 2 * Hundred
MilliPerSec == 2
Sec == MilliPerSec * Milli
millisecondsInADay == 2 * MilliPerSec

UnixMilli(t) == (t \div Sec) * MilliPerSec + (t % Sec) \div Milli

TimestampMarshal(g) ==
  CASE g.kind = "int64" -> Ok(Bytes(Enc(g.x, 8)))
    [] g.kind = "Time" -> Ok(Bytes(Enc(UnixMilli(g.x), 8)))
    [] g.kind = "zero Time" -> Ok(Bytes(<<>>))
    [] OTHER -> Err

TimestampUnmarshal(data, dst) ==
  LET d == Dec(data, 8)
      sec == Quo(d.val, MilliPerSec)
  IN CASE d.err -> Err
       [] dst.kind = "int64" -> Ok(Go("int64", d.val))
       [] dst.kind \in {"Time", "interface"} /\ data.b = <<>> -> Ok(Go("zero Time", 0))
       [] dst.kind \in {"Time", "interface"} ->
            Ok(Go("Time", sec * Sec + (d.val - sec * MilliPerSec) * Milli))
       [] OTHER -> Err

TimeMarshal(g) ==
  IF g.kind \in {"int64", "time.Duration"} THEN Ok(Bytes(Enc(g.x, 8))) ELSE Err

TimeUnmarshal(data, dst) ==
  LET d == Dec(data, 8)
  IN CASE d.err -> Err
       [] dst.kind \in {"int64", "time.Duration"} -> Ok(Go(dst.kind, d.val))
       [] dst.kind = "interface" -> Ok(Go("time.Duration", d.val))
       [] OTHER -> Err

\* Days since the epoch, with 2^31 for day 0.
Origin == Base^4 \div 2
DayOf(ms) == Quo(ms, millisecondsInADay)
EncDate(ms) == Ok(Bytes(Enc(DayOf(ms) + Origin, 4)))

\* A date text is the number of its day; time.Parse gives its midnight.
DateMarshal(g) ==
  CASE g.kind = "int64" -> EncDate(g.x)
    [] g.kind = "Time" -> EncDate(UnixMilli(g.x))
    [] g.kind = "date text" -> EncDate(UnixMilli(g.x * millisecondsInADay * Milli))
    [] g.kind = "zero Time" -> Ok(Bytes(<<>>))
    [] OTHER -> Err

DateUnmarshal(data, dst) ==
  LET ms == (Unsigned(data.b) - Origin) * millisecondsInADay
  IN CASE dst.kind \notin {"Time", "date text", "interface"} -> Err
       [] data.b = <<>> -> Ok(Go(IF dst.kind = "date text" THEN "string" ELSE "zero Time",
                                 <<>>))
       [] dst.kind = "date text" -> Ok(Go("date text", (ms * Milli) \div
                                                       (millisecondsInADay * Milli)))
       [] OTHER -> Ok(Go("Time", ms * Milli))

--------------------------------------------------------------------------------
(* uuid, timeuuid (uuid.go).  A UUID is 16 bytes; a byte has two digits.     *)

Digit == 2^(Bits \div 2)      \* 16 in the code
Dash == -1

\* The text of a UUID, a sequence of digits with dashes after 4, 6, 8, 10 bytes.
UUIDString(u) ==
  FlattenSeq([i \in 1..16 |-> <<u[i] \div Digit, u[i] % Digit>>
                              \o IF i \in {4, 6, 8, 10} THEN <<Dash>> ELSE <<>>])

\* A dash counts only between two bytes; there must be 32 digits.
ParseUUID(text) ==
  LET Step(acc, r) ==
        CASE acc.err -> acc
          [] r = Dash /\ Len(acc.val) % 2 = 0 -> acc
          [] r \in 0..(Digit - 1) /\ Len(acc.val) < 32 -> Ok(Append(acc.val, r))
          [] OTHER -> Err
      digits == FoldLeft(Step, Ok(<<>>), text)
  IN IF digits.err THEN Err ELSE IF Len(digits.val) # 32 THEN Err
     ELSE Ok([i \in 1..16 |-> digits.val[2 * i - 1] * Digit + digits.val[2 * i]])

UUIDFromBytes(b) == IF Len(b) # 16 THEN Err ELSE Ok(b)

timeBase == -3                \* the seconds of 15 October 1582, scaled
HundredPerSec == Sec \div Hundred

getTimestamp(t) == (t \div Sec - timeBase) * HundredPerSec + (t % Sec) \div Hundred

\* The 60 bits of the timestamp in three parts, the version above the highest.
TimeUUIDWith(t, clock, node) ==
  LET b(k) == (t \div Base^k) % Base
  IN <<b(3), b(2), b(1), b(0), b(5), b(4), Digit + (b(7) % Digit), b(6),
       Half, clock % Base>> \o node

UUIDFromTime(t, clock, node) == TimeUUIDWith(getTimestamp(t), clock, node)

Version(u) == u[7] \div Digit

Timestamp(u) == Unsigned(<<u[7] % Digit, u[8], u[5], u[6], u[1], u[2], u[3], u[4]>>)

UUIDTime(u) == (Timestamp(u) \div HundredPerSec + timeBase) * Sec
               + (Timestamp(u) % HundredPerSec) * Hundred

uuidMarshal(g) ==
  CASE g.kind \in {"UUID", "[16]byte"} -> Ok(Bytes(g.x))
    [] g.kind = "bytes" -> IF Len(g.x.b) = 16 THEN Ok(g.x) ELSE Err
    [] g.kind = "uuid text" -> LET u == ParseUUID(g.x)
                               IN IF u.err THEN Err ELSE Ok(Bytes(u.val))
    [] OTHER -> Err

uuidUnmarshal(data, dst) ==
  LET k == dst.kind
  IN CASE k \notin {"uuid text", "bytes", "UUID", "[16]byte", "interface"} -> Err
       [] data.b = <<>> ->
            (CASE k = "uuid text" -> Ok(Go(k, <<>>))
               [] k = "bytes" -> Ok(Go(k, Nil))
               [] k = "[16]byte" -> Err
               [] OTHER -> Ok(Go("UUID", [i \in 1..16 |-> 0])))
       [] Len(data.b) # 16 -> Err
       [] k = "uuid text" -> Ok(Go(k, UUIDString(data.b)))
       [] k = "bytes" -> Ok(Go(k, data))
       [] OTHER -> Ok(Go(IF k = "interface" THEN "UUID" ELSE k, data.b))

\* The clock sequence and the node of this process are any.
TimeUUIDMarshal(g) ==
  IF g.kind = "Time"
  THEN Ok(Bytes(UUIDFromTime(g.x, 1, [i \in 1..6 |-> i % Base])))
  ELSE uuidMarshal(g)

TimeUUIDUnmarshal(data, dst) ==
  LET u == UUIDFromBytes(data.b)
  IN IF dst.kind # "Time" THEN uuidUnmarshal(data, dst)
     ELSE IF u.err THEN Err ELSE IF Version(u.val) # 1 THEN Err
     ELSE Ok(Go("Time", UUIDTime(u.val)))

--------------------------------------------------------------------------------
(* inet.  net.IP is 4 or 16 bytes.                                           *)

V4InV6 == [i \in 1..12 |-> IF i <= 10 THEN 0 ELSE Top]
IsV4(ip) == Len(ip) = 4 \/ (Len(ip) = 16 /\ SubSeq(ip, 1, 12) = V4InV6)
To4(ip) == SubSeq(ip, Len(ip) - 3, Len(ip))
Shortest(ip) == IF IsV4(ip) THEN To4(ip) ELSE ip

\* net.ParseIP makes 16 bytes of a text; a net.IP of another length has no
\* To16, and is null.
InetMarshal(g) ==
  LET ip == IF g.kind = "ip text" /\ Len(g.x) = 4 THEN V4InV6 \o g.x ELSE g.x
  IN CASE g.kind = "ip text" /\ Len(g.x) \notin {4, 16} -> Err
       [] g.kind \in {"IP", "ip text"} -> Ok(IF Len(ip) \in {4, 16} THEN Bytes(Shortest(ip))
                                             ELSE Nil)
       [] OTHER -> Err

InetUnmarshal(data, dst) ==
  CASE dst.kind \notin {"IP", "ip text", "interface"} -> Err
    [] data.b = <<>> -> Ok(Go(IF dst.kind = "ip text" THEN dst.kind ELSE "IP", <<>>))
    [] Len(data.b) \notin {4, 16} /\ dst.kind # "ip text" -> Err
    [] OTHER -> Ok(Go(IF dst.kind = "ip text" THEN dst.kind ELSE "IP", Shortest(data.b)))

================================================================================
