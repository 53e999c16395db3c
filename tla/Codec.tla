--------------------------------- MODULE Codec ---------------------------------
(***************************************************************************)
(* A value on its way through a table: Marshal encodes the argument of a   *)
(* query for the type of its column, the server stores the bytes, and      *)
(* Unmarshal stores a column of a row in the destination of a Scan.        *)
(* Between the two a user defined type may gain a field (ALTER TYPE ADD),  *)
(* which the stored value does not have.                                   *)
(***************************************************************************)
EXTENDS Composite

\* Families of cases: the type of a column, a set of arguments and a sequence of
\* destinations.
CONSTANT Cases

VARIABLES ty, val, dst,    \* the type known when reading, the two Go sides
          step,            \* "bound", "stored", "scanned" or "failed"
          data,            \* the bytes in the table
          res              \* what Unmarshal stored

codecVars == <<ty, val, dst, step, data, res>>

CodecInit ==
  /\ \E i \in DOMAIN Cases :
       /\ ty = Cases[i].ty
       /\ val \in Cases[i].vals
       /\ \E j \in DOMAIN Cases[i].dsts : dst = Cases[i].dsts[j]
  /\ step = "bound" /\ data = Nil /\ res = Err

Bind ==
  /\ step = "bound"
  /\ \E r \in {Marshal(ty, val)} :
       IF r.err THEN step' = "failed" /\ res' = r /\ UNCHANGED data
       ELSE step' = "stored" /\ data' = r.val /\ UNCHANGED res
  /\ UNCHANGED <<ty, val, dst>>

AlterType ==
  /\ step = "stored" /\ ty.t = "udt" /\ Len(ty.fields) < 3
  /\ ty' = [ty EXCEPT !.fields = Append(@, [name |-> "added", type |-> [t |-> "int"]])]
  /\ UNCHANGED <<val, dst, step, data, res>>

Scan ==
  /\ step = "stored"
  /\ \E r \in {Unmarshal(ty, data, dst)} :
       step' = (IF r.err THEN "failed" ELSE "scanned") /\ res' = r
  /\ UNCHANGED <<ty, val, dst, data>>

CodecNext == Bind \/ AlterType \/ Scan

--------------------------------------------------------------------------------
(* What two Go values of a column have in common *)

IsNull(g) == \/ g.kind \in {"nil", "unset", "nil pointer", "nil slice", "nil map"}
             \/ g.kind = "bytes" /\ g.x.nil
             \/ g.kind = "IP" /\ g.x = <<>>

RECURSIVE IsZero(_)
IsZero(r) ==
  CASE r.kind \in SignedKinds \cup UnsignedKinds
                  \cup {"numeral", "big", "float32", "float64", "time.Duration"} -> r.x = 0
    [] r.kind \in {"string", "uuid text", "ip text"} -> r.x = <<>>
    [] r.kind = "bool" -> ~r.x
    [] r.kind = "UUID" -> \A i \in 1..16 : r.x[i] = 0
    [] r.kind = "Duration" -> r.x = [Months |-> 0, Days |-> 0, Nanoseconds |-> 0]
    [] r.kind \in {"struct", "array", "interfaces"} ->
         \A i \in DOMAIN r.x : IsZero(r.x[i]) \/ IsNull(r.x[i])
    [] OTHER -> r.kind \in {"zero Time", "zero struct", "zero"}

\* The point in time or the day of a value, in units of its type.
Instant(g, unit) == IF g.kind = "Time" THEN g.x \div unit ELSE g.x
Day(g) == IF g.kind = "int64" THEN g.x \div millisecondsInADay
          ELSE Instant(g, millisecondsInADay * Milli)

AsTime(g) == IF g.kind = "UUID" THEN Go("Time", UUIDTime(g.x)) ELSE g

Octets(g) == IF g.kind = "bytes" THEN g.x.b ELSE g.x
Digits(g) == IF g.kind = "uuid text" THEN SelectSeq(g.x, LAMBDA d : d # Dash)
             ELSE FlattenSeq([i \in 1..16 |-> <<Octets(g)[i] \div Digit, Octets(g)[i] % Digit>>])
Months(g) == IF g.kind = "Duration" THEN g.x
             ELSE [Months |-> 0, Days |-> 0, Nanoseconds |-> g.x]

ScalarAgree(t, g, r) ==
  CASE t \in {"text", "blob"} -> Octets(g) = Octets(r)
    [] t = "timestamp" -> Instant(g, Milli) = Instant(r, Milli)
    [] t = "date" -> Day(g) = Day(r)
    [] t = "duration" -> Months(g) = Months(r)
    [] t = "uuid" -> Digits(g) = Digits(r)
    [] t = "timeuuid" -> IF g.kind = "Time" THEN Instant(g, Hundred) = Instant(AsTime(r), Hundred)
                         ELSE Digits(g) = Digits(r)
    [] t = "inet" -> Shortest(g.x) = Shortest(r.x)
    [] OTHER -> g.x = r.x

\* r is what a reader should see of g.  A null is a nil where the destination
\* has one, else a zero value, and so is a zero time, which is stored as an empty
\* value; a plain []byte does not tell empty from null.
RECURSIVE Agree(_, _, _)
Agree(t, g, r) ==
  LET each(F(_)) == Len(g.x) = Len(r.x) /\ \A i \in DOMAIN g.x : Agree(F(i), g.x[i], r.x[i])
  IN CASE g.kind = "pointer" -> Agree(t, g.x, r)
       [] IsNull(g) -> IsNull(r) \/ IsZero(r)
       [] r.kind = "pointer" -> Agree(t, g, r.x)
       [] g.kind = "zero Time" -> IsZero(r)
       [] IsNull(r) -> r.kind = "bytes" /\ Octets(g) = <<>>
       [] t.t = "list" -> each(LAMBDA i : t.elem)
       [] t.t = "vector" -> each(LAMBDA i : t.sub)
       [] t.t = "tuple" -> each(LAMBDA i : t.elems[i])
       [] t.t = "set" -> /\ Len(g.x) = Len(r.x)
                         /\ \A i \in DOMAIN g.x : \E j \in DOMAIN r.x : Agree(t.elem, g.x[i], r.x[j])
       [] t.t = "map" -> /\ Cardinality(g.x) = Cardinality(r.x)
                         /\ \A p \in g.x : \E q \in r.x : /\ Agree(t.key, p[1], q[1])
                                                          /\ Agree(t.elem, p[2], q[2])
       [] t.t = "udt" /\ g.kind = "UDTMarshaler" ->
            \A f \in DOMAIN g.x : r.x[f].x = g.x[f].val
       [] t.t = "udt" /\ g.kind # "UDTMarshaler" ->
            \A i \in DOMAIN t.fields :
              LET f == t.fields[i] IN
              f.name \in DOMAIN r.x =>
                Agree(f.type, IF f.name \in DOMAIN g.x THEN g.x[f.name] ELSE Go("nil", 0),
                      r.x[f.name])
       [] OTHER -> ScalarAgree(t.t, g, r)

--------------------------------------------------------------------------------
(* Where what is read is not what was bound *)

\* A value without the pointer to it.
Direct(x) == IF x.kind = "pointer" THEN x.x ELSE x

ColumnSize(t) == IF t \in DOMAIN TypeSize THEN TypeSize[t] ELSE 8

\* An unsigned argument beyond a column's range is stored as the negative number of the
\* same bits, and a negative number is read into an unsigned destination as wide as the
\* column by its bits: neither is checked (FixedMarshal, IntoUnsigned).
Wrapped(t, g, r) ==
  /\ t \in DOMAIN TypeSize \cup {"varint"}
  /\ \/ g.kind \in UnsignedKinds /\ t # "varint"
        /\ g.x > MaxInt(ColumnSize(t)) /\ r.x = g.x - Base^ColumnSize(t)
     \/ r.kind \in UnsignedKinds /\ g.x < 0 /\ r.x = g.x + Base^ColumnSize(t)

\* The division of DateMarshal takes a time before the epoch that is no midnight for the
\* day after.
DayAfter(t, g, r) ==
  t = "date" /\ g.kind = "Time" /\ g.x < 0 /\ g.x % (millisecondsInADay * Milli) # 0
    /\ Day(r) = Day(g) + 1

\* A null in a tuple is sent as an empty value, unless it is the nil that the path of
\* TupleMarshal looks for.
SentEmpty(g, e) ==
  IsNull(e) /\ e.kind # (IF g.kind = "interfaces" THEN "nil" ELSE "nil pointer")
EmptyForNull(t, g, r) ==
  LET empty(x) == IsNull(Direct(x)) \/ IsZero(Direct(x))
  IN /\ t.t = "tuple" /\ g.kind \in {"interfaces", "struct", "slice", "array"}
     /\ \A i \in DOMAIN g.x : IF SentEmpty(g, g.x[i]) THEN empty(r.x[i])
                              ELSE Agree(t.elems[i], g.x[i], r.x[i])

--------------------------------------------------------------------------------
(* What a column and a destination can hold *)

\* Every number that the type and the destination both have; of a varint those
\* that an int64 has, and a uint64 that goes into one or into a big.Int.
NumberFits(t, g, d) ==
  LET k == IF d.kind = "interface" THEN ZeroDst([t |-> t]).kind ELSE d.kind
      inDst == CASE k \in SignedKinds -> FitsInt(g.x, Width[k])
                 [] k \in UnsignedKinds -> g.x \in 0..MaxUint(Width[k])
                 [] OTHER -> TRUE
  IN IF t # "varint" THEN FitsInt(g.x, TypeSize[t]) /\ inDst
     ELSE \/ FitsInt(g.x, 8) /\ inDst
          \/ g.kind = "uint64" /\ ~g.named /\ k \in {"uint64", "big"} /\ ~d.named
          \/ g.kind = "big" /\ k = "big"

\* Where the code takes no null, though Unmarshal says it stores a zero value: an
\* interface{} that holds nothing (a panic), an array, an inf.Dec, and the time of a
\* timeuuid.
NullRefused(t, d) ==
  d.kind \in {"interface", "array", "[16]byte", "dec"} \/ (t.t = "timeuuid" /\ d.kind = "Time")

\* Where Marshal takes no nil, though it says that nil is a null: a tuple (a panic) and a
\* user defined type.
NilRefused(t, g) == t.t \in {"tuple", "udt"} /\ g.kind = "nil"

\* A time.Duration holds a duration without months and days; DurationUnmarshal refuses it
\* every duration.
DurationRefused(t, d) == t.t = "duration" /\ d.kind = "time.Duration"

\* Whether g goes through a column of type t into d, by the documentation of Scan and
\* Marshal, or but for what the code refuses of it.
RECURSIVE CanHold(_, _, _, _)
CanHold(documented, t, g, d) ==
  LET all(F(_), D(_)) == \A i \in DOMAIN g.x : CanHold(documented, F(i), g.x[i], D(i))
      into == IF d.kind = "interface" THEN ZeroDst(t) ELSE d
      elem(i) == CASE into.kind = "array" -> into.x.elem
                   [] into.kind \in {"struct", "interfaces"} -> into.x[i]
                   [] OTHER -> into.x
      fits == CASE into.kind = "array" -> into.x.len = Len(g.x)
                [] into.kind \in {"struct", "interfaces"} -> Len(into.x) = Len(g.x)
                [] OTHER -> TRUE
  IN CASE g.kind = "pointer" -> CanHold(documented, t, g.x, d)
       [] ~documented /\ NilRefused(t, g) -> FALSE
       [] t.t \in {"tuple", "udt"} /\ g.kind = "unset" -> FALSE
       [] d.kind = "pointer" -> IsNull(g) \/ CanHold(documented, t, g, d.x)
       [] ~documented /\ DurationRefused(t, d) -> FALSE
       [] IsNull(g) -> documented \/ ~NullRefused(t, d)
       [] DurationRefused(t, d) -> Months(g).Months = 0 /\ Months(g).Days = 0
       [] t.t \in {"list", "set"} -> Len(g.x) <= MaxInt(4) /\ fits /\ all(LAMBDA i : t.elem, elem)
       [] t.t = "vector" -> Len(g.x) = t.dim /\ fits /\ all(LAMBDA i : t.sub, elem)
       [] t.t = "tuple" -> Len(g.x) = Len(t.elems) /\ fits /\ all(LAMBDA i : t.elems[i], elem)
       [] t.t \in DOMAIN TypeSize \cup {"varint"} -> NumberFits(t.t, g, d)
       [] OTHER -> TRUE

--------------------------------------------------------------------------------
(* Properties *)

\* What Scan stores is the value that was bound, whatever Go types carry it on the
\* two sides: numbers at the edges of their widths, trimmed varints, times rounded
\* to the unit of their type, texts, and nulls in collections, tuples and fields
\* (Marshal, Unmarshal).  The exceptions are those named: integers that cross between
\* signed and unsigned types by their bits, days before the epoch, and nulls in a tuple
\* that are sent as empty values.
RoundTrip ==
  step = "scanned" => \/ Agree(ty, val, res.val)
                      \/ Wrapped(ty.t, Direct(val), Direct(res.val))
                      \/ DayAfter(ty.t, Direct(val), Direct(res.val))
                      \/ EmptyForNull(ty, val, res.val)

\* Neither side fails, or panics, on a value that the column and the destination can
\* hold, even when the type has gained a field since (Marshal, Unmarshal).  What is
\* documented to be held and refused is named: NullRefused, NilRefused, DurationRefused.
NoNeedlessError == step = "failed" => ~CanHold(FALSE, ty, val, dst)

\* The documentation of the two, without an exception: "NULL values are unmarshaled as
\* zero values of the destination type", conversions between integers and from a duration
\* to a time.Duration are made "with range checking" (Scan), and "nil is serialized as CQL
\* null" (Marshal).
AsDocumented ==
  /\ step = "failed" => ~CanHold(TRUE, ty, val, dst)
  /\ step = "scanned" => Agree(ty, val, res.val)

================================================================================
