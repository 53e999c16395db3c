------------------------------- MODULE Composite -------------------------------
(***************************************************************************)
(* Marshal and Unmarshal (marshal.go), with the codecs of the composite    *)
(* types: lists, sets, maps, tuples, user defined types and vectors.       *)
(*                                                                         *)
(* A type is a record whose field t names it.  The x of a composite Go     *)
(* value holds its elements: a sequence, a set of pairs for a map, a       *)
(* function from names for the fields of a struct or a map of fields; the  *)
(* x of a composite destination holds the destinations of the elements.    *)
(* What a failed Unmarshal left in its destination is not kept.            *)
(***************************************************************************)
EXTENDS VInt, FiniteSets

\* A value of a type that has MarshalCQL holds what the method returns.
ScalarMarshal(t, g) ==
  CASE t = "tinyint" -> TinyIntMarshal(g)     [] t = "smallint" -> SmallIntMarshal(g)
    [] t = "int" -> IntMarshal(g)             [] t = "bigint" -> BigIntMarshal(g)
    [] t = "varint" -> VarintMarshal(g)       [] t \in {"text", "blob"} -> VarcharMarshal(g)
    [] t = "boolean" -> BooleanMarshal(g)     [] t = "float" -> FloatMarshal(g, 4)
    [] t = "double" -> DoubleMarshal(g)       [] t = "decimal" -> DecimalMarshal(g)
    [] t = "timestamp" -> TimestampMarshal(g) [] t = "time" -> TimeMarshal(g)
    [] t = "date" -> DateMarshal(g)           [] t = "duration" -> DurationMarshal(g)
    [] t = "uuid" -> uuidMarshal(g)           [] t = "timeuuid" -> TimeUUIDMarshal(g)
    [] t = "inet" -> InetMarshal(g)

ScalarUnmarshal(t, data, dst) ==
  CASE t \in DOMAIN TypeSize -> FixedUnmarshal(t, data, dst)
    [] t = "varint" -> VarintUnmarshal(data, dst)
    [] t \in {"text", "blob"} -> VarcharUnmarshal(t, data, dst)
    [] t = "boolean" -> BooleanUnmarshal(data, dst)
    [] t = "float" -> FloatUnmarshal(data, dst, 4)
    [] t = "double" -> DoubleUnmarshal(data, dst)
    [] t = "decimal" -> DecimalUnmarshal(data, dst)
    [] t = "timestamp" -> TimestampUnmarshal(data, dst)
    [] t = "time" -> TimeUnmarshal(data, dst)
    [] t = "date" -> DateUnmarshal(data, dst)
    [] t = "duration" -> DurationUnmarshal(data, dst)
    [] t = "uuid" -> uuidUnmarshal(data, dst)
    [] t = "timeuuid" -> TimeUUIDUnmarshal(data, dst)
    [] t = "inet" -> InetUnmarshal(data, dst)

\* The first failure among results, or what Join makes of their values.
Joined(rs, Join(_)) ==
  LET bad == {i \in DOMAIN rs : rs[i].err}
  IN IF bad = {} THEN Ok(Join([i \in DOMAIN rs |-> rs[i].val]))
     ELSE rs[CHOOSE i \in bad : \A j \in bad : i <= j]

--------------------------------------------------------------------------------
(* Marshal *)

\* writeCollectionSize, appendInt: four bytes, -1 for a null.
Size(n) == Enc(n, 4)

\* appendBytes, and what the collections write for an item: null is kept.
Item(d) == Size(IF d.nil THEN -1 ELSE Len(d.b)) \o d.b

\* A tuple has the length of the data, even of nil data.
TupleItem(d) == Size(Len(d.b)) \o d.b

RECURSIVE Marshal(_, _)

marshalListSet(ty, g) ==
  CASE g.kind \in {"nil", "unset", "nil slice"} -> Ok(Nil)
    [] g.kind \in {"slice", "array", "set map"} /\ Len(g.x) <= MaxInt(4) ->
         Joined([i \in DOMAIN g.x |-> Marshal(ty.elem, g.x[i])],
                LAMBDA items : Bytes(Size(Len(g.x))
                                     \o FlattenSeq([i \in DOMAIN items |-> Item(items[i])])))
    [] OTHER -> Err

\* The keys come in any order.
marshalMap(ty, g) ==
  LET pairs == SetToSeq(g.x)
      Part(i) == LET p == pairs[(i + 1) \div 2]
                 IN IF i % 2 = 1 THEN Marshal(ty.key, p[1]) ELSE Marshal(ty.elem, p[2])
  IN CASE g.kind \in {"nil", "unset", "nil map"} -> Ok(Nil)
       [] g.kind = "map" ->
            Joined([i \in 1..(2 * Len(pairs)) |-> Part(i)],
                   LAMBDA items : Bytes(Size(Len(pairs))
                                    \o FlattenSeq([i \in DOMAIN items |-> Item(items[i])])))
       [] OTHER -> Err

\* A []interface{} marks an untyped nil as null, the reflection paths a nil
\* pointer.  The type of a nil interface cannot be asked for.
TupleMarshal(ty, g) ==
  LET null(e) == e.kind = (IF g.kind = "interfaces" THEN "nil" ELSE "nil pointer")
  IN CASE g.kind = "nil" -> Panic
       [] /\ g.kind \in {"interfaces", "struct", "slice", "array"}
          /\ Len(g.x) = Len(ty.elems) ->
            Joined([i \in DOMAIN g.x |-> IF null(g.x[i]) THEN Ok(Nil)
                                         ELSE Marshal(ty.elems[i], g.x[i])],
                   LAMBDA items : Bytes(FlattenSeq([i \in DOMAIN items |->
                                    IF null(g.x[i]) THEN Size(-1) ELSE TupleItem(items[i])])))
       [] OTHER -> Err

\* The fields of the type, by name; one the value does not have is null.  The
\* fields of a UDTMarshaler are what its MarshalUDT returns.
UDTMarshal(ty, g) ==
  LET Field(f) == CASE f.name \notin DOMAIN g.x -> Ok(Nil)
                    [] g.kind = "UDTMarshaler" -> g.x[f.name]
                    [] OTHER -> Marshal(f.type, g.x[f.name])
  IN IF g.kind \notin {"UDTMarshaler", "field map", "struct"} THEN Err
     ELSE Joined([i \in DOMAIN ty.fields |-> Field(ty.fields[i])],
                 LAMBDA items : Bytes(FlattenSeq([i \in DOMAIN items |-> Item(items[i])])))

RECURSIVE isVectorVariableLengthType(_)
isVectorVariableLengthType(ty) ==
  IF ty.t = "vector" THEN isVectorVariableLengthType(ty.sub)
  ELSE ty.t \notin {"bigint", "boolean", "timestamp", "double", "float", "int",
                    "timeuuid", "uuid"}

\* A null element has no bytes, and no mark of its own.
VectorMarshal(ty, g) ==
  LET Elem(d) == (IF isVectorVariableLengthType(ty.sub)
                  THEN writeUnsignedVInt(Len(d.b)) ELSE <<>>) \o d.b
  IN CASE g.kind \in {"nil", "unset", "nil slice"} -> Ok(Nil)
       [] g.kind \in {"slice", "array"} /\ Len(g.x) = ty.dim ->
            Joined([i \in DOMAIN g.x |-> Marshal(ty.sub, g.x[i])],
                   LAMBDA items : Bytes(FlattenSeq([i \in DOMAIN items |-> Elem(items[i])])))
       [] OTHER -> Err

Marshal(ty, g) ==
  CASE g.kind = "nil pointer" -> Ok(Nil)
    [] g.kind = "pointer" -> Marshal(ty, g.x)
    [] g.kind = "Marshaler" -> g.x
    [] ty.t \in {"list", "set"} -> marshalListSet(ty, g)
    [] ty.t = "map" -> marshalMap(ty, g)
    [] ty.t = "tuple" -> TupleMarshal(ty, g)
    [] ty.t = "udt" -> UDTMarshal(ty, g)
    [] ty.t = "vector" -> VectorMarshal(ty, g)
    [] g.kind \in {"nil", "unset"} -> Ok(Nil)
    [] OTHER -> ScalarMarshal(ty.t, g)

--------------------------------------------------------------------------------
(* Unmarshal *)

\* The first n items of b, as the collections read them.
RECURSIVE CollectionItems(_, _)
CollectionItems(b, n) ==
  LET m == TwosComplement(SubSeq(b, 1, 4))
      rest == SubSeq(b, 5, Len(b))
      more(k) == CollectionItems(SubSeq(rest, k + 1, Len(rest)), n - 1)
  IN CASE n = 0 -> Ok(<<>>)
       [] n > 0 /\ Len(b) < 4 -> Err
       [] OTHER -> IF m < 0
                   THEN Joined(<<more(0)>>, LAMBDA r : <<Nil>> \o r[1])
                   ELSE IF Len(rest) < m THEN Err
                   ELSE Joined(<<more(m)>>, LAMBDA r : <<Bytes(SubSeq(rest, 1, m))>> \o r[1])

\* readBytes takes the length on trust: a slice beyond the data panics.
readBytes(b) ==
  LET m == TwosComplement(SubSeq(b, 1, 4))
  IN CASE m < 0 -> Ok([p |-> Nil, rest |-> SubSeq(b, 5, Len(b))])
       [] m >= 0 /\ Len(b) < 4 + m -> Panic
       [] OTHER -> Ok([p |-> Bytes(SubSeq(b, 5, 4 + m)), rest |-> SubSeq(b, 5 + m, Len(b))])

\* The items of a tuple: those that are missing are null.
RECURSIVE TupleItems(_, _)
TupleItems(b, n) ==
  LET r == IF Len(b) < 4 THEN Ok([p |-> Nil, rest |-> b]) ELSE readBytes(b)
  IN CASE n = 0 -> Ok(<<>>)
       [] n > 0 /\ r.err -> r
       [] OTHER -> Joined(<<TupleItems(r.val.rest, n - 1)>>, LAMBDA q : <<r.val.p>> \o q[1])

\* The items of a user defined type: as many as there are.
RECURSIVE MutUDTItems(_, _)
MutUDTItems(b, n) ==
  LET r == readBytes(b)
  IN CASE n = 0 -> Ok(<<>>)
       [] n > 0 /\ Len(b) < 4 -> Err
       [] OTHER -> IF r.err THEN r
                   ELSE Joined(<<MutUDTItems(r.val.rest, n - 1)>>, LAMBDA q : <<r.val.p>> \o q[1])
RECURSIVE UDTItems(_, _)
UDTItems(b, n) ==
  LET r == readBytes(b)
  IN CASE n = 0 \/ b = <<>> -> Ok(<<>>)
       [] n > 0 /\ Len(b) \in 1..3 -> Err
       [] OTHER -> IF r.err THEN r
                   ELSE Joined(<<UDTItems(r.val.rest, n - 1)>>, LAMBDA q : <<r.val.p>> \o q[1])

\* The destination of the type that Zero() has.
RECURSIVE ZeroDst(_)
ZeroDst(ty) ==
  CASE ty.t \in DOMAIN Natural -> Natural[ty.t]
    [] ty.t = "varint" -> Go("pointer", Go("big", 0))
    [] ty.t = "decimal" -> Go("pointer", Go("dec", 0))
    [] ty.t = "text" -> Go("string", 0)          [] ty.t = "blob" -> Go("bytes", 0)
    [] ty.t = "boolean" -> Go("bool", 0)         [] ty.t = "float" -> Go("float32", 0)
    [] ty.t = "double" -> Go("float64", 0)       [] ty.t = "time" -> Go("time.Duration", 0)
    [] ty.t \in {"timestamp", "date"} -> Go("Time", 0)
    [] ty.t = "duration" -> Go("Duration", 0)    [] ty.t = "inet" -> Go("IP", 0)
    [] ty.t \in {"uuid", "timeuuid"} -> Go("UUID", 0)
    [] ty.t \in {"list", "set"} -> Go("slice", ZeroDst(ty.elem))
    [] ty.t = "vector" -> Go("slice", ZeroDst(ty.sub))
    [] ty.t = "map" -> Go("map", [key |-> ZeroDst(ty.key), elem |-> ZeroDst(ty.elem)])
    [] ty.t = "tuple" -> Go("slice", Go("interface", 0))
    [] ty.t = "udt" -> Go("field map", 0)

RECURSIVE Unmarshal(_, _, _)

\* Each item into its destination.
UnmarshalAll(types, items, dsts) ==
  [i \in DOMAIN items |-> Unmarshal(types[i], items[i], dsts[i])]

Copies(x, n) == [i \in 1..n |-> x]

unmarshalListSet(ty, data, into) ==
  LET dst == IF into.kind = "interface" THEN ZeroDst(ty) ELSE into
      n == TwosComplement(SubSeq(data.b, 1, 4))
      items == CollectionItems(SubSeq(data.b, 5, Len(data.b)), n)
      elem == IF dst.kind = "array" THEN dst.x.elem ELSE dst.x
  IN CASE dst.kind \notin {"slice", "array"} -> Err
       [] data.nil -> IF dst.kind = "array" THEN Err ELSE Ok(Go("nil slice", 0))
       [] Len(data.b) < 4 -> Err
       [] dst.kind = "array" /\ n # dst.x.len -> Err
       [] n < 0 -> Panic
       [] OTHER -> IF items.err THEN items
                   ELSE Joined(UnmarshalAll(Copies(ty.elem, n), items.val, Copies(elem, n)),
                               LAMBDA xs : Go(dst.kind, xs))

\* SetMapIndex: the last of several equal keys stays.
unmarshalMap(ty, data, into) ==
  LET dst == IF into.kind = "interface" THEN ZeroDst(ty) ELSE into
      n == TwosComplement(SubSeq(data.b, 1, 4))
      items == CollectionItems(SubSeq(data.b, 5, Len(data.b)), 2 * n)
      Alternate(k, e) == [i \in 1..(2 * n) |-> IF i % 2 = 1 THEN k ELSE e]
      Pairs(xs) == {<<xs[2 * i - 1], xs[2 * i]>> : i \in
                      {i \in 1..n : \A j \in (i + 1)..n : xs[2 * j - 1] # xs[2 * i - 1]}}
  IN CASE dst.kind # "map" -> Err
       [] data.nil -> Ok(Go("nil map", 0))
       [] Len(data.b) < 4 -> Err
       [] n < 0 -> Err
       [] OTHER -> IF items.err THEN items
                   ELSE Joined(UnmarshalAll(Alternate(ty.key, ty.elem), items.val,
                                            Alternate(dst.x.key, dst.x.elem)),
                               LAMBDA xs : Go("map", Pairs(xs)))

\* A null reaches a destination that is no pointer as nil data.
TupleUnmarshal(ty, data, into) ==
  LET n == Len(ty.elems)
      empty == Copies(Go("interface", 0), n)
      dsts == CASE into.kind = "interface" -> empty
                [] into.kind = "slice" -> Copies(into.x, n)
                [] into.kind = "array" -> Copies(into.x.elem, into.x.len)
                [] OTHER -> into.x
      items == TupleItems(data.b, n)
  IN CASE into.kind \notin {"interface", "interfaces", "slice", "array", "struct"} -> Err
       [] Len(dsts) # n -> Err
       [] items.err -> items
       [] OTHER -> Joined(UnmarshalAll(ty.elems, items.val, dsts),
                          LAMBDA xs : Go(IF into.kind = "interface" THEN "interfaces"
                                         ELSE into.kind, xs))

\* A field the data does not have stays as it was in a struct and is left out of
\* a map; a field the struct does not have is skipped.
UDTUnmarshal(ty, data, into) ==
  LET kind == IF into.kind = "interface" THEN "field map" ELSE into.kind
      items == UDTItems(data.b, Len(ty.fields))
      name(i) == ty.fields[i].name
      has == {i \in 1..Len(items.val) : kind = "struct" => name(i) \in DOMAIN into.x}
      taken == SetToSortSeq(has, <)
      Dst(i) == CASE kind = "struct" -> into.x[name(i)]
                  [] kind = "field map" -> ZeroDst(ty.fields[i].type)
                  [] OTHER -> Go("Unmarshaler", 0)
      ByName(xs) == [f \in {name(i) : i \in has} |->
                       xs[CHOOSE k \in DOMAIN taken : name(taken[k]) = f]]
  IN CASE kind \notin {"field map", "struct", "UDTUnmarshaler"} -> Err
       [] data.nil /\ kind = "field map" -> Ok(Go("nil map", 0))
       [] data.b = <<>> /\ kind = "struct" -> Ok(Go("zero struct", 0))
       [] items.err -> items
       [] OTHER -> Joined(UnmarshalAll([k \in DOMAIN taken |-> ty.fields[taken[k]].type],
                                       [k \in DOMAIN taken |-> items.val[taken[k]]],
                                       [k \in DOMAIN taken |-> Dst(taken[k])]),
                          LAMBDA xs : Go(kind, ByName(xs)))

\* The elements of a vector, split evenly or by their lengths.
RECURSIVE VectorItems(_, _, _, _)
VectorItems(b, n, variable, size) ==
  LET len == readUnsignedVInt(b)
      m == IF variable THEN len.val.v ELSE size
      rest == IF variable THEN SubSeq(b, len.val.n + 1, Len(b)) ELSE b
  IN CASE n = 0 -> Ok(<<>>)
       [] n > 0 /\ variable /\ b = <<>> -> Err
       [] OTHER -> IF variable /\ len.err THEN Err
                   ELSE IF Len(rest) < m THEN Err
                   ELSE Joined(<<VectorItems(SubSeq(rest, m + 1, Len(rest)), n - 1,
                                             variable, size)>>,
                               LAMBDA r : <<Bytes(SubSeq(rest, 1, m))>> \o r[1])

VectorUnmarshal(ty, data, into) ==
  LET dst == IF into.kind = "interface" THEN ZeroDst(ty) ELSE into
      n == ty.dim
      items == VectorItems(data.b, n, isVectorVariableLengthType(ty.sub),
                           Len(data.b) \div n)
      elem == IF dst.kind = "array" THEN dst.x.elem ELSE dst.x
  IN CASE dst.kind \notin {"slice", "array"} -> Err
       [] data.nil -> IF dst.kind = "array" THEN Err ELSE Ok(Go("nil slice", 0))
       [] dst.kind = "array" /\ dst.x.len # n -> Err
       [] items.err -> Err
       [] OTHER -> Joined(UnmarshalAll(Copies(ty.sub, n), items.val, Copies(elem, n)),
                          LAMBDA xs : Go(dst.kind, xs))

\* info.Unmarshal
TypeUnmarshal(ty, data, dst) ==
  CASE ty.t \in {"list", "set"} -> unmarshalListSet(ty, data, dst)
    [] ty.t = "map" -> unmarshalMap(ty, data, dst)
    [] ty.t = "tuple" -> TupleUnmarshal(ty, data, dst)
    [] ty.t = "udt" -> UDTUnmarshal(ty, data, dst)
    [] ty.t = "vector" -> VectorUnmarshal(ty, data, dst)
    [] OTHER -> ScalarUnmarshal(ty.t, data, dst)

\* An interface{} that holds nothing has no type whose zero value to take; one
\* that holds a pointer is written through.
Unmarshal(ty, data, dst) ==
  LET k == dst.kind
      slice == k \in {"slice", "bytes", "IP"}
      held == k = "holding"
  IN CASE k = "Unmarshaler" -> Ok(Go(k, data))
       [] k = "pointer" /\ data.nil -> Ok(Go("nil pointer", 0))
       [] k = "pointer" /\ ~data.nil ->
            Joined(<<Unmarshal(ty, data, dst.x)>>, LAMBDA r : Go("pointer", r[1]))
       [] slice /\ data.nil -> Ok(CASE k = "slice" -> Go("nil slice", 0)
                                    [] k = "bytes" -> Go(k, Nil)
                                    [] k = "IP" -> Go(k, <<>>))
       [] k \in {"map", "field map"} /\ data.nil -> Ok(Go("nil map", 0))
       [] k = "interface" /\ data.nil -> Panic
       [] held /\ data.nil -> Ok(Go("zero", 0))
       [] held /\ ~data.nil -> IF dst.x.kind = "pointer" THEN Unmarshal(ty, data, dst.x.x)
                               ELSE TypeUnmarshal(ty, data, Go("interface", 0))
       [] OTHER -> TypeUnmarshal(ty, data, dst)

================================================================================
