------------------------------ MODULE CodecCases -------------------------------
(***************************************************************************)
(* The cases of Codec that are checked: types of columns with the edges of *)
(* what their Go arguments hold, and the destinations they are read into.  *)
(***************************************************************************)
EXTENDS Composite

T(t) == [t |-> t]
D(k) == Go(k, 0)

(* Integers: the edges of every width, from every Go kind into every Go kind. *)
Edges == {0, 1, -1} \cup UNION {{2^k - 1, 2^k, -(2^k), -(2^k) - 1} : k \in {1, 2, 3, 4, 7, 8, 15, 16}}
InKind(k) == {x \in Edges : IF k \in SignedKinds THEN FitsInt(x, Width[k])
                            ELSE x \in 0..MaxUint(Width[k])}
Numbers == UNION {{Go(k, x), Named(k, x)} : <<k, x>> \in
                      UNION {{k} \X InKind(k) : k \in SignedKinds \cup UnsignedKinds}}
               \cup {Go("numeral", x) : x \in Edges} \cup {Go("big", x) : x \in Edges}
Many(ks) == [i \in DOMAIN ks |-> D(ks[i])]
IntDsts == Many(<<"int", "int64", "int32", "int16", "int8", "uint", "uint64", "uint32", "uint16",
                  "uint8", "numeral", "big", "interface">>) \o <<Named("uint64", 0)>>
Family(t, vals, dsts) == [ty |-> t, vals |-> vals, dsts |-> dsts]
IntCases ==
  LET plain == {g \in Numbers : g.kind # "big"}
  IN <<Family(T("tinyint"), plain, IntDsts), Family(T("smallint"), plain, IntDsts),
       Family(T("int"), plain, IntDsts), Family(T("bigint"), Numbers, IntDsts),
       Family(T("varint"), Numbers, IntDsts)>>

(* The other scalar types. *)
Times == {Go("Time", x) : x \in -40..40}
Decs == {Go("dec", [scale |-> s, unscaled |-> x]) : s \in {-128, -1, 0, 127}, x \in Edges}
AnUUID == [i \in 1..16 |-> (i * i) % Base]
IP4 == <<3, 0, 0, 1>>
IP6 == [i \in 1..16 |-> i % Base]
IPs(k) == {Go(k, x) : x \in {IP4, IP6, V4InV6 \o IP4}}
NsEdges == {0, 1, -1, 32767, -32768}
             \cup UNION {{2^k - 1, 2^k, -(2^k), -(2^k) - 1} : k \in 1..14}
Ns(k) == {Go(k, x) : x \in NsEdges}
Durations == {Go("Duration", [Months |-> m, Days |-> e, Nanoseconds |-> n]) :
                m \in {-128, -9, 0, 127}, e \in {-128, 0, 7, 8, 127},
                n \in {-32768, 0, 63, 64, 32767}}

\* Values of one kind each, their pointers and the nulls, into destinations of the
\* kinds ks, pointers to them and interfaces.
Of(t, vals, ks) ==
  LET dsts == Many(ks) \o [i \in DOMAIN ks |-> Go("pointer", D(ks[i]))]
                \o <<D("interface"), Go("holding", D("string")),
                     Go("holding", Go("pointer", D(ks[1])))>>
  IN FlattenSeq([i \in DOMAIN vals |-> <<Family(t, vals[i], dsts),
                                         Family(t, {Go("pointer", v) : v \in vals[i]}, dsts)>>])
     \o <<Family(t, {D("nil"), D("nil pointer"), D("unset")}, dsts)>>

Texts == <<{Go("string", <<>>), Go("string", <<1, 2>>)}, {Go("bytes", Nil)},
             {Go("bytes", Bytes(<<>>))}, {Go("bytes", Bytes(<<3, 0>>))}>>

ScalarCases == FlattenSeq(<<
  Of(T("text"), Texts, <<"string", "bytes">>),
  Of(T("blob"), Texts, <<"string", "bytes">>),
  Of(T("boolean"), <<{Go("bool", TRUE), Go("bool", FALSE)}>>, <<"bool">>),
  Of(T("float"), <<{Go("float32", x) : x \in {0, 1, 127, 128, 255}}>>, <<"float32">>),
  Of(T("double"), <<{Go("float64", x) : x \in {0, 1, 32768, 65535}}>>, <<"float64">>),
  Of(T("decimal"), <<Decs>>, <<"dec">>),
  Of(T("timestamp"), <<Times, {Go("zero Time", 0)}, {Go("int64", x) : x \in -5..5}>>,
     <<"Time", "int64">>),
  Of(T("time"), <<{Go(k, x) : k \in {"int64", "time.Duration"}, x \in {0, 1, 32767}}>>,
     <<"int64", "time.Duration">>),
  Of(T("date"), <<Times, {Go("zero Time", 0)}, {Go("date text", x) : x \in -5..5}>>,
     <<"Time", "date text">>),
  Of(T("duration"), <<Ns("int64"), Ns("time.Duration"), Ns("duration text"), Durations>>,
     <<"Duration", "time.Duration">>),
  Of(T("uuid"), <<{Go("UUID", AnUUID)}, {Go("[16]byte", AnUUID)}, {Go("bytes", Bytes(AnUUID))},
                  {Go("uuid text", UUIDString(AnUUID))},
                  {Go("uuid text", SelectSeq(UUIDString(AnUUID), LAMBDA d : d # Dash))}>>,
     <<"UUID", "[16]byte", "bytes", "uuid text">>),
  Of(T("timeuuid"), <<{Go("Time", x) : x \in (timeBase * Sec)..40 \cup
                                                        {2^k + 3 : k \in 8..14}}>>, <<"Time">>),
  Of(T("inet"), <<IPs("IP"), IPs("ip text")>>, <<"IP", "ip text">>)>>)

(* Composite types.  P and S are a pointer and a slice of a destination. *)
P(d) == Go("pointer", d)
S(d) == Go("slice", d)
A(n, d) == Go("array", [len |-> n, elem |-> d])
I(x) == Go("int", x)
Str(n) == Go("string", [i \in 1..n |-> i % Base])
Null == D("nil pointer")
List(t) == [t |-> "list", elem |-> T(t)]
SetOf(t) == [t |-> "set", elem |-> T(t)]
IntText == [t |-> "map", key |-> T("int"), elem |-> T("text")]
Tuple == [t |-> "tuple", elems |-> <<T("int"), T("text")>>]
Field(f, t) == [name |-> f, type |-> T(t)]
UDT == [t |-> "udt", fields |-> <<Field("a", "int"), Field("b", "text")>>]
Vector(t) == [t |-> "vector", sub |-> t, dim |-> 2]
One(t, g, dsts) == Family(t, {g}, dsts)

CollectionCases ==
  LET ints == <<S(D("int")), S(P(D("int"))), A(2, D("int64")), P(S(P(D("int")))), D("interface")>>
      texts == <<S(D("string")), S(P(D("string"))), A(2, P(D("string"))), D("interface")>>
      maps == <<Go("map", [key |-> D("int"), elem |-> D("string")]),
                Go("map", [key |-> D("int"), elem |-> P(D("string"))]), D("interface")>>
      Ints(x) == <<One(List("int"), x, ints), One(SetOf("int"), x, ints)>>
  IN FlattenSeq(<<Ints(Go("slice", <<I(5), I(-128)>>)), Ints(Go("slice", <<P(I(1)), Null>>)),
                  Ints(Go("array", <<I(0)>>)), Ints(Go("slice", <<>>)), Ints(D("nil slice")),
                  Ints(Go("set map", <<I(3), I(2)>>)), Ints(Go("slice", <<I(1), I(128)>>))>>)
     \o <<One(List("text"), Go("slice", <<Str(0), P(Str(2))>>), texts),
          One(List("text"), Go("slice", <<Null, D("nil")>>), texts),
          One(List("boolean"), Go("slice", [i \in 1..128 |-> Go("bool", TRUE)]),
              <<S(D("bool"))>>),
          One(IntText, Go("map", {<<I(1), Str(2)>>, <<I(2), Str(0)>>}), maps),
          One(IntText, Go("map", {<<I(1), Null>>}), maps),
          One(IntText, Go("map", {}), maps), One(IntText, D("nil map"), maps),
          One(Vector(T("int")), Go("slice", <<I(7), I(-1)>>), ints),
          One(Vector(T("int")), Go("slice", <<I(7)>>), ints),
          One(Vector(T("int")), D("nil slice"), ints),
          One(Vector(T("text")), Go("slice", <<Str(7), Str(9)>>), texts),
          One(Vector(T("text")), Go("array", <<Str(0), Str(70)>>), texts),
          One(Vector(Vector(T("text"))), Go("slice", <<Go("slice", <<Str(1), Str(8)>>),
                                                       Go("slice", <<Str(0), Str(2)>>)>>),
              <<S(S(D("string"))), D("interface")>>)>>

StructCases ==
  LET rows == <<Go("struct", <<D("int"), D("string")>>),
                Go("struct", <<P(D("int")), P(D("string"))>>),
                Go("interfaces", <<P(D("int")), D("string")>>), S(P(D("int"))),
                S(D("interface")), A(1, D("interface")), A(2, D("interface")), D("interface")>>
      most == SubSeq(rows, 1, 3) \o SubSeq(rows, 5, 8)
      flds == <<Go("struct", [a |-> D("int"), b |-> D("string")]),
                Go("struct", [b |-> P(D("string")), added |-> D("int")]),
                D("field map"), P(D("field map")), D("interface")>>
  IN <<One(Tuple, Go("interfaces", <<I(1), Str(2)>>), most),
       One(Tuple, Go("interfaces", <<D("nil"), Str(1)>>), most),
       One(Tuple, Go("struct", <<I(1), Null>>), most),
       One(Tuple, Go("interfaces", <<Null, Str(1)>>), most),
       One(Tuple, Go("interfaces", <<I(1), Go("bytes", Nil)>>), most),
       One(Tuple, Go("struct", <<I(1), Go("bytes", Nil)>>), most),
       One(Tuple, Go("struct", <<D("nil"), Str(2)>>), most),
       One(Tuple, Go("array", <<I(1)>>), rows), One(Tuple, D("unset"), rows), One(Tuple, D("nil"), rows),
       One(Tuple, D("nil pointer"), SubSeq(rows, 1, 7)),
       One(UDT, Go("struct", [a |-> I(1), b |-> Str(2)]), flds),
       One(UDT, Go("struct", [a |-> I(1)]), flds),
       One(UDT, Go("field map", [a |-> Null, b |-> Str(0)]), flds),
       One(UDT, D("nil pointer"), flds), One(UDT, D("unset"), flds), One(UDT, D("nil"), flds),
       One(UDT, Go("UDTMarshaler", [a |-> Ok(Bytes(<<1, 2>>)), b |-> Ok(Nil)]),
           <<D("UDTUnmarshaler")>>),
       One([t |-> "list", elem |-> UDT],
           Go("slice", <<Go("struct", [a |-> I(1), b |-> Null]), D("nil pointer")>>),
           <<S(flds[1]), S(P(flds[1])), S(flds[3])>>),
       One([t |-> "list", elem |-> Tuple],
           Go("slice", <<Go("struct", <<I(1), Null>>), Go("struct", <<I(2), Str(3)>>)>>),
           <<S(rows[1]), S(rows[2])>>)>>

AllCases == IntCases \o ScalarCases \o CollectionCases \o StructCases

================================================================================
