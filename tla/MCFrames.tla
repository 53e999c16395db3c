--------------------------------- MODULE MCFrames ---------------------------------
(* Requests and responses of every kind, for TLC. *)
EXTENDS Frames

MCCustomNames == <<JavaName([Info("vector", <<Info("int", <<>>)>>) EXCEPT !.dim = 3])>>
MCStreams == {0, 300, 32767}

--------------------------------------------------------------------------------
(* Types, columns, metadata *)

IntType == Info("int", <<>>)
TextType == Info("varchar", <<>>)
Pair == Info("tuple", <<IntType, TextType>>)
Person == [Info("udt", <<IntType, Info("list", <<TextType>>)>>) EXCEPT !.ks = "ks", !.name = "u", !.names = <<"a", "b">>]
ColumnTypes == {<<IntType>>, <<Info("map", <<TextType, Pair>>), IntType>>, <<Pair, IntType>>, <<Person, Info("set", <<IntType>>)>>,
                <<[Info("vector", <<IntType>>) EXCEPT !.dim = 3], TextType>>, <<>>}

Column(i, type, ks) == [Keyspace |-> ks, Table |-> <<116>>, Name |-> <<98 + i>>, TypeInfo |-> type]
Columns(types, ks) == [i \in DOMAIN types |-> Column(i, types[i], ks)]

Scannable(types) ==
  FoldLeft(LAMBDA n, t : n + (IF t.t = "tuple" THEN Len(t.elems) ELSE 1), 0, types)

\* Metadata of the columns, with their keyspace and table given once or with each.
Metadata(types, global) ==
  [frame |-> "metadata", flags |-> Flag(global, 1), colCount |-> Len(types),
   actualColCount |-> Scannable(types), columns |-> Columns(types, <<107>>)]
    @@ Present(global, "ks", <<107>>) @@ Present(global, "table", <<116>>)
Paged(m) == [m EXCEPT !.flags = @ + 2] @@ [pagingState |-> Blob(<<9, 9>>)]
Changed(m) == [m EXCEPT !.flags = @ + 8] @@ [newMetadataID |-> <<5>>]
NoMeta(n) == [frame |-> "metadata", flags |-> 4, colCount |-> n, actualColCount |-> n, columns |-> <<>>]

Metadatas(protos) ==
  LET full == {Metadata(t, g) : t \in ColumnTypes, g \in BOOLEAN}
  IN full \cup {Paged(m) : m \in full}
       \cup (IF protos = {5} THEN {Changed(m) : m \in full} ELSE {})

--------------------------------------------------------------------------------
(* Responses *)

Prefixed(traced, warned, payload) ==
  [frame |-> "prefix"]
    @@ Present(traced, "traceID", [i \in 1..16 |-> i])
    @@ Present(warned, "warnings", << <<87>>, <<>> >>)
    @@ Present(payload, "customPayload", <<[k |-> <<112>>, v |-> Blob(<<1>>)], [k |-> <<113>>, v |-> Null]>>)
NoPrefix == Prefixed(FALSE, FALSE, FALSE)

M(o, protos, prefixes, bodies) == [op : {o}, protos : {protos}, prefix : prefixes, body : bodies, cells : {<<>>}]

Traced == {Prefixed(t, FALSE, FALSE) : t \in BOOLEAN}
Every == {Prefixed(t, w, p) : t, w, p \in BOOLEAN}

Error(e, fields) == [frame |-> "error", code |-> ErrCode[e], message |-> <<109>>] @@ fields
Count == [Consistency |-> 1, Received |-> 0, BlockFor |-> 2]
Failing(proto) ==
  IF proto = 5 THEN [ErrorMap |-> <<[k |-> <<10, 0, 0, 1>>, v |-> 3], [k |-> [i \in 1..16 |-> i], v |-> 0]>>,
                     NumFailures |-> 2]
  ELSE [NumFailures |-> 2]

Errors == [i \in 1..20 |->
  LET plain == <<"Server", "Protocol", "Credentials", "Overloaded", "Bootstrapping", "Truncate",
                 "CDCWriteFailure", "Syntax", "Unauthorized", "Invalid", "Config">>
      others == <<Error("Unavailable", [Consistency |-> 1, Required |-> 2, Alive |-> 1]),
                  Error("WriteTimeout", Count @@ [WriteType |-> <<66>>]),
                  Error("ReadTimeout", Count @@ [DataPresent |-> 1]),
                  Error("ReadFailure", Count @@ [DataPresent |-> TRUE]),
                  Error("WriteFailure", Count @@ [WriteType |-> <<66>>]),
                  Error("FunctionFailure", [Keyspace |-> <<107>>, Function |-> <<102>>, ArgTypes |-> << <<105>> >>]),
                  Error("CASWriteUnknown", Count),
                  Error("AlreadyExists", [Keyspace |-> <<107>>, Table |-> <<>>]),
                  Error("Unprepared", [StatementId |-> <<7, 7>>])>>
  IN IF i <= 11 THEN Error(plain[i], <<>>) ELSE others[i - 11]]

\* The number of failures, or from protocol 5 on the reason of each.
ErrorFamilies ==
  Concat([i \in 1..20 |->
    IF Errors[i].code \in {ErrCode["ReadFailure"], ErrCode["WriteFailure"]}
    THEN <<M(op.error, 3..4, Traced, {Errors[i] @@ Failing(4)}), M(op.error, {5}, Traced, {Errors[i] @@ Failing(5)})>>
    ELSE <<M(op.error, 3..5, Traced, {Errors[i]})>>])

Schema(target, fields) ==
  [frame |-> "schemaChange", change |-> <<67>>, target |-> Keyword[target], keyspace |-> <<107>>] @@ fields
SchemaBodies(o) ==
  <<M(o, 3..5, {NoPrefix}, {Schema("KEYSPACE", <<>>)}),
    M(o, 3..5, {NoPrefix}, {Schema(t, [object |-> <<111>>]) : t \in {"TABLE", "TYPE"}}),
    M(o, 3..5, {NoPrefix}, {Schema(t, [name |-> <<110>>, args |-> << <<105>>, <<>> >>]) : t \in {"FUNCTION", "AGGREGATE"}})>>
Event(type, ip) ==
  [frame |-> "event", type |-> Keyword[type], change |-> <<85>>, host |-> [ip |-> ip, port |-> 9042]]

OtherFamilies ==
  <<M(op.ready, 3..5, {NoPrefix}, {[frame |-> "ready"]}),
    M(op.authenticate, 3..5, {NoPrefix}, {[frame |-> "authenticate", class |-> c] : c \in {<<80, 65>>, [i \in 1..200 |-> 80]}}),
    M(op.authChallenge, 3..5, {NoPrefix}, {[frame |-> "authChallenge", data |-> d] : d \in {Null, Blob(<<>>), Blob(<<1>>)}}),
    M(op.authSuccess, 3..5, {NoPrefix}, {[frame |-> "authSuccess", data |-> d] : d \in {Null, Blob(<<2>>)}}),
    M(op.supported, 3..5, {NoPrefix}, {[frame |-> "supported", supported |->
        <<[k |-> <<67>>, v |-> << <<115>>, <<108>> >>], [k |-> <<86>>, v |-> <<>>]>>]}),
    M(op.event, 3..5, {NoPrefix}, {Event(t, ip) : t \in {"TOPOLOGY_CHANGE", "STATUS_CHANGE"},
                                                ip \in {<<10, 0, 0, 1>>, [i \in 1..16 |-> 15 * i]}}),
    M(op.result, 3..5, Every, {[frame |-> "void"]}),
    M(op.result, 3..5, Traced, {[frame |-> "keyspace", keyspace |-> <<107>>]})>>

Cell(i) == IF i % 3 = 0 THEN Null ELSE IF i % 3 = 1 THEN Blob(<<i>>) ELSE Blob(<<>>)
RowsOf(m, n) == [frame |-> "rows", meta |-> m, numRows |-> n]
RowMessages(protos, metas) ==
  {[op |-> op.result, protos |-> protos, prefix |-> Prefixed(n = 1, FALSE, n = 2 /\ protos # {3}),
    body |-> RowsOf(m, n), cells |-> [i \in 1..(n * m.colCount) |-> Cell(i)]] : m \in metas, n \in 0..2}
RowFamilies ==
  <<RowMessages(3..5, {NoMeta(2)}), RowMessages({3}, Metadatas({3})), RowMessages({4}, Metadatas({4})),
    RowMessages({5}, Metadatas({5})), RowMessages({5}, {Changed(Paged(Metadata(<<IntType>>, TRUE)))})>>

Keyed(m, proto) == IF proto = 3 THEN m ELSE m @@ [pkeyColumns |-> IF m.colCount = 0 THEN <<>> ELSE <<0>>]
PreparedBody(req, resp, proto) ==
  [frame |-> "prepared", preparedID |-> <<1, 2>>, reqMeta |-> Keyed(req, proto), respMeta |-> resp]
    @@ Present(proto = 5, "resultMetadataID", <<8>>)
PreparedFamilies ==
  [p \in 1..3 |->
    M(op.result, {p + 2}, {NoPrefix},
      {PreparedBody(Metadata(t, g), r, p + 2) : t \in ColumnTypes, g \in BOOLEAN,
                                              r \in {NoMeta(0), Metadata(<<IntType, Pair>>, TRUE)}})]

AllResponses ==
  ErrorFamilies \o SchemaBodies(op.event) \o SchemaBodies(op.result) \o OtherFamilies
    \o RowFamilies \o PreparedFamilies

--------------------------------------------------------------------------------
(* Requests *)

Value(name, v) == [name |-> name, value |-> v]
Payloads == {<<>>, <<[k |-> <<112>>, v |-> Blob(<<1>>)]>>}
StatementOf(types) == [id |-> <<1, 2>>, metaID |-> <<8>>, noMeta |-> types = <<>>,
                      request |-> [columns |-> Columns(types, <<107>>), actualColCount |-> Scannable(types)]]

QueryOptions(kss, nows) ==
  [cons : {1, 6}, serial : {0, 8}, ts : BOOLEAN, tsValue : {0, 5}, ks : kss, now : nows, trace : {FALSE}, payload : {<<>>}]

With(os, extra) == {o @@ extra : o \in os}

Values1 == {<<Value(<<>>, Blob(<<4>>))>>, <<Value(<<120>>, Null)>>}
Values2 == {<<Value(<<>>, Null), Value(<<>>, Blob(<<>>))>>,
            <<Value(<<120>>, Blob(<<4>>)), Value(<<121>>, Unset)>>}

Query(os, prepared, types, valueSets, stmt) ==
  {o @@ [kind |-> "query", prepared |-> prepared, stmt |-> stmt, values |-> v, pageSize |-> page,
         pageState |-> state, disableSkip |-> d, ps |-> StatementOf(types)] :
     o \in os, v \in valueSets, page \in {0, 5000}, state \in {<<>>, <<9, 9>>}, d \in BOOLEAN}

FullOptions == QueryOptions({<<>>, <<107>>}, {<<>>, <<-1>>})
FewOptions == {o \in QueryOptions({<<107>>}, {<<3>>}) : o.cons = 1 /\ (o.ts <=> o.tsValue = 5)}
Decorated == {[o EXCEPT !.payload = p, !.trace = t] : o \in FewOptions, p \in Payloads, t \in BOOLEAN}

BatchEntry(types, values, stmt) == [stmt |-> stmt, values |-> values, info |-> StatementOf(types)]
Batches ==
  {o @@ [kind |-> "batch", type |-> 1, entries |-> e] :
     o \in FullOptions,
     e \in {<<>>, <<BatchEntry(<<>>, <<>>, <<73>>)>>,
            <<BatchEntry(<<IntType, TextType>>, <<Value(<<>>, Null), Value(<<>>, Unset)>>, <<74>>), BatchEntry(<<>>, <<>>, <<73>>)>>,
            <<BatchEntry(<<IntType>>, <<Value(<<120>>, Null)>>, <<74>>)>>}}

Basic(kind) == [kind |-> kind, trace |-> FALSE, payload |-> <<>>]
AllRequests ==
  <<{Basic("startup") @@ [opts |-> <<[k |-> <<67>>, v |-> <<51>>], [k |-> <<68>>, v |-> <<>>]>>]},
    {Basic("options")}, {Basic("register") @@ [events |-> << <<84>>, <<83>> >>]},
    {Basic("authResponse") @@ [data |-> d] : d \in {Null, Blob(<<0, 97>>)}},
    {[kind |-> "prepare", trace |-> t, payload |-> p, stmt |-> <<83, 69>>, ks |-> k] :
       t \in BOOLEAN, p \in Payloads, k \in {<<>>, <<107>>}},
    Query(FullOptions, FALSE, <<>>, {<<>>}, <<83, 69>>),
    Query(FullOptions, TRUE, <<IntType>>, Values1, <<83>>),
    Query(FewOptions, TRUE, <<IntType, Info("list", <<Pair>>)>>, Values2, <<83>>),
    Query(Decorated, TRUE, <<IntType, TextType>>, Values2 \cup Values1, <<83>>),
    Query(FewOptions, FALSE, <<>>, {<<>>}, [i \in 1..200 |-> 83]), Batches>>

===================================================================================
