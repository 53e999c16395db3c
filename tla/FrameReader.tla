------------------------------- MODULE FrameReader -------------------------------
(***************************************************************************)
(* Reading a response (frame.go): the header, the body, and the frame that *)
(* parseFrame makes of it.  A frame is a record: the name of its Go type   *)
(* and the fields that were read.                                          *)
(***************************************************************************)
EXTENDS Wire, Types

CONSTANTS maxFrameSize,    \* 256 MB in the code
          CustomNames      \* the names of custom types: the string <<i>> is the i-th

Bit(flags, f) == (flags \div f) % 2 = 1

op == [error |-> 0, startup |-> 1, ready |-> 2, authenticate |-> 3, options |-> 5,
       supported |-> 6, query |-> 7, result |-> 8, prepare |-> 9, execute |-> 10, register |-> 11,
       event |-> 12, batch |-> 13, authChallenge |-> 14, authResponse |-> 15, authSuccess |-> 16]

flagGlobalTableSpec == 1
flagHasMorePages == 2
flagNoMetaData == 4
flagMetaDataChanged == 8

flagCompress == 1
flagTracing == 2
flagCustomPayload == 4
flagWarning == 8

--------------------------------------------------------------------------------
(* Types *)

TypeId == [custom |-> 0, int |-> 9, timestamp |-> 11, uuid |-> 12, varchar |-> 13, list |-> 32,
           map |-> 33, set |-> 34, udt |-> 48, tuple |-> 49]
TypeOf(id) == IF \E t \in DOMAIN TypeId : TypeId[t] = id
              THEN CHOOSE t \in DOMAIN TypeId : TypeId[t] = id ELSE "unknown"

\* The names of user types and of their fields, as Types writes them.
Letter(b) == CASE b = <<97>> -> "a" [] b = <<98>> -> "b" [] b = <<117>> -> "u" [] OTHER -> "ks"

\* n types, n fields with their names
readTypes == List("short", "type")
readUDTFields == List("short", "type entry")

\* CQLType.Params, as readParam reads them, and TypeInfoFromParams of what it read.
readParams ==
  [list |-> F("elem", "type"), set |-> F("elem", "type"), map |-> F("key", "type") \o F("value", "type"),
   tuple |-> F("elems", "types"),
   udt |-> F("ks", "string") \o F("name", "string") \o F("fields", "type entries")]
UDTInfo(ks, name, fields) ==
  [Info("udt", [i \in DOMAIN fields |-> fields[i].v]) EXCEPT
     !.ks = Letter(ks), !.name = Letter(name),
     !.names = [i \in DOMAIN fields |-> Letter(fields[i].k)]]
TypeInfoFromParams(impl, p) ==
  CASE impl \in {"list", "set"} -> Info(impl, <<p.elem>>)
    [] impl = "map" -> Info("map", <<p.key, p.value>>)
    [] impl = "tuple" -> Info("tuple", p.elems)
    [] impl = "udt" -> UDTInfo(p.ks, p.name, p.fields)

readCustom(buf) ==
  LET known(t, rest) == IF t = NoInfo THEN Failed ELSE Got(t, rest)
  IN After(readString(buf), LAMBDA name : known(typeInfoFromString(CustomNames[name.v[1]]), name.buf))

--------------------------------------------------------------------------------
(* What only the server reads, of a request *)

\* A bound value by its size: -2 is the size of an unset one, where the version has them.
ReadValue(buf) ==
  After(readInt(buf), LAMBDA size : IF size.v = -2 THEN Got(Unset, size.buf) ELSE readBytes(buf))
\* Before protocol 4 every negative size is null (readBytes).
OfVersion(values, proto) ==
  [i \in DOMAIN values |->
     IF proto < 4 /\ values[i].value = Unset THEN [values[i] EXCEPT !.value = Null] ELSE values[i]]
ReadLong(buf) == IF Len(buf) < 8 THEN Failed ELSE readInt(From(buf, 4))
ServerRecords ==
  "value" :> F("name", "nothing") \o F("value", "settable")
    @@ "named value" :> F("name", "string") \o F("value", "settable")
    @@ "string entry" :> Entry("string", "string")
    @@ "statement 0" :> F("stmt", "long string") \o F("values", "values")
    @@ "statement 1" :> F("id", "short bytes") \o F("values", "values")
ServerLists ==
  "values" :> List("short", "value") @@ "named values" :> List("short", "named value")
    @@ "string map" :> List("short", "string entry") @@ "statements" :> List("short", "statement")

--------------------------------------------------------------------------------
(* Reading fields one after the other, by their kinds *)

\* readCol; the keyspace and the table are left out when they are the same for all.
readCol(globalSpec) ==
  When(~globalSpec, F("Keyspace", "string") \o F("Table", "string"))
    \o F("Name", "string") \o F("TypeInfo", "type")

Records ==
  "inet" :> readInet @@ "bytes entry" :> Entry("string", "bytes") @@ "error" :> Entry("address", "short")
    @@ "string list entry" :> Entry("string", "string list") @@ "type entry" :> Entry("string", "type")
    @@ "column" :> readCol(FALSE) @@ "global column" :> readCol(TRUE) @@ ServerRecords
Lists ==
  "string list" :> readStringList @@ "bytes map" :> readBytesMap @@ "error map" :> readErrorMap
    @@ "string multimap" :> readStringMultiMap @@ "types" :> readTypes @@ "type entries" :> readUDTFields
    @@ "short list" :> List("int", "short") @@ ServerLists

RECURSIVE Read(_, _), Then(_, _), Items(_, _, _)

\* The record r.v, extended with the fields of the layout.
Extended(v, layout, x) ==
  After(x, LAMBDA y : Then(Got(v @@ (layout[1].name :> y.v), y.buf), Tail(layout)))
Then(r, layout) ==
  IF ~r.ok \/ layout = <<>> THEN r ELSE Extended(r.v, layout, Read(layout[1].kind, r.buf))

\* n items more, after those of r.
Appended(v, n, kind, x) == After(x, LAMBDA y : Items(Got(Append(v, y.v), y.buf), n - 1, kind))
Items(r, n, kind) == IF ~r.ok \/ n < 1 THEN r ELSE Appended(r.v, n, kind, Read(kind, r.buf))
readList(number, kind) == After(number, LAMBDA n : Items(Got(<<>>, n.buf), n.v, kind))

\* readTypeInfo, for a type with the name t, after its id.
readTypeInfo(t, buf) ==
  LET parameterised(impl) ==
        IF impl \notin DOMAIN readParams THEN Failed
        ELSE After(Then(Got(<<>>, buf), readParams[impl]),
                   LAMBDA p : Got(TypeInfoFromParams(impl, p.v), p.buf))
  IN CASE t = TypeCustom -> readCustom(buf)
       [] t \in Scalars -> Got(Info(t, <<>>), buf)
       [] OTHER -> parameterised(fastRegisteredTypeLookup(t))

Read(kind, buf) ==
  CASE kind = "byte" -> readByte(buf)
    [] kind = "bool" -> After(readByte(buf), LAMBDA b : Got(b.v # 0, b.buf))
    [] kind = "short" -> readShort(buf)
    [] kind = "consistency" -> readConsistency(buf)
    [] kind = "int" -> readInt(buf)
    [] kind = "string" -> readString(buf)
    [] kind = "bytes" -> readBytes(buf)
    [] kind = "short bytes" -> readShortBytes(buf)
    [] kind = "address" -> readInetAdressOnly(buf)
    [] kind = "trace" -> readTrace(buf)
    [] kind = "type" -> After(readShort(buf), LAMBDA typ : readTypeInfo(TypeOf(typ.v), typ.buf))
    [] kind = "nothing" -> Got(<<>>, buf)
    [] kind = "long" -> ReadLong(buf)
    [] kind = "long string" -> readLongString(buf)
    [] kind = "settable" -> ReadValue(buf)
    [] kind = "statement" ->
         After(readByte(buf), LAMBDA b : Read(IF b.v = 0 THEN "statement 0" ELSE "statement 1", b.buf))
    [] kind \in DOMAIN Records -> Then(Got(<<>>, buf), Records[kind])
    [] kind \in DOMAIN Lists -> readList(Read(Lists[kind].number, buf), Lists[kind].item)

Start(buf, frame) == Got([frame |-> frame], buf)

--------------------------------------------------------------------------------
(* The metadata of a result *)

\* A tuple adds the number of its elements.
Actual(colCount, columns) ==
  FoldLeft(LAMBDA n, c : n + (IF c.TypeInfo.t = "tuple" THEN Len(c.TypeInfo.elems) - 1 ELSE 0),
           colCount, columns)

\* spec.v has the fields up to the table specification; then come the columns.
WithColumns(spec, cols) ==
  [actualColCount |-> Actual(spec.colCount, cols),
   columns |-> [i \in DOMAIN cols |->
                  IF Bit(spec.flags, flagGlobalTableSpec)
                  THEN cols[i] @@ [Keyspace |-> spec.ks, Table |-> spec.table] ELSE cols[i]]] @@ spec
readCols(spec) ==
  IF spec.v.colCount < 0 THEN Failed
  ELSE After(Items(Got(<<>>, spec.buf), IF Bit(spec.v.flags, flagNoMetaData) THEN 0 ELSE spec.v.colCount,
                   IF Bit(spec.v.flags, flagGlobalTableSpec) THEN "global column" ELSE "column"),
             LAMBDA cols : Got(WithColumns(spec.v, cols.v), cols.buf))

\* What follows the flags and the number of columns.
paging(flags) == When(Bit(flags, flagHasMorePages), F("pagingState", "bytes"))
tableSpec(flags) ==
  When(~Bit(flags, flagNoMetaData) /\ Bit(flags, flagGlobalTableSpec),
       F("ks", "string") \o F("table", "string"))

MutparseResultMetadata(flags, proto) == paging(flags) \o tableSpec(flags)
parseResultMetadata(flags, proto) ==
  paging(flags)
    \o When(proto > 4 /\ Bit(flags, flagMetaDataChanged), F("newMetadataID", "short bytes"))
    \o tableSpec(flags)

\* The partition key columns are there from protocol 4 on.
parsePreparedMetadata(flags, proto) ==
  When(proto >= 4, F("pkeyColumns", "short list")) \o paging(flags) \o tableSpec(flags)

metaHead == F("flags", "int") \o F("colCount", "int")
parseMetadata(prepared, buf, proto) ==
  After(Then(Start(buf, "metadata"), metaHead), LAMBDA head :
    After(Then(head, IF prepared THEN parsePreparedMetadata(head.v.flags, proto)
                     ELSE parseResultMetadata(head.v.flags, proto)), readCols))

--------------------------------------------------------------------------------
(* The frames *)

ErrCode ==
  [Server |-> 0, Protocol |-> 10, Credentials |-> 256, Unavailable |-> 4096, Overloaded |-> 4097,
   Bootstrapping |-> 4098, Truncate |-> 4099, WriteTimeout |-> 4352, ReadTimeout |-> 4608,
   ReadFailure |-> 4864, FunctionFailure |-> 5120, WriteFailure |-> 5376, CDCWriteFailure |-> 5632,
   CASWriteUnknown |-> 5888, Syntax |-> 8192, Unauthorized |-> 8448, Invalid |-> 8704,
   Config |-> 8960, AlreadyExists |-> 9216, Unprepared |-> 9472]
ErrName(code) == CHOOSE e \in DOMAIN ErrCode : ErrCode[e] = code

\* What follows the code and the message.
Counts == F("Consistency", "consistency") \o F("Received", "int") \o F("BlockFor", "int")
Failures(proto) == IF proto > 4 THEN F("ErrorMap", "error map") ELSE F("NumFailures", "int")

ErrLayout(e, proto) ==
  CASE e = "Unavailable" -> F("Consistency", "consistency") \o F("Required", "int") \o F("Alive", "int")
    [] e = "WriteTimeout" -> Counts \o F("WriteType", "string")
    [] e = "ReadTimeout" -> Counts \o F("DataPresent", "byte")
    [] e = "AlreadyExists" -> F("Keyspace", "string") \o F("Table", "string")
    [] e = "Unprepared" -> F("StatementId", "short bytes")
    [] e = "ReadFailure" -> Counts \o Failures(proto) \o F("DataPresent", "bool")
    [] e = "WriteFailure" -> Counts \o Failures(proto) \o F("WriteType", "string")
    [] e = "FunctionFailure" -> F("Keyspace", "string") \o F("Function", "string")
                                  \o F("ArgTypes", "string list")
    [] e = "CASWriteUnknown" -> Counts
    [] OTHER -> <<>>

parseErrorFrame(buf, proto) ==
  LET details(head) ==
        IF head.v.code \in {ErrCode[x] : x \in DOMAIN ErrCode}
        THEN Then(head, ErrLayout(ErrName(head.v.code), proto)) ELSE Failed
      failures(e) == IF "ErrorMap" \in DOMAIN e THEN [NumFailures |-> Len(e.ErrorMap)] ELSE <<>>
  IN After(After(Then(Start(buf, "error"), F("code", "int") \o F("message", "string")), details),
           LAMBDA all : Got(all.v @@ failures(all.v), all.buf))

SchemaTargets ==
  [KEYSPACE |-> F("keyspace", "string"),
   TABLE |-> F("keyspace", "string") \o F("object", "string"),
   TYPE |-> F("keyspace", "string") \o F("object", "string"),
   FUNCTION |-> F("keyspace", "string") \o F("name", "string") \o F("args", "string list"),
   AGGREGATE |-> F("keyspace", "string") \o F("name", "string") \o F("args", "string list")]

\* The keywords of the protocol, as the bytes that stand for them here.
Keyword == [KEYSPACE |-> <<1>>, TABLE |-> <<2>>, TYPE |-> <<3>>, FUNCTION |-> <<4>>, AGGREGATE |-> <<5>>,
            TOPOLOGY_CHANGE |-> <<6>>, STATUS_CHANGE |-> <<7>>, SCHEMA_CHANGE |-> <<8>>]

parseResultSchemaChange(buf) ==
  LET known(target) == {t \in DOMAIN SchemaTargets : Keyword[t] = target}
  IN After(Then(Start(buf, "schemaChange"), F("change", "string") \o F("target", "string")),
           LAMBDA head : IF known(head.v.target) = {} THEN Failed
                         ELSE Then(head, SchemaTargets[CHOOSE t \in known(head.v.target) : TRUE]))

parseEventFrame(buf) ==
  After(readString(buf), LAMBDA type :
    CASE type.v \in {Keyword["TOPOLOGY_CHANGE"], Keyword["STATUS_CHANGE"]} ->
           Then(Got([frame |-> "event", type |-> type.v], type.buf),
                F("change", "string") \o F("host", "inet"))
      [] type.v = Keyword["SCHEMA_CHANGE"] -> parseResultSchemaChange(type.buf)
      [] OTHER -> Failed)

\* The rows stay in the buffer: the Iter reads them.
parseResultRows(buf, proto) ==
  After(parseMetadata(FALSE, buf, proto), LAMBDA meta :
    After(readInt(meta.buf), LAMBDA numRows :
      IF numRows.v < 0 THEN Failed
      ELSE Got([frame |-> "rows", meta |-> meta.v, numRows |-> numRows.v], numRows.buf)))

parseResultPrepared(buf, proto) ==
  After(Then(Start(buf, "prepared"), F("preparedID", "short bytes")
               \o When(proto > 4, F("resultMetadataID", "short bytes"))), LAMBDA ids :
    After(parseMetadata(TRUE, ids.buf, proto), LAMBDA reqMeta :
      After(parseMetadata(FALSE, reqMeta.buf, proto), LAMBDA respMeta :
        Got(ids.v @@ [reqMeta |-> reqMeta.v, respMeta |-> respMeta.v], respMeta.buf))))

parseResultFrame(buf, proto) ==
  After(readInt(buf), LAMBDA kind :
    CASE kind.v = 1 -> Start(kind.buf, "void")
      [] kind.v = 2 -> parseResultRows(kind.buf, proto)
      [] kind.v = 3 -> Then(Start(kind.buf, "keyspace"), F("keyspace", "string"))
      [] kind.v = 4 -> parseResultPrepared(kind.buf, proto)
      [] kind.v = 5 -> parseResultSchemaChange(kind.buf)
      [] OTHER -> Failed)

\* What precedes the body of the frame proper, in this order.
Preamble(flags) ==
  When(Bit(flags, flagTracing), F("traceID", "trace"))
    \o When(Bit(flags, flagWarning), F("warnings", "string list"))
    \o When(Bit(flags, flagCustomPayload), F("customPayload", "bytes map"))

parseBody(o, buf, proto) ==
  CASE o = op.error -> parseErrorFrame(buf, proto)
    [] o = op.ready -> Start(buf, "ready")
    [] o = op.result -> parseResultFrame(buf, proto)
    [] o = op.supported -> Then(Start(buf, "supported"), F("supported", "string multimap"))
    [] o = op.authenticate -> Then(Start(buf, "authenticate"), F("class", "string"))
    [] o = op.authChallenge -> Then(Start(buf, "authChallenge"), F("data", "bytes"))
    [] o = op.authSuccess -> Then(Start(buf, "authSuccess"), F("data", "bytes"))
    [] o = op.event -> parseEventFrame(buf)
    [] OTHER -> Failed

\* A request frame, one without the direction bit, is refused.
parseFrame(head, buf, proto) ==
  IF head.version < 128 THEN Failed
  ELSE After(Then(Start(buf, "prefix"), Preamble(head.flags)), LAMBDA before :
         After(parseBody(head.op, before.buf, proto), LAMBDA body :
           Got([head |-> head, prefix |-> before.v, body |-> body.v], body.buf)))

--------------------------------------------------------------------------------
(* The header and the body *)

\* readHeader: 9 bytes; the stream is an int16, the length an int32.
readHeader(wire) ==
  LET stream == wire[3] * 256 + wire[4]
      length == readInt(SubSeq(wire, 6, 9))
  IN IF wire = <<>> \/ (wire[1] % 128) \notin 3..5 \/ Len(wire) < 9 THEN Failed
     ELSE Got([version |-> wire[1], flags |-> wire[2],
               stream |-> IF stream > 32767 THEN stream - 65536 ELSE stream,
               op |-> wire[5], length |-> length.v], From(wire, 9))

\* A Compressor's AppendCompressedWithLength and AppendDecompressedWithLength.
Compress(b) == <<255>> \o Reverse(b)
Decompress(b) == IF b # <<>> /\ b[1] = 255 THEN Got(Reverse(Tail(b)), <<>>) ELSE Failed

\* readFrame: [ok, v, buf] with the body, and what is left on the wire.  A body that is
\* too big is discarded, so that the next frame can be read.
readFrame(head, wire, proto, compressor) ==
  LET body == SubSeq(wire, 1, head.length)
      plain == Decompress(body)
  IN CASE head.length < 0 -> [Failed EXCEPT !.buf = wire]
       [] head.length > maxFrameSize -> [Failed EXCEPT !.buf = From(wire, head.length)]
       [] Len(wire) < head.length -> Failed
       [] proto < 5 /\ Bit(head.flags, flagCompress) ->
            IF compressor /\ plain.ok THEN Got(plain.v, From(wire, head.length))
            ELSE [Failed EXCEPT !.buf = From(wire, head.length)]
       [] OTHER -> Got(body, From(wire, head.length))
================================================================================
