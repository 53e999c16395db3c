---------------------------------- MODULE Frames ----------------------------------
(***************************************************************************)
(* A connection's frames, both ways: the driver builds a request, the      *)
(* server decodes it by the rules of the protocol version; the server      *)
(* encodes a response, the driver reads and parses it, and an Iter reads   *)
(* the cells of its rows.  The server is external: it is modelled from     *)
(* what frame.go expects of each version.                                  *)
(***************************************************************************)
EXTENDS FrameWriter

CONSTANTS Requests,      \* families (sets) of requests, in a sequence
          Responses,     \* families of responses
          Streams

VARIABLES conn,          \* [proto, compressor]
          phase,         \* idle, sent, refused, served, answered, parsed
          asking,        \* the request: kind, options, stream
          wire,          \* the bytes on the socket
          seen,          \* what the server decoded
          reply,         \* the response the server sent
          frame          \* what the driver made of it

framesVars == <<conn, phase, asking, wire, seen, reply, frame>>

Nothing == [kind |-> "nothing"]

FramesInit ==
  /\ conn \in [proto : 3..5, compressor : BOOLEAN]
  /\ phase = "idle" /\ asking = Nothing /\ wire = <<>>
  /\ seen = Failed /\ reply = Nothing /\ frame = Failed

--------------------------------------------------------------------------------
(* The server: requests *)

FlagsKind(proto) == IF proto > 4 THEN "int" ELSE "byte"
ServerHead(proto) == F("cons", "short") \o F("flags", FlagsKind(proto))
RequestLayout(o, proto) ==
  CASE o = op.startup -> F("opts", "string map")
    [] o = op.options -> <<>>
    [] o = op.register -> F("events", "string list")
    [] o = op.authResponse -> F("data", "bytes")
    [] o = op.prepare -> F("stmt", "long string") \o When(proto > 4, F("flags", "int"))
    [] o = op.query -> F("stmt", "long string") \o ServerHead(proto)
    [] o = op.execute ->
         F("id", "short bytes") \o When(proto > 4, F("metaID", "short bytes")) \o ServerHead(proto)
    [] o = op.batch -> F("type", "byte") \o F("entries", "statements") \o ServerHead(proto)

\* What follows the flags.
ValuesLayout(flags) ==
  When(Bit(flags, flagValues),
       F("values", IF Bit(flags, flagWithNameValues) THEN "named values" ELSE "values"))
    \o When(Bit(flags, flagPageSize), F("pageSize", "int"))
    \o When(Bit(flags, flagWithPagingState), F("pageState", "bytes"))
TailLayout(flags, proto) ==
  When(Bit(flags, flagWithSerialConsistency), F("serial", "short"))
    \o When(Bit(flags, flagDefaultTimestamp), F("ts", "long"))
    \o When(proto > 4 /\ Bit(flags, flagWithKeyspace), F("ks", "string"))
    \o When(proto > 4 /\ Bit(flags, flagWithNowInSeconds), F("now", "int"))
FlaggedLayout(o, flags, proto) ==
  CASE o = op.prepare -> When(Bit(flags, 1), F("ks", "string"))
    [] o \in {op.query, op.execute} -> ValuesLayout(flags) \o TailLayout(flags, proto)
    [] o = op.batch -> TailLayout(flags, proto)

\* The flags are not part of what a request means, but for skip_metadata; the values are
\* those of the protocol version.
Meaning(q, proto) ==
  LET bound == IF "values" \notin DOMAIN q THEN q ELSE [q EXCEPT !.values = OfVersion(@, proto)]
      entry(e) == [e EXCEPT !.values = OfVersion(@, proto)]
      all == IF q.op # op.batch THEN bound
             ELSE [q EXCEPT !.entries = [i \in DOMAIN @ |-> entry(@[i])]]
  IN IF q.op \notin {op.query, op.execute, op.batch} THEN q
     ELSE [x \in DOMAIN q \ {"flags"} |-> all[x]] @@ [skipMeta |-> Bit(q.flags, flagSkipMetaData)]

ServerBody(r, proto) ==
  LET flagged(q) == IF "flags" \in DOMAIN q.v THEN Then(q, FlaggedLayout(q.v.op, q.v.flags, proto)) ELSE q
  IN After(Then(r, RequestLayout(r.v.op, proto)), LAMBDA q :
       After(flagged(q), LAMBDA all : Got(Meaning(all.v, proto), all.buf)))

\* The server refuses a frame of another version, one whose length is not the body's,
\* and a compressed one when no compression was agreed, as before STARTUP.
ServerDecode(c, bytes) ==
  LET compressed(head) == c.proto < 5 /\ Bit(head.flags, flagCompress)
      plain(head, body) ==
        CASE head.version # c.proto \/ head.length # Len(body) -> Failed
          [] ~compressed(head) -> Got(body, <<>>)
          [] ~c.compressor \/ head.op \in {op.startup, op.options} -> Failed
          [] OTHER -> Decompress(body)
      first(head, body) ==
        Then(Got([op |-> head.op, stream |-> head.stream, trace |-> Bit(head.flags, flagTracing)], body),
             When(Bit(head.flags, flagCustomPayload), F("payload", "bytes map")))
      request(head) ==
        After(plain(head.v, head.buf), LAMBDA body :
          After(first(head.v, body.v), LAMBDA r : ServerBody(r, c.proto)))
  IN After(After(readHeader(bytes), request), LAMBDA r : IF r.buf = <<>> THEN r ELSE Failed)

--------------------------------------------------------------------------------
(* The server: responses *)

RECURSIVE writeType(_)
writeType(t) ==
  LET elems == Concat([i \in DOMAIN t.elems |-> writeType(t.elems[i])])
      chars(n) == CASE n = "a" -> <<97>> [] n = "b" -> <<98>> [] n = "u" -> <<117>> [] n = "ks" -> <<107>>
      fields == Concat([i \in DOMAIN t.elems |-> writeString(chars(t.names[i])) \o writeType(t.elems[i])])
      id == IF t.t \in DOMAIN TypeId THEN TypeId[t.t] ELSE 0
      named == CHOOSE i \in DOMAIN CustomNames : CustomNames[i] = JavaName(t)
  IN writeShort(id) \o
     CASE id = 0 -> writeString(<<named>>)
       [] t.t = "tuple" -> writeShort(Len(t.elems)) \o elems
       [] t.t = "udt" -> writeString(chars(t.ks)) \o writeString(chars(t.name))
                           \o writeShort(Len(t.elems)) \o fields
       [] OTHER -> elems

\* The metadata m: its flags follow from the fields it has.
Given(m, f) == f \in DOMAIN m
writeMeta(m, proto, prepared) ==
  LET global == Given(m, "ks")
      col(k) == (IF global THEN <<>> ELSE writeString(k.Keyspace) \o writeString(k.Table))
                  \o writeString(k.Name) \o writeType(k.TypeInfo)
  IN writeInt(m.flags) \o writeInt(m.colCount)
       \o Optional(prepared /\ proto >= 4, writeInt(Len(m.pkeyColumns))
                     \o Concat([i \in DOMAIN m.pkeyColumns |-> writeShort(m.pkeyColumns[i])]))
       \o Optional(Given(m, "pagingState"), writeBytes(m.pagingState))
       \o Optional(Given(m, "newMetadataID"), writeShortBytes(m.newMetadataID))
       \o Optional(global, writeString(m.ks) \o writeString(m.table))
       \o Concat([i \in DOMAIN m.columns |-> col(m.columns[i])])

writeInet(a) == writeByte(Len(a.ip)) \o a.ip \o writeShort(a.port)

SchemaBody(b) ==
  writeString(b.change) \o writeString(b.target) \o writeString(b.keyspace)
    \o Optional(Given(b, "object"), writeString(b.object))
    \o Optional(Given(b, "name"), writeString(b.name) \o writeStringList(b.args))

Counted(b) == writeConsistency(b.Consistency) \o writeInt(b.Received) \o writeInt(b.BlockFor)
FailuresOf(b) ==
  IF Given(b, "ErrorMap")
  THEN writeInt(Len(b.ErrorMap))
         \o Concat([i \in DOMAIN b.ErrorMap |-> writeByte(Len(b.ErrorMap[i].k)) \o b.ErrorMap[i].k
                                                  \o writeShort(b.ErrorMap[i].v)])
  ELSE writeInt(b.NumFailures)
ErrorBody(b) ==
  LET e == ErrName(b.code)
  IN writeInt(b.code) \o writeString(b.message) \o
     CASE e = "Unavailable" -> writeConsistency(b.Consistency) \o writeInt(b.Required) \o writeInt(b.Alive)
       [] e = "WriteTimeout" -> Counted(b) \o writeString(b.WriteType)
       [] e = "ReadTimeout" -> Counted(b) \o writeByte(b.DataPresent)
       [] e = "ReadFailure" -> Counted(b) \o FailuresOf(b) \o writeByte(IF b.DataPresent THEN 1 ELSE 0)
       [] e = "WriteFailure" -> Counted(b) \o FailuresOf(b) \o writeString(b.WriteType)
       [] e = "FunctionFailure" -> writeString(b.Keyspace) \o writeString(b.Function)
                                     \o writeStringList(b.ArgTypes)
       [] e = "CASWriteUnknown" -> Counted(b)
       [] e = "AlreadyExists" -> writeString(b.Keyspace) \o writeString(b.Table)
       [] e = "Unprepared" -> writeShortBytes(b.StatementId)
       [] OTHER -> <<>>

ResponseBody(m, proto) ==
  LET b == m.body
  IN CASE b.frame = "error" -> ErrorBody(b)
       [] b.frame = "ready" -> <<>>
       [] b.frame = "supported" -> writeStringMultiMap(b.supported)
       [] b.frame = "authenticate" -> writeString(b.class)
       [] b.frame \in {"authChallenge", "authSuccess"} -> writeBytes(b.data)
       [] b.frame = "event" -> writeString(b.type) \o writeString(b.change) \o writeInet(b.host)
       [] b.frame = "schemaChange" ->
            (IF m.op = op.event THEN writeString(Keyword["SCHEMA_CHANGE"]) ELSE writeInt(5)) \o SchemaBody(b)
       [] b.frame = "void" -> writeInt(1)
       [] b.frame = "rows" -> writeInt(2) \o writeMeta(b.meta, proto, FALSE) \o writeInt(b.numRows)
                                \o Concat([i \in DOMAIN m.cells |-> writeBytes(m.cells[i])])
       [] b.frame = "keyspace" -> writeInt(3) \o writeString(b.keyspace)
       [] b.frame = "prepared" ->
            writeInt(4) \o writeShortBytes(b.preparedID)
              \o Optional(proto > 4, writeShortBytes(b.resultMetadataID))
              \o writeMeta(b.reqMeta, proto, TRUE) \o writeMeta(b.respMeta, proto, FALSE)

ServerEncode(c, m, stream) ==
  LET p == m.prefix
      flags == Flag(c.compressor /\ c.proto < 5, flagCompress) + Flag(Given(p, "traceID"), flagTracing)
                 + Flag(Given(p, "warnings"), flagWarning) + Flag(Given(p, "customPayload"), flagCustomPayload)
      plain == Optional(Given(p, "traceID"), p.traceID)
                 \o Optional(Given(p, "warnings"), writeStringList(p.warnings))
                 \o Optional(Given(p, "customPayload"), writeBytesMap(p.customPayload))
                 \o ResponseBody(m, c.proto)
      body == IF Bit(flags, flagCompress) THEN Compress(plain) ELSE plain
  IN setLength(<<128 + c.proto, flags>> \o writeShort(stream) \o <<m.op, 0, 0, 0, 0>> \o body)

--------------------------------------------------------------------------------
(* A request and a response *)

BuildFrame(c, q, stream) ==
  CASE q.kind = "startup" -> writeStartupFrame(c, stream, q.opts)
    [] q.kind = "options" -> writeOptionsFrame(c, stream)
    [] q.kind = "register" -> writeRegisterFrame(c, stream, q.events)
    [] q.kind = "authResponse" -> writeAuthResponseFrame(c, stream, q.data)
    [] q.kind = "prepare" -> writePrepareFrame(c, stream, q)
    [] q.kind = "query" -> executeQuery(c, stream, q, q.ps)
    [] q.kind = "batch" -> executeBatch(c, stream, q)

Send ==
  /\ phase = "idle"
  /\ \E i \in DOMAIN Requests : \E q \in Requests[i] : \E stream \in Streams :
       \E f \in {BuildFrame(conn, q, stream)} :
         /\ asking' = [q |-> q, stream |-> stream, out |-> f.out]
         /\ wire' = f.frame
         /\ phase' = (IF f.out = "sent" THEN "sent" ELSE "refused")
  /\ UNCHANGED <<conn, seen, reply, frame>>

ServerReads ==
  /\ phase = "sent" /\ phase' = "served"
  /\ seen' = ServerDecode(conn, wire) /\ wire' = <<>>
  /\ UNCHANGED <<conn, asking, reply, frame>>

\* Some fields of a response are only there from a version on.
ServerWrites ==
  /\ phase = "idle" /\ phase' = "answered"
  /\ \E i \in DOMAIN Responses : \E m \in Responses[i] :
       /\ conn.proto \in m.protos
       /\ \E stream \in (IF m.op = op.event THEN {-1} ELSE Streams) :
            /\ reply' = [m |-> m, stream |-> stream]
            /\ wire' = ServerEncode(conn, m, stream)
  /\ UNCHANGED <<conn, asking, seen, frame>>

\* Conn.recv, then parseFrame by whoever waits on the stream, then the Iter, which takes
\* the columns of each row from the metadata it has.
Recv ==
  /\ phase = "answered" /\ phase' = "parsed"
  /\ \E head \in {readHeader(wire)} :
     \E body \in {IF head.ok THEN readFrame(head.v, head.buf, conn.proto, conn.compressor) ELSE Failed} :
     \E parsed \in {IF body.ok THEN parseFrame(head.v, body.v, conn.proto) ELSE Failed} :
       /\ wire' = body.buf
       /\ frame' = IF ~parsed.ok \/ parsed.v.body.frame # "rows" THEN parsed
                   ELSE LET n == parsed.v.body.numRows * parsed.v.body.meta.colCount
                            cells == Items(Got(<<>>, parsed.buf), n, "bytes")
                        IN IF cells.ok THEN Got(parsed.v @@ [cells |-> cells.v], cells.buf) ELSE Failed
  /\ UNCHANGED <<conn, asking, seen, reply>>

FramesNext == Send \/ ServerReads \/ ServerWrites \/ Recv

--------------------------------------------------------------------------------
(* Properties *)

Present(cond, name, v) == IF cond THEN name :> v ELSE <<>>

\* What the options of a query ask of the server, on a connection of that version.
Options(c, q) ==
  [cons |-> q.cons]
    @@ Present(q.serial > 0, "serial", q.serial)
    @@ Present(q.ts, "ts", IF q.tsValue = 0 THEN Clock ELSE q.tsValue)
    @@ Present(c.proto > 4 /\ q.ks # <<>>, "ks", q.ks)
    @@ Present(c.proto > 4 /\ q.now # <<>>, "now", q.now[1])

\* An unset value arrives as unset from protocol 4 on.  Bound on protocol 3, which has
\* none, it is sent all the same and arrives as null.
Arriving(c, v) == IF v = Unset /\ c.proto = 3 THEN Null ELSE v
ValuesAt(c, values) == [i \in DOMAIN values |-> [values[i] EXCEPT !.value = Arriving(c, @)]]

Statement(c, s) ==
  [values |-> ValuesAt(c, s.values)]
    @@ (IF s.values = <<>> THEN [stmt |-> s.stmt] ELSE [id |-> s.info.id])

Content(c, q) ==
  CASE q.kind = "startup" -> [opts |-> q.opts]
    [] q.kind = "options" -> <<>>
    [] q.kind = "register" -> [events |-> q.events]
    [] q.kind = "authResponse" -> [data |-> q.data]
    [] q.kind = "prepare" ->
         [stmt |-> q.stmt] @@ Present(c.proto > 4, "flags", IF q.ks = <<>> THEN 0 ELSE 1)
           @@ Present(c.proto > 4 /\ q.ks # <<>>, "ks", q.ks)
    [] q.kind = "query" ->
         Options(c, q) @@ [skipMeta |-> q.prepared /\ ~q.disableSkip /\ ~q.ps.noMeta]
           @@ (IF q.prepared THEN [id |-> q.ps.id] ELSE [stmt |-> q.stmt])
           @@ Present(q.prepared /\ c.proto > 4, "metaID", q.ps.metaID)
           @@ Present(q.prepared /\ q.values # <<>>, "values", ValuesAt(c, q.values))
           @@ Present(q.pageSize > 0, "pageSize", q.pageSize)
           @@ Present(q.pageState # <<>>, "pageState", Blob(q.pageState))
    [] q.kind = "batch" ->
         Options(c, q) @@ [skipMeta |-> FALSE, type |-> q.type,
                           entries |-> [i \in DOMAIN q.entries |-> Statement(c, q.entries[i])]]

OpOf(q) == IF q.kind = "query" THEN (IF q.prepared THEN op.execute ELSE op.query) ELSE op[q.kind]

\* Why a request may be refused: a payload below protocol 4, named values in a batch,
\* another number of values than the statement has, a frame that is too big.
Refusable(c, q) ==
  \/ q.payload # <<>> /\ c.proto < 4
  \/ q.kind = "query" /\ q.prepared /\ Len(q.values) # Len(q.ps.request.columns)
  \/ q.kind = "batch" /\ \E i \in DOMAIN q.entries : \E j \in DOMAIN q.entries[i].values :
                            q.entries[i].values[j].name # <<>>
  \/ q.kind = "query" /\ Len(q.stmt) + 30 > maxFrameSize

\* The server decodes every request that is sent into the options it was made with, on
\* a connection of any protocol version, with or without compression, and nothing
\* follows; a request is not sent only for a reason (writeQueryParams, writeBatchFrame,
\* finish and the other writers; executeQuery, executeBatch).  One exception: UnsetValue
\* "is only available when using the version 4 of the protocol" (frame.go), and no writer
\* checks the version: bound on protocol 3 it arrives as null, and the column is deleted.
RequestUnderstood ==
  /\ phase = "served" =>
       /\ seen.ok
       /\ seen.v = [op |-> OpOf(asking.q), stream |-> asking.stream, trace |-> asking.q.trace]
                     @@ Present(asking.q.payload # <<>>, "payload", asking.q.payload)
                     @@ Content(conn, asking.q)
  /\ phase = "refused" => Refusable(conn, asking.q)

\* The driver parses every response into what the server sent, on a connection of any
\* protocol version: the tracing id, warnings and payload before it, each type and
\* column, and each cell of the rows behind the metadata; nothing is left on the socket,
\* so the next header is read where it starts, also after a frame that is too big
\* (readHeader, readFrame, parseFrame and the parsers it calls).
ResponseUnderstood ==
  phase = "parsed" =>
    /\ wire = <<>>
    /\ \/ Len(ServerEncode(conn, reply.m, reply.stream)) - 9 > maxFrameSize
       \/ /\ frame.ok /\ frame.buf = <<>>
          /\ frame.v.head.stream = reply.stream
          /\ frame.v.prefix = reply.m.prefix
          /\ frame.v.body = reply.m.body
          /\ reply.m.body.frame = "rows" => frame.v.cells = reply.m.cells

===================================================================================
