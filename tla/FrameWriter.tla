------------------------------- MODULE FrameWriter -------------------------------
(***************************************************************************)
(* Building a request: what executeQuery, executeBatch and prepareStatement*)
(* (conn.go) make of the options of a query, and the frames framer writes  *)
(* (frame.go).  The outcome is [out, frame]: "sent" with the bytes, or     *)
(* "error" or "panic".                                                     *)
(***************************************************************************)
EXTENDS FrameReader

flagValues == 1
flagSkipMetaData == 2
flagPageSize == 4
flagWithPagingState == 8
flagWithSerialConsistency == 16
flagDefaultTimestamp == 32
flagWithNameValues == 64
flagWithKeyspace == 128
flagWithNowInSeconds == 256

Clock == 77        \* time.Now, in microseconds

NoFrame(why) == [out |-> why, frame |-> <<>>]
Flag(cond, f) == IF cond THEN f ELSE 0

--------------------------------------------------------------------------------
(* The frame around a body *)

writeHeader(proto, flags, o, stream) == <<proto, flags>> \o writeShort(stream) \o <<o, 0, 0, 0, 0>>

setLength(buf) == SubSeq(buf, 1, 5) \o writeInt(Len(buf) - 9) \o From(buf, 9)

\* finish
Finish(buf, proto) ==
  IF Len(buf) > maxFrameSize THEN NoFrame("error")
  ELSE [out |-> "sent", frame |->
          setLength(IF proto < 5 /\ Bit(buf[2], flagCompress)
                    THEN SubSeq(buf, 1, 9) \o Compress(From(buf, 9)) ELSE buf)]

\* newFramer, trace() and payload(): the flags of a request.  c is the connection:
\* its protocol version and whether it has a compressor.
Flags(c, q) ==
  Flag(c.compressor /\ c.proto < 5, flagCompress) + Flag(q.trace, flagTracing)
    + Flag(q.payload # <<>>, flagCustomPayload)

writeCustomPayload(q) == IF q.payload = <<>> THEN <<>> ELSE writeBytesMap(q.payload)

\* A frame with the options' flags and payload; writeCustomPayload panics below 4.
Frame(c, q, o, stream, body) ==
  IF q.payload # <<>> /\ c.proto < 4 THEN NoFrame("panic")
  ELSE Finish(writeHeader(c.proto, Flags(c, q), o, stream) \o writeCustomPayload(q) \o body, c.proto)

Plain == [trace |-> FALSE, payload |-> <<>>]

\* STARTUP and OPTIONS are never compressed.
Uncompressed(c, o, stream, body) ==
  Finish(writeHeader(c.proto, 0, o, stream) \o body, c.proto)
writeStartupFrame(c, stream, opts) == Uncompressed(c, op.startup, stream, writeStringMap(opts))
writeOptionsFrame(c, stream) == Uncompressed(c, op.options, stream, <<>>)

writeRegisterFrame(c, stream, events) == Frame(c, Plain, op.register, stream, writeStringList(events))
writeAuthResponseFrame(c, stream, data) == Frame(c, Plain, op.authResponse, stream, writeBytes(data))

\* The keyspace of a prepared statement is given only from protocol 5 on.
writePrepareFrame(c, stream, q) ==
  Frame(c, q, op.prepare, stream,
        writeLongString(q.stmt)
          \o (IF c.proto > 4 THEN writeInt(Flag(q.ks # <<>>, 1)) ELSE <<>>)
          \o (IF c.proto > 4 /\ q.ks # <<>> THEN writeString(q.ks) ELSE <<>>))

--------------------------------------------------------------------------------
(* Queries *)

writeValues(values, names) ==
  Concat([i \in DOMAIN values |->
            (IF names THEN writeString(values[i].name) ELSE <<>>) \o writeBytes(values[i].value)])

\* The flags are a byte up to protocol 4.
writeFlags(flags, proto) == IF proto > 4 THEN writeInt(flags) ELSE writeByte(flags)

Timestamp(p) == writeLong(IF p.tsValue # 0 THEN p.tsValue ELSE Clock)
Optional(cond, bytes) == IF cond THEN bytes ELSE <<>>

\* The flags and the fields queries and batches share
TailFlags(p) ==
  Flag(p.serial > 0, flagWithSerialConsistency) + Flag(p.ts, flagDefaultTimestamp)
    + Flag(p.ks # <<>>, flagWithKeyspace) + Flag(p.now # <<>>, flagWithNowInSeconds)
MutTailFields(p) ==
  Optional(p.ts, Timestamp(p)) \o Optional(p.serial > 0, writeConsistency(p.serial))
    \o Optional(p.ks # <<>>, writeString(p.ks)) \o Optional(p.now # <<>>, writeInt(p.now[1]))
TailFields(p) ==
  Optional(p.serial > 0, writeConsistency(p.serial)) \o Optional(p.ts, Timestamp(p))
    \o Optional(p.ks # <<>>, writeString(p.ks)) \o Optional(p.now # <<>>, writeInt(p.now[1]))

writeQueryParams(p, proto) ==
  LET names == p.values # <<>> /\ p.values[1].name # <<>>
      flags == Flag(p.values # <<>>, flagValues) + Flag(p.skipMeta, flagSkipMetaData)
                 + Flag(p.pageSize > 0, flagPageSize) + Flag(p.pageState # <<>>, flagWithPagingState)
                 + Flag(names, flagWithNameValues) + TailFlags(p)
  IN writeConsistency(p.cons) \o writeFlags(flags, proto)
       \o Optional(p.values # <<>>, writeShort(Len(p.values)) \o writeValues(p.values, names))
       \o Optional(p.pageSize > 0, writeInt(p.pageSize))
       \o Optional(p.pageState # <<>>, writeBytes(Blob(p.pageState)))
       \o TailFields(p)

writeQueryFrame(c, stream, q, p) ==
  Frame(c, q, op.query, stream, writeLongString(q.stmt) \o writeQueryParams(p, c.proto))
writeExecuteFrame(c, stream, q, ps, p) ==
  Frame(c, q, op.execute, stream,
        writeShortBytes(ps.id) \o Optional(c.proto > 4, writeShortBytes(ps.metaID))
          \o writeQueryParams(p, c.proto))

\* Keyspace and now only go to a connection of protocol 5.
Versioned(c, q) == IF c.proto > 4 THEN q ELSE [q EXCEPT !.ks = <<>>, !.now = <<>>]

\* The values a statement takes are those of actualColCount, of the type of the column
\* with the same index (marshalQueryValue).
Bound(values, request) ==
  CASE Len(values) # request.actualColCount -> "error"
    [] Len(values) > Len(request.columns) -> "panic"
    [] OTHER -> "sent"

\* executeQuery, up to c.exec; ps is what prepareStatement returned.
executeQuery(c, stream, q, ps) ==
  LET skip == ~q.disableSkip /\ ~ps.noMeta
      p == [skipMeta |-> q.prepared /\ skip] @@ Versioned(c, q)
      bound == Bound(q.values, ps.request)
  IN CASE ~q.prepared -> writeQueryFrame(c, stream, q, [p EXCEPT !.values = <<>>])
       [] bound # "sent" -> NoFrame(bound)
       [] OTHER -> writeExecuteFrame(c, stream, q, ps, p)

--------------------------------------------------------------------------------
(* Batches *)

\* A statement with arguments is prepared, one without is sent as it is; named values
\* are an error.
writeStatement(s) ==
  (IF s.values # <<>> THEN writeByte(1) \o writeShortBytes(s.info.id)
   ELSE writeByte(0) \o writeLongString(s.stmt))
    \o writeShort(Len(s.values)) \o writeValues(s.values, FALSE)

BatchBody(p, proto) ==
  writeByte(p.type) \o writeShort(Len(p.entries))
    \o Concat([i \in DOMAIN p.entries |-> writeStatement(p.entries[i])])
    \o writeConsistency(p.cons) \o writeFlags(TailFlags(p), proto) \o TailFields(p)

executeBatch(c, stream, q) ==
  LET p == Versioned(c, q)
      bad == {i \in DOMAIN q.entries : /\ q.entries[i].values # <<>>
                                       /\ Bound(q.entries[i].values, q.entries[i].info.request) # "sent"}
      first == CHOOSE i \in bad : \A j \in bad : i <= j
      named == \E i \in DOMAIN q.entries : \E j \in DOMAIN q.entries[i].values :
                 q.entries[i].values[j].name # <<>>
  IN CASE bad # {} -> NoFrame(Bound(q.entries[first].values, q.entries[first].info.request))
       [] named /\ ~(q.payload # <<>> /\ c.proto < 4) -> NoFrame("error")
       [] OTHER -> Frame(c, q, op.batch, stream, BatchBody(p, c.proto))
================================================================================
