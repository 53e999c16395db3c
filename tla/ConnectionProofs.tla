--------------------------- MODULE ConnectionProofs ---------------------------
(***************************************************************************)
(* Proofs about Conn, for any number of calls and any set of stream ids,   *)
(* and about Startup, for any lists of hosts.                              *)
(*                                                                         *)
(* Conn.  OwnResponse and StreamsAccounted are not inductive.  ConnInv     *)
(* follows the life of a stream: a call takes it (Held), lists itself in   *)
(* c.calls (Listed), has a request at the server (Asked), and is in the    *)
(* hands of the reader (Read); while the connection is open, each stream   *)
(* that is taken is at one of these places (Kept).  Told says when the     *)
(* channels of a call are closed, Closing that a closed connection stays   *)
(* closed.                                                                 *)
(*                                                                         *)
(* Startup.  Neither property is inductive.  The goroutines of a startup,  *)
(* and the server, each act on what they know of the handshake: Versions   *)
(* says that every message on its way tells apart the versions that the    *)
(* host refuses, or answers with an ERROR, from the others, Layouts that   *)
(* both sides agree on the layout whenever one of them writes, and Turns   *)
(* whose turn it is.                                                       *)
(***************************************************************************)
EXTENDS Conn, Startup, SequenceTheorems, TLAPS

(* Conn *)

ProgramPoints ==
  {"start", "add", "build", "write", "wait", "unlist", "release", "resperr", "close", "done"}

\* The variables of Conn keep their types.
ConnType ==
  /\ granted \subseteq StreamIDs \ {0}
  /\ calls \in [StreamIDs -> Calls \cup {NoCall}]
  /\ pc \in [Calls -> ProgramPoints]
  /\ stream \in [Calls -> StreamIDs]
  /\ timeout \in [Calls -> BOOLEAN]
  /\ released \in [Calls -> Nat]
  /\ got \in [Calls -> Calls \cup {"none", "garbage"}]
  /\ server \subseteq [stream : StreamIDs, call : Calls]
  /\ rpc \in {"recv", "body", "discard", "deliver", "close", "done"}
  /\ rcall \in Calls \cup {NoCall} /\ (rpc \in {"body", "deliver"} <=> rcall # NoCall)
  /\ rmsg \in Calls \cup {"garbage", "err"}
  /\ telling \in Calls \cup {NoCall} /\ toClose \subseteq Calls
  /\ midBody \in BOOLEAN /\ closed \in BOOLEAN /\ cancelled \in BOOLEAN

Asks(k) == [stream |-> stream[k], call |-> k] \in server

\* A call that has a stream holds it from GetStream to releaseStream, and nobody else does.
Held ==
  \A k \in Calls :
    /\ released[k] <= 1
    /\ pc[k] = "start" => stream[k] = 0 /\ released[k] = 0
    /\ pc[k] \notin {"start", "done"} => Holds(k) \/ (pc[k] = "resperr" /\ closed)
    /\ Holds(k) => stream[k] \in granted
    /\ \A l \in Calls : Holds(k) /\ Holds(l) /\ stream[k] = stream[l] => k = l

\* A call whose response is under way waits, has given up, or learns of the end.
Expects(k) ==
  /\ Holds(k)
  /\ pc[k] \in {"wait", "done"} \/ (pc[k] = "resperr" /\ closed)

\* Requests are at the server under the stream of the call, which is not being answered.
Asked ==
  \A m \in server :
    /\ Expects(m.call) /\ stream[m.call] = m.stream
    /\ m.call # rcall
    /\ ~closed => calls[m.stream] = m.call

\* The reader holds the call that its frame answers.
Read == rcall # NoCall => Expects(rcall) /\ rmsg \in {rcall, "err"}

\* c.calls has, while the connection is open, the calls between addCall and the end of
\* their request, each under its stream.
Listed ==
  ~closed =>
    /\ \A s \in StreamIDs : LET k == calls[s] IN
         k # NoCall =>
           /\ Holds(k) /\ stream[k] = s /\ k # rcall
           /\ pc[k] \in {"build", "write", "wait", "unlist", "close", "done"}
    /\ \A k \in Calls : pc[k] \in {"build", "write"} => calls[stream[k]] = k

\* While the connection is open a stream that is taken has a holder, and one whose
\* holder has stopped working on it is at the server or in the reader's hands.
Kept ==
  ~closed =>
    /\ \A s \in granted : \E k \in Calls : Holds(k) /\ stream[k] = s
    /\ \A k \in Calls : Holds(k) /\ pc[k] \in {"wait", "done"} => Asks(k) \/ rcall = k

\* call.timeout is open until the call stops waiting.
Told == \A k \in Calls : pc[k] \in {"start", "add", "build", "write", "wait"} => ~timeout[k]

Closing == telling # NoCall \/ cancelled \/ cpc # "open" => closed

Answered == \A k \in Calls : got[k] \in {"none", k}

Sound == Held /\ Asked /\ Read /\ Listed /\ Kept /\ Told /\ Answered

ConnInv == ConnType /\ Closing /\ (~midBody => Sound)

-------------------------------------------------------------------------------
LEMMA Initially == Init => ConnInv
<1> SUFFICES ASSUME Init PROVE ConnInv
  OBVIOUS
<1> USE StreamsAssumption, NoCallAssumption DEF Init, Allocator!Init, None
<1>1. ConnType
  BY Zenon DEF ConnType, ProgramPoints
<1>2. Closing
  BY DEF Closing
<1>3. Held /\ Asked /\ Read /\ Listed /\ Kept /\ Told /\ Answered
  BY DEF Held, Holds, Asked, Read, Listed, Kept, Told, Answered
<1> QED
  BY <1>1, <1>2, <1>3 DEF ConnInv, Sound

\* Types, and what a closed connection keeps, do not depend on the rest.
LEMMA TypesKept ==
  ASSUME ConnType, Closing, [Next]_vars
  PROVE  ConnType' /\ Closing'
<1> USE NoCallAssumption, StreamsAssumption DEF ConnType, Closing, ProgramPoints
<1>1. ASSUME NEW k \in Calls, exec(k) PROVE ConnType' /\ Closing'
  <2> USE DEF readVars, closeVars
  <2>1. CASE Refuse(k) \/ Build(k) \/ RespErr(k) \/ CallClosed(k)
    BY <2>1 DEF Refuse, Build, RespErr, CallClosed, Jump, Goto
  <2>2. CASE BuildFails(k) \/ NotWritten(k) \/ WriteFails(k) \/ Timeout(k) \/ ConnDone(k)
    <3>1. PICK from \in ProgramPoints, to \in ProgramPoints : GiveUp(k, from, to)
      BY <2>2 DEF BuildFails, NotWritten, WriteFails, Timeout, ConnDone
    <3> QED
      BY <3>1 DEF GiveUp, Goto, CloseTimeout
  <2>3. CASE GetStream(k)
    BY <2>3 DEF GetStream, Goto, Allocator!Grant, Allocator!Free
  <2>4. CASE addCall(k)
    BY <2>4 DEF addCall, Goto
  <2>5. CASE Written(k)
    BY <2>5 DEF Written, Goto
  <2>6. CASE Unlist(k)
    BY <2>6 DEF Unlist, Goto
  <2>7. CASE Release(k)
    BY <2>7 DEF Release, releaseStream, Goto
  <2>8. CASE CallCloses(k)
    BY <2>8 DEF CallCloses, CloseBegin, None, callVars
  <2> QED
    BY <1>1, <2>1, <2>2, <2>3, <2>4, <2>5, <2>6, <2>7, <2>8 DEF exec
<1>2. CASE serve
  <2> USE DEF callVars, closeVars
  <2>1. CASE RecvHeader
    BY <2>1 DEF RecvHeader
  <2>2. CASE RecvFails \/ Discard \/ ReadBody \/ BodyFails \/ ReaderClosed
    BY <2>2 DEF RecvFails, Discard, ReadBody, BodyFails, ReaderClosed, Reads
  <2>3. CASE BodyTimesOut
    BY <2>3 DEF BodyTimesOut
  <2>4. CASE Deliver
    BY <2>4 DEF Deliver, LetGo, CloseTimeout, Goto
  <2>5. CASE DeliverLate
    BY <2>5 DEF DeliverLate, LetGo, releaseStream
  <2>6. CASE DeliverClosed
    BY <2>6 DEF DeliverClosed, LetGo
  <2>7. CASE ReaderCloses
    BY <2>7 DEF ReaderCloses, CloseBegin, None, readVars
  <2> QED
    BY <1>2, <2>1, <2>2, <2>3, <2>4, <2>5, <2>6, <2>7 DEF serve
<1>3. CASE OtherCloses
  BY <1>3 DEF OtherCloses, CloseBegin, None, callVars, readVars
<1>4. CASE closeWithError
  BY Zenon, <1>4
     DEF closeWithError, Pick, Tell, Cancel, CloseSocket, CloseTimeout, Goto, callVars, readVars
<1>5. CASE UNCHANGED vars
  BY <1>5 DEF vars, callVars, readVars, closeVars
<1> QED
  BY <1>1, <1>2, <1>3, <1>4, <1>5 DEF Next

\* Every step keeps the places of the streams, until the reader loses its way.
LEMMA SoundKept ==
  ASSUME ConnType, Closing, Sound, ~midBody, [Next]_vars, ~midBody'
  PROVE  Sound'
<1> USE NoCallAssumption, StreamsAssumption
    DEF ConnType, ProgramPoints, Sound, Held, Holds, Asked, Asks, Expects, Read, Listed,
        Kept, Told, Answered, callVars, readVars, closeVars
<1>1. ASSUME NEW k \in Calls, exec(k) PROVE Sound'
  <2>1. CASE Refuse(k)
    BY <2>1 DEF Refuse, Jump, Goto
  <2>2. CASE GetStream(k)
    <3>1. PICK s \in StreamIDs \ {0} :
            /\ s \notin granted /\ granted' = granted \cup {s}
            /\ stream' = [stream EXCEPT ![k] = s]
      BY Zenon, <2>2 DEF GetStream, Allocator!Grant, Allocator!Free
    <3>2. Holds(k)' /\ \A l \in Calls \ {k} : stream'[l] = stream[l] /\ pc'[l] = pc[l]
      BY <2>2, <3>1 DEF GetStream, Goto
    <3> QED
      BY <2>2, <3>1, <3>2 DEF GetStream, Goto
  <2>3. CASE addCall(k)
    <3>1. ~closed => calls[stream[k]] = NoCall
      BY <2>3 DEF addCall
    <3> QED
      BY <2>3, <3>1 DEF addCall, Goto
  <2>4. CASE Build(k)
    BY <2>4 DEF Build, Jump, Goto
  <2>5. CASE BuildFails(k)
    BY <2>5 DEF BuildFails, GiveUp, CloseTimeout, Goto
  <2>6. CASE Written(k)
    BY <2>6 DEF Written, Goto
  <2>7. CASE NotWritten(k)
    BY <2>7 DEF NotWritten, GiveUp, CloseTimeout, Goto
  <2>8. CASE WriteFails(k)
    BY <2>8 DEF WriteFails, GiveUp, CloseTimeout, Goto
  <2>9. CASE Unlist(k)
    BY <2>9 DEF Unlist, Goto
  <2>10. CASE Release(k)
    <3>1. ~Asks(k) /\ rcall # k /\ (~closed => \A s \in StreamIDs : calls[s] # k)
      BY <2>10 DEF Release
    <3> QED
      BY <2>10, <3>1 DEF Release, releaseStream, Goto
  <2>11. CASE RespErr(k)
    BY <2>11 DEF RespErr, Jump, Goto
  <2>12. CASE Timeout(k) \/ ConnDone(k)
    BY <2>12 DEF Timeout, ConnDone, GiveUp, CloseTimeout, Goto
  <2>13. CASE CallCloses(k)
    BY <2>13 DEF CallCloses, CloseBegin
  <2>14. CASE CallClosed(k)
    BY <2>14 DEF CallClosed, Jump, Goto
  <2> QED
    BY Zenon, <1>1, <2>1, <2>2, <2>3, <2>4, <2>5, <2>6, <2>7, <2>8, <2>9, <2>10, <2>11, <2>12,
       <2>13, <2>14 DEF exec
<1>2. CASE serve
  <2>1. CASE RecvHeader
    <3>1. PICK s \in StreamIDs \ {0}, msg \in Calls :
            /\ [stream |-> s, call |-> msg] \in server
            /\ server' = server \ {[stream |-> s, call |-> msg]}
            /\ rmsg' = msg
            /\ \/ closed /\ UNCHANGED <<calls, rcall>>
               \/ ~closed /\ calls' = [calls EXCEPT ![s] = NoCall] /\ rcall' = calls[s]
      BY <2>1 DEF RecvHeader
    \* The call under the stream of the header is the one whose request is answered.
    <3>2. ~closed => rcall' = msg
      BY <3>1
    <3> QED
      BY <2>1, <3>1, <3>2 DEF RecvHeader
  <2>2. CASE RecvFails \/ Discard
    BY <2>2 DEF RecvFails, Discard, Reads
  <2>3. CASE ReadBody \/ BodyFails
    BY <2>3 DEF ReadBody, BodyFails, Reads
  <2>4. CASE BodyTimesOut
    BY <2>4 DEF BodyTimesOut
  <2>5. CASE Deliver
    BY <2>5 DEF Deliver, LetGo, CloseTimeout, Goto
  <2>6. CASE DeliverLate
    \* The call no longer waits, so nobody else will release its stream.
    <3>1. rcall \in Calls /\ pc[rcall] \in {"done", "resperr"} /\ ~Asks(rcall)
      BY <2>6 DEF DeliverLate, LetGo
    <3> QED
      BY <2>6, <3>1 DEF DeliverLate, LetGo, releaseStream
  <2>7. CASE DeliverClosed
    BY <2>7 DEF DeliverClosed, LetGo, Closing
  <2>8. CASE ReaderCloses
    BY <2>8 DEF ReaderCloses, CloseBegin
  <2>9. CASE ReaderClosed
    BY <2>9 DEF ReaderClosed, Reads
  <2> QED
    BY Zenon, <1>2, <2>1, <2>2, <2>3, <2>4, <2>5, <2>6, <2>7, <2>8, <2>9 DEF serve
<1>3. CASE OtherCloses
  BY <1>3 DEF OtherCloses, CloseBegin
<1>4. CASE closeWithError
  <2>1. ASSUME NEW k \in Calls, Pick(k) PROVE Sound'
    BY <2>1 DEF Pick
  <2>2. CASE Tell
    BY <2>2 DEF Tell, CloseTimeout, Goto, Closing
  <2>3. CASE Cancel
    BY <2>3 DEF Cancel
  <2>4. CASE CloseSocket
    BY <2>4 DEF CloseSocket
  <2> QED
    BY Zenon, <1>4, <2>1, <2>2, <2>3, <2>4 DEF closeWithError
<1>5. CASE UNCHANGED vars
  BY <1>5 DEF vars
<1> QED
  BY Zenon, <1>1, <1>2, <1>3, <1>4, <1>5 DEF Next

\* A reader that has lost its way never finds it again.
LEMMA LostForGood ==
  ASSUME ConnType, [Next]_vars, ~midBody'
  PROVE  ~midBody
<1> USE DEF ConnType, readVars
<1>1. ASSUME NEW k \in Calls, exec(k) PROVE UNCHANGED midBody
  BY Zenon, <1>1 DEF exec, Refuse, GetStream, addCall, Build, BuildFails, Written, NotWritten,
              WriteFails, Unlist, Release, RespErr, Timeout, ConnDone, CallCloses,
              CallClosed, CloseBegin, Jump, GiveUp
<1>2. CASE serve
  BY <1>2 DEF serve, RecvHeader, RecvFails, Discard, ReadBody, BodyFails, BodyTimesOut,
              Deliver, DeliverLate, DeliverClosed, ReaderCloses, ReaderClosed, CloseBegin,
              Reads, LetGo
<1>3. CASE OtherCloses \/ closeWithError
  BY Zenon, <1>3 DEF OtherCloses, CloseBegin, closeWithError, Pick, Tell, Cancel, CloseSocket
<1>4. CASE UNCHANGED vars
  BY <1>4 DEF vars
<1> QED
  BY <1>1, <1>2, <1>3, <1>4 DEF Next

LEMMA Inductive == ConnInv /\ [Next]_vars => ConnInv'
BY TypesKept, SoundKept, LostForGood DEF ConnInv

LEMMA AlwaysConnInv == Spec => []ConnInv
BY Initially, Inductive, PTL DEF Spec

-------------------------------------------------------------------------------
\* No call ever returns the response to another call's request, for any number of calls
\* and streams, as long as the reader does not give up inside a body.
THEOREM ResponsesOwn == Spec => []OwnResponse
<1>1. ConnInv => OwnResponse
  BY Zenon DEF ConnInv, Sound, Answered, OwnResponse
<1> QED
  BY AlwaysConnInv, <1>1, PTL

\* Streams are used by one call at a time, released once, not while a response may come,
\* and never lost while the connection is open.
THEOREM StreamsKept == Spec => []StreamsAccounted
<1>1. ConnInv => StreamsAccounted
  <2> SUFFICES ASSUME ConnInv, ~midBody PROVE StreamsAccounted
    BY DEF StreamsAccounted
  <2> USE DEF ConnInv, Sound, ConnType
  <2>1. \A k \in Calls : released[k] <= 1 /\ (Holds(k) => stream[k] \in granted)
    BY Zenon DEF Held
  <2>2. \A k, l \in Calls : Holds(k) /\ Holds(l) /\ k # l => stream[k] # stream[l]
    BY DEF Held
  <2>3. \A m \in server : Holds(m.call) /\ stream[m.call] = m.stream
    BY DEF Asked, Expects
  <2>4. ASSUME ~closed, NEW s \in granted
        PROVE  \E k \in Calls :
                 /\ Holds(k) /\ stream[k] = s
                 /\ \/ pc[k] \notin {"start", "done"}
                    \/ [stream |-> s, call |-> k] \in server
                    \/ rcall = k
    <3>1. PICK k \in Calls : Holds(k) /\ stream[k] = s
      BY <2>4 DEF Kept
    <3>2. pc[k] # "start"
      BY <3>1 DEF Held, Holds
    <3>3. pc[k] = "done" => Asks(k) \/ rcall = k
      BY <2>4, <3>1 DEF Kept
    <3> QED
      BY <3>1, <3>2, <3>3 DEF Asks
  <2> QED
    BY Zenon, <2>1, <2>2, <2>3, <2>4 DEF StreamsAccounted
<1> QED
  BY AlwaysConnInv, <1>1, PTL

\* What a connection does to its stream ids: it takes free ones and gives back taken ones.
\* This is what Streams promises to serve, so releaseStream never clears an id twice.
AllocatorUsed == ~midBody' => Allocator!Next \/ UNCHANGED granted

\* Until the reader gives up inside a body, a connection uses the id generator the way
\* StreamAllocator, which Streams implements, allows.
THEOREM UsesAllocator == Spec => [][AllocatorUsed]_vars
<1>1. ConnInv /\ [Next]_vars => [AllocatorUsed]_vars
  <2> SUFFICES ASSUME ConnInv, Next, ~midBody, ~midBody'
               PROVE  Allocator!Next \/ UNCHANGED granted
    BY LostForGood DEF ConnInv, AllocatorUsed
  <2> USE DEF ConnInv, Sound, ConnType, Allocator!Next
  <2>1. ASSUME NEW k \in Calls, GetStream(k) PROVE Allocator!Next
    BY <2>1 DEF GetStream
  <2>2. ASSUME NEW k \in Calls, Release(k) PROVE Allocator!Next
    BY <2>2 DEF Release, releaseStream, Held, Allocator!Release
  <2>3. CASE DeliverLate
    BY <2>3 DEF DeliverLate, LetGo, releaseStream, Read, Expects, Held, Allocator!Release
  <2>4. ASSUME NEW k \in Calls, exec(k), ~GetStream(k), ~Release(k) PROVE UNCHANGED granted
    BY Zenon, <2>4 DEF exec, Refuse, addCall, Build, BuildFails, Written, NotWritten, WriteFails,
                Unlist, RespErr, Timeout, ConnDone, CallCloses, CallClosed, CloseBegin,
                Jump, GiveUp
  <2>5. CASE serve /\ ~DeliverLate
    BY Zenon, <2>5 DEF serve, RecvHeader, RecvFails, Discard, ReadBody, BodyFails, BodyTimesOut,
                Deliver, DeliverClosed, ReaderCloses, ReaderClosed, CloseBegin, Reads
  <2>6. CASE OtherCloses \/ closeWithError
    BY Zenon, <2>6 DEF OtherCloses, CloseBegin, closeWithError, Pick, Tell, Cancel, CloseSocket
  <2> QED
    BY <2>1, <2>2, <2>3, <2>4, <2>5, <2>6 DEF Next
<1> QED
  BY AlwaysConnInv, <1>1, PTL DEF Spec

-------------------------------------------------------------------------------
(* Startup *)

Kinds == {"none", "error", "protocol error", "server error", "supported", "ready",
          "authenticate", "success", "challenge"}
Messages(kinds) ==
  [kind : kinds, stream : {"own", "zero"}, same : BOOLEAN, segments : BOOLEAN, lz4 : BOOLEAN]

Conns ==
  [opt : {"tick", "send", "wait", "handle", "report", "done"},
   stage : {"options", "startup", "auth"},
   reader : {"range", "load", "recv", "report", "done"},
   completed : BOOLEAN, segments : BOOLEAN, compressor : BOOLEAN, rounds : Nat,
   expired : BOOLEAN, closed : BOOLEAN,
   request : Messages({"none", "options", "startup", "auth"}),
   reply : Messages(Kinds), result : Messages(Kinds \cup {"nil"}), failure : Messages(Kinds),
   server : [segments : BOOLEAN, lz4 : BOOLEAN], misread : BOOLEAN]

HostRecords == [max : 0 .. 5, lz4 : BOOLEAN, login : Logins]

\* The variables of Startup keep their types.
TypeOK ==
  /\ client \in [lz4 : BOOLEAN, auth : {"nil", "password", "rounds"}]
  /\ hosts \in Seq(HostRecords) /\ host \in HostRecords /\ proto \in 3 .. 5
  /\ erred \subseteq 3 .. 5
  /\ main \in {"discover", "dial", "select", "returned", "found", "failed"}
  /\ outcome \in {"none", "ok", "unsupported", "error", "panic"}
  /\ c \in Conns

\* The goroutines of a startup may be at work.
Live == main \in {"select", "returned"}

\* The host does not speak the version, or answered it as if it did not.
Refused(v) == v > host.max \/ v \in erred

\* What is sent only if the version is refused, and what only if the host speaks it.
Refuses(m) ==
  \/ m.kind \in {"protocol error", "server error"}
  \/ m.kind = "supported" /\ (m.stream = "zero" \/ ~m.same)
Accepts(m) ==
  \/ m.kind \in {"ready", "authenticate", "success", "challenge", "nil"}
  \/ m.kind = "supported" /\ m.same
Tells(m) == (Refuses(m) => Refused(proto)) /\ (Accepts(m) => proto <= host.max)

\* Higher versions were refused, and every message tells whether this one is.
Versions ==
  /\ main \in {"dial", "select", "returned", "found"} => \A v \in 3 .. 5 : v > proto => Refused(v)
  /\ Live => Tells(c.reply) /\ Tells(c.result) /\ Tells(c.failure)
  /\ main = "returned" =>
       /\ outcome = "unsupported" => Refused(proto)
       /\ outcome = "ok" => proto <= host.max
  /\ main = "found" => outcome = "ok" /\ proto <= host.max

\* The server speaks as a client does whose startup is completed, or is not.
Speaks(completed) ==
  /\ c.server.segments = (proto > 4 /\ completed)
  /\ c.server.segments => c.server.lz4 = c.compressor
Agreed == Speaks(c.completed)
Started == Speaks(TRUE)

\* A message has the layout that its sender and its receiver take it for.  The answer
\* that accepts STARTUP changes what the server speaks, the client learns of it.
InLayout(m) ==
  /\ m.segments = (proto > 4 /\ c.completed)
  /\ m.segments => m.lz4 = c.compressor
Changes(m) == m.kind \in {"ready", "authenticate"}
Layouts ==
  /\ c.stage = "options" => ~c.completed
  /\ c.opt \in {"tick", "send"} => Agreed
  /\ c.request # NoMessage => Agreed /\ InLayout(c.request) /\ c.request.lz4 = c.compressor
  /\ c.reply # NoMessage => InLayout(c.reply) /\ IF Changes(c.reply) THEN Started ELSE Agreed
  /\ c.opt = "handle" /\ Changes(c.result) => Started
  /\ c.opt = "handle" /\ c.result.kind \in {"supported", "challenge"} => Agreed
  /\ c.reader = "recv" => c.segments = (proto > 4 /\ c.completed)

\* One message is on the wire at a time, and the reader rests while the options goroutine
\* handles a response.
Turns ==
  /\ c.request = NoMessage \/ c.reply = NoMessage
  /\ c.opt \in {"tick", "send", "handle"} => c.request = NoMessage /\ c.reply = NoMessage
  /\ c.opt \in {"tick", "handle"} => c.reader = "range"
  /\ c.result.kind = "nil" => c.opt \in {"report", "done"} /\ c.reader \in {"range", "done"}
  /\ outcome = "ok" => c.opt = "done" /\ c.reader \in {"range", "done"}

\* Between two startups nobody is at work.
Rests ==
  c.opt = "done" /\ c.reader = "done" /\ (c.closed \/ c.request = NoMessage)

IInv ==
  /\ TypeOK /\ Versions
  /\ Live => Layouts /\ Turns
  /\ ~Live => Rests
  /\ ~c.misread

-------------------------------------------------------------------------------
(* Messages *)

LEMMA MessageFacts ==
  /\ NoMessage \in Messages(Kinds) /\ NoMessage.kind = "none"
  /\ Error \in Messages(Kinds) /\ Error.kind = "error"
  /\ NoMessage \in Messages({"none", "options", "startup", "auth"})
BY DEF NoMessage, Error, Message, Messages, Kinds

LEMMA Widens == ASSUME NEW m \in Messages(Kinds) PROVE m \in Messages(Kinds \cup {"nil"})
BY DEF Messages

\* Everything but the connection that is set up.
others == <<client, hosts, host, proto, erred, main, outcome>>

LEMMA ConnectTimeoutIInv == ASSUME IInv, ConnectTimeout PROVE IInv'
<1>1. c \in Conns /\ TypeOK /\ UNCHANGED others
  BY DEF IInv, TypeOK, ConnectTimeout, others
<1>2. c' \in Conns
  BY Zenon, <1>1, MessageFacts DEF Conns, ConnectTimeout
<1>3. TypeOK'
  BY <1>1, <1>2 DEF TypeOK, others
<1>4. /\ UNCHANGED <<c.opt, c.stage, c.reader, c.completed, c.segments, c.compressor,
                     c.rounds, c.closed, c.request, c.reply, c.result, c.failure,
                     c.server, c.misread>>
  BY <1>1 DEF Conns, ConnectTimeout
<1>5. Versions'
  BY Zenon, <1>1, <1>4, MessageFacts DEF IInv, Versions, Live, Tells, Refuses, Refused, Accepts, others
<1>6. (Live' => Layouts' /\ Turns') /\ (~Live' => Rests') /\ ~c'.misread
  <2>1. Live' => Layouts'
    BY Zenon, <1>1, <1>4, MessageFacts
       DEF IInv, Live, Layouts, Agreed, Started, Speaks, InLayout, Changes, Turns, others
  <2>2. Live' => Turns'
    BY <1>1, <1>4, MessageFacts DEF IInv, Live, Turns, others
  <2>3. (~Live' => Rests') /\ ~c'.misread
    BY <1>1, <1>4, MessageFacts DEF IInv, Live, Rests, others
  <2> QED BY <2>1, <2>2, <2>3
<1> QED
  BY <1>3, <1>5, <1>6 DEF IInv

LEMMA HangupIInv == ASSUME IInv, Hangup PROVE IInv'
<1>1. c \in Conns /\ TypeOK /\ UNCHANGED others
  BY DEF IInv, TypeOK, Hangup, others
<1>2. c' \in Conns
  BY Zenon, <1>1, MessageFacts DEF Conns, Hangup
<1>3. TypeOK'
  BY <1>1, <1>2 DEF TypeOK, others
<1>4. /\ c'.closed
      /\ main = "select"
      /\ UNCHANGED <<c.opt, c.stage, c.reader, c.completed, c.segments, c.compressor,
                     c.rounds, c.expired, c.request, c.reply, c.result, c.failure,
                     c.server, c.misread>>
  BY <1>1 DEF Conns, Hangup
<1>5. Versions'
  BY Zenon, <1>1, <1>4, MessageFacts DEF IInv, Versions, Live, Tells, Refuses, Refused, Accepts, others
<1>6. (Live' => Layouts' /\ Turns') /\ (~Live' => Rests') /\ ~c'.misread
  <2>1. Live' => Layouts'
    BY <1>1, <1>4, MessageFacts
       DEF IInv, Live, Layouts, Agreed, Started, Speaks, InLayout, Changes, Turns, others
  <2>2. Live' => Turns'
    BY <1>1, <1>4, MessageFacts DEF IInv, Live, Turns, others
  <2>3. (~Live' => Rests') /\ ~c'.misread
    BY <1>1, <1>4, MessageFacts DEF IInv, Live, Rests, others
  <2> QED BY <2>1, <2>2, <2>3
<1> QED
  BY <1>3, <1>5, <1>6 DEF IInv

LEMMA LoadIInv == ASSUME IInv, Load PROVE IInv'
<1>1. c \in Conns /\ TypeOK /\ UNCHANGED others
  BY DEF IInv, TypeOK, Load, others
<1>2. c' \in Conns
  BY Zenon, <1>1, MessageFacts DEF Conns, Load
<1>3. TypeOK'
  BY <1>1, <1>2 DEF TypeOK, others
<1>4. /\ c.reader = "load" /\ c'.reader = "recv"
      /\ c'.segments = (proto > 4 /\ c.completed)
      /\ UNCHANGED <<c.opt, c.stage, c.completed, c.compressor, c.rounds, c.expired,
                     c.closed, c.request, c.reply, c.result, c.failure, c.server,
                     c.misread>>
  BY <1>1 DEF Conns, Load
<1>5. Versions'
  BY Zenon, <1>1, <1>4, MessageFacts DEF IInv, Versions, Live, Tells, Refuses, Refused, Accepts, others
<1>6. (Live' => Layouts' /\ Turns') /\ (~Live' => Rests') /\ ~c'.misread
  <2>1. Live' => Layouts'
    BY <1>1, <1>4, MessageFacts
       DEF IInv, Live, Layouts, Agreed, Started, Speaks, InLayout, Changes, Turns, others
  <2>2. Live' => Turns'
    BY <1>1, <1>4, MessageFacts DEF IInv, Live, Turns, others
  <2>3. (~Live' => Rests') /\ ~c'.misread
    BY <1>1, <1>4, MessageFacts DEF IInv, Live, Rests, others
  <2> QED BY <2>1, <2>2, <2>3
<1> QED
  BY <1>3, <1>5, <1>6 DEF IInv

LEMMA ReaderEndsIInv == ASSUME IInv, ReaderEnds PROVE IInv'
<1>1. c \in Conns /\ TypeOK /\ UNCHANGED others
  BY DEF IInv, TypeOK, ReaderEnds, others
<1>2. c' \in Conns
  BY <1>1, MessageFacts DEF Conns, ReaderEnds
<1>3. TypeOK'
  BY <1>1, <1>2 DEF TypeOK, others
<1>4. /\ c.reader = "range" /\ c.opt = "done" /\ c'.reader = "done"
      /\ UNCHANGED <<c.opt, c.stage, c.completed, c.segments, c.compressor, c.rounds,
                     c.expired, c.closed, c.request, c.reply, c.result, c.failure,
                     c.server, c.misread>>
  BY <1>1 DEF Conns, ReaderEnds
<1>5. Versions'
  BY Zenon, <1>1, <1>4, MessageFacts DEF IInv, Versions, Live, Tells, Refuses, Refused, Accepts, others
<1>6. (Live' => Layouts' /\ Turns') /\ (~Live' => Rests') /\ ~c'.misread
  <2>1. Live' => Layouts'
    BY <1>1, <1>4, MessageFacts
       DEF IInv, Live, Layouts, Agreed, Started, Speaks, InLayout, Changes, Turns, others
  <2>2. Live' => Turns'
    BY <1>1, <1>4, MessageFacts DEF IInv, Live, Turns, others
  <2>3. (~Live' => Rests') /\ ~c'.misread
    BY <1>1, <1>4, MessageFacts DEF IInv, Live, Rests, others
  <2> QED BY <2>1, <2>2, <2>3
<1> QED
  BY <1>3, <1>5, <1>6 DEF IInv

\* The options goroutine is to report an error.
LEMMA FailsIInv ==
  ASSUME IInv, UNCHANGED others, c.opt \in {"tick", "send", "wait", "handle"},
         NEW err \in Messages(Kinds \cup {"nil"}), err.kind # "nil", Tells(err), Fail(err)
  PROVE  IInv'
<1>1. c \in Conns /\ TypeOK /\ UNCHANGED others
  BY DEF IInv, TypeOK, Fail, others
<1>2. c' \in Conns
  BY Zenon, <1>1, MessageFacts DEF Conns, Fail
<1>3. TypeOK'
  BY <1>1, <1>2 DEF TypeOK, others
<1>4. /\ c'.opt = "report" /\ c'.result = err
      /\ UNCHANGED <<c.stage, c.reader, c.completed, c.segments, c.compressor,
                     c.rounds, c.expired, c.closed, c.request, c.reply, c.failure,
                     c.server, c.misread>>
  BY <1>1 DEF Conns, Fail
<1>5. Versions'
  BY Zenon, <1>1, <1>4, MessageFacts DEF IInv, Versions, Live, Tells, Refuses, Refused, Accepts, others
<1>6. (Live' => Layouts' /\ Turns') /\ (~Live' => Rests') /\ ~c'.misread
  <2>1. Live' => Layouts'
    BY <1>1, <1>4, MessageFacts
       DEF IInv, Live, Layouts, Agreed, Started, Speaks, InLayout, Changes, Turns, others
  <2>2. Live' => Turns'
    BY <1>1, <1>4, MessageFacts DEF IInv, Live, Turns, others
  <2>3. (~Live' => Rests') /\ ~c'.misread
    BY <1>1, <1>4, MessageFacts DEF IInv, Live, Rests, others
  <2> QED BY <2>1, <2>2, <2>3
<1> QED
  BY <1>3, <1>5, <1>6 DEF IInv

\* The reader gets a tick.
LEMMA TicksIInv ==
  ASSUME IInv, UNCHANGED others, c.opt = "tick", c.reader = "range",
         c' = [c EXCEPT !.opt = "send", !.reader = "load"]
  PROVE  IInv'
<1>1. c \in Conns /\ TypeOK /\ UNCHANGED others
  BY DEF IInv, TypeOK, others
<1>2. c' \in Conns
  BY Zenon, <1>1, MessageFacts DEF Conns
<1>3. TypeOK'
  BY <1>1, <1>2 DEF TypeOK, others
<1>4. /\ c.opt = "tick" /\ c'.opt = "send" /\ c'.reader = "load"
      /\ UNCHANGED <<c.stage, c.completed, c.segments, c.compressor, c.rounds,
                     c.expired, c.closed, c.request, c.reply, c.result, c.failure,
                     c.server, c.misread>>
  BY <1>1 DEF Conns
<1>5. Versions'
  BY Zenon, <1>1, <1>4, MessageFacts DEF IInv, Versions, Live, Tells, Refuses, Refused, Accepts, others
<1>6. (Live' => Layouts' /\ Turns') /\ (~Live' => Rests') /\ ~c'.misread
  <2>1. Live' => Layouts'
    BY <1>1, <1>4, MessageFacts
       DEF IInv, Live, Layouts, Agreed, Started, Speaks, InLayout, Changes, Turns, others
  <2>2. Live' => Turns'
    BY <1>1, <1>4, MessageFacts DEF IInv, Live, Turns, others
  <2>3. (~Live' => Rests') /\ ~c'.misread
    BY <1>1, <1>4, MessageFacts DEF IInv, Live, Rests, others
  <2> QED BY <2>1, <2>2, <2>3
<1> QED
  BY <1>3, <1>5, <1>6 DEF IInv

\* A request is written in the layout that the server speaks.
LEMMA WritesIInv ==
  ASSUME IInv, UNCHANGED others, c.opt = "send",
         NEW m \in Messages({"options", "startup", "auth"}), InLayout(m), m.lz4 = c.compressor,
         c' = [c EXCEPT !.opt = "wait", !.request = m]
  PROVE  IInv'
<1>1. c \in Conns /\ TypeOK /\ UNCHANGED others
  BY DEF IInv, TypeOK, others
<1>2. c' \in Conns
  BY Zenon, <1>1, MessageFacts DEF Conns, Messages
<1>3. TypeOK'
  BY <1>1, <1>2 DEF TypeOK, others
<1>4. /\ c.opt = "send" /\ c'.opt = "wait" /\ c'.request = m
      /\ UNCHANGED <<c.stage, c.reader, c.completed, c.segments, c.compressor,
                     c.rounds, c.expired, c.closed, c.reply, c.result, c.failure,
                     c.server, c.misread>>
  BY <1>1 DEF Conns
<1>5. Versions'
  BY Zenon, <1>1, <1>4, MessageFacts DEF IInv, Versions, Live, Tells, Refuses, Refused, Accepts, others
<1>6. (Live' => Layouts' /\ Turns') /\ (~Live' => Rests') /\ ~c'.misread
  <2>1. Live' => Layouts'
    BY <1>1, <1>4, MessageFacts
       DEF IInv, Live, Layouts, Agreed, Started, Speaks, InLayout, Changes, Turns, others
  <2>2. Live' => Turns'
    BY <1>1, <1>4, MessageFacts DEF IInv, Live, Turns, others
  <2>3. (~Live' => Rests') /\ ~c'.misread
    BY <1>1, <1>4, MessageFacts DEF IInv, Live, Rests, others
  <2> QED BY <2>1, <2>2, <2>3
<1> QED
  BY <1>3, <1>5, <1>6 DEF IInv

\* SUPPORTED: the compressor is dropped if the server has none.
LEMMA SupportedIInv ==
  ASSUME IInv, UNCHANGED others, c.opt = "handle", c.stage = "options",
         c.result.kind = "supported",
         c' = [c EXCEPT !.opt = "tick", !.stage = "startup", !.compressor = @ /\ host.lz4]
  PROVE  IInv'
<1>1. c \in Conns /\ TypeOK /\ UNCHANGED others
  BY DEF IInv, TypeOK, others
<1>2. c' \in Conns
  BY Zenon, <1>1, MessageFacts DEF Conns, TypeOK, HostRecords
<1>3. TypeOK'
  BY <1>1, <1>2 DEF TypeOK, others
<1>4. /\ c.opt = "handle" /\ c.stage = "options" /\ c.result.kind = "supported"
      /\ c'.opt = "tick" /\ c'.stage = "startup"
      /\ UNCHANGED <<c.reader, c.completed, c.segments, c.rounds, c.expired, c.closed,
                     c.request, c.reply, c.result, c.failure, c.server, c.misread>>
  BY <1>1 DEF Conns
<1>5. Versions'
  BY Zenon, <1>1, <1>4, MessageFacts DEF IInv, Versions, Live, Tells, Refuses, Refused, Accepts, others
<1>6. (Live' => Layouts' /\ Turns') /\ (~Live' => Rests') /\ ~c'.misread
  <2>1. Live' => Layouts'
    BY Zenon, <1>1, <1>4, MessageFacts
       DEF IInv, Live, Layouts, Agreed, Started, Speaks, InLayout, Changes, Turns, others
  <2>2. Live' => Turns'
    BY <1>1, <1>4, MessageFacts DEF IInv, Live, Turns, others
  <2>3. (~Live' => Rests') /\ ~c'.misread
    BY <1>1, <1>4, MessageFacts DEF IInv, Live, Rests, others
  <2> QED BY <2>1, <2>2, <2>3
<1> QED
  BY <1>3, <1>5, <1>6 DEF IInv

\* READY: the startup is completed.
LEMMA ReadyIInv ==
  ASSUME IInv, UNCHANGED others, c.opt = "handle", c.stage = "startup", c.result.kind = "ready",
         c' = [c EXCEPT !.opt = "report", !.completed = TRUE, !.result.kind = "nil"]
  PROVE  IInv'
<1>1. c \in Conns /\ TypeOK /\ UNCHANGED others
  BY DEF IInv, TypeOK, others
<1>2. c' \in Conns
  BY Zenon, <1>1, MessageFacts DEF Conns, Messages
<1>3. TypeOK'
  BY <1>1, <1>2 DEF TypeOK, others
<1>4. /\ c.opt = "handle" /\ c.result.kind = "ready"
      /\ c'.opt = "report" /\ c'.completed /\ c'.result.kind = "nil"
      /\ UNCHANGED <<c.stage, c.reader, c.segments, c.compressor, c.rounds, c.expired,
                     c.closed, c.request, c.reply, c.failure, c.server, c.misread>>
  BY <1>1 DEF Conns, Messages
<1>5. Versions'
  BY Zenon, <1>1, <1>4, MessageFacts DEF IInv, Versions, Live, Tells, Refuses, Refused, Accepts, others
<1>6. (Live' => Layouts' /\ Turns') /\ (~Live' => Rests') /\ ~c'.misread
  <2>1. Live' => Layouts'
    BY <1>1, <1>4, MessageFacts
       DEF IInv, Live, Layouts, Agreed, Started, Speaks, InLayout, Changes, Turns, others
  <2>2. Live' => Turns'
    BY <1>1, <1>4, MessageFacts DEF IInv, Live, Turns, others
  <2>3. (~Live' => Rests') /\ ~c'.misread
    BY <1>1, <1>4, MessageFacts DEF IInv, Live, Rests, others
  <2> QED BY <2>1, <2>2, <2>3
<1> QED
  BY <1>3, <1>5, <1>6 DEF IInv

\* AUTHENTICATE that the client cannot answer.
LEMMA RefusedIInv ==
  ASSUME IInv, UNCHANGED others, c.opt = "handle",  c.stage = "startup",
         c' = [c EXCEPT !.opt = "report", !.completed = TRUE, !.result = Error]
  PROVE  IInv'
<1>1. c \in Conns /\ TypeOK /\ UNCHANGED others
  BY DEF IInv, TypeOK, others
<1>2. c' \in Conns
  BY Zenon, <1>1, Widens, MessageFacts DEF Conns
<1>3. TypeOK'
  BY <1>1, <1>2 DEF TypeOK, others
<1>4. /\ c.opt = "handle" /\ c.stage = "startup"
      /\ c'.opt = "report" /\ c'.completed /\ c'.result = Error
      /\ UNCHANGED <<c.stage, c.reader, c.segments, c.compressor, c.rounds, c.expired,
                     c.closed, c.request, c.reply, c.failure, c.server, c.misread>>
  BY <1>1 DEF Conns
<1>5. Versions'
  BY Zenon, <1>1, <1>4, MessageFacts DEF IInv, Versions, Live, Tells, Refuses, Refused, Accepts, others
<1>6. (Live' => Layouts' /\ Turns') /\ (~Live' => Rests') /\ ~c'.misread
  <2>1. Live' => Layouts'
    BY <1>1, <1>4, MessageFacts
       DEF IInv, Live, Layouts, Agreed, Started, Speaks, InLayout, Changes, Turns, others
  <2>2. Live' => Turns'
    BY <1>1, <1>4, MessageFacts DEF IInv, Live, Turns, others
  <2>3. (~Live' => Rests') /\ ~c'.misread
    BY <1>1, <1>4, MessageFacts DEF IInv, Live, Rests, others
  <2> QED BY <2>1, <2>2, <2>3
<1> QED
  BY <1>3, <1>5, <1>6 DEF IInv

\* AUTHENTICATE that it answers.
LEMMA LoginIInv ==
  ASSUME IInv, UNCHANGED others, c.opt = "handle", c.stage = "startup",
         c.result.kind = "authenticate",
         c' = [c EXCEPT !.opt = "tick", !.completed = TRUE, !.stage = "auth"]
  PROVE  IInv'
<1>1. c \in Conns /\ TypeOK /\ UNCHANGED others
  BY DEF IInv, TypeOK, others
<1>2. c' \in Conns
  BY Zenon, <1>1, MessageFacts DEF Conns
<1>3. TypeOK'
  BY <1>1, <1>2 DEF TypeOK, others
<1>4. /\ c.opt = "handle" /\ c.result.kind = "authenticate"
      /\ c'.opt = "tick" /\ c'.completed /\ c'.stage = "auth"
      /\ UNCHANGED <<c.reader, c.segments, c.compressor, c.rounds, c.expired, c.closed,
                     c.request, c.reply, c.result, c.failure, c.server, c.misread>>
  BY <1>1 DEF Conns
<1>5. Versions'
  BY Zenon, <1>1, <1>4, MessageFacts DEF IInv, Versions, Live, Tells, Refuses, Refused, Accepts, others
<1>6. (Live' => Layouts' /\ Turns') /\ (~Live' => Rests') /\ ~c'.misread
  <2>1. Live' => Layouts'
    BY <1>1, <1>4, MessageFacts
       DEF IInv, Live, Layouts, Agreed, Started, Speaks, InLayout, Changes, Turns, others
  <2>2. Live' => Turns'
    BY <1>1, <1>4, MessageFacts DEF IInv, Live, Turns, others
  <2>3. (~Live' => Rests') /\ ~c'.misread
    BY <1>1, <1>4, MessageFacts DEF IInv, Live, Rests, others
  <2> QED BY <2>1, <2>2, <2>3
<1> QED
  BY <1>3, <1>5, <1>6 DEF IInv

\* AUTH_SUCCESS.
LEMMA SuccessIInv ==
  ASSUME IInv, UNCHANGED others, c.opt = "handle", c.result.kind = "success",
         c' = [c EXCEPT !.opt = "report", !.result.kind = "nil"]
  PROVE  IInv'
<1>1. c \in Conns /\ TypeOK /\ UNCHANGED others
  BY DEF IInv, TypeOK, others
<1>2. c' \in Conns
  BY Zenon, <1>1, MessageFacts DEF Conns, Messages
<1>3. TypeOK'
  BY <1>1, <1>2 DEF TypeOK, others
<1>4. /\ c.opt = "handle" /\ c.result.kind = "success"
      /\ c'.opt = "report" /\ c'.result.kind = "nil"
      /\ UNCHANGED <<c.stage, c.reader, c.completed, c.segments, c.compressor,
                     c.rounds, c.expired, c.closed, c.request, c.reply, c.failure,
                     c.server, c.misread>>
  BY <1>1 DEF Conns, Messages
<1>5. Versions'
  BY Zenon, <1>1, <1>4, MessageFacts DEF IInv, Versions, Live, Tells, Refuses, Refused, Accepts, others
<1>6. (Live' => Layouts' /\ Turns') /\ (~Live' => Rests') /\ ~c'.misread
  <2>1. Live' => Layouts'
    BY <1>1, <1>4, MessageFacts
       DEF IInv, Live, Layouts, Agreed, Started, Speaks, InLayout, Changes, Turns, others
  <2>2. Live' => Turns'
    BY <1>1, <1>4, MessageFacts DEF IInv, Live, Turns, others
  <2>3. (~Live' => Rests') /\ ~c'.misread
    BY <1>1, <1>4, MessageFacts DEF IInv, Live, Rests, others
  <2> QED BY <2>1, <2>2, <2>3
<1> QED
  BY <1>3, <1>5, <1>6 DEF IInv

\* AUTH_CHALLENGE, one more round.
LEMMA ChallengeIInv ==
  ASSUME IInv, UNCHANGED others, c.opt = "handle", c.result.kind = "challenge",
         c' = [c EXCEPT !.opt = "tick", !.rounds = @ + 1]
  PROVE  IInv'
<1>1. c \in Conns /\ TypeOK /\ UNCHANGED others
  BY DEF IInv, TypeOK, others
<1>7. c.rounds + 1 \in Nat
  BY <1>1 DEF Conns
<1>2. c' \in Conns
  BY Zenon, <1>1, <1>7, MessageFacts DEF Conns
<1>3. TypeOK'
  BY <1>1, <1>2 DEF TypeOK, others
<1>4. /\ c.opt = "handle" /\ c.result.kind = "challenge" /\ c'.opt = "tick"
      /\ UNCHANGED <<c.stage, c.reader, c.completed, c.segments, c.compressor,
                     c.expired, c.closed, c.request, c.reply, c.result, c.failure,
                     c.server, c.misread>>
  BY <1>1 DEF Conns
<1>5. Versions'
  BY Zenon, <1>1, <1>4, MessageFacts DEF IInv, Versions, Live, Tells, Refuses, Refused, Accepts, others
<1>6. (Live' => Layouts' /\ Turns') /\ (~Live' => Rests') /\ ~c'.misread
  <2>1. Live' => Layouts'
    BY <1>1, <1>4, MessageFacts
       DEF IInv, Live, Layouts, Agreed, Started, Speaks, InLayout, Changes, Turns, others
  <2>2. Live' => Turns'
    BY <1>1, <1>4, MessageFacts DEF IInv, Live, Turns, others
  <2>3. (~Live' => Rests') /\ ~c'.misread
    BY <1>1, <1>4, MessageFacts DEF IInv, Live, Rests, others
  <2> QED BY <2>1, <2>2, <2>3
<1> QED
  BY <1>3, <1>5, <1>6 DEF IInv

\* A goroutine of the startup ends, or setupConn returns.
LEMMA LeavesIInv ==
  ASSUME IInv, Live, Live', UNCHANGED <<client, hosts, host, proto, erred>>, c' \in Conns,
         c'.opt \in {c.opt, "done"},
         c'.reader = c.reader \/ (c.reader = "report" /\ c'.reader = "done"),
         UNCHANGED <<c.stage, c.completed, c.segments, c.compressor, c.rounds,
                     c.request, c.reply, c.result, c.failure, c.server, c.misread>>,
         outcome' \in {"none", "ok", "unsupported", "error", "panic"},
         main' = "returned" /\ outcome' = "unsupported" => Refused(proto),
         main' = "returned" /\ outcome' = "ok" => proto <= host.max,
         outcome' = "ok" => c'.opt = "done" /\ c'.reader \in {"range", "done"}
  PROVE  IInv'
<1>1. TypeOK'
  BY DEF IInv, TypeOK, Live
<1>2. Versions'
  BY Zenon DEF IInv, Versions, Live, Tells, Refuses, Refused, Accepts
<1>3. Layouts'
  BY DEF IInv, Layouts, Agreed, Started, Speaks, InLayout, Changes
<1>4. Turns'
  BY DEF IInv, Turns
<1> QED
  BY Zenon, <1>1, <1>2, <1>3, <1>4 DEF IInv

\* setupConn returns with err: the version is refused only if err tells so, and there is
\* no error only if the options goroutine has ended without one.
LEMMA ReturnIInv ==
  ASSUME IInv, UNCHANGED <<client, hosts, host, proto, erred>>, NEW err, Tells(err),
         NEW conn \in Conns, conn.opt \in {c.opt, "done"},
         conn.reader = c.reader \/ (c.reader = "report" /\ conn.reader = "done"),
         conn.stage = c.stage,
         conn.completed = c.completed,
         conn.segments = c.segments,
         conn.compressor = c.compressor,
         conn.rounds = c.rounds,
         conn.request = c.request,
         conn.reply = c.reply,
         conn.result = c.result,
         conn.failure = c.failure,
         conn.server = c.server,
         conn.misread = c.misread,
         err.kind = "nil" => conn.opt = "done" /\ conn.reader \in {"range", "done"},
         Return(err, conn)
  PROVE  IInv'
<1>1. Live /\ Live' /\ main' = "returned"
  BY DEF Return, Live
<1>2. c' \in Conns
  BY Zenon DEF Return, Conns
<1>3. /\ c'.opt = conn.opt /\ c'.reader = conn.reader
      /\ UNCHANGED <<c.stage, c.completed, c.segments, c.compressor, c.rounds,
                     c.request, c.reply, c.result, c.failure, c.server, c.misread>>
  BY DEF Return, Conns
<1>4. /\ outcome' \in {"ok", "unsupported", "error"}
      /\ outcome' = "ok" => err.kind = "nil"
      /\ outcome' = "unsupported" => Refuses(err)
  BY Zenon DEF Return, checkProtocolRelatedError, Refuses
<1>5. /\ outcome' = "unsupported" => Refused(proto)
      /\ outcome' = "ok" => proto <= host.max
  BY Zenon, <1>4 DEF Tells, Accepts
<1> QED
  BY Zenon, <1>1, <1>2, <1>3, <1>4, <1>5, LeavesIInv

LEMMA SelectDoneIInv == ASSUME IInv, SelectDone PROVE IInv'
<1>1. c \in Conns /\ Tells(Error)
  BY MessageFacts DEF IInv, TypeOK, Tells, Refuses, Accepts
<1> QED
  BY <1>1, MessageFacts, ReturnIInv DEF SelectDone

LEMMA OptionsReportsIInv == ASSUME IInv, OptionsReports PROVE IInv'
<1> DEFINE conn == [c EXCEPT !.opt = "done"]
<1>1. c \in Conns /\ c.opt = "report" /\ Live /\ UNCHANGED <<client, hosts, host, proto, erred>>
  BY DEF IInv, TypeOK, Rests, OptionsReports
<1>2. conn \in Conns
  BY <1>1 DEF Conns
<1>3. /\ conn.opt = "done" /\ conn.reader = c.reader
      /\ conn.stage = c.stage
      /\ conn.completed = c.completed
      /\ conn.segments = c.segments
      /\ conn.compressor = c.compressor
      /\ conn.rounds = c.rounds
      /\ conn.expired = c.expired
      /\ conn.closed = c.closed
      /\ conn.request = c.request
      /\ conn.reply = c.reply
      /\ conn.result = c.result
      /\ conn.failure = c.failure
      /\ conn.server = c.server
      /\ conn.misread = c.misread
  BY <1>1 DEF Conns
<1>4. Tells(c.result) /\ (c.result.kind = "nil" => c.reader \in {"range", "done"})
  BY <1>1 DEF IInv, Versions, Turns
<1> HIDE DEF conn
<1>5. CASE Return(c.result, conn)
  BY <1>1, <1>2, <1>3, <1>4, <1>5, ReturnIInv
<1>6. CASE c' = conn /\ UNCHANGED <<main, outcome>>
  <2>1. Live' /\ outcome' \in {"none", "ok", "unsupported", "error", "panic"}
    BY <1>1, <1>6 DEF Live, IInv, TypeOK
  <2>2. /\ main' = "returned" /\ outcome' = "unsupported" => Refused(proto)
        /\ main' = "returned" /\ outcome' = "ok" => proto <= host.max
        /\ outcome' # "ok"
    BY <1>1, <1>6 DEF IInv, Versions, Turns
  <2> QED
    BY <1>1, <1>2, <1>3, <1>6, <2>1, <2>2, LeavesIInv
<1> QED
  BY <1>5, <1>6 DEF OptionsReports, Report, conn

LEMMA ReaderReportsIInv == ASSUME IInv, ReaderReports PROVE IInv'
<1> DEFINE conn == [c EXCEPT !.reader = "done"]
<1>1. c \in Conns /\ c.reader = "report" /\ Live /\ UNCHANGED <<client, hosts, host, proto, erred>>
  BY DEF IInv, TypeOK, Rests, ReaderReports
<1>2. conn \in Conns
  BY <1>1 DEF Conns
<1>3. /\ conn.opt = c.opt /\ conn.reader = "done"
      /\ conn.stage = c.stage
      /\ conn.completed = c.completed
      /\ conn.segments = c.segments
      /\ conn.compressor = c.compressor
      /\ conn.rounds = c.rounds
      /\ conn.expired = c.expired
      /\ conn.closed = c.closed
      /\ conn.request = c.request
      /\ conn.reply = c.reply
      /\ conn.result = c.result
      /\ conn.failure = c.failure
      /\ conn.server = c.server
      /\ conn.misread = c.misread
  BY <1>1 DEF Conns
<1>4. Tells(c.failure) /\ c.failure.kind # "nil"
  BY Zenon, <1>1 DEF IInv, Versions, Conns, Messages, Kinds
<1> HIDE DEF conn
<1>5. CASE Return(c.failure, conn)
  BY <1>1, <1>2, <1>3, <1>4, <1>5, ReturnIInv
<1>6. CASE c' = conn /\ UNCHANGED <<main, outcome>>
  <2>1. Live' /\ outcome' \in {"none", "ok", "unsupported", "error", "panic"}
    BY <1>1, <1>6 DEF Live, IInv, TypeOK
  <2>2. /\ main' = "returned" /\ outcome' = "unsupported" => Refused(proto)
        /\ main' = "returned" /\ outcome' = "ok" => proto <= host.max
        /\ outcome' # "ok"
    BY <1>1, <1>6 DEF IInv, Versions, Turns
  <2> QED
    BY <1>1, <1>2, <1>3, <1>6, <2>1, <2>2, LeavesIInv
<1> QED
  BY <1>5, <1>6 DEF ReaderReports, Report, conn

-------------------------------------------------------------------------------
(* The options goroutine *)

LEMMA ErrorTells == Tells(Error) /\ Error \in Messages(Kinds \cup {"nil"}) /\ Error.kind # "nil"
BY MessageFacts, Widens DEF Tells, Refuses, Accepts

\* What a handler has got is a response, and may be reported.
LEMMA ResultTells ==
  ASSUME IInv, c.opt = "handle"
  PROVE  Live /\ c.result \in Messages(Kinds \cup {"nil"}) /\ c.result.kind # "nil" /\ Tells(c.result)
<1>1. Live /\ c \in Conns
  BY DEF IInv, TypeOK, Rests
<1> QED
  BY <1>1 DEF IInv, Versions, Turns, Conns

LEMMA TickIInv == ASSUME IInv, Tick PROVE IInv'
<1>1. c.opt = "tick" /\ UNCHANGED others
  BY DEF Tick, others
<1>2. CASE c.reader = "range" /\ c' = [c EXCEPT !.opt = "send", !.reader = "load"]
  BY <1>1, <1>2, TicksIInv
<1>3. CASE Fail(Error)
  BY <1>1, <1>3, ErrorTells, FailsIInv
<1> QED
  BY <1>2, <1>3 DEF Tick, Fail

LEMMA execInternalIInv == ASSUME IInv, execInternal PROVE IInv'
<1> DEFINE m == Message(c.stage, "own", TRUE, proto > 4 /\ c.completed, c.compressor)
<1>1. c.opt = "send" /\ UNCHANGED others
  BY DEF execInternal, others
<1>2. CASE Fail(Error)
  BY <1>1, <1>2, ErrorTells, FailsIInv
<1>3. CASE c' = [c EXCEPT !.opt = "wait", !.request = m]
  <2>1. c \in Conns
    BY DEF IInv, TypeOK
  <2>2. m \in Messages({"options", "startup", "auth"})
    BY <2>1 DEF Message, Messages, Conns
  <2>3. InLayout(m) /\ m.lz4 = c.compressor
    BY DEF InLayout, Message
  <2> QED
    BY Zenon, <1>1, <1>3, <2>2, <2>3, WritesIInv
<1> QED
  BY <1>2, <1>3 DEF execInternal, Fail

LEMMA ExecGivesUpIInv == ASSUME IInv, ExecGivesUp PROVE IInv'
BY Zenon, ErrorTells, FailsIInv DEF ExecGivesUp, Fail, others

LEMMA optionsIInv == ASSUME IInv, options PROVE IInv'
<1>1. c.opt = "handle" /\ c.stage = "options" /\ UNCHANGED others
  BY DEF options, others
<1>2. CASE c.result.kind = "supported"
  BY <1>1, <1>2, SupportedIInv DEF options
<1>3. CASE c.result.kind # "supported"
  <2>1. Fail(c.result)
    BY <1>3 DEF options
  <2> QED
    BY <1>1, <2>1, ResultTells, FailsIInv
<1> QED
  BY <1>2, <1>3

LEMMA startupIInv == ASSUME IInv, startup PROVE IInv'
<1>1. c.opt = "handle" /\ c.stage = "startup" /\ UNCHANGED others
  BY DEF startup, others
<1>2. CASE c.result.kind = "ready"
  BY <1>1, <1>2, ReadyIInv DEF startup
<1>3. CASE c.result.kind = "authenticate"
  BY <1>1, <1>3, RefusedIInv, LoginIInv DEF startup
<1>4. CASE c.result.kind \notin {"ready", "authenticate"}
  <2>1. Fail(c.result)
    BY <1>4 DEF startup
  <2> QED
    BY <1>1, <2>1, ResultTells, FailsIInv
<1> QED
  BY <1>2, <1>3, <1>4

LEMMA authenticateHandshakeIInv == ASSUME IInv, authenticateHandshake PROVE IInv'
<1>1. c.opt = "handle" /\ UNCHANGED <<client, hosts, host, proto, erred, main>>
  BY DEF authenticateHandshake
<1>2. CASE outcome' = "panic" /\ UNCHANGED c
  <2>1. Live /\ Live' /\ c \in Conns
    BY <1>1, ResultTells DEF Live, IInv, TypeOK
  <2> QED
    BY <1>1, <1>2, <2>1, LeavesIInv
<1>3. CASE c.result.kind = "success" /\ UNCHANGED outcome
           /\ c' = [c EXCEPT !.opt = "report", !.result.kind = "nil"]
  BY <1>1, <1>3, SuccessIInv DEF others
<1>4. CASE c.result.kind = "challenge" /\ UNCHANGED outcome
           /\ c' = [c EXCEPT !.opt = "tick", !.rounds = @ + 1]
  BY <1>1, <1>4, ChallengeIInv DEF others
<1>5. CASE Fail(Error) /\ UNCHANGED outcome
  BY <1>1, <1>5, ErrorTells, FailsIInv DEF others
<1>6. CASE Fail(c.result) /\ UNCHANGED outcome
  BY <1>1, <1>6, ResultTells, FailsIInv DEF others
<1>7. CASE c.result.kind = "success"
  BY <1>3, <1>5, <1>7 DEF authenticateHandshake
<1>8. CASE c.result.kind = "challenge" /\ client.auth \in {"password", "rounds"}
  BY <1>2, <1>4, <1>5, <1>8 DEF authenticateHandshake
<1>9. CASE ~(c.result.kind = "success")
           /\ ~(c.result.kind = "challenge" /\ client.auth \in {"password", "rounds"})
  BY <1>6, <1>9 DEF authenticateHandshake
<1> QED
  BY <1>7, <1>8, <1>9

-------------------------------------------------------------------------------
(* The reader goroutine and the server *)

LEMMA ResponseFacts ==
  ASSUME NEW m \in Messages(Kinds)
  PROVE  /\ Response(m) \in {m, Error} /\ m.kind # "nil"
         /\ Response(m) \in Messages(Kinds \cup {"nil"}) /\ Response(m).kind # "nil"
         /\ m.stream \in {"own", "zero"}
BY Zenon, MessageFacts, Widens DEF Response, Messages, Kinds

\* A response is read in the layout it was written in.
LEMMA ReadsIInv ==
  ASSUME IInv, UNCHANGED others, c.reader = "recv", c.reply # NoMessage,
         c' = [c EXCEPT
                 !.reply = NoMessage,
                 !.misread = @ \/ c.segments # c.reply.segments
                               \/ (c.segments /\ c.compressor # c.reply.lz4),
                 !.reader = IF c.reply.stream = "zero" THEN "report" ELSE "range",
                 !.failure = IF c.reply.stream = "zero" THEN c.reply ELSE @,
                 !.opt = IF c.reply.stream = "own" /\ @ = "wait" THEN "handle" ELSE @,
                 !.result = IF c.reply.stream = "own" /\ c.opt = "wait" THEN Response(c.reply) ELSE @]
  PROVE  IInv'
<1>1. c \in Conns /\ TypeOK /\ c.reply \in Messages(Kinds) /\ Live
  BY DEF IInv, TypeOK, Conns, Rests
<1>2. /\ c.segments = c.reply.segments
      /\ c.segments => c.compressor = c.reply.lz4
      /\ ~c.misread
  BY <1>1 DEF IInv, Layouts, InLayout
<1>3. /\ c'.reply = NoMessage /\ ~c'.misread
      /\ c'.reader = (IF c.reply.stream = "zero" THEN "report" ELSE "range")
      /\ c'.failure = (IF c.reply.stream = "zero" THEN c.reply ELSE c.failure)
      /\ c'.opt = (IF c.reply.stream = "own" /\ c.opt = "wait" THEN "handle" ELSE c.opt)
      /\ c'.result = (IF c.reply.stream = "own" /\ c.opt = "wait" THEN Response(c.reply) ELSE c.result)
      /\ UNCHANGED <<c.stage, c.completed, c.segments, c.compressor, c.rounds, c.expired,
                     c.closed, c.request, c.server>>
  BY <1>1, <1>2 DEF Conns
<1>4. c' \in Conns
  <2> DEFINE reader == IF c.reply.stream = "zero" THEN "report" ELSE "range"
             failure == IF c.reply.stream = "zero" THEN c.reply ELSE c.failure
             opt == IF c.reply.stream = "own" /\ c.opt = "wait" THEN "handle" ELSE c.opt
             result == IF c.reply.stream = "own" /\ c.opt = "wait" THEN Response(c.reply) ELSE c.result
  <2>1. /\ reader \in {"report", "range"} /\ failure \in Messages(Kinds)
        /\ opt \in {"tick", "send", "wait", "handle", "report", "done"}
        /\ result \in Messages(Kinds \cup {"nil"})
    BY Zenon, <1>1, ResponseFacts DEF Conns
  <2>2. c.misread = FALSE
    BY <1>1, <1>2 DEF Conns
  <2>3. c' = [c EXCEPT !.reply = NoMessage, !.misread = FALSE, !.reader = reader,
                       !.failure = failure, !.opt = opt, !.result = result]
    BY Zenon, <1>2, <2>2
  <2> HIDE DEF reader, failure, opt, result
  <2> DEFINE d == [c EXCEPT !.reply = NoMessage, !.misread = FALSE, !.reader = reader]
  <2>4. d \in Conns
    BY Zenon, <1>1, <2>1, MessageFacts DEF Conns
  <2>5. c' = [d EXCEPT !.failure = failure, !.opt = opt, !.result = result]
    BY <1>1, <2>3 DEF Conns
  <2> HIDE DEF d
  <2>6. [d EXCEPT !.failure = failure] \in Conns
    BY <2>1, <2>4 DEF Conns
  <2>7. [[d EXCEPT !.failure = failure] EXCEPT !.opt = opt, !.result = result] \in Conns
    <3> DEFINE e == [d EXCEPT !.failure = failure]
    <3> HIDE DEF e
    <3>1. e \in Conns
      BY <2>6 DEF e
    <3>2. [e EXCEPT !.opt = opt, !.result = result] \in Conns
      BY Zenon, <2>1, <3>1 DEF Conns
    <3> QED BY <3>2 DEF e
  <2> QED
    BY Zenon, <2>4, <2>5, <2>7 DEF Conns
<1>5. TypeOK'
  BY <1>1, <1>4 DEF TypeOK, others
<1>6. Versions'
  <2>1. Tells(c.reply) /\ Tells(c.result) /\ Tells(c.failure) /\ Tells(NoMessage)
    BY Zenon, <1>1, MessageFacts DEF IInv, Versions, Tells, Refuses, Accepts
  <2>2. Tells(Response(c.reply))
    BY <1>1, <2>1, ResponseFacts, ErrorTells
  <2>3. Tells(c'.reply) /\ Tells(c'.result) /\ Tells(c'.failure)
    BY <1>3, <2>1, <2>2
  <2>4. Tells(c.reply)' /\ Tells(c.result)' /\ Tells(c.failure)'
    BY Zenon, <2>3 DEF Tells, Refuses, Refused, Accepts, others
  <2> QED
    BY Zenon, <2>4 DEF IInv, Versions, Live, Refused, others
<1>7. Turns'
  BY <1>1, <1>3, ResponseFacts DEF IInv, Turns, others
<1>8. Layouts'
  <2>1. c.reply # NoMessage /\ (IF Changes(c.reply) THEN Started ELSE Agreed)
    BY <1>1 DEF IInv, Layouts
  <2>2. Changes(Response(c.reply)) => Changes(c.reply)
    BY <1>1, ResponseFacts, MessageFacts DEF Changes
  <2>3. Response(c.reply).kind \in {"supported", "challenge"} => ~Changes(c.reply)
    BY <1>1, ResponseFacts, MessageFacts DEF Changes
  <2> QED
    BY <1>1, <1>3, <2>1, <2>2, <2>3
       DEF IInv, Layouts, Agreed, Started, Speaks, InLayout, Changes, Turns, others
<1>9. Live'
  BY <1>1 DEF Live, others
<1> QED
  BY <1>3, <1>5, <1>6, <1>7, <1>8, <1>9 DEF IInv

\* The socket is closed.
LEMMA ReadFailsIInv ==
  ASSUME IInv, UNCHANGED others, c.reader = "recv",
         c' = [c EXCEPT !.reader = "report", !.failure = Error]
  PROVE  IInv'
<1>1. c \in Conns /\ TypeOK /\ Live
  BY DEF IInv, TypeOK, Rests
<1>2. c' \in Conns
  BY Zenon, <1>1, MessageFacts DEF Conns
<1>3. /\ c'.reader = "report" /\ c'.failure = Error
      /\ UNCHANGED <<c.opt, c.stage, c.completed, c.segments, c.compressor, c.rounds, c.expired,
                     c.closed, c.request, c.reply, c.result, c.server, c.misread>>
  BY <1>1 DEF Conns
<1>4. TypeOK' /\ Live'
  BY <1>1, <1>2 DEF TypeOK, Live, others
<1>5. Versions'
  BY Zenon, <1>1, <1>3, MessageFacts DEF IInv, Versions, Live, Tells, Refuses, Refused, Accepts, others
<1>6. Layouts' /\ Turns' /\ ~c'.misread
  BY <1>1, <1>3 DEF IInv, Layouts, Agreed, Started, Speaks, InLayout, Changes, Turns, others
<1> QED
  BY <1>4, <1>5, <1>6 DEF IInv

LEMMA recvIInv == ASSUME IInv, recv PROVE IInv'
<1>1. c.reader = "recv" /\ UNCHANGED others
  BY DEF recv, others
<1> QED
  BY <1>1, ReadsIInv, ReadFailsIInv DEF recv

\* What the server answers tells whether it speaks the version.
LEMMA AnswerFacts ==
  ASSUME TypeOK, NEW a \in Answers
  PROVE  /\ a.kind \in Kinds \ {"none"} /\ a.stream \in {"own", "zero"} /\ a.same \in BOOLEAN
         /\ Refuses(a) => proto > host.max \/ a.kind \in ErrorCodes
         /\ Accepts(a) => proto <= host.max
<1>1. host.max \in Int /\ proto \in Int
  BY DEF TypeOK, HostRecords
<1>2. CASE proto > host.max
  <2>1. \/ a \in [kind : ErrorCodes, stream : {"own", "zero"}, same : BOOLEAN]
        \/ a \in [kind : {"supported"}, stream : {"own", "zero"}, same : {FALSE}]
    BY Zenon, <1>2 DEF Answers
  <2>2. /\ a.kind \in {"protocol error", "server error", "supported"}
        /\ a.stream \in {"own", "zero"} /\ a.same \in BOOLEAN
        /\ a.kind = "supported" => a.same = FALSE
    BY Zenon, <2>1 DEF ErrorCodes
  <2> QED
    BY Zenon, <1>2, <2>2 DEF Kinds, Accepts
<1>3. CASE ~(proto > host.max)
  <2>1. a \in [kind : ErrorCodes \cup {"supported", "ready", "authenticate", "success",
                                       "challenge", "error"},
               stream : {"own"}, same : {TRUE}]
    BY Zenon, <1>3 DEF Answers
  <2>2. /\ a.kind \in ErrorCodes \cup {"supported", "ready", "authenticate", "success",
                                       "challenge", "error"}
        /\ a.stream = "own" /\ a.same = TRUE
    BY Zenon, <2>1
  <2>3. Refuses(a) => a.kind \in ErrorCodes
    BY Zenon, <2>2 DEF Refuses, ErrorCodes
  <2>4. proto <= host.max
    BY <1>1, <1>3
  <2> QED
    BY Zenon, <2>2, <2>3, <2>4 DEF Kinds, ErrorCodes
<1> QED
  BY <1>2, <1>3

LEMMA ServeIInv == ASSUME IInv, Serve PROVE IInv'
<1>1. /\ c \in Conns /\ TypeOK /\ Live /\ c.request # NoMessage
      /\ UNCHANGED <<client, hosts, host, proto, main, outcome>>
      /\ proto \in Int /\ host.max \in Int
  BY DEF IInv, TypeOK, Rests, Serve, HostRecords
<1>2. /\ c.request.segments = c.server.segments
      /\ c.server.segments => c.request.lz4 = c.server.lz4
      /\ Agreed /\ InLayout(c.request) /\ c.request.lz4 = c.compressor /\ ~c.misread
  BY <1>1 DEF IInv, Layouts, Agreed, Speaks, InLayout
<1>3. PICK a \in Answers :
        /\ c' = [c EXCEPT
                   !.request = NoMessage,
                   !.misread = @ \/ c.request.segments # c.server.segments
                                 \/ (c.server.segments /\ c.request.lz4 # c.server.lz4),
                   !.reply = Message(a.kind, a.stream, a.same, c.server.segments, c.server.lz4),
                   !.server = IF a.kind \in {"ready", "authenticate"}
                              THEN [segments |-> proto > 4, lz4 |-> c.request.lz4] ELSE @]
        /\ erred' = erred \cup {v \in {proto} : v <= host.max /\ a.kind \in ErrorCodes}
  BY Zenon DEF Serve
<1> DEFINE m == Message(a.kind, a.stream, a.same, c.server.segments, c.server.lz4)
<1>4. /\ a.kind \in Kinds \ {"none"} /\ a.stream \in {"own", "zero"} /\ a.same \in BOOLEAN
      /\ Refuses(a) => Refused(proto)'
      /\ Accepts(a) => proto <= host.max
  <2>1. /\ Refuses(a) => proto > host.max \/ a.kind \in ErrorCodes
        /\ Accepts(a) => proto <= host.max
        /\ a.kind \in Kinds \ {"none"} /\ a.stream \in {"own", "zero"} /\ a.same \in BOOLEAN
    BY <1>1, AnswerFacts
  <2>2. a.kind \in ErrorCodes => Refused(proto)'
    BY <1>1, <1>3 DEF Refused
  <2>3. proto > host.max => Refused(proto)'
    BY <1>1 DEF Refused
  <2> QED
    BY <2>1, <2>2, <2>3
<1>5. /\ c.server \in [segments : BOOLEAN, lz4 : BOOLEAN] /\ c.request.lz4 \in BOOLEAN
      /\ c.compressor \in BOOLEAN
  BY <1>1 DEF Conns, Messages
<1>6. /\ m \in Messages(Kinds) /\ m # NoMessage
      /\ Refuses(m) => Refuses(a)
      /\ Accepts(m) => Accepts(a)
      /\ m.segments = c.server.segments /\ m.lz4 = c.server.lz4 /\ m.kind = a.kind
  BY Zenon, <1>4, <1>5 DEF Message, Messages, NoMessage, Refuses, Accepts
<1> HIDE DEF m
<1>7. /\ c'.request = NoMessage /\ ~c'.misread /\ c'.reply = m
      /\ c'.server = (IF a.kind \in {"ready", "authenticate"}
                      THEN [segments |-> proto > 4, lz4 |-> c.request.lz4] ELSE c.server)
      /\ UNCHANGED <<c.opt, c.stage, c.reader, c.completed, c.segments, c.compressor, c.rounds,
                     c.expired, c.closed, c.result, c.failure>>
  BY <1>1, <1>2, <1>3 DEF Conns, m
<1>8. c' \in Conns
  <2> DEFINE after == IF a.kind \in {"ready", "authenticate"}
                       THEN [segments |-> proto > 4, lz4 |-> c.request.lz4] ELSE c.server
  <2>1. after \in [segments : BOOLEAN, lz4 : BOOLEAN]
    BY <1>5
  <2>2. c.misread = FALSE
    BY <1>1, <1>2 DEF Conns
  <2>3. c' = [c EXCEPT !.request = NoMessage, !.misread = FALSE, !.reply = m, !.server = after]
    BY Zenon, <1>2, <1>3, <2>2 DEF m
  <2> HIDE DEF after
  <2> QED
    BY Zenon, <1>1, <1>6, <2>1, <2>3, MessageFacts DEF Conns
<1>9. TypeOK' /\ Live'
  BY <1>1, <1>3, <1>8 DEF TypeOK, Live
<1>10. Versions'
  <2>1. \A v : Refused(v) => Refused(v)'
    BY Zenon, <1>1, <1>3 DEF Refused
  <2>2. /\ Refuses(m) => Refused(proto)'
        /\ Accepts(m) => proto <= host.max
    BY Zenon, <1>4, <1>6
  <2>3. \A n : Tells(n) => (Refuses(n) => Refused(proto)') /\ (Accepts(n) => proto <= host.max)
    BY Zenon, <1>1, <2>1 DEF Tells, Refused
  <2>4. Tells(c.reply)' /\ Tells(c.result)' /\ Tells(c.failure)'
    <3>1. Tells(c.result) /\ Tells(c.failure)
      BY <1>1 DEF IInv, Versions
    <3> QED
      BY Zenon, <1>1, <1>7, <2>2, <2>3, <3>1 DEF Tells, Refuses, Accepts, Refused
  <2> QED
    BY Zenon, <1>1, <2>1, <2>4 DEF IInv, Versions, Live
<1>11. Turns'
  BY Zenon, <1>1, <1>7 DEF IInv, Turns
<1>12. Layouts'
  <2>1. c.opt \notin {"tick", "send", "handle"}
    BY <1>1 DEF IInv, Turns
  <2>2. InLayout(m)
    BY <1>2, <1>6 DEF InLayout, Agreed, Speaks
  <2>3. IF Changes(m) THEN Started' ELSE Agreed'
    <3>1. CASE Changes(m)
      <4>1. c'.server = [segments |-> proto > 4, lz4 |-> c.request.lz4]
        BY Zenon, <1>6, <1>7, <3>1 DEF Changes
      <4> QED BY <1>1, <1>2, <1>7, <3>1, <4>1 DEF Started, Speaks, others
    <3>2. CASE ~Changes(m)
      <4>1. c'.server = c.server
        BY Zenon, <1>6, <1>7, <3>2 DEF Changes
      <4> QED BY <1>1, <1>2, <1>7, <3>2, <4>1 DEF Agreed, Speaks, others
    <3> QED BY <3>1, <3>2
  <2> QED
    BY Zenon, <1>1, <1>2, <1>7, <2>1, <2>2, <2>3 DEF IInv, Layouts, InLayout, Changes, others
<1> QED
  BY <1>7, <1>9, <1>10, <1>11, <1>12 DEF IInv

-------------------------------------------------------------------------------
(* discoverProtocol and tryProtocolVersionsForHost *)

LEMMA NewConnFacts ==
  ASSUME TypeOK
  PROVE  /\ NewConn \in Conns
         /\ NewConn.opt = "tick" /\ NewConn.reader = "range" /\ NewConn.stage = "options"
         /\ NewConn.completed = FALSE /\ ~NewConn.misread
         /\ NewConn.request = NoMessage /\ NewConn.reply = NoMessage
         /\ NewConn.result = NoMessage /\ NewConn.failure = NoMessage
         /\ NewConn.server.segments = FALSE
BY Zenon, MessageFacts, Widens DEF NewConn, Conns, TypeOK

LEMMA discoverProtocolIInv == ASSUME IInv, discoverProtocol PROVE IInv'
<1>1. TypeOK /\ UNCHANGED <<client, outcome, c>> /\ main = "discover"
  BY DEF IInv, discoverProtocol
<1>2. CASE hosts = <<>>
  BY <1>1, <1>2 DEF IInv, discoverProtocol, TypeOK, Versions, Live, Rests
<1>3. CASE hosts # <<>>
  <2>1. /\ host' = Head(hosts) /\ hosts' = Tail(hosts) /\ proto' = 5 /\ erred' = {}
        /\ main' = "dial"
    BY <1>3 DEF discoverProtocol
  <2>2. host' \in HostRecords /\ hosts' \in Seq(HostRecords)
    BY <1>1, <1>3, <2>1, HeadTailProperties DEF TypeOK
  <2>3. \A v \in 3 .. 5 : ~(v > proto')
    BY <2>1
  <2>4. TypeOK'
    BY <1>1, <2>1, <2>2 DEF TypeOK
  <2> QED
    BY <1>1, <2>1, <2>3, <2>4 DEF IInv, Versions, Live, Rests
<1> QED
  BY <1>2, <1>3

LEMMA dialWithoutObserverIInv == ASSUME IInv, dialWithoutObserver PROVE IInv'
<1>1. TypeOK /\ UNCHANGED <<client, hosts, host, proto, erred>> /\ main = "dial"
  BY DEF IInv, dialWithoutObserver
<1>2. CASE main' = "discover" /\ UNCHANGED <<outcome, c>>
  BY <1>1, <1>2 DEF IInv, TypeOK, Versions, Live, Rests
<1>3. CASE main' = "select" /\ outcome' = "none" /\ c' = NewConn
  <2>1. TypeOK'
    BY Zenon, <1>1, <1>3, NewConnFacts DEF TypeOK
  <2>2. Versions'
    BY Zenon, <1>1, <1>3, NewConnFacts, MessageFacts
       DEF IInv, Versions, Live, Tells, Refuses, Refused, Accepts
  <2>3. Layouts' /\ Turns' /\ ~c'.misread /\ Live'
    BY Zenon, <1>1, <1>3, NewConnFacts, MessageFacts
       DEF Layouts, Agreed, Started, Speaks, InLayout, Changes, Turns, Live
  <2> QED
    BY <2>1, <2>2, <2>3 DEF IInv
<1> QED
  BY <1>2, <1>3 DEF dialWithoutObserver

\* A lower version is tried only if this one is above what the host speaks.
LEMMA tryProtocolVersionsForHostIInv == ASSUME IInv, tryProtocolVersionsForHost PROVE IInv'
<1>1. TypeOK /\ UNCHANGED <<client, hosts, host, erred, outcome>> /\ main = "returned"
        /\ c.opt = "done" /\ c.reader = "done" /\ c \in Conns
        /\ main' \in {"found", "dial", "discover"}
  BY DEF IInv, TypeOK, tryProtocolVersionsForHost
<1>2. c' \in Conns /\ c'.closed /\ UNCHANGED <<c.opt, c.reader, c.misread>>
  BY Zenon, <1>1 DEF tryProtocolVersionsForHost, Conns
<1>3. proto \in 3 .. 5 /\ host.max \in 0 .. 5
  BY <1>1 DEF TypeOK, HostRecords
<1>4. TypeOK'
  BY <1>1, <1>2, <1>3 DEF tryProtocolVersionsForHost, TypeOK
<1>5. Versions'
  <2>1. \A v : Refused(v)' = Refused(v)
    BY <1>1 DEF Refused
  <2>2. \A v \in 3 .. 5 : v > proto => Refused(v)
    BY <1>1 DEF IInv, Versions
  <2>3. CASE outcome = "ok" /\ main' = "found" /\ UNCHANGED proto
    BY <1>1, <2>1, <2>2, <2>3 DEF IInv, Versions, Live
  <2>4. CASE outcome = "unsupported" /\ proto > 3 /\ main' = "dial" /\ proto' = proto - 1
    <3>1. Refused(proto)
      BY <1>1, <2>4 DEF IInv, Versions
    <3>2. \A v \in 3 .. 5 : v > proto' => v = proto \/ v > proto
      BY <1>3, <2>4
    <3> QED
      BY <2>1, <2>2, <2>4, <3>1, <3>2 DEF Versions, Live
  <2>5. CASE main' = "discover"
    BY <2>5 DEF Versions, Live
  <2> QED
    BY <2>3, <2>4, <2>5 DEF tryProtocolVersionsForHost
<1> QED
  BY <1>1, <1>2, <1>4, <1>5 DEF IInv, Live, Rests

-------------------------------------------------------------------------------
(* The theorems *)

LEMMA InitIInv == StartupInit => IInv
<1> SUFFICES ASSUME StartupInit PROVE IInv
  OBVIOUS
<1>1. client \in [lz4 : BOOLEAN, auth : {"nil", "password", "rounds"}] /\ hosts \in Seq(HostRecords)
  BY Zenon, StartupAssumption DEF StartupInit, HostRecords
<1>2. NewConn \in Conns /\ NewConn.request = NoMessage /\ ~NewConn.misread
  BY Zenon, <1>1, MessageFacts, Widens DEF NewConn, Conns
<1>3. /\ c \in Conns /\ c.opt = "done" /\ c.reader = "done"
      /\ c.request = NoMessage /\ ~c.misread
  BY Zenon, <1>2 DEF StartupInit, Conns
<1>4. TypeOK
  BY <1>1, <1>3 DEF StartupInit, TypeOK, HostRecords, Logins
<1> QED
  BY <1>3, <1>4 DEF StartupInit, IInv, Versions, Live, Rests

LEMMA NextIInv == IInv /\ [StartupNext]_startupVars => IInv'
<1> SUFFICES ASSUME IInv, [StartupNext]_startupVars PROVE IInv'
  OBVIOUS
<1>1. CASE Driver
  BY <1>1, discoverProtocolIInv, dialWithoutObserverIInv, tryProtocolVersionsForHostIInv DEF Driver
<1>2. CASE ConnectTimeout \/ SelectDone \/ Serve \/ Hangup
  BY <1>2, ConnectTimeoutIInv, SelectDoneIInv, ServeIInv, HangupIInv
<1>3. CASE Options \/ ExecGivesUp
  BY <1>3, TickIInv, execInternalIInv, optionsIInv, startupIInv, authenticateHandshakeIInv,
     OptionsReportsIInv, ExecGivesUpIInv DEF Options
<1>4. CASE Reader
  BY <1>4, LoadIInv, recvIInv, ReaderReportsIInv, ReaderEndsIInv DEF Reader
<1>5. CASE UNCHANGED startupVars
  <2>1. UNCHANGED others /\ UNCHANGED c
    BY <1>5 DEF startupVars, others
  <2>2. TypeOK' /\ Live' = Live /\ Rests' = Rests /\ Turns' = Turns
    BY <2>1 DEF IInv, TypeOK, Live, Rests, Turns, others
  <2>3. Versions'
    BY Zenon, <2>1 DEF IInv, Versions, Live, Tells, Refuses, Refused, Accepts, others
  <2>4. Layouts' = Layouts
    BY <2>1 DEF Layouts, Agreed, Started, Speaks, InLayout, Changes, others
  <2> QED
    BY <2>1, <2>2, <2>3, <2>4 DEF IInv
<1> QED
  BY <1>1, <1>2, <1>3, <1>4, <1>5 DEF StartupNext

LEMMA IInvHolds == StartupSpec => []IInv
BY InitIInv, NextIInv, PTL DEF StartupSpec

\* The goroutines of a startup and the server read every message of the handshake in the
\* layout it was written in, and the startup's reader is through when serve begins to read
\* the socket (setupConn, startup, recv).
THEOREM InStep == StartupSpec => []HandshakeInStep
<1>1. IInv => HandshakeInStep
  BY DEF IInv, HandshakeInStep, Live, Turns, Rests
<1> QED
  BY <1>1, IInvHolds, PTL

\* discoverProtocol settles on the highest version that the host speaks, but for versions
\* that it answered with an ERROR of code Server or Protocol, for any lists of hosts
\* (discoverProtocol, tryProtocolVersionsForHost, checkProtocolRelatedError).
THEOREM SettlesOnHighest == StartupSpec => []HighestVersion
<1>1. IInv => HighestVersion
  BY DEF IInv, TypeOK, HostRecords, HighestVersion, Versions, Refused
<1> QED
  BY <1>1, IInvHolds, PTL

===============================================================================
