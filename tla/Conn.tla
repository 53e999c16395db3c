--------------------------------- MODULE Conn ---------------------------------
(***************************************************************************)
(* The stream multiplexer of conn.go: many goroutines run execInternal on  *)
(* one connection, one goroutine (serve) reads the responses, and whoever  *)
(* meets an error first runs closeWithError.                               *)
(*                                                                         *)
(* A call stands for one execution of execInternal.  call.resp is an       *)
(* unbuffered channel, so a delivery is a joint step of the sender and of  *)
(* the call waiting in its select; call.timeout is a channel that is only  *)
(* ever closed.  The context of a call may be cancelled at any moment, so  *)
(* the steps that react to it carry no guard.                              *)
(***************************************************************************)
EXTENDS Naturals

CONSTANTS
  Calls,          \* the executions of execInternal
  StreamIDs,      \* the protocol's stream ids, 0 included
  NoCall          \* a nil *callReq

ASSUME StreamsAssumption == 0 \in StreamIDs
ASSUME NoCallAssumption == NoCall \notin Calls

VARIABLES
  granted,        \* c.streams, as StreamAllocator sees it
  calls,          \* c.calls: stream -> call
  closed,         \* c.closed
  cancelled,      \* c.ctx is done
  netClosed,      \* c.r.Close() was called
  pc,             \* where each execInternal is
  stream,         \* call.streamID
  timeout,        \* call.timeout is closed
  released,       \* how often releaseStream ran for the call
  ended,          \* what the stream observer was told
  got,            \* the request whose response the call returned
  server,         \* requests written whose response has not been read
  rpc,            \* where the reader is
  rcall,          \* the call the reader took out of c.calls
  rmsg,           \* the request whose response the reader read; "garbage", "err"
  midBody,        \* the reader gave up inside a body
  cpc,            \* where closeWithError is
  closer,         \* who runs it: a call, "reader" or "other"
  toClose,        \* callsToClose, the ones still to be told
  telling,        \* the call closeWithError is telling now
  withErr,        \* closeWithError was called with an error
  handled         \* errorHandler.HandleError was called

callVars == <<pc, stream, timeout, released, ended, got>>
readVars == <<rpc, rcall, rmsg, midBody>>
closeVars == <<closed, cancelled, netClosed, cpc, closer, toClose, telling,
               withErr, handled>>
vars == <<granted, calls, server, callVars, readVars, closeVars>>

Allocator == INSTANCE StreamAllocator

None == [s \in StreamIDs |-> NoCall]

Init ==
  /\ Allocator!Init
  /\ calls = None
  /\ closed = FALSE /\ cancelled = FALSE /\ netClosed = FALSE
  /\ pc = [k \in Calls |-> "start"]
  /\ stream = [k \in Calls |-> 0]
  /\ timeout = [k \in Calls |-> FALSE]
  /\ released = [k \in Calls |-> 0]
  /\ ended = [k \in Calls |-> "unstarted"]
  /\ got = [k \in Calls |-> "none"]
  /\ server = {}
  /\ rpc = "recv" /\ rcall = NoCall /\ rmsg = "err" /\ midBody = FALSE
  /\ cpc = "open" /\ closer = "nobody" /\ toClose = {} /\ telling = NoCall
  /\ withErr = FALSE /\ handled = FALSE

-------------------------------------------------------------------------------
(* Pieces shared by the steps. *)

Goto(k, l) == pc' = [pc EXCEPT ![k] = l]

CloseTimeout(k) == timeout' = [timeout EXCEPT ![k] = TRUE]

\* A step of execInternal that only moves on.
Jump(k, from, to) ==
  /\ pc[k] = from
  /\ Goto(k, to)
  /\ UNCHANGED <<granted, calls, server, stream, timeout, released, ended, got,
                 readVars, closeVars>>

\* A step of execInternal that stops waiting: close(call.timeout).
GiveUp(k, from, to) ==
  /\ pc[k] = from
  /\ CloseTimeout(k)
  /\ Goto(k, to)
  /\ UNCHANGED <<granted, calls, server, stream, released, ended, got, readVars,
                 closeVars>>

\* A step of the reader that only moves on, and one that lets go of its call.
Reads(from, to) ==
  /\ rpc = from
  /\ rpc' = to
  /\ UNCHANGED <<granted, calls, server, callVars, rcall, midBody, closeVars>>

LetGo ==
  /\ rpc = "deliver"
  /\ rpc' = "recv"
  /\ rcall' = NoCall
  /\ UNCHANGED <<calls, server, stream, rmsg, midBody, closeVars>>

\* streamObserverEndOnce: the first of StreamFinished and StreamAbandoned wins.
EndOnce(k, how) ==
  ended' = IF ended[k] = "started" THEN [ended EXCEPT ![k] = how] ELSE ended

\* releaseStream.  The generator's Clear ignores a stream that is not set.
releaseStream(k) ==
  /\ granted' = granted \ {stream[k]}
  /\ released' = [released EXCEPT ![k] = @ + 1]
  /\ EndOnce(k, "finished")

-------------------------------------------------------------------------------
(* execInternal *)

\* The context is already done, or every stream is taken: ErrNoStreams.
Refuse(k) == Jump(k, "start", "done")

GetStream(k) ==
  /\ pc[k] = "start"
  /\ \E s \in StreamIDs :
       /\ Allocator!Grant(s)
       /\ stream' = [stream EXCEPT ![k] = s]
  /\ Goto(k, "add")
  /\ UNCHANGED <<calls, server, timeout, released, ended, got, readVars,
                 closeVars>>

\* addCall and StreamStarted.  A call that is refused keeps its stream.
addCall(k) ==
  /\ pc[k] = "add"
  /\ IF closed \/ calls[stream[k]] # NoCall
       THEN Goto(k, "done") /\ UNCHANGED <<calls, ended>>
       ELSE /\ calls' = [calls EXCEPT ![stream[k]] = k]
            /\ ended' = [ended EXCEPT ![k] = "started"]
            /\ Goto(k, "build")
  /\ UNCHANGED <<granted, server, stream, timeout, released, got, readVars,
                 closeVars>>

Build(k) == Jump(k, "build", "write")

MutBuildFails(k) == Jump(k, "build", "unlist")

\* buildFrame fails: nothing is written and the call is undone.
BuildFails(k) == GiveUp(k, "build", "unlist")

\* The whole frame went out.
Written(k) ==
  /\ pc[k] = "write"
  /\ ~netClosed
  /\ server' = server \cup {[stream |-> stream[k], call |-> k]}
  /\ Goto(k, "wait")
  /\ UNCHANGED <<granted, calls, stream, timeout, released, ended, got, readVars,
                 closeVars>>

\* The context was done before the writer started on the frame (n == 0).
NotWritten(k) == GiveUp(k, "write", "unlist")

\* Any other error of the write: the caller goes on to closeWithError(err).
WriteFails(k) == GiveUp(k, "write", "close")


\* delete(c.calls, call.streamID), before the stream is released.
Unlist(k) ==
  /\ pc[k] = "unlist"
  /\ calls' = IF closed THEN calls ELSE [calls EXCEPT ![stream[k]] = NoCall]
  /\ Goto(k, "release")
  /\ UNCHANGED <<granted, server, stream, timeout, released, ended, got,
                 readVars, closeVars>>

Release(k) ==
  /\ pc[k] = "release"
  /\ releaseStream(k)
  /\ Goto(k, "done")
  /\ UNCHANGED <<calls, server, stream, timeout, got, readVars, closeVars>>

\* An error came through call.resp: the stream is given back only if the
\* connection is still open, otherwise the request is still outstanding.
RespErr(k) == Jump(k, "resperr", IF closed THEN "done" ELSE "release")

MutTimeoutReleases(k) == GiveUp(k, "wait", "unlist")

\* The request timer fired or the context is done.  The stream stays taken:
\* its response may still come.
Timeout(k) == GiveUp(k, "wait", "done")

\* c.ctx is done: ErrConnectionClosed.
ConnDone(k) == cancelled /\ GiveUp(k, "wait", "done")

-------------------------------------------------------------------------------
(* serve and processFrame *)

\* A header names stream s.  After a body that was not read to its end the
\* bytes taken for a header are anything, here the header of any stream.
RecvHeader ==
  /\ rpc = "recv"
  /\ ~netClosed
  /\ \E s \in StreamIDs \ {0}, msg \in Calls \cup {"garbage"} :
       /\ \/ midBody /\ msg = "garbage"
          \/ ~midBody /\ [stream |-> s, call |-> msg] \in server
       /\ server' = server \ {[stream |-> s, call |-> msg]}
       /\ rmsg' = msg
       /\ \/ /\ closed              \* ErrConnectionClosed
             /\ rpc' = "close"
             /\ UNCHANGED <<calls, rcall>>
          \/ /\ ~closed
             /\ calls' = [calls EXCEPT ![s] = NoCall]
             /\ rcall' = calls[s]
             /\ rpc' = IF calls[s] = NoCall THEN "discard" ELSE "body"
  /\ UNCHANGED <<granted, callVars, midBody, closeVars>>

\* The header cannot be read, names a stream out of bounds or the reserved
\* stream, or the peer or closeWithError closed the connection.
RecvFails == Reads("recv", "close") /\ UNCHANGED rmsg

\* No handler for the stream: discardFrame.
Discard ==
  /\ \E to \in {"recv", "close"} : Reads("discard", to)
  /\ UNCHANGED rmsg

\* framer.readFrame succeeds.
ReadBody == Reads("body", "deliver") /\ UNCHANGED rmsg

\* framer.readFrame fails: the frame is too big, its length is negative, it
\* cannot be decompressed, or the connection broke.  The error is never a
\* net.Error, since readFrame formats the one it got with %v, so the call is
\* told and the reader goes on.
BodyFails == Reads("body", "deliver") /\ rmsg' = "err"

\* The same, when the read of the body ran into its deadline five times: the
\* rest of the body is still to come.
BodyTimesOut ==
  /\ rpc = "body"
  /\ rpc' = "deliver"
  /\ rmsg' = "err"
  /\ midBody' = TRUE
  /\ UNCHANGED <<granted, calls, server, callVars, rcall, closeVars>>

\* case call.resp <- callResp{framer, err}
Deliver ==
  /\ LetGo
  /\ pc[rcall] = "wait"
  /\ CloseTimeout(rcall)
  /\ IF rmsg = "err" THEN Goto(rcall, "resperr") /\ UNCHANGED got
                     ELSE /\ Goto(rcall, "release")
                          /\ got' = [got EXCEPT ![rcall] = rmsg]
  /\ UNCHANGED <<granted, released, ended>>


MutDeliverLate ==
  /\ LetGo
  /\ timeout[rcall]
  /\ UNCHANGED <<granted, pc, timeout, released, ended, got>>

\* case <-call.timeout: nobody waits any more, the reader releases the stream.
DeliverLate ==
  /\ LetGo
  /\ timeout[rcall]
  /\ releaseStream(rcall)
  /\ UNCHANGED <<pc, timeout, got>>

\* case <-ctx.Done()
DeliverClosed ==
  /\ LetGo
  /\ cancelled
  /\ UNCHANGED <<granted, pc, timeout, released, ended, got>>

-------------------------------------------------------------------------------
(* closeWithError *)

\* The locked part, when the connection is still open.
CloseBegin(who, err) ==
  /\ ~closed
  /\ closed' = TRUE
  /\ closer' = who
  /\ withErr' = err
  /\ toClose' = IF err THEN {k \in Calls : \E s \in StreamIDs : calls[s] = k}
                       ELSE {}
  /\ calls' = IF err THEN None ELSE calls
  /\ cpc' = "tell"
  /\ UNCHANGED <<granted, server, callVars, readVars, cancelled, netClosed,
                 telling, handled>>

\* A call whose write failed, the reader, the heartbeat (with an error) or the
\* pool, through Close (without one).
CallCloses(k) == pc[k] = "close" /\ CloseBegin(k, TRUE)
ReaderCloses == rpc = "close" /\ CloseBegin("reader", TRUE)
OtherCloses == \E err \in BOOLEAN : CloseBegin("other", err)

\* closeWithError returned, or somebody else closes the connection.
CallClosed(k) ==
  /\ closed
  /\ closer = k => cpc = "closed"
  /\ Jump(k, "close", "done")

ReaderClosed ==
  /\ closed
  /\ closer = "reader" => cpc = "closed"
  /\ Reads("close", "done")
  /\ UNCHANGED rmsg

\* The next call of callsToClose, in the order the map yields them.
Pick(k) ==
  /\ cpc = "tell"
  /\ telling = NoCall
  /\ k \in toClose
  /\ telling' = k
  /\ toClose' = toClose \ {k}
  /\ UNCHANGED <<granted, calls, server, callVars, readVars, closed, cancelled,
                 netClosed, cpc, closer, withErr, handled>>

\* case req.resp <- callResp{err: err} or case <-req.timeout, then
\* StreamAbandoned.
Tell ==
  /\ telling # NoCall
  /\ \/ /\ pc[telling] = "wait"
        /\ CloseTimeout(telling)
        /\ Goto(telling, "resperr")
     \/ timeout[telling] /\ UNCHANGED <<pc, timeout>>
  /\ EndOnce(telling, "abandoned")
  /\ telling' = NoCall
  /\ UNCHANGED <<granted, calls, server, stream, released, got, readVars, closed,
                 cancelled, netClosed, cpc, closer, toClose, withErr, handled>>

\* c.cancel()
Cancel ==
  /\ cpc = "tell"
  /\ telling = NoCall /\ toClose = {}
  /\ cancelled' = TRUE
  /\ cpc' = "rclose"
  /\ UNCHANGED <<granted, calls, server, callVars, readVars, closed, netClosed,
                 closer, toClose, telling, withErr, handled>>

\* c.r.Close() and HandleError, which a Close without an error calls only if
\* the socket's own Close fails.
CloseSocket ==
  /\ cpc = "rclose"
  /\ netClosed' = TRUE
  /\ handled' \in IF withErr THEN {TRUE} ELSE BOOLEAN
  /\ cpc' = "closed"
  /\ UNCHANGED <<granted, calls, server, callVars, readVars, closed, cancelled,
                 closer, toClose, telling, withErr>>

-------------------------------------------------------------------------------
exec(k) ==
  \/ Refuse(k) \/ GetStream(k) \/ addCall(k)
  \/ Build(k) \/ BuildFails(k)
  \/ Written(k) \/ NotWritten(k) \/ WriteFails(k)
  \/ Unlist(k) \/ Release(k) \/ RespErr(k)
  \/ Timeout(k) \/ ConnDone(k)
  \/ CallCloses(k) \/ CallClosed(k)

serve ==
  \/ RecvHeader \/ RecvFails \/ Discard
  \/ ReadBody \/ BodyFails \/ BodyTimesOut
  \/ Deliver \/ DeliverLate \/ DeliverClosed
  \/ ReaderCloses \/ ReaderClosed

closeWithError ==
  \/ \E k \in Calls : Pick(k)
  \/ Tell \/ Cancel \/ CloseSocket

Next == (\E k \in Calls : exec(k)) \/ serve \/ OtherCloses \/ closeWithError

Spec == Init /\ [][Next]_vars

\* Go schedules every goroutine that can run; a write ends because of the write
\* deadline and the read of a body because of the read deadline.  Nothing makes
\* a response arrive, a request time out or an open connection fail.
Runs(k) ==
  \/ addCall(k) \/ Build(k) \/ BuildFails(k)
  \/ Written(k) \/ NotWritten(k) \/ WriteFails(k)
  \/ Unlist(k) \/ Release(k) \/ RespErr(k) \/ ConnDone(k)
  \/ CallCloses(k) \/ CallClosed(k)

ReaderRuns ==
  \/ Discard \/ ReadBody \/ BodyFails \/ BodyTimesOut
  \/ Deliver \/ DeliverLate \/ DeliverClosed
  \/ ReaderCloses \/ ReaderClosed
  \/ netClosed /\ RecvFails

FairSpec ==
  /\ Spec
  /\ \A k \in Calls : WF_vars(Runs(k))
  /\ WF_vars(ReaderRuns)
  /\ WF_vars(closeWithError)

-------------------------------------------------------------------------------
(* Properties *)

\* k was given a stream and has not given it back.
Holds(k) == stream[k] # 0 /\ released[k] = 0

\* A call never returns the response to another call's request, although
\* streams are used again after timeouts, cancellations and failed writes
\* (the comments of execInternal, conn.go 1365-1370).  This and the next
\* one hold until the reader gives up inside a body and takes the rest for frames.
OwnResponse == ~midBody => \A k \in Calls : got[k] \in {"none", k}

\* Every stream that is taken belongs to exactly one request.  Streams are given back
\* once, by a call that holds them, and never while the server may still answer on them;
\* and none is lost while the connection is open: a taken one belongs to a request in
\* progress, to one the server has yet to answer, or to the response the reader is about
\* to hand over.
StreamsAccounted ==
  ~midBody =>
    /\ \A k \in Calls : released[k] <= 1 /\ (Holds(k) => stream[k] \in granted)
    /\ \A k, l \in Calls :
         Holds(k) /\ Holds(l) /\ k # l => stream[k] # stream[l]
    /\ \A m \in server : Holds(m.call) /\ stream[m.call] = m.stream
    /\ ~closed => \A s \in granted :
         \E k \in Calls :
           /\ Holds(k) /\ stream[k] = s
           /\ \/ pc[k] \notin {"start", "done"}
              \/ [stream |-> s, call |-> k] \in server
              \/ rcall = k

\* Nobody blocks for good.  closeWithError tells every call, whoever runs it; an error
\* always reaches the pool's HandleError; every call in progress returns, without the
\* help of its request timer; and so does processFrame's select ("Either way we should
\* never block indefinatly here").
CloseCompletes ==
  /\ closed ~> /\ cpc = "closed" /\ (withErr => handled)
               /\ \A k \in Calls : pc[k] \in {"start", "done"}
  /\ (rpc = "deliver") ~> (rpc # "deliver")

\* The comment in processFrame: "only net errors should cause the connection to
\* be closed".  A deadline met inside a body is a net error, so the reader
\* should not go on reading from the middle of that body.
NetErrorCloses == midBody => closed \/ rpc \in {"close", "done"}

===============================================================================
