------------------------------ MODULE ConnWriters -----------------------------
(***************************************************************************)
(* The two implementations of contextWriter in conn.go.  A connection uses *)
(* deadlineContextWriter, where a channel of capacity 1 is the semaphore   *)
(* around SetWriteDeadline and Write, or, once it is set up and when       *)
(* coalescing is on, writeCoalescer, whose flusher goroutine gathers the   *)
(* frames of concurrent calls and writes them with one vectored write when *)
(* its timer fires.                                                        *)
(*                                                                         *)
(* The quit channel of writeCoalescer is the Done channel of the           *)
(* connection's context; the one of deadlineContextWriter is made by       *)
(* dialWithoutObserver and never closed, so its case is not an action.     *)
(***************************************************************************)
EXTENDS Naturals, Sequences

CONSTANTS
  Writers,        \* calls of writeContext, each with a frame of its own
  Length,         \* Length[w]: the number of bytes of w's frame, at least one
  NoWriter        \* no call of writeContext

ASSUME WritersAssumption ==
  Length \in [Writers -> Nat \ {0}] /\ NoWriter \notin Writers

VARIABLES
  coalesce,       \* c.w is a writeCoalescer
  wpc,            \* of a call: select, write (deadline), wait (coalescer), done
  res,            \* the result: [n, err]
  connClosed,     \* the connection was closed
  semaphore,      \* the number of elements in the channel of that name
  queue,          \* buffers and resultChans of the flusher, in order
  running,        \* the flusher's timer is set
  wfpc,           \* of the flusher: select, write, answer, quit, stopped
  next,           \* the buffer being written, the channel being answered
  count,          \* n of flush: bytes written, then bytes not yet accounted for
  written, last   \* history: sent and last of ContextWriter

callerVars == <<coalesce, wpc, res>>
coalescerVars == <<queue, running, wfpc, next, count>>
wireVars == <<written, last>>
writerVars == <<callerVars, connClosed, semaphore, coalescerVars, wireVars>>

WritersInit ==
  /\ coalesce \in BOOLEAN
  /\ wpc = [w \in Writers |-> "select"]
  /\ res = [w \in Writers |-> [n |-> 0, err |-> "none"]]
  /\ connClosed = FALSE
  /\ semaphore = 0
  /\ queue = <<>> /\ running = FALSE /\ wfpc = "select" /\ next = 1 /\ count = 0
  /\ written = [w \in Writers |-> 0]
  /\ last = NoWriter

Moves(w, l) == wpc' = [wpc EXCEPT ![w] = l]

Returns(w, n, err) ==
  /\ Moves(w, "done")
  /\ res' = [res EXCEPT ![w] = [n |-> n, err |-> err]]

\* A byte of w's frame is handed to the socket.
Sends(w) ==
  /\ written' = [written EXCEPT ![w] = @ + 1]
  /\ last' = w

\* case <-ctx.Done(), in the select of either writer.
Cancelled(w) ==
  /\ wpc[w] = "select"
  /\ Returns(w, 0, "ctx")
  /\ UNCHANGED <<coalesce, connClosed, semaphore, coalescerVars, wireVars>>

-------------------------------------------------------------------------------
(* deadlineContextWriter.writeContext *)

\* case c.semaphore <- struct{}{}
Acquire(w) ==
  /\ ~coalesce
  /\ wpc[w] = "select"
  /\ semaphore = 0
  /\ semaphore' = 1
  /\ Moves(w, "write")
  /\ UNCHANGED <<coalesce, res, connClosed, coalescerVars, wireVars>>

\* Write hands the next byte to the socket.
WriteByte(w) ==
  /\ wpc[w] = "write"
  /\ ~connClosed
  /\ written[w] < Length[w]
  /\ Sends(w)
  /\ UNCHANGED <<callerVars, connClosed, semaphore, coalescerVars>>

\* Write is done, or it fails at any byte; an error of SetWriteDeadline is a
\* failure before the first one.  The deferred function empties the semaphore.
MutWriteEnds(w) ==
  /\ wpc[w] = "write"
  /\ Returns(w, written[w], IF written[w] = Length[w] THEN "nil" ELSE "io")
  /\ semaphore' = IF written[w] = Length[w] THEN 0 ELSE semaphore
  /\ UNCHANGED <<coalesce, connClosed, coalescerVars, wireVars>>
WriteEnds(w) ==
  /\ wpc[w] = "write"
  /\ Returns(w, written[w], IF written[w] = Length[w] THEN "nil" ELSE "io")
  /\ semaphore' = 0
  /\ UNCHANGED <<coalesce, connClosed, coalescerVars, wireVars>>

-------------------------------------------------------------------------------
(* writeCoalescer.writeContext *)

\* case <-w.quit
Quit(w) ==
  /\ coalesce
  /\ wpc[w] = "select"
  /\ connClosed
  /\ Returns(w, 0, "eof")
  /\ UNCHANGED <<coalesce, connClosed, semaphore, coalescerVars, wireVars>>

\* case w.writeCh <- wr, which the flusher receives; it starts the timer on the
\* first write of a batch.
Enqueue(w) ==
  /\ coalesce
  /\ wpc[w] = "select"
  /\ wfpc = "select"
  /\ Moves(w, "wait")
  /\ queue' = Append(queue, w)
  /\ running' = TRUE
  /\ UNCHANGED <<coalesce, res, connClosed, semaphore, wfpc, next, count, wireVars>>

-------------------------------------------------------------------------------
(* writeFlusherImpl and flush *)

\* case <-w.quit: the flusher ends, after it has answered everybody who waits.
FlusherQuits ==
  /\ coalesce
  /\ wfpc = "select" /\ connClosed
  /\ wfpc' = "quit"
  /\ next' = 1
  /\ UNCHANGED <<callerVars, connClosed, semaphore, queue, running, count, wireVars>>

\* One round of the loop that sends io.EOF to the channels, or its end.
Unblock ==
  /\ wfpc = "quit"
  /\ \/ /\ next <= Len(queue)
        /\ Returns(queue[next], 0, "eof")
        /\ next' = next + 1
        /\ UNCHANGED wfpc
     \/ /\ next > Len(queue)
        /\ wfpc' = "stopped"
        /\ UNCHANGED <<wpc, res, next>>
  /\ UNCHANGED <<coalesce, connClosed, semaphore, queue, running, count, wireVars>>

\* case <-timerC: flush begins.  If SetWriteDeadline fails nothing is written.
Flush ==
  /\ wfpc = "select" /\ running
  /\ running' = FALSE
  /\ wfpc' \in {"write", "answer"}
  /\ next' = 1 /\ count' = 0
  /\ UNCHANGED <<callerVars, connClosed, semaphore, queue, wireVars>>

\* The buffer to go on with after a byte of w's.
NextBuffer(w) == IF written'[w] = Length[w] THEN next + 1 ELSE next

\* WriteTo hands the next byte of the batch to the socket.
FlushByte ==
  /\ wfpc = "write"
  /\ next <= Len(queue)
  /\ LET w == queue[next] IN Sends(w) /\ next' = NextBuffer(w)
  /\ count' = count + 1
  /\ UNCHANGED <<callerVars, connClosed, semaphore, queue, running, wfpc>>

\* WriteTo returns, at the end of the batch or with an error at any byte.
FlushEnds ==
  /\ wfpc = "write"
  /\ wfpc' = "answer"
  /\ next' = 1
  /\ UNCHANGED <<callerVars, connClosed, semaphore, queue, running, count, wireVars>>

\* What is left of the byte count after a buffer that was cut short.
MutRestOfCount == count
RestOfCount == 0

\* The loop over the buffers works out the result of each from the byte count.
Answer ==
  /\ wfpc = "answer"
  /\ next <= Len(queue)
  /\ LET w == queue[next] IN
       IF Length[w] <= count
         THEN Returns(w, Length[w], "nil") /\ count' = count - Length[w]
         ELSE Returns(w, count, "io") /\ count' = RestOfCount
  /\ next' = next + 1
  /\ UNCHANGED <<coalesce, connClosed, semaphore, queue, running, wfpc, wireVars>>

\* buffers = nil, resultChans = nil, and back to the select.
Flushed ==
  /\ wfpc = "answer"
  /\ next > Len(queue)
  /\ queue' = <<>>
  /\ wfpc' = "select"
  /\ UNCHANGED <<callerVars, connClosed, semaphore, running, next, count, wireVars>>

\* closeWithError cancels the context and closes the socket.
CloseSocket ==
  /\ ~connClosed
  /\ connClosed' = TRUE
  /\ UNCHANGED <<callerVars, semaphore, coalescerVars, wireVars>>

-------------------------------------------------------------------------------
writeContext(w) ==
  \/ Cancelled(w)
  \/ Acquire(w) \/ WriteByte(w) \/ WriteEnds(w)
  \/ Quit(w) \/ Enqueue(w)

writeFlusherImpl ==
  \/ FlusherQuits \/ Unblock
  \/ Flush \/ FlushByte \/ FlushEnds \/ Answer \/ Flushed

WritersNext == CloseSocket \/ writeFlusherImpl \/ \E w \in Writers : writeContext(w)

WritersSpec == WritersInit /\ [][WritersNext]_writerVars

\* Goroutines run, the timer fires, and a write ends: at its deadline at the
\* latest.  A select that is ready again and again is taken.
WritersFairSpec ==
  /\ WritersSpec
  /\ WF_writerVars(writeFlusherImpl)
  /\ \A w \in Writers : /\ SF_writerVars(Acquire(w) \/ Quit(w) \/ Enqueue(w))
                        /\ WF_writerVars(WriteByte(w) \/ WriteEnds(w))

-------------------------------------------------------------------------------
(* Properties *)

\* Both writers keep the promise of contextWriter, with writes that fail at any
\* byte and vectored writes that stop in the middle of a batch: frames are not
\* mixed, each caller learns how much of its own frame was written, and a call
\* that gave up never has its frame written.
Contract == INSTANCE ContextWriter WITH
  None <- NoWriter, sent <- written,
  result <- [w \in Writers |-> [done |-> wpc[w] = "done", n |-> res[w].n,
                                ok |-> res[w].err = "nil"]]
ImplementsContextWriter == Contract!Spec

\* Every writeContext returns: a failed write lets the next one in, and whoever
\* was enqueued is answered by a flush or, when the connection closes, by the
\* flusher on its way out.
WritersReturn == \A w \in Writers : <>(wpc[w] = "done")

===============================================================================
