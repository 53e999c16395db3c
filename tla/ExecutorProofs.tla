---------------------------- MODULE ExecutorProofs ----------------------------
(***************************************************************************)
(* Proofs about what a request goes through: the executor that tries hosts *)
(* and retries, and the writer that puts its frame on a connection.        *)
(*                                                                         *)
(* ConnWriters, for any number of calls and frames of any length: who may  *)
(* write is a matter of the semaphore (Deadline) or of the queue, where a  *)
(* call is once until it is answered (Waiting).  That the flusher gives    *)
(* each call its own share of one count of bytes needs the offsets of the  *)
(* buffers in the batch (Batch): the count is the offset of the buffer the *)
(* write got to and what was written of it.                                *)
(*                                                                         *)
(* QueryExecutor: however many runs share the count of attempts, and in    *)
(* whatever order they raise it and read it, the requests that are sent    *)
(* stay within the bound, for every number of retries and of speculative   *)
(* executions.                                                             *)
(***************************************************************************)
EXTENDS ConnWriters, QueryExecutor, TLAPS

-------------------------------------------------------------------------------
(* ConnWriters: the invariant *)

\* The variables keep their types, and no frame is written beyond its end.
WritersTypes ==
  /\ coalesce \in BOOLEAN /\ running \in BOOLEAN
  /\ wpc \in [Writers -> {"select", "write", "wait", "done"}]
  /\ res \in [Writers -> [n : Nat, err : {"none", "nil", "io", "ctx", "eof"}]]
  /\ wfpc \in {"select", "write", "answer", "quit", "stopped"}
  /\ queue \in Seq(Writers) /\ next \in Nat \ {0} /\ count \in Nat
  /\ written \in [Writers -> Nat]
  /\ \A w \in Writers : written[w] <= Length[w]

\* A call that has not returned has no result, and one that has not been let in has
\* nothing of its frame written.
Untouched ==
  \A w \in Writers : /\ wpc[w] # "done" => res[w] = [n |-> 0, err |-> "none"]
                     /\ wpc[w] = "select" => written[w] = 0

\* deadlineContextWriter: who writes has the semaphore and wrote the last byte, if any;
\* nobody gets to the flusher.
Deadline ==
  /\ \A w \in Writers :
       wpc[w] = "write" => ~coalesce /\ semaphore = 1 /\ (written[w] = 0 \/ last = w)
  /\ \A v, w \in Writers : wpc[v] = "write" /\ wpc[w] = "write" => v = w
  /\ ~coalesce => queue = <<>> /\ ~running /\ wfpc = "select"

\* writeCoalescer: a call is in the queue once, and waits there until it is answered.
Unanswered(i) == wfpc \in {"answer", "quit", "stopped"} => next <= i
Waiting ==
  /\ \A i, j \in 1 .. Len(queue) : queue[i] = queue[j] => i = j
  /\ \A i \in 1 .. Len(queue) : Unanswered(i) => wpc[queue[i]] = "wait"
  /\ wfpc \in {"select", "quit", "stopped"} =>
       \A i \in 1 .. Len(queue) : Unanswered(i) => written[queue[i]] = 0

\* f[i] is where the i-th buffer of the batch begins.
Offsets(f) ==
  /\ f[1] = 0
  /\ \A i \in 1 .. Len(queue) : f[i + 1] = f[i] + Length[queue[i]]
  /\ \A i, j \in 1 .. Len(queue) + 1 : i <= j => f[i] <= f[j]

\* The write of the batch got to the k-th buffer: those before it are written, and those
\* after it are not.
WrittenTo(k) ==
  \A i \in 1 .. Len(queue) :
    /\ i < k => written[queue[i]] = Length[queue[i]]
    /\ i = k => written[queue[i]] < Length[queue[i]]
    /\ i > k => written[queue[i]] = 0
Part(k) == IF k <= Len(queue) THEN written[queue[k]] ELSE 0

\* The count of bytes is that of the write, and then what of it is not yet accounted for.
Writing(f) ==
  /\ next <= Len(queue) + 1
  /\ WrittenTo(next) /\ count = f[next] + Part(next)
  /\ next <= Len(queue) => written[queue[next]] = 0 \/ last = queue[next]
Answering(f) ==
  \E k \in 1 .. Len(queue) + 1 :
    /\ WrittenTo(k)
    /\ IF next <= k THEN f[next] + count = f[k] + Part(k) ELSE count = 0
Batch ==
  \E f \in [1 .. Len(queue) + 1 -> Nat] :
    /\ Offsets(f)
    /\ wfpc = "write" => Writing(f)
    /\ wfpc = "answer" => Answering(f)

WritersInv == WritersTypes /\ Untouched /\ Deadline /\ Waiting /\ Batch

-------------------------------------------------------------------------------
(* Steps of the contract *)

\* What a caller of contextWriter sees of a call.
Outcome == [w \in Writers |-> [done |-> wpc[w] = "done", n |-> res[w].n, ok |-> res[w].err = "nil"]]

\* A call that returns the number of its bytes that were written, without an error
\* exactly if these are all.
LEMMA ReturnRefines ==
  ASSUME WritersTypes, NEW w \in Writers, wpc[w] # "done", NEW err,
         Returns(w, written[w], err), err = "nil" <=> written[w] = Length[w], UNCHANGED <<written, last>>
  PROVE  Contract!Next
<1>1. ~Outcome[w].done
  BY Zenon DEF Outcome
<1>2. Outcome' = [Outcome EXCEPT ![w] =
                    [done |-> TRUE, n |-> written[w], ok |-> written[w] = Length[w]]]
  <2>1. /\ wpc' = [wpc EXCEPT ![w] = "done"]
        /\ res' = [res EXCEPT ![w] = [n |-> written[w], err |-> err]]
    BY DEF Returns, Moves
  <2>2. ASSUME NEW v \in Writers, v # w
        PROVE  wpc'[v] = wpc[v] /\ res'[v] = res[v]
    BY <2>1, <2>2 DEF WritersTypes
  <2>3. wpc'[w] = "done" /\ res'[w] = [n |-> written[w], err |-> err]
    BY <2>1 DEF WritersTypes
  <2>4. (res'[w].err = "nil") = (written[w] = Length[w])
    BY <2>3
  <2>5. ASSUME NEW v \in Writers, v # w PROVE Outcome'[v] = Outcome[v]
    BY Zenon, <2>2, <2>5 DEF Outcome
  <2>6. Outcome'[w] = [done |-> TRUE, n |-> written[w], ok |-> written[w] = Length[w]]
    <3>1. Outcome'[w] = [done |-> wpc'[w] = "done", n |-> res'[w].n, ok |-> res'[w].err = "nil"]
      BY Zenon DEF Outcome
    <3>2. (wpc'[w] = "done") = TRUE /\ res'[w].n = written[w]
      BY <2>3
    <3> QED BY Zenon, <2>4, <3>1, <3>2
  <2>7. Outcome = [v \in Writers |-> Outcome[v]] /\ Outcome' = [v \in Writers |-> Outcome'[v]]
    BY Zenon DEF Outcome
  <2> QED BY Zenon, <2>5, <2>6, <2>7
<1>3. Contract!Return(w)
  BY Zenon, <1>1, <1>2 DEF Contract!Return, Outcome
<1> QED BY Zenon, <1>3 DEF Contract!Next

\* The next byte of a frame of which nothing or the last byte is written.
LEMMA SendRefines ==
  ASSUME NEW w \in Writers, wpc[w] # "done", written[w] < Length[w], written[w] = 0 \/ last = w,
         Sends(w), UNCHANGED <<wpc, res>>
  PROVE  Contract!Next
<1>1. Contract!Send(w)
  BY Zenon DEF Contract!Send, Sends
<1> QED BY Zenon, <1>1 DEF Contract!Next

\* Steps between calls and the flusher, which a caller does not see.
LEMMA MoveRefines ==
  ASSUME WritersTypes, NEW w \in Writers, NEW l \in {"write", "wait"}, wpc[w] = "select", Moves(w, l),
         UNCHANGED <<res, written, last>>
  PROVE  UNCHANGED <<written, last, Outcome>>
<1>1. \A v \in Writers : (wpc'[v] = "done") = (wpc[v] = "done")
  BY DEF Moves, WritersTypes
<1> QED BY Zenon, <1>1 DEF Outcome

-------------------------------------------------------------------------------
(* Every step keeps the invariant and is a step of the contract, or none *)

Refined == Contract!Next \/ UNCHANGED <<written, last, Outcome>>

\* Steps that leave the batch alone.
LEMMA SameBatch ==
  ASSUME Batch, UNCHANGED <<queue, wfpc, next, count, written, last>>
  PROVE  Batch'
BY Zenon DEF Batch, Offsets, Writing, Answering, WrittenTo, Part

LEMMA SameWaiting ==
  ASSUME WritersTypes, Waiting, UNCHANGED <<queue, wfpc, next, written>>,
         \A w \in Writers : wpc[w] = "wait" => wpc'[w] = "wait"
  PROVE  Waiting'
<1>1. \A i \in 1 .. Len(queue) : queue[i] \in Writers
  BY DEF WritersTypes
<1> QED BY Zenon, <1>1 DEF Waiting, Unanswered

LEMMA WritersInitially == WritersInit => WritersInv /\ Contract!Init
<1> SUFFICES ASSUME WritersInit PROVE WritersInv /\ Contract!Init
  OBVIOUS
<1> USE WritersAssumption
<1>1. WritersTypes
  <2>1. coalesce \in BOOLEAN /\ running \in BOOLEAN
    BY Zenon DEF WritersInit
  <2> QED BY <2>1 DEF WritersInit, WritersTypes
<1>2. Untouched /\ Deadline
  BY DEF WritersInit, Untouched, Deadline
<1>3. Waiting
  BY DEF WritersInit, Waiting
<1>4. Batch
  <2> DEFINE f == [i \in 1 .. Len(queue) + 1 |-> 0]
  <2>1. f \in [1 .. Len(queue) + 1 -> Nat] /\ Offsets(f)
    BY DEF WritersInit, Offsets
  <2> QED BY Zenon, <2>1 DEF Batch, WritersInit
<1>5. Contract!Init
  BY Zenon DEF WritersInit, Contract!Init, Contract!Pending
<1> QED BY <1>1, <1>2, <1>3, <1>4, <1>5 DEF WritersInv

\* A call that gives up in its select.
LEMMA GiveUpStep ==
  ASSUME WritersInv, NEW w \in Writers, Cancelled(w) \/ Quit(w)
  PROVE  WritersInv' /\ Refined
<1> USE WritersAssumption
<1>1. PICK err \in {"ctx", "eof"} :
        wpc[w] = "select" /\ Returns(w, 0, err)
  BY DEF Cancelled, Quit
<1>2. UNCHANGED <<coalesce, connClosed, semaphore, coalescerVars, wireVars>>
  BY DEF Cancelled, Quit
<1>3. UNCHANGED <<queue, running, wfpc, next, count, written, last>>
  BY <1>2 DEF coalescerVars, wireVars
<1>4. /\ wpc' = [wpc EXCEPT ![w] = "done"]
      /\ res' = [res EXCEPT ![w] = [n |-> 0, err |-> err]]
  BY <1>1 DEF Returns, Moves
<1>5. WritersTypes'
  BY <1>2, <1>3, <1>4 DEF WritersInv, WritersTypes
<1>6. Untouched'
  BY <1>1, <1>3, <1>4 DEF WritersInv, WritersTypes, Untouched
<1>7. Deadline'
  BY <1>1, <1>2, <1>3, <1>4 DEF WritersInv, WritersTypes, Deadline
<1>8. Waiting'
  BY <1>1, <1>3, <1>4, SameWaiting DEF WritersInv, WritersTypes
<1>9. Batch'
  BY <1>3, SameBatch DEF WritersInv
<1>10. Refined
  <2>1. written[w] = 0 /\ Length[w] # 0
    BY <1>1 DEF WritersInv, Untouched
  <2> QED BY <1>1, <1>3, <2>1, ReturnRefines DEF WritersInv, Refined
<1> QED BY <1>5, <1>6, <1>7, <1>8, <1>9, <1>10 DEF WritersInv

\* deadlineContextWriter: the semaphore.
LEMMA AcquireStep ==
  ASSUME WritersInv, NEW w \in Writers, Acquire(w)
  PROVE  WritersInv' /\ Refined
<1>1. /\ ~coalesce /\ wpc[w] = "select" /\ semaphore = 0 /\ semaphore' = 1
      /\ wpc' = [wpc EXCEPT ![w] = "write"]
      /\ UNCHANGED <<coalesce, res, queue, running, wfpc, next, count, written, last>>
  BY DEF Acquire, Moves, coalescerVars, wireVars
<1>2. WritersTypes'
  BY <1>1 DEF WritersInv, WritersTypes
<1>3. Untouched'
  BY <1>1 DEF WritersInv, WritersTypes, Untouched
<1>4. Deadline'
  BY <1>1 DEF WritersInv, WritersTypes, Untouched, Deadline
<1>5. Waiting' /\ Batch'
  BY <1>1, SameWaiting, SameBatch DEF WritersInv, WritersTypes
<1>6. Refined
  BY <1>1, MoveRefines DEF WritersInv, Refined, Acquire
<1> QED BY <1>2, <1>3, <1>4, <1>5, <1>6 DEF WritersInv

\* deadlineContextWriter: a byte, and the end of Write.
LEMMA WriteStep ==
  ASSUME WritersInv, NEW w \in Writers, WriteByte(w)
  PROVE  WritersInv' /\ Refined
<1> USE WritersAssumption
<1>1. /\ wpc[w] = "write" /\ written[w] < Length[w] /\ Sends(w)
      /\ UNCHANGED <<coalesce, wpc, res, semaphore, queue, running, wfpc, next, count>>
  BY DEF WriteByte, callerVars, coalescerVars
<1>2. written' = [written EXCEPT ![w] = written[w] + 1] /\ last' = w
  BY <1>1 DEF Sends
<1>3. ~coalesce /\ queue = <<>> /\ wfpc = "select" /\ (written[w] = 0 \/ last = w)
  BY <1>1 DEF WritersInv, Deadline
<1>4. WritersTypes'
  BY <1>1, <1>2 DEF WritersInv, WritersTypes
<1>5. Untouched'
  BY <1>1, <1>2 DEF WritersInv, WritersTypes, Untouched
<1>6. Deadline'
  BY <1>1, <1>2 DEF WritersInv, WritersTypes, Deadline
<1>7. Waiting'
  BY <1>1, <1>3 DEF Waiting
<1>8. Batch'
  BY <1>1, <1>3 DEF WritersInv, Batch, Offsets
<1>9. Refined
  BY <1>1, <1>3, SendRefines DEF Refined
<1> QED BY <1>4, <1>5, <1>6, <1>7, <1>8, <1>9 DEF WritersInv

LEMMA WriteEndsStep ==
  ASSUME WritersInv, NEW w \in Writers, WriteEnds(w)
  PROVE  WritersInv' /\ Refined
<1> DEFINE err == IF written[w] = Length[w] THEN "nil" ELSE "io"
<1>1. /\ wpc[w] = "write" /\ Returns(w, written[w], err) /\ semaphore' = 0
      /\ UNCHANGED <<coalesce, queue, running, wfpc, next, count, written, last>>
  BY DEF WriteEnds, coalescerVars, wireVars
<1>2. err \in {"nil", "io"} /\ (err = "nil" <=> written[w] = Length[w])
  OBVIOUS
<1> HIDE DEF err
<1>3. /\ wpc' = [wpc EXCEPT ![w] = "done"]
      /\ res' = [res EXCEPT ![w] = [n |-> written[w], err |-> err]]
  BY <1>1 DEF Returns, Moves
<1>4. WritersTypes'
  BY <1>1, <1>2, <1>3 DEF WritersInv, WritersTypes
<1>5. Untouched'
  BY <1>1, <1>3 DEF WritersInv, WritersTypes, Untouched
<1>6. Deadline'
  BY <1>1, <1>3 DEF WritersInv, WritersTypes, Deadline
<1>7. Waiting' /\ Batch'
  BY <1>1, <1>3, SameWaiting, SameBatch DEF WritersInv, WritersTypes
<1>8. Refined
  BY <1>1, <1>2, ReturnRefines DEF WritersInv, Refined
<1> QED BY <1>4, <1>5, <1>6, <1>7, <1>8 DEF WritersInv

\* writeCoalescer: the flusher receives a write request.
LEMMA EnqueueStep ==
  ASSUME WritersInv, NEW w \in Writers, Enqueue(w)
  PROVE  WritersInv' /\ Refined
<1> USE WritersAssumption
<1>1. /\ coalesce /\ wpc[w] = "select" /\ wfpc = "select" /\ running' = TRUE
      /\ wpc' = [wpc EXCEPT ![w] = "wait"] /\ queue' = Append(queue, w)
      /\ UNCHANGED <<coalesce, res, semaphore, wfpc, next, count, written, last>>
  BY Zenon DEF Enqueue, Moves, wireVars
<1>0. PICK n \in Nat : n = Len(queue)
  BY DEF WritersInv, WritersTypes
<1>2. /\ queue' \in Seq(Writers) /\ Len(queue') = n + 1
      /\ \A i \in 1 .. n : queue'[i] = queue[i] /\ queue[i] \in Writers
      /\ queue'[n + 1] = w
      /\ \A i \in 1 .. n + 1 : i \in 1 .. n \/ i = n + 1
  BY <1>0, <1>1 DEF WritersInv, WritersTypes
<1>3. \A i \in 1 .. n : wpc[queue[i]] = "wait" /\ written[queue[i]] = 0
  BY <1>0, <1>1 DEF WritersInv, Waiting, Unanswered
<1>4. written[w] = 0
  BY <1>1 DEF WritersInv, Untouched
<1>5. WritersTypes'
  <2>1. coalesce' \in BOOLEAN /\ running' \in BOOLEAN
    BY Zenon, <1>1 DEF WritersInv, WritersTypes
  <2> QED BY <1>1, <1>2, <2>1 DEF WritersInv, WritersTypes
<1>6. Untouched'
  BY <1>1 DEF WritersInv, WritersTypes, Untouched
<1>7. Deadline'
  BY <1>1 DEF WritersInv, WritersTypes, Deadline
<1>8. Waiting'
  <2>1. \A i \in 1 .. n : queue[i] # w
    BY <1>1, <1>3
  <2>2. \A i, j \in 1 .. n : queue[i] = queue[j] => i = j
    BY <1>0 DEF WritersInv, Waiting
  <2>3. \A i, j \in 1 .. n + 1 : queue'[i] = queue'[j] => i = j
    BY Zenon, <1>2, <2>1, <2>2
  <2>4. \A i \in 1 .. n + 1 : wpc'[queue'[i]] = "wait" /\ written[queue'[i]] = 0
    <3>1. ASSUME NEW v \in Writers PROVE wpc[v] = "wait" \/ v = w => wpc'[v] = "wait"
      BY <1>1 DEF WritersInv, WritersTypes
    <3> QED BY Zenon, <1>2, <1>3, <1>4, <3>1
  <2> QED BY <1>1, <1>2, <2>3, <2>4 DEF Waiting
<1>9. Batch'
  <2>1. PICK f \in [1 .. n + 1 -> Nat] : Offsets(f)
    BY <1>0 DEF WritersInv, Batch
  <2> DEFINE g == [i \in 1 .. n + 2 |-> IF i <= n + 1 THEN f[i] ELSE f[n + 1] + Length[w]]
  <2>2. f[n + 1] \in Nat /\ Length[w] \in Nat
    BY <1>2
  <2>3. g \in [1 .. Len(queue') + 1 -> Nat]
    BY <1>2, <2>2
  <2>4. /\ g[1] = 0
        /\ \A i \in 1 .. n + 1 : g[i + 1] = g[i] + Length[queue'[i]]
    <3>1. g[1] = 0
      BY <2>1 DEF Offsets
    <3>2. ASSUME NEW i \in 1 .. n PROVE g[i + 1] = g[i] + Length[queue'[i]]
      <4>1. f[i + 1] = f[i] + Length[queue[i]] /\ queue'[i] = queue[i]
        BY <1>0, <1>2, <2>1 DEF Offsets
      <4>2. g[i + 1] = f[i + 1] /\ g[i] = f[i]
        OBVIOUS
      <4> HIDE DEF g
      <4> QED BY <4>1, <4>2
    <3>3. g[n + 2] = f[n + 1] + Length[w] /\ g[n + 1] = f[n + 1]
      OBVIOUS
    <3> HIDE DEF g
    <3>4. g[(n + 1) + 1] = g[n + 1] + Length[queue'[n + 1]]
      BY <1>2, <3>3
    <3> QED BY Zenon, <1>2, <3>1, <3>2, <3>4
  <2>5. ASSUME NEW i \in 1 .. n + 2, NEW j \in 1 .. n + 2, i <= j PROVE g[i] <= g[j]
    <3>1. ASSUME NEW k \in 1 .. n + 1 PROVE f[k] <= f[n + 1]
      BY <1>0, <2>1, <3>1 DEF Offsets
    <3>2. CASE j <= n + 1
      BY <1>0, <2>1, <2>5, <3>2 DEF Offsets
    <3>3. CASE j = n + 2
      BY <2>2, <2>5, <3>1, <3>3
    <3> QED BY <3>2, <3>3
  <2> HIDE DEF g
  <2>6. Offsets(g)'
    <3>1. Len(queue') = n + 1 /\ (n + 1) + 1 = n + 2
      BY <1>2
    <3> QED BY Zenon, <2>4, <2>5, <3>1 DEF Offsets
  <2> QED BY <1>1, <2>3, <2>6 DEF Batch
<1>10. Refined
  BY <1>1, MoveRefines DEF WritersInv, Refined, Enqueue
<1> QED BY <1>5, <1>6, <1>7, <1>8, <1>9, <1>10 DEF WritersInv

\* The flusher ends: it stops accepting, and answers who waits.
LEMMA QuitStep ==
  ASSUME WritersInv, FlusherQuits
  PROVE  WritersInv' /\ Refined
<1>1. /\ coalesce /\ wfpc = "select" /\ wfpc' = "quit" /\ next' = 1
      /\ UNCHANGED <<coalesce, wpc, res, semaphore, queue, running, count, written, last>>
  BY DEF FlusherQuits, callerVars, wireVars
<1>2. WritersTypes'
  BY <1>1 DEF WritersInv, WritersTypes
<1>3. Untouched' /\ Deadline'
  BY Zenon, <1>1 DEF WritersInv, Untouched, Deadline
<1>4. Waiting'
  BY <1>1 DEF WritersInv, Waiting, Unanswered
<1>5. Batch'
  BY <1>1 DEF WritersInv, Batch, Offsets
<1>6. Refined
  BY Zenon, <1>1 DEF Refined, Outcome
<1> QED BY <1>2, <1>3, <1>4, <1>5, <1>6 DEF WritersInv

\* The flusher answers the next call in the queue, with what was written of its frame.
LEMMA AnswerNext ==
  ASSUME WritersInv, wfpc \in {"answer", "quit"}, next <= Len(queue),
         NEW n \in Nat, NEW err \in {"nil", "io", "eof"}, Returns(queue[next], n, err),
         n = written[queue[next]], err = "nil" <=> n = Length[queue[next]],
         next' = next + 1, count' \in Nat,
         UNCHANGED <<coalesce, semaphore, queue, running, wfpc, written, last>>
  PROVE  WritersTypes' /\ Untouched' /\ Deadline' /\ Waiting' /\ Refined
<1>1. next \in 1 .. Len(queue) /\ \A i \in 1 .. Len(queue) : queue[i] \in Writers
  BY DEF WritersInv, WritersTypes
<1>2. PICK w \in Writers : w = queue[next]
  BY <1>1
<1>3. wpc[w] = "wait"
  BY <1>1, <1>2 DEF WritersInv, Waiting, Unanswered
<1>4. \A i \in 1 .. Len(queue) : next + 1 <= i => queue[i] # w
  BY <1>1, <1>2 DEF WritersInv, Waiting
<1>5. /\ wpc' = [wpc EXCEPT ![w] = "done"]
      /\ res' = [res EXCEPT ![w] = [n |-> n, err |-> err]]
  BY <1>2 DEF Returns, Moves
<1>6. WritersTypes'
  BY <1>5 DEF WritersInv, WritersTypes
<1>7. Untouched' /\ Deadline'
  BY <1>3, <1>5 DEF WritersInv, WritersTypes, Untouched, Deadline
<1>8. Waiting'
  <2>1. \A v \in Writers : v # w => wpc'[v] = wpc[v]
    BY <1>5 DEF WritersInv, WritersTypes
  <2>2. ASSUME NEW i \in 1 .. Len(queue), Unanswered(i)' PROVE Unanswered(i) /\ queue[i] # w
    BY <1>1, <1>4, <2>2 DEF Unanswered
  <2> QED BY Zenon, <1>1, <2>1, <2>2 DEF WritersInv, Waiting
<1>9. Refined
  <2>1. Returns(w, written[w], err) /\ wpc[w] # "done" /\ (err = "nil" <=> written[w] = Length[w])
    BY <1>2, <1>3
  <2> QED BY Zenon, <2>1, ReturnRefines DEF WritersInv, Refined
<1> QED BY <1>6, <1>7, <1>8, <1>9

LEMMA UnblockStep ==
  ASSUME WritersInv, Unblock
  PROVE  WritersInv' /\ Refined
<1> USE WritersAssumption
<1>1. /\ wfpc = "quit" /\ UNCHANGED <<coalesce, semaphore, queue, running, count, written, last>>
  BY DEF Unblock, wireVars
<1>2. CASE next <= Len(queue) /\ Returns(queue[next], 0, "eof") /\ next' = next + 1 /\ UNCHANGED wfpc
  <2>1. next \in 1 .. Len(queue) /\ queue[next] \in Writers
    BY <1>2 DEF WritersInv, WritersTypes
  <2>2. written[queue[next]] = 0 /\ Length[queue[next]] # 0
    BY <1>1, <2>1 DEF WritersInv, Waiting, Unanswered
  <2>3. count' \in Nat
    BY <1>1 DEF WritersInv, WritersTypes
  <2>4. Batch'
    BY <1>1, <1>2 DEF WritersInv, Batch, Offsets
  <2> QED BY <1>1, <1>2, <2>2, <2>3, <2>4, AnswerNext DEF WritersInv
<1>3. CASE next > Len(queue) /\ wfpc' = "stopped" /\ UNCHANGED <<wpc, res, next>>
  <2>1. WritersTypes'
    BY <1>1, <1>3 DEF WritersInv, WritersTypes
  <2>2. Untouched' /\ Deadline'
    BY Zenon, <1>1, <1>3 DEF WritersInv, Untouched, Deadline
  <2>3. Waiting'
    BY <1>1, <1>3 DEF WritersInv, Waiting, Unanswered
  <2>4. Batch'
    BY <1>1, <1>3 DEF WritersInv, Batch, Offsets
  <2>5. Refined
    BY Zenon, <1>1, <1>3 DEF Refined, Outcome
  <2> QED BY <2>1, <2>2, <2>3, <2>4, <2>5 DEF WritersInv
<1> QED BY Zenon, <1>2, <1>3 DEF Unblock

\* flush begins, with a batch of which nothing is written.
LEMMA FlushStep ==
  ASSUME WritersInv, Flush
  PROVE  WritersInv' /\ Refined
<1> USE WritersAssumption
<1>1. /\ wfpc = "select" /\ running /\ running' = FALSE /\ wfpc' \in {"write", "answer"}
      /\ next' = 1 /\ count' = 0
      /\ UNCHANGED <<coalesce, wpc, res, semaphore, queue, written, last>>
  BY Zenon DEF Flush, callerVars, wireVars
<1>2. WritersTypes'
  <2>1. coalesce' \in BOOLEAN /\ running' \in BOOLEAN
    BY Zenon, <1>1 DEF WritersInv, WritersTypes
  <2> QED BY <1>1, <2>1 DEF WritersInv, WritersTypes
<1>3. coalesce
  BY <1>1 DEF WritersInv, Deadline
<1>4. Untouched' /\ Deadline'
  BY Zenon, <1>1, <1>3 DEF WritersInv, Untouched, Deadline
<1>5. Waiting'
  BY <1>1 DEF WritersInv, Waiting, Unanswered
<1>6. Batch'
  <2>1. PICK f \in [1 .. Len(queue) + 1 -> Nat] : Offsets(f)
    BY DEF WritersInv, Batch
  <2>2. /\ Len(queue) \in Nat
        /\ \A i \in 1 .. Len(queue) : written[queue[i]] = 0 /\ Length[queue[i]] > 0
    BY <1>1 DEF WritersInv, WritersTypes, Waiting, Unanswered
  <2>3. WrittenTo(1) /\ Part(1) = 0 /\ f[1] = 0
    BY <2>1, <2>2 DEF WrittenTo, Part, Offsets
  <2>4. WrittenTo(1)' /\ Part(1)' = 0 /\ Offsets(f)'
    BY <1>1, <2>1, <2>3 DEF WrittenTo, Part, Offsets
  <2>5. Writing(f)'
    BY <1>1, <2>2, <2>3, <2>4 DEF Writing
  <2>6. Answering(f)'
    <3>1. 1 \in 1 .. Len(queue') + 1
      BY <1>1, <2>2
    <3> QED BY <1>1, <2>3, <2>4, <3>1 DEF Answering
  <2> QED BY <1>1, <2>4, <2>5, <2>6 DEF Batch
<1>7. Refined
  BY Zenon, <1>1 DEF Refined, Outcome
<1> QED BY <1>2, <1>4, <1>5, <1>6, <1>7 DEF WritersInv

\* A byte of the batch.
LEMMA FlushByteStep ==
  ASSUME WritersInv, FlushByte
  PROVE  WritersInv' /\ Refined
<1> USE WritersAssumption
<1>0. /\ Len(queue) \in Nat /\ \A i \in 1 .. Len(queue) : queue[i] \in Writers
  BY DEF WritersInv, WritersTypes
<1>1. /\ wfpc = "write" /\ next \in 1 .. Len(queue)
      /\ count' = count + 1
      /\ UNCHANGED <<coalesce, wpc, res, semaphore, queue, running, wfpc>>
  BY DEF FlushByte, callerVars, WritersInv, WritersTypes
<1>2. PICK w \in Writers : w = queue[next]
  BY <1>0, <1>1
<1>3. /\ Sends(w) /\ written' = [written EXCEPT ![w] = written[w] + 1] /\ last' = w
      /\ next' = IF written'[w] = Length[w] THEN next + 1 ELSE next
  BY <1>2 DEF FlushByte, Sends, NextBuffer
<1>4. PICK f \in [1 .. Len(queue) + 1 -> Nat] : Offsets(f) /\ Writing(f)
  BY <1>1 DEF WritersInv, Batch
<1>5. /\ written[w] \in Nat /\ Length[w] \in Nat /\ written[w] < Length[w]
      /\ written[w] = 0 \/ last = w
      /\ count = f[next] + written[w] /\ f[next] \in Nat
      /\ next + 1 \in 1 .. Len(queue) + 1 /\ f[next + 1] = f[next] + Length[w]
  <2>1. written[w] \in Nat /\ Length[w] \in Nat
    BY DEF WritersInv, WritersTypes
  <2>2. written[w] < Length[w] /\ (written[w] = 0 \/ last = w)
    BY <1>1, <1>2, <1>4 DEF Writing, WrittenTo
  <2>3. Part(next) = written[w]
    BY <1>1, <1>2 DEF Part
  <2>4. /\ next \in 1 .. Len(queue) + 1 /\ next + 1 \in 1 .. Len(queue) + 1
        /\ f[next + 1] = f[next] + Length[w]
    BY <1>0, <1>1, <1>2, <1>4 DEF Offsets
  <2>5. count = f[next] + written[w] /\ f[next] \in Nat
    BY <1>4, <2>3, <2>4 DEF Writing
  <2> QED BY <2>1, <2>2, <2>4, <2>5
<1>6. /\ written'[w] = written[w] + 1
      /\ \A i \in 1 .. Len(queue) : i # next => written'[queue[i]] = written[queue[i]] /\ queue[i] # w
  BY <1>0, <1>1, <1>2, <1>3 DEF WritersInv, WritersTypes, Waiting
<1>7. WritersTypes'
  <2>1. next' \in Nat \ {0} /\ count' \in Nat
    BY <1>0, <1>1, <1>3, <1>5
  <2>2. /\ written' \in [Writers -> Nat]
        /\ \A v \in Writers : written'[v] <= Length[v]
    <3>1. written \in [Writers -> Nat] /\ \A v \in Writers : written[v] <= Length[v]
      BY DEF WritersInv, WritersTypes
    <3>2. written[w] + 1 \in Nat /\ written[w] + 1 <= Length[w]
      BY <1>5
    <3>3. written' = [written EXCEPT ![w] = written[w] + 1]
      BY <1>3
    <3> QED BY <3>1, <3>2, <3>3
  <2> QED BY Zenon, <1>1, <2>1, <2>2 DEF WritersInv, WritersTypes
<1>8. coalesce
  BY <1>1 DEF WritersInv, Deadline
<1>9. Untouched' /\ Deadline'
  <2>1. wpc[w] = "wait"
    BY <1>1, <1>2 DEF WritersInv, Waiting, Unanswered
  <2>2. Untouched'
    <3>1. \A v \in Writers : v # w => written'[v] = written[v]
      BY <1>3 DEF WritersInv, WritersTypes
    <3> QED BY Zenon, <1>1, <2>1, <3>1 DEF WritersInv, Untouched
  <2> QED BY Zenon, <1>1, <1>8, <2>2 DEF WritersInv, Deadline
<1>10. Waiting'
  BY Zenon, <1>1 DEF WritersInv, Waiting, Unanswered
<1>11. Writing(f)'
  <2>1. CASE written[w] + 1 = Length[w]
    <3>1. next' = next + 1
      BY Zenon, <1>3, <1>6, <2>1
    <3>2. ASSUME NEW i \in 1 .. Len(queue)
          PROVE  /\ i <= next => written'[queue[i]] = Length[queue[i]]
                 /\ i > next => written'[queue[i]] = 0
      <4>1. CASE i = next
        BY <1>1, <1>2, <1>6, <2>1, <4>1
      <4>2. CASE i # next
        <5>1. /\ i < next => written[queue[i]] = Length[queue[i]]
              /\ i > next => written[queue[i]] = 0
          BY <1>4 DEF Writing, WrittenTo
        <5> QED BY <1>1, <1>6, <4>2, <5>1
      <4> QED BY <4>1, <4>2
    <3>3. Part(next)' = 0
      BY <1>0, <1>1, <3>1, <3>2 DEF Part
    <3>4. WrittenTo(next)'
      <4>1. \A i \in 1 .. Len(queue) : Length[queue[i]] > 0
        BY <1>0
      <4> QED BY <1>1, <3>1, <3>2, <4>1 DEF WrittenTo
    <3>5. count' = f[next'] + 0
      BY <1>1, <1>5, <2>1, <3>1
    <3>6. next' <= Len(queue') => written'[queue'[next']] = 0
      BY <1>0, <1>1, <3>1, <3>3 DEF Part
    <3>7. next' <= Len(queue') + 1
      BY <1>0, <1>1, <3>1
    <3> QED BY <3>3, <3>4, <3>5, <3>6, <3>7 DEF Writing
  <2>2. CASE written[w] + 1 # Length[w]
    <3>1. next' = next
      BY <1>3, <1>6, <2>2
    <3>2. WrittenTo(next)'
      <4>1. written'[queue[next]] < Length[queue[next]]
        BY <1>2, <1>5, <1>6, <2>2
      <4>2. WrittenTo(next)
        BY <1>4 DEF Writing
      <4> QED BY <1>1, <1>6, <3>1, <4>1, <4>2 DEF WrittenTo
    <3>3. Part(next)' = written[w] + 1
      BY <1>0, <1>1, <1>2, <1>6, <3>1 DEF Part
    <3>4. count' = f[next'] + (written[w] + 1)
      BY <1>1, <1>5, <3>1
    <3>5. last' = queue'[next'] /\ next' <= Len(queue') + 1
      BY <1>0, <1>1, <1>2, <1>3, <3>1
    <3> QED BY <3>2, <3>3, <3>4, <3>5 DEF Writing
  <2> QED BY <2>1, <2>2
<1>12. Batch'
  <2>1. Offsets(f)'
    BY <1>1, <1>4 DEF Offsets
  <2> QED BY <1>1, <1>11, <2>1 DEF Batch
<1>13. Refined
  <2>1. wpc[w] # "done"
    BY <1>1, <1>2 DEF WritersInv, Waiting, Unanswered
  <2> QED BY Zenon, <1>1, <1>3, <1>5, <2>1, SendRefines DEF Refined
<1> QED BY <1>7, <1>9, <1>10, <1>12, <1>13 DEF WritersInv

\* WriteTo returns: what it wrote is to be shared out.
LEMMA FlushEndsStep ==
  ASSUME WritersInv, FlushEnds
  PROVE  WritersInv' /\ Refined
<1>1. /\ wfpc = "write" /\ wfpc' = "answer" /\ next' = 1
      /\ UNCHANGED <<coalesce, wpc, res, semaphore, queue, running, count, written, last>>
  BY DEF FlushEnds, callerVars, wireVars
<1>2. WritersTypes'
  BY <1>1 DEF WritersInv, WritersTypes
<1>3. Untouched' /\ Deadline'
  BY Zenon, <1>1 DEF WritersInv, Untouched, Deadline
<1>4. Waiting'
  BY <1>1 DEF WritersInv, Waiting, Unanswered
<1>5. Batch'
  <2>1. PICK f \in [1 .. Len(queue) + 1 -> Nat] : Offsets(f) /\ Writing(f)
    BY <1>1 DEF WritersInv, Batch
  <2>2. /\ next \in 1 .. Len(queue) + 1 /\ f[1] = 0 /\ count \in Nat
        /\ WrittenTo(next) /\ count = f[next] + Part(next)
    BY <2>1 DEF Writing, Offsets, WritersInv, WritersTypes
  <2>3. PICK k \in 1 .. Len(queue) + 1 : k = next
    BY <2>2
  <2>4. WrittenTo(k)' /\ Part(k)' = Part(k)
    BY <1>1, <2>2, <2>3 DEF WrittenTo, Part
  <2>5. 1 <= k /\ f[1] + count = f[k] + Part(k)
    BY <2>2, <2>3
  <2>6. Answering(f)'
    BY <1>1, <2>4, <2>5 DEF Answering
  <2>7. Offsets(f)'
    BY <1>1, <2>1 DEF Offsets
  <2> QED BY <1>1, <2>6, <2>7 DEF Batch
<1>6. Refined
  BY Zenon, <1>1 DEF Refined, Outcome
<1> QED BY <1>2, <1>3, <1>4, <1>5, <1>6 DEF WritersInv

\* The share of the next buffer: all of it, the bytes where the write stopped, or none.
LEMMA AnswerStep ==
  ASSUME WritersInv, Answer
  PROVE  WritersInv' /\ Refined
<1> USE WritersAssumption
<1>0. /\ Len(queue) \in Nat /\ \A i \in 1 .. Len(queue) : queue[i] \in Writers
  BY DEF WritersInv, WritersTypes
<1>1. /\ wfpc = "answer" /\ next \in 1 .. Len(queue) /\ next' = next + 1
      /\ UNCHANGED <<coalesce, semaphore, queue, running, wfpc, written, last>>
  BY DEF Answer, wireVars, WritersInv, WritersTypes
<1>2. PICK w \in Writers : w = queue[next]
  BY <1>0, <1>1
<1>3. PICK f \in [1 .. Len(queue) + 1 -> Nat] : Offsets(f) /\ Answering(f)
  BY <1>1 DEF WritersInv, Batch
<1>4. PICK k \in 1 .. Len(queue) + 1 :
        /\ WrittenTo(k)
        /\ IF next <= k THEN f[next] + count = f[k] + Part(k) ELSE count = 0
  BY <1>3 DEF Answering
<1>5. /\ count \in Nat /\ written[w] \in Nat /\ Length[w] \in Nat \ {0}
      /\ f[next] \in Nat /\ f[next + 1] \in Nat /\ f[k] \in Nat /\ Part(k) \in Nat
  <2>1. count \in Nat /\ written[w] \in Nat /\ Length[w] \in Nat \ {0}
    BY DEF WritersInv, WritersTypes
  <2>2. Part(k) \in Nat
    BY <1>0 DEF WritersInv, WritersTypes, Part
  <2>3. next \in 1 .. Len(queue) + 1 /\ next + 1 \in 1 .. Len(queue) + 1
    BY <1>0, <1>1
  <2> QED BY <2>1, <2>2, <2>3
<1>6. f[next + 1] = f[next] + Length[w]
  BY <1>1, <1>2, <1>3 DEF Offsets
<1>7. Offsets(f)' /\ WrittenTo(k)' /\ Part(k)' = Part(k)
  BY Zenon, <1>1, <1>3, <1>4 DEF Offsets, WrittenTo, Part
<1>8. CASE next < k
  <2>1. written[w] = Length[w]
    BY <1>1, <1>2, <1>4, <1>8 DEF WrittenTo
  <2>2. f[next + 1] <= f[k]
    BY <1>0, <1>1, <1>3, <1>8 DEF Offsets
  <2>3. next <= k /\ next + 1 <= k
    BY <1>1, <1>8
  <2>4. f[next] + count = f[k] + Part(k)
    BY <1>4, <2>3
  <2>5. /\ Length[w] <= count /\ count - Length[w] \in Nat
        /\ f[next + 1] + (count - Length[w]) = f[k] + Part(k)
    <3>1. PICK a \in Nat, b \in Nat, d \in Nat, p \in Nat, l \in Nat :
            a = f[next] /\ b = f[next + 1] /\ d = f[k] /\ p = Part(k) /\ l = Length[w]
      BY Zenon, <1>5
    <3>2. count \in Nat /\ a + count = d + p /\ b = a + l /\ b <= d
      BY Zenon, <1>5, <1>6, <2>2, <2>4, <3>1
    <3>3. l <= count /\ count - l \in Nat /\ b + (count - l) = d + p
      BY <3>2
    <3> QED BY Zenon, <3>1, <3>3
  <2>6. Returns(w, Length[w], "nil") /\ count' = count - Length[w]
    BY <1>2, <2>5 DEF Answer
  <2>7. count' \in Nat /\ next + 1 <= k /\ f[next + 1] + count' = f[k] + Part(k)
    BY <2>3, <2>5, <2>6
  <2>8. Answering(f)'
    BY <1>1, <1>7, <2>7 DEF Answering
  <2>9. Batch'
    BY Zenon, <1>1, <1>7, <2>8 DEF Batch
  <2> QED BY <1>1, <1>2, <1>5, <2>1, <2>6, <2>7, <2>9, AnswerNext DEF WritersInv
<1>9. CASE next >= k
  <2>1. written[w] = count /\ count < Length[w]
    <3>1. CASE next = k
      BY <1>1, <1>2, <1>4, <1>5, <3>1 DEF WrittenTo, Part
    <3>2. CASE next > k
      BY <1>1, <1>2, <1>4, <1>5, <3>2 DEF WrittenTo
    <3> QED BY <1>1, <1>9, <3>1, <3>2
  <2>2. Returns(w, count, "io") /\ count' = 0
    BY <1>2, <1>5, <2>1 DEF Answer, RestOfCount
  <2>3. ~(next + 1 <= k)
    BY <1>1, <1>9
  <2>4. Answering(f)'
    BY <1>1, <1>7, <2>2, <2>3 DEF Answering
  <2>5. Batch'
    BY <1>1, <1>7, <2>4 DEF Batch
  <2> QED BY <1>1, <1>2, <1>5, <2>1, <2>2, <2>5, AnswerNext DEF WritersInv
<1> QED BY <1>1, <1>8, <1>9

LEMMA FlushedStep ==
  ASSUME WritersInv, Flushed
  PROVE  WritersInv' /\ Refined
<1>1. /\ wfpc = "answer" /\ queue' = <<>> /\ wfpc' = "select"
      /\ UNCHANGED <<coalesce, wpc, res, semaphore, running, next, count, written, last>>
  BY DEF Flushed, callerVars, wireVars
<1>2. WritersTypes'
  BY <1>1 DEF WritersInv, WritersTypes
<1>3. Untouched' /\ Deadline'
  BY Zenon, <1>1 DEF WritersInv, Untouched, Deadline
<1>4. Waiting'
  BY <1>1 DEF Waiting
<1>5. Batch'
  <2> DEFINE f == [i \in 1 .. 1 |-> 0]
  <2>1. f \in [1 .. Len(queue') + 1 -> Nat] /\ Offsets(f)'
    BY <1>1 DEF Offsets
  <2> QED BY <1>1, <2>1 DEF Batch
<1>6. Refined
  BY Zenon, <1>1 DEF Refined, Outcome
<1> QED BY <1>2, <1>3, <1>4, <1>5, <1>6 DEF WritersInv

LEMMA WritersIdle ==
  ASSUME WritersInv, CloseSocket \/ UNCHANGED writerVars
  PROVE  WritersInv' /\ Refined
<1>1. UNCHANGED <<coalesce, wpc, res, semaphore, queue, running, wfpc, next, count, written, last>>
  BY DEF CloseSocket, writerVars, callerVars, coalescerVars, wireVars
<1>2. WritersTypes'
  BY Zenon, <1>1 DEF WritersInv, WritersTypes
<1>3. Untouched' /\ Deadline'
  BY Zenon, <1>1 DEF WritersInv, Untouched, Deadline
<1>4. Waiting' /\ Batch'
  BY <1>1, SameWaiting, SameBatch DEF WritersInv
<1>5. Refined
  BY Zenon, <1>1 DEF Refined, Outcome
<1> QED BY <1>2, <1>3, <1>4, <1>5 DEF WritersInv

\* Every step keeps the invariant, and is a step of the contract or one that no caller sees.
LEMMA WritersInductive == WritersInv /\ [WritersNext]_writerVars => WritersInv' /\ Refined
<1> SUFFICES ASSUME WritersInv, [WritersNext]_writerVars PROVE WritersInv' /\ Refined
  OBVIOUS
<1>1. CASE CloseSocket \/ UNCHANGED writerVars
  BY <1>1, WritersIdle
<1>2. CASE writeFlusherImpl
  BY <1>2, QuitStep, UnblockStep, FlushStep, FlushByteStep, FlushEndsStep, AnswerStep, FlushedStep
  DEF writeFlusherImpl
<1>3. ASSUME NEW w \in Writers, writeContext(w) PROVE WritersInv' /\ Refined
  BY <1>3, GiveUpStep, AcquireStep, WriteStep, WriteEndsStep, EnqueueStep DEF writeContext
<1> QED BY <1>1, <1>2, <1>3 DEF WritersNext

\* Both implementations of contextWriter keep its promise, for any number of calls and
\* frames of any length: a write may fail at any byte, and a vectored write may stop in any
\* buffer of a batch (deadlineContextWriter, writeCoalescer).
THEOREM WritersKeepContract == WritersSpec => ImplementsContextWriter
<1>1. WritersInv /\ [WritersNext]_writerVars =>
        WritersInv' /\ [Contract!Next]_<<written, last, Outcome>>
  BY Zenon, WritersInductive DEF Refined
<1>2. WritersInit => WritersInv /\ Contract!Init
  BY WritersInitially
<1> QED BY <1>1, <1>2, PTL DEF WritersSpec, ImplementsContextWriter, Contract!Spec, Outcome

-------------------------------------------------------------------------------
(* QueryExecutor *)

INSTANCE FiniteSetTheorems

\* The loop of do goes round again only for a request that may be retried.
Retried == cfg.idempotent /\ cfg.rt # "none"

\* Run r may still send the request once before it is counted again: it has taken
\* a host or is about to, or the attempt it has counted leaves one to make.  One
\* that has responded reads at least what the count is now.
MaySendOnce(r) ==
  \/ pc[r] \in {"start", "try"}
  \/ pc[r] = "responded" /\ attempts <= NumRetries
  \/ pc[r] = "retry" /\ seen[r] <= NumRetries
Ready == {r \in Runs : MaySendOnce(r)}

\* The attempts counted so far that could be followed by another.
Retries ==
  IF ~Retried THEN 0 ELSE IF attempts <= NumRetries THEN attempts ELSE NumRetries

ExecType ==
  /\ pc \in [Runs -> {"off", "start", "try", "sent", "responded", "retry", "return", "done"}]
  /\ seen \in [Runs -> Nat]
  /\ attempts \in Nat /\ sent \in Nat /\ spawned \in Nat

\* The requests sent and the ones that may follow without another count are paid
\* for by a run or by a count of attempts: each run is allowed one, and each of
\* the first NumRetries counts one more.
IInv ==
  /\ ExecType
  /\ ~cfg.idempotent => spawned = 0
  /\ \A r \in Runs : pc[r] \in {"responded", "retry"} => Retried
  /\ sent + Cardinality(Ready) <= 1 + spawned + Retries

-------------------------------------------------------------------------------
(* Counting the runs that may send *)

LEMMA RunsFinite == IsFiniteSet(Runs)
BY ExecutorAssumption, FS_Interval DEF Runs

\* Fewer runs are ready.
LEMMA Fewer ==
  ASSUME NEW S, NEW T \in SUBSET Runs, S \subseteq T
  PROVE  Cardinality(S) \in Nat /\ Cardinality(T) \in Nat /\ Cardinality(S) <= Cardinality(T)
BY RunsFinite, FS_Subset, FS_CardinalityType

\* Run r may have become ready.
LEMMA OneMore ==
  ASSUME NEW T \in SUBSET Runs, NEW r \in Runs, NEW S, S \subseteq T \cup {r}
  PROVE  Cardinality(S) \in Nat /\ Cardinality(T) \in Nat /\ Cardinality(S) <= Cardinality(T) + 1
<1>1. IsFiniteSet(T) /\ IsFiniteSet(T \cup {r})
  BY RunsFinite, FS_Subset
<1>2. Cardinality(T \cup {r}) <= Cardinality(T) + 1 /\ Cardinality(T) \in Nat
  BY <1>1, FS_AddElement, FS_CardinalityType
<1>3. Cardinality(S) <= Cardinality(T \cup {r}) /\ Cardinality(S) \in Nat
        /\ Cardinality(T \cup {r}) \in Nat
  BY Fewer
<1> QED
  BY <1>2, <1>3

\* Run r was ready and is no longer.
LEMMA OneFewer ==
  ASSUME NEW T \in SUBSET Runs, NEW r \in T, NEW S, S \subseteq T \ {r}
  PROVE  Cardinality(S) \in Nat /\ Cardinality(T) \in Nat /\ Cardinality(S) + 1 <= Cardinality(T)
<1>1. IsFiniteSet(T) /\ IsFiniteSet(T \ {r})
  BY RunsFinite, FS_Subset
<1>2. Cardinality(T \ {r}) = Cardinality(T) - 1 /\ Cardinality(T) \in Nat
  BY <1>1, FS_RemoveElement, FS_CardinalityType
<1>3. Cardinality(S) <= Cardinality(T \ {r}) /\ Cardinality(S) \in Nat
        /\ Cardinality(T \ {r}) \in Nat
  BY Fewer
<1> QED
  BY <1>2, <1>3

-------------------------------------------------------------------------------
(* The invariant *)

LEMMA InitIInv == Init => IInv
<1> SUFFICES ASSUME Init PROVE IInv
  OBVIOUS
<1>1. ExecType /\ spawned = 0 /\ sent = 0 /\ attempts = 0
  BY DEF Init, ExecType
<1>2. \A r \in Runs : pc[r] \notin {"responded", "retry"}
  BY DEF Init
<1>3. Ready \subseteq {} \cup {0} /\ 0 \in Runs
  BY ExecutorAssumption DEF Init, Ready, MaySendOnce, Runs
<1>4. Cardinality(Ready) <= 1 /\ Cardinality(Ready) \in Nat
  BY <1>3, OneMore, FS_EmptySet
<1>5. Retries \in Nat
  BY <1>1, ExecutorAssumption DEF Retries
<1> QED
  BY <1>1, <1>2, <1>4, <1>5 DEF IInv

\* What a step of run r that counts nothing may do: the run stays as ready as it
\* was or is no longer ready.
LEMMA Uncounted ==
  ASSUME IInv, ExecType', Ready' \subseteq Ready,
         UNCHANGED <<cfg, attempts, spawned, sent>>,
         \A r \in Runs : pc'[r] \in {"responded", "retry"} => pc[r] \in {"responded", "retry"}
  PROVE  IInv'
<1>1. Cardinality(Ready') <= Cardinality(Ready) /\ Cardinality(Ready) \in Nat
        /\ Cardinality(Ready') \in Nat
  BY Fewer DEF Ready
<1>2. Retries' = Retries /\ Retries \in Nat
  BY ExecutorAssumption DEF Retries, Retried, IInv, ExecType
<1> QED
  BY <1>1, <1>2 DEF IInv, ExecType, Retried

\* Taking a host leaves the run where it may send, or ends it.
LEMMA AdvanceStep ==
  ASSUME NEW r \in Runs, NEW err, Advance(r, err)
  PROVE  \E l \in {"try", "return"} : pc' = [pc EXCEPT ![r] = l]
BY DEF Advance, Set

LEMMA BeginIInv == ASSUME IInv, NEW r \in Runs, Begin(r) PROVE IInv'
<1>1. PICK l \in {"try", "return"} : pc' = [pc EXCEPT ![r] = l]
  BY Zenon, AdvanceStep DEF Begin
<1>2. pc[r] = "start" /\ UNCHANGED <<cfg, attempts, spawned, sent, seen>>
  BY DEF Begin, callVars, histVars
<1> QED
  BY <1>1, <1>2, Uncounted DEF IInv, ExecType, Ready, MaySendOnce

LEMMA SkipIInv == ASSUME IInv, NEW r \in Runs, Skip(r) PROVE IInv'
<1>1. PICK l \in {"try", "return"} : pc' = [pc EXCEPT ![r] = l]
  BY AdvanceStep DEF Skip
<1>2. pc[r] = "try" /\ UNCHANGED <<cfg, attempts, spawned, sent, seen>>
  BY DEF Skip, callVars, histVars
<1> QED
  BY <1>1, <1>2, Uncounted DEF IInv, ExecType, Ready, MaySendOnce

\* What is sent was allowed to the run.
LEMMA SendIInv == ASSUME IInv, NEW r \in Runs, Send(r) PROVE IInv'
<1>1. /\ pc[r] = "try" /\ pc' = [pc EXCEPT ![r] = "sent"]
      /\ UNCHANGED <<cfg, attempts, spawned, seen>> /\ sent' \in {sent, sent + 1}
  BY DEF Send, Set, callVars, histVars
<1>2. r \in Ready /\ Ready' \subseteq Ready \ {r} /\ Ready \in SUBSET Runs
  BY <1>1 DEF IInv, ExecType, Ready, MaySendOnce
<1>3. Cardinality(Ready') + 1 <= Cardinality(Ready) /\ Cardinality(Ready) \in Nat
        /\ Cardinality(Ready') \in Nat
  BY <1>2, OneFewer
<1>4. Retries' = Retries /\ Retries \in Nat
  BY <1>1, ExecutorAssumption DEF Retries, Retried, IInv, ExecType
<1>5. ExecType' /\ \A q \in Runs : pc'[q] \in {"responded", "retry"} => Retried'
  BY <1>1 DEF IInv, ExecType, Retried
<1> QED
  BY <1>1, <1>3, <1>4, <1>5 DEF IInv, ExecType

\* A count of attempts pays for one more request only if a retry may follow it.
LEMMA RespondIInv == ASSUME IInv, NEW r \in Runs, NEW o, Respond(r, o) PROVE IInv'
<1>1. PICK l \in {"return", "responded"} :
        /\ pc' = [pc EXCEPT ![r] = l]
        /\ l = "responded" => Retried
  BY DEF Respond, Final, Ends, Set, Retried
<1>2. /\ pc[r] = "sent" /\ attempts' = attempts + 1
      /\ UNCHANGED <<cfg, spawned, seen, sent>>
  BY DEF Respond, callVars, histVars
<1>3. ExecType' /\ (\A q \in Runs : pc'[q] \in {"responded", "retry"} => Retried')
      /\ (~cfg'.idempotent => spawned' = 0)
  BY <1>1, <1>2 DEF IInv, ExecType, Retried
<1>4. Ready \in SUBSET Runs
  BY DEF Ready
<1>5. CASE l = "responded" /\ attempts' <= NumRetries
  <2>1. Ready' \subseteq Ready \cup {r}
    BY <1>1, <1>2, ExecutorAssumption DEF IInv, ExecType, Ready, MaySendOnce
  <2>2. Cardinality(Ready') <= Cardinality(Ready) + 1 /\ Cardinality(Ready) \in Nat
          /\ Cardinality(Ready') \in Nat
    BY <1>4, <2>1, OneMore
  <2>3. Retries' = Retries + 1 /\ Retries \in Nat
    BY <1>1, <1>2, <1>5, ExecutorAssumption DEF Retries, Retried, IInv, ExecType
  <2> QED
    BY <1>2, <1>3, <2>2, <2>3 DEF IInv, ExecType
<1>6. CASE l = "return" \/ attempts' > NumRetries
  <2>1. Ready' \subseteq Ready
    BY <1>1, <1>2, <1>6, ExecutorAssumption DEF IInv, ExecType, Ready, MaySendOnce
  <2>2. Cardinality(Ready') <= Cardinality(Ready) /\ Cardinality(Ready) \in Nat
          /\ Cardinality(Ready') \in Nat
    BY <1>4, <2>1, Fewer
  <2>3. Retries' >= Retries /\ Retries \in Nat /\ Retries' \in Nat
    <3>1. Retried' = Retried /\ attempts \in Nat /\ attempts' = attempts + 1 /\ NumRetries \in Nat
      BY Zenon, <1>2, ExecutorAssumption DEF Retried, IInv, ExecType
    <3>2. CASE ~Retried
      BY <3>1, <3>2 DEF Retries
    <3>3. CASE Retried
      BY <3>1, <3>3 DEF Retries
    <3> QED
      BY Zenon, <3>2, <3>3
  <2> QED
    BY <1>2, <1>3, <2>2, <2>3 DEF IInv, ExecType
<1> QED
  BY <1>1, <1>2, <1>5, <1>6, ExecutorAssumption DEF IInv, ExecType

LEMMA AttemptIInv == ASSUME IInv, NEW r \in Runs, Attempt(r) PROVE IInv'
<1>1. /\ pc[r] = "responded" /\ pc' = [pc EXCEPT ![r] = "retry"]
      /\ seen' = [seen EXCEPT ![r] = attempts]
      /\ UNCHANGED <<cfg, attempts, spawned, sent>>
  BY DEF Attempt, Set, callVars, histVars
<1> QED
  BY <1>1, Uncounted DEF IInv, ExecType, Ready, MaySendOnce

\* The loop goes round only if the attempts it has read are not used up.
LEMMA RetryIInv == ASSUME IInv, NEW r \in Runs, Retry(r) PROVE IInv'
<1>1. /\ pc[r] = "retry" /\ seen' = [seen EXCEPT ![r] = 0]
      /\ UNCHANGED <<cfg, attempts, spawned, sent>>
  BY DEF Retry, Set, callVars, histVars
<1>2. \/ pc' = [pc EXCEPT ![r] = "return"]
      \/ pc' = [pc EXCEPT ![r] = "try"] /\ ~AttemptsReached(r)
  BY Zenon, AdvanceStep DEF Retry, Ends, Set
<1>3. Ready' \subseteq Ready
  BY <1>1, <1>2, ExecutorAssumption DEF IInv, ExecType, Ready, MaySendOnce, AttemptsReached
<1> QED
  BY <1>1, <1>2, <1>3, Uncounted DEF IInv, ExecType

LEMMA DoneIInv ==
  ASSUME IInv, NEW r \in Runs, Done(r), UNCHANGED <<cfg, attempts, spawned, sent>>
  PROVE  IInv'
<1>1. pc' = [pc EXCEPT ![r] = "done"] /\ UNCHANGED seen
  BY Zenon DEF Done, Set
<1>2. ExecType' /\ Ready' \subseteq Ready
  BY <1>1 DEF IInv, ExecType, Ready, MaySendOnce
<1> QED
  BY <1>1, <1>2, Uncounted DEF IInv, ExecType

LEMMA RunIInv == ASSUME IInv, NEW r \in Runs, run(r) PROVE IInv'
BY Zenon, DoneIInv DEF run, ReturnDirect, Publish, Discard, callVars, histVars

LEMMA UnknownHostIInv == ASSUME IInv, UnknownHost PROVE IInv'
<1>1. 0 \in Runs
  BY ExecutorAssumption DEF Runs
<1> QED
  BY <1>1, DoneIInv DEF UnknownHost, histVars

\* One more run, and one more request it may send.
LEMMA SpeculateIInv == ASSUME IInv, NEW r \in Runs, Speculate(r) PROVE IInv'
<1>1. /\ cfg.idempotent /\ spawned' = spawned + 1
      /\ pc' = [pc EXCEPT ![r] = "start"]
      /\ UNCHANGED <<cfg, attempts, seen, sent>>
  BY DEF Speculate, Speculative, Set, histVars
<1>2. Ready' \subseteq Ready \cup {r} /\ Ready \in SUBSET Runs
  BY <1>1 DEF IInv, ExecType, Ready, MaySendOnce
<1>3. Cardinality(Ready') <= Cardinality(Ready) + 1 /\ Cardinality(Ready) \in Nat
        /\ Cardinality(Ready') \in Nat
  BY <1>2, OneMore
<1>4. Retries' = Retries /\ Retries \in Nat
  BY Zenon, <1>1, ExecutorAssumption DEF Retries, Retried, IInv, ExecType
<1>5. ExecType' /\ \A q \in Runs : pc'[q] \in {"responded", "retry"} => Retried'
  BY <1>1 DEF IInv, ExecType, Retried
<1> QED
  BY <1>1, <1>3, <1>4, <1>5 DEF IInv, ExecType

\* Everything else leaves the runs alone.
LEMMA OtherIInv ==
  ASSUME IInv, UNCHANGED <<cfg, attempts, pc, seen, spawned, sent>>
  PROVE  IInv'
BY Uncounted DEF IInv, ExecType, Ready, MaySendOnce

LEMMA NextIInv == IInv /\ [Next]_vars => IInv'
<1> SUFFICES ASSUME IInv, [Next]_vars PROVE IInv'
  OBVIOUS
<1>1. CASE \E h \in Flaky : SetState(h) \/ Notify(h)
  BY <1>1, OtherIInv DEF SetState, Notify, runVars, callVars, histVars
<1>2. ASSUME NEW r \in Runs, do(r) PROVE IInv'
  BY <1>2, BeginIInv, SkipIInv, SendIInv, AttemptIInv, RetryIInv, RespondIInv DEF do
<1>3. ASSUME NEW r \in Runs, run(r) PROVE IInv'
  BY <1>3, RunIInv
<1>4. ASSUME NEW r \in Runs, Speculate(r) PROVE IInv'
  BY <1>4, SpeculateIInv
<1>5. CASE UnknownHost
  BY <1>5, UnknownHostIInv
<1>6. CASE Receive \/ Cancel
  BY <1>6, OtherIInv DEF Receive, Cancel, runVars, histVars
<1>7. CASE UNCHANGED vars
  BY <1>7, OtherIInv DEF vars, runVars, callVars, histVars
<1> QED
  BY <1>1, <1>2, <1>3, <1>4, <1>5, <1>6, <1>7 DEF Next

LEMMA BoundFollows == IInv => AttemptsBound
<1> SUFFICES ASSUME IInv PROVE AttemptsBound
  OBVIOUS
<1>1. Cardinality(Ready) \in Nat
  BY Fewer DEF Ready
<1>2. sent \in Nat /\ spawned \in Nat /\ attempts \in Nat /\ NumRetries \in Nat
  BY ExecutorAssumption DEF IInv, ExecType
<1>3. Retries \in Nat /\ sent <= 1 + spawned + Retries
  BY <1>1, <1>2 DEF IInv, Retries
<1>4. CASE Retried
  <2>1. Retries <= NumRetries
    BY <1>2, <1>4 DEF Retries
  <2> QED
    BY <1>2, <1>3, <1>4, <2>1 DEF Retried, AttemptsBound
<1>5. CASE ~Retried
  <2>1. Retries = 0
    BY <1>5 DEF Retries
  <2>2. ~cfg.idempotent => spawned = 0
    BY DEF IInv
  <2>3. sent <= 1 + spawned
    BY <1>2, <1>3, <2>1
  <2> QED
    BY <1>2, <2>2, <2>3 DEF AttemptsBound
<1> QED
  BY <1>4, <1>5

\* A request that is not idempotent is sent at most once, and the runs of another
\* send it at most NumRetries times more than there are runs (run, do, speculate).
THEOREM SentBounded == Spec => []AttemptsBound
<1>1. Init => IInv
  BY InitIInv
<1>2. IInv /\ [Next]_vars => IInv'
  BY NextIInv
<1>3. IInv => AttemptsBound
  BY BoundFollows
<1> QED
  BY <1>1, <1>2, <1>3, PTL DEF Spec

===============================================================================
