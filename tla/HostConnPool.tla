----------------------------- MODULE HostConnPool -----------------------------
(***************************************************************************)
(* The connection pool of one host (connectionpool.go, hostConnPool): the  *)
(* fill goroutines that Pick, HandleError and addHost start, the connect   *)
(* goroutines of a filler, the errors of connections and Close.            *)
(*                                                                         *)
(* pool.mu is held across a call in one place only, the end of connect, so *)
(* every other critical section is one step that needs the mutex free.     *)
(***************************************************************************)
EXTENDS Naturals, FiniteSets

CONSTANTS
  Fillers,        \* goroutines that run fill
  Conns,          \* connection objects; one that nobody refers to is used again
  Size,           \* pool.size
  MaxSpawned,     \* bound: fill goroutines started and not yet running
  None            \* no goroutine holds pool.mu

ASSUME PoolAssumption ==
  /\ {Size, MaxSpawned} \subseteq Nat \ {0} /\ IsFiniteSet(Conns)
  /\ None \notin Conns \cup Fillers

VARIABLES
  conns,          \* pool.conns
  closed,         \* pool.closed
  filling,        \* pool.filling
  mu,             \* the connection whose connect holds pool.mu, or None
  toClose,        \* the connections Close took and has yet to close
  spawned,        \* go pool.fill() not yet running
  fpc,            \* where each filler is
  want,           \* connections the filler has yet to start
  ferr,           \* connectErr
  life,           \* of a connection: none, open, dead
  cpc,            \* where connect is, for the connection it makes
  by,             \* the filler a connect belongs to
  handler,        \* closeWithError is about to call pool.HandleError
  removed,        \* the session removed the pool: it will be closed
  early,          \* history: connections that died before connect added them
  calm            \* from now on the host is reachable and nothing breaks

poolVars == <<conns, closed, filling, mu, toClose, spawned>>
fillVars == <<fpc, want, ferr>>
connVars == <<life, cpc, by, handler>>
envVars == <<removed, early, calm>>
vars == <<poolVars, fillVars, connVars, envVars>>

Init ==
  /\ conns = {} /\ closed = FALSE /\ filling = FALSE /\ mu = None
  /\ toClose = {} /\ spawned = 0
  /\ fpc = [f \in Fillers |-> "idle"]
  /\ want = [f \in Fillers |-> 0]
  /\ ferr = [f \in Fillers |-> FALSE]
  /\ life = [c \in Conns |-> "none"]
  /\ cpc = [c \in Conns |-> "none"]
  /\ by = [c \in Conns |-> None]
  /\ handler = [c \in Conns |-> FALSE]
  /\ removed = FALSE /\ early = {} /\ calm = FALSE

Goto(f, l) == fpc' = [fpc EXCEPT ![f] = l]

\* The connects of filler f that have not returned: the wait group.
Working(f) == {c \in Conns : by[c] = f}

-------------------------------------------------------------------------------
(* fill *)

\* go pool.fill(), from Pick or addHost.
Pick ==
  /\ mu = None
  /\ ~closed /\ Cardinality(conns) < Size
  /\ spawned < MaxSpawned
  /\ spawned' = spawned + 1
  /\ UNCHANGED <<conns, closed, filling, mu, toClose, fillVars, connVars, envVars>>

MutFull == Cardinality(conns) + 1 >= Size
Full == Cardinality(conns) >= Size

\* The checks under the read lock.
Check(f) ==
  /\ fpc[f] = "idle"
  /\ mu = None
  /\ spawned > 0
  /\ spawned' = spawned - 1
  /\ Goto(f, IF closed \/ filling \/ Full THEN "idle" ELSE "upgrade")
  /\ UNCHANGED <<conns, closed, filling, mu, toClose, want, ferr,
                 connVars, envVars>>

\* Whether fill may go on, checked again under the write lock.
MayFill == ~closed /\ ~filling /\ ~Full

Upgrade(f) ==
  /\ fpc[f] = "upgrade"
  /\ mu = None
  /\ \/ /\ MayFill
        /\ filling' = TRUE
        /\ want' = [want EXCEPT ![f] = IF conns = {} THEN 1
                                       ELSE Size - Cardinality(conns)]
        /\ ferr' = [ferr EXCEPT ![f] = FALSE]
        /\ Goto(f, IF conns = {} THEN "first" ELSE "many")
     \/ /\ ~MayFill
        /\ Goto(f, "idle")
        /\ UNCHANGED <<filling, want, ferr>>
  /\ UNCHANGED <<conns, closed, mu, toClose, spawned, connVars, envVars>>

\* pool.connect() begins, in the filler (the first one) or in a goroutine.
StartConnect(f, c) ==
  /\ fpc[f] \in {"first", "many"}
  /\ want[f] > 0
  /\ life[c] = "none" /\ cpc[c] = "none" /\ by[c] = None
  /\ want' = [want EXCEPT ![f] = @ - 1]
  /\ cpc' = [cpc EXCEPT ![c] = "dial"]
  /\ by' = [by EXCEPT ![c] = f]
  /\ UNCHANGED <<poolVars, fpc, ferr, life, handler, envVars>>

\* fillCount--: what is left to fill after the first connection.
Rest == Size - 1

\* The first, synchronous connect returned.  (The session is told of success by a
\* goroutine of its own, which does not touch the pool.)
FirstDone(f) ==
  /\ fpc[f] = "first"
  /\ want[f] = 0 /\ Working(f) = {}
  /\ \/ /\ ferr[f]
        /\ Goto(f, "stop")
        /\ UNCHANGED want
     \/ /\ ~ferr[f]
        /\ Goto(f, "many")
        /\ want' = [want EXCEPT ![f] = Rest]
  /\ UNCHANGED <<poolVars, ferr, connVars, envVars>>

\* connectMany returned.
ManyDone(f) ==
  /\ fpc[f] = "many"
  /\ want[f] = 0 /\ Working(f) = {}
  /\ Goto(f, "stop")
  /\ UNCHANGED <<poolVars, want, ferr, connVars, envVars>>

\* The locked part of fillingStopped, where an empty pool after an error is noticed.
fillingStopped(f) ==
  /\ fpc[f] = "stop"
  /\ mu = None
  /\ filling' = FALSE
  /\ Goto(f, IF ferr[f] /\ conns = {} THEN "down" ELSE "idle")
  /\ ferr' = [ferr EXCEPT ![f] = FALSE]
  /\ UNCHANGED <<conns, closed, mu, toClose, spawned, want, connVars, envVars>>

\* handleNodeDown: the session removes the pool and starts its Close.
ReportDown(f) ==
  /\ fpc[f] = "down"
  /\ removed' = TRUE
  /\ Goto(f, "idle")
  /\ UNCHANGED <<poolVars, want, ferr, connVars, early, calm>>

-------------------------------------------------------------------------------
(* connect *)

\* connect returns to its filler.
Return(c, failed) ==
  /\ cpc' = [cpc EXCEPT ![c] = "none"]
  /\ by' = [by EXCEPT ![c] = None]
  /\ ferr' = [ferr EXCEPT ![by[c]] = @ \/ failed]

\* session.connect and UseKeyspace succeeded.
Dialed(c) ==
  /\ cpc[c] = "dial"
  /\ life' = [life EXCEPT ![c] = "open"]
  /\ cpc' = [cpc EXCEPT ![c] = "add"]
  /\ UNCHANGED <<poolVars, fillVars, by, handler, envVars>>

\* They failed, after the retries of the reconnection policy.
ConnectFails(c) ==
  /\ cpc[c] = "dial"
  /\ ~calm
  /\ Return(c, TRUE)
  /\ UNCHANGED <<poolVars, fpc, want, life, handler, envVars>>

\* The pool is still open: the connection joins it.
Add(c) ==
  /\ cpc[c] = "add"
  /\ mu = None
  /\ ~closed
  /\ conns' = conns \cup {c}
  /\ Return(c, FALSE)
  /\ UNCHANGED <<closed, filling, mu, toClose, spawned, fpc, want,
                 life, handler, envVars>>

\* The pool was closed meanwhile: conn.Close() with pool.mu held.
MutAddClosed(c) ==
  /\ cpc[c] = "add"
  /\ mu = None
  /\ closed
  /\ Return(c, FALSE)
  /\ UNCHANGED <<poolVars, fpc, want, life, handler, envVars>>

AddClosed(c) ==
  /\ cpc[c] = "add"
  /\ mu = None
  /\ closed
  /\ mu' = c
  /\ cpc' = [cpc EXCEPT ![c] = "close"]
  /\ UNCHANGED <<conns, closed, filling, toClose, spawned, fillVars, life, by,
                 handler, envVars>>

\* conn.closeWithError(nil), which calls HandleError if the socket's Close
\* fails; HandleError then waits for the mutex its own goroutine holds.
CloseAdded(c) ==
  /\ cpc[c] = "close"
  /\ life' = [life EXCEPT ![c] = "dead"]
  /\ \/ /\ mu' = None
        /\ Return(c, FALSE)
     \/ /\ life[c] = "open"
        /\ cpc' = [cpc EXCEPT ![c] = "relock"]
        /\ UNCHANGED <<mu, by, ferr>>
  /\ UNCHANGED <<conns, closed, filling, toClose, spawned, fpc, want,
                 handler, envVars>>

-------------------------------------------------------------------------------
(* Errors of connections, and Close *)

\* A connection that works meets an error and closes itself.
Die(c) ==
  /\ life[c] = "open"
  /\ ~calm
  /\ life' = [life EXCEPT ![c] = "dead"]
  /\ handler' = [handler EXCEPT ![c] = TRUE]
  /\ early' = IF cpc[c] # "none" THEN early \cup {c} ELSE early
  /\ UNCHANGED <<poolVars, fillVars, cpc, by, removed, calm>>

\* Whether HandleError finds the connection in the pool.
MutDropped(c) == ~closed /\ ~filling /\ c \in conns
Dropped(c) == ~closed /\ c \in conns

\* The pool's HandleError.
HandleError(c) ==
  /\ handler[c]
  /\ mu = None
  /\ handler' = [handler EXCEPT ![c] = FALSE]
  /\ \/ /\ Dropped(c)
        /\ conns' = conns \ {c}
        /\ spawned < MaxSpawned
        /\ spawned' = spawned + 1
     \/ /\ ~Dropped(c)
        /\ UNCHANGED <<conns, spawned>>
  /\ UNCHANGED <<closed, filling, mu, toClose, fillVars, life, cpc, by, envVars>>

\* The locked part of Close.
Close ==
  /\ mu = None
  /\ ~closed
  /\ closed' = TRUE
  /\ toClose' = conns
  /\ conns' = {}
  /\ UNCHANGED <<filling, mu, spawned, fillVars, connVars, envVars>>

\* conn.Close() for the connections it took.
CloseConn(c) ==
  /\ c \in toClose
  /\ toClose' = toClose \ {c}
  /\ life' = [life EXCEPT ![c] = "dead"]
  /\ \/ UNCHANGED handler
     \/ /\ life[c] = "open"
        /\ handler' = [handler EXCEPT ![c] = TRUE]
  /\ UNCHANGED <<conns, closed, filling, mu, spawned, fillVars, cpc, by, envVars>>

\* Nobody refers to the connection any more.
Collect(c) ==
  /\ life[c] = "dead"
  /\ ~handler[c] /\ cpc[c] = "none" /\ c \notin conns \cup toClose
  /\ life' = [life EXCEPT ![c] = "none"]
  /\ early' = early \ {c}
  /\ UNCHANGED <<poolVars, fillVars, cpc, by, handler, removed, calm>>

\* The network settles.
Settle ==
  /\ ~calm
  /\ calm' = TRUE
  /\ UNCHANGED <<poolVars, fillVars, connVars, removed, early>>

-------------------------------------------------------------------------------
fill(f) ==
  \/ Check(f) \/ Upgrade(f)
  \/ \E c \in Conns : StartConnect(f, c)
  \/ FirstDone(f) \/ ManyDone(f) \/ fillingStopped(f) \/ ReportDown(f)

connect(c) ==
  Dialed(c) \/ ConnectFails(c) \/ Add(c) \/ AddClosed(c) \/ CloseAdded(c)

Next ==
  \/ Pick \/ Close \/ Settle
  \/ \E f \in Fillers : fill(f)
  \/ \E c \in Conns : \/ connect(c) \/ HandleError(c) \/ CloseConn(c)
                      \/ Die(c) \/ Collect(c)

Spec == Init /\ [][Next]_vars

\* Every goroutine that can run does, dialling ends because of ConnectTimeout,
\* and the application keeps picking connections.
FairSpec ==
  /\ Spec
  /\ \A f \in Fillers : WF_vars(fill(f))
  /\ \A c \in Conns : /\ WF_vars(connect(c)) /\ WF_vars(HandleError(c))
                      /\ WF_vars(CloseConn(c)) /\ WF_vars(Collect(c))
  /\ WF_vars(Pick) /\ WF_vars(removed /\ Close)

-------------------------------------------------------------------------------
(* Properties *)

\* connect waits for the mutex it holds: HandleError, called by the Close of a
\* connection that the pool no longer wants, when the socket's own Close fails.
SelfDeadlock == \E c \in Conns : cpc[c] = "relock"

\* After Close every connection is closed, also one that was being dialled,
\* unless connect blocks itself.
ClosedPoolDrains == closed ~> (SelfDeadlock \/ \A c \in Conns : life[c] # "open")

\* Once the host is reachable the pool fills up, although the fill that
\* HandleError starts may find another one running and give up.
PoolHeals == calm ~> (closed \/ Cardinality(conns) = Size)

\* The pool holds at most pool.size connections, although fill computes how many it
\* needs before it starts to connect and connections come and go while it does.  A dead
\* one leaves with its HandleError, unless it died before connect added it: connect
\* does not look, and HandleError came too early.
ConnsSound ==
  /\ Cardinality(conns) <= Size
  /\ \A c \in conns : life[c] = "dead" => handler[c] \/ c \in early

===============================================================================
