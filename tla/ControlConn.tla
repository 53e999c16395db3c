------------------------------ MODULE ControlConn -----------------------------
(***************************************************************************)
(* The control connection (control.go) and Session.Close (session.go): the *)
(* goroutine of NewSession that connects, the heartBeat goroutine, the     *)
(* HandleError calls of connections that die, and the goroutine that       *)
(* closes the session.  All but the last make connections, and they share  *)
(* the atomics state, reconnecting and conn.                               *)
(*                                                                         *)
(* The refresh debouncers are what RefreshDebouncer shows of them: a       *)
(* refreshNow is answered unless it comes after the flusher has ended.     *)
(***************************************************************************)
EXTENDS Naturals, FiniteSets

CONSTANTS
  Conns,          \* connection objects; one that nobody refers to is used again
  Starter,        \* the goroutine of NewSession
  HeartBeat,      \* the goroutine of heartBeat
  None

ASSUME DistinctAssumption ==
  Starter \notin Conns /\ HeartBeat \notin Conns /\ Starter # HeartBeat
  /\ None \notin Conns

\* The goroutines that run reconnect: a connection stands for the one in which
\* its closeWithError runs.
Procs == {Starter, HeartBeat} \cup Conns

VARIABLES
  state,          \* starting, started, closing
  reconnecting,   \* c.reconnecting
  conn,           \* c.conn
  initialized,    \* session.isInitialized
  life,           \* of a connection: none, open, dead
  pc,             \* where each goroutine is
  new,            \* the connection the goroutine is setting up
  cpc,            \* where Session.Close is
  schemaEnded,    \* the flusher of schemaRefresher has ended
  ringEnded,      \* the flusher of ringRefresher has ended
  raced,          \* history: a reconnection began before connect returned
  calm            \* from now on hosts are reachable and connections work

closeVars == <<cpc, schemaEnded, ringEnded>>
envVars == <<raced, calm>>
vars == <<state, reconnecting, conn, initialized, life, pc, new, closeVars, envVars>>

Init ==
  /\ state = "starting" /\ reconnecting = FALSE /\ conn = None
  /\ initialized = FALSE
  /\ life = [c \in Conns |-> "none"]
  /\ pc = [p \in Procs |-> IF p = Starter THEN "dial" ELSE "idle"]
  /\ new = [p \in Procs |-> None]
  /\ cpc = "idle" /\ schemaEnded = FALSE /\ ringEnded = FALSE
  /\ raced = FALSE /\ calm = FALSE

Goto(p, l) == pc' = [pc EXCEPT ![p] = l]

\* conn.Close(); it does not report an error to HandleError.
Closing(c) == life' = IF c \in Conns THEN [life EXCEPT ![c] = "dead"] ELSE life

-------------------------------------------------------------------------------
(* connect, and the loop of attemptReconnectToAnyOfHosts *)

\* The session's context is cancelled at the end of Close.
Cancelled == cpc = "done"

\* session.connect succeeds for one of the hosts.
Dial(p, c) ==
  /\ pc[p] = "dial"
  /\ ~Cancelled
  /\ life[c] = "none" /\ pc[c] = "idle"
  /\ life' = [life EXCEPT ![c] = "open"]
  /\ new' = [new EXCEPT ![p] = c]
  /\ Goto(p, "setup")
  /\ UNCHANGED <<state, reconnecting, conn, initialized, closeVars, envVars>>

\* setupConn: system.local, the ring and registerEvents.
SetUp(p) ==
  /\ pc[p] = "setup"
  /\ life[new[p]] = "open" /\ ~Cancelled
  /\ Goto(p, "store")
  /\ UNCHANGED <<state, reconnecting, conn, initialized, life, new, closeVars, envVars>>

\* It fails: the connection is closed and the next host is tried.
MutSetUpFails(p) ==
  /\ pc[p] = "setup"
  /\ calm => life[new[p]] = "dead" \/ Cancelled
  /\ new' = [new EXCEPT ![p] = None]
  /\ Goto(p, "dial")
  /\ UNCHANGED <<state, reconnecting, conn, initialized, life, closeVars, envVars>>
SetUpFails(p) ==
  /\ pc[p] = "setup"
  /\ calm => life[new[p]] = "dead" \/ Cancelled
  /\ Closing(new[p])
  /\ new' = [new EXCEPT ![p] = None]
  /\ Goto(p, "dial")
  /\ UNCHANGED <<state, reconnecting, conn, initialized, closeVars, envVars>>

\* c.conn.Store(ch); an initialized session refreshes its schema first of all.
Store(p) ==
  /\ pc[p] = "store"
  /\ conn' = new[p]
  /\ new' = [new EXCEPT ![p] = None]
  /\ Goto(p, IF initialized THEN "schema" ELSE "setUp")
  /\ UNCHANGED <<state, reconnecting, initialized, life, closeVars, envVars>>

\* refreshSchemaMetadata returns.
RefreshSchema(p) ==
  /\ pc[p] = "schema"
  /\ ~schemaEnded
  /\ Goto(p, "setUp")
  /\ UNCHANGED <<state, reconnecting, conn, initialized, life, new, closeVars, envVars>>

\* Session.init goes on after connect: go c.heartBeat(), and some time later the
\* session is initialized.
Connected ==
  /\ pc[Starter] = "setUp"
  /\ pc' = [pc EXCEPT ![Starter] = "started", ![HeartBeat] = "begin"]
  /\ UNCHANGED <<state, reconnecting, conn, initialized, life, new, closeVars, envVars>>

Initialize ==
  /\ pc[Starter] = "started"
  /\ initialized' = TRUE
  /\ Goto(Starter, "done")
  /\ UNCHANGED <<state, reconnecting, conn, life, new, closeVars, envVars>>

-------------------------------------------------------------------------------
(* heartBeat *)

\* The goroutine of a connection ends, heartBeat goes back to its select.
Rest(p) == IF p = HeartBeat THEN "sleep" ELSE "idle"

HeartBeatBegins ==
  /\ pc[HeartBeat] = "begin"
  /\ IF state = "starting" THEN state' = "started" /\ Goto(HeartBeat, "sleep")
                           ELSE Goto(HeartBeat, "done") /\ UNCHANGED state
  /\ UNCHANGED <<reconnecting, conn, initialized, life, new, closeVars, envVars>>

\* The OPTIONS request fails: always on a dead connection, otherwise it may.
\* If it is answered, the loop starts over.
MutBeatFails == FALSE
BeatFails == life[conn] = "dead" \/ ~calm

Beat ==
  /\ pc[HeartBeat] = "sleep"
  /\ BeatFails
  /\ Goto(HeartBeat, "reconnect")
  /\ UNCHANGED <<state, reconnecting, conn, initialized, life, new, closeVars, envVars>>

-------------------------------------------------------------------------------
(* HandleError and reconnect *)

\* The connection meets an error; closeWithError calls HandleError.
Die(c) ==
  /\ life[c] = "open" /\ pc[c] = "idle"
  /\ ~calm
  /\ life' = [life EXCEPT ![c] = "dead"]
  /\ Goto(c, "handle")
  /\ UNCHANGED <<state, reconnecting, conn, initialized, new, closeVars, envVars>>

HandleError(c) ==
  /\ pc[c] = "handle"
  /\ Goto(c, IF conn \notin {None, c} THEN "idle" ELSE "reconnect")
  /\ UNCHANGED <<state, reconnecting, conn, initialized, life, new, closeVars, envVars>>

\* if atomic.LoadInt32(&c.state) == controlConnClosing
CheckState(p) ==
  /\ pc[p] = "reconnect"
  /\ Goto(p, IF state = "closing" THEN Rest(p) ELSE "cas")
  /\ UNCHANGED <<state, reconnecting, conn, initialized, life, new, closeVars, envVars>>

TryReconnect(p) ==
  /\ pc[p] = "cas"
  /\ reconnecting' = TRUE
  /\ Goto(p, IF reconnecting THEN Rest(p) ELSE "attempt")
  /\ raced' = (raced \/ pc[Starter] \notin {"started", "done"})
  /\ UNCHANGED <<state, conn, initialized, life, new, closeVars, calm>>

\* attemptReconnect closes the old connection.
AttemptReconnect(p) ==
  /\ pc[p] = "attempt"
  /\ Closing(conn)
  /\ Goto(p, "dial")
  /\ UNCHANGED <<state, reconnecting, conn, initialized, new, closeVars, envVars>>

\* The deferred store when reconnect returns.
Reset == reconnecting' = FALSE

\* No host and no contact point can be reached: connect and reconnect give up.
GiveUp(p) ==
  /\ pc[p] = "dial"
  /\ ~calm \/ Cancelled
  /\ \/ p # Starter /\ Reset /\ Goto(p, Rest(p))
     \/ p = Starter /\ UNCHANGED reconnecting /\ Goto(p, "done")
  /\ UNCHANGED <<state, conn, initialized, life, new, closeVars, envVars>>

\* refreshRing returns, and with it reconnect.
RefreshRing(p) ==
  /\ pc[p] = "setUp" /\ p # Starter
  /\ ~ringEnded
  /\ Reset
  /\ Goto(p, Rest(p))
  /\ UNCHANGED <<state, conn, initialized, life, new, closeVars, envVars>>

-------------------------------------------------------------------------------
(* Session.Close; a session whose init failed is closed by NewSession. *)

CloseSession ==
  /\ cpc = "idle" /\ pc[Starter] = "done"
  /\ cpc' = "control"
  /\ schemaEnded' = TRUE
  /\ UNCHANGED <<state, reconnecting, conn, initialized, life, pc, new, ringEnded, envVars>>

\* close: the compare-and-swap, then the send on the unbuffered quit channel.
CloseControl ==
  /\ cpc = "control"
  /\ IF state = "started" THEN state' = "closing" /\ cpc' = "quit"
                          ELSE cpc' = "conn" /\ UNCHANGED state
  /\ UNCHANGED <<reconnecting, conn, initialized, life, pc, new, schemaEnded,
                 ringEnded, envVars>>

SendQuit ==
  /\ cpc = "quit" /\ pc[HeartBeat] = "sleep"
  /\ Goto(HeartBeat, "done")
  /\ cpc' = "conn"
  /\ UNCHANGED <<state, reconnecting, conn, initialized, life, new, schemaEnded,
                 ringEnded, envVars>>

CloseConn ==
  /\ cpc = "conn"
  /\ Closing(conn)
  /\ cpc' = "ring"
  /\ UNCHANGED <<state, reconnecting, conn, initialized, pc, new, schemaEnded,
                 ringEnded, envVars>>

\* ringRefresher.stop() and s.cancel().
StopRing ==
  /\ cpc = "ring"
  /\ ringEnded' = TRUE
  /\ cpc' = "done"
  /\ UNCHANGED <<state, reconnecting, conn, initialized, life, pc, new, schemaEnded, envVars>>

-------------------------------------------------------------------------------
\* Nobody refers to the connection any more; one that is still open is out of
\* everybody's sight.
Collect(c) ==
  /\ life[c] # "none" /\ pc[c] = "idle"
  /\ conn # c /\ \A p \in Procs : new[p] # c
  /\ life' = [life EXCEPT ![c] = "none"]
  /\ UNCHANGED <<state, reconnecting, conn, initialized, pc, new, closeVars, envVars>>

Settle ==
  /\ ~calm
  /\ calm' = TRUE
  /\ UNCHANGED <<state, reconnecting, conn, initialized, life, pc, new, closeVars, raced>>

setupConn(p) == SetUp(p) \/ SetUpFails(p) \/ Store(p) \/ RefreshSchema(p)

reconnect(p) ==
  \/ CheckState(p) \/ TryReconnect(p) \/ AttemptReconnect(p)
  \/ (\E c \in Conns : Dial(p, c)) \/ GiveUp(p) \/ setupConn(p) \/ RefreshRing(p)

init == Connected \/ Initialize

heartBeat == HeartBeatBegins \/ Beat

Close == CloseControl \/ SendQuit \/ CloseConn \/ StopRing

Next ==
  \/ init \/ heartBeat \/ CloseSession \/ Close \/ Settle
  \/ \E p \in Procs : reconnect(p)
  \/ \E c \in Conns : Die(c) \/ HandleError(c) \/ Collect(c)

Spec == Init /\ [][Next]_vars

\* Goroutines run; dials and requests end, with their timeouts at the latest.
FairSpec ==
  /\ Spec
  /\ WF_vars(init) /\ WF_vars(heartBeat)
  /\ WF_vars(CloseControl \/ CloseConn \/ StopRing) /\ SF_vars(SendQuit)
  /\ \A p \in Procs : WF_vars(reconnect(p))
  /\ \A c \in Conns : WF_vars(HandleError(c)) /\ WF_vars(Collect(c))

-------------------------------------------------------------------------------
(* Properties *)

\* The goroutines inside attemptReconnect or the refresh after it.
Reconnecting == {p \in Procs \ {Starter} :
                   pc[p] \in {"attempt", "dial", "setup", "store", "schema", "setUp"}}

\* The connections somebody can still close.
Known == {conn} \cup {new[p] : p \in Procs}

\* One goroutine reconnects at a time, and c.reconnecting is set exactly while it does,
\* on its error paths too.  No open control connection is forgotten, its events reaching
\* the session for ever, unless a reconnection overtook the connect of NewSession:
\* HandleError starts one when the very first connection dies while it is set up.
OneControlConn ==
  /\ Cardinality(Reconnecting) <= 1 /\ (reconnecting <=> Reconnecting # {})
  /\ ~raced => \A c \in Conns : life[c] = "open" => c \in Known

\* A control connection that fails is replaced once a host can be reached,
\* although the HandleError of a connection that dies during the reconnection
\* that made it is dropped.
ControlHeals ==
  (calm /\ initialized) ~> (cpc # "idle" \/ (conn # None /\ life[conn] = "open"))

\* "could not refresh the schema because stop was requested": the reconnection
\* that Close overtakes gives up, and so Close returns.
CloseReturns == cpc = "control" ~> cpc = "done"

===============================================================================
