--------------------------- MODULE RefreshDebouncer ---------------------------
(***************************************************************************)
(* refreshDebouncer and errorBroadcaster (host_source.go), behind the ring *)
(* and the schema refreshes: debounce asks for a refresh after a while,    *)
(* refreshNow for one at once and for its result, stop ends the flusher.   *)
(*                                                                         *)
(* A broadcaster is the set of its listeners: refreshNow makes one and     *)
(* registers its caller under the same lock, so it is nil iff it has none. *)
(***************************************************************************)
EXTENDS Naturals

CONSTANT Callers  \* goroutines that call refreshNow and wait for the result

VARIABLES
  stopped,        \* d.stopped
  broadcaster,    \* the listeners of d.broadcaster
  refreshNowCh,   \* an element is in the channel, which has capacity 1
  timer,          \* idle, armed, fired (a tick is in timer.C)
  quit,           \* the quit channel is closed
  fpc,            \* of the flusher: select, awake, refresh, done
  cur,            \* curBroadcaster
  caller,         \* of a caller: idle, waiting, result, refused (closed channel)
  spc,            \* of stop: idle, close, wait, done
  fresh,          \* history: a refresh began after the caller's request
  owed,           \* history: a debounced request no refresh has begun for
  quiet           \* from now on no event asks for a refresh

flushVars == <<timer, fpc, cur>>
stopVars == <<stopped, quit, spc>>
debouncerVars == <<stopVars, broadcaster, refreshNowCh, flushVars, caller, fresh, owed, quiet>>

DebouncerInit ==
  /\ stopped = FALSE /\ quit = FALSE /\ spc = "idle"
  /\ broadcaster = {} /\ refreshNowCh = FALSE
  /\ timer = "idle" /\ fpc = "select" /\ cur = {}
  /\ caller = [c \in Callers |-> "idle"]
  /\ fresh = [c \in Callers |-> FALSE]
  /\ owed = FALSE /\ quiet = FALSE

-------------------------------------------------------------------------------
MutReset == IF fpc = "refresh" THEN timer ELSE "armed"
Reset == "armed"

\* timer.Reset discards a tick that was not received.
debounce ==
  /\ ~quiet
  /\ ~stopped
  /\ timer' = Reset
  /\ owed' = TRUE
  /\ UNCHANGED <<stopVars, broadcaster, refreshNowCh, fpc, cur, caller, fresh, quiet>>

\* A caller joins the broadcaster; the first one also asks for the refresh.
Ask == refreshNowCh' = (refreshNowCh \/ broadcaster = {})

refreshNow(c) ==
  /\ caller[c] = "idle"
  /\ Ask
  /\ broadcaster' = broadcaster \cup {c}
  /\ caller' = [caller EXCEPT ![c] = "waiting"]
  /\ fresh' = [fresh EXCEPT ![c] = FALSE]
  /\ UNCHANGED <<stopVars, flushVars, owed, quiet>>

\* The caller has its result and may come again.
Received(c) ==
  /\ caller[c] \in {"result", "refused"}
  /\ caller' = [caller EXCEPT ![c] = "idle"]
  /\ UNCHANGED <<stopVars, broadcaster, refreshNowCh, flushVars, fresh, owed, quiet>>

Quieten ==
  /\ ~quiet
  /\ quiet' = TRUE
  /\ UNCHANGED <<stopVars, broadcaster, refreshNowCh, flushVars, caller, fresh, owed>>

TimerFires ==
  /\ timer = "armed"
  /\ timer' = "fired"
  /\ UNCHANGED <<stopVars, broadcaster, refreshNowCh, fpc, cur, caller, fresh, owed, quiet>>

-------------------------------------------------------------------------------
(* flusher *)

\* The select: a request, a tick or quit wakes the flusher.
Wake ==
  /\ fpc = "select"
  /\ \/ refreshNowCh /\ refreshNowCh' = FALSE /\ UNCHANGED timer
     \/ timer = "fired" /\ timer' = "idle" /\ UNCHANGED refreshNowCh
     \/ quit /\ UNCHANGED <<refreshNowCh, timer>>
  /\ fpc' = "awake"
  /\ UNCHANGED <<stopVars, broadcaster, cur, caller, fresh, owed, quiet>>

\* The listeners in L receive a.
Tell(L, a) == caller' = [c \in Callers |-> IF c \in L THEN a ELSE caller[c]]

\* d.stopped: the listeners' channels are closed and the flusher ends.
FlusherEnds ==
  /\ fpc = "awake" /\ stopped
  /\ Tell(broadcaster, "refused")
  /\ broadcaster' = {}
  /\ timer' = "idle"
  /\ fpc' = "done"
  /\ UNCHANGED <<stopVars, refreshNowCh, cur, fresh, owed, quiet>>

\* The requests are cleared under the lock and the refresh begins.
Refresh ==
  /\ fpc = "awake" /\ ~stopped
  /\ refreshNowCh' = FALSE
  /\ timer' = "idle"
  /\ cur' = broadcaster
  /\ broadcaster' = {}
  /\ fpc' = "refresh"
  /\ fresh' = [c \in Callers |-> caller[c] = "waiting" \/ fresh[c]]
  /\ owed' = FALSE
  /\ UNCHANGED <<stopVars, caller, quiet>>

\* refreshFn returned; its error goes to the listeners taken before.
MutTaken == cur \cup broadcaster
Taken == cur

Broadcast ==
  /\ fpc = "refresh"
  /\ Tell(Taken, "result")
  /\ cur' = {}
  /\ fpc' = "select"
  /\ UNCHANGED <<stopVars, broadcaster, refreshNowCh, timer, fresh, owed, quiet>>

-------------------------------------------------------------------------------
(* stop *)

Stop ==
  /\ spc = "idle"
  /\ stopped' = TRUE
  /\ spc' = "close"
  /\ UNCHANGED <<quit, broadcaster, refreshNowCh, flushVars, caller, fresh, owed, quiet>>

CloseQuit ==
  /\ spc = "close"
  /\ quit' = TRUE
  /\ spc' = "wait"
  /\ UNCHANGED <<stopped, broadcaster, refreshNowCh, flushVars, caller, fresh, owed, quiet>>

\* <-d.done
StopReturn ==
  /\ spc = "wait" /\ fpc = "done"
  /\ spc' = "done"
  /\ UNCHANGED <<stopped, quit, broadcaster, refreshNowCh, flushVars, caller, fresh, owed, quiet>>

-------------------------------------------------------------------------------
flusher == Wake \/ FlusherEnds \/ Refresh \/ Broadcast

stop == Stop \/ CloseQuit \/ StopReturn

DebouncerNext ==
  \/ debounce \/ Quieten \/ TimerFires \/ flusher \/ stop
  \/ \E c \in Callers : refreshNow(c) \/ Received(c)

DebouncerSpec == DebouncerInit /\ [][DebouncerNext]_debouncerVars

\* Goroutines run, the timer fires and refreshFn returns.
FairDebouncerSpec ==
  /\ DebouncerSpec
  /\ WF_debouncerVars(flusher) /\ WF_debouncerVars(TimerFires)
  /\ WF_debouncerVars(CloseQuit \/ StopReturn)

-------------------------------------------------------------------------------
(* Properties *)

\* The result a caller of refreshNow gets is that of a refresh that began after
\* its request, never of one that was running already.
FreshResult == \A c \in Callers : caller[c] = "result" => fresh[c]

\* Every request is served.  A caller that the flusher can still see is answered, by a
\* refresh or by the end of the flusher when stop overtakes the request.  A debounced
\* request leads to a refresh that begins after it, also if it comes while one is
\* running, unless the debouncer is stopped; only once events cease, though: each of
\* them starts the timer again.
RequestsServed ==
  /\ \A c \in Callers : (caller[c] = "waiting" /\ fpc # "done") ~> caller[c] # "waiting"
  /\ (owed /\ quiet) ~> (~owed \/ stopped)

===============================================================================
