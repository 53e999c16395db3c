-------------------------------- MODULE Cluster -------------------------------
(***************************************************************************)
(* What a session knows of its cluster: the ring (ring.go), the pools by   *)
(* host id (policyConnPool), the state of hosts and the list of the host   *)
(* selection policy, and the goroutines that change them: refreshRing,     *)
(* the handlers of node events, reconnectDownedHosts, the reports of the   *)
(* pools, and the control connection.                                      *)
(*                                                                         *)
(* A HostInfo is its id and its nodeToNodeAddress, which events are about  *)
(* and the ring's index has; the driver connects to its ConnectAddress,    *)
(* which may be another one.  A host that moves is a new one.              *)
(* A pool is what HostConnPool shows of it, with one connection.  A ring   *)
(* refresh that is asked for begins afterwards, as RefreshDebouncer shows. *)
(***************************************************************************)
EXTENDS Naturals, Sequences, Functions

CONSTANTS
  IDs, Addrs, None,
  ConnectAddress,   \* by nodeToNodeAddress: where the driver connects to the node
  First, Second,    \* the nodes' addresses by id: at first, and what may follow
  Flaky,            \* the addresses that events and failures are about
  NumPools,         \* hostConnPool objects; those nobody refers to are reused
  NumWorkers,       \* bound: goroutines started by go statements at one time
  EventBufferSize,  \* eventBufferSize
  MaxTroubles       \* bound: status events, failed dials and queries, lost connections,
                    \* and control connections to another node, all together

Hosts == IDs \X Addrs
ID(h) == h[1]
Addr(h) == h[2]
ConnectAddr(h) == ConnectAddress[Addr(h)]
HostsOf(t) == {<<i, t[i]>> : i \in {j \in IDs : t[j] # None}}

Pools == 1 .. NumPools
Workers == 1 .. NumWorkers
Refresher == 0                       \* the goroutine of the ring refreshes
Reconnector == NumWorkers + 1        \* that of reconnectDownedHosts
Procs == 0 .. NumWorkers + 1

\* The nodes change once, so that no host comes back as it was: its id and its
\* address identify it.  At first no two nodes share an address, and there is a
\* pool for each.
ASSUME TablesAssumption ==
  /\ First \in [IDs -> Addrs \cup {None}] /\ Second \subseteq [IDs -> Addrs \cup {None}]
  /\ \A i, j \in IDs : First[i] = First[j] /\ First[i] # None => i = j
  /\ Injection(HostsOf(First), Pools) # {}
  /\ {NumPools, NumWorkers, EventBufferSize, MaxTroubles} \subseteq Nat
  /\ ConnectAddress \in [Addrs -> Addrs] /\ Flaky \subseteq Addrs
  /\ None \notin IDs \cup Addrs \cup Hosts \cup Nat

VARIABLES
  ring, ips,        \* ring.hosts and ring.hostIPToUUID
  up,               \* the hosts whose state is NodeUp
  listed,           \* the policy's list: at most one host for each ConnectAddress
  pools,            \* policyConnPool.hostConnPools
  pool,             \* the pools: host, state, whether connected, filling
  g,                \* the goroutines: what each does, where it is, its locals
  rows, prev,       \* hosts and prevHosts of refreshRing
  wanted,           \* a ring refresh has been asked for
  events,           \* eventDebouncer.events
  table,            \* the nodes of the cluster
  faults, sent,     \* faults and status events so far
  missed,           \* history: a refresh was not made, or given up half way
  overtaken,        \* history: ids marked up, or given a pool, during a removal
  takenOver,        \* history: addresses that passed from one id to another
  late              \* history: ids with a pool made for a host not in the ring

ringVars == <<ring, ips>>
poolVars == <<pools, pool>>
refreshVars == <<rows, prev, wanted>>
envVars == <<table, faults, sent>>
histVars == <<missed, overtaken, takenOver, late>>
vars == <<ringVars, up, listed, poolVars, g, refreshVars, events, envVars, histVars>>

Free == [host |-> None, st |-> "free", full |-> FALSE, filling |-> FALSE]
Idle == [job |-> "idle", pc |-> "idle", host |-> None, down |-> None,
         pool |-> None, todo |-> {}]

\* The session after init, connected to every node.
Init ==
  /\ table = First
  /\ ring = [i \in IDs |-> IF First[i] = None THEN None ELSE <<i, First[i]>>]
  /\ ips = [a \in Addrs |->
       IF \E i \in IDs : First[i] = a THEN CHOOSE i \in IDs : First[i] = a ELSE None]
  /\ up = Hosts                      \* a new HostInfo is NodeUp
  /\ listed = [a \in Addrs |->
       IF \E h \in HostsOf(First) : ConnectAddr(h) = a
         THEN CHOOSE h \in HostsOf(First) : ConnectAddr(h) = a ELSE None]
  /\ \E f \in {CHOOSE f \in Injection(HostsOf(First), Pools) : TRUE} :
       /\ pool = [p \in Pools |->
            IF \E h \in HostsOf(First) : f[h] = p
              THEN [host |-> CHOOSE h \in HostsOf(First) : f[h] = p,
                    st |-> "open", full |-> TRUE, filling |-> FALSE]
              ELSE Free]
       /\ pools = [i \in IDs |-> IF ring[i] = None THEN None ELSE f[ring[i]]]
  /\ g = [x \in Procs |-> Idle]
  /\ rows = {} /\ prev = {} /\ wanted = FALSE
  /\ events = <<>>
  /\ faults = 0 /\ sent = 0
  /\ missed = FALSE /\ overtaken = {} /\ takenOver = {} /\ late = {}

-------------------------------------------------------------------------------
(* Goroutines *)

Goto(x, l) == g' = [g EXCEPT ![x].pc = l]

\* The goroutines are gs, and a go statement starts one more.
Go(gs, rec) ==
  \E w \in Workers :
    /\ gs[w] = Idle /\ \A v \in Workers : gs[v] = Idle => w <= v
    /\ g' = [gs EXCEPT ![w] = rec]

Job(j, l, h) == [Idle EXCEPT !.job = j, !.pc = l, !.host = h]

\* handleNodeEvent with todo left to do.
Batch(todo) == IF todo = {} THEN Idle
               ELSE [Job("events", "batch", None) EXCEPT !.todo = todo]

\* What x is when a call of addHost, with all of its fill, or a handleNodeDown
\* returns.
Resumed(x) ==
  LET r == [g[x] EXCEPT !.pool = None, !.down = None] IN
  CASE r.job = "fill" -> Idle
    [] r.job = "reconnect" -> [r EXCEPT !.pc = "next", !.host = None]
    [] r.job = "events" /\ g[x].host = None -> Batch(r.todo)
    [] OTHER -> [r EXCEPT !.pc = "policyAdd"]
Resume(x) == g' = [g EXCEPT ![x] = Resumed(x)]

\* What it is after a startPoolFill.
Filled(x) ==
  CASE g[x].job = "start" -> Idle
    [] g[x].job = "events" -> Batch(g[x].todo)
    [] g[x].job = "refresh" -> [g[x] EXCEPT !.pc = "rows", !.host = None]

\* A dial or a query fails, or a connection is lost; Trouble may still come.
Trouble == faults + sent < MaxTroubles
Fault == Trouble /\ faults' = faults + 1

-------------------------------------------------------------------------------
(* ring.go *)

\* The part of addHostIfMissing for a host that is missing.
AddToRing(h) ==
  /\ ring' = [ring EXCEPT ![ID(h)] = h]
  /\ ips' = [ips EXCEPT ![Addr(h)] = ID(h)]
  /\ takenOver' = IF ips[Addr(h)] = None THEN takenOver ELSE takenOver \cup {Addr(h)}

MutRemoveFromRing(i) == ring' = [ring EXCEPT ![i] = None] /\ UNCHANGED ips
RemoveFromRing(i) ==
  /\ ips' = IF ring[i] = None THEN ips ELSE [ips EXCEPT ![Addr(ring[i])] = None]
  /\ ring' = [ring EXCEPT ![i] = None]

-------------------------------------------------------------------------------
(* The policy's cowHostList, which compares ConnectAddresses *)

AddHost(h) == listed' = [listed EXCEPT ![ConnectAddr(h)] = IF @ = None THEN h ELSE @]
RemoveHost(h) == listed' = [listed EXCEPT ![ConnectAddr(h)] = None]

-------------------------------------------------------------------------------
(* policyConnPool *)

\* The pools are ps; one that was removed, and that no goroutine refers to, is
\* collected: nobody sees when it is closed.
SetPools(ps) ==
  pool' = [p \in Pools |->
    IF ps[p].st # "open" /\ \A x \in Procs : g'[x].pool # p THEN Free ELSE ps[p]]

\* The host has left the ring, or is about to.
Leaving(h) ==
  ring[ID(h)] # h \/ (g[Refresher].pc = "rmRing" /\ ID(g[Refresher].host) = ID(h))

\* addHost up to its fill.
addHost(x) ==
  /\ g[x].pc = "addHost"
  /\ LET h == g[x].host IN
       IF pools[ID(h)] # None
         THEN /\ g' = [g EXCEPT ![x].pc = "fill", ![x].pool = pools[ID(h)]]
              /\ UNCHANGED <<poolVars, late>>
         ELSE \E p \in Pools :
              /\ pool[p] = Free /\ \A q \in Pools : pool[q] = Free => p <= q
              /\ pools' = [pools EXCEPT ![ID(h)] = p]
              /\ pool' = [pool EXCEPT ![p] = [Free EXCEPT !.host = h, !.st = "open"]]
              /\ g' = [g EXCEPT ![x].pc = "fill", ![x].pool = p]
              /\ late' = IF Leaving(h) THEN late \cup {ID(h)} ELSE late
  /\ UNCHANGED <<ringVars, up, listed, refreshVars, events, envVars, missed,
                 overtaken, takenOver>>

\* The pool leaves the map; go pool.Close().
removeHost(i) ==
  IF pools[i] = None THEN UNCHANGED poolVars
  ELSE /\ pools' = [pools EXCEPT ![i] = None]
       /\ SetPools([pool EXCEPT ![pools[i]].st = "closing"])

ClosePool(p) ==
  /\ pool[p].st = "closing"
  /\ UNCHANGED g
  /\ SetPools([pool EXCEPT ![p].st = "closed", ![p].full = FALSE])
  /\ UNCHANGED <<ringVars, up, listed, pools, refreshVars, events, envVars, histVars>>

-------------------------------------------------------------------------------
(* hostConnPool.fill *)

MayFill(p) == pool[p].st # "closed" /\ ~pool[p].filling /\ ~pool[p].full

fill(x) ==
  /\ g[x].pc = "fill"
  /\ IF MayFill(g[x].pool)
       THEN pool' = [pool EXCEPT ![g[x].pool].filling = TRUE] /\ Goto(x, "dial")
       ELSE Resume(x) /\ SetPools(pool)
  /\ UNCHANGED <<ringVars, up, listed, pools, refreshVars, events, envVars, histVars>>

\* The connection is made; a closed pool does not keep it.  The session is told
\* by a goroutine of its own.  The end of filling, which the code leaves to one
\* more goroutine, is part of the step: HostConnPool has it apart.
Connect(x) ==
  /\ g[x].pc = "dial"
  /\ Go([g EXCEPT ![x] = Resumed(x)], Job("report", "setUp", pool[g[x].pool].host))
  /\ SetPools([pool EXCEPT ![g[x].pool].full = (pool[g[x].pool].st # "closed"),
                           ![g[x].pool].filling = FALSE])
  /\ UNCHANGED <<ringVars, up, listed, pools, refreshVars, events, envVars, histVars>>

ConnectFails(x) ==
  /\ g[x].pc = "dial"
  /\ Addr(pool[g[x].pool].host) \in Flaky
  /\ Fault
  /\ Goto(x, "stopped")
  /\ UNCHANGED <<ringVars, up, listed, poolVars, refreshVars, events, table, sent, histVars>>

\* After the pause, with no connection in the pool.  handleNodeDown gets the ConnectAddress,
\* and looks it up in the index of nodeToNodeAddresses.
fillingStopped(x) ==
  /\ g[x].pc = "stopped"
  /\ g' = [g EXCEPT ![x].pc = "down", ![x].down = ConnectAddr(pool[g[x].pool].host),
                    ![x].pool = None]
  /\ SetPools([pool EXCEPT ![g[x].pool].filling = FALSE])
  /\ UNCHANGED <<ringVars, up, listed, pools, refreshVars, events, envVars, histVars>>

-------------------------------------------------------------------------------
(* handleNodeDown, handleNodeConnected, startPoolFill *)

MutSetDown(h) == UNCHANGED up
SetDown(h) == up' = up \ {h}

\* getHostByIP and setState(NodeDown).
handleNodeDown(x) ==
  /\ g[x].pc = "down"
  /\ IF ips[g[x].down] = None
       THEN Resume(x) /\ UNCHANGED up
       ELSE \E h \in {ring[ips[g[x].down]]} :
            /\ SetDown(h)
            /\ g' = [g EXCEPT ![x].pc = "downPolicy", ![x].down = h]
  /\ UNCHANGED <<ringVars, listed, poolVars, refreshVars, events, envVars, histVars>>

DownPolicy(x) ==
  /\ g[x].pc = "downPolicy"
  /\ RemoveHost(g[x].down)
  /\ Goto(x, "downPool")
  /\ UNCHANGED <<ringVars, up, poolVars, refreshVars, events, envVars, histVars>>

DownPool(x) ==
  /\ g[x].pc = "downPool"
  /\ Resume(x)
  /\ \E i \in {ID(g[x].down)} :
       /\ removeHost(i)
       /\ overtaken' = IF pools[i] # None /\ ring[i] # g[x].down
                         THEN overtaken \cup {i} ELSE overtaken
  /\ UNCHANGED <<ringVars, up, listed, refreshVars, events, envVars, missed, takenOver, late>>

\* The host's pool is gone, or about to be taken from it.
Removing(h) ==
  \/ pools[ID(h)] = None
  \/ \E x \in Procs : g[x].pc \in {"downPolicy", "downPool"} /\ ID(g[x].down) = ID(h)

handleNodeConnected(x) ==
  /\ g[x].pc = "setUp"
  /\ up' = up \cup {g[x].host}
  /\ overtaken' = IF Removing(g[x].host) THEN overtaken \cup {ID(g[x].host)} ELSE overtaken
  /\ Goto(x, "policyUp")
  /\ UNCHANGED <<ringVars, listed, poolVars, refreshVars, events, envVars,
                 missed, takenOver, late>>

PolicyUp(x) ==
  /\ g[x].pc = "policyUp"
  /\ AddHost(g[x].host)
  /\ g' = [g EXCEPT ![x] = Idle]
  /\ UNCHANGED <<ringVars, up, poolVars, refreshVars, events, envVars, histVars>>

\* The second half of startPoolFill.
PolicyAdd(x) ==
  /\ g[x].pc = "policyAdd"
  /\ AddHost(g[x].host)
  /\ g' = [g EXCEPT ![x] = Filled(x)]
  /\ UNCHANGED <<ringVars, up, poolVars, refreshVars, events, envVars, histVars>>

-------------------------------------------------------------------------------
(* eventDebouncer, handleNodeEvent, handleNodeUp *)

TopologyChange == [addr |-> None, change |-> "TOPOLOGY"]

debounce(e) ==
  /\ events' = IF Len(events) < EventBufferSize THEN Append(events, e) ELSE events
  /\ missed' = (missed \/ (Len(events) = EventBufferSize /\ e = TopologyChange))

\* What handleNodeEvent makes of a batch: the last status of each address, and
\* whether the topology changed.
Latest(es) ==
  {es[n] : n \in {m \in 1 .. Len(es) :
     es[m] = TopologyChange \/ \A k \in m + 1 .. Len(es) : es[k].addr # es[m].addr}}

flush ==
  /\ events # <<>>
  /\ Go(g, Batch(Latest(events)))
  /\ events' = <<>>
  /\ UNCHANGED <<ringVars, up, listed, poolVars, refreshVars, envVars, histVars>>

\* The topology first, and then the addresses in any order.
Topology(x) ==
  /\ g[x].pc = "batch" /\ TopologyChange \in g[x].todo
  /\ wanted' = TRUE
  /\ g' = [g EXCEPT ![x] = Batch(@.todo \ {TopologyChange})]
  /\ UNCHANGED <<ringVars, up, listed, poolVars, rows, prev, events, envVars, histVars>>

handleNodeEvent(x) ==
  /\ g[x].pc = "batch" /\ TopologyChange \notin g[x].todo
  /\ \E e \in g[x].todo :
       \E r \in {[g[x] EXCEPT !.todo = @ \ {e}]} :
         \/ /\ e.change = "UP" /\ ips[e.addr] = None
            /\ wanted' = TRUE
            /\ g' = [g EXCEPT ![x] = Batch(r.todo)]
         \/ /\ e.change = "UP" /\ ips[e.addr] # None
            /\ g' = [g EXCEPT ![x] = [r EXCEPT !.pc = "addHost", !.host = ring[ips[e.addr]]]]
            /\ UNCHANGED wanted
         \/ /\ e.change = "DOWN"
            /\ g' = [g EXCEPT ![x] = [r EXCEPT !.pc = "down", !.down = e.addr]]
            /\ UNCHANGED wanted
  /\ UNCHANGED <<ringVars, up, listed, poolVars, rows, prev, events, envVars, histVars>>

-------------------------------------------------------------------------------
(* refreshRing *)

refresher == g[Refresher]
SetRefresh(l, h) == g' = [g EXCEPT ![Refresher] = Job("refresh", l, h)]
Gone(i) == {h \in prev : ID(h) # i}

\* GetHosts.
GetHosts ==
  /\ refresher = Idle /\ wanted
  /\ wanted' = FALSE
  /\ \/ /\ rows' = HostsOf(table) /\ missed' = FALSE
        /\ SetRefresh("snapshot", None) /\ UNCHANGED faults
     \/ /\ Fault /\ missed' = TRUE
        /\ UNCHANGED <<rows, g>>
  /\ UNCHANGED <<ringVars, up, listed, poolVars, prev, events, table, sent,
                 overtaken, takenOver, late>>

Snapshot ==
  /\ refresher.pc = "snapshot"
  /\ prev' = {ring[i] : i \in {j \in IDs : ring[j] # None}}
  /\ SetRefresh("rows", None)
  /\ UNCHANGED <<ringVars, up, listed, poolVars, rows, wanted, events, envVars, histVars>>

\* It returns an error in the middle.
GivesUp ==
  /\ missed' = TRUE
  /\ rows' = {} /\ prev' = {}
  /\ g' = [g EXCEPT ![Refresher] = Idle]
  /\ UNCHANGED <<ringVars, overtaken, takenOver, late>>

\* addHostIfMissing adds the host; startPoolFill.
Added(h) ==
  /\ AddToRing(h)
  /\ rows' = rows \ {h} /\ prev' = Gone(ID(h))
  /\ SetRefresh("addHost", h)
  /\ UNCHANGED <<missed, overtaken, late>>

Row(h) ==
  /\ refresher.pc = "rows" /\ h \in rows
  /\ \/ ring[ID(h)] = None /\ Added(h)
     \/ ring[ID(h)] # None /\ Gone(ID(h)) = prev /\ GivesUp
     \/ /\ ring[ID(h)] # None /\ h \in prev
        /\ rows' = rows \ {h} /\ prev' = prev \ {h}
        /\ UNCHANGED <<ringVars, g, histVars>>
     \/ /\ ring[ID(h)] # None /\ h \notin prev
        /\ \E k \in prev : ID(k) = ID(h) /\ SetRefresh("rmPolicy", k)
        /\ UNCHANGED <<ringVars, rows, prev, histVars>>
  /\ UNCHANGED <<up, listed, poolVars, wanted, events, envVars>>

MutLeftover ==
  /\ refresher.pc = "rows" /\ rows = {}
  /\ \/ /\ \E h \in prev : prev' = prev \ {h} /\ SetRefresh("rmPolicy", h)
        /\ UNCHANGED wanted
     \/ /\ prev = {} /\ g' = [g EXCEPT ![Refresher] = Idle]
        /\ wanted' = FALSE /\ UNCHANGED prev
  /\ UNCHANGED <<ringVars, up, listed, poolVars, rows, events, envVars, histVars>>
\* A host that is in no row, or the end.
Leftover ==
  /\ refresher.pc = "rows" /\ rows = {}
  /\ \/ \E h \in prev : prev' = prev \ {h} /\ SetRefresh("rmPolicy", h)
     \/ prev = {} /\ g' = [g EXCEPT ![Refresher] = Idle] /\ UNCHANGED prev
  /\ UNCHANGED <<ringVars, up, listed, poolVars, rows, wanted, events, envVars, histVars>>

\* Session.removeHost, in three steps.
RmPolicy ==
  /\ refresher.pc = "rmPolicy"
  /\ RemoveHost(refresher.host)
  /\ Goto(Refresher, "rmPool")
  /\ UNCHANGED <<ringVars, up, poolVars, refreshVars, events, envVars, histVars>>

MutRmPool ==
  /\ refresher.pc = "rmPool"
  /\ Goto(Refresher, "rmRing")
  /\ UNCHANGED <<ringVars, up, listed, poolVars, refreshVars, events, envVars, histVars>>
RmPool ==
  /\ refresher.pc = "rmPool"
  /\ Goto(Refresher, "rmRing")
  /\ removeHost(ID(refresher.host))
  /\ UNCHANGED <<ringVars, up, listed, refreshVars, events, envVars, histVars>>

RmRing ==
  /\ refresher.pc = "rmRing"
  /\ RemoveFromRing(ID(refresher.host))
  /\ Goto(Refresher, IF \E h \in rows : ID(h) = ID(refresher.host) THEN "again" ELSE "rows")
  /\ UNCHANGED <<up, listed, poolVars, refreshVars, events, envVars, histVars>>

\* The second addHostIfMissing of a host whose address has changed.
Again ==
  /\ refresher.pc = "again"
  /\ \E h \in rows :
       /\ ID(h) = ID(refresher.host)
       /\ IF ring[ID(h)] = None THEN Added(h) ELSE GivesUp
  /\ UNCHANGED <<up, listed, poolVars, wanted, events, envVars>>

refreshRing ==
  \/ GetHosts \/ Snapshot \/ (\E h \in rows : Row(h)) \/ Leftover
  \/ RmPolicy \/ RmPool \/ RmRing \/ Again

-------------------------------------------------------------------------------
(* reconnectDownedHosts *)

RingHosts == {ring[i] : i \in {j \in IDs : ring[j] # None}}

\* The ticker; when every host is up nothing comes of it.
Tick ==
  /\ g[Reconnector] = Idle
  /\ RingHosts \ up # {}
  /\ g' = [g EXCEPT ![Reconnector] =
             [Job("reconnect", "next", None) EXCEPT !.todo = RingHosts]]
  /\ UNCHANGED <<ringVars, up, listed, poolVars, refreshVars, events, envVars, histVars>>

NextHost ==
  /\ g[Reconnector].pc = "next"
  /\ \E todo \in {g[Reconnector].todo \ up} :
       \/ todo = {} /\ g' = [g EXCEPT ![Reconnector] = Idle]
       \/ \E h \in todo : g' = [g EXCEPT ![Reconnector].todo = todo \ {h},
                                         ![Reconnector].pc = "addHost",
                                         ![Reconnector].host = h]
  /\ UNCHANGED <<ringVars, up, listed, poolVars, refreshVars, events, envVars, histVars>>

-------------------------------------------------------------------------------
(* The control connection, the connections, the cluster *)

\* controlConn.setupConn on another node, after which the ring is refreshed.
setupConn(h) ==
  /\ h \in HostsOf(table)
  /\ Fault
  /\ IF ring[ID(h)] = None
       THEN AddToRing(h) /\ Go(g, Job("start", "addHost", h))
       ELSE UNCHANGED <<ringVars, takenOver>> /\ Go(g, Job("start", "addHost", ring[ID(h)]))
  /\ wanted' = TRUE
  /\ UNCHANGED <<up, listed, poolVars, rows, prev, events, table, sent, missed,
                 overtaken, late>>

\* hostConnPool.HandleError.
HandleError(p) ==
  /\ pool[p].st = "open" /\ pool[p].full /\ Addr(pool[p].host) \in Flaky
  /\ Fault
  /\ pool' = [pool EXCEPT ![p].full = FALSE]
  /\ Go(g, [Job("fill", "fill", None) EXCEPT !.pool = p])
  /\ UNCHANGED <<ringVars, up, listed, pools, refreshVars, events, table, sent, histVars>>

\* A node joins, leaves, moves or is replaced.
Change ==
  /\ table = First /\ table' \in Second
  /\ debounce(TopologyChange)
  /\ UNCHANGED <<ringVars, up, listed, poolVars, g, refreshVars, faults, sent,
                 overtaken, takenOver, late>>

Status(a, s) ==
  /\ Trouble
  /\ sent' = sent + 1
  /\ debounce([addr |-> a, change |-> s])
  /\ UNCHANGED <<ringVars, up, listed, poolVars, g, refreshVars, table, faults,
                 overtaken, takenOver, late>>

-------------------------------------------------------------------------------
startPoolFill(x) ==
  \/ addHost(x) \/ fill(x) \/ Connect(x) \/ ConnectFails(x) \/ fillingStopped(x)
  \/ PolicyAdd(x)
nodeDown(x) == handleNodeDown(x) \/ DownPolicy(x) \/ DownPool(x)
nodeConnected(x) == handleNodeConnected(x) \/ PolicyUp(x)

Step(x) ==
  \/ startPoolFill(x) \/ nodeDown(x) \/ nodeConnected(x)
  \/ Topology(x) \/ handleNodeEvent(x)

Next ==
  \/ \E x \in Procs : Step(x)
  \/ refreshRing \/ Tick \/ NextHost \/ flush
  \/ \E p \in Pools : ClosePool(p) \/ HandleError(p)
  \/ \E h \in Hosts : setupConn(h)
  \/ Change
  \/ \E a \in Flaky, s \in {"UP", "DOWN"} : Status(a, s)

Spec == Init /\ [][Next]_vars

-------------------------------------------------------------------------------
(* Properties *)

\* No goroutine is at work, and none has to start.
AtRest ==
  /\ \A x \in Procs : g[x] = Idle
  /\ events = <<>> /\ ~wanted
  /\ \A p \in Pools : pool[p].st # "closing"

\* getHostByIP never finds an id without a host, whose HostInfo would be nil, or
\* a host that lives elsewhere; and it finds every host of the ring unless the
\* address has passed from one id to another: removeHost then deletes the entry
\* of the new one.
AddressesExact ==
  /\ \A a \in Addrs : ips[a] # None => ring[ips[a]] = <<ips[a], a>>
  /\ \A h \in RingHosts : ips[Addr(h)] = ID(h) \/ Addr(h) \in takenOver

\* At rest a pool is that of a host in the ring, with its address, unless it was
\* made for a host that had left the ring by then.
PoolsMatchRing ==
  AtRest => \A i \in IDs :
    pools[i] = None \/ i \in late \/ pool[pools[i]].host = ring[i]

\* At rest a host that is up has its pool, with a connection, and is in the policy's
\* list: reconnectDownedHosts leaves it alone.  It is not so after a report overtook the
\* removal of the pool, and when the address had belonged to another host; and a host
\* whose ConnectAddress is not its nodeToNodeAddress is not marked down when its fill
\* fails, and stays up with no connection.
UpServed ==
  AtRest => \A h \in RingHosts \cap up :
    \/ /\ pools[ID(h)] # None /\ listed[ConnectAddr(h)] = h
       /\ pool[pools[ID(h)]].full \/ ConnectAddr(h) # Addr(h)
    \/ ID(h) \in overtaken \/ Addr(h) \in takenOver

\* At rest the ring is the cluster's, unless a refresh failed, or its event was
\* dropped, and no other came after.
RingCurrent == AtRest /\ ~missed => RingHosts = HostsOf(table)

===============================================================================
