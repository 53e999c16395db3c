---------------------------- MODULE ClusterTypes ----------------------------
(***************************************************************************)
(* Types and lemmas for ClusterProofs, for any nodes, addresses, pools and *)
(* goroutines.                                                             *)
(*                                                                         *)
(* TypeInv, the first part of the inductive invariant: the types, what     *)
(* each goroutine holds where it is (Staffed), and AddressesExact, which   *)
(* is inductive with them.  TypeStep says that every step keeps it.        *)
(*                                                                         *)
(* The other two parts, PoolInv and Current, are defined here as well and  *)
(* are shown to be kept in ClusterProofs.                                  *)
(***************************************************************************)
EXTENDS Cluster, TLAPS

------------------------------------------------------------------------------
(* Types *)

StatusEvents == [addr : Flaky, change : {"UP", "DOWN"}]
Events == StatusEvents \cup {TopologyChange}

Filling == {"addHost", "fill", "dial", "stopped", "down", "downPolicy", "downPool"}
Holding == {"fill", "dial", "stopped"}
Removal == {"rmPolicy", "rmPool", "rmRing", "again"}
Labels == Filling \cup Removal \cup {"idle", "policyAdd", "setUp", "policyUp", "batch",
                                      "next", "snapshot", "rows"}
Jobs == {"idle", "refresh", "reconnect", "start", "fill", "events", "report"}

Goroutines ==
  [job : Jobs, pc : Labels, host : Hosts \cup {None}, down : Hosts \cup Addrs \cup {None},
   pool : Pools \cup {None}, todo : SUBSET (Events \cup Hosts)]
ConnPools ==
  [host : Hosts \cup {None}, st : {"free", "open", "closing", "closed"},
   full : BOOLEAN, filling : BOOLEAN]

\* A pool that is not free has a host.
Owned(c) == c.st # "free" => c.host \in Hosts

\* The variables of Cluster keep their types; a host in the ring is there under its id.
TypeOK ==
  /\ ring \in [IDs -> Hosts \cup {None}] /\ \A i \in IDs : ring[i] # None => ID(ring[i]) = i
  /\ ips \in [Addrs -> IDs \cup {None}]
  /\ table \in [IDs -> Addrs \cup {None}]
  /\ rows \subseteq Hosts /\ prev \subseteq Hosts
  /\ wanted \in BOOLEAN /\ missed \in BOOLEAN
  /\ events \in Seq(Events) /\ Len(events) <= EventBufferSize
  /\ late \subseteq IDs /\ takenOver \subseteq Addrs
  /\ pools \in [IDs -> Pools \cup {None}]
  /\ pool \in [Pools -> ConnPools] /\ \A p \in Pools : Owned(pool[p])

\* What a goroutine is doing: where it may be, and what it then holds.
Shape(r) ==
  /\ r.job = "idle" \/ r.pc = "idle" => r = Idle
  /\ r.job = "refresh" => r.pc \in {"snapshot", "rows", "policyAdd"} \cup Removal \cup Filling
  /\ r.job = "reconnect" => r.pc \in {"next"} \cup Filling
  /\ r.job = "start" => r.pc \in {"policyAdd"} \cup Filling
  /\ r.job = "fill" => r.pc \in Filling \ {"addHost"}
  /\ r.job = "events" => r.pc \in {"batch", "policyAdd"} \cup Filling /\ r.todo \subseteq Events
  /\ r.job = "report" => r.pc \in {"setUp", "policyUp"}
  /\ r.pc \in {"addHost", "policyAdd", "setUp", "policyUp"} \cup Removal => r.host \in Hosts
  /\ r.pc \in Filling /\ r.job \in {"refresh", "start"} => r.host \in Hosts
  /\ r.pc \in Holding =>
       r.pool \in Pools /\ (r.job = "events" => r.host \in Hosts)
  /\ r.pc = "down" => r.down \in Addrs
  /\ r.pc \in {"downPolicy", "downPool"} => r.down \in Hosts
  /\ r.job = "reconnect" => r.todo \subseteq Hosts
  /\ r.job = "events" /\ r.pc # "batch" => TopologyChange \notin r.todo

\* Which goroutine does what.
Employed(x, r) ==
  /\ x = Refresher => r.job \in {"idle", "refresh"}
  /\ x = Reconnector => r.job \in {"idle", "reconnect"}
  /\ x \in Workers => r.job \in {"idle", "start", "fill", "events", "report"}

Staffed == /\ g \in [Procs -> Goroutines]
           /\ \A x \in Procs : Shape(g[x]) /\ Employed(x, g[x])

\* A goroutine that fills a pool keeps it from being collected.
Referred == \A x \in Procs : g[x].pc \in Holding => pool[g[x].pool].st # "free"

TypeInv == TypeOK /\ Staffed /\ Referred /\ AddressesExact

------------------------------------------------------------------------------
(* Pools *)

\* A pool in the map is open, and its host is the one in the ring or it is late.
Mapped ==
  \A i \in IDs : pools[i] # None =>
    /\ pool[pools[i]].st = "open" /\ ID(pool[pools[i]].host) = i
    /\ i \in late \/ pool[pools[i]].host = ring[i]

\* The host that removeHost takes from the ring has lost its pool.
Unmapped ==
  refresher.pc = "rmRing" =>
    pools[ID(refresher.host)] = None \/ ID(refresher.host) \in late

PoolInv == Mapped /\ Unmapped

------------------------------------------------------------------------------
(* The ring and the table *)

\* A handleNodeEvent that has yet to ask for a refresh.
Asking(r) == r.job = "events" /\ TopologyChange \in r.todo

\* A refresh has been asked for, or an event will ask for it.
Pending ==
  \/ wanted
  \/ \E n \in 1 .. Len(events) : events[n] = TopologyChange
  \/ \E w \in Workers : Asking(g[w])

\* What the refresh has made of the ring so far: the rows it has read are in it, and
\* what it had before and has not compared yet.
Read == HostsOf(table) \ rows

Synced ==
  /\ refresher = Idle => RingHosts = HostsOf(table)
  /\ refresher.pc = "snapshot" => rows = HostsOf(table)
  /\ refresher.pc \in {"rows", "policyAdd"} \cup Filling =>
       /\ rows \subseteq HostsOf(table) /\ Read \cap prev = {}
       /\ RingHosts = Read \cup prev
  /\ refresher.pc \in {"rmPolicy", "rmPool", "rmRing"} =>
       /\ rows \subseteq HostsOf(table) /\ Read \cap prev = {} /\ refresher.host \notin Read
       /\ RingHosts = Read \cup prev \cup {refresher.host}
       /\ refresher.host \in prev => \E h \in rows : ID(h) = ID(refresher.host)
  /\ refresher.pc = "again" =>
       /\ rows \subseteq HostsOf(table) /\ Read \cap prev = {}
       /\ RingHosts = Read \cup (prev \ {refresher.host})

Current == missed \/ Pending \/ Synced

------------------------------------------------------------------------------
(* Operators of the model *)

\* The events of a batch are some of those received, and a change of the topology is
\* among them.
LEMMA LatestTopology ==
  ASSUME NEW es \in Seq(Events)
  PROVE  /\ Latest(es) \subseteq Events
         /\ (\E m \in 1 .. Len(es) : es[m] = TopologyChange) => TopologyChange \in Latest(es)
BY DEF Latest

\* The constants.
LEMMA ConstantFacts ==
  /\ None \notin IDs /\ None \notin Addrs /\ None \notin Hosts /\ None \notin Pools
  /\ Workers \subseteq Procs /\ Workers \subseteq Nat /\ Refresher \in Procs /\ Reconnector \in Procs
  /\ Refresher \notin Workers /\ Reconnector \notin Workers /\ Refresher # Reconnector
  /\ Procs = Workers \cup {Refresher, Reconnector}
  /\ Flaky \subseteq Addrs /\ EventBufferSize \in Nat
  /\ \A h \in Hosts : ID(h) \in IDs /\ Addr(h) \in Addrs /\ h = <<ID(h), Addr(h)>>
  /\ \A i \in IDs, a \in Addrs : <<i, a>> \in Hosts /\ ID(<<i, a>>) = i /\ Addr(<<i, a>>) = a
<1>1. NumWorkers \in Nat /\ NumPools \in Nat /\ Pools \subseteq Nat
  BY TablesAssumption DEF Pools
<1>2. /\ Workers \subseteq Procs /\ Workers \subseteq Nat /\ Refresher \in Procs /\ Reconnector \in Procs
      /\ Refresher \notin Workers /\ Reconnector \notin Workers /\ Refresher # Reconnector
      /\ Procs = Workers \cup {Refresher, Reconnector}
  BY <1>1 DEF Workers, Procs, Refresher, Reconnector
<1>3. /\ None \notin IDs /\ None \notin Addrs /\ None \notin Hosts /\ None \notin Pools
      /\ Flaky \subseteq Addrs /\ EventBufferSize \in Nat
  BY Zenon, <1>1, TablesAssumption
<1>4. /\ \A h \in Hosts : ID(h) \in IDs /\ Addr(h) \in Addrs /\ h = <<ID(h), Addr(h)>>
      /\ \A i \in IDs, a \in Addrs : <<i, a>> \in Hosts /\ ID(<<i, a>>) = i /\ Addr(<<i, a>>) = a
  BY DEF Hosts, ID, Addr
<1> QED BY <1>2, <1>3, <1>4

------------------------------------------------------------------------------
(* The records of the goroutines *)

LEMMA IdleOK ==
  /\ Idle \in Goroutines /\ Shape(Idle) /\ \A x : Employed(x, Idle)
  /\ Idle.job = "idle" /\ Idle.pc = "idle" /\ Idle.host = None /\ Idle.down = None
  /\ Idle.pool = None /\ Idle.todo = {}
BY DEF Idle, Goroutines, Jobs, Labels, Filling, Removal, Holding, Shape, Employed

LEMMA JobFacts ==
  ASSUME NEW j, NEW l, NEW h
  PROVE  Job(j, l, h) = [job |-> j, pc |-> l, host |-> h, down |-> None, pool |-> None, todo |-> {}]
<1> DEFINE D == {"job", "pc", "host", "down", "pool", "todo"}
<1>1. DOMAIN Job(j, l, h) = D
  BY DEF Job, Idle
<1>2. /\ Job(j, l, h).job = j /\ Job(j, l, h).pc = l /\ Job(j, l, h).host = h
      /\ Job(j, l, h).down = None /\ Job(j, l, h).pool = None /\ Job(j, l, h).todo = {}
  BY DEF Job, Idle
<1>3. Job(j, l, h) = [d \in D |-> Job(j, l, h)[d]]
  BY Zenon DEF Job, Idle
<1> HIDE DEF Job
<1> QED BY <1>1, <1>2, <1>3

\* handleNodeEvent goes on with what is left, or returns.
LEMMA BatchOK ==
  ASSUME NEW todo \in SUBSET Events
  PROVE  /\ Batch(todo) \in Goroutines /\ Shape(Batch(todo))
         /\ Batch(todo).job \in {"idle", "events"} /\ Batch(todo).pc \in {"idle", "batch"}
         /\ todo # {} => Batch(todo).job = "events"
         /\ Batch(todo).todo = todo
<1>1. CASE todo = {}
  BY <1>1, IdleOK DEF Batch
<1>2. CASE todo # {}
  <2>1. Batch(todo) = [job |-> "events", pc |-> "batch", host |-> None, down |-> None,
                       pool |-> None, todo |-> todo]
    BY <1>2, JobFacts DEF Batch
  <2> HIDE DEF Batch
  <2>2. Batch(todo) \in Goroutines
    BY <2>1 DEF Goroutines, Jobs, Labels
  <2>3. Shape(Batch(todo))
    BY <2>1 DEF Shape, Filling, Removal, Holding
  <2> QED BY <2>1, <2>2, <2>3
<1> QED BY <1>1, <1>2

\* A call of addHost or of handleNodeDown returns to the one who made it.
LEMMA ResumedOK ==
  ASSUME Staffed, NEW x \in Procs, g[x].pc \in Filling
  PROVE  /\ Resumed(x) \in Goroutines /\ Shape(Resumed(x)) /\ Employed(x, Resumed(x))
         /\ Resumed(x).pc \in {"idle", "next", "batch", "policyAdd"}
         /\ g[x].job = "events" => (Resumed(x).job = "events" => TopologyChange \notin Resumed(x).todo)
         /\ Resumed(x).job = "events" => g[x].job = "events"
         /\ x = Refresher => Resumed(x).pc = "policyAdd" /\ Resumed(x).job = "refresh"
<1> DEFINE r == [g[x] EXCEPT !.pool = None, !.down = None]
<1>1. g[x] \in Goroutines /\ Shape(g[x]) /\ Employed(x, g[x])
  BY DEF Staffed
<1>2. /\ r \in Goroutines /\ r.job = g[x].job /\ r.pc = g[x].pc /\ r.host = g[x].host
      /\ r.todo = g[x].todo /\ r.pool = None /\ r.down = None
  BY Zenon, <1>1 DEF Goroutines
<1>3. /\ g[x].job \in {"refresh", "reconnect", "start", "fill", "events"}
  BY <1>1 DEF Shape, Filling, Goroutines, Jobs, Idle
<1>4. Resumed(x) = IF g[x].job = "fill" THEN Idle
                   ELSE IF g[x].job = "reconnect" THEN [r EXCEPT !.pc = "next", !.host = None]
                   ELSE IF g[x].job = "events" /\ g[x].host = None THEN Batch(g[x].todo)
                   ELSE [r EXCEPT !.pc = "policyAdd"]
  BY <1>2, <1>3 DEF Resumed
<1>5. x = Refresher => g[x].job = "refresh"
  BY <1>1, <1>3 DEF Employed
<1> HIDE DEF r
<1>6. CASE g[x].job = "fill"
  BY <1>4, <1>5, <1>6, IdleOK
<1>7. CASE g[x].job = "reconnect"
  <2> DEFINE s == [r EXCEPT !.pc = "next", !.host = None]
  <2>1. /\ s \in Goroutines /\ s.job = "reconnect" /\ s.pc = "next" /\ s.host = None
        /\ s.todo = g[x].todo /\ s.pool = None /\ s.down = None
    BY Zenon, <1>2, <1>7 DEF Goroutines, Labels
  <2>2. Resumed(x) = s
    BY <1>4, <1>7
  <2> HIDE DEF s
  <2>3. Shape(s)
    BY <1>1, <1>7, <2>1 DEF Shape, Filling, Removal, Holding
  <2>4. Employed(x, s)
    BY <1>1, <1>7, <2>1 DEF Employed
  <2> QED BY <1>5, <1>7, <2>1, <2>2, <2>3, <2>4
<1>8. CASE g[x].job = "events" /\ g[x].host = None
  <2>1. g[x].todo \in SUBSET Events /\ TopologyChange \notin g[x].todo /\ x \in Workers
    BY <1>1, <1>8, ConstantFacts DEF Shape, Employed, Filling
  <2>2. Resumed(x) = Batch(g[x].todo)
    BY <1>4, <1>8
  <2>3. Employed(x, Batch(g[x].todo))
    BY <2>1, BatchOK, ConstantFacts DEF Employed
  <2> QED BY <1>5, <1>8, <2>1, <2>2, <2>3, BatchOK
<1>9. CASE g[x].job \in {"refresh", "start", "events"} /\ (g[x].job = "events" => g[x].host # None)
  <2> DEFINE s == [r EXCEPT !.pc = "policyAdd"]
  <2>1. /\ s \in Goroutines /\ s.job = g[x].job /\ s.pc = "policyAdd" /\ s.host = g[x].host
        /\ s.todo = g[x].todo /\ s.pool = None /\ s.down = None
    BY <1>2 DEF Goroutines, Labels
  <2>2. Resumed(x) = s
    BY <1>4, <1>9
  <2>3. g[x].host \in Hosts
    BY <1>1, <1>9 DEF Shape, Goroutines
  <2> HIDE DEF s
  <2>4. Shape(s)
    BY <1>1, <1>9, <2>1, <2>3 DEF Shape, Filling, Removal, Holding
  <2>5. Employed(x, s)
    BY <1>1, <2>1 DEF Employed
  <2>6. g[x].job = "events" => TopologyChange \notin g[x].todo
    BY <1>1 DEF Shape, Filling
  <2> QED BY <1>5, <1>9, <2>1, <2>2, <2>4, <2>5, <2>6
<1> QED BY <1>3, <1>6, <1>7, <1>8, <1>9

\* startPoolFill returns to the one who called it.
LEMMA FilledOK ==
  ASSUME Staffed, NEW x \in Procs, g[x].pc = "policyAdd"
  PROVE  /\ Filled(x) \in Goroutines /\ Shape(Filled(x)) /\ Employed(x, Filled(x))
         /\ Filled(x).pc \in {"idle", "batch", "rows"}
         /\ Filled(x).job = "events" => TopologyChange \notin Filled(x).todo
         /\ x = Refresher => Filled(x).pc = "rows" /\ Filled(x).job = "refresh"
<1>1. g[x] \in Goroutines /\ Shape(g[x]) /\ Employed(x, g[x])
  BY DEF Staffed
<1>2. g[x].job \in {"refresh", "start", "events"}
  BY <1>1 DEF Shape, Filling, Goroutines, Jobs, Idle
<1>3. CASE g[x].job = "start"
  <2>1. Filled(x) = Idle /\ x # Refresher
    BY <1>1, <1>3 DEF Filled, Employed
  <2> QED BY <2>1, IdleOK
<1>4. CASE g[x].job = "events"
  <2>1. g[x].todo \in SUBSET Events /\ TopologyChange \notin g[x].todo /\ x \in Workers
    BY <1>1, <1>4, ConstantFacts DEF Shape, Employed
  <2>2. Filled(x) = Batch(g[x].todo)
    BY <1>4 DEF Filled
  <2>3. Employed(x, Batch(g[x].todo))
    BY <2>1, BatchOK, ConstantFacts DEF Employed
  <2> QED BY <2>1, <2>2, <2>3, BatchOK, ConstantFacts
<1>5. CASE g[x].job = "refresh"
  <2> DEFINE s == [g[x] EXCEPT !.pc = "rows", !.host = None]
  <2>1. /\ s \in Goroutines /\ s.job = "refresh" /\ s.pc = "rows"
    BY Zenon, <1>1, <1>5 DEF Goroutines, Labels
  <2>2. Filled(x) = s
    BY <1>5 DEF Filled
  <2> HIDE DEF s
  <2>3. Shape(s)
    BY <2>1 DEF Shape, Filling, Removal, Holding
  <2>4. Employed(x, s)
    BY <1>1, <1>5, <2>1 DEF Employed
  <2> QED BY <2>1, <2>2, <2>3, <2>4
<1> QED BY <1>2, <1>3, <1>4, <1>5

\* One goroutine takes a step.
LEMMA OneMoves ==
  ASSUME Staffed, NEW x \in Procs, NEW r \in Goroutines, Shape(r), Employed(x, r),
         g' = [g EXCEPT ![x] = r]
  PROVE  /\ Staffed' /\ g'[x] = r
         /\ \A y \in Procs : y # x => g'[y] = g[y]
BY DEF Staffed

\* A go statement starts a goroutine.
LEMMA OneStarts ==
  ASSUME NEW gs \in [Procs -> Goroutines],
         \A x \in Procs : Shape(gs[x]) /\ Employed(x, gs[x]),
         NEW r \in Goroutines, Shape(r), r.job \in {"idle", "start", "fill", "events", "report"},
         Go(gs, r)
  PROVE  /\ Staffed'
         /\ \E w \in Workers : /\ gs[w] = Idle /\ g'[w] = r
                               /\ \A y \in Procs : y # w => g'[y] = gs[y]
<1>1. PICK w \in Workers : gs[w] = Idle /\ g' = [gs EXCEPT ![w] = r]
  BY Zenon DEF Go
<1>2. w \in Procs /\ Employed(w, r)
  BY ConstantFacts DEF Employed
<1> QED BY <1>1, <1>2 DEF Staffed

------------------------------------------------------------------------------
(* Types are kept *)

\* The goroutines that hold pools still do, when the pools stay.
LEMMA PoolsStay ==
  ASSUME TypeInv, NEW x \in Procs, NEW r \in Goroutines, Shape(r), Employed(x, r),
         g' = [g EXCEPT ![x] = r], UNCHANGED pool,
         r.pc \in Holding => pool[r.pool].st # "free"
  PROVE  Staffed' /\ Referred'
<1>1. /\ Staffed' /\ g'[x] = r
      /\ \A y \in Procs : y # x => g'[y] = g[y]
  BY Zenon, OneMoves DEF TypeInv
<1> QED BY <1>1 DEF TypeInv, Referred

\* Collecting the pools that nobody refers to leaves alone the open ones and those in
\* the hands of a goroutine.
LEMMA SetPoolsOK ==
  ASSUME Staffed', NEW ps \in [Pools -> ConnPools], \A p \in Pools : Owned(ps[p]), SetPools(ps),
         \A x \in Procs : g'[x].pc \in Holding => ps[g'[x].pool].st # "free"
  PROVE  /\ pool' \in [Pools -> ConnPools] /\ \A p \in Pools : Owned(pool'[p])
         /\ Referred'
         /\ \A p \in Pools : ps[p].st = "open" => pool'[p] = ps[p]
         /\ \A p \in Pools : pool'[p] \in {Free, ps[p]}
<1>1. Free \in ConnPools /\ Free.st = "free"
  BY DEF Free, ConnPools
<1>2. \A p \in Pools : pool'[p] =
        IF ps[p].st # "open" /\ \A x \in Procs : g'[x].pool # p THEN Free ELSE ps[p]
  BY DEF SetPools
<1>3. pool' \in [Pools -> ConnPools]
  BY <1>1 DEF SetPools
<1>4. ASSUME NEW x \in Procs, g'[x].pc \in Holding
      PROVE  pool'[g'[x].pool].st # "free"
  <2>1. g'[x].pool \in Pools
    BY <1>4 DEF Staffed, Shape
  <2> QED BY <1>2, <1>4, <2>1
<1> QED BY <1>1, <1>2, <1>3, <1>4 DEF Referred, Owned

LEMMA AddressesKept ==
  ASSUME AddressesExact, UNCHANGED <<ring, ips, takenOver>>
  PROVE  AddressesExact'
BY DEF AddressesExact, RingHosts

LEMMA Initially == Init => TypeInv /\ PoolInv
<1> SUFFICES ASSUME Init PROVE TypeInv /\ PoolInv
  OBVIOUS
<1> DEFINE S == HostsOf(First)
           f == CHOOSE f \in Injection(S, Pools) : TRUE
<1>1. f \in [S -> Pools] /\ \A h, k \in S : f[h] = f[k] => h = k
  <2>1. f \in Injection(S, Pools)
    BY TablesAssumption
  <2> HIDE DEF f
  <2> QED BY <2>1 DEF Injection, IsInjective
<1>2. S \subseteq Hosts
  <2>1. \A i \in IDs : First[i] # None => First[i] \in Addrs
    BY TablesAssumption
  <2> QED BY <2>1, ConstantFacts DEF HostsOf
<1>3. /\ ring \in [IDs -> Hosts \cup {None}] /\ \A i \in IDs : ring[i] # None => ID(ring[i]) = i
      /\ \A i \in IDs : ring[i] # None => ring[i] = <<i, First[i]>> /\ ring[i] \in S /\ First[i] \in Addrs
      /\ \A i \in IDs : ring[i] = None <=> First[i] = None
  BY ConstantFacts, TablesAssumption DEF Init, HostsOf
<1>4. /\ pool = [p \in Pools |->
            IF \E h \in S : f[h] = p
              THEN [host |-> CHOOSE h \in S : f[h] = p, st |-> "open", full |-> TRUE, filling |-> FALSE]
              ELSE Free]
      /\ pools = [i \in IDs |-> IF ring[i] = None THEN None ELSE f[ring[i]]]
  <2>1. PICK e \in {f} :
          /\ pool = [p \in Pools |->
               IF \E h \in S : e[h] = p
                 THEN [host |-> CHOOSE h \in S : e[h] = p, st |-> "open", full |-> TRUE,
                       filling |-> FALSE]
                 ELSE Free]
          /\ pools = [i \in IDs |-> IF ring[i] = None THEN None ELSE e[ring[i]]]
    BY Zenon DEF Init
  <2> HIDE DEF S, f
  <2>2. e = f
    OBVIOUS
  <2> QED BY <2>1, <2>2
<1> HIDE DEF S, f
<1>5. pools \in [IDs -> Pools \cup {None}]
  BY <1>1, <1>3, <1>4
<1>6. Free \in ConnPools /\ Free.st = "free"
  BY DEF Free, ConnPools
<1>7. ASSUME NEW h \in S
      PROVE  pool[f[h]] = [host |-> h, st |-> "open", full |-> TRUE, filling |-> FALSE]
  <2>1. f[h] \in Pools /\ h = CHOOSE k \in S : f[k] = f[h]
    BY <1>1
  <2> QED BY Zenon, <1>4, <2>1
<1>8. ASSUME NEW p \in Pools PROVE pool[p] \in ConnPools /\ Owned(pool[p])
  <2>1. CASE ~\E h \in S : f[h] = p
    BY <1>4, <1>6, <2>1 DEF Owned
  <2>2. CASE \E h \in S : f[h] = p
    <3>1. PICK h \in S : f[h] = p
      BY <2>2
    <3>2. pool[p] = [host |-> h, st |-> "open", full |-> TRUE, filling |-> FALSE] /\ h \in Hosts
      BY <1>2, <1>7, <3>1
    <3> QED BY <3>2 DEF Owned, ConnPools
  <2> QED BY <2>1, <2>2
<1>9. pool \in [Pools -> ConnPools]
  BY <1>4, <1>8
<1>10. /\ ips \in [Addrs -> IDs \cup {None}]
       /\ \A a \in Addrs : ips[a] # None => First[ips[a]] = a
       /\ \A i \in IDs : First[i] # None => ips[First[i]] = i
  BY TablesAssumption DEF Init
<1>11. TypeOK
  <2>1. table \in [IDs -> Addrs \cup {None}]
    BY TablesAssumption DEF Init
  <2>2. events \in Seq(Events) /\ Len(events) <= EventBufferSize
    BY ConstantFacts DEF Init
  <2>3. /\ rows \subseteq Hosts /\ prev \subseteq Hosts /\ wanted \in BOOLEAN /\ missed \in BOOLEAN
        /\ late \subseteq IDs /\ takenOver \subseteq Addrs
    BY Zenon DEF Init
  <2> QED BY <1>3, <1>5, <1>8, <1>9, <1>10, <2>1, <2>2, <2>3 DEF TypeOK
<1>12. Staffed /\ Referred
  BY IdleOK DEF Init, Staffed, Referred, Holding
<1>13. AddressesExact
  <2>1. ASSUME NEW a \in Addrs, ips[a] # None PROVE ring[ips[a]] = <<ips[a], a>>
    <3>1. ips[a] \in IDs /\ First[ips[a]] = a /\ First[ips[a]] # None
      BY <1>10, <2>1, ConstantFacts
    <3> QED BY <1>3, <3>1
  <2>2. ASSUME NEW h \in RingHosts PROVE ips[Addr(h)] = ID(h)
    BY <1>3, <1>10, ConstantFacts DEF RingHosts
  <2> QED BY <2>1, <2>2 DEF AddressesExact
<1>14. Mapped
  BY <1>1, <1>3, <1>4, <1>7 DEF Mapped
<1>15. Unmapped
  BY IdleOK, ConstantFacts DEF Init, Unmapped, refresher
<1> QED BY <1>11, <1>12, <1>13, <1>14, <1>15 DEF TypeInv, PoolInv

\* A goroutine that is somewhere has a job.
LEMMA AtWork ==
  ASSUME Staffed, NEW x \in Procs, g[x].pc # "idle"
  PROVE  g[x] \in Goroutines /\ Shape(g[x]) /\ Employed(x, g[x]) /\ g[x].job # "idle"
<1>1. g[x] \in Goroutines /\ Shape(g[x]) /\ Employed(x, g[x])
  BY DEF Staffed
<1>2. g[x].job = "idle" => g[x] = Idle
  BY <1>1 DEF Shape
<1> QED BY <1>1, <1>2, IdleOK

\* A goroutine goes to another label.
LEMMA GotoFacts ==
  ASSUME Staffed, NEW x \in Procs, NEW l \in Labels, Goto(x, l)
  PROVE  \E r \in Goroutines :
           /\ g' = [g EXCEPT ![x] = r]
           /\ r.pc = l /\ r.job = g[x].job /\ r.host = g[x].host /\ r.down = g[x].down
           /\ r.pool = g[x].pool /\ r.todo = g[x].todo
<1> DEFINE r == [g[x] EXCEPT !.pc = l]
<1>1. g[x] \in Goroutines
  BY DEF Staffed
<1>2. g' = [g EXCEPT ![x] = r]
  BY DEF Goto
<1>3. /\ r \in Goroutines /\ r.pc = l /\ r.job = g[x].job /\ r.host = g[x].host
      /\ r.down = g[x].down /\ r.pool = g[x].pool /\ r.todo = g[x].todo
  BY <1>1 DEF Goroutines
<1> QED BY Zenon, <1>2, <1>3

\* The session's records are left alone.
LEMMA TypeKept ==
  ASSUME TypeOK, UNCHANGED <<ringVars, poolVars, refreshVars, events, table, missed, takenOver, late>>
  PROVE  TypeOK'
BY DEF TypeOK, ringVars, poolVars, refreshVars

LEMMA addHostType ==
  ASSUME TypeInv, PoolInv, NEW x \in Procs, addHost(x)
  PROVE  TypeInv'
<1>1. TypeOK /\ Staffed /\ Referred /\ AddressesExact /\ Mapped
  BY DEF TypeInv, PoolInv
<1> DEFINE h == g[x].host
<1>2. /\ g[x] \in Goroutines /\ Shape(g[x]) /\ Employed(x, g[x]) /\ g[x].job # "idle"
      /\ g[x].pc = "addHost" /\ h \in Hosts /\ ID(h) \in IDs
  BY <1>1, AtWork, ConstantFacts DEF Shape, addHost
<1>3. AddressesExact'
  BY <1>1, AddressesKept DEF addHost, ringVars
<1>4. ASSUME NEW p \in Pools, g' = [g EXCEPT ![x].pc = "fill", ![x].pool = p]
      PROVE  \E r \in Goroutines : /\ g' = [g EXCEPT ![x] = r] /\ Shape(r) /\ Employed(x, r)
                                   /\ r.pool = p
  <2> DEFINE r == [g[x] EXCEPT !.pc = "fill", !.pool = p]
  <2>1. g' = [g EXCEPT ![x] = r]
    BY Zenon, <1>1, <1>4 DEF Staffed
  <2>2. /\ r \in Goroutines /\ r.pc = "fill" /\ r.job = g[x].job /\ r.host = h
        /\ r.down = g[x].down /\ r.pool = p /\ r.todo = g[x].todo
    BY Zenon, <1>2 DEF Goroutines, Labels, Filling
  <2> HIDE DEF r
  <2>3. Shape(r)
    BY <1>2, <2>2 DEF Shape, Filling, Holding, Removal
  <2>4. Employed(x, r)
    BY <1>2, <2>2 DEF Employed
  <2> QED BY Zenon, <2>1, <2>2, <2>3, <2>4
<1>5. CASE pools[ID(h)] # None
  <2> DEFINE p == pools[ID(h)]
  <2>1. /\ p \in Pools /\ pool[p].st # "free" /\ UNCHANGED <<poolVars, late>>
        /\ g' = [g EXCEPT ![x].pc = "fill", ![x].pool = p]
    BY <1>1, <1>2, <1>5 DEF TypeOK, addHost, Mapped
  <2> HIDE DEF p
  <2>2. PICK r \in Goroutines : /\ g' = [g EXCEPT ![x] = r] /\ Shape(r) /\ Employed(x, r)
                                /\ r.pool = p
    BY Zenon, <1>4, <2>1
  <2>3. Staffed' /\ Referred'
    BY Zenon, <2>1, <2>2, PoolsStay DEF poolVars
  <2>4. TypeOK'
    BY <1>1, <2>1, TypeKept DEF addHost, envVars
  <2> QED BY <1>3, <2>3, <2>4 DEF TypeInv
<1>6. CASE pools[ID(h)] = None
  <2>1. PICK p \in Pools :
          /\ pool[p] = Free
          /\ pools' = [pools EXCEPT ![ID(h)] = p]
          /\ pool' = [pool EXCEPT ![p] = [Free EXCEPT !.host = h, !.st = "open"]]
          /\ g' = [g EXCEPT ![x].pc = "fill", ![x].pool = p]
          /\ late' = IF Leaving(h) THEN late \cup {ID(h)} ELSE late
    BY <1>6 DEF addHost
  <2> DEFINE c == [Free EXCEPT !.host = h, !.st = "open"]
  <2>2. c \in ConnPools /\ c.st = "open" /\ c.host = h
    BY Zenon, <1>2 DEF Free, ConnPools
  <2>3. pool' = [pool EXCEPT ![p] = c]
    BY <2>1
  <2> HIDE DEF c
  <2>4. /\ pool' \in [Pools -> ConnPools] /\ \A q \in Pools : Owned(pool'[q])
        /\ pool'[p].st = "open" /\ \A q \in Pools : pool[q].st # "free" => pool'[q].st # "free"
    BY <1>1, <1>2, <2>2, <2>3 DEF TypeOK, Owned
  <2>5. PICK r \in Goroutines : /\ g' = [g EXCEPT ![x] = r] /\ Shape(r) /\ Employed(x, r)
                                /\ r.pool = p
    BY Zenon, <1>4, <2>1
  <2>6. /\ Staffed' /\ g'[x] = r /\ \A y \in Procs : y # x => g'[y] = g[y]
    BY Zenon, <1>1, <2>5, OneMoves
  <2>7. Referred'
    BY <1>1, <2>4, <2>5, <2>6 DEF Referred, Staffed, Shape
  <2>8. TypeOK'
    <3>1. pools' \in [IDs -> Pools \cup {None}] /\ late' \subseteq IDs
      BY <1>1, <1>2, <2>1 DEF TypeOK
    <3> QED BY <1>1, <2>4, <3>1 DEF TypeOK, addHost, ringVars, refreshVars, envVars
  <2> QED BY <1>3, <2>6, <2>7, <2>8 DEF TypeInv
<1> QED BY <1>5, <1>6

LEMMA fillType ==
  ASSUME TypeInv, NEW x \in Procs, fill(x)
  PROVE  TypeInv'
<1>1. TypeOK /\ Staffed /\ Referred /\ AddressesExact
  BY DEF TypeInv
<1> DEFINE p == g[x].pool
<1>2. /\ g[x] \in Goroutines /\ Shape(g[x]) /\ Employed(x, g[x])
      /\ p \in Pools /\ pool[p].st # "free" /\ g[x].pc \in Filling /\ g[x].pc = "fill"
      /\ g[x].job # "idle"
  BY <1>1, AtWork DEF Shape, fill, Referred, Holding, Filling
<1>3. AddressesExact'
  BY <1>1, AddressesKept DEF fill, ringVars, histVars
<1>4. CASE MayFill(p)
  <2> DEFINE c == [pool[p] EXCEPT !.filling = TRUE]
  <2>1. pool' = [pool EXCEPT ![p] = c] /\ Goto(x, "dial") /\ "dial" \in Labels
    BY <1>4 DEF fill, Labels, Filling
  <2>2. c \in ConnPools /\ c.st = pool[p].st /\ c.host = pool[p].host
    BY Zenon, <1>1, <1>2 DEF TypeOK, ConnPools
  <2> HIDE DEF c
  <2>3. PICK r \in Goroutines :
           /\ g' = [g EXCEPT ![x] = r]
           /\ r.pc = "dial" /\ r.job = g[x].job /\ r.host = g[x].host /\ r.down = g[x].down
           /\ r.pool = g[x].pool /\ r.todo = g[x].todo
    BY <1>1, <2>1, GotoFacts
  <2>4. Shape(r) /\ Employed(x, r)
    BY <1>2, <2>3 DEF Shape, Filling, Holding, Removal, Employed
  <2>5. /\ Staffed' /\ g'[x] = r /\ \A y \in Procs : y # x => g'[y] = g[y]
    BY Zenon, <1>1, <2>3, <2>4, OneMoves
  <2>6. /\ pool' \in [Pools -> ConnPools] /\ \A q \in Pools : Owned(pool'[q])
        /\ \A q \in Pools : pool'[q].st = pool[q].st
    BY Zenon, <1>1, <2>1, <2>2 DEF TypeOK, Owned
  <2>7. Referred'
    <3> SUFFICES ASSUME NEW y \in Procs, g'[y].pc \in Holding
                 PROVE  pool'[g'[y].pool].st # "free"
      BY DEF Referred
    <3>1. g'[y].pool \in Pools
      BY <2>5 DEF Staffed, Shape
    <3>2. pool[g'[y].pool].st # "free"
      BY <1>1, <1>2, <2>3, <2>5 DEF Referred
    <3> QED BY <2>6, <3>1, <3>2
  <2>8. TypeOK'
    BY <1>1, <2>6 DEF TypeOK, fill, ringVars, refreshVars, envVars, histVars
  <2> QED BY <1>3, <2>5, <2>7, <2>8 DEF TypeInv
<1>5. CASE ~MayFill(p)
  <2>1. g' = [g EXCEPT ![x] = Resumed(x)] /\ SetPools(pool)
    BY <1>5 DEF fill, Resume
  <2>2. /\ Staffed' /\ g'[x] = Resumed(x) /\ \A y \in Procs : y # x => g'[y] = g[y]
    BY Zenon, <1>1, <1>2, <2>1, ResumedOK, OneMoves
  <2>3. \A y \in Procs : g'[y].pc \in Holding => pool[g'[y].pool].st # "free"
    BY <1>1, <1>2, <2>2, ResumedOK DEF Referred, Holding
  <2>4. /\ pool' \in [Pools -> ConnPools] /\ \A q \in Pools : Owned(pool'[q])
        /\ Referred'
    BY <1>1, <2>1, <2>2, <2>3, SetPoolsOK DEF TypeOK
  <2>5. TypeOK'
    BY <1>1, <2>4 DEF TypeOK, fill, ringVars, refreshVars, envVars, histVars
  <2> QED BY <1>3, <2>2, <2>4, <2>5 DEF TypeInv
<1> QED BY <1>4, <1>5

\* A step of one goroutine that changes nothing else of what TypeInv is about.
LEMMA Quiet ==
  ASSUME TypeInv, NEW x \in Procs, NEW r \in Goroutines, Shape(r), Employed(x, r),
         g' = [g EXCEPT ![x] = r], r.pc \in Holding => pool[r.pool].st # "free",
         UNCHANGED <<ringVars, poolVars, refreshVars, events, table, missed, takenOver, late>>
  PROVE  TypeInv'
<1>1. Staffed' /\ Referred'
  BY Zenon, PoolsStay DEF poolVars
<1>2. TypeOK'
  BY TypeKept DEF TypeInv
<1>3. AddressesExact'
  BY AddressesKept DEF TypeInv, ringVars
<1> QED BY <1>1, <1>2, <1>3 DEF TypeInv

\* A step that changes the pools.
LEMMA Repool ==
  ASSUME TypeInv, Staffed', NEW ps \in [Pools -> ConnPools], \A p \in Pools : Owned(ps[p]),
         SetPools(ps), \A x \in Procs : g'[x].pc \in Holding => ps[g'[x].pool].st # "free",
         pools' \in [IDs -> Pools \cup {None}],
         UNCHANGED <<ringVars, refreshVars, events, table, missed, takenOver, late>>
  PROVE  TypeInv'
<1>1. /\ pool' \in [Pools -> ConnPools] /\ \A p \in Pools : Owned(pool'[p])
      /\ Referred'
  BY SetPoolsOK
<1>2. TypeOK'
  BY <1>1 DEF TypeInv, TypeOK, ringVars, refreshVars
<1>3. AddressesExact'
  BY AddressesKept DEF TypeInv, ringVars
<1> QED BY <1>1, <1>2, <1>3 DEF TypeInv

LEMMA ConnectType ==
  ASSUME TypeInv, NEW x \in Procs, Connect(x)
  PROVE  TypeInv'
<1>1. TypeOK /\ Staffed /\ Referred /\ AddressesExact
  BY DEF TypeInv
<1> DEFINE p == g[x].pool
           h == pool[p].host
           rep == Job("report", "setUp", h)
           gs == [g EXCEPT ![x] = Resumed(x)]
<1>2. /\ g[x].pc = "dial" /\ g[x].pc \in Filling
      /\ p \in Pools /\ pool[p].st # "free" /\ pool[p] \in ConnPools /\ h \in Hosts
  BY <1>1, AtWork DEF Shape, Connect, Referred, Holding, Filling, TypeOK, Owned
<1>3. rep \in Goroutines /\ Shape(rep) /\ rep.job = "report" /\ rep.pc = "setUp"
  <2>1. rep = [job |-> "report", pc |-> "setUp", host |-> h, down |-> None, pool |-> None, todo |-> {}]
    BY JobFacts
  <2> HIDE DEF rep, h
  <2> QED BY <1>2, <2>1 DEF Goroutines, Jobs, Labels, Shape, Filling, Removal, Holding
<1>4. /\ gs \in [Procs -> Goroutines] /\ gs[x] = Resumed(x)
      /\ \A y \in Procs : y # x => gs[y] = g[y]
      /\ \A y \in Procs : Shape(gs[y]) /\ Employed(y, gs[y])
  <2> HIDE DEF p, h, rep
  <2> QED BY <1>1, <1>2, ResumedOK DEF Staffed
<1>5. Go(gs, rep)
  BY DEF Connect
<1> HIDE DEF gs, rep
<1>6. /\ Staffed'
      /\ \E w \in Workers : /\ gs[w] = Idle /\ g'[w] = rep
                            /\ \A y \in Procs : y # w => g'[y] = gs[y]
  BY <1>3, <1>4, <1>5, OneStarts
<1>7. \A y \in Procs : g'[y].pc \in Holding => y # x /\ g'[y] = g[y]
  BY <1>1, <1>2, <1>3, <1>4, <1>6, ResumedOK DEF Holding
<1> DEFINE c == [pool[p] EXCEPT !.full = (pool[p].st # "closed"), !.filling = FALSE]
           ps == [pool EXCEPT ![p] = c]
<1>8. SetPools(ps)
  <2>1. ps = [pool EXCEPT ![p].full = (pool[p].st # "closed"), ![p].filling = FALSE]
    BY Zenon, <1>1, <1>2 DEF TypeOK
  <2> QED BY <2>1 DEF Connect
<1>9. c \in ConnPools /\ c.st = pool[p].st /\ c.host = pool[p].host
  BY Zenon, <1>2 DEF ConnPools
<1> HIDE DEF c
<1>10. /\ ps \in [Pools -> ConnPools] /\ \A q \in Pools : Owned(ps[q])
       /\ \A q \in Pools : ps[q].st = pool[q].st
  BY <1>1, <1>2, <1>9 DEF TypeOK, Owned
<1> HIDE DEF ps
<1>11. \A y \in Procs : g'[y].pc \in Holding => ps[g'[y].pool].st # "free"
  BY <1>1, <1>7, <1>10, AtWork DEF Referred, Shape, Holding
<1>12. pools' \in [IDs -> Pools \cup {None}]
  BY <1>1 DEF Connect, TypeOK
<1> QED BY <1>6, <1>8, <1>10, <1>11, <1>12, Repool DEF Connect, envVars, histVars

LEMMA ConnectFailsType ==
  ASSUME TypeInv, NEW x \in Procs, ConnectFails(x)
  PROVE  TypeInv'
<1>1. TypeOK /\ Staffed /\ Referred
  BY DEF TypeInv
<1>2. /\ g[x].pc = "dial" /\ g[x].job # "idle" /\ Shape(g[x]) /\ Employed(x, g[x])
      /\ Goto(x, "stopped") /\ "stopped" \in Labels
  BY <1>1, AtWork DEF ConnectFails, Labels, Filling
<1>3. PICK r \in Goroutines :
        /\ g' = [g EXCEPT ![x] = r]
        /\ r.pc = "stopped" /\ r.job = g[x].job /\ r.host = g[x].host /\ r.down = g[x].down
        /\ r.pool = g[x].pool /\ r.todo = g[x].todo
  BY <1>1, <1>2, GotoFacts
<1>4. Shape(r) /\ Employed(x, r)
  BY <1>2, <1>3 DEF Shape, Filling, Holding, Removal, Employed
<1>5. pool[r.pool].st # "free"
  BY <1>1, <1>2, <1>3 DEF Referred, Holding
<1> QED BY Zenon, <1>3, <1>4, <1>5, Quiet DEF ConnectFails, histVars

LEMMA fillingStoppedType ==
  ASSUME TypeInv, NEW x \in Procs, fillingStopped(x)
  PROVE  TypeInv'
<1>1. TypeOK /\ Staffed /\ Referred
  BY DEF TypeInv
<1> DEFINE p == g[x].pool
           a == ConnectAddr(pool[p].host)
<1>2. /\ g[x].pc = "stopped" /\ g[x].job # "idle" /\ g[x] \in Goroutines /\ Shape(g[x])
      /\ Employed(x, g[x]) /\ p \in Pools /\ pool[p].st # "free" /\ pool[p] \in ConnPools
      /\ a \in Addrs
  <2>1. /\ g[x].pc = "stopped" /\ g[x].job # "idle" /\ g[x] \in Goroutines /\ Shape(g[x])
        /\ Employed(x, g[x]) /\ p \in Pools /\ pool[p].st # "free" /\ pool[p] \in ConnPools
        /\ Addr(pool[p].host) \in Addrs
    BY <1>1, AtWork, ConstantFacts DEF fillingStopped, Shape, Referred, Holding, TypeOK, Owned
  <2>2. a \in Addrs
    BY <2>1, TablesAssumption DEF ConnectAddr
  <2> QED BY <2>1, <2>2
<1> DEFINE r == [g[x] EXCEPT !.pc = "down", !.down = a, !.pool = None]
           c == [pool[p] EXCEPT !.filling = FALSE]
           ps == [pool EXCEPT ![p] = c]
<1>3. g' = [g EXCEPT ![x] = r]
  <2> HIDE DEF p, a
  <2>1. g' = [g EXCEPT ![x].pc = "down", ![x].down = a, ![x].pool = None]
    BY DEF fillingStopped, p, a
  <2> QED BY Zenon, <1>1, <2>1 DEF Staffed
<1>4. SetPools(ps)
  BY DEF fillingStopped
<1> HIDE DEF a
<1>5. /\ r \in Goroutines /\ r.pc = "down" /\ r.down = a /\ r.job = g[x].job
      /\ r.host = g[x].host /\ r.pool = None /\ r.todo = g[x].todo
  BY Zenon, <1>2 DEF Goroutines, Labels, Filling
<1>6. c \in ConnPools /\ c.st = pool[p].st /\ c.host = pool[p].host
  BY Zenon, <1>2 DEF ConnPools
<1> HIDE DEF r, c
<1>7. Shape(r) /\ Employed(x, r)
  BY <1>2, <1>5 DEF Shape, Filling, Holding, Removal, Employed
<1>8. /\ Staffed' /\ g'[x] = r /\ \A y \in Procs : y # x => g'[y] = g[y]
  BY Zenon, <1>1, <1>3, <1>5, <1>7, OneMoves
<1>9. /\ ps \in [Pools -> ConnPools] /\ \A q \in Pools : Owned(ps[q])
      /\ \A q \in Pools : ps[q].st = pool[q].st
  BY <1>1, <1>2, <1>6 DEF TypeOK, Owned
<1> HIDE DEF ps
<1>10. \A y \in Procs : g'[y].pc \in Holding => ps[g'[y].pool].st # "free"
  BY <1>1, <1>5, <1>8, <1>9, AtWork DEF Referred, Shape, Holding
<1>11. pools' \in [IDs -> Pools \cup {None}]
  BY <1>1 DEF fillingStopped, TypeOK
<1> QED BY Zenon, <1>4, <1>8, <1>9, <1>10, <1>11, Repool DEF fillingStopped, envVars, histVars

LEMMA PolicyAddType ==
  ASSUME TypeInv, NEW x \in Procs, PolicyAdd(x)
  PROVE  TypeInv'
<1>1. Staffed
  BY DEF TypeInv
<1>2. g[x].pc = "policyAdd" /\ g' = [g EXCEPT ![x] = Filled(x)]
  BY DEF PolicyAdd
<1> QED
  BY Zenon, <1>1, <1>2, FilledOK, Quiet DEF PolicyAdd, envVars, histVars, Holding

\* getHostByIP finds a host, not a nil HostInfo.
LEMMA FoundByIP ==
  ASSUME TypeInv, NEW a \in Addrs, ips[a] # None
  PROVE  ips[a] \in IDs /\ ring[ips[a]] = <<ips[a], a>> /\ ring[ips[a]] \in Hosts
<1>1. ips[a] \in IDs
  BY DEF TypeInv, TypeOK
<1>2. ring[ips[a]] = <<ips[a], a>>
  BY DEF TypeInv, AddressesExact
<1> QED BY <1>1, <1>2, ConstantFacts

LEMMA handleNodeDownType ==
  ASSUME TypeInv, NEW x \in Procs, handleNodeDown(x)
  PROVE  TypeInv'
<1>1. TypeOK /\ Staffed /\ AddressesExact
  BY DEF TypeInv
<1> DEFINE a == g[x].down
<1>2. /\ g[x].pc = "down" /\ g[x].pc \in Filling /\ g[x].job # "idle" /\ g[x] \in Goroutines
      /\ Shape(g[x]) /\ Employed(x, g[x]) /\ a \in Addrs
  BY <1>1, AtWork DEF handleNodeDown, Shape, Filling
<1>3. UNCHANGED <<ringVars, poolVars, refreshVars, events, table, missed, takenOver, late>>
  BY DEF handleNodeDown, envVars, histVars
<1>4. CASE ips[a] = None
  <2>1. g' = [g EXCEPT ![x] = Resumed(x)]
    BY <1>4 DEF handleNodeDown, Resume
  <2> QED BY Zenon, <1>1, <1>2, <1>3, <2>1, ResumedOK, Quiet DEF Holding
<1>5. CASE ips[a] # None
  <2> DEFINE h == ring[ips[a]]
             r == [g[x] EXCEPT !.pc = "downPolicy", !.down = h]
  <2>1. h \in Hosts
    BY <1>2, <1>5, FoundByIP
  <2>2. g' = [g EXCEPT ![x] = r]
    <3>1. g' = [g EXCEPT ![x].pc = "downPolicy", ![x].down = h]
      BY <1>5 DEF handleNodeDown
    <3> HIDE DEF h, a
    <3> QED BY Zenon, <1>1, <3>1 DEF Staffed
  <2> HIDE DEF h
  <2>3. /\ r \in Goroutines /\ r.pc = "downPolicy" /\ r.down = h /\ r.job = g[x].job
        /\ r.host = g[x].host /\ r.pool = g[x].pool /\ r.todo = g[x].todo
    BY Zenon, <1>2, <2>1 DEF Goroutines, Labels, Filling
  <2> HIDE DEF r
  <2>4. Shape(r) /\ Employed(x, r)
    BY <1>2, <2>1, <2>3 DEF Shape, Filling, Holding, Removal, Employed
  <2> QED BY Zenon, <1>3, <2>2, <2>3, <2>4, Quiet DEF Holding
<1> QED BY <1>4, <1>5

LEMMA DownPolicyType ==
  ASSUME TypeInv, NEW x \in Procs, DownPolicy(x)
  PROVE  TypeInv'
<1>1. Staffed
  BY DEF TypeInv
<1>2. /\ g[x].pc = "downPolicy" /\ g[x].job # "idle" /\ Shape(g[x]) /\ Employed(x, g[x])
      /\ Goto(x, "downPool") /\ "downPool" \in Labels
  BY <1>1, AtWork DEF DownPolicy, Labels, Filling
<1>3. PICK r \in Goroutines :
        /\ g' = [g EXCEPT ![x] = r]
        /\ r.pc = "downPool" /\ r.job = g[x].job /\ r.host = g[x].host /\ r.down = g[x].down
        /\ r.pool = g[x].pool /\ r.todo = g[x].todo
  BY <1>1, <1>2, GotoFacts
<1>4. Shape(r) /\ Employed(x, r)
  BY <1>2, <1>3 DEF Shape, Filling, Holding, Removal, Employed
<1> QED BY Zenon, <1>3, <1>4, Quiet DEF DownPolicy, envVars, histVars, Holding

\* removeHost of the pools, as a part of a step.
LEMMA removeHostType ==
  ASSUME TypeInv, PoolInv, Staffed', NEW i \in IDs, removeHost(i),
         \A x \in Procs : g'[x].pc \in Holding => g'[x] = g[x],
         UNCHANGED <<ringVars, refreshVars, events, table, missed, takenOver, late>>
  PROVE  TypeInv'
<1>1. TypeOK /\ Staffed /\ Referred /\ AddressesExact /\ Mapped
  BY DEF TypeInv, PoolInv
<1>2. CASE pools[i] = None
  <2>1. UNCHANGED poolVars
    BY <1>2 DEF removeHost
  <2>2. TypeOK'
    BY <1>1, <2>1, TypeKept
  <2>3. Referred'
    BY <1>1, <2>1 DEF Referred, poolVars
  <2>4. AddressesExact'
    BY <1>1, AddressesKept DEF ringVars
  <2> QED BY <2>2, <2>3, <2>4 DEF TypeInv
<1>3. CASE pools[i] # None
  <2> DEFINE p == pools[i]
             c == [pool[p] EXCEPT !.st = "closing"]
             ps == [pool EXCEPT ![p] = c]
  <2>1. p \in Pools /\ pool[p] \in ConnPools /\ pool[p].host \in Hosts
    BY <1>1, <1>3 DEF TypeOK, Mapped, Owned
  <2>2. SetPools(ps) /\ pools' = [pools EXCEPT ![i] = None]
    BY <1>3 DEF removeHost
  <2>3. c \in ConnPools /\ c.st = "closing" /\ c.host = pool[p].host
    BY <2>1 DEF ConnPools
  <2> HIDE DEF c, p
  <2>4. /\ ps \in [Pools -> ConnPools] /\ \A q \in Pools : Owned(ps[q])
        /\ \A q \in Pools : pool[q].st # "free" => ps[q].st # "free"
    BY <1>1, <2>1, <2>3 DEF TypeOK, Owned
  <2> HIDE DEF ps
  <2>5. \A y \in Procs : g'[y].pc \in Holding => ps[g'[y].pool].st # "free"
    BY Zenon, <1>1, <2>4, AtWork DEF Referred, Shape, Holding
  <2>6. pools' \in [IDs -> Pools \cup {None}]
    BY <1>1, <2>2 DEF TypeOK
  <2> QED BY <2>2, <2>4, <2>5, <2>6, Repool
<1> QED BY <1>2, <1>3

LEMMA DownPoolType ==
  ASSUME TypeInv, PoolInv, NEW x \in Procs, DownPool(x)
  PROVE  TypeInv'
<1>1. Staffed
  BY DEF TypeInv
<1>2. /\ g[x].pc = "downPool" /\ g[x].pc \in Filling /\ ID(g[x].down) \in IDs
      /\ g' = [g EXCEPT ![x] = Resumed(x)] /\ removeHost(ID(g[x].down))
  BY Zenon, <1>1, AtWork, ConstantFacts DEF DownPool, Shape, Filling, Resume
<1>3. /\ Staffed' /\ g'[x] = Resumed(x) /\ \A y \in Procs : y # x => g'[y] = g[y]
  BY Zenon, <1>1, <1>2, ResumedOK, OneMoves
<1>4. \A y \in Procs : g'[y].pc \in Holding => g'[y] = g[y]
  BY <1>1, <1>2, <1>3, ResumedOK DEF Holding
<1> QED BY <1>2, <1>3, <1>4, removeHostType DEF DownPool, envVars, histVars

LEMMA handleNodeConnectedType ==
  ASSUME TypeInv, NEW x \in Procs, handleNodeConnected(x)
  PROVE  TypeInv'
<1>1. Staffed
  BY DEF TypeInv
<1>2. /\ g[x].pc = "setUp" /\ g[x].job # "idle" /\ Shape(g[x]) /\ Employed(x, g[x])
      /\ Goto(x, "policyUp") /\ "policyUp" \in Labels
  BY <1>1, AtWork DEF handleNodeConnected, Labels
<1>3. PICK r \in Goroutines :
        /\ g' = [g EXCEPT ![x] = r]
        /\ r.pc = "policyUp" /\ r.job = g[x].job /\ r.host = g[x].host /\ r.down = g[x].down
        /\ r.pool = g[x].pool /\ r.todo = g[x].todo
  BY <1>1, <1>2, GotoFacts
<1>4. Shape(r) /\ Employed(x, r)
  BY <1>2, <1>3 DEF Shape, Filling, Holding, Removal, Employed
<1> QED BY Zenon, <1>3, <1>4, Quiet DEF handleNodeConnected, envVars, Holding

LEMMA PolicyUpType ==
  ASSUME TypeInv, NEW x \in Procs, PolicyUp(x)
  PROVE  TypeInv'
BY Zenon, IdleOK, Quiet DEF PolicyUp, envVars, histVars, Holding

LEMMA TopologyType ==
  ASSUME TypeInv, NEW x \in Procs, Topology(x)
  PROVE  TypeInv'
<1>1. TypeOK /\ Staffed /\ Referred /\ AddressesExact
  BY DEF TypeInv
<1> DEFINE todo == g[x].todo \ {TopologyChange}
           r == Batch(todo)
<1>2. /\ g[x].pc = "batch" /\ Shape(g[x]) /\ Employed(x, g[x]) /\ g[x].job = "events"
      /\ x \in Workers /\ todo \in SUBSET Events
  BY <1>1, AtWork, ConstantFacts
     DEF Topology, Shape, Employed, Goroutines, Jobs, Filling, Removal
<1>3. g' = [g EXCEPT ![x] = r]
  BY <1>1 DEF Topology, Staffed
<1>4. r \in Goroutines /\ Shape(r) /\ Employed(x, r) /\ r.pc \notin Holding
  BY <1>2, BatchOK, ConstantFacts DEF Employed, Holding
<1> HIDE DEF r
<1>5. Staffed' /\ Referred'
  BY Zenon, <1>3, <1>4, PoolsStay DEF Topology, poolVars
<1>6. TypeOK'
  BY <1>1 DEF TypeOK, Topology, ringVars, poolVars, envVars, histVars
<1>7. AddressesExact'
  BY <1>1, AddressesKept DEF Topology, ringVars, histVars
<1> QED BY <1>5, <1>6, <1>7 DEF TypeInv

LEMMA handleNodeEventType ==
  ASSUME TypeInv, NEW x \in Procs, handleNodeEvent(x)
  PROVE  TypeInv'
<1>1. TypeOK /\ Staffed /\ Referred /\ AddressesExact
  BY DEF TypeInv
<1>2. /\ g[x].pc = "batch" /\ g[x] \in Goroutines /\ Shape(g[x]) /\ Employed(x, g[x])
      /\ g[x].job = "events" /\ x \in Workers /\ g[x].todo \in SUBSET Events
      /\ TopologyChange \notin g[x].todo
  BY <1>1, AtWork, ConstantFacts
     DEF handleNodeEvent, Shape, Employed, Goroutines, Jobs, Filling, Removal
<1>3. PICK e \in g[x].todo :
       \E r \in {[g[x] EXCEPT !.todo = @ \ {e}]} :
         \/ /\ e.change = "UP" /\ ips[e.addr] = None
            /\ wanted' = TRUE
            /\ g' = [g EXCEPT ![x] = Batch(r.todo)]
         \/ /\ e.change = "UP" /\ ips[e.addr] # None
            /\ g' = [g EXCEPT ![x] = [r EXCEPT !.pc = "addHost", !.host = ring[ips[e.addr]]]]
            /\ UNCHANGED wanted
         \/ /\ e.change = "DOWN"
            /\ g' = [g EXCEPT ![x] = [r EXCEPT !.pc = "down", !.down = e.addr]]
            /\ UNCHANGED wanted
  BY Zenon DEF handleNodeEvent
<1> DEFINE r == [g[x] EXCEPT !.todo = @ \ {e}]
<1>4. /\ r \in Goroutines /\ r.job = "events" /\ r.pc = "batch" /\ r.host = g[x].host
      /\ r.down = g[x].down /\ r.pool = g[x].pool /\ r.todo = g[x].todo \ {e}
  BY <1>2 DEF Goroutines
<1>5. r.todo \in SUBSET Events /\ TopologyChange \notin r.todo /\ e.addr \in Addrs
  <2>1. e \in StatusEvents
    BY <1>2 DEF Events
  <2> HIDE DEF r
  <2> QED BY <1>2, <1>4, <2>1, ConstantFacts DEF StatusEvents
<1>6. \/ /\ e.change = "UP" /\ ips[e.addr] = None
         /\ wanted' = TRUE
         /\ g' = [g EXCEPT ![x] = Batch(r.todo)]
      \/ /\ e.change = "UP" /\ ips[e.addr] # None
         /\ g' = [g EXCEPT ![x] = [r EXCEPT !.pc = "addHost", !.host = ring[ips[e.addr]]]]
         /\ UNCHANGED wanted
      \/ /\ e.change = "DOWN"
         /\ g' = [g EXCEPT ![x] = [r EXCEPT !.pc = "down", !.down = e.addr]]
         /\ UNCHANGED wanted
  <2> HIDE DEF r
  <2>1. PICK s \in {r} :
      \/ /\ e.change = "UP" /\ ips[e.addr] = None
         /\ wanted' = TRUE
         /\ g' = [g EXCEPT ![x] = Batch(s.todo)]
      \/ /\ e.change = "UP" /\ ips[e.addr] # None
         /\ g' = [g EXCEPT ![x] = [s EXCEPT !.pc = "addHost", !.host = ring[ips[e.addr]]]]
         /\ UNCHANGED wanted
      \/ /\ e.change = "DOWN"
         /\ g' = [g EXCEPT ![x] = [s EXCEPT !.pc = "down", !.down = e.addr]]
         /\ UNCHANGED wanted
    BY <1>3, Zenon DEF r
  <2>2. s = r
    OBVIOUS
  <2> QED BY <2>1, <2>2
<1> HIDE DEF r
<1>7. \E s \in Goroutines : /\ g' = [g EXCEPT ![x] = s] /\ Shape(s) /\ s.job \in {"idle", "events"}
                            /\ s.pc \notin Holding
  <2>1. CASE g' = [g EXCEPT ![x] = Batch(r.todo)]
    BY Zenon, <1>5, <2>1, BatchOK DEF Holding
  <2>2. CASE /\ g' = [g EXCEPT ![x] = [r EXCEPT !.pc = "addHost", !.host = ring[ips[e.addr]]]]
             /\ ips[e.addr] # None
    <3> DEFINE h == ring[ips[e.addr]]
               s == [r EXCEPT !.pc = "addHost", !.host = h]
    <3>1. h \in Hosts
      BY <1>5, <2>2, FoundByIP
    <3> HIDE DEF h
    <3>2. /\ s \in Goroutines /\ s.pc = "addHost" /\ s.host = h /\ s.job = "events"
          /\ s.todo = r.todo
      BY Zenon, <1>4, <3>1 DEF Goroutines, Labels, Filling
    <3>3. g' = [g EXCEPT ![x] = s]
      BY <2>2 DEF h
    <3> HIDE DEF s
    <3>4. Shape(s)
      BY <1>5, <3>1, <3>2 DEF Shape, Filling, Holding, Removal
    <3> QED BY Zenon, <3>2, <3>3, <3>4 DEF Holding
  <2>3. CASE g' = [g EXCEPT ![x] = [r EXCEPT !.pc = "down", !.down = e.addr]]
    <3> DEFINE s == [r EXCEPT !.pc = "down", !.down = e.addr]
    <3>2. /\ s \in Goroutines /\ s.pc = "down" /\ s.down = e.addr /\ s.job = "events"
          /\ s.todo = r.todo
      BY Zenon, <1>4, <1>5 DEF Goroutines, Labels, Filling
    <3>3. g' = [g EXCEPT ![x] = s]
      BY <2>3
    <3> HIDE DEF s
    <3>4. Shape(s)
      BY <1>5, <3>2 DEF Shape, Filling, Holding, Removal
    <3> QED BY Zenon, <3>2, <3>3, <3>4 DEF Holding
  <2> QED BY <1>6, <2>1, <2>2, <2>3
<1>8. PICK s \in Goroutines : /\ g' = [g EXCEPT ![x] = s] /\ Shape(s) /\ s.job \in {"idle", "events"}
                              /\ s.pc \notin Holding
  BY Zenon, <1>7
<1>9. Employed(x, s)
  BY <1>2, <1>8, ConstantFacts DEF Employed
<1>10. Staffed' /\ Referred'
  BY Zenon, <1>8, <1>9, PoolsStay DEF handleNodeEvent, poolVars
<1>11. wanted' \in BOOLEAN
  BY Zenon, <1>1, <1>6 DEF TypeOK
<1>12. TypeOK'
  BY <1>1, <1>11 DEF TypeOK, handleNodeEvent, ringVars, poolVars, envVars, histVars
<1>13. AddressesExact'
  BY <1>1, AddressesKept DEF handleNodeEvent, ringVars, histVars
<1> QED BY <1>10, <1>12, <1>13 DEF TypeInv

\* The refresher goes on with another host.
LEMMA SetRefreshOK ==
  ASSUME Staffed, NEW l \in {"snapshot", "rows", "addHost"} \cup Removal, NEW h \in Hosts \cup {None},
         l \notin {"snapshot", "rows"} => h \in Hosts, SetRefresh(l, h)
  PROVE  /\ Staffed' /\ refresher'.pc = l /\ refresher'.host = h
         /\ refresher'.job = "refresh"
         /\ \A y \in Procs : y # Refresher => g'[y] = g[y]
<1> DEFINE r == Job("refresh", l, h)
<1>1. r = [job |-> "refresh", pc |-> l, host |-> h, down |-> None, pool |-> None, todo |-> {}]
  BY JobFacts
<1>2. g' = [g EXCEPT ![Refresher] = r]
  BY DEF SetRefresh
<1> HIDE DEF r
<1>3. l \in Labels /\ l # "idle"
  BY DEF Labels, Filling, Removal
<1>4. r \in Goroutines /\ r.pc = l /\ r.host = h /\ r.job = "refresh"
  BY <1>1, <1>3 DEF Goroutines, Jobs
<1>5. Shape(r)
  BY <1>1 DEF Shape, Filling, Holding, Removal
<1>6. Employed(Refresher, r)
  BY <1>4, ConstantFacts DEF Employed
<1> QED BY Zenon, <1>2, <1>4, <1>5, <1>6, OneMoves, ConstantFacts DEF refresher

\* The pools stay while a goroutine that held none is replaced.
LEMMA HeldStays ==
  ASSUME TypeInv, UNCHANGED pool, \A y \in Procs : g'[y].pc \in Holding => g'[y] = g[y]
  PROVE  Referred'
BY DEF TypeInv, Referred

LEMMA RingHostsFacts ==
  ASSUME TypeOK
  PROVE  /\ RingHosts \subseteq Hosts
         /\ \A h \in RingHosts : ring[ID(h)] = h
         /\ \A h \in Hosts : ring[ID(h)] = h => h \in RingHosts
<1>1. \A i \in IDs : ring[i] # None => ring[i] \in Hosts /\ ID(ring[i]) = i
  BY DEF TypeOK
<1> QED BY <1>1, ConstantFacts DEF RingHosts

\* addHostIfMissing adds a host whose id is not in the ring.
LEMMA AddToRingOK ==
  ASSUME TypeInv, NEW h \in Hosts, ring[ID(h)] = None, AddToRing(h)
  PROVE  /\ ring' \in [IDs -> Hosts \cup {None}] /\ \A i \in IDs : ring'[i] # None => ID(ring'[i]) = i
         /\ ips' \in [Addrs -> IDs \cup {None}] /\ takenOver' \subseteq Addrs
         /\ AddressesExact'
         /\ RingHosts' = RingHosts \cup {h}
<1>1. /\ TypeOK /\ ring \in [IDs -> Hosts \cup {None}] /\ ips \in [Addrs -> IDs \cup {None}]
      /\ takenOver \subseteq Addrs /\ \A i \in IDs : ring[i] # None => ID(ring[i]) = i
  BY DEF TypeInv, TypeOK
<1>2. ID(h) \in IDs /\ Addr(h) \in Addrs /\ h = <<ID(h), Addr(h)>>
  BY ConstantFacts
<1>3. /\ ring' = [ring EXCEPT ![ID(h)] = h] /\ ips' = [ips EXCEPT ![Addr(h)] = ID(h)]
      /\ takenOver' = IF ips[Addr(h)] = None THEN takenOver ELSE takenOver \cup {Addr(h)}
  BY DEF AddToRing
<1>4. /\ ring' \in [IDs -> Hosts \cup {None}] /\ \A i \in IDs : ring'[i] # None => ID(ring'[i]) = i
      /\ ips' \in [Addrs -> IDs \cup {None}] /\ takenOver' \subseteq Addrs
  BY <1>1, <1>2, <1>3
<1>5. ASSUME NEW a \in Addrs, ips'[a] # None
      PROVE  ring'[ips'[a]] = <<ips'[a], a>>
  <2>1. CASE a = Addr(h)
    BY <1>1, <1>2, <1>3, <2>1
  <2>2. CASE a # Addr(h)
    <3>1. ips'[a] = ips[a] /\ ips[a] # None
      BY <1>1, <1>3, <1>5, <2>2
    <3>2. ips[a] \in IDs /\ ring[ips[a]] = <<ips[a], a>> /\ ring[ips[a]] # None
      BY <3>1, FoundByIP, ConstantFacts
    <3>3. ips[a] # ID(h)
      BY <3>2
    <3> QED BY <1>1, <1>3, <3>1, <3>2, <3>3
  <2> QED BY <2>1, <2>2
<1>6. RingHosts' = RingHosts \cup {h}
  <2>1. \A i \in IDs : ring'[i] = IF i = ID(h) THEN h ELSE ring[i]
    BY <1>1, <1>2, <1>3
  <2>2. h # None
    BY ConstantFacts
  <2> QED BY <1>2, <2>1, <2>2 DEF RingHosts
<1>7. ASSUME NEW k \in RingHosts' PROVE ips'[Addr(k)] = ID(k) \/ Addr(k) \in takenOver'
  <2>1. CASE k = h
    BY <1>1, <1>2, <1>3, <2>1
  <2>2. CASE k \in RingHosts
    <3>1. ips[Addr(k)] = ID(k) \/ Addr(k) \in takenOver
      BY <2>2 DEF TypeInv, AddressesExact
    <3>2. Addr(k) \in Addrs /\ ID(k) # None
      BY <1>1, <2>2, RingHostsFacts, ConstantFacts
    <3> QED BY <1>1, <1>3, <3>1, <3>2
  <2> QED BY <1>6, <2>1, <2>2
<1> QED BY <1>4, <1>5, <1>6, <1>7 DEF AddressesExact

\* removeHost of the ring.
LEMMA RemoveFromRingOK ==
  ASSUME TypeInv, NEW i \in IDs, RemoveFromRing(i), UNCHANGED takenOver
  PROVE  /\ ring' \in [IDs -> Hosts \cup {None}] /\ \A j \in IDs : ring'[j] # None => ID(ring'[j]) = j
         /\ ips' \in [Addrs -> IDs \cup {None}]
         /\ AddressesExact'
         /\ RingHosts' = {h \in RingHosts : ID(h) # i}
<1>1. /\ TypeOK /\ ring \in [IDs -> Hosts \cup {None}] /\ ips \in [Addrs -> IDs \cup {None}]
      /\ \A j \in IDs : ring[j] # None => ID(ring[j]) = j
  BY DEF TypeInv, TypeOK
<1>2. /\ ring' = [ring EXCEPT ![i] = None]
      /\ ips' = IF ring[i] = None THEN ips ELSE [ips EXCEPT ![Addr(ring[i])] = None]
  BY DEF RemoveFromRing
<1>3. /\ ring' \in [IDs -> Hosts \cup {None}] /\ \A j \in IDs : ring'[j] # None => ID(ring'[j]) = j
      /\ ips' \in [Addrs -> IDs \cup {None}]
  BY Zenon, <1>1, <1>2
<1>4. RingHosts' = {h \in RingHosts : ID(h) # i}
  <2>1. \A j \in IDs : ring'[j] = IF j = i THEN None ELSE ring[j]
    BY <1>1, <1>2
  <2> QED BY <1>1, <2>1 DEF RingHosts
<1>5. ASSUME NEW a \in Addrs, ips'[a] # None
      PROVE  ring'[ips'[a]] = <<ips'[a], a>>
  <2>1. ips'[a] = ips[a] /\ ips[a] # None /\ (ring[i] # None => a # Addr(ring[i]))
    BY <1>1, <1>2, <1>5
  <2>2. ips[a] \in IDs /\ ring[ips[a]] = <<ips[a], a>> /\ ring[ips[a]] # None
    BY <2>1, FoundByIP, ConstantFacts
  <2>3. ips[a] # i
    BY Zenon, <2>1, <2>2, ConstantFacts
  <2> QED BY <1>1, <1>2, <2>1, <2>2, <2>3
<1>6. ASSUME NEW k \in RingHosts' PROVE ips'[Addr(k)] = ID(k) \/ Addr(k) \in takenOver'
  <2>1. k \in RingHosts /\ ID(k) # i /\ (ips[Addr(k)] = ID(k) \/ Addr(k) \in takenOver)
    BY <1>4 DEF TypeInv, AddressesExact
  <2>2. CASE ring[i] = None
    BY <1>2, <2>1, <2>2
  <2>3. CASE ring[i] # None
    <3>1. ring[i] \in RingHosts /\ ID(ring[i]) = i /\ Addr(k) \in Addrs
      BY <1>1, <2>1, <2>3, RingHostsFacts, ConstantFacts DEF RingHosts
    <3>2. ips[Addr(ring[i])] = i \/ Addr(ring[i]) \in takenOver
      BY <3>1 DEF TypeInv, AddressesExact
    <3> QED BY <1>1, <1>2, <2>1, <2>3, <3>1, <3>2
  <2> QED BY <2>2, <2>3
<1> QED BY <1>3, <1>4, <1>5, <1>6 DEF AddressesExact

\* The hosts of a table.
LEMMA HostsOfFacts ==
  ASSUME NEW t \in [IDs -> Addrs \cup {None}]
  PROVE  /\ HostsOf(t) \subseteq Hosts
         /\ \A h, k \in HostsOf(t) : ID(h) = ID(k) => h = k
<1>1. \A i \in IDs : t[i] # None => t[i] \in Addrs
  OBVIOUS
<1> QED BY <1>1, ConstantFacts DEF HostsOf

\* The refresher is replaced, and the pools stay.
LEMMA RefresherOnly ==
  ASSUME TypeInv, Staffed', UNCHANGED pool, refresher'.pc \notin Holding,
         \A y \in Procs : y # Refresher => g'[y] = g[y]
  PROVE  Referred'
BY HeldStays DEF refresher

LEMMA GivesUpOK ==
  ASSUME TypeInv, GivesUp
  PROVE  /\ Staffed' /\ refresher' = Idle
         /\ \A y \in Procs : y # Refresher => g'[y] = g[y]
<1>1. g' = [g EXCEPT ![Refresher] = Idle] /\ Staffed
  BY DEF GivesUp, TypeInv
<1> QED BY Zenon, <1>1, IdleOK, OneMoves, ConstantFacts DEF refresher

LEMMA GetHostsType ==
  ASSUME TypeInv, GetHosts
  PROVE  TypeInv'
<1>1. TypeOK /\ Staffed /\ AddressesExact /\ table \in [IDs -> Addrs \cup {None}]
  BY DEF TypeInv, TypeOK
<1>2. AddressesExact'
  BY <1>1, AddressesKept DEF GetHosts, ringVars
<1>3. /\ wanted' \in BOOLEAN /\ missed' \in BOOLEAN /\ rows' \subseteq Hosts
  BY Zenon, <1>1, HostsOfFacts DEF GetHosts, TypeOK
<1>4. TypeOK'
  BY <1>1, <1>3 DEF TypeOK, GetHosts, ringVars, poolVars
<1>5. Staffed' /\ Referred'
  <2>1. CASE SetRefresh("snapshot", None)
    <3>1. /\ Staffed' /\ refresher'.pc = "snapshot"
          /\ \A y \in Procs : y # Refresher => g'[y] = g[y]
      BY <1>1, <2>1, SetRefreshOK
    <3> QED BY <3>1, RefresherOnly DEF GetHosts, poolVars, Holding
  <2>2. CASE UNCHANGED g
    BY <1>1, <2>2 DEF TypeInv, Staffed, Referred, GetHosts, poolVars
  <2> QED BY <2>1, <2>2 DEF GetHosts
<1> QED BY <1>2, <1>4, <1>5 DEF TypeInv

LEMMA SnapshotType ==
  ASSUME TypeInv, Snapshot
  PROVE  TypeInv'
<1>1. TypeOK /\ Staffed /\ AddressesExact
  BY DEF TypeInv
<1>2. AddressesExact'
  BY <1>1, AddressesKept DEF Snapshot, ringVars, histVars
<1>3. prev' \subseteq Hosts
  BY <1>1, RingHostsFacts DEF Snapshot, RingHosts
<1>4. TypeOK'
  BY <1>1, <1>3 DEF TypeOK, Snapshot, ringVars, poolVars, envVars, histVars
<1>5. SetRefresh("rows", None)
  BY DEF Snapshot
<1>6. /\ Staffed' /\ refresher'.pc = "rows"
      /\ \A y \in Procs : y # Refresher => g'[y] = g[y]
  BY <1>1, <1>5, SetRefreshOK
<1>7. Referred'
  BY <1>6, RefresherOnly DEF Snapshot, poolVars, Holding
<1> QED BY <1>2, <1>4, <1>6, <1>7 DEF TypeInv

\* What a row or the second addHostIfMissing makes of the session.
LEMMA AddedType ==
  ASSUME TypeInv, NEW h \in rows, ring[ID(h)] = None, Added(h),
         UNCHANGED <<poolVars, wanted, events, table>>
  PROVE  /\ TypeInv' /\ refresher'.pc = "addHost" /\ refresher'.host = h
         /\ \A y \in Procs : y # Refresher => g'[y] = g[y]
<1>1. TypeOK /\ Staffed /\ h \in Hosts
  BY DEF TypeInv, TypeOK
<1>2. /\ ring' \in [IDs -> Hosts \cup {None}] /\ \A i \in IDs : ring'[i] # None => ID(ring'[i]) = i
      /\ ips' \in [Addrs -> IDs \cup {None}] /\ takenOver' \subseteq Addrs
      /\ AddressesExact'
  BY <1>1, AddToRingOK DEF Added
<1>3. rows' \subseteq Hosts /\ prev' \subseteq Hosts
  BY <1>1 DEF Added, Gone, TypeOK
<1>4. TypeOK'
  BY <1>1, <1>2, <1>3 DEF TypeOK, Added, poolVars
<1>5. SetRefresh("addHost", h)
  BY DEF Added
<1>6. /\ Staffed' /\ refresher'.pc = "addHost" /\ refresher'.host = h
      /\ \A y \in Procs : y # Refresher => g'[y] = g[y]
  BY <1>1, <1>5, SetRefreshOK
<1>7. Referred'
  BY <1>6, RefresherOnly DEF poolVars, Holding
<1> QED BY <1>2, <1>4, <1>6, <1>7 DEF TypeInv

LEMMA GivesUpType ==
  ASSUME TypeInv, GivesUp, UNCHANGED <<poolVars, wanted, events, table>>
  PROVE  TypeInv'
<1>1. TypeOK /\ AddressesExact
  BY DEF TypeInv
<1>2. TypeOK'
  BY <1>1 DEF TypeOK, GivesUp, poolVars, ringVars
<1>3. Staffed' /\ Referred'
  BY GivesUpOK, IdleOK, RefresherOnly DEF poolVars, Holding
<1>4. AddressesExact'
  BY <1>1, AddressesKept DEF GivesUp, ringVars
<1> QED BY <1>2, <1>3, <1>4 DEF TypeInv

LEMMA RowType ==
  ASSUME TypeInv, NEW h \in rows, Row(h)
  PROVE  TypeInv'
<1>1. TypeOK /\ Staffed /\ Referred /\ AddressesExact
  BY DEF TypeInv
<1>2. UNCHANGED <<poolVars, wanted, events, table>>
  BY DEF Row, envVars
<1>3. CASE ring[ID(h)] = None /\ Added(h)
  BY <1>2, <1>3, AddedType
<1>4. CASE GivesUp
  BY <1>2, <1>4, GivesUpType
<1>5. CASE rows' = rows \ {h} /\ prev' = prev \ {h} /\ UNCHANGED <<ringVars, g, histVars>>
  <2>1. TypeOK'
    BY <1>1, <1>2, <1>5 DEF TypeOK, ringVars, poolVars, histVars
  <2>2. Staffed' /\ Referred'
    BY <1>1, <1>2, <1>5 DEF Staffed, Referred, poolVars
  <2>3. AddressesExact'
    BY <1>1, <1>5, AddressesKept DEF ringVars, histVars
  <2> QED BY <2>1, <2>2, <2>3 DEF TypeInv
<1>6. ASSUME NEW k \in prev, SetRefresh("rmPolicy", k), UNCHANGED <<ringVars, rows, prev, histVars>>
      PROVE  TypeInv'
  <2>1. TypeOK'
    BY <1>1, <1>2, <1>6, TypeKept DEF refreshVars, histVars
  <2>2. "rmPolicy" \in Removal /\ k \in Hosts
    BY <1>1 DEF TypeOK, Removal
  <2>3. /\ Staffed' /\ refresher'.pc = "rmPolicy"
        /\ \A y \in Procs : y # Refresher => g'[y] = g[y]
    BY <1>1, <1>6, <2>2, SetRefreshOK
  <2>4. Referred'
    BY <1>2, <2>3, RefresherOnly DEF poolVars, Holding
  <2>5. AddressesExact'
    BY <1>1, <1>6, AddressesKept DEF ringVars, histVars
  <2> QED BY <2>1, <2>3, <2>4, <2>5 DEF TypeInv
<1> QED BY <1>3, <1>4, <1>5, <1>6 DEF Row

LEMMA LeftoverType ==
  ASSUME TypeInv, Leftover
  PROVE  TypeInv'
<1>1. TypeOK /\ Staffed /\ Referred /\ AddressesExact
  BY DEF TypeInv
<1>2. prev' \subseteq Hosts
  BY <1>1 DEF Leftover, TypeOK
<1>3. TypeOK'
  BY <1>1, <1>2 DEF TypeOK, Leftover, ringVars, poolVars, envVars, histVars
<1>4. AddressesExact'
  BY <1>1, AddressesKept DEF Leftover, ringVars, histVars
<1>5. UNCHANGED pool
  BY DEF Leftover, poolVars
<1>6. ASSUME NEW h \in prev, SetRefresh("rmPolicy", h)
      PROVE  Staffed' /\ Referred'
  <2>1. "rmPolicy" \in Removal /\ h \in Hosts
    BY <1>1 DEF TypeOK, Removal
  <2>2. /\ Staffed' /\ refresher'.pc = "rmPolicy"
        /\ \A y \in Procs : y # Refresher => g'[y] = g[y]
    BY <1>1, <1>6, <2>1, SetRefreshOK
  <2> QED BY <1>5, <2>2, RefresherOnly DEF Holding
<1>7. ASSUME g' = [g EXCEPT ![Refresher] = Idle]
      PROVE  Staffed' /\ Referred'
  <2>1. Idle \in Goroutines /\ Shape(Idle) /\ Employed(Refresher, Idle) /\ Idle.pc \notin Holding
    BY IdleOK DEF Holding
  <2>2. Refresher \in Procs
    BY ConstantFacts
  <2> HIDE DEF Idle, Refresher
  <2> QED BY Zenon, <1>5, <1>7, <2>1, <2>2, PoolsStay
<1>8. Staffed' /\ Referred'
  <2>1. (\E h \in prev : SetRefresh("rmPolicy", h)) \/ g' = [g EXCEPT ![Refresher] = Idle]
    BY DEF Leftover
  <2> QED BY <1>6, <1>7, <2>1
<1> QED BY <1>3, <1>4, <1>8 DEF TypeInv

\* The refresher goes to another label of the removal.
LEMMA RefresherGoto ==
  ASSUME Staffed, NEW l \in {"rmPool", "rmRing", "again", "rows"}, refresher.pc \in Removal,
         Goto(Refresher, l)
  PROVE  /\ Staffed' /\ refresher'.pc = l /\ refresher'.host = refresher.host
         /\ \A y \in Procs : y # Refresher => g'[y] = g[y]
<1> DEFINE x == Refresher
<1>1. /\ g[x] \in Goroutines /\ g[x].job = "refresh" /\ Shape(g[x]) /\ Employed(x, g[x])
      /\ x \in Procs /\ g[x].host \in Hosts /\ l \in Labels
  BY Zenon, AtWork, ConstantFacts DEF refresher, Removal, Employed, Labels, Filling, Shape
<1>2. PICK r \in Goroutines :
        /\ g' = [g EXCEPT ![x] = r]
        /\ r.pc = l /\ r.job = g[x].job /\ r.host = g[x].host /\ r.down = g[x].down
        /\ r.pool = g[x].pool /\ r.todo = g[x].todo
  BY <1>1, GotoFacts
<1>3. Shape(r) /\ Employed(x, r)
  BY <1>1, <1>2 DEF Shape, Filling, Holding, Removal, Employed
<1> QED BY Zenon, <1>1, <1>2, <1>3, OneMoves DEF refresher

LEMMA RmPolicyType ==
  ASSUME TypeInv, RmPolicy
  PROVE  TypeInv'
<1>1. TypeOK /\ Staffed /\ AddressesExact
  BY DEF TypeInv
<1>2. /\ Staffed' /\ refresher'.pc = "rmPool"
      /\ \A y \in Procs : y # Refresher => g'[y] = g[y]
  BY <1>1, RefresherGoto DEF RmPolicy, Removal
<1>3. Referred'
  BY <1>2, RefresherOnly DEF RmPolicy, poolVars, Holding
<1>4. TypeOK'
  BY <1>1, TypeKept DEF RmPolicy, envVars, histVars
<1>5. AddressesExact'
  BY <1>1, AddressesKept DEF RmPolicy, ringVars, histVars
<1> QED BY <1>2, <1>3, <1>4, <1>5 DEF TypeInv

LEMMA RmPoolType ==
  ASSUME TypeInv, PoolInv, RmPool
  PROVE  TypeInv'
<1>1. Staffed /\ refresher.pc = "rmPool" /\ refresher.pc \in Removal
  BY DEF TypeInv, RmPool, Removal
<1>2. /\ Staffed' /\ refresher'.pc = "rmRing"
      /\ \A y \in Procs : y # Refresher => g'[y] = g[y]
  BY <1>1, RefresherGoto DEF RmPool
<1>3. ID(refresher.host) \in IDs
  BY <1>1, AtWork, ConstantFacts DEF refresher, Shape
<1>4. \A y \in Procs : g'[y].pc \in Holding => g'[y] = g[y]
  BY <1>2 DEF refresher, Holding
<1> QED BY <1>2, <1>3, <1>4, removeHostType DEF RmPool, envVars, histVars

LEMMA RmRingType ==
  ASSUME TypeInv, RmRing
  PROVE  TypeInv'
<1>1. TypeOK /\ Staffed /\ refresher.pc = "rmRing" /\ refresher.pc \in Removal
  BY DEF TypeInv, RmRing, Removal
<1>2. PICK l \in {"again", "rows"} : Goto(Refresher, l)
  BY DEF RmRing
<1>3. /\ Staffed' /\ refresher'.pc = l
      /\ \A y \in Procs : y # Refresher => g'[y] = g[y]
  BY <1>1, <1>2, RefresherGoto
<1>4. Referred'
  BY <1>3, RefresherOnly DEF RmRing, poolVars, Holding
<1>5. ID(refresher.host) \in IDs
  BY <1>1, AtWork, ConstantFacts DEF refresher, Shape
<1>6. /\ ring' \in [IDs -> Hosts \cup {None}] /\ \A j \in IDs : ring'[j] # None => ID(ring'[j]) = j
      /\ ips' \in [Addrs -> IDs \cup {None}]
      /\ AddressesExact'
  BY <1>5, RemoveFromRingOK DEF RmRing, histVars
<1>7. TypeOK'
  BY <1>1, <1>6 DEF TypeOK, RmRing, poolVars, refreshVars, envVars, histVars
<1> QED BY <1>3, <1>4, <1>6, <1>7 DEF TypeInv

LEMMA AgainType ==
  ASSUME TypeInv, Again
  PROVE  TypeInv'
<1>1. UNCHANGED <<poolVars, wanted, events, table>>
  BY DEF Again, envVars
<1> QED BY <1>1, AddedType, GivesUpType DEF Again

LEMMA TickType ==
  ASSUME TypeInv, Tick
  PROVE  TypeInv'
<1>1. TypeOK /\ RingHosts \subseteq Hosts
  BY RingHostsFacts DEF TypeInv
<1> DEFINE r == [Job("reconnect", "next", None) EXCEPT !.todo = RingHosts]
<1>2. r = [job |-> "reconnect", pc |-> "next", host |-> None, down |-> None, pool |-> None,
           todo |-> RingHosts]
  BY JobFacts
<1>3. g' = [g EXCEPT ![Reconnector] = r]
  BY DEF Tick
<1> HIDE DEF r
<1>4. r \in Goroutines /\ Shape(r) /\ r.job = "reconnect" /\ r.pc \notin Holding
  BY <1>1, <1>2 DEF Goroutines, Jobs, Labels, Shape, Filling, Removal, Holding
<1>5. Employed(Reconnector, r) /\ Reconnector \in Procs
  BY <1>4, ConstantFacts DEF Employed
<1> QED BY Zenon, <1>3, <1>4, <1>5, Quiet DEF Tick, envVars, histVars

LEMMA NextHostType ==
  ASSUME TypeInv, NextHost
  PROVE  TypeInv'
<1>1. Staffed /\ Reconnector \in Procs
  BY ConstantFacts DEF TypeInv
<1> DEFINE x == Reconnector
           todo == g[x].todo \ up
<1>2. /\ g[x] \in Goroutines /\ Shape(g[x]) /\ Employed(x, g[x]) /\ g[x].job = "reconnect"
      /\ g[x].pc = "next" /\ todo \subseteq Hosts
  BY Zenon, <1>1, AtWork DEF NextHost, Employed, Shape
<1>3. UNCHANGED <<ringVars, poolVars, refreshVars, events, table, missed, takenOver, late>>
  BY Zenon DEF NextHost, envVars, histVars
<1>4. \/ g' = [g EXCEPT ![x] = Idle]
      \/ \E h \in todo : g' = [g EXCEPT ![x].todo = todo \ {h}, ![x].pc = "addHost", ![x].host = h]
  BY Zenon DEF NextHost
<1>5. CASE g' = [g EXCEPT ![x] = Idle]
  <2>1. Idle \in Goroutines /\ Shape(Idle) /\ Employed(x, Idle) /\ Idle.pc \notin Holding
    BY IdleOK DEF Holding
  <2> QED BY Zenon, <1>1, <1>3, <1>5, <2>1, Quiet
<1>6. ASSUME NEW h \in todo,
             g' = [g EXCEPT ![x].todo = todo \ {h}, ![x].pc = "addHost", ![x].host = h]
      PROVE  TypeInv'
  <2> DEFINE r == [g[x] EXCEPT !.todo = todo \ {h}, !.pc = "addHost", !.host = h]
  <2> HIDE DEF todo, x
  <2>1. g' = [g EXCEPT ![x] = r]
    BY Zenon, <1>1, <1>6 DEF Staffed, x
  <2>2. /\ r \in Goroutines /\ r.pc = "addHost" /\ r.job = "reconnect" /\ r.host = h
        /\ h \in Hosts /\ r.todo \subseteq Hosts
    BY Zenon, <1>2, <1>6 DEF Goroutines, Labels, Filling
  <2> HIDE DEF r
  <2>3. Shape(r) /\ Employed(x, r) /\ r.pc \notin Holding
    BY <1>2, <2>2 DEF Shape, Filling, Removal, Holding, Employed
  <2> QED BY Zenon, <1>1, <1>3, <2>1, <2>2, <2>3, Quiet DEF x
<1> QED BY Zenon, <1>4, <1>5, <1>6

LEMMA flushType ==
  ASSUME TypeInv, flush
  PROVE  TypeInv'
<1>1. TypeOK /\ Staffed /\ AddressesExact /\ events \in Seq(Events)
  BY DEF TypeInv, TypeOK
<1> DEFINE r == Batch(Latest(events))
<1>2. r \in Goroutines /\ Shape(r) /\ r.job \in {"idle", "events"} /\ r.pc \notin Holding
  <2>1. Latest(events) \in SUBSET Events
    BY <1>1, LatestTopology
  <2> QED BY <2>1, BatchOK DEF Holding
<1>3. Go(g, r)
  BY DEF flush
<1> HIDE DEF r
<1>4. /\ Staffed'
      /\ \E w \in Workers : /\ g[w] = Idle /\ g'[w] = r
                            /\ \A y \in Procs : y # w => g'[y] = g[y]
  BY <1>1, <1>2, <1>3, OneStarts DEF Staffed
<1>5. Referred'
  BY <1>2, <1>4, HeldStays DEF flush, poolVars
<1>6. events' \in Seq(Events) /\ Len(events') <= EventBufferSize
  BY ConstantFacts DEF flush
<1>7. TypeOK'
  BY <1>1, <1>6 DEF TypeOK, flush, ringVars, poolVars, refreshVars, envVars, histVars
<1>8. AddressesExact'
  BY <1>1, AddressesKept DEF flush, ringVars, histVars
<1> QED BY <1>4, <1>5, <1>7, <1>8 DEF TypeInv

LEMMA ClosePoolType ==
  ASSUME TypeInv, NEW p \in Pools, ClosePool(p)
  PROVE  TypeInv'
<1>1. TypeOK /\ Staffed /\ Referred /\ pool[p] \in ConnPools
  BY DEF TypeInv, TypeOK
<1> DEFINE c == [pool[p] EXCEPT !.st = "closed", !.full = FALSE]
           ps == [pool EXCEPT ![p] = c]
<1>2. pool[p].st = "closing" /\ UNCHANGED g
  BY DEF ClosePool
<1>3. SetPools(ps)
  <2>1. ps = [pool EXCEPT ![p].st = "closed", ![p].full = FALSE]
    BY Zenon, <1>1 DEF TypeOK
  <2> QED BY <2>1 DEF ClosePool
<1>4. c \in ConnPools /\ c.st = "closed" /\ c.host = pool[p].host
  BY Zenon, <1>1 DEF ConnPools
<1> HIDE DEF c
<1>5. /\ ps \in [Pools -> ConnPools] /\ \A q \in Pools : Owned(ps[q])
      /\ \A q \in Pools : pool[q].st # "free" => ps[q].st # "free"
  BY <1>1, <1>2, <1>4 DEF TypeOK, Owned
<1> HIDE DEF ps
<1>6. Staffed'
  BY <1>1, <1>2 DEF Staffed
<1>7. \A y \in Procs : g'[y].pc \in Holding => ps[g'[y].pool].st # "free"
  BY <1>1, <1>2, <1>5, AtWork DEF Referred, Shape, Holding
<1>8. pools' \in [IDs -> Pools \cup {None}]
  BY <1>1 DEF ClosePool, TypeOK
<1> QED BY <1>3, <1>5, <1>6, <1>7, <1>8, Repool DEF ClosePool, envVars, histVars

LEMMA HandleErrorType ==
  ASSUME TypeInv, NEW p \in Pools, HandleError(p)
  PROVE  TypeInv'
<1>1. TypeOK /\ Staffed /\ Referred /\ AddressesExact /\ pool[p] \in ConnPools
  BY DEF TypeInv, TypeOK
<1> DEFINE c == [pool[p] EXCEPT !.full = FALSE]
           r == [Job("fill", "fill", None) EXCEPT !.pool = p]
<1>2. pool[p].st = "open" /\ pool' = [pool EXCEPT ![p] = c] /\ Go(g, r)
  BY DEF HandleError
<1>3. r = [job |-> "fill", pc |-> "fill", host |-> None, down |-> None, pool |-> p, todo |-> {}]
  BY JobFacts
<1> HIDE DEF r
<1>4. r \in Goroutines /\ Shape(r) /\ r.job = "fill" /\ r.pool = p
  BY <1>3 DEF Goroutines, Jobs, Labels, Shape, Filling, Removal, Holding
<1>5. c \in ConnPools /\ c.st = "open" /\ c.host = pool[p].host
  BY Zenon, <1>1, <1>2 DEF ConnPools
<1> HIDE DEF c
<1>6. /\ pool' \in [Pools -> ConnPools] /\ \A q \in Pools : Owned(pool'[q])
      /\ \A q \in Pools : pool'[q].st = pool[q].st
  BY <1>1, <1>2, <1>5 DEF TypeOK, Owned
<1>7. /\ Staffed'
      /\ \E w \in Workers : /\ g[w] = Idle /\ g'[w] = r
                            /\ \A y \in Procs : y # w => g'[y] = g[y]
  BY <1>1, <1>2, <1>4, OneStarts DEF Staffed
<1>8. Referred'
  <2>1. ASSUME NEW y \in Procs, g'[y].pc \in Holding
        PROVE  pool'[g'[y].pool].st # "free"
    <3>1. g'[y] = r \/ g'[y] = g[y]
      BY <1>7
    <3>2. CASE g'[y] = r
      BY <1>2, <1>4, <1>6, <3>2
    <3>3. CASE g'[y] = g[y]
      <4>1. g[y].pool \in Pools /\ pool[g[y].pool].st # "free"
        BY <1>1, <2>1, <3>3, AtWork DEF Referred, Shape, Holding
      <4> QED BY <1>6, <3>3, <4>1
    <3> QED BY <3>1, <3>2, <3>3
  <2> QED BY <2>1 DEF Referred
<1>9. TypeOK'
  BY Zenon, <1>1, <1>6 DEF TypeOK, HandleError, ringVars, refreshVars, histVars
<1>10. AddressesExact'
  BY <1>1, AddressesKept DEF HandleError, ringVars, histVars
<1> QED BY <1>7, <1>8, <1>9, <1>10 DEF TypeInv

LEMMA setupConnType ==
  ASSUME TypeInv, NEW h \in Hosts, setupConn(h)
  PROVE  TypeInv'
<1>1. TypeOK /\ Staffed /\ Referred /\ AddressesExact /\ ID(h) \in IDs
  BY ConstantFacts DEF TypeInv
<1>2. \E k \in Hosts : Go(g, Job("start", "addHost", k))
  <2>1. CASE ring[ID(h)] = None
    BY <2>1 DEF setupConn
  <2>2. CASE ring[ID(h)] # None
    <3>1. ring[ID(h)] \in Hosts
      BY <1>1, <2>2 DEF TypeOK
    <3> QED BY <2>2, <3>1 DEF setupConn
  <2> QED BY <2>1, <2>2
<1>3. PICK k \in Hosts : Go(g, Job("start", "addHost", k))
  BY <1>2
<1> DEFINE r == Job("start", "addHost", k)
<1>4. r = [job |-> "start", pc |-> "addHost", host |-> k, down |-> None, pool |-> None, todo |-> {}]
  BY JobFacts
<1> HIDE DEF r
<1>5. r \in Goroutines /\ Shape(r) /\ r.job = "start" /\ r.pc \notin Holding
  BY <1>4 DEF Goroutines, Jobs, Labels, Shape, Filling, Removal, Holding
<1>6. /\ Staffed'
      /\ \E w \in Workers : /\ g[w] = Idle /\ g'[w] = r
                            /\ \A y \in Procs : y # w => g'[y] = g[y]
  BY <1>1, <1>3, <1>5, OneStarts DEF Staffed, r
<1>7. Referred'
  BY <1>5, <1>6, HeldStays DEF setupConn, poolVars
<1>8. /\ ring' \in [IDs -> Hosts \cup {None}] /\ \A i \in IDs : ring'[i] # None => ID(ring'[i]) = i
      /\ ips' \in [Addrs -> IDs \cup {None}] /\ takenOver' \subseteq Addrs
      /\ AddressesExact'
  <2>1. CASE ring[ID(h)] = None
    <3>1. AddToRing(h)
      BY <2>1 DEF setupConn
    <3> QED BY <2>1, <3>1, AddToRingOK
  <2>2. CASE ring[ID(h)] # None
    <3>1. UNCHANGED <<ring, ips, takenOver>>
      BY <2>2 DEF setupConn, ringVars
    <3> QED BY <1>1, <3>1, AddressesKept DEF TypeOK
  <2> QED BY <2>1, <2>2
<1>9. TypeOK'
  BY <1>1, <1>8 DEF TypeOK, setupConn, poolVars
<1> QED BY <1>6, <1>7, <1>8, <1>9 DEF TypeInv

\* An event is kept if there is room for it.
LEMMA debounceOK ==
  ASSUME TypeOK, NEW e \in Events, debounce(e)
  PROVE  /\ events' \in Seq(Events) /\ Len(events') <= EventBufferSize
         /\ missed' \in BOOLEAN
         /\ \A n \in 1 .. Len(events) : n \in 1 .. Len(events') /\ events'[n] = events[n]
         /\ e = TopologyChange =>
              missed' \/ \E n \in 1 .. Len(events') : events'[n] = TopologyChange
         /\ missed => missed'
<1>1. events \in Seq(Events) /\ Len(events) <= EventBufferSize /\ EventBufferSize \in Nat
      /\ missed \in BOOLEAN
  BY ConstantFacts DEF TypeOK
<1>2. CASE Len(events) < EventBufferSize
  <2>1. events' = Append(events, e) /\ missed' = missed
    BY <1>1, <1>2 DEF debounce
  <2>2. /\ events' \in Seq(Events) /\ Len(events') = Len(events) + 1
        /\ events'[Len(events) + 1] = e
        /\ \A n \in 1 .. Len(events) : events'[n] = events[n]
    BY <1>1, <2>1
  <2>3. /\ Len(events') <= EventBufferSize /\ Len(events) + 1 \in 1 .. Len(events')
        /\ \A n \in 1 .. Len(events) : n \in 1 .. Len(events')
    BY <1>1, <1>2, <2>2
  <2> QED BY Zenon, <1>1, <2>1, <2>2, <2>3
<1>3. CASE ~(Len(events) < EventBufferSize)
  <2>1. /\ events' = events /\ Len(events) = EventBufferSize
        /\ missed' = (missed \/ e = TopologyChange)
    BY <1>1, <1>3 DEF debounce
  <2> QED BY Zenon, <1>1, <2>1
<1> QED BY <1>2, <1>3

LEMMA DebouncedType ==
  ASSUME TypeInv, NEW e \in Events, debounce(e), table' \in [IDs -> Addrs \cup {None}],
         UNCHANGED <<ringVars, poolVars, g, refreshVars, takenOver, late>>
  PROVE  TypeInv'
<1>1. TypeOK /\ Staffed /\ Referred /\ AddressesExact
  BY DEF TypeInv
<1>2. events' \in Seq(Events) /\ Len(events') <= EventBufferSize /\ missed' \in BOOLEAN
  BY <1>1, debounceOK
<1>3. TypeOK'
  BY <1>1, <1>2 DEF TypeOK, ringVars, poolVars, refreshVars
<1>4. Staffed' /\ Referred'
  BY <1>1 DEF Staffed, Referred, poolVars
<1>5. AddressesExact'
  BY <1>1, AddressesKept DEF ringVars
<1> QED BY <1>3, <1>4, <1>5 DEF TypeInv

LEMMA ChangeType ==
  ASSUME TypeInv, Change
  PROVE  TypeInv'
<1>1. table' \in [IDs -> Addrs \cup {None}] /\ debounce(TopologyChange)
  BY TablesAssumption DEF Change
<1> QED BY <1>1, DebouncedType DEF Change, Events

LEMMA StatusType ==
  ASSUME TypeInv, NEW a \in Flaky, NEW s \in {"UP", "DOWN"}, Status(a, s)
  PROVE  TypeInv'
<1>1. [addr |-> a, change |-> s] \in Events
  BY DEF Events, StatusEvents
<1>2. table' \in [IDs -> Addrs \cup {None}]
  BY DEF TypeInv, TypeOK, Status
<1> QED BY <1>1, <1>2, DebouncedType DEF Status

LEMMA TypeStep ==
  ASSUME TypeInv, PoolInv, [Next]_vars
  PROVE  TypeInv'
<1>1. ASSUME NEW x \in Procs, Step(x) PROVE TypeInv'
  BY <1>1, addHostType, fillType, ConnectType, ConnectFailsType, fillingStoppedType, PolicyAddType,
     handleNodeDownType, DownPolicyType, DownPoolType, handleNodeConnectedType, PolicyUpType,
     TopologyType, handleNodeEventType
     DEF Step, startPoolFill, nodeDown, nodeConnected
<1>2. CASE refreshRing
  BY <1>2, GetHostsType, SnapshotType, RowType, LeftoverType, RmPolicyType, RmPoolType, RmRingType,
     AgainType
     DEF refreshRing
<1>3. CASE Tick \/ NextHost \/ flush \/ Change
  BY <1>3, TickType, NextHostType, flushType, ChangeType
<1>4. ASSUME NEW p \in Pools, ClosePool(p) \/ HandleError(p) PROVE TypeInv'
  BY <1>4, ClosePoolType, HandleErrorType
<1>5. ASSUME NEW h \in Hosts, setupConn(h) PROVE TypeInv'
  BY <1>5, setupConnType
<1>6. ASSUME NEW a \in Flaky, NEW s \in {"UP", "DOWN"}, Status(a, s) PROVE TypeInv'
  BY <1>6, StatusType
<1>7. CASE UNCHANGED vars
  <2>1. TypeOK'
    BY <1>7, TypeKept DEF TypeInv, vars, envVars, histVars
  <2>2. Staffed' /\ Referred'
    BY <1>7 DEF TypeInv, vars, Staffed, Referred, poolVars
  <2>3. AddressesExact'
    BY <1>7, AddressesKept DEF TypeInv, vars, ringVars, histVars
  <2> QED BY <2>1, <2>2, <2>3 DEF TypeInv
<1> QED BY <1>1, <1>2, <1>3, <1>4, <1>5, <1>6, <1>7 DEF Next

==============================================================================
