---------------------------- MODULE ClusterProofs ----------------------------
(***************************************************************************)
(* Proofs about Cluster: the inductive invariant IInv has three parts.     *)
(*                                                                         *)
(* TypeInv is that of ClusterTypes.                                        *)
(*                                                                         *)
(* PoolInv: PoolsMatchRing says nothing before the session is at rest.     *)
(* All the time, a pool in the map is open and is that of the host in the  *)
(* ring or is late (Mapped); while removeHost is between its last two      *)
(* steps the host it takes from the ring has no pool (Unmapped).           *)
(*                                                                         *)
(* Current: RingCurrent holds at rest because all the time a refresh was   *)
(* missed, or is asked for, or an event will ask for it (Pending), or the  *)
(* ring is as far from the table as refreshRing has still to go (Synced).  *)
(***************************************************************************)
EXTENDS ClusterTypes

------------------------------------------------------------------------------
(* The pools of the map are kept *)

\* A pool in the map, as TypeInv and Mapped describe it.
LEMMA MappedFacts ==
  ASSUME TypeInv, PoolInv, NEW i \in IDs, pools[i] # None
  PROVE  /\ pools[i] \in Pools /\ pool[pools[i]] \in ConnPools /\ pool[pools[i]].st = "open"
         /\ pool[pools[i]].host \in Hosts /\ ID(pool[pools[i]].host) = i
         /\ i \in late \/ pool[pools[i]].host = ring[i]
BY DEF TypeInv, PoolInv, TypeOK, Mapped, Owned

\* The pools of the map stay open, and the refresher does not come to the ring.
LEMMA PoolsKept ==
  ASSUME PoolInv, UNCHANGED <<ring, pools, late>>,
         \A i \in IDs : pools[i] # None =>
           pool'[pools[i]].st = "open" /\ pool'[pools[i]].host = pool[pools[i]].host,
         refresher'.pc = "rmRing" => refresher.pc = "rmRing" /\ refresher'.host = refresher.host
  PROVE  PoolInv'
BY DEF PoolInv, Mapped, Unmapped

\* The same when no pool changes at all.
LEMMA PoolsUntouched ==
  ASSUME TypeInv, PoolInv, UNCHANGED <<ring, poolVars, late>>,
         refresher'.pc = "rmRing" => refresher.pc = "rmRing" /\ refresher'.host = refresher.host
  PROVE  PoolInv'
<1>1. \A i \in IDs : pools[i] # None =>
        pool'[pools[i]].st = "open" /\ pool'[pools[i]].host = pool[pools[i]].host
  BY MappedFacts DEF poolVars
<1> QED BY <1>1, PoolsKept DEF poolVars

\* A goroutine that steps to another label than rmRing.
LEMMA NotToRing ==
  ASSUME Staffed, NEW x \in Procs, NEW r, r.pc # "rmRing", g' = [g EXCEPT ![x] = r]
  PROVE  refresher'.pc = "rmRing" => refresher.pc = "rmRing" /\ refresher'.host = refresher.host
BY ConstantFacts DEF Staffed, refresher

LEMMA NotToRingStarted ==
  ASSUME NEW gs \in [Procs -> Goroutines], NEW r, Go(gs, r)
  PROVE  refresher' = gs[Refresher]
BY ConstantFacts DEF Go, refresher

\* Collecting pools does not touch one that is open.
LEMMA OpenStays ==
  ASSUME TypeInv, PoolInv, NEW ps, SetPools(ps),
         \A p \in Pools : pool[p].st = "open" => ps[p].st = "open" /\ ps[p].host = pool[p].host
  PROVE  \A i \in IDs : pools[i] # None =>
           pool'[pools[i]].st = "open" /\ pool'[pools[i]].host = pool[pools[i]].host
<1> SUFFICES ASSUME NEW i \in IDs, pools[i] # None
             PROVE  pool'[pools[i]].st = "open" /\ pool'[pools[i]].host = pool[pools[i]].host
  OBVIOUS
<1>1. pools[i] \in Pools /\ pool[pools[i]].st = "open"
  BY MappedFacts
<1> QED BY <1>1 DEF SetPools

LEMMA addHostPool ==
  ASSUME TypeInv, PoolInv, NEW x \in Procs, addHost(x)
  PROVE  PoolInv'
<1>1. TypeOK /\ Staffed
  BY DEF TypeInv
<1> DEFINE h == g[x].host
<1>2. g[x].pc = "addHost" /\ h \in Hosts /\ ID(h) \in IDs /\ UNCHANGED ring
  BY <1>1, AtWork, ConstantFacts DEF Shape, addHost, ringVars
<1>3. ASSUME NEW p, g' = [g EXCEPT ![x].pc = "fill", ![x].pool = p]
      PROVE  refresher'.pc = "rmRing" => refresher.pc = "rmRing" /\ refresher'.host = refresher.host
  <2>1. \A y \in Procs : g'[y].pc = "rmRing" => g'[y] = g[y]
    BY <1>1, <1>3 DEF Staffed, Goroutines
  <2> QED BY <2>1, ConstantFacts DEF refresher
<1>4. CASE pools[ID(h)] # None
  <2>1. UNCHANGED <<poolVars, late>> /\ g' = [g EXCEPT ![x].pc = "fill", ![x].pool = pools[ID(h)]]
    BY <1>4 DEF addHost
  <2> QED BY Zenon, <1>2, <1>3, <2>1, PoolsUntouched
<1>5. CASE pools[ID(h)] = None
  <2>1. PICK p \in Pools :
          /\ pool[p] = Free
          /\ pools' = [pools EXCEPT ![ID(h)] = p]
          /\ pool' = [pool EXCEPT ![p] = [Free EXCEPT !.host = h, !.st = "open"]]
          /\ g' = [g EXCEPT ![x].pc = "fill", ![x].pool = p]
          /\ late' = IF Leaving(h) THEN late \cup {ID(h)} ELSE late
    BY <1>5 DEF addHost
  <2> DEFINE c == [Free EXCEPT !.host = h, !.st = "open"]
  <2>2. c.st = "open" /\ c.host = h /\ Free.st = "free"
    BY DEF Free
  <2>3. pool' = [pool EXCEPT ![p] = c]
    BY <2>1
  <2> HIDE DEF c, h
  <2>4. /\ pools'[ID(h)] = p /\ \A i \in IDs : i # ID(h) => pools'[i] = pools[i]
        /\ pool'[p] = c /\ \A q \in Pools : q # p => pool'[q] = pool[q]
    BY <1>1, <1>2, <2>1, <2>3 DEF TypeOK
  <2>5. Mapped'
    <3> SUFFICES ASSUME NEW i \in IDs, pools'[i] # None
                 PROVE  /\ pool'[pools'[i]].st = "open" /\ ID(pool'[pools'[i]].host) = i
                        /\ i \in late' \/ pool'[pools'[i]].host = ring'[i]
      BY DEF Mapped
    <3>1. CASE i = ID(h)
      <4>1. Leaving(h) \/ ring[ID(h)] = h
        BY DEF Leaving
      <4> QED BY <1>2, <2>1, <2>2, <2>4, <3>1, <4>1
    <3>2. CASE i # ID(h)
      <4>1. pools'[i] = pools[i] /\ pools[i] # None
        BY <2>4, <3>2
      <4>2. /\ pools[i] \in Pools /\ pool[pools[i]].st = "open"
            /\ ID(pool[pools[i]].host) = i
            /\ i \in late \/ pool[pools[i]].host = ring[i]
        BY <4>1, MappedFacts
      <4>3. pools[i] # p
        BY <2>1, <2>2, <4>2
      <4> QED BY <1>2, <2>1, <2>4, <4>1, <4>2, <4>3
    <3> QED BY <3>1, <3>2
  <2>6. Unmapped'
    <3> SUFFICES ASSUME refresher'.pc = "rmRing"
                 PROVE  pools'[ID(refresher'.host)] = None \/ ID(refresher'.host) \in late'
      BY DEF Unmapped
    <3>1. refresher.pc = "rmRing" /\ refresher'.host = refresher.host
      BY Zenon, <1>3, <2>1
    <3>2. ID(refresher.host) \in IDs
      BY <1>1, <3>1, AtWork, ConstantFacts DEF refresher, Shape, Removal
    <3>3. pools[ID(refresher.host)] = None \/ ID(refresher.host) \in late
      BY <3>1 DEF PoolInv, Unmapped
    <3>4. CASE ID(refresher.host) = ID(h)
      BY <2>1, <3>1, <3>4 DEF Leaving, refresher
    <3>5. CASE ID(refresher.host) # ID(h)
      BY <2>1, <2>4, <3>1, <3>2, <3>3, <3>5
    <3> QED BY <3>4, <3>5
  <2> QED BY <2>5, <2>6 DEF PoolInv
<1> QED BY <1>4, <1>5

LEMMA fillPool ==
  ASSUME TypeInv, PoolInv, NEW x \in Procs, fill(x)
  PROVE  PoolInv'
<1>1. TypeOK /\ Staffed
  BY DEF TypeInv
<1> DEFINE p == g[x].pool
<1>2. UNCHANGED <<ring, pools, late>> /\ g[x].pc \in Filling /\ p \in Pools
  BY <1>1, AtWork DEF fill, ringVars, histVars, Filling, Shape, Holding
<1>3. CASE MayFill(p)
  <2> DEFINE c == [pool[p] EXCEPT !.filling = TRUE]
  <2>1. pool' = [pool EXCEPT ![p] = c] /\ Goto(x, "dial") /\ "dial" \in Labels
    BY <1>3 DEF fill, Labels, Filling
  <2>2. c.st = pool[p].st /\ c.host = pool[p].host
    BY <1>1, <1>2 DEF TypeOK, ConnPools
  <2> HIDE DEF c, p
  <2>3. \A q \in Pools : pool'[q].st = pool[q].st /\ pool'[q].host = pool[q].host
    BY <1>1, <2>1, <2>2 DEF TypeOK
  <2>4. \A i \in IDs : pools[i] # None =>
          pool'[pools[i]].st = "open" /\ pool'[pools[i]].host = pool[pools[i]].host
    BY <2>3, MappedFacts
  <2>5. PICK r \in Goroutines : g' = [g EXCEPT ![x] = r] /\ r.pc = "dial"
    BY <1>1, <2>1, GotoFacts
  <2>6. refresher'.pc = "rmRing" => refresher.pc = "rmRing" /\ refresher'.host = refresher.host
    BY Zenon, <1>1, <2>5, NotToRing
  <2> QED BY <1>2, <2>4, <2>6, PoolsKept
<1>4. CASE ~MayFill(p)
  <2>1. g' = [g EXCEPT ![x] = Resumed(x)] /\ SetPools(pool)
    BY <1>4 DEF fill, Resume
  <2>2. refresher'.pc = "rmRing" => refresher.pc = "rmRing" /\ refresher'.host = refresher.host
    BY Zenon, <1>1, <1>2, <2>1, ResumedOK, NotToRing
  <2> QED BY <1>2, <2>1, <2>2, OpenStays, PoolsKept
<1> QED BY <1>3, <1>4

LEMMA ConnectPool ==
  ASSUME TypeInv, PoolInv, NEW x \in Procs, Connect(x)
  PROVE  PoolInv'
<1>1. TypeOK /\ Staffed
  BY DEF TypeInv
<1> DEFINE p == g[x].pool
           gs == [g EXCEPT ![x] = Resumed(x)]
           ps == [pool EXCEPT ![p].full = (pool[p].st # "closed"), ![p].filling = FALSE]
<1>2. UNCHANGED <<ring, pools, late>> /\ g[x].pc \in Filling /\ p \in Pools
  BY <1>1, AtWork DEF Connect, ringVars, histVars, Filling, Shape, Holding
<1>3. SetPools(ps) /\ Go(gs, Job("report", "setUp", pool[p].host))
  BY DEF Connect
<1>4. \A q \in Pools : pool[q].st = "open" => ps[q].st = "open" /\ ps[q].host = pool[q].host
  BY <1>1, <1>2 DEF TypeOK, ConnPools
<1>5. /\ gs \in [Procs -> Goroutines]
      /\ gs[Refresher].pc = "rmRing" => gs[Refresher] = refresher
  BY <1>1, <1>2, ResumedOK, ConstantFacts DEF Staffed, refresher
<1> HIDE DEF ps, gs
<1>6. refresher' = gs[Refresher]
  BY <1>3, <1>5, NotToRingStarted
<1> QED BY <1>2, <1>3, <1>4, <1>5, <1>6, OpenStays, PoolsKept

LEMMA fillingStoppedPool ==
  ASSUME TypeInv, PoolInv, NEW x \in Procs, fillingStopped(x)
  PROVE  PoolInv'
<1>1. TypeOK /\ Staffed
  BY DEF TypeInv
<1> DEFINE p == g[x].pool
           ps == [pool EXCEPT ![p].filling = FALSE]
<1>2. UNCHANGED <<ring, pools, late>> /\ p \in Pools
  BY <1>1, AtWork DEF fillingStopped, ringVars, histVars, Shape, Holding
<1>3. SetPools(ps)
  BY DEF fillingStopped
<1>4. \A q \in Pools : pool[q].st = "open" => ps[q].st = "open" /\ ps[q].host = pool[q].host
  BY <1>1, <1>2 DEF TypeOK, ConnPools
<1>5. \A y \in Procs : g'[y].pc = "rmRing" => g'[y] = g[y]
  <2>1. \A y \in Procs : y # x => g'[y] = g[y]
    BY <1>1 DEF fillingStopped, Staffed
  <2>2. g'[x].pc = "down"
    BY <1>1 DEF fillingStopped, Staffed, Goroutines
  <2> QED BY <2>1, <2>2
<1>6. refresher'.pc = "rmRing" => refresher.pc = "rmRing" /\ refresher'.host = refresher.host
  BY <1>5, ConstantFacts DEF refresher
<1> HIDE DEF ps
<1> QED BY <1>2, <1>3, <1>4, <1>6, OpenStays, PoolsKept

\* The steps of a goroutine that touch no pool.
LEMMA LocalPool ==
  ASSUME TypeInv, PoolInv, NEW x \in Procs,
         \/ ConnectFails(x) \/ PolicyAdd(x) \/ handleNodeDown(x) \/ DownPolicy(x)
         \/ handleNodeConnected(x) \/ PolicyUp(x) \/ Topology(x) \/ handleNodeEvent(x)
  PROVE  PoolInv'
<1>1. Staffed
  BY DEF TypeInv
<1>2. UNCHANGED <<ring, poolVars, late>>
  BY Zenon
     DEF ConnectFails, PolicyAdd, handleNodeDown, DownPolicy, handleNodeConnected, PolicyUp, Topology,
         handleNodeEvent, ringVars, histVars
<1>3. \A y \in Procs : y # x => g'[y] = g[y]
  BY Zenon, <1>1
     DEF ConnectFails, PolicyAdd, handleNodeDown, DownPolicy, handleNodeConnected, PolicyUp,
              Topology, handleNodeEvent, Goto, Resume, Staffed
<1>4. x = Refresher => g'[x].pc # "rmRing"
  <2>1. CASE ConnectFails(x) \/ DownPolicy(x) \/ handleNodeConnected(x)
    BY <1>1, <2>1 DEF ConnectFails, DownPolicy, handleNodeConnected, Goto, Staffed, Goroutines
  <2>2. CASE PolicyAdd(x)
    BY <1>1, <2>2, FilledOK DEF PolicyAdd, Staffed
  <2>3. CASE PolicyUp(x)
    BY Zenon, <1>1, <2>3, IdleOK DEF PolicyUp, Staffed
  <2>4. CASE handleNodeDown(x)
    <3>1. g[x].pc \in Filling
      BY <2>4 DEF handleNodeDown, Filling
    <3>2. Resumed(x).pc # "rmRing"
      BY <1>1, <3>1, ResumedOK
    <3>3. CASE Resume(x)
      BY <1>1, <3>2, <3>3 DEF Resume, Staffed
    <3>4. CASE ~Resume(x)
      BY <1>1, <2>4, <3>4 DEF handleNodeDown, Staffed, Goroutines
    <3> QED BY <3>3, <3>4
  <2>5. CASE Topology(x) \/ handleNodeEvent(x)
    BY Zenon, <1>1, <2>5, AtWork DEF Topology, handleNodeEvent, Shape, Employed, Filling, Removal
  <2> QED BY <2>1, <2>2, <2>3, <2>4, <2>5
<1>5. refresher'.pc = "rmRing" => refresher.pc = "rmRing" /\ refresher'.host = refresher.host
  BY <1>3, <1>4, ConstantFacts DEF refresher
<1> QED BY <1>2, <1>5, PoolsUntouched

\* removeHost of the pools takes the pool of its host, and no other.
LEMMA removeHostPool ==
  ASSUME TypeInv, PoolInv, NEW i \in IDs, removeHost(i), UNCHANGED <<ring, late>>
  PROVE  Mapped' /\ pools'[i] = None /\ \A j \in IDs : j # i => pools'[j] = pools[j]
<1>1. TypeOK /\ Mapped
  BY DEF TypeInv, PoolInv
<1>2. CASE pools[i] = None
  <2>1. UNCHANGED poolVars
    BY <1>2 DEF removeHost
  <2> QED BY <1>1, <1>2, <2>1 DEF Mapped, poolVars
<1>3. CASE pools[i] # None
  <2> DEFINE p == pools[i]
             ps == [pool EXCEPT ![p].st = "closing"]
  <2>1. SetPools(ps) /\ pools' = [pools EXCEPT ![i] = None]
    BY <1>3 DEF removeHost
  <2>2. pools'[i] = None /\ \A j \in IDs : j # i => pools'[j] = pools[j]
    BY <1>1, <2>1 DEF TypeOK
  <2>3. p \in Pools /\ ID(pool[p].host) = i
    BY <1>3, MappedFacts
  <2>4. ASSUME NEW j \in IDs, pools'[j] # None
        PROVE  /\ pool'[pools'[j]].st = "open" /\ ID(pool'[pools'[j]].host) = j
               /\ j \in late' \/ pool'[pools'[j]].host = ring'[j]
    <3>1. j # i /\ pools'[j] = pools[j] /\ pools[j] # None
      BY <2>2, <2>4
    <3>2. /\ pools[j] \in Pools /\ pool[pools[j]].st = "open"
          /\ ID(pool[pools[j]].host) = j
          /\ j \in late \/ pool[pools[j]].host = ring[j]
      BY <3>1, MappedFacts
    <3>3. pools[j] # p
      BY <2>3, <3>1, <3>2
    <3>4. ps[pools[j]] = pool[pools[j]]
      BY <1>1, <3>2, <3>3 DEF TypeOK
    <3>5. pool'[pools[j]] = pool[pools[j]]
      BY Zenon, <2>1, <3>2, <3>4 DEF SetPools
    <3> QED BY <3>1, <3>2, <3>5
  <2> QED BY <2>2, <2>4 DEF Mapped
<1> QED BY <1>2, <1>3

LEMMA DownPoolPool ==
  ASSUME TypeInv, PoolInv, NEW x \in Procs, DownPool(x)
  PROVE  PoolInv'
<1>1. Staffed
  BY DEF TypeInv
<1>2. /\ g[x].pc = "downPool" /\ g[x].pc \in Filling /\ ID(g[x].down) \in IDs
      /\ g' = [g EXCEPT ![x] = Resumed(x)] /\ removeHost(ID(g[x].down)) /\ UNCHANGED <<ring, late>>
  BY <1>1, AtWork, ConstantFacts DEF DownPool, Shape, Filling, Resume, ringVars
<1>3. Mapped' /\ \A j \in IDs : pools'[j] \in {None, pools[j]}
  BY <1>2, removeHostPool
<1>4. refresher'.pc = "rmRing" => refresher.pc = "rmRing" /\ refresher'.host = refresher.host
  BY Zenon, <1>1, <1>2, ResumedOK, NotToRing
<1>5. Unmapped'
  <2> SUFFICES ASSUME refresher'.pc = "rmRing"
               PROVE  pools'[ID(refresher'.host)] = None \/ ID(refresher'.host) \in late'
    BY DEF Unmapped
  <2>1. refresher.pc = "rmRing" /\ refresher'.host = refresher.host
    BY <1>4
  <2>2. ID(refresher.host) \in IDs
    BY <1>1, <2>1, AtWork, ConstantFacts DEF refresher, Shape, Removal
  <2>3. pools[ID(refresher.host)] = None \/ ID(refresher.host) \in late
    BY <2>1 DEF PoolInv, Unmapped
  <2> QED BY <1>2, <1>3, <2>1, <2>2, <2>3
<1> QED BY <1>3, <1>5 DEF PoolInv

LEMMA RmPoolPool ==
  ASSUME TypeInv, PoolInv, RmPool
  PROVE  PoolInv'
<1>1. Staffed /\ refresher.pc = "rmPool" /\ refresher.pc \in Removal
  BY DEF TypeInv, RmPool, Removal
<1>2. refresher'.host = refresher.host
  BY <1>1, RefresherGoto DEF RmPool
<1>3. ID(refresher.host) \in IDs
  BY <1>1, AtWork, ConstantFacts DEF refresher, Shape
<1>4. Mapped' /\ pools'[ID(refresher.host)] = None
  BY <1>3, removeHostPool DEF RmPool, ringVars, histVars
<1> QED BY <1>2, <1>4 DEF PoolInv, Unmapped

LEMMA RmRingPool ==
  ASSUME TypeInv, PoolInv, RmRing
  PROVE  PoolInv'
<1>1. TypeOK /\ Staffed /\ refresher.pc = "rmRing" /\ refresher.pc \in Removal
  BY DEF TypeInv, RmRing, Removal
<1> DEFINE i == ID(refresher.host)
<1>2. PICK l \in {"again", "rows"} : Goto(Refresher, l)
  BY DEF RmRing
<1>3. refresher'.pc # "rmRing"
  BY <1>1, <1>2, RefresherGoto
<1>4. i \in IDs
  BY <1>1, AtWork, ConstantFacts DEF refresher, Shape
<1>5. \A j \in IDs : ring'[j] = IF j = i THEN None ELSE ring[j]
  BY <1>1, <1>4 DEF RmRing, RemoveFromRing, TypeOK
<1>6. pools[i] = None \/ i \in late
  BY <1>1 DEF PoolInv, Unmapped
<1>7. Mapped'
  <2>1. UNCHANGED <<pools, pool, late>>
    BY DEF RmRing, poolVars, histVars
  <2> HIDE DEF i
  <2> QED BY <1>5, <1>6, <2>1 DEF PoolInv, Mapped
<1> QED BY <1>3, <1>7 DEF PoolInv, Unmapped

\* A host comes to the ring under an id that was not in it.
LEMMA AddToRingPool ==
  ASSUME TypeInv, PoolInv, NEW h \in Hosts, ring[ID(h)] = None, AddToRing(h),
         UNCHANGED <<poolVars, late>>
  PROVE  Mapped'
<1>1. \A i \in IDs : ring'[i] = IF i = ID(h) THEN h ELSE ring[i]
  BY ConstantFacts DEF AddToRing, TypeInv, TypeOK
<1> SUFFICES ASSUME NEW i \in IDs, pools[i] # None
             PROVE  /\ pool[pools[i]].st = "open" /\ ID(pool[pools[i]].host) = i
                    /\ i \in late \/ pool[pools[i]].host = ring'[i]
  BY DEF Mapped, poolVars
<1>2. /\ pool[pools[i]].st = "open" /\ ID(pool[pools[i]].host) = i
      /\ i \in late \/ pool[pools[i]].host = ring[i]
      /\ pool[pools[i]].host # None
  BY MappedFacts, ConstantFacts
<1> QED BY <1>1, <1>2

LEMMA AddedPool ==
  ASSUME TypeInv, PoolInv, NEW h \in rows, ring[ID(h)] = None, Added(h),
         UNCHANGED <<poolVars, wanted, events, table>>
  PROVE  PoolInv'
<1>1. h \in Hosts
  BY DEF TypeInv, TypeOK
<1>2. Mapped'
  BY <1>1, AddToRingPool DEF Added
<1>3. refresher'.pc = "addHost"
  BY AddedType
<1> QED BY <1>2, <1>3 DEF PoolInv, Unmapped

LEMMA GivesUpPool ==
  ASSUME TypeInv, PoolInv, GivesUp, UNCHANGED poolVars
  PROVE  PoolInv'
<1>1. refresher'.pc # "rmRing"
  BY GivesUpOK, IdleOK
<1> QED BY <1>1, PoolsUntouched DEF GivesUp, ringVars

LEMMA refreshPool ==
  ASSUME TypeInv, PoolInv, refreshRing
  PROVE  PoolInv'
<1>1. TypeOK /\ Staffed
  BY DEF TypeInv
<1>2. CASE GetHosts
  <2>1. CASE SetRefresh("snapshot", None)
    <3>1. refresher'.pc = "snapshot"
      BY <1>1, <2>1, SetRefreshOK
    <3> QED BY <1>2, <3>1, PoolsUntouched DEF GetHosts, ringVars
  <2>2. CASE UNCHANGED g
    BY <1>2, <2>2, PoolsUntouched DEF GetHosts, ringVars, refresher
  <2> QED BY <1>2, <2>1, <2>2 DEF GetHosts
<1>3. CASE Snapshot
  <2>1. refresher'.pc = "rows"
    BY <1>1, <1>3, SetRefreshOK DEF Snapshot
  <2> QED BY <1>3, <2>1, PoolsUntouched DEF Snapshot, ringVars, histVars
<1>4. ASSUME NEW k \in Hosts, SetRefresh("rmPolicy", k), UNCHANGED <<ring, poolVars, late>>
      PROVE  PoolInv'
  <2>1. refresher'.pc = "rmPolicy"
    BY <1>1, <1>4, SetRefreshOK DEF Removal
  <2> QED BY <1>4, <2>1, PoolsUntouched
<1>5. ASSUME NEW h \in rows, Row(h) PROVE PoolInv'
  <2>1. UNCHANGED <<poolVars, wanted, events, table>>
    BY <1>5 DEF Row, envVars
  <2>2. CASE ring[ID(h)] = None /\ Added(h)
    BY <2>1, <2>2, AddedPool
  <2>3. CASE GivesUp
    BY <2>1, <2>3, GivesUpPool
  <2>4. CASE UNCHANGED <<ringVars, g, histVars>>
    BY <2>1, <2>4, PoolsUntouched DEF ringVars, histVars, refresher
  <2>5. CASE (\E k \in prev : SetRefresh("rmPolicy", k)) /\ UNCHANGED <<ringVars, histVars>>
    BY <1>1, <1>4, <2>1, <2>5 DEF ringVars, histVars, TypeOK
  <2> QED BY <1>5, <2>2, <2>3, <2>4, <2>5 DEF Row
<1>6. CASE Leftover
  <2>1. UNCHANGED <<ring, poolVars, late>>
    BY <1>6 DEF Leftover, ringVars, histVars
  <2>2. CASE \E h \in prev : SetRefresh("rmPolicy", h)
    BY <1>1, <1>4, <2>1, <2>2 DEF TypeOK
  <2>3. CASE g' = [g EXCEPT ![Refresher] = Idle]
    <3>1. Idle.pc # "rmRing" /\ Refresher \in Procs
      BY IdleOK, ConstantFacts
    <3> QED BY Zenon, <1>1, <2>1, <2>3, <3>1, NotToRing, PoolsUntouched
  <2> QED BY <1>6, <2>2, <2>3 DEF Leftover
<1>7. CASE RmPolicy
  <2>1. refresher'.pc = "rmPool"
    BY <1>1, <1>7, RefresherGoto DEF RmPolicy, Removal
  <2> QED BY <1>7, <2>1, PoolsUntouched DEF RmPolicy, ringVars, histVars
<1>8. CASE Again
  <2>1. UNCHANGED <<poolVars, wanted, events, table>>
    BY <1>8 DEF Again, envVars
  <2> QED BY <1>8, <2>1, AddedPool, GivesUpPool DEF Again
<1> QED BY <1>2, <1>3, <1>5, <1>6, <1>7, <1>8, RmPoolPool, RmRingPool DEF refreshRing

LEMMA restPool ==
  ASSUME TypeInv, PoolInv, Tick \/ NextHost \/ flush \/ Change
  PROVE  PoolInv'
<1>1. Staffed
  BY DEF TypeInv
<1>2. UNCHANGED <<ring, poolVars, late>>
  BY Zenon DEF Tick, NextHost, flush, Change, ringVars, histVars
<1>3. CASE Tick \/ NextHost
  <2>1. refresher' = refresher
    BY Zenon, <1>1, <1>3, ConstantFacts DEF Tick, NextHost, Staffed, refresher
  <2> QED BY <1>2, <2>1, PoolsUntouched
<1>4. CASE flush
  <2>1. refresher' = refresher
    BY <1>1, <1>4, NotToRingStarted DEF flush, Staffed, refresher
  <2> QED BY <1>2, <2>1, PoolsUntouched
<1>5. CASE Change
  BY <1>2, <1>5, PoolsUntouched DEF Change, refresher
<1> QED BY <1>3, <1>4, <1>5

LEMMA ClosePoolPool ==
  ASSUME TypeInv, PoolInv, NEW p \in Pools, ClosePool(p)
  PROVE  PoolInv'
<1> DEFINE ps == [pool EXCEPT ![p].st = "closed", ![p].full = FALSE]
<1>1. pool[p].st = "closing" /\ SetPools(ps) /\ UNCHANGED <<g, ring, pools, late>>
  BY DEF ClosePool, ringVars, histVars
<1>2. \A q \in Pools : pool[q].st = "open" => ps[q].st = "open" /\ ps[q].host = pool[q].host
  BY <1>1 DEF TypeInv, TypeOK
<1> HIDE DEF ps
<1> QED BY <1>1, <1>2, OpenStays, PoolsKept DEF refresher

LEMMA HandleErrorPool ==
  ASSUME TypeInv, PoolInv, NEW p \in Pools, HandleError(p)
  PROVE  PoolInv'
<1>1. TypeOK /\ Staffed
  BY DEF TypeInv
<1>2. /\ pool' = [pool EXCEPT ![p].full = FALSE] /\ UNCHANGED <<ring, pools, late>>
      /\ Go(g, [Job("fill", "fill", None) EXCEPT !.pool = p])
  BY DEF HandleError, ringVars, histVars
<1>3. \A q \in Pools : pool'[q].st = pool[q].st /\ pool'[q].host = pool[q].host
  BY <1>1, <1>2 DEF TypeOK, ConnPools
<1>4. \A i \in IDs : pools[i] # None =>
        pool'[pools[i]].st = "open" /\ pool'[pools[i]].host = pool[pools[i]].host
  BY <1>3, MappedFacts
<1>5. refresher' = refresher
  BY <1>1, <1>2, NotToRingStarted DEF Staffed, refresher
<1> QED BY <1>2, <1>4, <1>5, PoolsKept

LEMMA setupConnPool ==
  ASSUME TypeInv, PoolInv, NEW h \in Hosts, setupConn(h)
  PROVE  PoolInv'
<1>1. TypeOK /\ Staffed
  BY DEF TypeInv
<1>2. refresher' = refresher
  <2>1. \E r : Go(g, r)
    BY DEF setupConn
  <2> QED BY <1>1, <2>1, NotToRingStarted DEF Staffed, refresher
<1>3. UNCHANGED <<poolVars, late>>
  BY DEF setupConn
<1>4. CASE ring[ID(h)] = None
  <2>1. Mapped'
    BY <1>3, <1>4, AddToRingPool DEF setupConn
  <2>2. Unmapped'
    BY <1>2, <1>3 DEF PoolInv, Unmapped, poolVars
  <2> QED BY <2>1, <2>2 DEF PoolInv
<1>5. CASE ring[ID(h)] # None
  BY <1>2, <1>3, <1>5, PoolsUntouched DEF setupConn, ringVars
<1> QED BY <1>4, <1>5

LEMMA PoolStep ==
  ASSUME TypeInv, PoolInv, [Next]_vars
  PROVE  PoolInv'
<1>1. ASSUME NEW x \in Procs, Step(x) PROVE PoolInv'
  BY <1>1, addHostPool, fillPool, ConnectPool, fillingStoppedPool, LocalPool, DownPoolPool
     DEF Step, startPoolFill, nodeDown, nodeConnected
<1>2. CASE Tick \/ NextHost \/ flush \/ Change
  BY <1>2, restPool
<1>3. ASSUME NEW p \in Pools, ClosePool(p) \/ HandleError(p) PROVE PoolInv'
  BY <1>3, ClosePoolPool, HandleErrorPool
<1>4. ASSUME NEW h \in Hosts, setupConn(h) PROVE PoolInv'
  BY <1>4, setupConnPool
<1>5. ASSUME NEW a \in Flaky, NEW s \in {"UP", "DOWN"}, Status(a, s) PROVE PoolInv'
  BY <1>5, PoolsUntouched DEF Status, ringVars, refresher
<1>6. CASE UNCHANGED vars
  BY <1>6, PoolsUntouched DEF vars, ringVars, histVars, refresher
<1> QED BY <1>1, <1>2, <1>3, <1>4, <1>5, <1>6, refreshPool DEF Next

------------------------------------------------------------------------------
(* Every step keeps Current *)

LEMMA PendingKept ==
  ASSUME Pending, wanted => wanted', UNCHANGED events,
         \A w \in Workers : Asking(g[w]) => g'[w] = g[w]
  PROVE  Pending'
BY DEF Pending, Asking

\* The refresh is where it was, or goes on with the pool of a host it has added.
LEMMA SyncedKept ==
  ASSUME Synced, UNCHANGED <<ring, rows, prev, table>>,
         \/ refresher' = refresher
         \/ /\ refresher.pc \in {"policyAdd"} \cup Filling
            /\ refresher'.pc \in {"rows", "policyAdd"} \cup Filling
  PROVE  Synced'
<1>1. RingHosts' = RingHosts /\ HostsOf(table)' = HostsOf(table) /\ Read' = Read
  BY DEF RingHosts, HostsOf, Read
<1>2. CASE refresher' = refresher
  BY <1>1, <1>2 DEF Synced
<1>3. CASE /\ refresher.pc \in {"policyAdd"} \cup Filling
           /\ refresher'.pc \in {"rows", "policyAdd"} \cup Filling
  <2>1. refresher' # Idle /\ refresher'.pc \notin {"snapshot"} \cup Removal
    BY <1>3, IdleOK DEF Filling, Removal
  <2>2. /\ rows \subseteq HostsOf(table) /\ Read \cap prev = {}
        /\ RingHosts = Read \cup prev
    BY <1>3 DEF Synced
  <2> QED BY <1>1, <2>1, <2>2 DEF Synced, Removal
<1> QED BY <1>2, <1>3

\* Nobody forgets to ask for a refresh, and the refresh is not disturbed.
LEMMA CurrentKept ==
  ASSUME Current, UNCHANGED <<ring, rows, prev, table, events, missed>>, wanted => wanted',
         wanted' \/ \A w \in Workers : Asking(g[w]) => g'[w] = g[w],
         \/ refresher' = refresher
         \/ /\ refresher.pc \in {"policyAdd"} \cup Filling
            /\ refresher'.pc \in {"rows", "policyAdd"} \cup Filling
  PROVE  Current'
<1>1. CASE missed
  BY <1>1 DEF Current
<1>2. CASE Pending
  <2>1. CASE wanted'
    BY <2>1 DEF Current, Pending
  <2>2. CASE \A w \in Workers : Asking(g[w]) => g'[w] = g[w]
    BY <1>2, <2>2, PendingKept DEF Current
  <2> QED BY <2>1, <2>2
<1>3. CASE Synced
  BY <1>3, SyncedKept DEF Current
<1> QED BY <1>1, <1>2, <1>3 DEF Current

\* Only Topology does what is to be asked for.
LEMMA NotAsking ==
  ASSUME Staffed, NEW x \in Procs, g[x].pc \notin {"idle", "batch"}
  PROVE  ~Asking(g[x])
BY AtWork DEF Shape, Asking

LEMMA StepMoves ==
  ASSUME TypeInv, NEW x \in Procs, Step(x)
  PROVE  \A y \in Procs : y # x => g'[y] = g[y] \/ (y \in Workers /\ g[y] = Idle)
<1>1. Staffed
  BY DEF TypeInv
<1>2. CASE Connect(x)
  <2> DEFINE gs == [g EXCEPT ![x] = Resumed(x)]
  <2>1. \A y \in Procs : y # x => gs[y] = g[y]
    BY <1>1 DEF Staffed
  <2>2. PICK w \in Workers : /\ gs[w] = Idle
                             /\ g' = [gs EXCEPT ![w] = Job("report", "setUp", pool[g[x].pool].host)]
    BY Zenon, <1>2 DEF Connect, Go
  <2>3. gs \in [Procs -> {gs[y] : y \in Procs}]
    BY <1>1 DEF Staffed
  <2> HIDE DEF gs
  <2>4. \A y \in Procs : y # w => g'[y] = gs[y]
    BY <2>2, <2>3
  <2> QED BY <2>1, <2>2, <2>4
<1>3. CASE ~Connect(x)
  <2>1. \/ \E r : g' = [g EXCEPT ![x] = r]
        \/ \E l : g' = [g EXCEPT ![x].pc = l]
        \/ \E l, p : g' = [g EXCEPT ![x].pc = l, ![x].pool = p]
        \/ \E l, d : g' = [g EXCEPT ![x].pc = l, ![x].down = d]
        \/ \E l, d, p : g' = [g EXCEPT ![x].pc = l, ![x].down = d, ![x].pool = p]
    <3>1. CASE addHost(x) \/ fillingStopped(x)
      BY Zenon, <3>1 DEF addHost, fillingStopped
    <3>2. CASE fill(x) \/ ConnectFails(x) \/ PolicyAdd(x)
      BY Zenon, <3>2 DEF fill, ConnectFails, PolicyAdd, Goto, Resume
    <3>3. CASE nodeDown(x)
      BY Zenon, <3>3 DEF nodeDown, handleNodeDown, DownPolicy, DownPool, Goto, Resume
    <3>4. CASE nodeConnected(x)
      BY Zenon, <3>4 DEF nodeConnected, handleNodeConnected, PolicyUp, Goto
    <3>5. CASE Topology(x) \/ handleNodeEvent(x)
      BY Zenon, <3>5 DEF Topology, handleNodeEvent
    <3> QED BY Zenon, <1>3, <3>1, <3>2, <3>3, <3>4, <3>5 DEF Step, startPoolFill
  <2> QED BY Zenon, <1>1, <2>1 DEF Staffed
<1> QED BY <1>2, <1>3

\* What the refresher does in a Step.
LEMMA StepRefresher ==
  ASSUME TypeInv, Step(Refresher)
  PROVE  /\ refresher.pc \in {"policyAdd"} \cup Filling
         /\ refresher'.pc \in {"rows", "policyAdd"} \cup Filling
<1>1. Staffed /\ Refresher \in Procs /\ g[Refresher].job \in {"idle", "refresh"}
  BY ConstantFacts DEF TypeInv, Staffed, Employed
<1>2. g[Refresher].pc \notin {"setUp", "policyUp", "batch"}
  BY <1>1, AtWork DEF Shape, Filling, Removal
<1>3. startPoolFill(Refresher) \/ nodeDown(Refresher)
  BY Zenon, <1>2 DEF Step, nodeConnected, handleNodeConnected, PolicyUp, Topology, handleNodeEvent
<1>4. g[Refresher].pc \in {"policyAdd"} \cup Filling
  BY Zenon, <1>3
     DEF startPoolFill, nodeDown, addHost, fill, Connect, ConnectFails, fillingStopped, PolicyAdd,
              handleNodeDown, DownPolicy, DownPool, Filling
<1>5. g[Refresher].pc \in Filling => Resumed(Refresher).pc = "policyAdd"
  BY <1>1, ResumedOK
<1>6. g'[Refresher].pc \in {"rows", "policyAdd"} \cup Filling
  <2>1. CASE PolicyAdd(Refresher)
    BY <1>1, <2>1, FilledOK DEF PolicyAdd, Staffed
  <2>2. CASE addHost(Refresher) \/ ConnectFails(Refresher) \/ fillingStopped(Refresher)
             \/ DownPolicy(Refresher)
    BY <1>1, <2>2
       DEF addHost, ConnectFails, fillingStopped, DownPolicy, Goto, Staffed, Goroutines, Filling
  <2>3. CASE Resume(Refresher) /\ g[Refresher].pc \in Filling
    BY <1>1, <1>5, <2>3 DEF Resume, Staffed
  <2>4. CASE fill(Refresher)
    <3>1. CASE Resume(Refresher)
      BY <2>3, <2>4, <3>1 DEF fill, Filling
    <3>2. CASE Goto(Refresher, "dial")
      BY <1>1, <3>2 DEF Goto, Staffed, Goroutines, Filling
    <3> QED BY <2>4, <3>1, <3>2 DEF fill
  <2>5. CASE handleNodeDown(Refresher)
    <3>1. CASE Resume(Refresher)
      BY <2>3, <2>5, <3>1 DEF handleNodeDown, Filling
    <3>2. CASE \E h : g' = [g EXCEPT ![Refresher].pc = "downPolicy", ![Refresher].down = h]
      BY <1>1, <3>2 DEF Staffed, Goroutines, Filling
    <3> QED BY <2>5, <3>1, <3>2 DEF handleNodeDown
  <2>6. CASE DownPool(Refresher)
    BY <2>3, <2>6 DEF DownPool, Filling
  <2>7. CASE Connect(Refresher)
    <3> DEFINE gs == [g EXCEPT ![Refresher] = Resumed(Refresher)]
    <3>1. g[Refresher].pc \in Filling
      BY <2>7 DEF Connect, Filling
    <3>2. gs \in [Procs -> Goroutines] /\ gs[Refresher].pc = "policyAdd"
      BY <1>1, <1>5, <3>1, ResumedOK DEF Staffed
    <3>3. refresher' = gs[Refresher]
      BY Zenon, <2>7, <3>2, NotToRingStarted DEF Connect
    <3> QED BY <3>2, <3>3 DEF refresher
  <2> QED BY <1>3, <2>1, <2>2, <2>4, <2>5, <2>6, <2>7 DEF startPoolFill, nodeDown
<1> QED BY <1>4, <1>6 DEF refresher

LEMMA StepCurrent ==
  ASSUME TypeInv, Current, NEW x \in Procs, Step(x)
  PROVE  Current'
<1>1. Staffed
  BY DEF TypeInv
<1>2. /\ UNCHANGED <<ring, rows, prev, table, events, missed>>
      /\ wanted => wanted'
      /\ wanted' \/ ~Topology(x)
  <2>1. wanted' \/ ~Topology(x)
    BY DEF Topology
  <2>2. CASE addHost(x) \/ fill(x) \/ Connect(x)
    BY <2>1, <2>2 DEF addHost, fill, Connect, ringVars, refreshVars, envVars, histVars
  <2>3. CASE ConnectFails(x) \/ fillingStopped(x) \/ PolicyAdd(x)
    BY <2>1, <2>3
       DEF ConnectFails, fillingStopped, PolicyAdd, ringVars, refreshVars, envVars, histVars
  <2>4. CASE nodeDown(x)
    BY <2>1, <2>4
       DEF nodeDown, handleNodeDown, DownPolicy, DownPool, ringVars, refreshVars, envVars,
                      histVars
  <2>5. CASE handleNodeConnected(x)
    BY <2>1, <2>5 DEF handleNodeConnected, ringVars, refreshVars, envVars
  <2>8. CASE PolicyUp(x)
    BY <2>1, <2>8 DEF PolicyUp, ringVars, refreshVars, envVars, histVars
  <2>6. CASE Topology(x)
    BY Zenon, <2>6 DEF Topology, ringVars, envVars, histVars
  <2>7. CASE handleNodeEvent(x)
    <3>1. UNCHANGED <<ring, rows, prev, table, events, missed>>
      BY <2>7 DEF handleNodeEvent, ringVars, envVars, histVars
    <3>2. wanted => wanted'
      BY Zenon, <2>7 DEF handleNodeEvent
    <3> QED BY <2>1, <3>1, <3>2
  <2> QED BY <2>2, <2>3, <2>4, <2>5, <2>6, <2>7, <2>8 DEF Step, startPoolFill, nodeConnected
<1>3. Topology(x) \/ ~Asking(g[x])
  <2>1. CASE handleNodeEvent(x)
    BY <2>1 DEF handleNodeEvent, Asking
  <2>2. CASE startPoolFill(x) \/ nodeDown(x) \/ nodeConnected(x)
    <3>1. g[x].pc \notin {"idle", "batch"}
      BY Zenon, <2>2
         DEF startPoolFill, nodeDown, nodeConnected, addHost, fill, Connect, ConnectFails,
                  fillingStopped, PolicyAdd, handleNodeDown, DownPolicy, DownPool, handleNodeConnected,
                  PolicyUp
    <3> QED BY <1>1, <3>1, NotAsking
  <2> QED BY <2>1, <2>2 DEF Step
<1>4. wanted' \/ \A w \in Workers : Asking(g[w]) => g'[w] = g[w]
  BY <1>2, <1>3, StepMoves, IdleOK, ConstantFacts DEF Asking
<1>5. \/ refresher' = refresher
      \/ /\ refresher.pc \in {"policyAdd"} \cup Filling
         /\ refresher'.pc \in {"rows", "policyAdd"} \cup Filling
  <2>1. CASE x = Refresher
    BY <2>1, StepRefresher
  <2>2. CASE x # Refresher
    BY <2>2, StepMoves, ConstantFacts DEF refresher
  <2> QED BY <2>1, <2>2
<1> QED BY <1>2, <1>4, <1>5, CurrentKept

\* A step of refreshRing leaves what is pending.
LEMMA RefreshCurrent ==
  ASSUME Current, missed => missed', UNCHANGED <<wanted, events>>,
         \A y \in Procs : y # Refresher => g'[y] = g[y],
         Synced => Synced' \/ missed'
  PROVE  Current'
<1>1. CASE Pending
  BY <1>1, PendingKept, ConstantFacts DEF Current
<1> QED BY <1>1 DEF Current

LEMMA GetHostsCurrent ==
  ASSUME TypeInv, Current, GetHosts
  PROVE  Current'
<1>1. Staffed
  BY DEF TypeInv
<1>2. CASE missed'
  BY <1>2 DEF Current
<1>3. CASE ~missed'
  <2>1. rows' = HostsOf(table) /\ SetRefresh("snapshot", None) /\ table' = table
    BY <1>3 DEF GetHosts
  <2>2. refresher'.pc = "snapshot"
    BY <1>1, <2>1, SetRefreshOK
  <2>3. refresher' # Idle /\ rows' = HostsOf(table)'
    BY <2>1, <2>2, IdleOK DEF HostsOf
  <2>4. Synced'
    BY <2>2, <2>3 DEF Synced, Filling
  <2> QED BY <2>4 DEF Current
<1> QED BY <1>2, <1>3

\* In every state of the comparison the rows are those of the table.
LEMMA SyncedRows ==
  ASSUME TypeInv, Synced, refresher.pc \in {"rows", "rmPolicy", "rmPool", "rmRing", "again"}
  PROVE  /\ rows \subseteq HostsOf(table) /\ Read \cap prev = {}
         /\ Read \subseteq Hosts /\ prev \subseteq Hosts
         /\ \A h \in rows : \A k \in Read : ID(h) # ID(k)
         /\ \A h, k \in rows : ID(h) = ID(k) => h = k
<1>1. rows \subseteq HostsOf(table) /\ Read \cap prev = {}
  BY DEF Synced
<1>2. /\ HostsOf(table) \subseteq Hosts
      /\ \A h, k \in HostsOf(table) : ID(h) = ID(k) => h = k
  BY HostsOfFacts DEF TypeInv, TypeOK
<1> QED BY <1>1, <1>2 DEF Read, TypeInv, TypeOK

\* No two hosts of the ring have one id.
LEMMA RingByID ==
  ASSUME TypeInv
  PROVE  \A h, k \in RingHosts : ID(h) = ID(k) => h = k
BY RingHostsFacts DEF TypeInv

LEMMA SnapshotCurrent ==
  ASSUME TypeInv, Current, Snapshot
  PROVE  Current'
<1>1. Staffed
  BY DEF TypeInv
<1>2. /\ refresher'.pc = "rows" /\ refresher' # Idle
      /\ \A y \in Procs : y # Refresher => g'[y] = g[y]
  BY <1>1, SetRefreshOK, IdleOK DEF Snapshot
<1>3. UNCHANGED <<ring, rows, table, wanted, events, missed>> /\ prev' = RingHosts
  BY DEF Snapshot, RingHosts, ringVars, envVars, histVars
<1>4. RingHosts' = RingHosts /\ HostsOf(table)' = HostsOf(table) /\ Read' = Read
  BY <1>3 DEF RingHosts, HostsOf, Read
<1>5. ASSUME Synced PROVE Synced'
  <2>1. rows = HostsOf(table)
    BY <1>5 DEF Synced, Snapshot
  <2>2. Read = {}
    BY <2>1 DEF Read
  <2> QED BY <1>2, <1>3, <1>4, <2>1, <2>2 DEF Synced, Filling, Removal
<1> QED BY <1>2, <1>3, <1>5, RefreshCurrent

\* A host of the table that the ring lacks is added, and what the ring had under its
\* id, if anything, is not in it any more.
LEMMA AddedCurrent ==
  ASSUME TypeInv, Current, NEW h \in rows, ring[ID(h)] = None, Added(h), refresher.pc \in {"rows", "again"},
         refresher.pc = "again" => ID(refresher.host) = ID(h),
         UNCHANGED <<poolVars, wanted, events, table>>
  PROVE  Current'
<1>1. TypeOK /\ h \in Hosts
  BY DEF TypeInv, TypeOK
<1>2. /\ refresher'.pc = "addHost" /\ refresher' # Idle
      /\ \A y \in Procs : y # Refresher => g'[y] = g[y]
  BY AddedType, IdleOK
<1>3. RingHosts' = RingHosts \cup {h}
  BY <1>1, AddToRingOK DEF Added
<1>4. /\ rows' = rows \ {h} /\ prev' = {k \in prev : ID(k) # ID(h)}
      /\ UNCHANGED <<missed, wanted, events, table>>
  BY DEF Added, Gone
<1>5. HostsOf(table)' = HostsOf(table)
  BY <1>4 DEF HostsOf
<1>6. ASSUME Synced PROVE Synced'
  <2>1. /\ rows \subseteq HostsOf(table) /\ Read \cap prev = {}
        /\ Read \subseteq Hosts /\ prev \subseteq Hosts
    BY <1>6, SyncedRows
  <2>2. Read' = Read \cup {h} /\ h \notin prev'
    BY <1>4, <1>5, <2>1 DEF Read
  <2>3. \A k \in RingHosts : ID(k) # ID(h)
    <3>1. \A k \in RingHosts : ring[ID(k)] = k /\ k \in Hosts
      BY <1>1, RingHostsFacts
    <3> QED BY <3>1, ConstantFacts
  <2>4. RingHosts = Read \cup prev'
    <3>1. CASE refresher.pc = "rows"
      <4>1. RingHosts = Read \cup prev
        BY <1>6, <3>1 DEF Synced
      <4> QED BY <1>4, <2>3, <4>1
    <3>2. CASE refresher.pc = "again"
      <4>1. RingHosts = Read \cup (prev \ {refresher.host})
        BY <1>6, <3>2 DEF Synced
      <4>2. refresher.host \notin prev'
        BY <1>4, <3>2
      <4> QED BY <1>4, <2>3, <4>1, <4>2
    <3> QED BY <3>1, <3>2
  <2>5. rows' \subseteq HostsOf(table)' /\ Read' \cap prev' = {} /\ RingHosts' = Read' \cup prev'
    BY <1>3, <1>4, <1>5, <2>1, <2>2, <2>4
  <2> QED BY <1>2, <2>5 DEF Synced, Filling, Removal
<1> QED BY <1>2, <1>4, <1>6, RefreshCurrent

LEMMA GivesUpCurrent ==
  ASSUME GivesUp
  PROVE  Current'
BY DEF GivesUp, Current

\* removeHost of a host that is in no row, or whose address is not the row's, begins.
LEMMA RemovalCurrent ==
  ASSUME TypeInv, Current, NEW k \in prev, SetRefresh("rmPolicy", k), refresher.pc = "rows",
         \/ prev' = prev \ {k}
         \/ prev' = prev /\ \E h \in rows : ID(h) = ID(k),
         UNCHANGED <<ring, rows, wanted, events, table, missed>>
  PROVE  Current'
<1>1. TypeOK /\ Staffed /\ k \in Hosts
  BY DEF TypeInv, TypeOK
<1>2. /\ refresher'.pc = "rmPolicy" /\ refresher'.host = k /\ refresher' # Idle
      /\ \A y \in Procs : y # Refresher => g'[y] = g[y]
  BY <1>1, SetRefreshOK, IdleOK DEF Removal
<1>3. RingHosts' = RingHosts /\ HostsOf(table)' = HostsOf(table) /\ Read' = Read
  BY DEF RingHosts, HostsOf, Read
<1>4. ASSUME Synced PROVE Synced'
  <2>1. /\ rows \subseteq HostsOf(table) /\ Read \cap prev = {}
        /\ RingHosts = Read \cup prev
    BY <1>4 DEF Synced
  <2>2. /\ Read' \cap prev' = {} /\ k \notin Read' /\ RingHosts' = Read' \cup prev' \cup {k}
        /\ k \in prev' => \E h \in rows' : ID(h) = ID(k)
    BY <1>3, <2>1
  <2> QED BY <1>2, <1>3, <2>1, <2>2 DEF Synced, Filling, Removal
<1> QED BY <1>2, <1>4, RefreshCurrent

LEMMA RowCurrent ==
  ASSUME TypeInv, Current, NEW h \in rows, Row(h)
  PROVE  Current'
<1>1. refresher.pc = "rows" /\ UNCHANGED <<poolVars, wanted, events, table>>
  BY DEF Row, envVars
<1>2. CASE ring[ID(h)] = None /\ Added(h)
  BY <1>1, <1>2, AddedCurrent
<1>3. CASE GivesUp
  BY <1>3, GivesUpCurrent
<1>4. CASE /\ h \in prev /\ rows' = rows \ {h} /\ prev' = prev \ {h}
           /\ UNCHANGED <<ringVars, g, histVars>>
  <2>1. UNCHANGED <<ring, g, missed>> /\ refresher' = refresher
    BY <1>4 DEF ringVars, histVars, refresher
  <2>2. RingHosts' = RingHosts /\ HostsOf(table)' = HostsOf(table)
    BY <1>1, <2>1 DEF RingHosts, HostsOf
  <2>3. ASSUME Synced PROVE Synced'
    <3>1. /\ rows \subseteq HostsOf(table) /\ Read \cap prev = {}
          /\ RingHosts = Read \cup prev
      BY <1>1, <2>3 DEF Synced
    <3>2. Read' = Read \cup {h}
      BY <1>4, <2>2, <3>1 DEF Read
    <3>3. rows' \subseteq HostsOf(table)' /\ Read' \cap prev' = {} /\ RingHosts' = Read' \cup prev'
      BY <1>4, <2>2, <3>1, <3>2
    <3>4. refresher' # Idle /\ refresher'.pc = "rows"
      BY <1>1, <2>1, IdleOK
    <3> QED BY <3>3, <3>4 DEF Synced, Filling, Removal
  <2> QED BY <1>1, <2>1, <2>3, RefreshCurrent
<1>5. CASE /\ \E k \in prev : ID(k) = ID(h) /\ SetRefresh("rmPolicy", k)
           /\ UNCHANGED <<ringVars, rows, prev, histVars>>
  BY <1>1, <1>5, RemovalCurrent DEF ringVars, histVars
<1> QED BY <1>2, <1>3, <1>4, <1>5 DEF Row

LEMMA LeftoverCurrent ==
  ASSUME TypeInv, Current, Leftover
  PROVE  Current'
<1>1. /\ refresher.pc = "rows" /\ rows = {}
      /\ UNCHANGED <<ring, rows, wanted, events, table, missed>>
  BY DEF Leftover, ringVars, envVars, histVars
<1>2. CASE \E h \in prev : prev' = prev \ {h} /\ SetRefresh("rmPolicy", h)
  BY <1>1, <1>2, RemovalCurrent
<1>3. CASE prev = {} /\ g' = [g EXCEPT ![Refresher] = Idle]
  <2>1. refresher' = Idle /\ refresher'.pc = "idle" /\ \A y \in Procs : y # Refresher => g'[y] = g[y]
    BY <1>3, IdleOK, ConstantFacts DEF TypeInv, Staffed, refresher
  <2>2. RingHosts' = RingHosts /\ HostsOf(table)' = HostsOf(table)
    BY <1>1 DEF RingHosts, HostsOf
  <2>3. ASSUME Synced PROVE Synced'
    <3>1. RingHosts = HostsOf(table)
      BY <1>1, <1>3, <2>3 DEF Synced, Read
    <3> QED BY <2>1, <2>2, <3>1 DEF Synced, Filling
  <2> QED BY <1>1, <2>1, <2>3, RefreshCurrent
<1> QED BY <1>2, <1>3 DEF Leftover

LEMMA RmRingCurrent ==
  ASSUME TypeInv, Current, RmRing
  PROVE  Current'
<1>1. TypeOK /\ Staffed /\ refresher.pc = "rmRing" /\ refresher.pc \in Removal
  BY DEF TypeInv, RmRing, Removal
<1> DEFINE k == refresher.host
           i == ID(k)
           l == IF \E h \in rows : ID(h) = i THEN "again" ELSE "rows"
<1>2. k \in Hosts /\ i \in IDs
  BY <1>1, AtWork, ConstantFacts DEF refresher, Shape
<1>3. UNCHANGED <<takenOver, rows, prev, wanted, events, table, missed>>
  BY DEF RmRing, refreshVars, envVars, histVars
<1>4. RingHosts' = {h \in RingHosts : ID(h) # i}
  BY <1>2, <1>3, RemoveFromRingOK DEF RmRing
<1>5. /\ refresher'.pc = l /\ refresher'.host = k /\ refresher' # Idle
      /\ \A y \in Procs : y # Refresher => g'[y] = g[y]
  BY <1>1, RefresherGoto, IdleOK DEF RmRing
<1>6. HostsOf(table)' = HostsOf(table) /\ Read' = Read
  BY <1>3 DEF HostsOf, Read
<1>7. ASSUME Synced PROVE Synced'
  <2>1. /\ rows \subseteq HostsOf(table) /\ Read \cap prev = {} /\ k \notin Read
        /\ RingHosts = Read \cup prev \cup {k}
        /\ k \in prev => \E h \in rows : ID(h) = i
    BY <1>1, <1>7 DEF Synced
  <2>2. RingHosts' = Read \cup (prev \ {k})
    <3>1. \A h \in RingHosts : ID(h) = i => h = k
      BY <2>1, RingByID
    <3> HIDE DEF k
    <3> QED BY <1>4, <2>1, <3>1
  <2>3. l = "rows" => k \notin prev
    BY <2>1
  <2> HIDE DEF k, i
  <2>4. CASE l = "rows"
    <3>1. RingHosts' = Read' \cup prev' /\ Read' \cap prev' = {} /\ rows' \subseteq HostsOf(table)'
      BY <1>3, <1>6, <2>1, <2>2, <2>3, <2>4
    <3> HIDE DEF l
    <3> QED BY <1>5, <2>4, <3>1 DEF Synced, Filling, Removal
  <2>5. CASE l = "again"
    <3>1. /\ RingHosts' = Read' \cup (prev' \ {refresher'.host}) /\ Read' \cap prev' = {}
          /\ rows' \subseteq HostsOf(table)'
      BY <1>3, <1>5, <1>6, <2>1, <2>2
    <3> HIDE DEF l
    <3> QED BY <1>5, <2>5, <3>1 DEF Synced, Filling, Removal
  <2> QED BY <2>4, <2>5
<1> QED BY <1>3, <1>5, <1>7, RefreshCurrent

LEMMA refreshCurrent ==
  ASSUME TypeInv, Current, refreshRing
  PROVE  Current'
<1>1. Staffed
  BY DEF TypeInv
<1>2. CASE RmPolicy \/ RmPool
  <2>1. UNCHANGED <<ring, rows, prev, wanted, events, table, missed>>
    BY <1>2 DEF RmPolicy, RmPool, ringVars, refreshVars, envVars, histVars
  <2>2. /\ refresher.pc \in {"rmPolicy", "rmPool"} /\ refresher.pc \in Removal
        /\ Goto(Refresher, "rmPool") \/ Goto(Refresher, "rmRing")
    BY <1>2 DEF RmPolicy, RmPool, Removal
  <2>3. /\ refresher'.pc \in {"rmPool", "rmRing"} /\ refresher'.host = refresher.host
        /\ refresher' # Idle /\ \A y \in Procs : y # Refresher => g'[y] = g[y]
    BY <1>1, <2>2, RefresherGoto, IdleOK
  <2>4. RingHosts' = RingHosts /\ HostsOf(table)' = HostsOf(table) /\ Read' = Read
    BY <2>1 DEF RingHosts, HostsOf, Read
  <2>5. ASSUME Synced PROVE Synced'
    BY <2>1, <2>2, <2>3, <2>4, <2>5 DEF Synced, Filling, Removal
  <2> QED BY <2>1, <2>3, <2>5, RefreshCurrent
<1>3. CASE Again
  <2>1. UNCHANGED <<poolVars, wanted, events, table>> /\ refresher.pc = "again"
    BY <1>3 DEF Again, envVars
  <2>2. PICK h \in rows : /\ ID(h) = ID(refresher.host)
                          /\ IF ring[ID(h)] = None THEN Added(h) ELSE GivesUp
    BY <1>3 DEF Again
  <2> QED BY <2>1, <2>2, AddedCurrent, GivesUpCurrent
<1> QED BY <1>2, <1>3, GetHostsCurrent, SnapshotCurrent, RowCurrent, LeftoverCurrent, RmRingCurrent
        DEF refreshRing

LEMMA restCurrent ==
  ASSUME TypeInv, Current, Tick \/ NextHost \/ \E p \in Pools : ClosePool(p) \/ HandleError(p)
  PROVE  Current'
<1>1. Staffed /\ g \in [Procs -> Goroutines]
  BY DEF TypeInv, Staffed
<1>2. UNCHANGED <<ring, rows, prev, table, events, missed, wanted>>
  BY Zenon DEF Tick, NextHost, ClosePool, HandleError, ringVars, refreshVars, envVars, histVars
<1>3. CASE Tick \/ NextHost
  <2>1. \A y \in Procs : y # Reconnector => g'[y] = g[y]
    BY Zenon, <1>1, <1>3 DEF Tick, NextHost
  <2> QED BY <1>2, <2>1, CurrentKept, ConstantFacts DEF refresher
<1>4. CASE \E p \in Pools : ClosePool(p)
  BY <1>2, <1>4, CurrentKept DEF ClosePool, refresher
<1>5. CASE \E p \in Pools : HandleError(p)
  <2>1. PICK r : Go(g, r)
    BY <1>5 DEF HandleError
  <2>2. PICK w \in Workers : g[w] = Idle /\ g' = [g EXCEPT ![w] = r]
    BY Zenon, <2>1 DEF Go
  <2>3. \A y \in Procs : g'[y] = g[y] \/ (y \in Workers /\ g[y] = Idle)
    BY <1>1, <2>2
  <2> QED BY <1>2, <2>3, CurrentKept, IdleOK, ConstantFacts DEF refresher, Asking
<1> QED BY <1>3, <1>4, <1>5

\* The batch that is flushed has the change of the topology.
LEMMA flushCurrent ==
  ASSUME TypeInv, Current, flush
  PROVE  Current'
<1>1. Staffed /\ g \in [Procs -> Goroutines] /\ events \in Seq(Events)
  BY DEF TypeInv, Staffed, TypeOK
<1>2. UNCHANGED <<ring, rows, prev, table, missed, wanted>>
  BY DEF flush, ringVars, refreshVars, envVars, histVars
<1>3. PICK w \in Workers : g[w] = Idle /\ g' = [g EXCEPT ![w] = Batch(Latest(events))]
  BY Zenon DEF flush, Go
<1>4. \A y \in Procs : y # w => g'[y] = g[y]
  BY <1>1, <1>3
<1>5. g'[w] = Batch(Latest(events))
  BY <1>1, <1>3, ConstantFacts
<1>6. CASE Pending
  <2>1. CASE wanted
    BY <1>2, <2>1 DEF Current, Pending
  <2>2. CASE \E n \in 1 .. Len(events) : events[n] = TopologyChange
    <3>1. Latest(events) \in SUBSET Events /\ TopologyChange \in Latest(events)
      BY <1>1, <2>2, LatestTopology
    <3>2. Asking(g'[w])
      BY <1>5, <3>1, BatchOK DEF Asking
    <3> QED BY <3>2 DEF Current, Pending, Asking
  <2>3. CASE \E v \in Workers : Asking(g[v])
    <3>1. PICK v \in Workers : Asking(g[v])
      BY <2>3
    <3>2. g'[v] = g[v]
      BY <1>3, <1>4, <3>1, IdleOK, ConstantFacts DEF Asking
    <3> QED BY <3>1, <3>2 DEF Current, Pending, Asking
  <2> QED BY <1>6, <2>1, <2>2, <2>3 DEF Pending
<1>7. CASE Synced
  <2>1. refresher' = refresher
    BY <1>3, <1>4, ConstantFacts DEF refresher
  <2> QED BY <1>2, <1>7, <2>1, SyncedKept DEF Current
<1> QED BY <1>2, <1>6, <1>7 DEF Current

\* The events that are there stay there.
LEMMA debounceCurrent ==
  ASSUME TypeInv, Current, NEW e \in Events, debounce(e), UNCHANGED <<ring, g, rows, prev, wanted>>,
         e = TopologyChange \/ UNCHANGED table
  PROVE  Current'
<1>1. /\ \A n \in 1 .. Len(events) : n \in 1 .. Len(events') /\ events'[n] = events[n]
      /\ e = TopologyChange => missed' \/ \E n \in 1 .. Len(events') : events'[n] = TopologyChange
      /\ missed => missed'
  BY debounceOK DEF TypeInv
<1>2. CASE Pending
  BY <1>1, <1>2 DEF Current, Pending, Asking
<1>3. CASE e = TopologyChange
  BY <1>1, <1>3 DEF Current, Pending
<1>4. CASE Synced /\ UNCHANGED table
  BY <1>4, SyncedKept DEF Current, refresher
<1> QED BY <1>1, <1>2, <1>3, <1>4 DEF Current

LEMMA CurrentStep ==
  ASSUME TypeInv, Current, [Next]_vars
  PROVE  Current'
<1>1. CASE \E h \in Hosts : setupConn(h)
  BY <1>1 DEF setupConn, Current, Pending
<1>2. CASE Change
  BY <1>2, debounceCurrent DEF Change, ringVars, refreshVars, Events
<1>3. ASSUME NEW a \in Flaky, NEW s \in {"UP", "DOWN"}, Status(a, s) PROVE Current'
  <2>1. [addr |-> a, change |-> s] \in Events
    BY DEF Events, StatusEvents
  <2> QED BY <1>3, <2>1, debounceCurrent DEF Status, ringVars, refreshVars
<1>4. CASE UNCHANGED vars
  BY <1>4, CurrentKept DEF vars, ringVars, refreshVars, envVars, histVars, refresher
<1> QED BY <1>1, <1>2, <1>3, <1>4, StepCurrent, refreshCurrent, restCurrent, flushCurrent DEF Next

------------------------------------------------------------------------------
(* The theorems *)

LEMMA InitCurrent == Init => Current
<1> SUFFICES ASSUME Init PROVE Synced
  BY DEF Current
<1>1. refresher = Idle
  BY ConstantFacts DEF Init, refresher
<1>2. RingHosts = HostsOf(table)
  <2>1. /\ table = First
        /\ \A i \in IDs : ring[i] = IF First[i] = None THEN None ELSE <<i, First[i]>>
    BY DEF Init
  <2>2. \A i \in IDs : First[i] # None => <<i, First[i]>> \in Hosts
    BY TablesAssumption DEF Hosts
  <2>3. ASSUME NEW i \in IDs PROVE ring[i] = None <=> First[i] = None
    <3>1. CASE First[i] = None
      BY Zenon, <2>1, <3>1
    <3>2. CASE First[i] # None
      <4>1. ring[i] = <<i, First[i]>> /\ <<i, First[i]>> \in Hosts
        BY <2>1, <2>2, <3>2
      <4> QED BY <3>2, <4>1, ConstantFacts
    <3> QED BY <3>1, <3>2
  <2> QED BY Zenon, <2>1, <2>3 DEF RingHosts, HostsOf
<1> QED BY <1>1, <1>2, IdleOK DEF Synced, Filling

IInv == TypeInv /\ PoolInv /\ Current

LEMMA Inductive == Spec => []IInv
<1>1. Init => IInv
  BY Initially, InitCurrent DEF IInv
<1>2. IInv /\ [Next]_vars => IInv'
  BY TypeStep, PoolStep, CurrentStep DEF IInv
<1> QED BY <1>1, <1>2, PTL DEF Spec

\* However handleNodeEvent, refreshRing and the control connection interleave, an
\* address leads getHostByIP to a host that lives there, and every host of the ring
\* is found unless its address passed from one id to another.
THEOREM AddressesAlwaysExact == Spec => []AddressesExact
<1>1. IInv => AddressesExact
  BY DEF IInv, TypeInv
<1> QED BY <1>1, Inductive, PTL

\* A session at rest holds no pool of a host that left the ring or moved, unless it
\* was made for a host that had left by then.
THEOREM PoolsFollowRing == Spec => []PoolsMatchRing
<1>1. IInv => PoolsMatchRing
  BY DEF IInv, PoolInv, Mapped, PoolsMatchRing
<1> QED BY <1>1, Inductive, PTL

\* A session at rest whose last refresh went through has the ring of the cluster.
THEOREM RingFollowsCluster == Spec => []RingCurrent
<1>1. IInv => RingCurrent
  <2> SUFFICES ASSUME IInv, AtRest, ~missed PROVE RingHosts = HostsOf(table)
    BY DEF RingCurrent
  <2>1. \A x \in Procs : g[x] = Idle
    BY DEF AtRest
  <2>2. events = <<>> /\ ~wanted
    BY DEF AtRest
  <2>3. ~Pending
    <3>1. \A w \in Workers : ~Asking(g[w])
      BY <2>1, IdleOK, ConstantFacts DEF Asking
    <3>2. Len(events) = 0
      BY <2>2
    <3> QED BY <2>2, <3>1, <3>2 DEF Pending
  <2> QED BY <2>1, <2>3, ConstantFacts DEF IInv, Current, Synced, refresher
<1> QED BY <1>1, Inductive, PTL

==============================================================================
