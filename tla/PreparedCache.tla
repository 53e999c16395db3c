----------------------------- MODULE PreparedCache ----------------------------
(***************************************************************************)
(* The cache of prepared statements of one node: preparedLRU over lru.go,  *)
(* the flights of prepareStatement, and executeQuery and executeBatch of   *)
(* conn.go, which prepare their statements, execute them and react to      *)
(* UNPREPARED and to changed result metadata (protocol 5).                 *)
(*                                                                         *)
(* A work is the sequence of the statements of one request: a query has    *)
(* one, a batch two.  The node may forget its statements and change the    *)
(* metadata of their results at any time.                                  *)
(***************************************************************************)
EXTENDS Naturals, Sequences

CONSTANTS
  Procs,          \* goroutines that execute queries and batches
  Stmts,          \* statements: the keys of the cache
  NumFlights,     \* inflightPrepare objects; those nobody refers to are reused
  MaxEntries,     \* MaxPreparedStmts
  Works,          \* what each may execute: <<stmt>> a query, longer ones batches
  MaxID, MaxMeta, \* bounds: ids and metadata the node gives a statement
  MaxFaults       \* bound: statements forgotten or altered, contexts done,
                  \* PREPAREs failed

ASSUME BoundsAssumption ==
  /\ \A p \in Procs : Works[p] \subseteq Seq(Stmts) \ {<<>>}
  /\ NumFlights \in Nat /\ MaxEntries \in Nat \ {0}
  /\ MaxID \in Nat \ {0} /\ MaxMeta \in Nat \ {0} /\ MaxFaults \in Nat

Flights == 1 .. NumFlights
None == 0         \* no flight

VARIABLES
  ll,             \* lru.ll: the keys of the cache, the most recent one first
  cache,          \* lru.cache: the flight of each key, or None
  flights,        \* the flights: key, preparedStatment, and how far each is
  pc,             \* where each execution is
  work,           \* its statements
  infos,          \* what was prepared for them so far
  flight,         \* the flight it waits for
  resp,           \* the response to its EXECUTE or BATCH
  old,            \* the id of oldInflight.preparedStatment
  known,          \* the node has the statement prepared
  id, meta,       \* the id and the result metadata it has for it
  misread,        \* history: rows were decoded with other metadata than theirs
  faults,         \* the number of faults so far
  lost,           \* history: queries whose statement left the cache meanwhile
  calm            \* from now on the node forgets and changes nothing, and no
                  \* execution starts

cacheVars == <<ll, cache>>
procVars == <<pc, work, infos, flight, resp, old>>
nodeVars == <<known, id, meta, faults>>
histVars == <<misread, lost, calm>>
vars == <<cacheVars, flights, procVars, nodeVars, histVars>>

\* preparedStatment: its id, resultMetadataID, and the metadata itself.
NoStmt == [id |-> 0, metaID |-> 0, response |-> 0]
Fresh == [state |-> "free", key |-> None, stmt |-> NoStmt]
NoResp == [kind |-> "none", stmt |-> 0, id |-> 0, meta |-> 0]

Init ==
  /\ ll = <<>> /\ cache = [k \in Stmts |-> None]
  /\ flights = [f \in Flights |-> Fresh]
  /\ pc = [p \in Procs |-> "idle"]
  /\ work = [p \in Procs |-> <<>>]
  /\ infos = [p \in Procs |-> <<>>]
  /\ flight = [p \in Procs |-> None]
  /\ resp = [p \in Procs |-> NoResp]
  /\ old = [p \in Procs |-> 0]
  /\ known = [k \in Stmts |-> FALSE]
  /\ id = [k \in Stmts |-> 1] /\ meta = [k \in Stmts |-> 1] /\ faults = 0
  /\ misread = FALSE /\ lost = {} /\ calm = FALSE

-------------------------------------------------------------------------------
(* lru.go *)

Without(k) == SelectSeq(ll, LAMBDA x : x # k)
MoveToFront(k) == ll' = <<k>> \o Without(k) /\ UNCHANGED cache

\* A key leaves the cache: the queries of that statement are noted.
Left(k) == lost' = lost \cup {p \in Procs : work[p] = <<k>>}

Add(k, f) ==
  LET front == <<k>> \o Without(k)
      oldest == front[Len(front)]
  IN  IF Len(front) > MaxEntries
        THEN /\ ll' = SubSeq(front, 1, MaxEntries)
             /\ cache' = [cache EXCEPT ![k] = f, ![oldest] = None]
             /\ Left(oldest)
        ELSE /\ ll' = front
             /\ cache' = [cache EXCEPT ![k] = f]
             /\ UNCHANGED lost

Remove(k) ==
  /\ ll' = Without(k)
  /\ cache' = [cache EXCEPT ![k] = None]
  /\ Left(k)

-------------------------------------------------------------------------------
(* prepareStatement *)

\* The flights are fs; those that nobody can reach any more are collected.
SetFlights(fs) ==
  flights' = [f \in Flights |->
    IF \/ fs[f].state # "closed"
       \/ \E k \in Stmts : cache'[k] = f
       \/ \E p \in Procs : flight'[p] = f
      THEN fs[f] ELSE Fresh]

\* new(inflightPrepare).
NewFlight(f) ==
  /\ flights[f] = Fresh
  /\ \A g \in Flights : flights[g] = Fresh => f <= g

Goto(p, l) == pc' = [pc EXCEPT ![p] = l]

\* The execution ends; its locals are gone.
Ends(p) ==
  /\ Goto(p, "idle")
  /\ work' = [work EXCEPT ![p] = <<>>]
  /\ infos' = [infos EXCEPT ![p] = <<>>]
  /\ flight' = [flight EXCEPT ![p] = None]
  /\ resp' = [resp EXCEPT ![p] = NoResp]
  /\ old' = [old EXCEPT ![p] = 0]

\* The statement the execution has to prepare next.
Current(p) == work[p][Len(infos[p]) + 1]

Start(p, w) ==
  /\ pc[p] = "idle" /\ ~calm
  /\ work' = [work EXCEPT ![p] = w]
  /\ lost' = lost \ {p}
  /\ Goto(p, "lookup")
  /\ UNCHANGED <<cacheVars, flights, infos, flight, resp, old, nodeVars, misread, calm>>

\* execIfMissing finds a flight.
Hit(p) ==
  /\ pc[p] = "lookup"
  /\ cache[Current(p)] # None
  /\ flight' = [flight EXCEPT ![p] = cache[Current(p)]]
  /\ MoveToFront(Current(p))
  /\ Goto(p, "wait")
  /\ UNCHANGED <<flights, work, infos, resp, old, nodeVars, histVars>>

\* It finds none, makes one, and starts the goroutine that loads it.
Missing(p) == cache[Current(p)] = None

Miss(p, f) ==
  /\ pc[p] = "lookup"
  /\ Missing(p)
  /\ NewFlight(f)
  /\ Add(Current(p), f)
  /\ flight' = [flight EXCEPT ![p] = f]
  /\ SetFlights([flights EXCEPT ![f] =
                   [state |-> "loading", key |-> Current(p), stmt |-> NoStmt]])
  /\ Goto(p, "wait")
  /\ UNCHANGED <<work, infos, resp, old, nodeVars, misread, calm>>

\* case <-flight.done, with a statement: on to the next one, or all are there.
Prepared(p) ==
  /\ pc[p] = "wait"
  /\ flights[flight[p]].state = "closed" /\ flights[flight[p]].stmt # NoStmt
  /\ infos' = [infos EXCEPT ![p] = Append(@, flights[flight[p]].stmt)]
  /\ flight' = [flight EXCEPT ![p] = None]
  /\ UNCHANGED cacheVars
  /\ SetFlights(flights)
  /\ Goto(p, IF Len(infos[p]) + 1 = Len(work[p]) THEN "execute" ELSE "lookup")
  /\ UNCHANGED <<work, resp, old, nodeVars, histVars>>

\* A context is done, a PREPARE fails, or the node forgets or changes a statement.
Fault == ~calm /\ faults < MaxFaults /\ faults' = faults + 1

\* case <-flight.done, with an error.
PrepareFails(p) ==
  /\ pc[p] = "wait"
  /\ flights[flight[p]].state = "closed" /\ flights[flight[p]].stmt = NoStmt
  /\ Ends(p)
  /\ UNCHANGED cacheVars
  /\ SetFlights(flights)
  /\ UNCHANGED <<nodeVars, histVars>>

\* case <-ctx.Done().
Cancelled(p) ==
  /\ pc[p] = "wait"
  /\ Fault
  /\ Ends(p)
  /\ UNCHANGED cacheVars
  /\ SetFlights(flights)
  /\ UNCHANGED <<known, id, meta, histVars>>

\* The flight's goroutine: the node answers with the statement.
Load(f) ==
  /\ flights[f].state = "loading"
  /\ LET k == flights[f].key IN
       /\ known' = [known EXCEPT ![k] = TRUE]
       /\ flights' = [flights EXCEPT ![f].state = "loaded",
            ![f].stmt = [id |-> id[k], metaID |-> meta[k], response |-> meta[k]]]
  /\ UNCHANGED <<cacheVars, procVars, id, meta, faults, histVars>>

LoadFails(f) ==
  /\ flights[f].state = "loading"
  /\ Fault
  /\ flights' = [flights EXCEPT ![f].state = "failed"]
  /\ UNCHANGED <<cacheVars, procVars, known, id, meta, histVars>>

\* stmtsLRU.remove(stmtCacheKey), whatever flight is there by now.
MutUncache(f) ==
  /\ flights[f].state = "failed"
  /\ flights' = [flights EXCEPT ![f].state = "removed"]
  /\ UNCHANGED <<cacheVars, procVars, nodeVars, histVars>>
Uncache(f) ==
  /\ flights[f].state = "failed"
  /\ Remove(flights[f].key)
  /\ UNCHANGED procVars
  /\ SetFlights([flights EXCEPT ![f].state = "removed"])
  /\ UNCHANGED <<nodeVars, misread, calm>>

\* The deferred close(flight.done).
CloseDone(f) ==
  /\ flights[f].state \in {"loaded", "removed"}
  /\ UNCHANGED <<cacheVars, procVars>>
  /\ SetFlights([flights EXCEPT ![f].state = "closed"])
  /\ UNCHANGED <<nodeVars, histVars>>

-------------------------------------------------------------------------------
(* executeQuery and executeBatch *)

\* The positions of the request whose id the node does not know.
Unknown(p) == {i \in 1 .. Len(work[p]) :
                 ~known[work[p][i]] \/ infos[p][i].id # id[work[p][i]]}

IsQuery(p) == Len(work[p]) = 1

\* The node answers an EXECUTE whose metadata id is not the current one with the
\* new metadata, another one with rows alone if it was asked to skip them.
Answers(p) ==
  IF Unknown(p) # {}
    THEN {[kind |-> "unprepared", stmt |-> i, id |-> infos[p][i].id, meta |-> 0] :
            i \in Unknown(p)}
  ELSE IF ~IsQuery(p)
    THEN {[kind |-> "void", stmt |-> 0, id |-> 0, meta |-> 0]}
  ELSE LET m == meta[work[p][1]] IN
       IF infos[p][1].metaID # m
         THEN {[kind |-> "changed", stmt |-> 1, id |-> 0, meta |-> m]}
         ELSE {[kind |-> k, stmt |-> 1, id |-> 0, meta |-> m] : k \in {"rows", "full"}}

Execute(p) ==
  /\ pc[p] = "execute"
  /\ \E r \in Answers(p) : resp' = [resp EXCEPT ![p] = r]
  /\ Goto(p, "respond")
  /\ UNCHANGED <<cacheVars, flights, work, infos, flight, old, nodeVars, histVars>>

\* A value cannot be bound, the request fails, or the node reports an error.
ExecuteFails(p) ==
  /\ pc[p] = "execute"
  /\ Ends(p)
  /\ UNCHANGED <<cacheVars, flights, nodeVars, histVars>>

\* RequestErrUnprepared: evictPreparedID, and the request starts over.
MutEvicts(f, i) == flights[f].state = "closed" /\ flights[f].stmt.id # i
Evicts(f, i) == flights[f].state = "closed" /\ flights[f].stmt.id = i

Unprepared(p) ==
  /\ pc[p] = "respond" /\ resp[p].kind = "unprepared"
  /\ LET k == work[p][resp[p].stmt] IN
       IF cache[k] = None THEN UNCHANGED <<cacheVars, lost>>
       ELSE IF Evicts(cache[k], resp[p].id) THEN Remove(k)
       ELSE MoveToFront(k) /\ UNCHANGED lost
  /\ infos' = [infos EXCEPT ![p] = <<>>]
  /\ resp' = [resp EXCEPT ![p] = NoResp]
  /\ Goto(p, "lookup")
  /\ UNCHANGED flight
  /\ SetFlights(flights)
  /\ UNCHANGED <<work, old, nodeVars, misread, calm>>

\* Rows, and the metadata they are decoded with.
DecodedWith(p) ==
  IF resp[p].kind = "rows" THEN infos[p][1].response ELSE resp[p].meta

Rows(p) ==
  /\ pc[p] = "respond" /\ resp[p].kind \in {"rows", "full"}
  /\ misread' = (misread \/ DecodedWith(p) # resp[p].meta)
  /\ Ends(p)
  /\ UNCHANGED <<cacheVars, flights, nodeVars, lost, calm>>

Void(p) ==
  /\ pc[p] = "respond" /\ resp[p].kind = "void"
  /\ Ends(p)
  /\ UNCHANGED <<cacheVars, flights, nodeVars, histVars>>

\* newMetadataID # nil: the cached flight is read, complete or not.
Changed(p) ==
  /\ pc[p] = "respond" /\ resp[p].kind = "changed"
  /\ LET f == cache[work[p][1]] IN
       IF f = None
         THEN Ends(p) /\ UNCHANGED cacheVars
         ELSE /\ MoveToFront(work[p][1])
              /\ old' = [old EXCEPT ![p] = flights[f].stmt.id]
              /\ Goto(p, IF flights[f].stmt = NoStmt THEN "panic" ELSE "update")
              /\ UNCHANGED <<work, infos, flight, resp>>
  /\ misread' = (misread \/ DecodedWith(p) # resp[p].meta)
  /\ UNCHANGED <<flights, nodeVars, lost, calm>>

\* The statement a response with new metadata leads to.
MutRenewed(p) == [id |-> old[p], metaID |-> resp[p].meta, response |-> infos[p][1].response]
Renewed(p) == [id |-> old[p], metaID |-> resp[p].meta, response |-> resp[p].meta]

\* stmtsLRU.add of a new flight that is done already.
Update(p, f) ==
  /\ pc[p] = "update"
  /\ NewFlight(f)
  /\ Add(work[p][1], f)
  /\ Ends(p)
  /\ SetFlights([flights EXCEPT ![f] =
                   [state |-> "closed", key |-> work[p][1], stmt |-> Renewed(p)]])
  /\ UNCHANGED <<nodeVars, misread, calm>>

-------------------------------------------------------------------------------
(* The node *)

\* It drops the statement, by itself or in a restart, and may come to know it
\* under another id.
Forget(k) ==
  /\ Fault
  /\ known[k]
  /\ known' = [known EXCEPT ![k] = FALSE]
  /\ \E i \in {id[k], id[k] + 1} : i <= MaxID /\ id' = [id EXCEPT ![k] = i]
  /\ UNCHANGED <<cacheVars, flights, procVars, meta, histVars>>

\* ALTER TABLE.
Alter(k) ==
  /\ Fault
  /\ (\E p \in Procs : <<k>> \in Works[p])    \* a batch has no result metadata
  /\ meta[k] < MaxMeta
  /\ meta' = [meta EXCEPT ![k] = @ + 1]
  /\ UNCHANGED <<cacheVars, flights, procVars, known, id, histVars>>

Settle ==
  /\ ~calm
  /\ calm' = TRUE
  /\ UNCHANGED <<cacheVars, flights, procVars, nodeVars, misread, lost>>

-------------------------------------------------------------------------------
prepareStatement(p) ==
  Hit(p) \/ (\E f \in Flights : Miss(p, f)) \/ Prepared(p) \/ PrepareFails(p)

execute(p) ==
  \/ Execute(p) \/ Unprepared(p) \/ Rows(p) \/ Void(p) \/ Changed(p)
  \/ \E f \in Flights : Update(p, f)

load(f) == Load(f) \/ LoadFails(f) \/ Uncache(f) \/ CloseDone(f)

Next ==
  \/ Settle
  \/ \E k \in Stmts : Forget(k) \/ Alter(k)
  \/ \E f \in Flights : load(f)
  \/ \E p \in Procs : \/ \E w \in Works[p] : Start(p, w)
                      \/ prepareStatement(p) \/ execute(p)
                      \/ Cancelled(p) \/ ExecuteFails(p)

Spec == Init /\ [][Next]_vars

\* Goroutines run, and requests end: with their timeouts at the latest.
FairSpec ==
  /\ Spec
  /\ \A p \in Procs : WF_vars(prepareStatement(p) \/ execute(p))
  /\ \A f \in Flights : WF_vars(load(f))

-------------------------------------------------------------------------------
(* Properties *)

\* Nobody meets a flight without its statement.  A flight in the cache whose done channel
\* is closed has one: a failed flight has left the cache before, so evictPreparedID, which
\* waits for done only, never meets a nil statement and no caller gets the error of an old
\* failure.  executeQuery reads the statement of a flight that is still being loaded, and
\* panics, only if the statement has left the cache since the execution began.
CachedIsPrepared ==
  /\ \A k \in Stmts :
       cache[k] # None /\ flights[cache[k]].state = "closed"
         => flights[cache[k]].stmt # NoStmt
  /\ \A p \in Procs : pc[p] = "panic" => p \in lost

\* Rows that come without metadata are decoded with the metadata the node wrote
\* them with, although the cache is updated, emptied and filled by others while
\* the request is under way.
RowsDecoded == ~misread

\* Once the node keeps what it has prepared, every execution ends: the retries
\* after UNPREPARED do not go round in circles over a stale id.
ExecutionsEnd ==
  \A p \in Procs : (calm /\ pc[p] # "idle") ~> pc[p] \in {"idle", "panic"}

===============================================================================
