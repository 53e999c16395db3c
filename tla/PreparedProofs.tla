---------------------------- MODULE PreparedProofs ----------------------------
(***************************************************************************)
(* Proofs about PreparedCache, for any number of goroutines, statements    *)
(* and flights, any requests and any size of the cache.                    *)
(*                                                                         *)
(* CachedIsPrepared needs to know what a cached flight may be (Cached) and *)
(* what the cache holds for a query whose statement has not left it        *)
(* (Undisturbed).  RowsDecoded rests on a fact about all statements, those *)
(* of the flights and those the executions have copied: the metadata id    *)
(* and the metadata of a statement belong together (Statement).            *)
(***************************************************************************)
EXTENDS PreparedCache, TLAPS

\* What preparedStatment can be: the metadata is the one its id stands for.
Statement == {s \in [id : Nat, metaID : Nat, response : Nat] :
                s.metaID = s.response /\ (s.id = 0 => s = NoStmt)}

FlightType == [state : {"free", "loading", "loaded", "failed", "removed", "closed"},
               key : Stmts \cup {None}, stmt : Statement]
ResponseType == [kind : {"none", "unprepared", "void", "changed", "rows", "full"},
                 stmt : Nat, id : Nat, meta : Nat]

\* The variables keep their types.
TypeOK ==
  /\ cache \in [Stmts -> Flights \cup {None}]
  /\ flights \in [Flights -> FlightType]
  /\ pc \in [Procs -> {"idle", "lookup", "wait", "execute", "respond", "update", "panic"}]
  /\ work \in [Procs -> Seq(Stmts)]
  /\ infos \in [Procs -> Seq(Statement)]
  /\ flight \in [Procs -> Flights \cup {None}]
  /\ resp \in [Procs -> ResponseType]
  /\ old \in [Procs -> Nat]
  /\ id \in [Stmts -> Nat \ {0}] /\ meta \in [Stmts -> Nat]
  /\ lost \subseteq Procs

\* How far an execution is: the statements prepared so far, and what its response says
\* about the request.
Progress(p) ==
  /\ pc[p] = "idle" => infos[p] = <<>>
  /\ pc[p] \in {"lookup", "wait"} => Len(infos[p]) < Len(work[p])
  /\ pc[p] \in {"execute", "respond", "update"} =>
       Len(infos[p]) = Len(work[p]) /\ Len(work[p]) > 0
  /\ pc[p] = "wait" => flight[p] \in Flights
  /\ pc[p] = "respond" =>
       /\ resp[p].kind = "unprepared" => resp[p].stmt \in 1 .. Len(work[p])
       /\ resp[p].kind \in {"rows", "full", "changed"} => IsQuery(p)
       /\ resp[p].kind = "rows" => infos[p][1].response = resp[p].meta
  /\ pc[p] = "update" => IsQuery(p) /\ old[p] # 0

\* A flight in the cache is there under its key, and has its statement once it is done.
Cached ==
  /\ \A f \in Flights : flights[f].state # "free" => flights[f].key \in Stmts
  /\ \A f \in Flights : flights[f].state = "loaded" => flights[f].stmt # NoStmt
  /\ \A k \in Stmts : cache[k] # None =>
       /\ flights[cache[k]].key = k
       /\ flights[cache[k]].state \notin {"free", "removed"}
       /\ flights[cache[k]].state = "closed" => flights[cache[k]].stmt # NoStmt

\* While the statement of a query stays in the cache, it has there the flight the query
\* waits for, or one that is done; and one that is done when the query is executed.
Steady(p, k) ==
  work[p] = <<k>> /\ p \notin lost =>
    /\ pc[p] \in {"wait", "execute", "respond"} => cache[k] # None
    /\ pc[p] = "wait" => cache[k] = flight[p] \/ flights[cache[k]].state = "closed"
    /\ pc[p] \in {"execute", "respond"} => flights[cache[k]].state = "closed"

Undisturbed == \A p \in Procs, k \in Stmts : Steady(p, k)

IInv ==
  /\ TypeOK /\ (\A p \in Procs : Progress(p)) /\ Cached /\ Undisturbed
  /\ \A p \in Procs : pc[p] = "panic" => p \in lost
  /\ ~misread

USE DEF None

LEMMA Initially == Init => IInv
BY BoundsAssumption
DEF Init, IInv, TypeOK, Progress, Cached, Undisturbed, Steady, Statement, FlightType, ResponseType,
    NoStmt, Fresh, NoResp, Flights

LEMMA NoStmtType == NoStmt \in Statement /\ 0 \notin Flights /\ Fresh.state = "free"
BY DEF Statement, NoStmt, Flights, Fresh

-------------------------------------------------------------------------------
(* What the helpers of the actions do *)

\* Add puts the flight under its key; a key that leaves the cache is noted.
LEMMA AddFacts ==
  ASSUME TypeOK, NEW k \in Stmts, NEW f \in Flights, Add(k, f)
  PROVE  /\ cache' \in [Stmts -> Flights \cup {None}]
         /\ lost \subseteq lost' /\ lost' \subseteq Procs
         /\ \A j \in Stmts :
              \/ cache'[j] = IF j = k THEN f ELSE cache[j]
              \/ cache'[j] = None /\ \A p \in Procs : work[p] = <<j>> => p \in lost'
<1> DEFINE front == <<k>> \o Without(k)
           oldest == front[Len(front)]
<1>1. CASE Len(front) > MaxEntries
  <2>1. /\ cache' = [cache EXCEPT ![k] = f, ![oldest] = None]
        /\ lost' = lost \cup {p \in Procs : work[p] = <<oldest>>}
    BY <1>1 DEF Add, Left
  <2> HIDE DEF oldest
  <2> QED
    BY Zenon, <2>1 DEF TypeOK
<1>2. CASE ~(Len(front) > MaxEntries)
  <2>1. cache' = [cache EXCEPT ![k] = f] /\ lost' = lost
    BY <1>2 DEF Add
  <2> QED
    BY <2>1 DEF TypeOK
<1> QED
  BY <1>1, <1>2

\* Remove takes the key out, and notes it.
LEMMA RemoveFacts ==
  ASSUME TypeOK, NEW k \in Stmts, Remove(k)
  PROVE  /\ cache' \in [Stmts -> Flights \cup {None}]
         /\ lost \subseteq lost' /\ lost' \subseteq Procs
         /\ cache'[k] = None
         /\ \A j \in Stmts \ {k} : cache'[j] = cache[j]
         /\ \A p \in Procs : work[p] = <<k>> => p \in lost'
BY DEF Remove, Left, TypeOK

\* Only a flight that is done, and that nobody refers to, is collected.
LEMMA FlightsKept ==
  ASSUME TypeOK, NEW fs, SetFlights(fs), NEW f \in Flights
  PROVE  /\ flights'[f] = fs[f] \/ (flights'[f] = Fresh /\ fs[f].state = "closed")
         /\ (\E k \in Stmts : cache'[k] = f) => flights'[f] = fs[f]
         /\ (\E p \in Procs : flight'[p] = f) => flights'[f] = fs[f]
BY DEF SetFlights

LEMMA FlightsTyped ==
  ASSUME TypeOK, NEW fs, SetFlights(fs),
         fs \in [Flights -> FlightType]
  PROVE  flights' \in [Flights -> FlightType]
<1>1. Fresh \in FlightType
  BY NoStmtType DEF Fresh, FlightType
<1> QED
  BY <1>1 DEF SetFlights

\* The statement an execution prepares next is one of its request.
LEMMA CurrentFacts ==
  ASSUME TypeOK, NEW p \in Procs, Len(infos[p]) < Len(work[p])
  PROVE  /\ Current(p) \in Stmts
         /\ \A k \in Stmts : work[p] = <<k>> => Current(p) = k
<1>1. work[p] \in Seq(Stmts) /\ Len(infos[p]) \in Nat
  BY DEF TypeOK
<1>2. Len(infos[p]) + 1 \in 1 .. Len(work[p])
  BY <1>1
<1>3. ASSUME NEW k \in Stmts, work[p] = <<k>> PROVE Current(p) = k
  BY <1>1, <1>2, <1>3 DEF Current
<1> QED
  BY <1>1, <1>2, <1>3 DEF Current

\* A query is the sequence of its one statement.
LEMMA QueryFacts ==
  ASSUME TypeOK, NEW p \in Procs, IsQuery(p)
  PROVE  work[p][1] \in Stmts /\ work[p] = <<work[p][1]>>
<1>1. work[p] \in Seq(Stmts) /\ Len(work[p]) = 1
  BY DEF TypeOK, IsQuery
<1>2. work[p][1] \in Stmts
  BY <1>1
<1>3. <<work[p][1]>> \in Seq(Stmts) /\ Len(<<work[p][1]>>) = 1
  BY <1>2
<1>4. \A i \in 1 .. Len(work[p]) : work[p][i] = <<work[p][1]>>[i]
  BY <1>1
<1> QED
  BY <1>1, <1>2, <1>3, <1>4

\* The statement that UNPREPARED is about is one of the request.
LEMMA UnpreparedFacts ==
  ASSUME TypeOK, NEW p \in Procs, Progress(p), Unprepared(p)
  PROVE  work[p][resp[p].stmt] \in Stmts
<1>1. resp[p].stmt \in 1 .. Len(work[p])
  BY DEF Unprepared, Progress
<1>2. work[p] \in Seq(Stmts)
  BY DEF TypeOK
<1> QED
  BY <1>1, <1>2

-------------------------------------------------------------------------------
(* The layers of the invariant, step by step *)

\* The steps, with what the helpers need to know about their arguments.
LEMMA Steps ==
  ASSUME [Next]_vars
  PROVE  \/ Settle \/ UNCHANGED vars
         \/ \E k \in Stmts : Forget(k) \/ Alter(k)
         \/ \E f \in Flights : Load(f) \/ LoadFails(f) \/ Uncache(f) \/ CloseDone(f)
         \/ \E p \in Procs : \E w \in Works[p] : Start(p, w)
         \/ \E p \in Procs, f \in Flights : Miss(p, f) \/ Update(p, f)
         \/ \E p \in Procs : \/ Hit(p) \/ Prepared(p) \/ PrepareFails(p) \/ Cancelled(p)
                             \/ Execute(p) \/ Unprepared(p) \/ Rows(p) \/ Void(p)
                             \/ Changed(p) \/ ExecuteFails(p)
BY DEF Next, load, prepareStatement, execute

\* The locals of an execution that ends are well typed.
LEMMA EndsTyped ==
  ASSUME TypeOK, NEW p \in Procs, Ends(p)
  PROVE  /\ pc' \in [Procs -> {"idle", "lookup", "wait", "execute", "respond", "update", "panic"}]
         /\ work' \in [Procs -> Seq(Stmts)]
         /\ infos' \in [Procs -> Seq(Statement)]
         /\ flight' \in [Procs -> Flights \cup {None}]
         /\ resp' \in [Procs -> ResponseType]
         /\ old' \in [Procs -> Nat]
BY DEF TypeOK, ResponseType, Ends, Goto, NoResp

LEMMA TypeInductive ==
  ASSUME IInv, [Next]_vars
  PROVE  TypeOK'
<1> USE DEF IInv
<1>1. CASE Settle \/ UNCHANGED vars
  BY <1>1 DEF TypeOK, Settle, vars, cacheVars, procVars, nodeVars, histVars
<1>2. ASSUME NEW k \in Stmts, Forget(k) \/ Alter(k) PROVE TypeOK'
  <2>1. id' \in [Stmts -> Nat \ {0}]
    <3>1. id[k] + 1 \in Nat \ {0}
      BY DEF TypeOK
    <3>2. (\E i \in Nat \ {0} : id' = [id EXCEPT ![k] = i]) \/ id' = id
      BY <1>2, <3>1 DEF TypeOK, Forget, Alter
    <3> QED
      BY <3>2 DEF TypeOK
  <2>2. meta' \in [Stmts -> Nat]
    <3>1. meta' = [meta EXCEPT ![k] = meta[k] + 1] \/ meta' = meta
      BY <1>2 DEF Forget, Alter
    <3> QED
      BY <3>1 DEF TypeOK
  <2> QED
    BY <1>2, <2>1, <2>2 DEF TypeOK, Forget, Alter, cacheVars, procVars, histVars
<1>3. ASSUME NEW f \in Flights, Load(f) PROVE TypeOK'
  <2> DEFINE k == flights[f].key
             st == [id |-> id[k], metaID |-> meta[k], response |-> meta[k]]
  <2>1. st \in Statement
    BY <1>3 DEF Statement, TypeOK, Load, Cached
  <2> DEFINE fs == [flights EXCEPT ![f].state = "loaded"]
  <2>2. flights' = [fs EXCEPT ![f].stmt = st]
    BY <1>3 DEF Load
  <2>3. fs \in [Flights -> FlightType]
    BY Zenon DEF TypeOK, FlightType
  <2> HIDE DEF st, fs
  <2>4. flights' \in [Flights -> FlightType]
    BY <2>1, <2>2, <2>3 DEF FlightType
  <2> QED
    BY <1>3, <2>4 DEF TypeOK, Load, cacheVars, procVars, histVars
<1>4. ASSUME NEW f \in Flights, LoadFails(f) PROVE TypeOK'
  BY Zenon, <1>4 DEF TypeOK, FlightType, LoadFails, cacheVars, procVars, histVars
<1>5. ASSUME NEW f \in Flights, Uncache(f) PROVE TypeOK'
  <2>1. [flights EXCEPT ![f].state = "removed"] \in [Flights -> FlightType]
    BY Zenon DEF TypeOK, FlightType
  <2>2. flights[f].key \in Stmts
    BY <1>5 DEF Uncache, Cached
  <2> QED
    BY Zenon, <1>5, <2>1, <2>2, RemoveFacts, FlightsTyped DEF TypeOK, Uncache, procVars, nodeVars
<1>6. ASSUME NEW f \in Flights, CloseDone(f) PROVE TypeOK'
  <2>1. [flights EXCEPT ![f].state = "closed"] \in [Flights -> FlightType]
    BY Zenon DEF TypeOK, FlightType
  <2> QED
    BY Zenon, <1>6, <2>1, FlightsTyped DEF TypeOK, CloseDone, cacheVars, procVars, nodeVars, histVars
<1>7. ASSUME NEW p \in Procs, NEW w \in Works[p], Start(p, w) PROVE TypeOK'
  BY <1>7, BoundsAssumption DEF TypeOK, Start, Goto, cacheVars, nodeVars
<1>8. ASSUME NEW p \in Procs, NEW f \in Flights, Miss(p, f) PROVE TypeOK'
  <2>1. Current(p) \in Stmts
    BY <1>8, CurrentFacts DEF Miss, Progress
  <2>2. [flights EXCEPT ![f] = [state |-> "loading", key |-> Current(p), stmt |-> NoStmt]]
          \in [Flights -> FlightType]
    BY <2>1, NoStmtType DEF TypeOK, FlightType
  <2> QED
    BY Zenon, <1>8, <2>1, <2>2, AddFacts, FlightsTyped DEF TypeOK, Miss, Goto, nodeVars
<1>9. ASSUME NEW p \in Procs, NEW f \in Flights, Update(p, f) PROVE TypeOK'
  <2>1. work[p][1] \in Stmts
    BY <1>9, QueryFacts DEF Update, Progress
  <2>2. Renewed(p) \in Statement
    BY <1>9 DEF Update, Progress, Renewed, Statement, ResponseType, TypeOK
  <2>3. [flights EXCEPT ![f] = [state |-> "closed", key |-> work[p][1], stmt |-> Renewed(p)]]
          \in [Flights -> FlightType]
    BY <2>1, <2>2 DEF TypeOK, FlightType
  <2> QED
    BY Zenon, <1>9, <2>1, <2>3, AddFacts, FlightsTyped, EndsTyped DEF TypeOK, Update, nodeVars
<1>10. ASSUME NEW p \in Procs, Hit(p) PROVE TypeOK'
  BY Zenon, <1>10, CurrentFacts DEF TypeOK, Hit, Progress, MoveToFront, Goto, nodeVars, histVars
<1>11. ASSUME NEW p \in Procs, Prepared(p) PROVE TypeOK'
  <2>1. flights[flight[p]].stmt \in Statement
    BY <1>11 DEF Prepared, Progress, TypeOK, FlightType
  <2>2. infos' \in [Procs -> Seq(Statement)]
    BY <1>11, <2>1 DEF Prepared, TypeOK
  <2>3. pc' \in [Procs -> {"idle", "lookup", "wait", "execute", "respond", "update", "panic"}]
    BY <1>11 DEF Prepared, Goto, TypeOK
  <2> QED
    BY <1>11, <2>2, <2>3, FlightsTyped DEF TypeOK, Prepared, cacheVars, nodeVars, histVars
<1>12. ASSUME NEW p \in Procs, PrepareFails(p) \/ Cancelled(p) PROVE TypeOK'
  BY <1>12, EndsTyped, FlightsTyped
     DEF TypeOK, PrepareFails, Cancelled, cacheVars, nodeVars, histVars
<1>13. ASSUME NEW p \in Procs, Execute(p) PROVE TypeOK'
  <2>1. \A r \in Answers(p) : r \in ResponseType
    <3>1. \A i \in Unknown(p) : i \in Nat /\ infos[p][i].id \in Nat
      <4>1. infos[p] \in Seq(Statement) /\ Len(infos[p]) = Len(work[p])
        BY <1>13 DEF Execute, Progress, TypeOK
      <4>2. \A i \in Unknown(p) : i \in 1 .. Len(infos[p])
        BY <4>1 DEF Unknown
      <4>3. \A i \in 1 .. Len(infos[p]) : i \in Nat /\ infos[p][i] \in Statement
        BY <4>1
      <4> QED
        BY <4>2, <4>3 DEF Statement
    <3>2. CASE Unknown(p) # {}
      BY <3>1, <3>2 DEF Answers, ResponseType
    <3>3. CASE Unknown(p) = {} /\ ~IsQuery(p)
      BY <3>3 DEF Answers, ResponseType
    <3>4. CASE Unknown(p) = {} /\ IsQuery(p)
      <4>1. meta[work[p][1]] \in Nat
        BY <3>4, QueryFacts DEF TypeOK
      <4> QED
        BY <3>4, <4>1 DEF Answers, ResponseType
    <3> QED
      BY <3>2, <3>3, <3>4
  <2> QED
    BY <1>13, <2>1 DEF TypeOK, Execute, Goto, cacheVars, nodeVars, histVars
<1>14. ASSUME NEW p \in Procs, Unprepared(p) PROVE TypeOK'
  <2> DEFINE k == work[p][resp[p].stmt]
  <2>1. k \in Stmts
    BY <1>14, UnpreparedFacts
  <2>2. cache' \in [Stmts -> Flights \cup {None}] /\ lost' \subseteq Procs
    BY <1>14, <2>1, RemoveFacts DEF Unprepared, MoveToFront, cacheVars, TypeOK
  <2>3. resp' \in [Procs -> ResponseType] /\ infos' \in [Procs -> Seq(Statement)]
    BY <1>14 DEF Unprepared, NoResp, ResponseType, TypeOK
  <2>4. pc' \in [Procs -> {"idle", "lookup", "wait", "execute", "respond", "update", "panic"}]
    BY <1>14 DEF Unprepared, Goto, TypeOK
  <2> QED
    BY <1>14, <2>2, <2>3, <2>4, FlightsTyped DEF TypeOK, Unprepared, nodeVars
<1>15. ASSUME NEW p \in Procs, Rows(p) \/ Void(p) \/ ExecuteFails(p) PROVE TypeOK'
  BY <1>15, EndsTyped DEF TypeOK, Rows, Void, ExecuteFails, cacheVars, nodeVars, histVars
<1>16. ASSUME NEW p \in Procs, Changed(p) PROVE TypeOK'
  <2>1. work[p][1] \in Stmts
    BY <1>16, QueryFacts DEF Changed, Progress
  <2>2. CASE cache[work[p][1]] = None
    BY <1>16, <2>2, EndsTyped DEF TypeOK, Changed, cacheVars, nodeVars
  <2>3. CASE cache[work[p][1]] # None
    <3>1. flights[cache[work[p][1]]].stmt.id \in Nat
      BY <2>1, <2>3 DEF TypeOK, FlightType, Statement
    <3> QED
      BY Zenon, <1>16, <2>3, <3>1 DEF TypeOK, Changed, MoveToFront, Goto, nodeVars
  <2> QED
    BY <2>2, <2>3
<1> QED
  BY <1>1, <1>2, <1>3, <1>4, <1>5, <1>6, <1>7, <1>8, <1>9, <1>10, <1>11, <1>12, <1>13,
     <1>14, <1>15, <1>16, Steps

\* The locals of an execution are its own.
Untouched(p) ==
  /\ pc'[p] = pc[p] /\ work'[p] = work[p] /\ infos'[p] = infos[p]
  /\ flight'[p] = flight[p] /\ resp'[p] = resp[p] /\ old'[p] = old[p]

LEMMA ProgressKept ==
  ASSUME NEW p, Progress(p), Untouched(p)
  PROVE  Progress(p)'
BY DEF Progress, Untouched, IsQuery

\* An execution that ends has no locals.
LEMMA EndsFacts ==
  ASSUME TypeOK, NEW p \in Procs, Ends(p)
  PROVE  /\ pc'[p] = "idle" /\ infos'[p] = <<>>
         /\ \A q \in Procs \ {p} : Untouched(q)
BY DEF TypeOK, Ends, Goto, Untouched

LEMMA EndsProgress ==
  ASSUME TypeOK, \A q \in Procs : Progress(q), NEW p \in Procs, Ends(p)
  PROVE  \A q \in Procs : Progress(q)'
<1>1. Progress(p)'
  BY EndsFacts DEF Progress
<1>2. \A q \in Procs \ {p} : Progress(q)'
  BY EndsFacts, ProgressKept
<1> QED
  BY <1>1, <1>2

\* An execution prepares its statements one by one, and executes them when it has all.
LEMMA ProgressInductive ==
  ASSUME IInv, [Next]_vars
  PROVE  \A p \in Procs : Progress(p)'
<1> USE DEF IInv
<1>1. CASE Settle \/ UNCHANGED vars
  BY <1>1, ProgressKept DEF Untouched, Settle, vars, procVars
<1>2. ASSUME NEW k \in Stmts, Forget(k) \/ Alter(k) PROVE \A p \in Procs : Progress(p)'
  BY <1>2, ProgressKept DEF Untouched, Forget, Alter, procVars
<1>3. ASSUME NEW f \in Flights, Load(f) \/ LoadFails(f) \/ Uncache(f) \/ CloseDone(f)
      PROVE  \A p \in Procs : Progress(p)'
  BY <1>3, ProgressKept DEF Untouched, Load, LoadFails, Uncache, CloseDone, procVars
<1>4. ASSUME NEW p \in Procs, NEW w \in Works[p], Start(p, w) PROVE \A q \in Procs : Progress(q)'
  <2>1. \A q \in Procs \ {p} : Untouched(q)
    BY <1>4 DEF Start, Goto, Untouched, TypeOK
  <2>2. w \in Seq(Stmts) /\ w # <<>>
    BY BoundsAssumption
  <2>3. Progress(p)'
    BY <1>4, <2>2 DEF Start, Goto, Progress, TypeOK
  <2> QED
    BY <2>1, <2>3, ProgressKept
<1>5. ASSUME NEW p \in Procs, Hit(p) PROVE \A q \in Procs : Progress(q)'
  <2>1. \A q \in Procs \ {p} : Untouched(q)
    BY <1>5 DEF Hit, Goto, Untouched, TypeOK
  <2>2. Progress(p)'
    BY <1>5, CurrentFacts DEF Hit, Goto, Progress, TypeOK
  <2> QED
    BY <2>1, <2>2, ProgressKept
<1>6. ASSUME NEW p \in Procs, NEW f \in Flights, Miss(p, f) PROVE \A q \in Procs : Progress(q)'
  <2>1. \A q \in Procs \ {p} : Untouched(q)
    BY <1>6 DEF Miss, Goto, Untouched, TypeOK
  <2>2. Progress(p)'
    BY <1>6 DEF Miss, Goto, Progress, TypeOK
  <2> QED
    BY <2>1, <2>2, ProgressKept
<1>7. ASSUME NEW p \in Procs, NEW f \in Flights, Update(p, f) PROVE \A q \in Procs : Progress(q)'
  BY <1>7, EndsProgress DEF Update
<1>8. ASSUME NEW p \in Procs, Prepared(p) PROVE \A q \in Procs : Progress(q)'
  <2>1. \A q \in Procs \ {p} : Untouched(q)
    BY <1>8 DEF Prepared, Goto, Untouched, TypeOK
  <2>2. flights[flight[p]].stmt \in Statement
    BY <1>8 DEF Prepared, Progress, TypeOK, FlightType
  <2>3. /\ infos'[p] = Append(infos[p], flights[flight[p]].stmt) /\ work'[p] = work[p]
        /\ pc'[p] = IF Len(infos[p]) + 1 = Len(work[p]) THEN "execute" ELSE "lookup"
    BY <1>8 DEF Prepared, Goto, TypeOK
  <2>4. /\ Len(infos'[p]) = Len(infos[p]) + 1 /\ Len(infos[p]) < Len(work[p])
        /\ Len(infos[p]) \in Nat /\ Len(work[p]) \in Nat
    BY <1>8, <2>2, <2>3 DEF Prepared, Progress, TypeOK
  <2>5. Progress(p)'
    BY <2>3, <2>4 DEF Progress
  <2> QED
    BY <2>1, <2>5, ProgressKept
<1>9. ASSUME NEW p \in Procs, PrepareFails(p) \/ Cancelled(p) \/ Rows(p) \/ Void(p) \/ ExecuteFails(p)
      PROVE  \A q \in Procs : Progress(q)'
  BY <1>9, EndsProgress DEF PrepareFails, Cancelled, Rows, Void, ExecuteFails
<1>10. ASSUME NEW p \in Procs, Execute(p) PROVE \A q \in Procs : Progress(q)'
  <2>1. \A q \in Procs \ {p} : Untouched(q)
    BY <1>10 DEF Execute, Goto, Untouched, TypeOK
  <2>2. PICK r \in Answers(p) : resp' = [resp EXCEPT ![p] = r]
    BY Zenon, <1>10 DEF Execute
  <2>3. /\ pc'[p] = "respond" /\ resp'[p] = r /\ infos'[p] = infos[p] /\ work'[p] = work[p]
        /\ Len(infos[p]) = Len(work[p]) /\ Len(work[p]) > 0
    BY <1>10, <2>2 DEF Execute, Goto, Progress, TypeOK
  <2>4. r.kind = "unprepared" => r.stmt \in 1 .. Len(work[p])
    BY DEF Answers, Unknown
  <2>5. r.kind \in {"rows", "full", "changed"} => IsQuery(p)
    BY DEF Answers
  <2>6. r.kind = "rows" => infos[p][1].metaID = r.meta
    BY DEF Answers
  <2>7. infos[p][1] \in Statement
    BY <2>3 DEF TypeOK
  <2>8. infos[p][1].metaID = infos[p][1].response
    BY <2>7 DEF Statement
  <2>9. Progress(p)'
    BY <2>3, <2>4, <2>5, <2>6, <2>8 DEF Progress, IsQuery
  <2> QED
    BY <2>1, <2>9, ProgressKept
<1>11. ASSUME NEW p \in Procs, Unprepared(p) PROVE \A q \in Procs : Progress(q)'
  <2>1. \A q \in Procs \ {p} : Untouched(q)
    BY <1>11 DEF Unprepared, Goto, Untouched, TypeOK
  <2>2. Progress(p)'
    <3>1. pc'[p] = "lookup" /\ infos'[p] = <<>> /\ work'[p] = work[p] /\ Len(work[p]) > 0
      BY <1>11 DEF Unprepared, Goto, Progress, TypeOK
    <3> QED
      BY <3>1 DEF Progress
  <2> QED
    BY <2>1, <2>2, ProgressKept
<1>12. ASSUME NEW p \in Procs, Changed(p) PROVE \A q \in Procs : Progress(q)'
  <2>1. CASE cache[work[p][1]] = None
    BY <1>12, <2>1, EndsProgress DEF Changed
  <2>2. CASE cache[work[p][1]] # None
    <3> DEFINE f == cache[work[p][1]]
    <3>1. \A q \in Procs \ {p} : Untouched(q)
      BY <1>12, <2>2 DEF Changed, Goto, Untouched, TypeOK
    <3>2. /\ pc'[p] = IF flights[f].stmt = NoStmt THEN "panic" ELSE "update"
          /\ old'[p] = flights[f].stmt.id
          /\ work'[p] = work[p] /\ infos'[p] = infos[p]
          /\ IsQuery(p) /\ Len(infos[p]) = Len(work[p]) /\ Len(work[p]) > 0
      BY <1>12, <2>2 DEF Changed, Goto, Progress, TypeOK
    <3>3. f \in Flights
      BY <2>2, <3>2, QueryFacts DEF TypeOK
    <3>4. flights[f].stmt \in Statement
      BY <3>3 DEF TypeOK, FlightType
    <3>5. flights[f].stmt # NoStmt => flights[f].stmt.id # 0
      BY <3>4 DEF Statement
    <3>6. Progress(p)'
      BY <3>2, <3>5 DEF Progress, IsQuery
    <3> QED
      BY <3>1, <3>6, ProgressKept
  <2> QED
    BY <2>1, <2>2
<1> QED
  BY <1>1, <1>2, <1>3, <1>4, <1>5, <1>6, <1>7, <1>8, <1>9, <1>10, <1>11, <1>12, Steps

\* Collecting flights that nobody refers to does not touch the cached ones.
LEMMA CachedKept ==
  ASSUME TypeOK, TypeOK', NEW fs, SetFlights(fs),
         \A f \in Flights : fs[f].state # "free" => fs[f].key \in Stmts,
         \A f \in Flights : fs[f].state = "loaded" => fs[f].stmt # NoStmt,
         \A k \in Stmts : cache'[k] # None =>
           /\ fs[cache'[k]].key = k
           /\ fs[cache'[k]].state \notin {"free", "removed"}
           /\ fs[cache'[k]].state = "closed" => fs[cache'[k]].stmt # NoStmt
  PROVE  Cached'
<1>1. \A f \in Flights : flights'[f] = fs[f] \/ flights'[f].state = "free"
  BY FlightsKept, NoStmtType
<1>2. \A k \in Stmts : cache'[k] # None => flights'[cache'[k]] = fs[cache'[k]]
  BY FlightsKept DEF TypeOK
<1> QED
  <2>1. \A f \in Flights : flights'[f].state # "free" => flights'[f].key \in Stmts
    BY <1>1
  <2>2. \A f \in Flights : flights'[f].state = "loaded" => flights'[f].stmt # NoStmt
    BY <1>1
  <2> QED
    BY Zenon, <1>2, <2>1, <2>2 DEF Cached

\* A flight enters the cache under its key; one that failed leaves it before it is done,
\* and one that is renewed has its statement from the start.
LEMMA CachedInductive ==
  ASSUME IInv, [Next]_vars
  PROVE  Cached'
<1>0. TypeOK /\ TypeOK' /\ (\A p \in Procs : Progress(p)) /\ Cached
  BY TypeInductive DEF IInv
<1>1. CASE Settle \/ UNCHANGED vars
  BY <1>0, <1>1 DEF Cached, Settle, vars, cacheVars
<1>2. ASSUME NEW k \in Stmts, Forget(k) \/ Alter(k) PROVE Cached'
  BY <1>0, <1>2 DEF Cached, Forget, Alter, cacheVars
<1>3. ASSUME NEW f \in Flights, Load(f) PROVE Cached'
  <2> DEFINE k == flights[f].key
             st == [id |-> id[k], metaID |-> meta[k], response |-> meta[k]]
  <2>1. k \in Stmts
    BY <1>0, <1>3 DEF Load, Cached
  <2>2. st # NoStmt
    BY <1>0, <2>1 DEF NoStmt, TypeOK
  <2>3. /\ flights'[f].state = "loaded" /\ flights'[f].key = k /\ flights'[f].stmt = st
        /\ \A g \in Flights \ {f} : flights'[g] = flights[g]
    BY <1>0, <1>3 DEF Load, TypeOK, FlightType
  <2> HIDE DEF st
  <2> QED
    BY <1>0, <1>3, <2>1, <2>2, <2>3 DEF Cached, Load, cacheVars, TypeOK
<1>4. ASSUME NEW f \in Flights, LoadFails(f) PROVE Cached'
  <2>1. /\ flights'[f].state = "failed" /\ flights'[f].key = flights[f].key
        /\ \A g \in Flights \ {f} : flights'[g] = flights[g]
    BY <1>0, <1>4 DEF LoadFails, TypeOK, FlightType
  <2> QED
    BY <1>0, <1>4, <2>1 DEF Cached, LoadFails, cacheVars, TypeOK
<1>5. ASSUME NEW f \in Flights, Uncache(f) PROVE Cached'
  <2> DEFINE fs == [flights EXCEPT ![f].state = "removed"]
  <2>1. /\ fs[f].state = "removed" /\ fs[f].key = flights[f].key
        /\ \A g \in Flights \ {f} : fs[g] = flights[g]
    BY <1>0 DEF TypeOK, FlightType
  <2>2. flights[f].key \in Stmts
    BY <1>0, <1>5 DEF Uncache, Cached
  <2>3. \A k \in Stmts : cache'[k] # None => cache'[k] = cache[k] /\ cache'[k] # f
    BY <1>0, <1>5, <2>2, RemoveFacts DEF Uncache, Cached, TypeOK
  <2>4. SetFlights(fs)
    BY <1>5 DEF Uncache
  <2> HIDE DEF fs
  <2>5. \A g \in Flights : fs[g].state # "free" => fs[g].key \in Stmts
    BY <1>0, <2>1, <2>2 DEF Cached
  <2>6. \A g \in Flights : fs[g].state = "loaded" => fs[g].stmt # NoStmt
    BY <1>0, <2>1 DEF Cached
  <2>7. \A j \in Stmts : cache'[j] # None =>
          /\ fs[cache'[j]].key = j
          /\ fs[cache'[j]].state \notin {"free", "removed"}
          /\ fs[cache'[j]].state = "closed" => fs[cache'[j]].stmt # NoStmt
    BY <1>0, <2>1, <2>3 DEF Cached, TypeOK
  <2> QED
    BY <1>0, <2>4, <2>5, <2>6, <2>7, CachedKept
<1>6. ASSUME NEW f \in Flights, CloseDone(f) PROVE Cached'
  <2> DEFINE fs == [flights EXCEPT ![f].state = "closed"]
  <2>1. /\ fs[f].state = "closed" /\ fs[f].key = flights[f].key /\ fs[f].stmt = flights[f].stmt
        /\ \A g \in Flights \ {f} : fs[g] = flights[g]
    BY <1>0 DEF TypeOK, FlightType
  <2>2. flights[f].state \in {"loaded", "removed"} /\ cache' = cache /\ SetFlights(fs)
    BY <1>6 DEF CloseDone, cacheVars
  <2> HIDE DEF fs
  <2>3. \A g \in Flights : fs[g].state # "free" => fs[g].key \in Stmts
    BY <1>0, <2>1, <2>2 DEF Cached
  <2>4. \A g \in Flights : fs[g].state = "loaded" => fs[g].stmt # NoStmt
    BY <1>0, <2>1 DEF Cached
  <2>5. \A j \in Stmts : cache'[j] # None =>
          /\ fs[cache'[j]].key = j
          /\ fs[cache'[j]].state \notin {"free", "removed"}
          /\ fs[cache'[j]].state = "closed" => fs[cache'[j]].stmt # NoStmt
    <3> SUFFICES ASSUME NEW j \in Stmts, cache'[j] # None
                 PROVE  /\ fs[cache[j]].key = j
                        /\ fs[cache[j]].state \notin {"free", "removed"}
                        /\ fs[cache[j]].state = "closed" => fs[cache[j]].stmt # NoStmt
      BY <2>2
    <3>1. cache[j] \in Flights /\ cache[j] # None
      BY <1>0, <2>2 DEF TypeOK
    <3>2. CASE cache[j] = f
      BY <1>0, <2>1, <2>2, <3>1, <3>2 DEF Cached
    <3>3. CASE cache[j] # f
      BY <1>0, <2>1, <3>1, <3>3 DEF Cached
    <3> QED
      BY <3>2, <3>3
  <2> QED
    BY <1>0, <2>2, <2>3, <2>4, <2>5, CachedKept
<1>7. ASSUME NEW p \in Procs, NEW f \in Flights, NEW k \in Stmts, NEW fl,
             NewFlight(f), Add(k, f), SetFlights([flights EXCEPT ![f] = fl]),
             fl.key = k, fl.state \in {"loading", "closed"},
             fl.state = "closed" => fl.stmt # NoStmt
      PROVE  Cached'
  <2> DEFINE fs == [flights EXCEPT ![f] = fl]
  <2>1. fs[f] = fl /\ \A g \in Flights \ {f} : fs[g] = flights[g]
    BY <1>0 DEF TypeOK
  <2>2. flights[f].state = "free"
    BY <1>7, NoStmtType DEF NewFlight
  <2>3. \A j \in Stmts : cache[j] # f
    BY <1>0, <2>2, NoStmtType DEF Cached
  <2>4. \A j \in Stmts : cache'[j] # None => cache'[j] = IF j = k THEN f ELSE cache[j]
    BY <1>0, <1>7, AddFacts
  <2>5. \A g \in Flights : fs[g].state # "free" => fs[g].key \in Stmts
    BY <1>0, <1>7, <2>1 DEF Cached
  <2>6. \A g \in Flights : fs[g].state = "loaded" => fs[g].stmt # NoStmt
    BY <1>0, <1>7, <2>1 DEF Cached
  <2> HIDE DEF fs
  <2>7. \A j \in Stmts : cache'[j] # None =>
          /\ fs[cache'[j]].key = j
          /\ fs[cache'[j]].state \notin {"free", "removed"}
          /\ fs[cache'[j]].state = "closed" => fs[cache'[j]].stmt # NoStmt
    <3>1. cache'[k] # None => cache'[k] = f
      BY <2>4
    <3>2. \A j \in Stmts \ {k} : cache'[j] # None =>
            cache'[j] = cache[j] /\ cache[j] # f /\ cache[j] \in Flights
      BY <1>0, <2>3, <2>4 DEF TypeOK
    <3> QED
      BY <1>0, <1>7, <2>1, <3>1, <3>2 DEF Cached
  <2>8. SetFlights(fs)
    BY <1>7 DEF fs
  <2> QED
    BY <1>0, <2>5, <2>6, <2>7, <2>8, CachedKept
<1>8. ASSUME NEW p \in Procs, NEW f \in Flights, Miss(p, f) PROVE Cached'
  <2>1. Current(p) \in Stmts
    BY <1>0, <1>8, CurrentFacts DEF Miss, Progress
  <2> QED
    BY Zenon, <1>7, <1>8, <2>1 DEF Miss
<1>9. ASSUME NEW p \in Procs, NEW f \in Flights, Update(p, f) PROVE Cached'
  <2>1. work[p][1] \in Stmts
    BY <1>0, <1>9, QueryFacts DEF Update, Progress
  <2>2. Renewed(p) # NoStmt
    BY <1>0, <1>9 DEF Update, Progress, Renewed, NoStmt
  <2> QED
    BY Zenon, <1>7, <1>9, <2>1, <2>2 DEF Update
<1>10. ASSUME NEW p \in Procs, Prepared(p) \/ PrepareFails(p) \/ Cancelled(p) PROVE Cached'
  <2>1. SetFlights(flights) /\ cache' = cache
    BY <1>10 DEF Prepared, PrepareFails, Cancelled, cacheVars
  <2> QED
    BY <1>0, <2>1, CachedKept DEF Cached
<1>11. ASSUME NEW p \in Procs, Unprepared(p) PROVE Cached'
  <2> DEFINE k == work[p][resp[p].stmt]
  <2>1. k \in Stmts
    BY <1>0, <1>11, UnpreparedFacts
  <2>2. \A j \in Stmts : cache'[j] # None => cache'[j] = cache[j]
    BY <1>0, <1>11, <2>1, RemoveFacts DEF Unprepared, MoveToFront, cacheVars
  <2>3. SetFlights(flights)
    BY <1>11 DEF Unprepared
  <2> QED
    BY <1>0, <2>2, <2>3, CachedKept DEF Cached
<1>12. ASSUME NEW p \in Procs,
              \/ Hit(p) \/ Execute(p) \/ Rows(p) \/ Void(p) \/ Changed(p) \/ ExecuteFails(p)
              \/ \E w \in Works[p] : Start(p, w)
       PROVE  Cached'
  BY Zenon, <1>0, <1>12 DEF Cached, Hit, Execute, Rows, Void, Changed, ExecuteFails, Start,
                     MoveToFront, cacheVars
<1> QED
  BY Zenon, <1>1, <1>2, <1>3, <1>4, <1>5, <1>6, <1>8, <1>9, <1>10, <1>11, <1>12, Steps

\* A query whose statement is still cached keeps what the cache holds for it while others
\* work: the same flight, at least as far as before, or another one that is done.
LEMMA SteadyKept ==
  ASSUME NEW p \in Procs, NEW k \in Stmts, Steady(p, k),
         pc'[p] = pc[p], work'[p] = work[p], flight'[p] = flight[p],
         p \in lost => p \in lost',
         work[p] = <<k>> =>
           \/ p \in lost'
           \/ cache[k] = None
           \/ /\ cache'[k] # None
              /\ cache'[k] = cache[k] \/ flights'[cache'[k]].state = "closed"
              /\ cache'[k] = cache[k] /\ flights[cache[k]].state = "closed" =>
                   flights'[cache[k]].state = "closed"
  PROVE  Steady(p, k)'
BY DEF Steady

\* The same for a step that leaves the cache alone and does not reopen a cached flight.
LEMMA SteadyFlights ==
  ASSUME TypeOK, Undisturbed, cache' = cache, lost \subseteq lost',
         NEW p \in Procs, Untouched(p),
         \A f \in Flights : (\E k \in Stmts : cache[k] = f) /\ flights[f].state = "closed" =>
           flights'[f].state = "closed"
  PROVE  \A k \in Stmts : Steady(p, k)'
<1> SUFFICES ASSUME NEW k \in Stmts PROVE Steady(p, k)'
  OBVIOUS
<1>1. Steady(p, k)
  BY DEF Undisturbed
<1>2. cache[k] # None => cache[k] \in Flights
  BY DEF TypeOK
<1>3. cache[k] # None /\ flights[cache[k]].state = "closed" => flights'[cache[k]].state = "closed"
  BY Zenon, <1>2
<1> QED
  BY Zenon, <1>1, <1>3, SteadyKept DEF Untouched

\* An execution that looks its statement up, or has ended, has nothing to keep.
LEMMA SteadyTrivial ==
  ASSUME NEW p \in Procs, pc'[p] \notin {"wait", "execute", "respond"}
  PROVE  \A k \in Stmts : Steady(p, k)'
BY DEF Steady

\* A cached flight stays as it is when the others are collected.
LEMMA ClosedKept ==
  ASSUME TypeOK, NEW f \in Flights, NEW k \in Stmts, cache'[k] = f, NEW fs, SetFlights(fs),
         fs[f] = flights[f]
  PROVE  flights'[f] = flights[f]
BY FlightsKept

LEMMA UndisturbedInductive ==
  ASSUME IInv, [Next]_vars
  PROVE  Undisturbed'
<1>0. /\ TypeOK /\ TypeOK' /\ (\A p \in Procs : Progress(p)) /\ Cached /\ Undisturbed
      /\ Cached'
  BY TypeInductive, CachedInductive DEF IInv
<1>1. CASE Settle \/ UNCHANGED vars \/ \E k \in Stmts : Forget(k) \/ Alter(k)
  BY Zenon, <1>0, <1>1, SteadyFlights
  DEF Undisturbed, Untouched, Settle, Forget, Alter, vars, cacheVars, procVars, histVars
<1>2. ASSUME NEW f \in Flights, Load(f) \/ LoadFails(f) PROVE Undisturbed'
  <2>1. flights[f].state = "loading" /\ \A g \in Flights \ {f} : flights'[g] = flights[g]
    BY <1>0, <1>2 DEF Load, LoadFails, TypeOK
  <2>2. cache' = cache /\ lost' = lost /\ \A p \in Procs : Untouched(p)
    BY <1>2 DEF Load, LoadFails, cacheVars, procVars, histVars, Untouched
  <2> QED
    BY <1>0, <2>1, <2>2, SteadyFlights DEF Undisturbed
<1>3. ASSUME NEW f \in Flights, CloseDone(f) PROVE Undisturbed'
  <2> DEFINE fs == [flights EXCEPT ![f].state = "closed"]
  <2>1. flights[f].state # "closed" /\ \A g \in Flights \ {f} : fs[g] = flights[g]
    BY <1>0, <1>3 DEF CloseDone, TypeOK
  <2>2. /\ cache' = cache /\ lost' = lost /\ SetFlights(fs)
        /\ \A p \in Procs : Untouched(p)
    BY <1>3 DEF CloseDone, cacheVars, procVars, histVars, Untouched
  <2> HIDE DEF fs
  <2>3. \A g \in Flights : (\E k \in Stmts : cache[k] = g) /\ flights[g].state = "closed" =>
          flights'[g].state = "closed"
    BY <1>0, <2>1, <2>2, ClosedKept
  <2> QED
    BY Zenon, <1>0, <2>2, <2>3, SteadyFlights DEF Undisturbed
<1>4. ASSUME NEW f \in Flights, Uncache(f), NEW p \in Procs, NEW k \in Stmts PROVE Steady(p, k)'
  <2> DEFINE fs == [flights EXCEPT ![f].state = "removed"]
  <2>1. flights[f].state # "closed" /\ \A g \in Flights \ {f} : fs[g] = flights[g]
    BY <1>0, <1>4 DEF Uncache, TypeOK
  <2>2. flights[f].key \in Stmts
    BY <1>0, <1>4 DEF Uncache, Cached
  <2>3. SetFlights(fs) /\ Untouched(p)
    BY <1>4 DEF Uncache, procVars, Untouched
  <2> HIDE DEF fs
  <2>4. lost \subseteq lost' /\ (work[p] = <<k>> => p \in lost' \/ cache'[k] = cache[k])
    BY <1>0, <1>4, <2>2, RemoveFacts DEF Uncache
  <2>5. cache'[k] = cache[k] /\ cache[k] # None /\ flights[cache[k]].state = "closed" =>
          flights'[cache[k]].state = "closed"
    <3>1. cache[k] # None => cache[k] \in Flights
      BY <1>0 DEF TypeOK
    <3> QED
      BY <1>0, <2>1, <2>3, <3>1, ClosedKept
  <2> QED
    BY Zenon, <1>0, <2>3, <2>4, <2>5, SteadyKept DEF Undisturbed, Untouched
<1>5. ASSUME NEW p \in Procs, NEW w \in Works[p], Start(p, w) PROVE Undisturbed'
  <2>1. /\ pc'[p] = "lookup" /\ cache' = cache /\ flights' = flights
        /\ lost' = lost \ {p} /\ \A q \in Procs \ {p} : Untouched(q)
    BY <1>0, <1>5 DEF Start, Goto, cacheVars, TypeOK, Untouched
  <2>2. \A q \in Procs \ {p}, k \in Stmts : Steady(q, k)'
    BY Zenon, <1>0, <2>1, SteadyKept DEF Undisturbed, Untouched
  <2> QED
    BY <2>1, <2>2, SteadyTrivial DEF Undisturbed
<1>6. ASSUME NEW p \in Procs, Hit(p) PROVE Undisturbed'
  <2>1. /\ pc'[p] = "wait" /\ flight'[p] = cache[Current(p)] /\ cache[Current(p)] # None
        /\ cache' = cache /\ flights' = flights /\ work' = work /\ lost' = lost
        /\ \A q \in Procs \ {p} : Untouched(q)
    BY <1>0, <1>6 DEF Hit, MoveToFront, Goto, histVars, TypeOK, Untouched
  <2>2. \A k \in Stmts : work[p] = <<k>> => Current(p) = k
    BY <1>0, <1>6, CurrentFacts DEF Hit, Progress
  <2>3. \A k \in Stmts : Steady(p, k)'
    BY <2>1, <2>2 DEF Steady
  <2>4. \A q \in Procs \ {p}, k \in Stmts : Steady(q, k)'
    BY <1>0, <2>1, SteadyFlights
  <2> QED
    BY <2>3, <2>4 DEF Undisturbed
<1>7. ASSUME NEW p \in Procs, NEW f \in Flights, Miss(p, f), NEW q \in Procs, NEW k \in Stmts
      PROVE  Steady(q, k)'
  <2> DEFINE fs == [flights EXCEPT ![f] =
                      [state |-> "loading", key |-> Current(p), stmt |-> NoStmt]]
  <2>1. Current(p) \in Stmts /\ (work[p] = <<k>> => Current(p) = k)
    BY Zenon, <1>0, <1>7, CurrentFacts DEF Miss, Progress
  <2>2. flights[f].state = "free" /\ \A g \in Flights \ {f} : fs[g] = flights[g]
    BY <1>0, <1>7, NoStmtType DEF Miss, NewFlight, TypeOK
  <2>3. /\ SetFlights(fs) /\ flight'[p] = f /\ pc'[p] = "wait" /\ work' = work
        /\ cache[Current(p)] = None /\ \A r \in Procs \ {p} : Untouched(r)
    BY <1>0, <1>7 DEF Miss, Missing, Goto, TypeOK, Untouched
  <2> HIDE DEF fs
  <2>4. /\ lost \subseteq lost'
        /\ \/ cache'[k] = IF k = Current(p) THEN f ELSE cache[k]
           \/ \A r \in Procs : work[r] = <<k>> => r \in lost'
    BY <1>0, <1>7, <2>1, AddFacts DEF Miss
  <2>5. CASE q = p
    BY <2>1, <2>3, <2>4, <2>5, NoStmtType DEF Steady
  <2>6. CASE q # p
    <3>1. cache'[k] = cache[k] /\ cache[k] # None /\ flights[cache[k]].state = "closed" =>
            flights'[cache[k]].state = "closed"
      <4>1. cache[k] # None => cache[k] \in Flights
        BY <1>0 DEF TypeOK
      <4> QED
        BY <1>0, <2>2, <2>3, <4>1, ClosedKept
    <3> QED
      BY <1>0, <2>3, <2>4, <2>6, <3>1, SteadyKept DEF Undisturbed, Untouched
  <2> QED
    BY <2>5, <2>6
<1>8. ASSUME NEW p \in Procs, NEW f \in Flights, Update(p, f), NEW q \in Procs, NEW k \in Stmts
      PROVE  Steady(q, k)'
  <2> DEFINE fs == [flights EXCEPT ![f] =
                      [state |-> "closed", key |-> work[p][1], stmt |-> Renewed(p)]]
  <2>1. work[p][1] \in Stmts
    BY <1>0, <1>8, QueryFacts DEF Update, Progress
  <2>2. /\ flights[f].state = "free" /\ fs[f].state = "closed"
        /\ \A g \in Flights \ {f} : fs[g] = flights[g]
    BY <1>0, <1>8, NoStmtType DEF Update, NewFlight, TypeOK
  <2>3. SetFlights(fs) /\ pc'[p] = "idle" /\ \A r \in Procs \ {p} : Untouched(r)
    BY Zenon, <1>0, <1>8, EndsFacts DEF Update
  <2> HIDE DEF fs
  <2>4. /\ lost \subseteq lost'
        /\ \/ cache'[k] = IF k = work[p][1] THEN f ELSE cache[k]
           \/ \A r \in Procs : work[r] = <<k>> => r \in lost'
    BY Zenon, <1>0, <1>8, <2>1, AddFacts DEF Update
  <2>5. CASE q = p
    BY <2>3, <2>5, SteadyTrivial
  <2>6. CASE q # p
    <3>1. cache'[k] = cache[k] /\ cache[k] # None /\ flights[cache[k]].state = "closed" =>
            flights'[cache[k]].state = "closed"
      <4>1. cache[k] # None => cache[k] \in Flights
        BY <1>0 DEF TypeOK
      <4> QED
        BY <1>0, <2>2, <2>3, <4>1, ClosedKept
    <3>2. cache'[k] = f => flights'[f].state = "closed"
      BY <1>0, <2>2, <2>3, FlightsKept
    <3>3. f # None
      BY NoStmtType
    <3> QED
      BY <1>0, <2>3, <2>4, <2>6, <3>1, <3>2, <3>3, SteadyKept DEF Undisturbed, Untouched
  <2> QED
    BY <2>5, <2>6
<1>9. ASSUME NEW p \in Procs, Prepared(p) PROVE Undisturbed'
  <2>1. /\ SetFlights(flights) /\ cache' = cache /\ lost' = lost /\ work' = work
        /\ pc[p] = "wait" /\ flights[flight[p]].state = "closed" /\ pc'[p] \in {"execute", "lookup"}
        /\ \A q \in Procs \ {p} : Untouched(q)
    BY <1>0, <1>9 DEF Prepared, Goto, cacheVars, histVars, TypeOK, Untouched
  <2>2. \A k \in Stmts : cache[k] # None => flights'[cache[k]] = flights[cache[k]]
    BY Zenon, <1>0, <2>1, ClosedKept DEF TypeOK
  <2>3. \A k \in Stmts : Steady(p, k)'
    BY Zenon, <1>0, <2>1, <2>2 DEF Undisturbed, Steady
  <2>4. \A q \in Procs \ {p}, k \in Stmts : Steady(q, k)'
    BY <1>0, <2>1, <2>2, SteadyKept DEF Undisturbed, Untouched
  <2> QED
    BY <2>3, <2>4 DEF Undisturbed
<1>10. ASSUME NEW p \in Procs, PrepareFails(p) \/ Cancelled(p) PROVE Undisturbed'
  <2>1. /\ SetFlights(flights) /\ cache' = cache /\ lost' = lost
        /\ pc'[p] = "idle" /\ \A q \in Procs \ {p} : Untouched(q)
    BY Zenon, <1>0, <1>10, EndsFacts DEF PrepareFails, Cancelled, cacheVars, histVars
  <2>2. \A k \in Stmts : cache[k] # None => flights'[cache[k]] = flights[cache[k]]
    BY Zenon, <1>0, <2>1, ClosedKept DEF TypeOK
  <2>3. \A q \in Procs \ {p}, k \in Stmts : Steady(q, k)'
    BY Zenon, <1>0, <2>1, <2>2, SteadyKept DEF Undisturbed, Untouched
  <2> QED
    BY <2>1, <2>3, SteadyTrivial DEF Undisturbed
<1>11. ASSUME NEW p \in Procs, Execute(p) PROVE Undisturbed'
  <2>1. /\ cache' = cache /\ flights' = flights /\ lost' = lost /\ work' = work
        /\ pc[p] = "execute" /\ pc'[p] = "respond" /\ \A q \in Procs \ {p} : Untouched(q)
    BY <1>0, <1>11 DEF Execute, Goto, cacheVars, histVars, TypeOK, Untouched
  <2>2. \A k \in Stmts : Steady(p, k)'
    BY <1>0, <2>1 DEF Undisturbed, Steady
  <2>3. \A q \in Procs \ {p}, k \in Stmts : Steady(q, k)'
    BY <1>0, <2>1, SteadyFlights
  <2> QED
    BY <2>2, <2>3 DEF Undisturbed
<1>12. ASSUME NEW p \in Procs, Unprepared(p), NEW q \in Procs, NEW j \in Stmts
       PROVE  Steady(q, j)'
  <2> DEFINE k == work[p][resp[p].stmt]
  <2>1. k \in Stmts
    BY <1>0, <1>12, UnpreparedFacts
  <2>2. /\ lost \subseteq lost'
        /\ cache'[j] = cache[j] \/ \A r \in Procs : work[r] = <<j>> => r \in lost'
    BY Zenon, <1>0, <1>12, <2>1, RemoveFacts DEF Unprepared, MoveToFront, cacheVars
  <2>3. SetFlights(flights) /\ pc'[p] = "lookup" /\ \A r \in Procs \ {p} : Untouched(r)
    <3>1. /\ pc' = [pc EXCEPT ![p] = "lookup"] /\ infos' = [infos EXCEPT ![p] = <<>>]
          /\ resp' = [resp EXCEPT ![p] = NoResp]
          /\ flight' = flight /\ work' = work /\ old' = old
      BY Zenon, <1>12 DEF Unprepared, Goto
    <3>2. SetFlights(flights)
      BY Zenon, <1>12 DEF Unprepared
    <3> QED
      BY <1>0, <3>1, <3>2 DEF TypeOK, Untouched
  <2>4. cache'[j] = cache[j] /\ cache[j] # None => flights'[cache[j]] = flights[cache[j]]
    BY Zenon, <1>0, <2>3, ClosedKept DEF TypeOK
  <2>5. CASE q = p
    BY <2>3, <2>5, SteadyTrivial
  <2>6. CASE q # p
    BY <1>0, <2>2, <2>3, <2>4, <2>6, SteadyKept DEF Undisturbed, Untouched
  <2> QED
    BY <2>5, <2>6
<1>13. ASSUME NEW p \in Procs, Rows(p) \/ Void(p) \/ ExecuteFails(p) PROVE Undisturbed'
  <2>1. /\ cache' = cache /\ flights' = flights /\ lost' = lost
        /\ pc'[p] = "idle" /\ \A q \in Procs \ {p} : Untouched(q)
    BY Zenon, <1>0, <1>13, EndsFacts DEF Rows, Void, ExecuteFails, cacheVars, histVars
  <2>2. \A q \in Procs \ {p}, k \in Stmts : Steady(q, k)'
    BY <1>0, <2>1, SteadyFlights
  <2> QED
    BY <2>1, <2>2, SteadyTrivial DEF Undisturbed
<1>14. ASSUME NEW p \in Procs, Changed(p) PROVE Undisturbed'
  <2>1. /\ cache' = cache /\ flights' = flights /\ lost' = lost
        /\ pc'[p] \in {"idle", "panic", "update"} /\ \A q \in Procs \ {p} : Untouched(q)
    <3>1. CASE cache[work[p][1]] = None
      BY Zenon, <1>0, <1>14, <3>1, EndsFacts DEF Changed, cacheVars
    <3>2. CASE cache[work[p][1]] # None
      <4>1. cache' = cache /\ flights' = flights /\ lost' = lost /\ work' = work
        BY Zenon, <1>14, <3>2 DEF Changed, MoveToFront
      <4>2. /\ infos' = infos /\ flight' = flight /\ resp' = resp
            /\ \E i : old' = [old EXCEPT ![p] = i]
            /\ \E l \in {"panic", "update"} : pc' = [pc EXCEPT ![p] = l]
        BY Zenon, <1>14, <3>2 DEF Changed, Goto
      <4>3. \A q \in Procs \ {p} : Untouched(q)
        BY <1>0, <4>1, <4>2 DEF TypeOK, Untouched
      <4>4. pc'[p] \in {"panic", "update"}
        BY <1>0, <4>2 DEF TypeOK
      <4> QED
        BY <4>1, <4>3, <4>4
    <3> QED
      BY <3>1, <3>2
  <2>2. \A q \in Procs \ {p}, k \in Stmts : Steady(q, k)'
    BY Zenon, <1>0, <2>1, SteadyFlights
  <2> QED
    BY <2>1, <2>2, SteadyTrivial DEF Undisturbed
<1> QED
  BY Zenon, <1>1, <1>2, <1>3, <1>4, <1>5, <1>6, <1>7, <1>8, <1>9, <1>10, <1>11, <1>12, <1>13,
     <1>14, Steps DEF Undisturbed

\* executeQuery reads the statement of a cached flight that has none only for a query
\* whose statement left the cache meanwhile.
LEMMA PanicInductive ==
  ASSUME IInv, [Next]_vars
  PROVE  \A p \in Procs : pc'[p] = "panic" => p \in lost'
<1>0. /\ TypeOK /\ (\A p \in Procs : Progress(p)) /\ Cached /\ Undisturbed
      /\ \A p \in Procs : pc[p] = "panic" => p \in lost
  BY DEF IInv
<1>1. CASE Settle \/ UNCHANGED vars \/ \E k \in Stmts : Forget(k) \/ Alter(k)
  BY Zenon, <1>0, <1>1 DEF Settle, Forget, Alter, vars, procVars, histVars
<1>2. ASSUME NEW f \in Flights, Load(f) \/ LoadFails(f) \/ CloseDone(f)
      PROVE  pc' = pc /\ lost' = lost
  BY <1>2 DEF Load, LoadFails, CloseDone, procVars, histVars
<1>3. ASSUME NEW f \in Flights, Uncache(f) PROVE pc' = pc /\ lost \subseteq lost'
  <2>1. flights[f].key \in Stmts
    BY <1>0, <1>3 DEF Uncache, Cached
  <2> QED
    BY <1>0, <1>3, <2>1, RemoveFacts DEF Uncache, procVars
<1>4. ASSUME NEW p \in Procs, NEW w \in Works[p], Start(p, w)
      PROVE  \A q \in Procs : pc'[q] = "panic" => q \in lost'
  BY Zenon, <1>0, <1>4 DEF Start, Goto, TypeOK
<1>5. ASSUME NEW p \in Procs, NEW f \in Flights, Miss(p, f)
      PROVE  pc'[p] = "wait" /\ lost \subseteq lost' /\ \A q \in Procs \ {p} : pc'[q] = pc[q]
  <2>1. Current(p) \in Stmts
    BY Zenon, <1>0, <1>5, CurrentFacts DEF Miss, Progress
  <2>2. pc' = [pc EXCEPT ![p] = "wait"]
    BY Zenon, <1>5 DEF Miss, Goto
  <2>3. lost \subseteq lost'
    BY Zenon, <1>0, <1>5, <2>1, AddFacts DEF Miss
  <2> QED
    BY <1>0, <2>2, <2>3 DEF TypeOK
<1>6. ASSUME NEW p \in Procs, NEW f \in Flights, Update(p, f)
      PROVE  pc'[p] = "idle" /\ lost \subseteq lost' /\ \A q \in Procs \ {p} : pc'[q] = pc[q]
  <2>1. work[p][1] \in Stmts
    BY Zenon, <1>0, <1>6, QueryFacts DEF Update, Progress
  <2> QED
    BY Zenon, <1>0, <1>6, <2>1, AddFacts, EndsFacts DEF Update, Untouched
<1>7. ASSUME NEW p \in Procs, Hit(p) \/ Prepared(p) \/ Execute(p)
      PROVE  pc'[p] # "panic" /\ lost \subseteq lost' /\ \A q \in Procs \ {p} : pc'[q] = pc[q]
  BY <1>0, <1>7 DEF Hit, Prepared, Execute, Goto, histVars, TypeOK
<1>8. ASSUME NEW p \in Procs, PrepareFails(p) \/ Cancelled(p) \/ Rows(p) \/ Void(p) \/ ExecuteFails(p)
      PROVE  pc'[p] # "panic" /\ lost \subseteq lost' /\ \A q \in Procs \ {p} : pc'[q] = pc[q]
  BY <1>0, <1>8, EndsFacts
  DEF PrepareFails, Cancelled, Rows, Void, ExecuteFails, histVars, Untouched
<1>9. ASSUME NEW p \in Procs, Unprepared(p)
      PROVE  pc'[p] # "panic" /\ lost \subseteq lost' /\ \A q \in Procs \ {p} : pc'[q] = pc[q]
  <2>1. work[p][resp[p].stmt] \in Stmts
    BY <1>0, <1>9, UnpreparedFacts
  <2>2. pc' = [pc EXCEPT ![p] = "lookup"]
    BY Zenon, <1>9 DEF Unprepared, Goto
  <2>3. lost \subseteq lost'
    BY Zenon, <1>0, <1>9, <2>1, RemoveFacts DEF Unprepared
  <2> QED
    BY <1>0, <2>2, <2>3 DEF TypeOK
<1>10. ASSUME NEW p \in Procs, Changed(p)
       PROVE  \A q \in Procs : pc'[q] = "panic" => q \in lost'
  <2> DEFINE k == work[p][1]
  <2>1. k \in Stmts /\ work[p] = <<k>> /\ pc[p] = "respond" /\ lost' = lost
    BY Zenon, <1>0, <1>10, QueryFacts DEF Changed, Progress
  <2>2. \A q \in Procs \ {p} : pc'[q] = pc[q]
    BY <1>0, <1>10 DEF Changed, Ends, Goto, TypeOK
  <2>3. pc'[p] = "panic" => cache[k] # None /\ flights[cache[k]].stmt = NoStmt
    BY <1>0, <1>10 DEF Changed, Ends, Goto, TypeOK
  <2>4. p \notin lost => cache[k] # None /\ flights[cache[k]].state = "closed"
    BY Zenon, <1>0, <2>1 DEF Undisturbed, Steady
  <2>5. pc'[p] = "panic" => p \in lost
    BY <1>0, <2>1, <2>3, <2>4 DEF Cached
  <2> QED
    BY <1>0, <2>1, <2>2, <2>5
<1> QED
  BY Zenon, <1>0, <1>1, <1>2, <1>3, <1>4, <1>5, <1>6, <1>7, <1>8, <1>9, <1>10, Steps

\* Rows without metadata are decoded with the statement's own, which the node had when it
\* wrote them.
LEMMA DecodedInductive ==
  ASSUME IInv, [Next]_vars
  PROVE  ~misread'
<1>1. ASSUME NEW p \in Procs, Rows(p) \/ Changed(p) PROVE ~misread'
  <2>1. DecodedWith(p) = resp[p].meta
    BY Zenon, <1>1 DEF IInv, Progress, DecodedWith, Rows, Changed
  <2> QED
    BY Zenon, <1>1, <2>1 DEF IInv, Rows, Changed
<1> QED
  BY Zenon, <1>1, Steps
  DEF IInv, Settle, vars, histVars, Forget, Alter, Load, LoadFails, Uncache, CloseDone, Start,
      Miss, Update, Hit, Prepared, PrepareFails, Cancelled, Execute, Unprepared, Void,
      ExecuteFails

LEMMA Invariance == Spec => []IInv
<1>1. IInv /\ [Next]_vars => IInv'
  BY TypeInductive, ProgressInductive, CachedInductive, UndisturbedInductive, PanicInductive,
     DecodedInductive DEF IInv
<1> QED
  BY Initially, <1>1, PTL DEF Spec

\* A cached flight that is done has its statement, and executeQuery panics on a flight
\* without one only if the statement has left the cache since the execution began.
THEOREM CacheSound == Spec => []CachedIsPrepared
<1>1. IInv => CachedIsPrepared
  BY DEF IInv, Cached, CachedIsPrepared
<1> QED
  BY Invariance, <1>1, PTL

\* No row is decoded with other metadata than it was written with.
THEOREM DecodedRight == Spec => []RowsDecoded
<1>1. IInv => RowsDecoded
  BY DEF IInv, RowsDecoded
<1> QED
  BY Invariance, <1>1, PTL

===============================================================================
