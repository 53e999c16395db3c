------------------------------ MODULE PoolProofs ------------------------------
(***************************************************************************)
(* Proofs about HostConnPool, for any size of the pool and any number of   *)
(* fillers and connections.                                                *)
(*                                                                         *)
(* ConnsSound is not inductive.  That the pool does not outgrow its size   *)
(* rests on there being one filler at a time (Filler), to whom every       *)
(* connect belongs, and on a count that includes the connections being     *)
(* made and those the filler has yet to start (Counted).  That a dead      *)
(* connection is on its way out rests on what connect and Close hold       *)
(* (Held).                                                                 *)
(***************************************************************************)
EXTENDS HostConnPool, FiniteSetTheorems, TLAPS

\* The variables keep their types.
TypeOK ==
  /\ conns \subseteq Conns /\ toClose \subseteq Conns /\ early \subseteq Conns
  /\ closed \in BOOLEAN /\ filling \in BOOLEAN
  /\ fpc \in [Fillers -> {"idle", "upgrade", "first", "many", "stop", "down"}]
  /\ want \in [Fillers -> Nat]
  /\ ferr \in [Fillers -> BOOLEAN]
  /\ life \in [Conns -> {"none", "open", "dead"}]
  /\ cpc \in [Conns -> {"none", "dial", "add", "close", "relock"}]
  /\ by \in [Conns -> Fillers \cup {None}]
  /\ handler \in [Conns -> BOOLEAN]

\* Between setting pool.filling and resetting it.
Active(f) == fpc[f] \in {"first", "many", "stop"}

\* One filler is active while pool.filling is set and none otherwise; the connects
\* under way belong to it, and it waits for them.
Filler ==
  /\ \A f, g \in Fillers : Active(f) /\ Active(g) => f = g
  /\ filling <=> \E f \in Fillers : Active(f)
  /\ \A c \in Conns : by[c] = None <=> cpc[c] = "none"
  /\ \A c \in Conns : by[c] # None => fpc[by[c]] \in {"first", "many"}

\* The connections of the pool and those being made for it.
Taken == conns \cup {c \in Conns : by[c] # None}

\* They fit into the pool, and so do the ones the filler has yet to start: the first
\* one alone, then the rest.
Counted ==
  /\ Cardinality(Taken) <= Size
  /\ \A f \in Fillers : /\ fpc[f] = "first" => Cardinality(Taken) + want[f] <= 1
                        /\ fpc[f] = "many" => Cardinality(Taken) + want[f] <= Size

\* Connections in the pool, or taken out of it by Close, were made and added; one that
\* died before it was added is remembered; a closed pool is empty.
Held ==
  /\ \A c \in conns \cup toClose : cpc[c] = "none" /\ life[c] # "none"
  /\ \A c \in Conns : cpc[c] = "add" => life[c] = "open" \/ (life[c] = "dead" /\ c \in early)
  /\ closed => conns = {}
  /\ toClose # {} => closed
  /\ \A c \in conns : life[c] = "dead" => handler[c] \/ c \in early

\* A connection that is being dialled is not there yet, and one whose error is still to be
\* handled is dead.  An open one is in the pool, in the hands of connect, or among those
\* that Close is about to close.
OpenTracked ==
  /\ \A c \in Conns : cpc[c] = "dial" => life[c] = "none"
  /\ \A c \in Conns : handler[c] => life[c] = "dead"
  /\ \A c \in Conns : life[c] = "open" => c \in conns \cup toClose \/ cpc[c] \in {"add", "close"}

IInv == TypeOK /\ Filler /\ Counted /\ Held /\ OpenTracked

\* Names for the steps of the pool, for the case splits below.
LEMMA Steps ==
  ASSUME [Next]_vars
  PROVE  \/ Pick \/ Close \/ Settle \/ UNCHANGED vars
         \/ \E f \in Fillers : \/ Check(f) \/ Upgrade(f) \/ FirstDone(f) \/ ManyDone(f)
                               \/ fillingStopped(f) \/ ReportDown(f)
         \/ \E f \in Fillers, c \in Conns : StartConnect(f, c)
         \/ \E c \in Conns : \/ Dialed(c) \/ ConnectFails(c) \/ Add(c) \/ AddClosed(c)
                             \/ CloseAdded(c)
         \/ \E c \in Conns : HandleError(c) \/ CloseConn(c) \/ Die(c) \/ Collect(c)
BY DEF Next, fill, connect

LEMMA Initially == Init => IInv
<1> SUFFICES ASSUME Init PROVE IInv
  OBVIOUS
<1>1. TypeOK /\ Filler /\ Held /\ OpenTracked
  BY Zenon, PoolAssumption DEF Init, TypeOK, Filler, Active, Held, OpenTracked
<1>2. Taken = {}
  BY DEF Init, Taken
<1>3. Counted
  BY <1>2, FS_EmptySet, PoolAssumption DEF Init, Counted
<1> QED
  BY <1>1, <1>3 DEF IInv

\* Every step keeps the types.  A filler asks for at least one connection because it
\* found the pool not full.
LEMMA TypeInductive ==
  ASSUME IInv, [Next]_vars
  PROVE  TypeOK'
<1> USE PoolAssumption DEF IInv, TypeOK
<1>1. CASE Pick \/ Close \/ Settle \/ UNCHANGED vars
  BY Zenon, <1>1 DEF Pick, Close, Settle, vars, poolVars, fillVars, connVars, envVars
<1>2. ASSUME NEW f \in Fillers, Check(f) \/ ManyDone(f) \/ fillingStopped(f) \/ ReportDown(f)
      PROVE  TypeOK'
  BY Zenon, <1>2 DEF Check, ManyDone, fillingStopped, ReportDown, Goto, poolVars, fillVars,
              connVars, envVars
<1>3. ASSUME NEW f \in Fillers, Upgrade(f)
      PROVE  TypeOK'
  <2>1. Cardinality(conns) \in Nat
    BY FS_Subset, FS_CardinalityType
  <2>2. MayFill => Size - Cardinality(conns) \in Nat
    BY <2>1 DEF MayFill, Full
  <2>3. CASE MayFill
    <3>1. want' \in [Fillers -> Nat]
      BY <1>3, <2>2, <2>3 DEF Upgrade
    <3>2. fpc' \in [Fillers -> {"idle", "upgrade", "first", "many", "stop", "down"}]
      BY <1>3, <2>3 DEF Upgrade, Goto
    <3> QED
      BY Zenon, <1>3, <2>3, <3>1, <3>2 DEF Upgrade, connVars, envVars
  <2>4. CASE ~MayFill
    BY <1>3, <2>4 DEF Upgrade, Goto, connVars, envVars
  <2> QED
    BY <2>3, <2>4
<1>4. ASSUME NEW f \in Fillers, FirstDone(f)
      PROVE  TypeOK'
  BY <1>4 DEF FirstDone, Rest, Goto, poolVars, connVars, envVars
<1>5. ASSUME NEW f \in Fillers, NEW c \in Conns, StartConnect(f, c)
      PROVE  TypeOK'
  BY <1>5 DEF StartConnect, poolVars, envVars
<1>6. ASSUME NEW c \in Conns, Dialed(c) \/ AddClosed(c)
      PROVE  TypeOK'
  BY <1>6 DEF Dialed, AddClosed, poolVars, fillVars, envVars
<1>7. ASSUME NEW c \in Conns, ConnectFails(c) \/ Add(c) \/ CloseAdded(c)
      PROVE  TypeOK'
  <2>1. CASE ConnectFails(c)
    BY Zenon, <2>1 DEF ConnectFails, Return, poolVars, envVars
  <2>2. CASE Add(c)
    BY Zenon, <2>2 DEF Add, Return, envVars
  <2>3. CASE CloseAdded(c)
    BY <2>3 DEF CloseAdded, Return, envVars
  <2> QED
    BY <1>7, <2>1, <2>2, <2>3
<1>8. ASSUME NEW c \in Conns, HandleError(c) \/ CloseConn(c) \/ Die(c) \/ Collect(c)
      PROVE  TypeOK'
  <2>1. CASE HandleError(c)
    BY <2>1 DEF HandleError, fillVars, envVars
  <2>2. CASE CloseConn(c)
    BY Zenon, <2>2 DEF CloseConn, fillVars, envVars
  <2>3. CASE Die(c)
    BY <2>3 DEF Die, poolVars, fillVars
  <2>4. CASE Collect(c)
    BY <2>4 DEF Collect, poolVars, fillVars
  <2> QED
    BY <1>8, <2>1, <2>2, <2>3, <2>4
<1> QED
  BY <1>1, <1>2, <1>3, <1>4, <1>5, <1>6, <1>7, <1>8, Steps

\* A second filler finds pool.filling set under the write lock and gives up, and the
\* first one resets it when all its connects have returned.
LEMMA FillerInductive ==
  ASSUME IInv, [Next]_vars
  PROVE  Filler'
<1> USE PoolAssumption DEF IInv, TypeOK, Filler, Active
<1>1. CASE Pick \/ Close \/ Settle \/ UNCHANGED vars
  BY <1>1 DEF Pick, Close, Settle, vars, poolVars, fillVars, connVars, envVars
<1>2. ASSUME NEW f \in Fillers, Check(f) \/ ReportDown(f)
      PROVE  Filler'
  BY <1>2 DEF Check, ReportDown, Goto, poolVars, connVars
<1>3. ASSUME NEW f \in Fillers, Upgrade(f)
      PROVE  Filler'
  BY <1>3 DEF Upgrade, MayFill, Goto, connVars
<1>4. ASSUME NEW f \in Fillers, FirstDone(f) \/ ManyDone(f) \/ fillingStopped(f)
      PROVE  Filler'
  BY <1>4 DEF FirstDone, ManyDone, fillingStopped, Working, Goto, poolVars, connVars
<1>5. ASSUME NEW f \in Fillers, NEW c \in Conns, StartConnect(f, c)
      PROVE  Filler'
  BY <1>5 DEF StartConnect, poolVars
<1>6. ASSUME NEW c \in Conns, Dialed(c) \/ AddClosed(c)
      PROVE  Filler'
  BY <1>6 DEF Dialed, AddClosed, poolVars, fillVars
<1>7. ASSUME NEW c \in Conns, ConnectFails(c) \/ Add(c) \/ CloseAdded(c)
      PROVE  Filler'
  BY <1>7 DEF ConnectFails, Add, CloseAdded, Return, poolVars
<1>8. ASSUME NEW c \in Conns, HandleError(c) \/ CloseConn(c) \/ Die(c) \/ Collect(c)
      PROVE  Filler'
  BY <1>8 DEF HandleError, CloseConn, Die, Collect, poolVars, fillVars
<1> QED
  BY <1>1, <1>2, <1>3, <1>4, <1>5, <1>6, <1>7, <1>8, Steps

LEMMA TakenFinite ==
  ASSUME TypeOK
  PROVE  /\ IsFiniteSet(Taken) /\ Cardinality(Taken) \in Nat
         /\ IsFiniteSet(conns) /\ Cardinality(conns) \in Nat
         /\ Cardinality(conns) <= Cardinality(Taken)
<1>1. Taken \subseteq Conns /\ conns \subseteq Taken
  BY DEF TypeOK, Taken
<1> QED
  BY <1>1, FS_Subset, FS_CardinalityType, PoolAssumption

\* The count stays right while connections only leave and no filler moves.
LEMMA TakenShrinks ==
  ASSUME TypeOK, TypeOK', Counted, Taken' \subseteq Taken,
         \A f \in Fillers : /\ want'[f] = want[f]
                            /\ fpc'[f] \in {"first", "many"} => fpc'[f] = fpc[f]
  PROVE  Counted'
<1>1. Cardinality(Taken') \in Nat /\ Cardinality(Taken') <= Cardinality(Taken)
  BY TakenFinite, FS_Subset, FS_CardinalityType
<1>2. Cardinality(Taken) \in Nat
  BY TakenFinite
<1> QED
  BY <1>1, <1>2, PoolAssumption DEF Counted, TypeOK

\* fill computes how many connections are missing once: what it starts, and what it has
\* started, always fits, whatever connections come and go meanwhile.
LEMMA CountedInductive ==
  ASSUME IInv, [Next]_vars
  PROVE  Counted'
<1> USE PoolAssumption DEF IInv
<1>0. /\ TypeOK' /\ Filler' /\ Cardinality(Taken) \in Nat /\ Cardinality(conns) \in Nat
      /\ IsFiniteSet(Taken)
  BY TypeInductive, FillerInductive, TakenFinite
<1>1. CASE Pick \/ Close \/ Settle \/ UNCHANGED vars
  BY <1>0, <1>1, TakenShrinks
  DEF Pick, Close, Settle, vars, poolVars, fillVars, connVars, envVars, Taken
<1>2. ASSUME NEW f \in Fillers, Check(f) \/ ReportDown(f) \/ ManyDone(f) \/ fillingStopped(f)
      PROVE  Counted'
  <2>1. Taken' = Taken /\ want' = want
    BY <1>2 DEF Check, ReportDown, ManyDone, fillingStopped, poolVars, connVars, Taken
  <2>2. \A g \in Fillers : fpc'[g] \in {"first", "many"} => fpc'[g] = fpc[g]
    BY <1>2 DEF Check, ReportDown, ManyDone, fillingStopped, Goto, TypeOK
  <2> QED
    BY <1>0, <2>1, <2>2, TakenShrinks
<1>3. ASSUME NEW f \in Fillers, Upgrade(f)
      PROVE  Counted'
  <2>1. CASE ~MayFill
    <3>1. Taken' = Taken /\ want' = want
      BY <1>3, <2>1 DEF Upgrade, connVars, Taken
    <3>2. \A g \in Fillers : fpc'[g] \in {"first", "many"} => fpc'[g] = fpc[g]
      BY <1>3, <2>1 DEF Upgrade, Goto, TypeOK
    <3> QED
      BY <1>0, <3>1, <3>2, TakenShrinks
  <2>2. CASE MayFill
    <3>1. Taken' = conns
      BY <1>3, <2>2 DEF Upgrade, MayFill, connVars, Taken, Filler, Active, TypeOK
    <3>2. \A g \in Fillers \ {f} : fpc'[g] \notin {"first", "many"}
      BY <1>3, <2>2 DEF Upgrade, MayFill, Goto, Filler, Active, TypeOK
    <3>3. CASE conns = {}
      BY <1>3, <2>2, <3>1, <3>2, <3>3, FS_EmptySet DEF Upgrade, Goto, Counted, TypeOK
    <3>4. CASE conns # {}
      <4>1. fpc'[f] = "many" /\ want'[f] = Size - Cardinality(conns)
        BY <1>3, <2>2, <3>4 DEF Upgrade, Goto, TypeOK
      <4> QED
        BY <1>0, <2>2, <3>1, <3>2, <4>1 DEF Counted, MayFill, Full
    <3> QED
      BY <3>3, <3>4
  <2> QED
    BY <2>1, <2>2
<1>4. ASSUME NEW f \in Fillers, FirstDone(f)
      PROVE  Counted'
  <2>1. Taken' = Taken
    BY <1>4 DEF FirstDone, poolVars, connVars, Taken
  <2>2. Cardinality(Taken) <= 1
    BY <1>0, <1>4 DEF FirstDone, Counted, TypeOK
  <2>3. \A g \in Fillers \ {f} : fpc'[g] \notin {"first", "many"}
    BY <1>4 DEF FirstDone, Goto, Filler, Active, TypeOK
  <2>4. fpc'[f] = "stop" \/ (fpc'[f] = "many" /\ want'[f] = Size - 1)
    BY <1>4 DEF FirstDone, Goto, Rest, TypeOK
  <2> QED
    BY <1>0, <2>1, <2>2, <2>3, <2>4 DEF Counted
<1>5. ASSUME NEW f \in Fillers, NEW c \in Conns, StartConnect(f, c)
      PROVE  Counted'
  <2>1. Taken' = Taken \cup {c}
    BY <1>5 DEF StartConnect, poolVars, Taken, TypeOK
  <2>2. Cardinality(Taken') \in Nat /\ Cardinality(Taken') <= Cardinality(Taken) + 1
    <3>1. Cardinality(Taken \cup {c}) =
            IF c \in Taken THEN Cardinality(Taken) ELSE Cardinality(Taken) + 1
      BY Zenon, <1>0, FS_AddElement
    <3> QED
      BY <1>0, <2>1, <3>1
  <2>3. \A g \in Fillers \ {f} : fpc'[g] \notin {"first", "many"}
    BY <1>5 DEF StartConnect, Filler, Active, TypeOK
  <2>4. fpc'[f] = fpc[f] /\ want[f] \in Nat /\ want'[f] = want[f] - 1 /\ want[f] > 0
    BY <1>5 DEF StartConnect, TypeOK
  <2>5. fpc[f] = "first" => Cardinality(Taken') + want'[f] <= 1
    BY <1>0, <2>2, <2>4 DEF Counted
  <2>6. fpc[f] = "many" => Cardinality(Taken') + want'[f] <= Size
    BY <1>0, <2>2, <2>4 DEF Counted
  <2>7. Cardinality(Taken') <= Size
    BY <1>0, <1>5, <2>2, <2>4, <2>5, <2>6 DEF StartConnect
  <2> QED
    BY <2>3, <2>4, <2>5, <2>6, <2>7 DEF Counted
<1>6. ASSUME NEW c \in Conns, connect(c)
      PROVE  Counted'
  <2>1. Taken' \subseteq Taken
    BY <1>6 DEF connect, Dialed, ConnectFails, Add, AddClosed, CloseAdded, Return, Taken,
                Filler, TypeOK, poolVars
  <2>2. fpc' = fpc /\ want' = want
    BY Zenon, <1>6 DEF connect, Dialed, ConnectFails, Add, AddClosed, CloseAdded, fillVars
  <2> QED
    BY <1>0, <2>1, <2>2, TakenShrinks
<1>7. ASSUME NEW c \in Conns, HandleError(c) \/ CloseConn(c) \/ Die(c) \/ Collect(c)
      PROVE  Counted'
  <2>1. Taken' \subseteq Taken
    BY <1>7 DEF HandleError, CloseConn, Die, Collect, Taken, poolVars
  <2>2. fpc' = fpc /\ want' = want
    BY <1>7 DEF HandleError, CloseConn, Die, Collect, fillVars
  <2> QED
    BY <1>0, <2>1, <2>2, TakenShrinks
<1> QED
  BY <1>1, <1>2, <1>3, <1>4, <1>5, <1>6, <1>7, Steps DEF connect

\* A connection joins the pool only from connect, which knows it by then, and leaves it
\* with its HandleError or with Close.
LEMMA HeldInductive ==
  ASSUME IInv, [Next]_vars
  PROVE  Held'
<1> USE PoolAssumption DEF IInv, TypeOK, Held
<1>1. CASE Pick \/ Close \/ Settle \/ UNCHANGED vars
  BY <1>1 DEF Pick, Close, Settle, vars, poolVars, fillVars, connVars, envVars
<1>2. ASSUME NEW f \in Fillers, fill(f)
      PROVE  Held'
  <2>1. CASE \E c \in Conns : StartConnect(f, c)
    BY <2>1 DEF StartConnect, poolVars, envVars
  <2>2. CASE ~ \E c \in Conns : StartConnect(f, c)
    BY <1>2, <2>2 DEF fill, Check, Upgrade, FirstDone, ManyDone, fillingStopped, ReportDown,
                      poolVars, connVars, envVars
  <2> QED
    BY Zenon, <2>1, <2>2
<1>3. ASSUME NEW c \in Conns, Dialed(c) \/ AddClosed(c)
      PROVE  Held'
  BY <1>3 DEF Dialed, AddClosed, poolVars, envVars
<1>4. ASSUME NEW c \in Conns, ConnectFails(c) \/ Add(c)
      PROVE  Held'
  BY <1>4 DEF ConnectFails, Add, Return, poolVars, envVars
<1>5. ASSUME NEW c \in Conns, CloseAdded(c)
      PROVE  Held'
  BY <1>5 DEF CloseAdded, Return, envVars
<1>6. ASSUME NEW c \in Conns, HandleError(c)
      PROVE  Held'
  BY <1>6 DEF HandleError, Dropped, envVars
<1>7. ASSUME NEW c \in Conns, CloseConn(c)
      PROVE  Held'
  BY <1>7 DEF CloseConn, envVars
<1>8. ASSUME NEW c \in Conns, Die(c)
      PROVE  Held'
  BY <1>8 DEF Die, poolVars
<1>9. ASSUME NEW c \in Conns, Collect(c)
      PROVE  Held'
  BY <1>9 DEF Collect, poolVars
<1> QED
  BY Zenon, <1>1, <1>2, <1>3, <1>4, <1>5, <1>6, <1>7, <1>8, <1>9, Steps DEF fill

\* No step lets an open connection out of sight: HandleError removes dead ones only.
LEMMA TrackedInductive ==
  ASSUME IInv, [Next]_vars
  PROVE  OpenTracked'
<1> USE PoolAssumption DEF IInv, TypeOK, OpenTracked, Held
<1>1. CASE Pick \/ Close \/ Settle \/ UNCHANGED vars
  BY <1>1 DEF Pick, Close, Settle, vars, poolVars, fillVars, connVars, envVars
<1>2. ASSUME NEW f \in Fillers, fill(f)
      PROVE  OpenTracked'
  <2>1. CASE \E c \in Conns : StartConnect(f, c)
    BY <2>1 DEF StartConnect, poolVars
  <2>2. CASE ~ \E c \in Conns : StartConnect(f, c)
    BY <1>2, <2>2 DEF fill, Check, Upgrade, FirstDone, ManyDone, fillingStopped, ReportDown,
                      poolVars, connVars
  <2> QED
    BY <2>1, <2>2
<1>3. ASSUME NEW c \in Conns, Dialed(c) \/ AddClosed(c)
      PROVE  OpenTracked'
  <2>1. CASE Dialed(c)
    BY <1>3, <2>1 DEF Dialed, poolVars
  <2>2. CASE AddClosed(c)
    BY <2>2 DEF AddClosed
  <2> QED
    BY <1>3, <2>1, <2>2
<1>4. ASSUME NEW c \in Conns, ConnectFails(c) \/ Add(c)
      PROVE  OpenTracked'
  BY <1>4 DEF ConnectFails, Add, Return, poolVars
<1>5. ASSUME NEW c \in Conns, CloseAdded(c)
      PROVE  OpenTracked'
  BY <1>5 DEF CloseAdded, Return
<1>6. ASSUME NEW c \in Conns, HandleError(c)
      PROVE  OpenTracked'
  BY <1>6 DEF HandleError
<1>7. ASSUME NEW c \in Conns, CloseConn(c)
      PROVE  OpenTracked'
  BY <1>7 DEF CloseConn
<1>8. ASSUME NEW c \in Conns, Die(c) \/ Collect(c)
      PROVE  OpenTracked'
  BY <1>8 DEF Die, Collect, poolVars
<1> QED
  BY Zenon, <1>1, <1>2, <1>3, <1>4, <1>5, <1>6, <1>7, <1>8, Steps DEF fill

LEMMA Invariance == Spec => []IInv
<1>1. IInv /\ [Next]_vars => IInv'
  BY TypeInductive, FillerInductive, CountedInductive, HeldInductive, TrackedInductive DEF IInv
<1> QED
  BY Initially, <1>1, PTL DEF Spec

\* The pool never holds more connections than pool.size, and a dead one leaves with its
\* HandleError unless it died before connect added it.
THEOREM PoolSound == Spec => []ConnsSound
<1>1. IInv => ConnsSound
  BY TakenFinite, PoolAssumption DEF IInv, Counted, Held, ConnsSound
<1> QED
  BY Invariance, <1>1, PTL

\* An open connection that the closed pool has not closed yet is one that Close took or
\* one that connect is about to close: nothing leaks, the safety half of ClosedPoolDrains.
ClosedKeepsTrack ==
  closed => \A c \in Conns : life[c] = "open" => c \in toClose \/ cpc[c] \in {"add", "close"}

\* Close leaves no connection open that nobody will close.
THEOREM NothingLeaks == Spec => []ClosedKeepsTrack
<1>1. IInv => ClosedKeepsTrack
  BY DEF IInv, Held, OpenTracked, ClosedKeepsTrack
<1> QED
  BY Invariance, <1>1, PTL

===============================================================================
