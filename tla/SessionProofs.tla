----------------------------- MODULE SessionProofs ----------------------------
(***************************************************************************)
(* Proofs about Schema, for any keyspaces, objects and numbers of changes  *)
(* and faults, and about ControlConn, for any number of connections.       *)
(*                                                                         *)
(* Schema: what a listener knows is compared with the cache, and the cache *)
(* with the cluster, while a refresh is between the two.  The invariant    *)
(* says what has gone how far: what the refresh under way has read         *)
(* (CacheCurrent), what of it is stored (StoreInv), and which calls the    *)
(* listener has had of it (ListenerInv).                                   *)
(*                                                                         *)
(* ControlConn: that no open connection is forgotten needs more than the   *)
(* exclusion that c.reconnecting gives (Exclusive): whoever stores a       *)
(* connection finds the old one closed (Replaced), because a reconnection  *)
(* closes it first and, unless it overtook the connect of NewSession, is   *)
(* alone.                                                                  *)
(***************************************************************************)
EXTENDS ControlConn, Schema, TLAPS

-------------------------------------------------------------------------------
(* Schema: the invariant *)

\* The variables that the schema's way from the cluster to a listener goes through keep
\* their types.
SchemaTypes ==
  /\ CacheMode \in {"Full", "KeyspaceOnly", "Disabled"}
  /\ server \in [Keyspaces -> KeyspaceMeta]
  /\ schema \in [Keyspaces -> KeyspaceMeta]
  /\ told \in [Keyspaces -> KeyspaceMeta]
  /\ r \in [pc : {"idle", "objects", "store", "policy", "keyspaces", "changes"},
            new : [Keyspaces -> KeyspaceMeta], old : [Keyspaces -> KeyspaceMeta],
            notify : BOOLEAN]
  /\ wanted \in BOOLEAN /\ failed \in BOOLEAN /\ isInitialized \in BOOLEAN
  /\ ipc \in {"partitioner", "hosts", "refresh", "await", "serving", "initialize",
               "ready", "done"}

\* A keyspace with other objects, and without any.
WithObjects(ks, objs) == [ks EXCEPT !.objs = objs]
Bare(ks) == IF ks = Nil THEN Nil ELSE WithObjects(ks, NoObjects)

\* What a refresh in the session's mode leaves of the schema of the cluster.
Cached(k) == IF CacheMode = "Full" THEN server[k] ELSE Bare(server[k])

\* While no change of the schema waits for a refresh, the refresh that is under way has
\* read what the cluster has, and so has the last one unless it failed.
CacheCurrent ==
  ~wanted =>
    \A k \in Keyspaces :
      /\ r.pc = "objects" => r.new[k] = Bare(server[k])
      /\ r.pc = "store" => r.new[k] = Cached(k)
      /\ \/ r.pc \in {"policy", "keyspaces", "changes"}
         \/ r.pc = "idle" /\ ~failed /\ ipc \notin {"partitioner", "hosts", "refresh"}
         => schema[k] = Cached(k)

\* Session.init waits for a refresh that was asked for, the listeners are called after
\* isInitialized is set, and a refresh without a cache does nothing.
StartOrder ==
  /\ ipc = "await" => wanted
  /\ ipc \in {"ready", "done"} => isInitialized
  /\ r.pc # "idle" => CacheMode # "Disabled"

\* A listener that knows ks as known was told of it, except for what it is not told of.
Knows(known, ks) ==
  /\ known = Nil <=> ks = Nil
  /\ ks # Nil => ~Updated(known, ks) /\ known.objs = ks.objs

\* What a listener knows while a refresh goes on: the schema before it, the one after it,
\* or, between the two rounds of calls, the new keyspaces with the old objects.
ListenerInv ==
  \A k \in Keyspaces :
    /\ r.pc \in {"idle", "objects", "store"} => Knows(told[k], schema[k])
    /\ r.pc \in {"policy", "keyspaces"} =>
         Knows(told[k], r.new[k]) \/ (Knows(told[k], r.old[k]) /\ (r.pc = "keyspaces" => r.notify))
    /\ r.pc = "changes" =>
         \/ Knows(told[k], r.new[k])
         \/ /\ r.old[k] # Nil /\ r.new[k] # Nil /\ told[k] # Nil
            /\ ~Updated(told[k], r.new[k]) /\ told[k].objs = r.old[k].objs

\* The new schema is in the cache from the store on; the objects of a keyspace are
\* cached in full mode only.
StoreInv ==
  /\ r.pc \in {"policy", "keyspaces", "changes"} => schema = r.new
  /\ r.pc \in {"objects", "changes"} => CacheMode = "Full"
  /\ CacheMode = "KeyspaceOnly" =>
       \A k \in Keyspaces : /\ schema[k] # Nil => schema[k].objs = NoObjects
                            /\ r.new[k] # Nil => r.new[k].objs = NoObjects
                            /\ r.old[k] # Nil => r.old[k].objs = NoObjects

SchemaInv ==
  /\ SchemaTypes /\ StartOrder
  /\ CacheMode # "Disabled" =>
       /\ CacheCurrent /\ StoreInv
       /\ ipc = "done" => ListenerInv

-------------------------------------------------------------------------------
(* Operators of the model *)

\* Replacing the objects of a keyspace leaves the rest of it as it is.
LEMMA ObjectsReplaced ==
  ASSUME NEW x \in KeyspaceMeta, x # Nil, NEW o \in Contents
  PROVE  /\ WithObjects(x, o) \in KeyspaceMeta /\ WithObjects(x, o) # Nil
         /\ WithObjects(x, o).objs = o /\ WithObjects(x, o).durable = x.durable
         /\ getStrategy(WithObjects(x, o)) = getStrategy(x)
         /\ x.objs \in Contents /\ WithObjects(x, x.objs) = x
         /\ \A p \in Contents : WithObjects(WithObjects(x, o), p) = WithObjects(x, p)
<1>0. PICK row \in Definitions \X Contents : x = Defined(row[1], row[2])
  BY DEF KeyspaceMeta
<1>1. PICK d \in Definitions, objs \in Contents : x = Defined(d, objs)
  BY <1>0
<1>2. x = [class |-> d.class, opts |-> d.opts, durable |-> d.durable, objs |-> objs]
  BY <1>1 DEF Defined
<1> DEFINE y == WithObjects(x, o)
<1>3. y = [class |-> d.class, opts |-> d.opts, durable |-> d.durable, objs |-> o]
  BY <1>2 DEF WithObjects
<1>4. y \in KeyspaceMeta /\ y # Nil
  <2>1. y = Defined(d, o)
    BY <1>3 DEF Defined
  <2>2. <<d, o>> \in Definitions \X Contents
    OBVIOUS
  <2> QED BY <2>1, <2>2, SchemaAssumption DEF KeyspaceMeta
<1>5. y.objs = o /\ y.durable = x.durable /\ x.objs \in Contents
  BY <1>2, <1>3
<1>6. getStrategy(y) = getStrategy(x)
  <2>1. y.class = x.class /\ y.opts = x.opts
    BY <1>2, <1>3
  <2> HIDE DEF y
  <2> QED BY <2>1 DEF getStrategy
<1>7. WithObjects(x, x.objs) = x
  BY <1>2 DEF WithObjects
<1>8. \A p \in Contents : WithObjects(y, p) = WithObjects(x, p)
  <2> HIDE DEF y
  <2> QED BY <1>2, <1>3 DEF WithObjects
<1> QED BY <1>4, <1>5, <1>6, <1>7, <1>8

LEMMA NoObjectsType == NoObjects \in Contents
BY DEF NoObjects, Contents

LEMMA ObjectsType ==
  ASSUME NEW x \in KeyspaceMeta, x # Nil
  PROVE  x.objs \in Contents
BY ObjectsReplaced, NoObjectsType

LEMMA BareType ==
  ASSUME NEW x \in KeyspaceMeta
  PROVE  /\ Bare(x) \in KeyspaceMeta /\ (Bare(x) = Nil <=> x = Nil)
         /\ x # Nil => Bare(x).objs = NoObjects
         /\ x # Nil => WithObjects(Bare(x), x.objs) = x
BY ObjectsReplaced, NoObjectsType DEF Bare

\* That a keyspace was not updated is an equivalence.
LEMMA NotUpdated ==
  ASSUME NEW x, NEW y, NEW z
  PROVE  /\ ~Updated(x, x)
         /\ ~Updated(x, y) => ~Updated(y, x)
         /\ ~Updated(x, y) /\ ~Updated(y, z) => ~Updated(x, z)
<1> DEFINE N(u) == getStrategy(u) = Nil
           K(u) == strategyKey(getStrategy(u))
           D(u) == u.durable
<1>1. \A u, v : Updated(u, v) <=> ((N(v) # N(u)) \/ (~N(v) /\ K(v) # K(u)) \/ D(v) # D(u))
  BY DEF Updated
<1>2. \A u : N(u) \in BOOLEAN
  OBVIOUS
<1> HIDE DEF N, K, D
<1> QED BY <1>1, <1>2

\* A keyspace whose objects alone differ was not updated.
LEMMA OnlyObjects ==
  ASSUME NEW x \in KeyspaceMeta, x # Nil, NEW o \in Contents
  PROVE  ~Updated(WithObjects(x, o), x)
BY ObjectsReplaced DEF Updated

LEMMA KnowsItself ==
  ASSUME NEW x PROVE Knows(x, x)
BY NotUpdated DEF Knows

-------------------------------------------------------------------------------
(* Every step keeps the invariant *)

LEMMA SchemaInitially == SchemaInit => SchemaInv
<1> SUFFICES ASSUME SchemaInit PROVE SchemaInv
  OBVIOUS
<1>1. NoSchema \in [Keyspaces -> KeyspaceMeta]
  BY Zenon DEF NoSchema, KeyspaceMeta
<1>2. server \in [Keyspaces -> KeyspaceMeta]
  BY SchemaAssumption DEF SchemaInit
<1>3. SchemaTypes
  BY Zenon, <1>1, <1>2 DEF SchemaInit, SchemaTypes, Resting
<1>4. StartOrder
  BY DEF SchemaInit, StartOrder, Resting
<1>5. CacheCurrent
  BY DEF SchemaInit, CacheCurrent, Resting
<1>6. StoreInv
  BY DEF SchemaInit, StoreInv, Resting, NoSchema
<1>7. ipc # "done"
  BY DEF SchemaInit
<1> QED BY <1>3, <1>4, <1>5, <1>6, <1>7 DEF SchemaInv

\* What a refresh leaves alone of the invariant.
LEMMA SameListener ==
  ASSUME ListenerInv, UNCHANGED <<schema, told>>,
         r.pc \in {"idle", "objects", "store"}, r'.pc \in {"idle", "objects", "store"}
  PROVE  ListenerInv'
BY DEF ListenerInv, Knows, Updated

\* getAllKeyspaceMetadata.
LEMMA FetchStep == SchemaInv /\ Fetch => SchemaInv'
<1> SUFFICES ASSUME SchemaInv, Fetch PROVE SchemaInv'
  OBVIOUS
<1> USE DEF SchemaInv
<1> DEFINE read == [k \in Keyspaces |-> Bare(server[k])]
           step == IF CacheMode = "Full" THEN "objects" ELSE "store"
<1>1. read \in [Keyspaces -> KeyspaceMeta]
  BY BareType DEF SchemaTypes
<1>2. /\ UNCHANGED <<schema, isInitialized, told, CacheMode, server>>
      /\ r.pc = "idle" /\ wanted /\ wanted' = FALSE
  BY DEF Fetch
<1>3. CASE /\ CacheMode # "Disabled"
           /\ r' = [r EXCEPT !.pc = step, !.new = read]
           /\ ipc' = IF ipc = "await" THEN "serving" ELSE ipc
           /\ UNCHANGED <<faults, failed>>
  <2> HIDE DEF read
  <2>1. r' = [pc |-> step, new |-> read, old |-> r.old, notify |-> r.notify]
    BY Zenon, <1>3 DEF SchemaTypes
  <2> HIDE DEF step
  <2>2. SchemaTypes'
    <3>1. step \in {"objects", "store"}
      BY DEF step
    <3> QED BY Zenon, <1>1, <1>2, <1>3, <2>1, <3>1 DEF SchemaTypes
  <2>3. StartOrder'
    BY <1>2, <1>3, <2>1 DEF StartOrder, SchemaTypes
  <2>4. CacheCurrent'
    <3>1. \A k \in Keyspaces : read[k] = Bare(server[k])
      BY DEF read
    <3>2. \A k \in Keyspaces : Bare(server[k])' = Bare(server[k])
      BY <1>2 DEF Bare, WithObjects, NoObjects
    <3> QED BY <1>2, <2>1, <3>1, <3>2 DEF CacheCurrent, Cached, step
  <2>5. StoreInv'
    <3>1. \A k \in Keyspaces : read[k] # Nil => read[k].objs = NoObjects
      BY BareType DEF SchemaTypes, read
    <3> QED BY <1>2, <1>3, <2>1, <3>1 DEF StoreInv, NoObjects, step
  <2>6. ipc' = "done" => ListenerInv'
    BY <1>2, <1>3, <2>1, SameListener DEF step
  <2> QED BY <1>2, <2>2, <2>3, <2>4, <2>5, <2>6
<1>4. CASE /\ IF CacheMode = "Disabled" THEN UNCHANGED <<faults, failed>>
              ELSE faults < MaxFaults /\ faults' = faults + 1 /\ failed' = TRUE
           /\ ipc' = IF ipc = "await" THEN "initialize" ELSE ipc
           /\ UNCHANGED r
  <2>2. SchemaTypes'
    <3>1. failed' \in BOOLEAN
      BY Zenon, <1>4 DEF SchemaTypes
    <3> QED BY Zenon, <1>2, <1>4, <3>1 DEF SchemaTypes
  <2>3. StartOrder'
    BY <1>2, <1>4 DEF StartOrder, SchemaTypes
  <2>4. CacheMode # "Disabled" => CacheCurrent'
    BY <1>2, <1>4 DEF CacheCurrent
  <2>5. CacheMode # "Disabled" => StoreInv'
    BY <1>2, <1>4 DEF StoreInv, NoObjects
  <2>6. CacheMode # "Disabled" /\ ipc' = "done" => ListenerInv'
    BY <1>2, <1>4, SameListener
  <2> QED BY <1>2, <2>2, <2>3, <2>4, <2>5, <2>6
<1> QED
  <2>1. read = [k \in Keyspaces |->
                  IF server[k] = Nil THEN Nil ELSE [server[k] EXCEPT !.objs = NoObjects]]
    BY Zenon DEF Bare, WithObjects
  <2> HIDE DEF read
  <2> QED BY <1>3, <1>4, <2>1, Zenon DEF Fetch

\* A refresh that returns, with an error or with the cache current and the listener told.
LEMMA ReturnsStep ==
  ASSUME SchemaInv, r.pc # "idle", NEW err \in BOOLEAN, Returns(err),
         UNCHANGED <<schema, wanted, isInitialized, CacheMode, server>>,
         told' \in [Keyspaces -> KeyspaceMeta],
         ~wanted /\ ~err => \A k \in Keyspaces : schema[k] = Cached(k),
         ipc = "done" => \A k \in Keyspaces : Knows(told'[k], schema[k])
  PROVE  SchemaInv'
<1> USE DEF SchemaInv
<1>1. r' = Resting /\ r'.pc = "idle" /\ r'.new = NoSchema /\ r'.old = NoSchema
  BY DEF Returns, Resting
<1>2. CacheMode # "Disabled" /\ ipc' # "await" => ipc # "await"
  BY DEF Returns, StartOrder
<1>3. SchemaTypes'
  <2>1. NoSchema \in [Keyspaces -> KeyspaceMeta]
    BY DEF NoSchema, KeyspaceMeta
  <2> QED BY <1>1, <2>1 DEF Returns, SchemaTypes, Resting
<1>4. StartOrder'
  BY <1>1 DEF StartOrder, Returns
<1>5. CacheCurrent'
  <2>1. \A k \in Keyspaces : Cached(k)' = Cached(k)
    BY DEF Cached, Bare, WithObjects, NoObjects
  <2> QED BY <1>1, <2>1 DEF CacheCurrent, Returns
<1>6. StoreInv'
  BY Zenon, <1>1 DEF StoreInv, NoSchema, NoObjects, StartOrder
<1>7. ipc' = "done" => ListenerInv'
  <2>1. ipc' = "done" => ipc = "done"
    BY DEF Returns
  <2> QED BY <1>1, <2>1 DEF ListenerInv, Knows, Updated
<1> QED BY <1>3, <1>4, <1>5, <1>6, <1>7

\* The queries for the objects.
LEMMA FetchObjectsStep == SchemaInv /\ FetchObjects => SchemaInv'
<1> SUFFICES ASSUME SchemaInv, FetchObjects PROVE SchemaInv'
  OBVIOUS
<1> USE DEF SchemaInv
<1> DEFINE read == [k \in Keyspaces |->
                      IF r.new[k] = Nil \/ server[k] = Nil THEN r.new[k]
                      ELSE WithObjects(r.new[k], server[k].objs)]
<1>1. read \in [Keyspaces -> KeyspaceMeta]
  <2>1. r.new \in [Keyspaces -> KeyspaceMeta] /\ server \in [Keyspaces -> KeyspaceMeta]
    BY DEF SchemaTypes
  <2>2. \A k \in Keyspaces : server[k] # Nil => server[k].objs \in Contents
    BY <2>1, ObjectsType
  <2>3. \A k \in Keyspaces : read[k] \in KeyspaceMeta
    BY <2>1, <2>2, ObjectsReplaced
  <2> QED BY <2>3
<1>2. /\ UNCHANGED <<schema, wanted, isInitialized, told, CacheMode, server>>
      /\ r.pc = "objects"
  BY DEF FetchObjects
<1>3. CASE r' = [r EXCEPT !.pc = "store", !.new = read] /\ UNCHANGED <<faults, failed, ipc>>
  <2> HIDE DEF read
  <2>1. r' = [pc |-> "store", new |-> read, old |-> r.old, notify |-> r.notify]
    BY Zenon, <1>3 DEF SchemaTypes
  <2>2. SchemaTypes'
    BY <1>1, <1>2, <1>3, <2>1 DEF SchemaTypes
  <2>3. StartOrder'
    BY <1>2, <1>3, <2>1 DEF StartOrder, SchemaTypes
  <2>4. CacheCurrent'
    <3>1. ASSUME ~wanted, NEW k \in Keyspaces PROVE read[k] = server[k]
      <4>1. r.new[k] = Bare(server[k])
        BY <1>2, <3>1 DEF CacheCurrent, StartOrder
      <4> QED BY <4>1, BareType DEF read, SchemaTypes
    <3>2. CacheMode = "Full"
      BY <1>2 DEF StoreInv, StartOrder
    <3> QED BY <1>2, <2>1, <3>1, <3>2 DEF CacheCurrent, Cached
  <2>5. StoreInv'
    BY <1>2, <1>3, <2>1 DEF StoreInv, StartOrder
  <2>6. ipc' = "done" => ListenerInv'
    BY <1>2, <1>3, <2>1, SameListener DEF StartOrder
  <2> QED BY <1>2, <2>2, <2>3, <2>4, <2>5, <2>6
<1>4. CASE QueryFails
  <2>1. ipc = "done" => \A k \in Keyspaces : Knows(told'[k], schema[k])
    BY <1>2 DEF ListenerInv, StartOrder
  <2> QED BY Zenon, <1>2, <1>4, <2>1, ReturnsStep DEF QueryFails, SchemaTypes
<1> QED
  <2>1. read = [k \in Keyspaces |->
                  IF r.new[k] = Nil \/ server[k] = Nil THEN r.new[k]
                  ELSE [r.new[k] EXCEPT !.objs = server[k].objs]]
    BY Zenon DEF WithObjects
  <2> HIDE DEF read
  <2> QED BY <1>3, <1>4, <2>1, Zenon DEF FetchObjects

\* schemaMeta.Store.
LEMMA StoreStep == SchemaInv /\ StoreMeta => SchemaInv'
<1> SUFFICES ASSUME SchemaInv, StoreMeta PROVE SchemaInv'
  OBVIOUS
<1> USE DEF SchemaInv
<1>1. /\ UNCHANGED <<wanted, failed, ipc, isInitialized, told, CacheMode, server>>
      /\ r.pc = "store" /\ schema' = r.new
  BY DEF StoreMeta, sessionVars, clusterVars
<1>2. r' = [pc |-> "policy", new |-> r.new, old |-> schema, notify |-> r.notify]
  BY Zenon DEF StoreMeta, SchemaTypes
<1>3. SchemaTypes'
  BY <1>1, <1>2 DEF SchemaTypes
<1>4. StartOrder'
  BY <1>1, <1>2 DEF StartOrder
<1>5. CacheCurrent'
  <2>1. \A k \in Keyspaces : Cached(k)' = Cached(k)
    BY <1>1 DEF Cached, Bare, WithObjects, NoObjects
  <2> QED BY <1>1, <1>2, <2>1 DEF CacheCurrent, StartOrder
<1>6. StoreInv'
  BY Zenon, <1>1, <1>2 DEF StoreInv, StartOrder, NoObjects
<1>7. ipc' = "done" => ListenerInv'
  BY <1>1, <1>2 DEF ListenerInv, Knows, Updated, StartOrder
<1> QED BY <1>3, <1>4, <1>5, <1>6, <1>7

\* The policy's schemaRefreshed.
LEMMA RefreshedStep == SchemaInv /\ schemaRefreshed => SchemaInv'
<1> SUFFICES ASSUME SchemaInv, schemaRefreshed PROVE SchemaInv'
  OBVIOUS
<1> USE DEF SchemaInv
<1>1. /\ UNCHANGED <<schema, wanted, failed, ipc, isInitialized, told, CacheMode, server>>
      /\ r.pc = "policy"
  BY DEF schemaRefreshed, sessionVars, clusterVars
<1>2. r' = [pc |-> "keyspaces", new |-> r.new, old |-> r.old, notify |-> isInitialized]
  BY Zenon DEF schemaRefreshed, SchemaTypes
<1>3. SchemaTypes'
  BY <1>1, <1>2 DEF SchemaTypes
<1>4. StartOrder'
  BY <1>1, <1>2 DEF StartOrder
<1>5. CacheCurrent'
  <2>1. \A k \in Keyspaces : Cached(k)' = Cached(k)
    BY <1>1 DEF Cached, Bare, WithObjects, NoObjects
  <2> QED BY <1>1, <1>2, <2>1 DEF CacheCurrent, StartOrder
<1>6. StoreInv'
  BY Zenon, <1>1, <1>2 DEF StoreInv, StartOrder, NoObjects
<1>7. ipc' = "done" => ListenerInv'
  BY <1>1, <1>2 DEF ListenerInv, Knows, Updated, StartOrder
<1> QED BY <1>3, <1>4, <1>5, <1>6, <1>7

\* OnKeyspaceCreated, OnKeyspaceDropped and OnKeyspaceUpdated.
LEMMA NotifyStep == SchemaInv /\ NotifyKeyspaces => SchemaInv'
<1> SUFFICES ASSUME SchemaInv, NotifyKeyspaces PROVE SchemaInv'
  OBVIOUS
<1> USE DEF SchemaInv
<1>1. /\ UNCHANGED <<schema, wanted, isInitialized, CacheMode, server>>
      /\ r.pc = "keyspaces" /\ CacheMode # "Disabled" /\ schema = r.new
  BY DEF NotifyKeyspaces, clusterVars, StartOrder, StoreInv
<1>2. /\ r.old \in [Keyspaces -> KeyspaceMeta] /\ r.new \in [Keyspaces -> KeyspaceMeta]
      /\ told \in [Keyspaces -> KeyspaceMeta] /\ r.notify \in BOOLEAN
  BY DEF SchemaTypes
<1> DEFINE after(k) == IF ~r.notify \/ (r.old[k] = Nil /\ r.new[k] = Nil) THEN told[k]
                       ELSE IF r.old[k] = Nil \/ r.new[k] = Nil THEN r.new[k]
                       ELSE IF told[k] # Nil /\ Updated(r.old[k], r.new[k])
                              THEN WithObjects(r.new[k], told[k].objs) ELSE told[k]
<1>3. told' = [k \in Keyspaces |-> after(k)]
  BY Zenon DEF NotifyKeyspaces, WithObjects
<1>4. ASSUME NEW k \in Keyspaces PROVE after(k) \in KeyspaceMeta
  <2>1. told[k] # Nil => told[k].objs \in Contents
    BY <1>2, ObjectsType
  <2> QED BY <1>2, <2>1, ObjectsReplaced
<1>5. ASSUME ipc = "done", NEW k \in Keyspaces
      PROVE  \/ Knows(after(k), r.new[k])
             \/ /\ r.old[k] # Nil /\ r.new[k] # Nil /\ after(k) # Nil
                /\ ~Updated(after(k), r.new[k]) /\ after(k).objs = r.old[k].objs
                /\ r.notify
  <2>1. Knows(told[k], r.new[k]) \/ (Knows(told[k], r.old[k]) /\ r.notify)
    BY <1>1, <1>5 DEF ListenerInv
  <2>2. CASE ~r.notify \/ (r.old[k] = Nil /\ r.new[k] = Nil)
    BY <2>1, <2>2 DEF Knows
  <2>3. CASE r.notify /\ (r.old[k] = Nil) # (r.new[k] = Nil)
    BY <2>3, KnowsItself
  <2>4. CASE r.notify /\ r.old[k] # Nil /\ r.new[k] # Nil /\ Updated(r.old[k], r.new[k])
    <3>1. told[k] # Nil /\ (told[k].objs = r.new[k].objs \/ told[k].objs = r.old[k].objs)
      BY <2>1, <2>4 DEF Knows
    <3>2. told[k].objs \in Contents
      BY <1>2, <3>1, ObjectsType
    <3>3. after(k) = WithObjects(r.new[k], told[k].objs)
      BY <2>4, <3>1
    <3>4. /\ after(k) # Nil /\ after(k).objs = told[k].objs
          /\ ~Updated(after(k), r.new[k])
      BY <1>2, <2>4, <3>2, <3>3, ObjectsReplaced, OnlyObjects
    <3> HIDE DEF after
    <3> QED BY <2>4, <3>1, <3>4 DEF Knows
  <2>5. CASE r.notify /\ r.old[k] # Nil /\ r.new[k] # Nil /\ ~Updated(r.old[k], r.new[k])
    <3>1. after(k) = told[k]
      BY <2>5
    <3>2. told[k] # Nil /\ ~Updated(told[k], r.new[k])
      BY <2>1, <2>5, NotUpdated DEF Knows
    <3> HIDE DEF after
    <3> QED BY <2>1, <2>5, <3>1, <3>2 DEF Knows
  <2> QED BY Zenon, <2>2, <2>3, <2>4, <2>5
<1> HIDE DEF after
<1>6. told' \in [Keyspaces -> KeyspaceMeta] /\ \A k \in Keyspaces : told'[k] = after(k)
  BY <1>3, <1>4
<1>7. \A k \in Keyspaces : Cached(k)' = Cached(k)
  BY <1>1 DEF Cached, Bare, WithObjects, NoObjects
<1>8. CASE r.notify /\ CacheMode = "Full"
  <2>1. UNCHANGED <<failed, ipc>>
    BY <1>8 DEF NotifyKeyspaces
  <2>2. r' = [pc |-> "changes", new |-> r.new, old |-> r.old, notify |-> r.notify]
    BY <1>8 DEF NotifyKeyspaces, SchemaTypes
  <2>3. SchemaTypes'
    BY <1>1, <1>6, <2>1, <2>2 DEF SchemaTypes
  <2>4. StartOrder'
    BY <1>1, <2>1, <2>2 DEF StartOrder
  <2>5. CacheCurrent'
    BY <1>1, <1>7, <2>1, <2>2 DEF CacheCurrent
  <2>6. StoreInv'
    <3>1. schema' = r'.new /\ CacheMode' = "Full"
      BY <1>1, <1>8, <2>2
    <3> QED BY <3>1 DEF StoreInv
  <2>7. ipc' = "done" => ListenerInv'
    <3> SUFFICES ASSUME ipc' = "done" PROVE ListenerInv'
      OBVIOUS
    <3>1. /\ r'.pc = "changes" /\ r'.new = r.new /\ r'.old = r.old /\ ipc = "done"
          /\ \A k \in Keyspaces : told'[k] = after(k)
      BY <1>6, <2>1, <2>2
    <3>2. ASSUME NEW k \in Keyspaces
          PROVE  \/ Knows(told'[k], r'.new[k])
                 \/ /\ r'.old[k] # Nil /\ r'.new[k] # Nil /\ told'[k] # Nil
                    /\ ~Updated(told'[k], r'.new[k]) /\ told'[k].objs = r'.old[k].objs
      BY Zenon, <1>5, <3>1
    <3> QED BY Zenon, <3>1, <3>2 DEF ListenerInv
  <2> QED BY <2>3, <2>4, <2>5, <2>6, <2>7
<1>9. CASE ~(r.notify /\ CacheMode = "Full")
  <2>1. Returns(FALSE)
    BY Zenon, <1>9 DEF NotifyKeyspaces
  <2>2. ~wanted => \A k \in Keyspaces : schema[k] = Cached(k)
    BY <1>1 DEF CacheCurrent
  <2>3. ASSUME ipc = "done", NEW k \in Keyspaces PROVE Knows(told'[k], schema[k])
    <3>1. r.notify /\ r.old[k] # Nil /\ r.new[k] # Nil => r.old[k].objs = r.new[k].objs
      BY <1>1, <1>9 DEF StoreInv, SchemaTypes
    <3> QED BY <1>1, <1>5, <1>6, <2>3, <3>1 DEF Knows
  <2> QED BY Zenon, <1>1, <1>6, <2>1, <2>2, <2>3, ReturnsStep
<1> QED BY <1>8, <1>9

\* The calls about tables, types, functions and aggregates.
LEMMA FullChangesStep == SchemaInv /\ handleFullSchemaChanges => SchemaInv'
<1> SUFFICES ASSUME SchemaInv, handleFullSchemaChanges PROVE SchemaInv'
  OBVIOUS
<1> USE DEF SchemaInv
<1>1. /\ UNCHANGED <<schema, wanted, isInitialized, CacheMode, server>> /\ Returns(FALSE)
      /\ r.pc = "changes" /\ CacheMode # "Disabled" /\ schema = r.new
  BY Zenon DEF handleFullSchemaChanges, clusterVars, StartOrder, StoreInv
<1>2. /\ r.old \in [Keyspaces -> KeyspaceMeta] /\ r.new \in [Keyspaces -> KeyspaceMeta]
      /\ told \in [Keyspaces -> KeyspaceMeta]
  BY DEF SchemaTypes
<1> DEFINE kept(k) == r.old[k] = Nil \/ r.new[k] = Nil \/ told[k] = Nil
           objs(k) == ObjectChanges(told[k].objs, r.old[k].objs, r.new[k].objs)
           after(k) == IF kept(k) THEN told[k] ELSE WithObjects(told[k], objs(k))
<1>3. told' = [k \in Keyspaces |-> after(k)]
  BY Zenon DEF handleFullSchemaChanges, WithObjects
<1>4. ASSUME NEW k \in Keyspaces, ~kept(k)
      PROVE  /\ told[k].objs \in Contents /\ r.new[k].objs \in Contents
             /\ r.old[k].objs \in Contents /\ objs(k) \in Contents
  <2>1. told[k].objs \in Contents /\ r.new[k].objs \in Contents /\ r.old[k].objs \in Contents
    BY <1>2, <1>4, ObjectsType
  <2> QED BY <2>1 DEF ObjectChanges, Contents
<1>5. ASSUME NEW k \in Keyspaces PROVE after(k) \in KeyspaceMeta
  BY <1>2, <1>4, ObjectsReplaced
<1>6. ASSUME ipc = "done", NEW k \in Keyspaces PROVE Knows(after(k), r.new[k])
  <2>1. \/ Knows(told[k], r.new[k])
        \/ /\ r.old[k] # Nil /\ r.new[k] # Nil /\ told[k] # Nil
           /\ ~Updated(told[k], r.new[k]) /\ told[k].objs = r.old[k].objs
    BY <1>1, <1>6 DEF ListenerInv
  <2>2. CASE kept(k)
    BY <2>1, <2>2
  <2>3. CASE ~kept(k)
    <3>1. ~Updated(told[k], r.new[k])
      BY <2>1, <2>3 DEF Knows
    <3>2. objs(k) = r.new[k].objs
      <4>1. told[k].objs = r.old[k].objs \/ told[k].objs = r.new[k].objs
        BY <2>1, <2>3 DEF Knows
      <4> QED BY <1>4, <2>3, <4>1 DEF ObjectChanges, Contents
    <3>3. /\ after(k) # Nil /\ after(k).objs = r.new[k].objs
          /\ ~Updated(after(k), told[k])
      <4>1. after(k) = WithObjects(told[k], r.new[k].objs)
        BY <2>3, <3>2
      <4>2. told[k] # Nil /\ told[k] \in KeyspaceMeta /\ r.new[k].objs \in Contents
        BY <1>2, <1>4, <2>3
      <4> HIDE DEF after, kept, objs
      <4> QED BY <4>1, <4>2, ObjectsReplaced, OnlyObjects
    <3>4. r.new[k] # Nil
      BY <2>3
    <3> HIDE DEF after, kept, objs
    <3> QED BY <3>1, <3>3, <3>4, NotUpdated DEF Knows
  <2> QED BY <2>2, <2>3
<1> HIDE DEF after, kept, objs
<1>7. told' \in [Keyspaces -> KeyspaceMeta] /\ \A k \in Keyspaces : told'[k] = after(k)
  BY <1>3, <1>5
<1>8. ~wanted => \A k \in Keyspaces : schema[k] = Cached(k)
  BY <1>1 DEF CacheCurrent
<1> QED BY Zenon, <1>1, <1>6, <1>7, <1>8, ReturnsStep

\* Steps of Session.init before the listener is called.
LEMMA StartStep ==
  ASSUME SchemaInv, SetPartitioner \/ AddHosts \/ refreshSchemaMetadata \/ SetInitialized
  PROVE  SchemaInv'
<1> USE DEF SchemaInv
<1>1. UNCHANGED <<CacheMode, server, schema, r, failed, told>>
  BY DEF SetPartitioner, AddHosts, refreshSchemaMetadata, SetInitialized, cacheVars, clusterVars
<1>2. \/ ipc = "partitioner" /\ ipc' = "hosts" /\ UNCHANGED <<wanted, isInitialized>>
      \/ ipc = "hosts" /\ ipc' = "refresh" /\ UNCHANGED <<wanted, isInitialized>>
      \/ ipc = "refresh" /\ ipc' = "await" /\ wanted' = TRUE /\ UNCHANGED isInitialized
      \/ ipc = "initialize" /\ ipc' = "ready" /\ isInitialized' = TRUE /\ UNCHANGED wanted
  BY DEF SetPartitioner, AddHosts, refreshSchemaMetadata, SetInitialized, cacheVars
<1>3. SchemaTypes'
  BY Zenon, <1>1, <1>2 DEF SchemaTypes
<1>4. StartOrder'
  BY <1>1, <1>2 DEF StartOrder
<1>5. CacheMode # "Disabled" => CacheCurrent'
  <2>1. \A k \in Keyspaces : Cached(k)' = Cached(k) /\ Bare(server[k])' = Bare(server[k])
    BY <1>1 DEF Cached, Bare, WithObjects, NoObjects
  <2> QED BY <1>1, <1>2, <2>1 DEF CacheCurrent
<1>6. CacheMode # "Disabled" => StoreInv'
  BY <1>1 DEF StoreInv, NoObjects
<1>7. ipc' # "done"
  BY <1>2
<1> QED BY <1>1, <1>3, <1>4, <1>5, <1>6, <1>7

\* OnSessionReady, in which the listener reads the schema.
LEMMA ReadyStep == SchemaInv /\ OnSessionReady => SchemaInv'
<1> SUFFICES ASSUME SchemaInv, OnSessionReady PROVE SchemaInv'
  OBVIOUS
<1> USE DEF SchemaInv
<1>1. /\ UNCHANGED <<CacheMode, server, schema, r, failed, wanted, isInitialized>>
      /\ ipc = "ready" /\ ipc' = "done"
      /\ told' = IF CacheMode = "Disabled" THEN server ELSE schema
  BY DEF OnSessionReady, cacheVars, clusterVars
<1>3. SchemaTypes'
  BY <1>1 DEF SchemaTypes
<1>4. StartOrder'
  BY <1>1 DEF StartOrder
<1>5. CacheMode # "Disabled" => CacheCurrent'
  <2>1. \A k \in Keyspaces : Cached(k)' = Cached(k) /\ Bare(server[k])' = Bare(server[k])
    BY <1>1 DEF Cached, Bare, WithObjects, NoObjects
  <2> QED BY <1>1, <2>1 DEF CacheCurrent
<1>6. CacheMode # "Disabled" => StoreInv'
  BY Zenon, <1>1 DEF StoreInv, NoObjects
<1>7. CacheMode # "Disabled" => ListenerInv'
  <2>1. \A k \in Keyspaces : Knows(schema[k], schema[k])
    BY KnowsItself
  <2>2. CacheMode # "Disabled" /\ r.pc \in {"policy", "keyspaces", "changes"} => schema = r.new
    BY DEF StoreInv
  <2> QED BY <1>1, <2>1, <2>2 DEF ListenerInv, Knows, Updated, SchemaTypes
<1> QED BY <1>1, <1>3, <1>4, <1>5, <1>6, <1>7

\* A change of the schema, which asks for a refresh.
LEMMA ChangeStep == SchemaInv /\ SchemaChange => SchemaInv'
<1> SUFFICES ASSUME SchemaInv, SchemaChange PROVE SchemaInv'
  OBVIOUS
<1> USE DEF SchemaInv
<1>1. /\ UNCHANGED <<CacheMode, schema, r, failed, ipc, isInitialized, told>>
      /\ wanted' = TRUE
  BY DEF SchemaChange, sessionVars
<1>2. server' \in [Keyspaces -> KeyspaceMeta]
  <2>0. PICK k \in Keyspaces : \E ks \in After(server[k]) : server' = [server EXCEPT ![k] = ks]
    BY Zenon DEF SchemaChange
  <2>1. PICK ks \in After(server[k]) : server' = [server EXCEPT ![k] = ks]
    BY Zenon, <2>0
  <2>2. server[k] \in KeyspaceMeta /\ server \in [Keyspaces -> KeyspaceMeta]
    BY DEF SchemaTypes
  <2>3. ASSUME NEW d \in Definitions, NEW objs \in Contents
        PROVE  Defined(d, objs) \in KeyspaceMeta
    <3>1. <<d, objs>> \in Definitions \X Contents
      OBVIOUS
    <3> QED BY <3>1 DEF KeyspaceMeta
  <2>4. server[k] # Nil => server[k].objs \in Contents
    BY <2>2, ObjectsType
  <2>5. ASSUME server[k] # Nil, NEW c \in Objects \X (0 .. 2)
        PROVE  [server[k] EXCEPT !.objs[c[1]] = c[2]] \in KeyspaceMeta
    <3> DEFINE objs == [server[k].objs EXCEPT ![c[1]] = c[2]]
    <3>1. objs \in Contents
      BY <2>4, <2>5 DEF Contents
    <3>2. [server[k] EXCEPT !.objs[c[1]] = c[2]] = WithObjects(server[k], objs)
      BY Zenon DEF WithObjects
    <3> HIDE DEF objs
    <3> QED BY <2>2, <2>5, <3>1, <3>2, ObjectsReplaced
  <2>6. ks \in KeyspaceMeta
    <3>1. Nil \in KeyspaceMeta
      BY Zenon DEF KeyspaceMeta
    <3>2. CASE server[k] = Nil
      BY <2>3, <3>2, NoObjectsType DEF After
    <3>3. CASE server[k] # Nil
      <4> DEFINE A == {Defined(d, server[k].objs) : d \in Definitions}
                 B == {[server[k] EXCEPT !.objs[c[1]] = c[2]] : c \in Objects \X (0 .. 2)}
      <4>1. ks \in {Nil} \cup A \cup B
        BY <2>1, <3>3, Zenon DEF After
      <4>2. ks \in A => ks \in KeyspaceMeta
        BY <2>3, <2>4, <3>3
      <4>3. B \subseteq KeyspaceMeta
        BY <2>5, <3>3, Zenon
      <4> HIDE DEF A, B
      <4> QED BY <3>1, <4>1, <4>2, <4>3
    <3> QED BY <3>2, <3>3
  <2> QED BY <2>1, <2>2, <2>6
<1>3. SchemaTypes'
  BY <1>1, <1>2 DEF SchemaTypes
<1>4. StartOrder'
  BY <1>1 DEF StartOrder
<1>5. CacheCurrent'
  BY <1>1 DEF CacheCurrent
<1>6. CacheMode # "Disabled" => StoreInv'
  BY <1>1 DEF StoreInv, NoObjects
<1>7. CacheMode # "Disabled" /\ ipc' = "done" => ListenerInv'
  BY Zenon, <1>1 DEF ListenerInv
<1> QED BY <1>1, <1>3, <1>4, <1>5, <1>6, <1>7

LEMMA SchemaStutter ==
  ASSUME SchemaInv, UNCHANGED schemaVars
  PROVE  SchemaInv'
<1> USE DEF SchemaInv
<1>1. UNCHANGED <<CacheMode, server, schema, wanted, r, failed, ipc, isInitialized, told>>
  BY DEF schemaVars, cacheVars, sessionVars, clusterVars
<1>3. SchemaTypes'
  BY <1>1 DEF SchemaTypes
<1>4. StartOrder'
  BY <1>1 DEF StartOrder
<1>5. CacheMode # "Disabled" => CacheCurrent'
  <2>1. \A k \in Keyspaces : Cached(k)' = Cached(k) /\ Bare(server[k])' = Bare(server[k])
    BY <1>1 DEF Cached, Bare, WithObjects, NoObjects
  <2> QED BY <1>1, <2>1 DEF CacheCurrent
<1>6. CacheMode # "Disabled" => StoreInv'
  BY <1>1 DEF StoreInv, NoObjects
<1>7. CacheMode # "Disabled" /\ ipc' = "done" => ListenerInv'
  BY Zenon, <1>1 DEF ListenerInv
<1> QED BY <1>1, <1>3, <1>4, <1>5, <1>6, <1>7

LEMMA SchemaInductive == SchemaInv /\ [SchemaNext]_schemaVars => SchemaInv'
<1> SUFFICES ASSUME SchemaInv, [SchemaNext]_schemaVars PROVE SchemaInv'
  OBVIOUS
<1>1. CASE SessionInit
  BY <1>1, StartStep, ReadyStep DEF SessionInit
<1>2. CASE refreshSchemas
  BY <1>2, FetchStep, FetchObjectsStep, StoreStep, RefreshedStep, NotifyStep, FullChangesStep
  DEF refreshSchemas
<1>3. CASE SchemaChange
  BY <1>3, ChangeStep
<1>4. CASE UNCHANGED schemaVars
  BY <1>4, SchemaStutter
<1> QED BY <1>1, <1>2, <1>3, <1>4 DEF SchemaNext

LEMMA SchemaInvFollowed == SchemaInv => SchemaFollowed
<1> SUFFICES ASSUME SchemaInv, ipc = "done", r.pc = "idle", ~wanted, CacheMode # "Disabled"
             PROVE  /\ ~failed => \A k \in Keyspaces :
                         schema[k] = IF server[k] = Nil \/ CacheMode = "Full" THEN server[k]
                                     ELSE WithObjects(server[k], NoObjects)
                    /\ \A k \in Keyspaces :
                         \/ told[k] = schema[k]
                         \/ /\ told[k] # Nil /\ schema[k] # Nil
                            /\ ~Updated(told[k], schema[k])
                            /\ told[k].objs = schema[k].objs
  BY Zenon DEF SchemaFollowed, WithObjects
<1>1. ~failed => \A k \in Keyspaces : schema[k] = Cached(k)
  BY DEF SchemaInv, CacheCurrent
<1>2. \A k \in Keyspaces : Knows(told[k], schema[k])
  BY DEF SchemaInv, ListenerInv
<1> QED BY <1>1, <1>2 DEF Knows, Cached, Bare

\* Whatever keyspaces and objects there are and however the schema changes, fails to be
\* read and is read again while the session starts: once nothing is under way, the cache
\* is the schema of the cluster unless the last refresh failed, and a listener that
\* followed the calls since OnSessionReady knows what is in the cache (refreshSchemas).
THEOREM ListenersFollow == SchemaSpec => []SchemaFollowed
<1>1. SchemaInit => SchemaInv
  BY SchemaInitially
<1>2. SchemaInv /\ [SchemaNext]_schemaVars => SchemaInv'
  BY SchemaInductive
<1>3. SchemaInv => SchemaFollowed
  BY SchemaInvFollowed
<1> QED BY <1>1, <1>2, <1>3, PTL DEF SchemaSpec

-------------------------------------------------------------------------------
(* ControlConn: the invariant *)

Connecting == {"dial", "setup", "store", "schema", "setUp"}
Trying == {"reconnect", "cas", "attempt"} \cup Connecting

\* The variables keep their types; where each goroutine can be.
TypeOK ==
  /\ reconnecting \in BOOLEAN /\ raced \in BOOLEAN
  /\ conn \in Conns \cup {None}
  /\ life \in [Conns -> {"none", "open", "dead"}]
  /\ new \in [Procs -> Conns \cup {None}]
  /\ pc \in [Procs -> {"idle", "begin", "sleep", "handle", "started", "done"} \cup Trying]
  /\ pc[Starter] \in {"started", "done"} \cup Connecting
  /\ pc[HeartBeat] \in {"idle", "begin", "sleep", "done"} \cup Trying
  /\ \A c \in Conns : pc[c] \in {"idle", "handle"} \cup Trying

\* At most one goroutine reconnects, c.reconnecting says whether one does, and
\* heartBeat does nothing before connect has returned.
Exclusive ==
  /\ \A p, q \in Reconnecting : p = q
  /\ reconnecting <=> Reconnecting # {}
  /\ pc[Starter] \in Connecting => pc[HeartBeat] = "idle"

\* A goroutine has a connection of its own between dialling and storing it, and what it
\* has, or has stored, was dialled.
Owned ==
  /\ \A p \in Procs : new[p] # None <=> pc[p] \in {"setup", "store"}
  /\ \A p \in Procs : new[p] # None => life[new[p]] # "none"
  /\ conn # None => life[conn] # "none"

\* Unless a reconnection overtook connect: connect is alone until it returns and finds no
\* connection stored, and a reconnection that has begun to dial has closed the old one.
Replaced ==
  ~raced =>
    /\ pc[Starter] \in Connecting => Reconnecting = {}
    /\ pc[Starter] \in {"dial", "setup", "store"} => conn = None
    /\ \A p \in Reconnecting :
         pc[p] \in {"dial", "setup", "store"} /\ conn # None => life[conn] = "dead"
    /\ \A c \in Conns : life[c] = "open" => c \in Known

IInv == TypeOK /\ Exclusive /\ Owned /\ Replaced

LEMMA Initially == Init => IInv
BY Zenon, DistinctAssumption
DEF Init, IInv, TypeOK, Exclusive, Owned, Replaced, Known, Reconnecting, Connecting, Trying, Procs

\* The steps keep the types, and every goroutine to the code it runs.
LEMMA TypeInductive ==
  ASSUME IInv, [Next]_vars
  PROVE  TypeOK'
<1> USE DistinctAssumption DEF IInv, TypeOK, Connecting, Trying, Procs
<1>1. CASE Settle \/ CloseSession \/ CloseControl \/ StopRing \/ UNCHANGED vars
  BY <1>1 DEF Settle, CloseSession, CloseControl, StopRing, vars, closeVars, envVars
<1>2. CASE Connected
  BY <1>2 DEF Connected, closeVars, envVars
<1>3. CASE Initialize
  BY <1>3 DEF Initialize, Goto, closeVars, envVars
<1>4. CASE HeartBeatBegins
  BY <1>4 DEF HeartBeatBegins, Goto, closeVars, envVars
<1>5. CASE Beat
  BY <1>5 DEF Beat, Goto, closeVars, envVars
<1>6. CASE SendQuit
  BY <1>6 DEF SendQuit, Goto, envVars
<1>7. CASE CloseConn
  BY <1>7 DEF CloseConn, Closing, envVars
<1>8. ASSUME NEW c \in Conns, Die(c) PROVE TypeOK'
  BY <1>8 DEF Die, Goto, closeVars, envVars
<1>9. ASSUME NEW c \in Conns, HandleError(c) PROVE TypeOK'
  BY <1>9 DEF HandleError, Goto, closeVars, envVars
<1>10. ASSUME NEW c \in Conns, Collect(c) PROVE TypeOK'
  BY <1>10 DEF Collect, closeVars, envVars
<1>11. ASSUME NEW p \in Procs, CheckState(p) PROVE TypeOK'
  BY <1>11 DEF CheckState, Rest, Goto, closeVars, envVars
<1>12. ASSUME NEW p \in Procs, TryReconnect(p) PROVE TypeOK'
  BY <1>12 DEF TryReconnect, Rest, Goto, closeVars
<1>13. ASSUME NEW p \in Procs, AttemptReconnect(p) PROVE TypeOK'
  BY <1>13 DEF AttemptReconnect, Closing, Goto, closeVars, envVars
<1>14. ASSUME NEW p \in Procs, NEW c \in Conns, Dial(p, c) PROVE TypeOK'
  BY <1>14 DEF Dial, Goto, closeVars, envVars
<1>15. ASSUME NEW p \in Procs, GiveUp(p) PROVE TypeOK'
  <2>1. CASE p = Starter
    BY <1>15, <2>1 DEF GiveUp, Goto, closeVars, envVars
  <2>2. CASE p # Starter
    <3>1. /\ Rest(p) \in {"sleep", "idle"} /\ (p \in Conns => Rest(p) = "idle")
          /\ pc' = [pc EXCEPT ![p] = Rest(p)] /\ reconnecting' = FALSE
      BY <1>15, <2>2 DEF GiveUp, Reset, Rest, Goto
    <3> QED
      BY Zenon, <1>15, <2>2, <3>1 DEF GiveUp, envVars
  <2> QED
    BY <2>1, <2>2
<1>16. ASSUME NEW p \in Procs, SetUp(p) PROVE TypeOK'
  BY <1>16 DEF SetUp, Goto, closeVars, envVars
<1>17. ASSUME NEW p \in Procs, SetUpFails(p) PROVE TypeOK'
  BY <1>17 DEF SetUpFails, Closing, Goto, closeVars, envVars
<1>18. ASSUME NEW p \in Procs, Store(p) PROVE TypeOK'
  BY <1>18 DEF Store, Goto, closeVars, envVars
<1>19. ASSUME NEW p \in Procs, RefreshSchema(p) PROVE TypeOK'
  BY <1>19 DEF RefreshSchema, Goto, closeVars, envVars
<1>20. ASSUME NEW p \in Procs, RefreshRing(p) PROVE TypeOK'
  BY Zenon, <1>20 DEF RefreshRing, Reset, Rest, Goto, closeVars, envVars
<1> QED
  BY Zenon, <1>1, <1>2, <1>3, <1>4, <1>5, <1>6, <1>7, <1>8, <1>9, <1>10, <1>11, <1>12, <1>13,
     <1>14, <1>15, <1>16, <1>17, <1>18, <1>19, <1>20
  DEF Next, init, heartBeat, Close, reconnect, setupConn

\* The compare-and-swap lets one goroutine in, and every way out resets the flag.
LEMMA ExclusiveInductive ==
  ASSUME IInv, [Next]_vars
  PROVE  Exclusive'
<1> USE DistinctAssumption DEF IInv, TypeOK, Exclusive, Reconnecting, Connecting, Trying, Procs
<1>1. CASE Settle \/ CloseSession \/ CloseControl \/ StopRing \/ UNCHANGED vars
  BY <1>1 DEF Settle, CloseSession, CloseControl, StopRing, vars, closeVars, envVars
<1>2. CASE Connected
  BY <1>2 DEF Connected, closeVars, envVars
<1>3. CASE Initialize
  BY <1>3 DEF Initialize, Goto, closeVars, envVars
<1>4. CASE HeartBeatBegins
  BY <1>4 DEF HeartBeatBegins, Goto, closeVars, envVars
<1>5. CASE Beat
  BY <1>5 DEF Beat, Goto, closeVars, envVars
<1>6. CASE SendQuit
  BY <1>6 DEF SendQuit, Goto, envVars
<1>7. CASE CloseConn
  BY <1>7 DEF CloseConn, Closing, envVars
<1>8. ASSUME NEW c \in Conns, Die(c) PROVE Exclusive'
  BY <1>8 DEF Die, Goto, closeVars, envVars
<1>9. ASSUME NEW c \in Conns, HandleError(c) PROVE Exclusive'
  BY <1>9 DEF HandleError, Goto, closeVars, envVars
<1>10. ASSUME NEW c \in Conns, Collect(c) PROVE Exclusive'
  BY <1>10 DEF Collect, closeVars, envVars
<1>11. ASSUME NEW p \in Procs, CheckState(p) PROVE Exclusive'
  BY <1>11 DEF CheckState, Rest, Goto, closeVars, envVars
<1>12. ASSUME NEW p \in Procs, TryReconnect(p) PROVE Exclusive'
  BY <1>12 DEF TryReconnect, Rest, Goto, closeVars
<1>13. ASSUME NEW p \in Procs, AttemptReconnect(p) PROVE Exclusive'
  BY <1>13 DEF AttemptReconnect, Closing, Goto, closeVars, envVars
<1>14. ASSUME NEW p \in Procs, NEW c \in Conns, Dial(p, c) PROVE Exclusive'
  BY <1>14 DEF Dial, Goto, closeVars, envVars
<1>15. ASSUME NEW p \in Procs, GiveUp(p) PROVE Exclusive'
  BY <1>15 DEF GiveUp, Reset, Rest, Goto, closeVars, envVars
<1>16. ASSUME NEW p \in Procs, SetUp(p) PROVE Exclusive'
  BY <1>16 DEF SetUp, Goto, closeVars, envVars
<1>17. ASSUME NEW p \in Procs, SetUpFails(p) PROVE Exclusive'
  BY <1>17 DEF SetUpFails, Closing, Goto, closeVars, envVars
<1>18. ASSUME NEW p \in Procs, Store(p) PROVE Exclusive'
  BY <1>18 DEF Store, Goto, closeVars, envVars
<1>19. ASSUME NEW p \in Procs, RefreshSchema(p) PROVE Exclusive'
  BY <1>19 DEF RefreshSchema, Goto, closeVars, envVars
<1>20. ASSUME NEW p \in Procs, RefreshRing(p) PROVE Exclusive'
  BY <1>20 DEF RefreshRing, Reset, Rest, Goto, closeVars, envVars
<1> QED
  BY Zenon, <1>1, <1>2, <1>3, <1>4, <1>5, <1>6, <1>7, <1>8, <1>9, <1>10, <1>11, <1>12, <1>13,
     <1>14, <1>15, <1>16, <1>17, <1>18, <1>19, <1>20
  DEF Next, init, heartBeat, Close, reconnect, setupConn

\* Connections in use are not collected, and a failed setup gives its own back.
LEMMA OwnedInductive ==
  ASSUME IInv, [Next]_vars
  PROVE  Owned'
<1> USE DistinctAssumption DEF IInv, TypeOK, Owned, Connecting, Trying, Procs
<1>1. CASE Settle \/ CloseSession \/ CloseControl \/ StopRing \/ UNCHANGED vars
  BY <1>1 DEF Settle, CloseSession, CloseControl, StopRing, vars, closeVars, envVars
<1>2. CASE Connected
  BY <1>2 DEF Connected, Exclusive, closeVars, envVars
<1>3. CASE Initialize
  BY <1>3 DEF Initialize, Goto, closeVars, envVars
<1>4. CASE HeartBeatBegins
  BY <1>4 DEF HeartBeatBegins, Goto, closeVars, envVars
<1>5. CASE Beat
  BY <1>5 DEF Beat, Goto, closeVars, envVars
<1>6. CASE SendQuit
  BY <1>6 DEF SendQuit, Goto, envVars
<1>7. CASE CloseConn
  BY <1>7 DEF CloseConn, Closing, envVars
<1>8. ASSUME NEW c \in Conns, Die(c) PROVE Owned'
  BY <1>8 DEF Die, Goto, closeVars, envVars
<1>9. ASSUME NEW c \in Conns, HandleError(c) PROVE Owned'
  BY <1>9 DEF HandleError, Goto, closeVars, envVars
<1>10. ASSUME NEW c \in Conns, Collect(c) PROVE Owned'
  BY <1>10 DEF Collect, closeVars, envVars
<1>11. ASSUME NEW p \in Procs, CheckState(p) PROVE Owned'
  BY <1>11 DEF CheckState, Rest, Goto, closeVars, envVars
<1>12. ASSUME NEW p \in Procs, TryReconnect(p) PROVE Owned'
  BY <1>12 DEF TryReconnect, Rest, Goto, closeVars
<1>13. ASSUME NEW p \in Procs, AttemptReconnect(p) PROVE Owned'
  BY <1>13 DEF AttemptReconnect, Closing, Goto, closeVars, envVars
<1>14. ASSUME NEW p \in Procs, NEW c \in Conns, Dial(p, c) PROVE Owned'
  BY <1>14 DEF Dial, Goto, closeVars, envVars
<1>15. ASSUME NEW p \in Procs, GiveUp(p) PROVE Owned'
  BY <1>15 DEF GiveUp, Reset, Rest, Goto, closeVars, envVars
<1>16. ASSUME NEW p \in Procs, SetUp(p) PROVE Owned'
  BY <1>16 DEF SetUp, Goto, closeVars, envVars
<1>17. ASSUME NEW p \in Procs, SetUpFails(p) PROVE Owned'
  BY <1>17 DEF SetUpFails, Closing, Goto, closeVars, envVars
<1>18. ASSUME NEW p \in Procs, Store(p) PROVE Owned'
  BY <1>18 DEF Store, Goto, closeVars, envVars
<1>19. ASSUME NEW p \in Procs, RefreshSchema(p) PROVE Owned'
  BY <1>19 DEF RefreshSchema, Goto, closeVars, envVars
<1>20. ASSUME NEW p \in Procs, RefreshRing(p) PROVE Owned'
  BY <1>20 DEF RefreshRing, Reset, Rest, Goto, closeVars, envVars
<1> QED
  BY Zenon, <1>1, <1>2, <1>3, <1>4, <1>5, <1>6, <1>7, <1>8, <1>9, <1>10, <1>11, <1>12, <1>13,
     <1>14, <1>15, <1>16, <1>17, <1>18, <1>19, <1>20
  DEF Next, init, heartBeat, Close, reconnect, setupConn

\* A goroutine that stores a connection is alone with it.
LEMMA ReplacedInductive ==
  ASSUME IInv, [Next]_vars
  PROVE  Replaced'
<1> USE DistinctAssumption
    DEF IInv, TypeOK, Exclusive, Owned, Replaced, Known, Reconnecting, Connecting, Trying, Procs
<1>1. CASE Settle \/ CloseSession \/ CloseControl \/ StopRing \/ UNCHANGED vars
  BY <1>1 DEF Settle, CloseSession, CloseControl, StopRing, vars, closeVars, envVars
<1>2. CASE Connected
  BY <1>2 DEF Connected, closeVars, envVars
<1>3. CASE Initialize
  BY <1>3 DEF Initialize, Goto, closeVars, envVars
<1>4. CASE HeartBeatBegins
  BY <1>4 DEF HeartBeatBegins, Goto, closeVars, envVars
<1>5. CASE Beat
  BY <1>5 DEF Beat, Goto, closeVars, envVars
<1>6. CASE SendQuit
  BY <1>6 DEF SendQuit, Goto, envVars
<1>7. CASE CloseConn
  BY <1>7 DEF CloseConn, Closing, envVars
<1>8. ASSUME NEW c \in Conns, Die(c) PROVE Replaced'
  BY <1>8 DEF Die, Goto, closeVars, envVars
<1>9. ASSUME NEW c \in Conns, HandleError(c) PROVE Replaced'
  BY <1>9 DEF HandleError, Goto, closeVars, envVars
<1>10. ASSUME NEW c \in Conns, Collect(c) PROVE Replaced'
  BY <1>10 DEF Collect, closeVars, envVars
<1>11. ASSUME NEW p \in Procs, CheckState(p) PROVE Replaced'
  BY <1>11 DEF CheckState, Rest, Goto, closeVars, envVars
<1>12. ASSUME NEW p \in Procs, TryReconnect(p) PROVE Replaced'
  <2>1. p # Starter
    BY <1>12 DEF TryReconnect
  <2>2. CASE raced'
    BY <2>2
  <2>3. CASE ~raced'
    <3>1. ~raced /\ pc[Starter] \in {"started", "done"} /\ pc'[Starter] = pc[Starter]
      BY Zenon, <1>12, <2>1, <2>3 DEF TryReconnect, Goto
    <3>2. \A q \in Reconnecting' :
            (q \in Reconnecting /\ pc'[q] = pc[q]) \/ pc'[q] = "attempt"
      BY <1>12 DEF TryReconnect, Rest, Goto
    <3> QED
      BY <1>12, <3>1, <3>2 DEF TryReconnect
  <2> QED
    BY <2>2, <2>3
<1>13. ASSUME NEW p \in Procs, AttemptReconnect(p) PROVE Replaced'
  BY <1>13 DEF AttemptReconnect, Closing, Goto, closeVars, envVars
<1>14. ASSUME NEW p \in Procs, NEW c \in Conns, Dial(p, c) PROVE Replaced'
  BY <1>14 DEF Dial, Goto, closeVars, envVars
<1>15. ASSUME NEW p \in Procs, GiveUp(p) PROVE Replaced'
  BY <1>15 DEF GiveUp, Reset, Rest, Goto, closeVars, envVars
<1>16. ASSUME NEW p \in Procs, SetUp(p) PROVE Replaced'
  BY <1>16 DEF SetUp, Goto, closeVars, envVars
<1>17. ASSUME NEW p \in Procs, SetUpFails(p) PROVE Replaced'
  BY <1>17 DEF SetUpFails, Closing, Goto, closeVars, envVars
<1>18. ASSUME NEW p \in Procs, Store(p) PROVE Replaced'
  BY <1>18 DEF Store, Goto, closeVars, envVars
<1>19. ASSUME NEW p \in Procs, RefreshSchema(p) PROVE Replaced'
  BY <1>19 DEF RefreshSchema, Goto, closeVars, envVars
<1>20. ASSUME NEW p \in Procs, RefreshRing(p) PROVE Replaced'
  BY <1>20 DEF RefreshRing, Reset, Rest, Goto, closeVars, envVars
<1> QED
  BY Zenon, <1>1, <1>2, <1>3, <1>4, <1>5, <1>6, <1>7, <1>8, <1>9, <1>10, <1>11, <1>12, <1>13,
     <1>14, <1>15, <1>16, <1>17, <1>18, <1>19, <1>20
  DEF Next, init, heartBeat, Close, reconnect, setupConn

INSTANCE FiniteSetTheorems

\* A set whose members are all equal has at most one.
LEMMA AtMostOne ==
  ASSUME NEW S, \A x, y \in S : x = y
  PROVE  Cardinality(S) <= 1
<1>1. CASE S = {}
  BY <1>1, FS_EmptySet
<1>2. CASE S # {}
  <2>1. PICK x : x \in S
    BY <1>2
  <2>2. S = {x}
    BY <2>1
  <2> QED
    BY <2>2, FS_Singleton
<1> QED
  BY <1>1, <1>2

\* One goroutine reconnects at a time, c.reconnecting is set exactly while it does, and no
\* open control connection is forgotten unless a reconnection overtook connect.
THEOREM ControlSound == Spec => []OneControlConn
<1>1. IInv /\ [Next]_vars => IInv'
  BY TypeInductive, ExclusiveInductive, OwnedInductive, ReplacedInductive DEF IInv
<1>2. IInv => OneControlConn
  BY AtMostOne DEF IInv, Exclusive, Replaced, OneControlConn
<1> QED
  BY Initially, <1>1, <1>2, PTL DEF Spec

===============================================================================
