-------------------------------- MODULE Schema --------------------------------
(***************************************************************************)
(* The schema cache of a session (schemaDescriber, refreshSchemas) and the *)
(* schema listeners, while the session starts and the schema changes.      *)
(*                                                                         *)
(* A keyspace is what its row in the system tables says (class, options,   *)
(* durable writes) and its objects: tables, user types, functions and      *)
(* aggregates, each with a version that stands for what is compared of it. *)
(* A refresh that is asked for begins afterwards, as RefreshDebouncer      *)
(* shows.                                                                  *)
(***************************************************************************)
EXTENDS ReplicationStrategy

CONSTANTS
  Keyspaces, Definitions,    \* names, and what a keyspace may be defined as
  Objects,                   \* names of objects in a keyspace
  Schemas,                   \* schemas at the start of the session
  MaxChanges,                \* bound: schema changes
  MaxFaults                  \* bound: failed queries

VARIABLES
  CacheMode,       \* cfg.Metadata.CacheMode
  server,          \* the schema in the cluster
  schema,          \* schemaMeta.keyspaceMeta
  wanted,          \* a schema refresh has been asked for
  r,               \* the goroutine of refreshes: where it is, keyspaces, oldKeyspaceMeta
  ipc,             \* where Session.init is
  isInitialized,   \* Session.isInitialized
  told,            \* the schema as a listener knows it
  changes, faults,
  failed           \* history: the last refresh failed

cacheVars == <<schema, wanted, r, failed>>
sessionVars == <<ipc, isInitialized, told>>
clusterVars == <<CacheMode, server, changes, faults>>
schemaVars == <<cacheVars, sessionVars, clusterVars>>

\* What the schema says of a keyspace: what it is defined as and its objects, each
\* with a version, or Nil.
Defined(d, objs) == [class |-> d.class, opts |-> d.opts, durable |-> d.durable, objs |-> objs]
Contents == [Objects -> 0 .. 2]              \* 0: there is no such object
KeyspaceMeta == {Nil} \cup {Defined(x[1], x[2]) : x \in Definitions \X Contents}

ASSUME SchemaAssumption ==
  /\ Schemas \subseteq [Keyspaces -> KeyspaceMeta]
  /\ \A d \in Definitions, objs \in Contents : Defined(d, objs) # Nil

NoObjects == [o \in Objects |-> 0]
NoSchema == [k \in Keyspaces |-> Nil]
Resting == [pc |-> "idle", new |-> NoSchema, old |-> NoSchema, notify |-> FALSE]

SchemaInit ==
  /\ CacheMode \in {"Full", "KeyspaceOnly", "Disabled"}
  /\ server \in Schemas
  /\ schema = NoSchema /\ told = NoSchema
  /\ wanted = FALSE /\ r = Resting
  /\ ipc = "partitioner" /\ isInitialized = FALSE
  /\ changes = 0 /\ faults = 0 /\ failed = FALSE

-------------------------------------------------------------------------------
(* refreshSchemas, in the goroutine of the refresh debouncer *)

\* The refresh returns; Session.init may be waiting for it.
Returns(err) ==
  /\ r' = Resting /\ failed' = err
  /\ ipc' = IF ipc = "serving" THEN "initialize" ELSE ipc

QueryFails == faults < MaxFaults /\ faults' = faults + 1 /\ Returns(TRUE)

\* getAllKeyspaceMetadata; without a cache a refresh does nothing.
Fetch ==
  /\ r.pc = "idle" /\ wanted
  /\ wanted' = FALSE
  /\ \/ /\ CacheMode # "Disabled"
        /\ r' = [r EXCEPT !.pc = IF CacheMode = "Full" THEN "objects" ELSE "store",
                          !.new = [k \in Keyspaces |->
                             IF server[k] = Nil THEN Nil ELSE [server[k] EXCEPT !.objs = NoObjects]]]
        /\ ipc' = IF ipc = "await" THEN "serving" ELSE ipc
        /\ UNCHANGED <<faults, failed>>
     \/ /\ IF CacheMode = "Disabled" THEN UNCHANGED <<faults, failed>>
           ELSE faults < MaxFaults /\ faults' = faults + 1 /\ failed' = TRUE
        /\ ipc' = IF ipc = "await" THEN "initialize" ELSE ipc
        /\ UNCHANGED r
  /\ UNCHANGED <<schema, isInitialized, told, CacheMode, server, changes>>

\* The queries for objects, which may see a later schema, and compileMetadata.
FetchObjects ==
  /\ r.pc = "objects"
  /\ \/ /\ r' = [r EXCEPT !.pc = "store",
                          !.new = [k \in Keyspaces |->
                             IF r.new[k] = Nil \/ server[k] = Nil THEN r.new[k]
                             ELSE [r.new[k] EXCEPT !.objs = server[k].objs]]]
        /\ UNCHANGED <<faults, failed, ipc>>
     \/ QueryFails
  /\ UNCHANGED <<schema, wanted, isInitialized, told, CacheMode, server, changes>>

\* getSchemaMetaForUpdate to schemaMeta.Store.
StoreMeta ==
  /\ r.pc = "store"
  /\ schema' = r.new
  /\ r' = [r EXCEPT !.pc = "policy", !.old = schema]
  /\ UNCHANGED <<wanted, failed, sessionVars, clusterVars>>

\* sessionInitialized is read, and the policy's schemaRefreshed is called.
schemaRefreshed ==
  /\ r.pc = "policy"
  /\ r' = [r EXCEPT !.pc = "keyspaces", !.notify = isInitialized]
  /\ UNCHANGED <<schema, wanted, failed, sessionVars, clusterVars>>

\* A keyspace in both schemas of which the listener is told.
Updated(old, new) ==
  \/ (getStrategy(new) = Nil) # (getStrategy(old) = Nil)
  \/ getStrategy(new) # Nil /\ strategyKey(getStrategy(new)) # strategyKey(getStrategy(old))
  \/ new.durable # old.durable

\* OnKeyspaceCreated, OnKeyspaceDropped, OnKeyspaceUpdated; a listener keeps the
\* objects it knows of a keyspace that is updated.
NotifyKeyspaces ==
  /\ r.pc = "keyspaces"
  /\ told' = [k \in Keyspaces |->
       IF ~r.notify \/ (r.old[k] = Nil /\ r.new[k] = Nil) THEN told[k]
       ELSE IF r.old[k] = Nil \/ r.new[k] = Nil THEN r.new[k]
       ELSE IF told[k] # Nil /\ Updated(r.old[k], r.new[k])
              THEN [r.new[k] EXCEPT !.objs = told[k].objs] ELSE told[k]]
  /\ IF r.notify /\ CacheMode = "Full"
       THEN r' = [r EXCEPT !.pc = "changes"] /\ UNCHANGED <<failed, ipc>>
       ELSE Returns(FALSE)
  /\ UNCHANGED <<schema, wanted, isInitialized, clusterVars>>

\* What the calls for one keyspace leave a listener with: objects created,
\* updated and dropped.
MutObjectChanges(known, old, new) ==
  [o \in Objects |-> IF old[o] # 0 /\ new[o] # old[o] THEN new[o] ELSE known[o]]
ObjectChanges(known, old, new) ==
  [o \in Objects |-> IF new[o] # old[o] THEN new[o] ELSE known[o]]

handleFullSchemaChanges ==
  /\ r.pc = "changes"
  /\ told' = [k \in Keyspaces |->
       IF r.old[k] = Nil \/ r.new[k] = Nil \/ told[k] = Nil THEN told[k]
       ELSE [told[k] EXCEPT !.objs = ObjectChanges(@, r.old[k].objs, r.new[k].objs)]]
  /\ Returns(FALSE)
  /\ UNCHANGED <<schema, wanted, isInitialized, clusterVars>>

refreshSchemas ==
  Fetch \/ FetchObjects \/ StoreMeta \/ schemaRefreshed \/ NotifyKeyspaces \/ handleFullSchemaChanges

-------------------------------------------------------------------------------
(* Session.init; what it tells the policy is in TokenAware. *)

SetPartitioner ==
  /\ ipc = "partitioner"
  /\ ipc' = "hosts"
  /\ UNCHANGED <<cacheVars, isInitialized, told, clusterVars>>

AddHosts ==
  /\ ipc = "hosts"
  /\ ipc' = "refresh"
  /\ UNCHANGED <<cacheVars, isInitialized, told, clusterVars>>

refreshSchemaMetadata ==
  /\ ipc = "refresh"
  /\ ipc' = "await" /\ wanted' = TRUE
  /\ UNCHANGED <<schema, r, failed, isInitialized, told, clusterVars>>

SetInitialized ==
  /\ ipc = "initialize"
  /\ ipc' = "ready" /\ isInitialized' = TRUE
  /\ UNCHANGED <<cacheVars, told, clusterVars>>

\* The listener reads AllKeyspaceMetadata, from the cluster without a cache.
OnSessionReady ==
  /\ ipc = "ready"
  /\ ipc' = "done" /\ told' = IF CacheMode = "Disabled" THEN server ELSE schema
  /\ UNCHANGED <<cacheVars, isInitialized, clusterVars>>

SessionInit ==
  SetPartitioner \/ AddHosts \/ refreshSchemaMetadata \/ SetInitialized \/ OnSessionReady

-------------------------------------------------------------------------------
(* The cluster, which sends an event for every change of its schema. *)

\* What a keyspace becomes when it is created, altered or dropped, or when one
\* of its objects is.
After(ks) ==
  IF ks = Nil THEN {Defined(d, NoObjects) : d \in Definitions}
  ELSE ({Nil} \cup {Defined(d, ks.objs) : d \in Definitions}
        \cup {[ks EXCEPT !.objs[c[1]] = c[2]] : c \in Objects \X (0 .. 2)}) \ {ks}

SchemaChange ==
  /\ changes < MaxChanges /\ changes' = changes + 1
  /\ \E k \in Keyspaces : \E ks \in After(server[k]) : server' = [server EXCEPT ![k] = ks]
  /\ wanted' = TRUE
  /\ UNCHANGED <<schema, r, failed, sessionVars, CacheMode, faults>>

SchemaNext == SessionInit \/ refreshSchemas \/ SchemaChange

SchemaSpec == SchemaInit /\ [][SchemaNext]_schemaVars

-------------------------------------------------------------------------------
(* Properties *)

\* Once the session is ready and no refresh is under way or asked for, the
\* cache is the schema of the cluster, unless the last refresh failed, and a
\* schema listener that has followed the calls since OnSessionReady knows what
\* is in the cache: no keyspace or object is missing, extra or of an old
\* version, whatever changed while the session started (refreshSchemas).
SchemaFollowed ==
  ipc = "done" /\ r.pc = "idle" /\ ~wanted /\ CacheMode # "Disabled" =>
    /\ ~failed => \A k \in Keyspaces :
         schema[k] = IF server[k] = Nil \/ CacheMode = "Full" THEN server[k]
                     ELSE [server[k] EXCEPT !.objs = NoObjects]
    /\ \A k \in Keyspaces :
         \/ told[k] = schema[k]
         \/ /\ told[k] # Nil /\ schema[k] # Nil
            /\ ~Updated(told[k], schema[k])
            /\ told[k].objs = schema[k].objs

===============================================================================
