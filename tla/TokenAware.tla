----------------------------- MODULE TokenAware -------------------------------
(***************************************************************************)
(* The token-aware policy, which routes by the schema cache of the session *)
(* (Schema) and by the placement of replicas (Placement), while the        *)
(* session starts, hosts come and go and the schema changes.               *)
(*                                                                         *)
(* The policy's methods hold its mutex from the first read to the store of *)
(* the metadata, so each of them is one step, together with the step of    *)
(* Session.init or of refreshSchemas that calls it.                        *)
(***************************************************************************)
EXTENDS Placement, Schema

CONSTANTS
  Layouts,                   \* the tokens of hosts
  RoutingTokens,             \* the tokens of statements
  StartHosts,                \* sets of hosts that Session.init may find
  Movers,                    \* bound: the hosts that come and go
  MaxHostChanges             \* bound: AddHost and RemoveHost by other goroutines

VARIABLES
  tokens,          \* the tokens of the hosts
  hosts,           \* tokenAwareHostPolicy.hosts
  partitioner,     \* whether it is known
  ring, replicas,  \* clusterMeta: the token ring, the replica maps by strategy key
  moves

policyVars == <<hosts, partitioner, ring, replicas>>
vars == <<policyVars, tokens, moves, schemaVars>>

\* NewSession has called policy.Init.
Init ==
  /\ SchemaInit
  /\ tokens \in Layouts
  /\ hosts = {} /\ partitioner = FALSE /\ ring = Nil /\ replicas = <<>>
  /\ moves = 0

-------------------------------------------------------------------------------
(* tokenAwareHostPolicy *)

Strategies(sch) == {getStrategy(sch[k]) : k \in {j \in Keyspaces : sch[j] # Nil}} \ {Nil}

\* The maps of the strategies in sch for the ring rg, by key.
updateAllReplicas(rg, sch) ==
  IF rg = Nil THEN <<>>
  ELSE [key \in {strategyKey(s) : s \in Strategies(sch)} |->
          replicaMap(CHOOSE s \in Strategies(sch) : strategyKey(s) = key, rg)]

\* resetTokenRing and updateAllReplicas, and the store of the metadata.
SetHosts(hs, known) ==
  /\ hosts' = hs /\ partitioner' = known
  /\ ring' = IF known THEN newTokenRing(hs, tokens) ELSE ring
  /\ replicas' = updateAllReplicas(ring', schema)

\* The calls of the fallback policy that follow are in Cluster.
AddHost(h) ==
  IF h \in hosts THEN UNCHANGED policyVars
  ELSE SetHosts(hosts \cup {h}, partitioner)

RemoveHost(h) ==
  IF h \notin hosts THEN UNCHANGED policyVars
  ELSE SetHosts(hosts \ {h}, partitioner)

policySetPartitioner ==
  IF partitioner THEN UNCHANGED policyVars ELSE SetHosts(hosts, TRUE)

policyAddHosts == \E hs \in StartHosts : SetHosts(hosts \cup hs, partitioner)

policySchemaRefreshed ==
  /\ replicas' = updateAllReplicas(ring, schema)
  /\ UNCHANGED <<hosts, partitioner, ring>>

\* The replicas that Pick tries first for a token and a keyspace.
PickReplicas(k, t) ==
  LET s == IF schema[k] = Nil THEN Nil ELSE getStrategy(schema[k])
      map == IF s # Nil /\ strategyKey(s) \in DOMAIN replicas
               THEN replicas[strategyKey(s)] ELSE <<>>
      ht == replicasFor(map, t)
  IN IF ht = Nil THEN <<GetHostForToken(ring, t)>> ELSE ht

-------------------------------------------------------------------------------
(* The session with its policy, and the hosts that come and go by way of the *)
(* ring refresher.                                                           *)

Session ==
  /\ \/ SetPartitioner /\ policySetPartitioner
     \/ AddHosts /\ policyAddHosts
     \/ schemaRefreshed /\ policySchemaRefreshed
     \/ /\ \/ refreshSchemaMetadata \/ SetInitialized \/ OnSessionReady
           \/ Fetch \/ FetchObjects \/ StoreMeta \/ NotifyKeyspaces \/ handleFullSchemaChanges
           \/ SchemaChange
        /\ UNCHANGED policyVars
  /\ UNCHANGED <<tokens, moves>>

HostChange ==
  /\ moves < MaxHostChanges /\ moves' = moves + 1
  /\ \E h \in Movers : AddHost(h) \/ RemoveHost(h)
  /\ policyVars' # policyVars
  /\ UNCHANGED <<tokens, schemaVars>>

Next == Session \/ HostChange

Spec == Init /\ [][Next]_vars

-------------------------------------------------------------------------------
(* Properties *)

OneTokenEach == \A h \in Hosts : Cardinality(tokens[h]) = 1

\* Whenever the policy has a ring of hosts, Pick goes first to the replicas of
\* the token as Cassandra places them for the keyspace in the cache: all of
\* them, none twice, and from the host that owns the token on if its data center
\* has any.  Where the policy knows no replicas that is the owner alone.  For
\* the moment between the store of a schema and schemaRefreshed it may be the
\* owner too, and with several tokens for a host the network strategy promises
\* no more than the first replica (Pick, updateAllReplicas, replicaMap).
RoutesRight ==
  ring # Nil /\ hosts # {} =>
    \A k \in Keyspaces, t \in RoutingTokens :
      LET s == IF schema[k] = Nil THEN Nil ELSE getStrategy(schema[k])
          natural == IF s = Nil THEN {} ELSE Natural(s, ring, t)
          owner == Head(Owners(ring, t))
          picked == PickReplicas(k, t)
      IN \/ picked = <<owner>> /\ (natural = {} \/ r.pc = "policy")
         \/ /\ natural # {}
            /\ owner \in natural => Head(picked) = owner
            /\ s.class = "SimpleStrategy" \/ OneTokenEach =>
                 /\ ToSet(picked) = natural
                 /\ Len(picked) = Cardinality(natural)

===============================================================================
