-------------------------- MODULE ReplicationStrategy -------------------------
(***************************************************************************)
(* Replication strategies (topology.go).  A keyspace has a class and       *)
(* replication factors by option: option 0 is "replication_factor", the    *)
(* others are data centers, and a negative factor is one that cannot be    *)
(* parsed.                                                                 *)
(***************************************************************************)
EXTENDS Integers

CONSTANT Nil

ReplicationFactor == 0

getStrategy(ks) ==
  CASE ks.class = "SimpleStrategy" ->
         IF ks.opts[ReplicationFactor] < 0 THEN Nil
         ELSE [class |-> ks.class, dcs |-> ks.opts]
    [] ks.class = "NetworkTopologyStrategy" ->
         [class |-> ks.class,
          dcs |-> [d \in {o \in DOMAIN ks.opts : ks.opts[o] >= 0} |-> ks.opts[d]]]
    [] OTHER -> Nil

\* The class and the factors, which the key lists in the order of their names.
strategyKey(s) == <<s.class, {<<d, s.dcs[d]>> : d \in DOMAIN s.dcs}>>

===============================================================================
