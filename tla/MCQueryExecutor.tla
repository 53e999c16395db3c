---------------------------- MODULE MCQueryExecutor ---------------------------
(* Two hosts in the local data centre, one in another. *)
EXTENDS QueryExecutor

CONSTANTS h1, h2, h3

MCHosts == {h1, h2, h3}
MCTier == [h \in MCHosts |-> IF h = h3 THEN 1 ELSE 0]
MCReplicas == {<<>>, <<h3, h1>>}

\* A host goes down and comes up again while the request is executed.  Under the
\* downgrading policy, which may choose the same host again, it only goes down.
MCMaxFlaps == [rt \in RetryPolicies |-> IF rt = "downgrading" THEN 1 ELSE 2]

===============================================================================
