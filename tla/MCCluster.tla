------------------------------- MODULE MCCluster ------------------------------
(* Node a may move, b may join, or take the place of a at its address. *)
EXTENDS Cluster, TLC

CONSTANTS a, b, n1, n2, r2

MCIDs == {a, b}
MCAddrs == {n1, n2, r2}
MCConnectAddress == (n1 :> n1) @@ (n2 :> r2) @@ (r2 :> r2)
Table(x, y) == (a :> x) @@ (b :> y)
MCFirst == Table(n1, None)
MCSecond == {Table(n2, None), Table(None, n1), Table(n1, n2)}

===============================================================================
