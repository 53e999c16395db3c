---------------------------- MODULE MCPreparedCache ---------------------------
(* A goroutine with queries of s1, and one with batches of s2 and s1 as well. *)
EXTENDS PreparedCache

CONSTANTS p1, p2, s1, s2

MCProcs == {p1, p2}
MCStmts == {s1, s2}
MCWorks == [p \in MCProcs |-> IF p = p1 THEN {<<s1>>} ELSE {<<s1>>, <<s2, s1>>}]

===============================================================================
