---------------------------- MODULE MCTokenAware ------------------------------
(* Four hosts in two data centers and two racks; see README.md, Runs. *)
EXTENDS TokenAware

CONSTANTS h1, h2, h3, h4

MCHosts == {h1, h2, h3, h4}
MCDataCenter == [h \in MCHosts |-> IF h = h4 THEN 2 ELSE 1]
MCRack == [h \in MCHosts |-> IF h = h3 THEN 2 ELSE 1]

Order(a, b, c, d) == (a :> {1}) @@ (b :> {2}) @@ (c :> {3}) @@ (d :> {4})
MCLayouts ==
  {Order(h1, h2, h3, h4), Order(h4, h2, h1, h3),
   (h1 :> {1, 3}) @@ (h2 :> {2}) @@ (h3 :> {4}) @@ (h4 :> {5})}

Simple(rf) == [class |-> "SimpleStrategy", opts |-> (0 :> rf), durable |-> TRUE]
Network(o) == [class |-> "NetworkTopologyStrategy", opts |-> o, durable |-> TRUE]
NotDurable(d) == [d EXCEPT !.durable = FALSE]
MCDefinitions ==
  {Simple(2), NotDurable(Simple(-1)), Network((1 :> 2) @@ (2 :> 1)),
   NotDurable(Network((1 :> 2) @@ (2 :> 1))), Network((1 :> 3) @@ (2 :> -1))}

MCSchemas ==
  {[k \in Keyspaces |-> Nil],
   [k \in Keyspaces |-> Defined(Network((1 :> 3) @@ (2 :> -1)), [o \in Objects |-> 1])]}
MCStartHosts == {MCHosts}

===============================================================================
