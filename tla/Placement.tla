------------------------------ MODULE Placement -------------------------------
(***************************************************************************)
(* The token ring and the placement of replicas (token.go, topology.go), as *)
(* operators.  A token ring is a sequence of pairs <<token, host>> and a    *)
(* replica map one of pairs <<token, hosts>>, both in the order of tokens.  *)
(* Data centers are numbers, in the order of their names.                   *)
(***************************************************************************)
EXTENDS ReplicationStrategy, SequencesExt

CONSTANTS
  Hosts, DCs,
  DataCenter, Rack   \* of each host

Distinct(hs) == FoldLeft(LAMBDA acc, h : IF h \in ToSet(acc) THEN acc ELSE Append(acc, h),
                         <<>>, hs)
Take(n, hs) == SubSeq(hs, 1, IF n < Len(hs) THEN n ELSE Len(hs))

-------------------------------------------------------------------------------
(* token.go *)

newTokenRing(hosts, tokens) ==
  SetToSortSeq(UNION {tokens[h] \X {h} : h \in hosts}, LAMBDA x, y : x[1] < y[1])

\* The index of the range of token t: ranges include their end, and the first
\* one wraps around.
Search(ring, t) ==
  LET after == {i \in 1 .. Len(ring) : ring[i][1] >= t} IN
  IF after = {} THEN 1 ELSE Min(after)

GetHostForToken(ring, t) == IF ring = <<>> THEN Nil ELSE ring[Search(ring, t)][2]

replicasFor(map, t) == IF map = <<>> THEN Nil ELSE map[Search(map, t)][2]

-------------------------------------------------------------------------------
(* Replica maps *)

\* The hosts met on the way around the ring from its i-th token.
Walk(ring, i) == [j \in 1 .. Len(ring) |-> ring[((i + j - 2) % Len(ring)) + 1][2]]

simpleReplicas(rf, hs) ==
  FoldLeft(LAMBDA rs, h : IF Len(rs) < rf /\ h \notin ToSet(rs) THEN Append(rs, h) ELSE rs,
           <<>>, hs)

\* The state of networkTopology.replicaMap in its walk around the ring:
\* replicas, replicasInDC, seenDCRacks, skipped, and whether a data center has
\* more replicas than its factor.
Start == [replicas |-> <<>>, inDC |-> [d \in DCs |-> 0], seen |-> [d \in DCs |-> {}],
          skipped |-> [d \in DCs |-> <<>>], overflow |-> FALSE]

\* replicasInDC has an entry for the data centers of the ring too.
haveRF(dcs, racks, w) ==
  /\ DOMAIN racks \subseteq DOMAIN dcs
  /\ \A d \in DOMAIN dcs : w.inDC[d] = dcs[d]

\* With the last rack of data center d, the hosts that were skipped.
MutDrained(dcs, racks, w, h) ==
  LET d == DataCenter[h] IN
  IF w.seen[d] \cup {Rack[h]} = racks[d] THEN Take(dcs[d] - w.inDC[d], w.skipped[d]) ELSE <<>>
Drained(dcs, racks, w, h) ==
  LET d == DataCenter[h] IN
  IF w.seen[d] \cup {Rack[h]} = racks[d]
    THEN Take(dcs[d] - w.inDC[d] - 1, w.skipped[d]) ELSE <<>>

\* One host of the walk.
NextReplica(dcs, racks, w, h) ==
  LET d == DataCenter[h]
      new == Rack[h] \notin w.seen[d]
      more == IF new THEN Drained(dcs, racks, w, h) ELSE <<>>
  IN
  IF \/ Len(w.replicas) >= SumFunction(dcs) \/ haveRF(dcs, racks, w)
     \/ d \notin DOMAIN dcs \/ dcs[d] = 0
    THEN w
  ELSE IF w.inDC[d] >= dcs[d]
    THEN [w EXCEPT !.overflow = @ \/ w.inDC[d] > dcs[d]]
  ELSE IF ~new /\ w.seen[d] # racks[d]
    THEN [w EXCEPT !.skipped[d] = Append(@, h)]
  ELSE [w EXCEPT !.replicas = @ \o <<h>> \o more,
                 !.inDC[d] = @ + 1 + Len(more),
                 !.seen[d] = @ \cup {Rack[h]},
                 !.skipped[d] = SubSeq(@, Len(more) + 1, Len(@))]

\* The racks of each data center of the ring.
dcRacks(ring) ==
  LET hosts == {ring[i][2] : i \in 1 .. Len(ring)} IN
  [d \in {DataCenter[h] : h \in hosts} |-> {Rack[h] : h \in {k \in hosts : DataCenter[k] = d}}]

networkWalk(dcs, racks, ring, i) ==
  FoldLeft(LAMBDA w, h : NextReplica(dcs, racks, w, h), Start, Walk(ring, i))

\* Tokens of data centers without replicas are left out; the map is empty when
\* one of the checks on the result fails.
networkReplicaMap(dcs, ring) ==
  LET racks == dcRacks(ring)
      placed == {i \in 1 .. Len(ring) :
                   DataCenter[ring[i][2]] \in {d \in DOMAIN dcs : dcs[d] > 0}}
      walks == [i \in placed |-> networkWalk(dcs, racks, ring, i)]
      order == SetToSortSeq(placed, <)
      withReplicas == {d \in DOMAIN dcs \cap DOMAIN racks : dcs[d] > 0}
  IN
  IF \/ \E i \in placed : \/ walks[i].overflow
                          \/ walks[i].replicas = <<>>
                          \/ Head(walks[i].replicas) # ring[i][2]
     \/ withReplicas = DOMAIN racks /\ Len(order) # Len(ring)
    THEN <<>>
  ELSE [n \in 1 .. Len(order) |-> <<ring[order[n]][1], walks[order[n]].replicas>>]

simpleReplicaMap(rf, ring) ==
  [i \in 1 .. Len(ring) |-> <<ring[i][1], simpleReplicas(rf, Walk(ring, i))>>]

replicaMap(s, ring) ==
  IF s.class = "SimpleStrategy" THEN simpleReplicaMap(s.dcs[ReplicationFactor], ring)
  ELSE networkReplicaMap(s.dcs, ring)

-------------------------------------------------------------------------------
(* What the maps should say: the hosts in the order of the ring from a     *)
(* token, each once; in each data center first those of a new rack.         *)

Owners(ring, t) ==
  LET turned == SelectSeq(ring, LAMBDA x : x[1] >= t) \o SelectSeq(ring, LAMBDA x : x[1] < t)
  IN Distinct([i \in 1 .. Len(turned) |-> turned[i][2]])

Natural(s, ring, t) ==
  LET order == Owners(ring, t)
      in(d) == SelectSeq(order, LAMBDA h : DataCenter[h] = d)
      lead(hs) == {hs[i] : i \in {j \in 1 .. Len(hs) :
                     \A k \in 1 .. j - 1 : Rack[hs[k]] # Rack[hs[j]]}}
      ranked(hs) == SelectSeq(hs, LAMBDA h : h \in lead(hs))
                    \o SelectSeq(hs, LAMBDA h : h \notin lead(hs))
  IN
  IF s.class = "SimpleStrategy" THEN ToSet(Take(s.dcs[ReplicationFactor], order))
  ELSE UNION {ToSet(Take(s.dcs[d], ranked(in(d)))) : d \in DOMAIN s.dcs}

===============================================================================
