----------------------------- MODULE HostSelection ----------------------------
(***************************************************************************)
(* The host selection policies of policies.go: the copy-on-write lists,    *)
(* the round-robin order over tiers of hosts (round robin, DC aware, rack  *)
(* aware), and the iterator that the token-aware policy puts before it.    *)
(*                                                                         *)
(* A NextHost closure is a record, and a call of it an operator that       *)
(* returns the host together with the next record.                         *)
(***************************************************************************)
EXTENDS Naturals, Sequences, FiniteSets, Functions

CONSTANTS
  Hosts,
  MaxTier,        \* MaxHostTier()
  Tier,           \* HostTier of each host: 0 is local
  None            \* no host

ASSUME TierAssumption ==
  /\ MaxTier \in Nat /\ Tier \in [Hosts -> 0 .. MaxTier] /\ None \notin Hosts

-------------------------------------------------------------------------------
(* cowHostList, one for each tier *)

add(list, h) == IF h \in Range(list) THEN list ELSE Append(list, h)
remove(list, h) == SelectSeq(list, LAMBDA x : x # h)

\* HostUp and HostDown of the policies, which are AddHost and RemoveHost.
HostUp(lists, h) == [lists EXCEPT ![Tier[h]] = add(@, h)]
HostDown(lists, h) == [lists EXCEPT ![Tier[h]] = remove(@, h)]

-------------------------------------------------------------------------------
(* roundRobbin *)

Concat(ss) ==
  LET c[n \in 0 .. Len(ss)] == IF n = 0 THEN <<>> ELSE c[n - 1] \o ss[n]
  IN  c[Len(ss)]

\* The hosts of one layer, from the one after the offset.
LayerOrder(shift, layer) ==
  [i \in 1 .. Len(layer) |-> layer[((shift + i) % Len(layer)) + 1]]

\* The order of a fallback policy over its layers.
roundRobbin(shift, lists) ==
  Concat([t \in 1 .. MaxTier + 1 |-> LayerOrder(shift, lists[t - 1])])

-------------------------------------------------------------------------------
(* tokenAwareHostPolicy.Pick *)

\* The first position of a sequence with a property, or 0.
FirstPos(s, P(_)) ==
  IF \E i \in 1 .. Len(s) : P(s[i])
    THEN CHOOSE i \in 1 .. Len(s) : P(s[i]) /\ \A j \in 1 .. i - 1 : ~P(s[j])
    ELSE 0

From(s, i) == SubSeq(s, i, Len(s))

\* replicas: those not looked at yet; aside: the remote ones met among them;
\* remote: what is left of these, in order, once the replicas are through;
\* rest: what the fallback's iterator has left, once it is picked.
Pick(replicas) ==
  [replicas |-> replicas, aside |-> <<>>, remote |-> <<>>,
   picked |-> FALSE, rest |-> <<>>, used |-> {}]

\* The order the remote replicas are visited in: tier by tier.  The loop ends at
\* the first tier that has none.
RemoteOrder(aside) ==
  LET tier(t) == SelectSeq(aside, LAMBDA h : Tier[h] = t)
      n == CHOOSE t \in 0 .. MaxTier :
             (\A u \in 1 .. t : tier(u) # <<>>) /\ (t < MaxTier => tier(t + 1) = <<>>)
  IN  Concat([t \in 1 .. n |-> tier(t)])

\* A host is returned, and remembered in used.
MutReturned(it, h) == [host |-> h, it |-> it]
Returned(it, h) == [host |-> h, it |-> [it EXCEPT !.used = @ \cup {h}]]

\* The local replicas.
NextLocal(it, up, nonLocal) ==
  LET n == FirstPos(it.replicas, LAMBDA h : Tier[h] = 0 /\ h \in up)
      seen == IF n = 0 THEN it.replicas ELSE SubSeq(it.replicas, 1, n - 1)
      aside == it.aside \o SelectSeq(seen, LAMBDA h : nonLocal /\ Tier[h] # 0)
  IN  IF n # 0
        THEN Returned([it EXCEPT !.replicas = From(@, n + 1), !.aside = aside],
                      it.replicas[n])
        ELSE [host |-> None,
              it |-> [it EXCEPT !.replicas = <<>>, !.aside = <<>>,
                                !.remote = @ \o RemoteOrder(aside)]]

\* The remote ones.
NextRemote(it, up) ==
  LET n == FirstPos(it.remote, LAMBDA h : h \in up) IN
  IF n = 0 THEN [host |-> None, it |-> [it EXCEPT !.remote = <<>>]]
           ELSE Returned([it EXCEPT !.remote = From(@, n + 1)], it.remote[n])

\* The hosts of the fallback that were not returned yet.
NextFallback(it, up, plan) ==
  LET rest == IF it.picked THEN it.rest ELSE plan
      n == FirstPos(rest, LAMBDA h : h \in up /\ h \notin it.used)
      it1 == [it EXCEPT !.picked = TRUE,
                        !.rest = IF n = 0 THEN <<>> ELSE From(rest, n + 1)]
  IN  IF n = 0 THEN [host |-> None, it |-> it1] ELSE Returned(it1, rest[n])

\* A call of the closure, when the hosts up are up and a Pick of the fallback
\* would give plan: the set of its one result, a host and the next iterator.
NextHost(it, up, nonLocal, plan) ==
  UNION {{IF b.host # None THEN b ELSE NextFallback(b.it, up, plan) :
            b \in {IF a.host # None THEN a ELSE NextRemote(a.it, up)}} :
            a \in {NextLocal(it, up, nonLocal)}}

===============================================================================
