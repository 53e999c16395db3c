----------------------------- MODULE QueryExecutor ----------------------------
(***************************************************************************)
(* One request in the query executor: executeQuery, speculate, do and run  *)
(* of query_executor.go, the retry policies of policies.go, over the hosts *)
(* HostSelection offers while nodes go down and come up.                   *)
(*                                                                         *)
(* Run 0 is the main execution, the others are the speculative ones.       *)
(***************************************************************************)
EXTENDS HostSelection

CONSTANTS
  Replicas,       \* the replicas Pick may find for a request, with <<>> for none
  NumRetries,     \* of the retry policy: NumRetries, or the levels to try
  MaxSpec,        \* bound on the Attempts() of the speculative policy
  Shift,          \* lastUsedHostIdx
  Flaky,          \* the nodes that go down and come up
  MaxFlaps        \* bound on their changes of state, by the request's retry policy

RetryPolicies == {"none", "simple", "downgrading"}

ASSUME ExecutorAssumption ==
  /\ Replicas \subseteq Seq(Hosts) /\ Flaky \subseteq Hosts
  /\ {NumRetries, MaxSpec, Shift} \subseteq Nat
  /\ MaxFlaps \in [RetryPolicies -> Nat]

Runs == 0 .. MaxSpec

VARIABLES
  cfg,            \* what the request was made with
  up,             \* the hosts whose IsUp() is true
  lists,          \* the lists of the fallback policy
  flaps,          \* changes of state so far
  it,             \* the host iterator, shared by the runs
  attempts,       \* metrics.attempts()
  pc, host, out,  \* of each run: where it is, selectedHost, the iter's outcome
  failed,         \* lastErr # nil
  seen,           \* the attempts the retry policy has read
  results,        \* the channel, of capacity 1
  ctxDone,        \* the context is done
  spawned,        \* speculative executions so far
  answer,         \* what the caller got
  sent, tried     \* history: the requests that passed the check of the context,
                  \* and the hosts they went to

nodeVars == <<up, lists, flaps>>
runVars == <<pc, host, out, failed, seen>>
callVars == <<results, ctxDone, spawned, answer>>
histVars == <<sent, tried>>
vars == <<cfg, nodeVars, it, attempts, runVars, callVars, histVars>>

\* What the node or the connection reports, as far as the retry policy tells it
\* apart: a timeout or too few replicas, some of them alive; a write that some
\* replica acknowledged; one that none did; anything else.
Errors == IF cfg.rt = "downgrading" THEN {"alive", "acked", "dead", "other"} ELSE {"other"}

Pinned == cfg.hostID # None

\* Requests are speculated on only if they may be executed twice.
Speculative == ~Pinned /\ cfg.idempotent /\ cfg.spec > 0

\* The hosts of a set in some order.
Listed(S) == CHOOSE list \in [1 .. Cardinality(S) -> S] : Range(list) = S

Init ==
  /\ cfg \in [idempotent : BOOLEAN, rt : RetryPolicies,
              spec : 0 .. MaxSpec, hostID : {None} \cup {CHOOSE h \in Hosts : TRUE},
              nonLocal : BOOLEAN, replicas : Replicas]
  /\ Pinned => cfg.replicas = <<>>           \* the policy is not asked
  /\ cfg.replicas = <<>> => ~cfg.nonLocal    \* makes no difference
  /\ up = Hosts /\ flaps = 0
  /\ lists = [t \in 0 .. MaxTier |-> Listed({h \in Hosts : Tier[h] = t})]
  /\ it = Pick(cfg.replicas)
  /\ attempts = 0
  /\ pc = [r \in Runs |-> IF r = 0 THEN "start" ELSE "off"]
  /\ host = [r \in Runs |-> None]
  /\ out = [r \in Runs |-> "none"]
  /\ failed = [r \in Runs |-> FALSE]
  /\ seen = [r \in Runs |-> 0]
  /\ results = "none" /\ ctxDone = FALSE /\ spawned = 0 /\ answer = "none"
  /\ sent = 0 /\ tried = {}

-------------------------------------------------------------------------------
(* The nodes: their state, and then what the policy is told of it *)

SetState(h) ==
  /\ flaps < MaxFlaps[cfg.rt]
  /\ flaps' = flaps + 1
  /\ up' = IF h \in up THEN up \ {h} ELSE up \cup {h}
  /\ UNCHANGED <<cfg, lists, it, attempts, runVars, callVars, histVars>>

Notify(h) ==
  /\ lists' = IF h \in up THEN HostUp(lists, h) ELSE HostDown(lists, h)
  /\ lists' # lists
  /\ UNCHANGED <<cfg, up, flaps, it, attempts, runVars, callVars, histVars>>

-------------------------------------------------------------------------------
(* do *)

\* What a call of hostIter returns, the one-host iterator of a pinned request or
\* the policy's: a set of one result.
hostIter ==
  IF Pinned
    THEN {[host |-> IF it.picked THEN None ELSE cfg.hostID,
           it |-> [it EXCEPT !.picked = TRUE]]}
    ELSE UNION {NextHost(it, up, cfg.nonLocal, plan) :
                  plan \in {roundRobbin(Shift, lists)}}

Set(f, r, v) == [f EXCEPT ![r] = v]

\* What do returns when the iterator has ended: lastErr, or ErrNoConnections.
NoMoreHosts(err) == IF err THEN "error" ELSE "noconn"

\* selectedHost = hostIter(), and the loop's condition.
Advance(r, err) ==
  \E n \in hostIter :
    /\ it' = n.it
    /\ host' = Set(host, r, n.host)
    /\ IF n.host # None
         THEN pc' = Set(pc, r, "try") /\ out' = Set(out, r, "none")
         ELSE pc' = Set(pc, r, "return") /\ out' = Set(out, r, NoMoreHosts(err))

Begin(r) ==
  /\ pc[r] = "start"
  /\ Advance(r, FALSE)
  /\ UNCHANGED <<cfg, nodeVars, attempts, failed, seen, callVars, histVars>>

\* The host is down, its pool is gone, or no connection of the pool is free.
Skip(r) ==
  /\ pc[r] = "try"
  /\ Advance(r, failed[r])
  /\ UNCHANGED <<cfg, nodeVars, attempts, failed, seen, callVars, histVars>>

\* attemptQuery, up to the wait: a request with a context that is done is
\* refused.
MaySend == ~ctxDone

Send(r) ==
  /\ pc[r] = "try" /\ host[r] \in up
  /\ pc' = Set(pc, r, "sent")
  /\ IF MaySend
       THEN sent' = sent + 1 /\ tried' = tried \cup {host[r]} /\ UNCHANGED out
       ELSE out' = Set(out, r, "ctx") /\ UNCHANGED histVars
  /\ UNCHANGED <<cfg, nodeVars, it, attempts, host, failed, seen, callVars>>

\* do returns on a success, on a context that is done, for a request that is not
\* idempotent, and without a policy.
Final(o) == o \in {"ok", "ctx"} \/ ~cfg.idempotent \/ cfg.rt = "none"

\* A run ends with outcome o.
Ends(r, o) ==
  /\ pc' = Set(pc, r, "return")
  /\ out' = Set(out, r, IF o \in {"ok", "ctx"} THEN o ELSE "error")

\* execute returns, and the attempt is counted.
Respond(r, o) ==
  /\ pc[r] = "sent"
  /\ o = "ctx" => ctxDone
  /\ out[r] = "ctx" => o = "ctx"
  /\ attempts' = attempts + 1
  /\ \/ Final(o) /\ Ends(r, o)
     \/ ~Final(o) /\ pc' = Set(pc, r, "responded") /\ out' = Set(out, r, o)
  /\ UNCHANGED <<cfg, nodeVars, it, host, failed, seen, callVars, histVars>>

\* rt.Attempt reads the number of attempts.
Attempt(r) ==
  /\ pc[r] = "responded"
  /\ seen' = Set(seen, r, attempts)
  /\ pc' = Set(pc, r, "retry")
  /\ UNCHANGED <<cfg, nodeVars, it, attempts, host, out, failed, callVars, histVars>>

MutAttemptsReached(r) == seen[r] > NumRetries + 1
AttemptsReached(r) == seen[r] > NumRetries

GetRetryType(err) ==
  IF cfg.rt = "simple" THEN "RetryNextHost"
  ELSE CASE err = "alive" -> "Retry"
         [] err = "acked" -> "Ignore"
         [] err = "dead" -> "Rethrow"
         [] OTHER -> "RetryNextHost"

\* The rest of the loop's body.  The next host is taken even if no attempt is
\* left.
Retry(r) ==
  LET type == GetRetryType(out[r])
      stop == AttemptsReached(r) \/ type \in {"Ignore", "Rethrow"}
  IN
  /\ pc[r] = "retry"
  /\ failed' = Set(failed, r, failed[r] \/ ~stop)
  /\ seen' = Set(seen, r, 0)
  /\ \/ /\ type = "RetryNextHost" /\ ~stop
        /\ Advance(r, TRUE)
     \/ /\ type = "RetryNextHost" /\ stop
        /\ \E n \in hostIter : it' = n.it /\ host' = Set(host, r, n.host)
        /\ Ends(r, "error")
     \/ /\ type # "RetryNextHost" /\ stop
        /\ Ends(r, IF type = "Ignore" THEN "ok" ELSE "error")
        /\ UNCHANGED <<it, host>>
     \/ /\ type = "Retry" /\ ~stop
        /\ pc' = Set(pc, r, "try")
        /\ out' = Set(out, r, "none")
        /\ UNCHANGED <<it, host>>
  /\ UNCHANGED <<cfg, nodeVars, attempts, callVars, histVars>>

-------------------------------------------------------------------------------
(* run, speculate and executeQuery *)

\* The goroutine, or the call of do, is over; its locals are gone.
Done(r) ==
  /\ pc' = Set(pc, r, "done")
  /\ host' = Set(host, r, None)
  /\ out' = Set(out, r, "none")
  /\ failed' = Set(failed, r, FALSE)
  /\ UNCHANGED seen

\* The host a request is pinned to is not in the ring.
UnknownHost ==
  /\ Pinned /\ pc[0] = "start"
  /\ answer' = "noconn"
  /\ Done(0)
  /\ UNCHANGED <<cfg, nodeVars, it, attempts, results, ctxDone, spawned, histVars>>

\* Without speculation do returns to the caller.
ReturnDirect(r) ==
  /\ pc[r] = "return" /\ ~Speculative
  /\ answer' = out[r]
  /\ Done(r)
  /\ UNCHANGED <<cfg, nodeVars, it, attempts, results, ctxDone, spawned, histVars>>

\* run: the result goes to the channel, or the context is done.
Publish(r) ==
  /\ pc[r] = "return" /\ Speculative
  /\ results = "none"
  /\ results' = out[r]
  /\ Done(r)
  /\ UNCHANGED <<cfg, nodeVars, it, attempts, ctxDone, spawned, answer, histVars>>

MutDiscardable == FALSE
Discardable == ctxDone

Discard(r) ==
  /\ pc[r] = "return" /\ Speculative
  /\ Discardable
  /\ Done(r)
  /\ UNCHANGED <<cfg, nodeVars, it, attempts, callVars, histVars>>

\* The ticker starts one more execution.
Speculate(r) ==
  /\ Speculative /\ answer = "none"
  /\ r = spawned + 1 /\ r <= cfg.spec
  /\ spawned' = r
  /\ pc' = Set(pc, r, "start")
  /\ UNCHANGED <<cfg, nodeVars, it, attempts, host, out, failed, seen, results,
                 ctxDone, answer, histVars>>

\* The first result, or the context's error, is returned; cancel is deferred.
Receive ==
  /\ Speculative /\ answer = "none"
  /\ \/ results # "none" /\ answer' = results /\ results' = "none"
     \/ ctxDone /\ answer' = "ctx" /\ UNCHANGED results
  /\ ctxDone' = TRUE
  /\ UNCHANGED <<cfg, nodeVars, it, attempts, runVars, spawned, histVars>>

\* The caller's context is cancelled or times out.
Cancel ==
  /\ answer = "none" /\ ~ctxDone
  /\ ctxDone' = TRUE
  /\ UNCHANGED <<cfg, nodeVars, it, attempts, runVars, results, spawned, answer, histVars>>

do(r) ==
  \/ Begin(r) \/ Skip(r) \/ Send(r) \/ Attempt(r) \/ Retry(r)
  \/ \E o \in Errors \cup {"ok", "ctx"} : Respond(r, o)
run(r) == ReturnDirect(r) \/ Publish(r) \/ Discard(r)

Next ==
  \/ \E h \in Flaky : SetState(h) \/ Notify(h)
  \/ \E r \in Runs : do(r) \/ run(r) \/ Speculate(r)
  \/ UnknownHost \/ Receive \/ Cancel

Spec == Init /\ [][Next]_vars

\* Goroutines run, and a request is answered: by its timeout at the latest.
FairSpec ==
  /\ Spec
  /\ WF_vars(Receive) /\ \A r \in Runs : WF_vars(do(r) \/ run(r))

-------------------------------------------------------------------------------
(* Properties *)

\* A request that is not idempotent is sent at most once: it is neither retried nor
\* executed speculatively.  The runs of another share one count of attempts, and read it
\* only after it has been raised: all of them together send it at most NumRetries times
\* more than there are runs.
AttemptsBound ==
  /\ ~cfg.idempotent => sent <= 1
  /\ sent <= 1 + spawned + IF cfg.rt = "none" THEN 0 ELSE NumRetries

\* Unless the policy asks for a retry on the same host, every execution and every retry
\* goes to a host that was not tried before, whichever run it is in and although hosts
\* go down, come up and change places in the lists.  While no node changes its state the
\* iterator ends only when every host has been offered to some run: no tier and no
\* replica is forgotten.
HostsInTurn ==
  /\ cfg.rt # "downgrading" => Cardinality(tried) = sent
  /\ \A r \in Runs :
       pc[r] = "return" /\ host[r] = None /\ flaps = 0 /\ ~Pinned => it.used = Hosts

\* The caller gets an answer, and every goroutine that was started ends: none
\* is left blocked on the channel whose reader has gone.
RunsEnd == <>[](answer # "none" /\ \A r \in Runs : pc[r] \in {"off", "done"})

===============================================================================
