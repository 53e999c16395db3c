----------------------------- MODULE ContextWriter ----------------------------
(***************************************************************************)
(* What contextWriter (conn.go) promises its callers: a frame reaches the  *)
(* socket in one piece or is cut short, writeContext returns the number of *)
(* bytes of the frame that were written, without an error exactly if these *)
(* are all of them, and nothing of a frame is written after the call has   *)
(* returned.                                                               *)
(***************************************************************************)
EXTENDS Naturals

CONSTANTS
  Writers,        \* calls of writeContext, each with a frame of its own
  Length,         \* Length[w]: the number of bytes of w's frame
  None

VARIABLES
  sent,           \* sent[w]: the bytes of w's frame written to the socket
  last,           \* whose frame the last byte written belongs to
  result          \* what the call returned

Pending == [done |-> FALSE, n |-> 0, ok |-> FALSE]

Init ==
  /\ sent = [w \in Writers |-> 0]
  /\ last = None
  /\ result = [w \in Writers |-> Pending]

\* The next byte of a frame is written, right after the one before it.
Send(w) ==
  /\ ~result[w].done
  /\ sent[w] < Length[w]
  /\ sent[w] = 0 \/ last = w
  /\ sent' = [sent EXCEPT ![w] = @ + 1]
  /\ last' = w
  /\ UNCHANGED result

Return(w) ==
  /\ ~result[w].done
  /\ result' = [result EXCEPT ![w] =
                  [done |-> TRUE, n |-> sent[w], ok |-> sent[w] = Length[w]]]
  /\ UNCHANGED <<sent, last>>

Next == \E w \in Writers : Send(w) \/ Return(w)

Spec == Init /\ [][Next]_<<sent, last, result>>

===============================================================================
