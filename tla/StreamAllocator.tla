--------------------------- MODULE StreamAllocator ---------------------------
(***************************************************************************)
(* What internal/streams.IDGenerator promises to a connection: a stream id *)
(* is granted to one request at a time and stream 0 is granted to nobody.  *)
(* Streams implements this specification; Conn uses its actions in place   *)
(* of the bit-set algorithm.                                               *)
(***************************************************************************)
EXTENDS Naturals

CONSTANT StreamIDs          \* every id the protocol knows, 0 included

VARIABLE granted            \* the ids that some request holds

\* New: stream 0 is reserved, everything else is free.
Init == granted = {}

\* The ids that GetStream can still return.
Free == StreamIDs \ ({0} \cup granted)

\* GetStream returned s, true.
Grant(s) ==
  /\ s \in Free
  /\ granted' = granted \cup {s}

\* Clear(s) returned true.
Release(s) ==
  /\ s \in granted
  /\ granted' = granted \ {s}

Next == \E s \in StreamIDs : Grant(s) \/ Release(s)

Spec == Init /\ [][Next]_granted

=============================================================================
