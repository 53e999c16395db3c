-------------------------------- MODULE MCShared ------------------------------
(***************************************************************************)
(* The objects that goroutines share, for TLC: the stream ids of a         *)
(* connection (Streams), the writers of its socket (ConnWriters), the      *)
(* refresh debouncer of a session (RefreshDebouncer) and the next page of  *)
(* an iterator (Paging).  They do not touch each other, so a behaviour is  *)
(* one of theirs; the others rest.                                         *)
(***************************************************************************)
EXTENDS Streams, ConnWriters, RefreshDebouncer, TLC

CONSTANTS
  w1, w2, w3,                             \* ConnWriters
  Results, Tables, Quarters, Usages       \* Paging

FrameLengths == w1 :> 1 @@ w2 :> 2 @@ w3 :> 3

VARIABLES
  part,           \* "streams", "writers", "debouncer" or "paging"
  pages, columns, quarters, usage, iter, once, oncea, fetched, asked, async, consumer,
  rows, cols, valid

pagingVars ==
  <<pages, columns, quarters, usage, iter, once, oncea, fetched, asked, async, consumer,
    rows, cols, valid>>

P == INSTANCE Paging WITH caller <- consumer

-------------------------------------------------------------------------------
(* Results of one to three pages, some of them empty, and one row cut short;  *)
(* columns that are no tuples and a tuple of two.                             *)

Page(n) == [rows |-> n, cut |-> 0]
MCResults ==
  {<<Page(0)>>, <<Page(2)>>, <<Page(2), Page(0), Page(1)>>, <<Page(3), Page(2)>>,
   <<Page(0), Page(1)>>, <<Page(2), [rows |-> 2, cut |-> 2]>>}
MCTables == {<<0>>, <<0, 2>>, <<0, 0>>}
TupleFirst == {<<2, 0>>}
MCUsages ==
  [api : {"Scan", "SliceMap"}, auto : BOOLEAN, nils : {{}}]
    \cup [api : {"Scanner"}, auto : BOOLEAN, nils : {{}, {1}}]

-------------------------------------------------------------------------------
\* A part that rests has one initial state.
Rests(p, inputs) == part # p => inputs

PagingIdle ==
  /\ pages = <<Page(0)>> /\ quarters = 0
  /\ columns = CHOOSE t \in Tables : TRUE
  /\ usage = CHOOSE u \in Usages : TRUE

SharedInit ==
  /\ part \in {"streams", "writers", "debouncer", "paging"}
  /\ Init
  /\ WritersInit /\ Rests("writers", ~coalesce)
  /\ DebouncerInit
  /\ P!PagingInit /\ Rests("paging", PagingIdle)

SharedNext ==
  \/ part = "streams" /\ Next /\ UNCHANGED <<part, writerVars, debouncerVars, pagingVars>>
  \/ part = "writers" /\ WritersNext /\ UNCHANGED <<part, vars, debouncerVars, pagingVars>>
  \/ part = "debouncer" /\ DebouncerNext /\ UNCHANGED <<part, vars, writerVars, pagingVars>>
  \/ part = "paging" /\ P!PagingNext /\ UNCHANGED <<part, vars, writerVars, debouncerVars>>

\* The fairness of each module's FairSpec, for the part that runs.
SharedSpec ==
  /\ SharedInit /\ [][SharedNext]_<<part, vars, writerVars, debouncerVars, pagingVars>>
  /\ \A p \in Procs : WF_vars(part = "streams" /\ Step(p))
  /\ WF_writerVars(part = "writers" /\ writeFlusherImpl)
  /\ \A w \in Writers :
       /\ SF_writerVars(part = "writers" /\ (Acquire(w) \/ Quit(w) \/ Enqueue(w)))
       /\ WF_writerVars(part = "writers" /\ (WriteByte(w) \/ WriteEnds(w)))
  /\ WF_debouncerVars(part = "debouncer" /\ flusher)
  /\ WF_debouncerVars(part = "debouncer" /\ TimerFires)
  /\ WF_debouncerVars(part = "debouncer" /\ (CloseQuit \/ StopReturn))
  /\ WF_pagingVars(part = "paging" /\ P!Consumer)
  /\ WF_pagingVars(part = "paging" /\ P!Background)

\* The iterator alone.
PagingStart == SharedInit /\ part = "paging"

-------------------------------------------------------------------------------
\* Every writeContext returns, also when others' writes fail (ConnWriters).
AllReturn == part = "writers" => WritersReturn

\* A consumer reads every row once, in order, over pages that a goroutine may
\* prefetch (Paging).
RowsExact == part = "paging" => P!RowsExact

\* A consumer of an Iter never waits for a page for ever (Paging).
PagingEnds == part = "paging" => P!PagingEnds

\* Scanner.Scan: "Scan copies the current row's columns into dest." (Paging)
ScannerCopiesRow == P!ScannerCopiesRow

===============================================================================
