---------------------------------- MODULE Paging ----------------------------------
(***************************************************************************)
(* Iter and its helpers (session.go, helpers.go): one consumer reads the   *)
(* rows of a result, page after page, by Scan, by a Scanner or by MapScan  *)
(* and SliceMap, while the next page may be fetched in the background.  A  *)
(* cell is named by <<row, column>>; a row read is the sequence of values  *)
(* its destinations hold, <<row, column, element>>, a tuple's elements     *)
(* having a destination each.                                              *)
(***************************************************************************)
EXTENDS Integers, Sequences, SequencesExt

CONSTANTS Results,       \* results: sequences of pages, [rows, cut]: the row that is cut short or 0
          Tables,        \* the columns: sequences of widths, 0 for a column that is no tuple
          Quarters,      \* Query.Prefetch, in quarters
          Usages         \* [api : {"Scan", "Scanner", "SliceMap"}, auto : BOOLEAN,
                         \*  nils : the destinations that are nil]

VARIABLES pages, columns, quarters, usage,
          iter,          \* the Iter: [page, pos, err, next], page = 0: none yet
          once,          \* nextIter of each page: what fetches it: "idle", "running", "done"
          oncea,         \* nextIter of each page: fetchAsync was called
          fetched,       \* nextIter.next of each page: "none", "ok", "error"
          asked,         \* times each page was requested from the database
          async,         \* background fetches: pages whose goroutine has to start, or runs
          caller,        \* the consumer: call, wait, row, closed, panic
          rows,          \* the rows the consumer has read
          cols, valid    \* iterScanner

pagingVars == <<pages, columns, quarters, usage, iter, once, oncea, fetched, asked, async,
                caller, rows, cols, valid>>

NoNext == 0
Pages == 1..Len(pages)

\* executeQuery's Iter of page p: next is the page it continues with, if there is one and
\* auto paging is on.
MutIterOf(p, outcome) ==
  [page |-> p, pos |-> iter.pos, err |-> outcome = "error",
   next |-> IF outcome = "ok" /\ p < Len(pages) /\ usage.auto THEN p + 1 ELSE NoNext]
IterOf(p, outcome) ==
  [page |-> p, pos |-> 0, err |-> outcome = "error",
   next |-> IF outcome = "ok" /\ p < Len(pages) /\ usage.auto THEN p + 1 ELSE NoNext]
numRows == IF iter.err \/ iter.page = 0 THEN 0 ELSE pages[iter.page].rows

\* Where the next page is prefetched: int((1 - prefetch) * numRows), at least 1.
prefetchPos == LET n == ((4 - quarters) * numRows) \div 4 IN IF n < 1 THEN 1 ELSE n

PagingInit ==
  /\ pages \in Results /\ columns \in Tables /\ quarters \in Quarters /\ usage \in Usages
  /\ iter = [page |-> 0, pos |-> 0, err |-> FALSE, next |-> 1]
  /\ once = [p \in Pages |-> "idle"] /\ oncea = [p \in Pages |-> FALSE]
  /\ fetched = [p \in Pages |-> "none"] /\ asked = [p \in Pages |-> 0]
  /\ async = {} /\ caller = "call" /\ rows = <<>> /\ cols = <<>> /\ valid = FALSE

inputVars == <<pages, columns, quarters, usage>>
fetchVars == <<once, oncea, fetched, asked, async>>

--------------------------------------------------------------------------------
(* nextIter *)

\* fetch, in the consumer or in fetchAsync's goroutine: once.Do runs the query once, and
\* whoever comes second waits for it.
start(p) ==
  /\ once[p] = "idle"
  /\ once' = [once EXCEPT ![p] = "running"]
  /\ asked' = [asked EXCEPT ![p] = @ + 1]

\* The query of page p ends, with the page or with an error.
executeQuery(p) ==
  /\ once[p] = "running"
  /\ once' = [once EXCEPT ![p] = "done"]
  /\ \E outcome \in {"ok", "error"} : fetched' = [fetched EXCEPT ![p] = outcome]
  /\ async' = async \ {p}
  /\ UNCHANGED <<inputVars, iter, oncea, asked, caller, rows, cols, valid>>

\* The goroutine of fetchAsync starts; if the consumer was faster it has nothing to do.
AsyncStarts(p) ==
  /\ p \in async /\ once[p] # "running"
  /\ \/ start(p) /\ UNCHANGED async
     \/ once[p] = "done" /\ async' = async \ {p} /\ UNCHANGED <<once, asked>>
  /\ UNCHANGED <<inputVars, iter, oncea, fetched, caller, rows, cols, valid>>

fetchAsync(p) ==
  /\ oncea' = [oncea EXCEPT ![p] = TRUE]
  /\ async' = IF oncea[p] THEN async ELSE async \cup {p}

--------------------------------------------------------------------------------
(* Reading a row *)

Width(w) == IF w = 0 THEN 1 ELSE w
actualColCount == FoldLeft(LAMBDA n, w : n + Width(w), 0, columns)
RowAt(page, pos) ==
  FoldLeft(LAMBDA n, p : n + p.rows, 0, SubSeq(pages, 1, page - 1)) + pos + 1
Cells(r) == [j \in DOMAIN columns |-> <<r, j>>]
Values(cell, w) == IF w = 0 THEN <<cell \o <<0>>>> ELSE [e \in 1..w |-> cell \o <<e>>]
Blank == <<>>
OutOfRange == <<-1, -1, -1>>

\* scanColumn: how many destinations the column takes, and what they hold.  A cell read as
\* another column's type leaves something else.
scanColumn(cell, j, isNil) ==
  IF isNil THEN <<Blank>>
  ELSE IF cell[2] = j THEN Values(cell, columns[j])
  ELSE [e \in 1..Width(columns[j]) |-> <<0, 0, 0>>]

\* Iter.Scan's loop, and iterScanner.Scan's over the cells that Next read, which it finds
\* by the position of the destination (past the last cell: index out of range).
Fill(cells, byPosition) ==
  LET scan[j \in 0..Len(columns)] ==
        IF j = 0 THEN <<>>
        ELSE LET dest == scan[j - 1]
                 i == Len(dest)
                 at == IF byPosition THEN i + 1 ELSE j
             IN IF at > Len(cells) THEN Append(dest, OutOfRange)
                ELSE dest \o scanColumn(cells[at], j, (i + 1) \in usage.nils)
  IN scan[Len(columns)]

\* What the consumer finds in its destinations; the ones not reached keep what they had.
Filled(cells, byPosition) ==
  LET dest == Fill(cells, byPosition)
  IN [i \in 1..actualColCount |-> IF i \in usage.nils \/ i > Len(dest) THEN Blank ELSE dest[i]]

--------------------------------------------------------------------------------
(* The consumer *)

\* The page is used up: fetch the next one, or the end.
NeedsPage == ~iter.err /\ iter.pos >= numRows /\ iter.next # NoNext
AtEnd == iter.err \/ (iter.pos >= numRows /\ iter.next = NoNext)

fetch ==
  /\ caller = "call" /\ NeedsPage
  /\ \/ start(iter.next) /\ UNCHANGED async
     \/ once[iter.next] # "idle" /\ UNCHANGED <<once, asked, async>>
  /\ caller' = "wait"
  /\ UNCHANGED <<inputVars, iter, oncea, fetched, rows, cols, valid>>

MutNextPage ==
  /\ caller = "wait" /\ once[iter.next] = "done" /\ fetched[iter.next] = "ok"
  /\ iter' = IterOf(iter.next, fetched[iter.next])
  /\ caller' = "call"
  /\ UNCHANGED <<inputVars, fetchVars, rows, cols, valid>>

\* once.Do returns and the consumer goes on with the next page's Iter.
NextPage ==
  /\ caller = "wait" /\ once[iter.next] = "done"
  /\ iter' = IterOf(iter.next, fetched[iter.next])
  /\ caller' = "call"
  /\ UNCHANGED <<inputVars, fetchVars, rows, cols, valid>>

Cut == pages[iter.page].cut = iter.pos + 1

\* Iter.Scan, and MapScan, which scans into a destination for each column and element.
Scan ==
  /\ caller = "call" /\ usage.api \in {"Scan", "SliceMap"} /\ ~NeedsPage /\ ~AtEnd
  /\ IF iter.next # NoNext /\ iter.pos >= prefetchPos THEN fetchAsync(iter.next)
     ELSE UNCHANGED <<oncea, async>>
  /\ IF Cut THEN iter' = [iter EXCEPT !.err = TRUE] /\ UNCHANGED rows
     ELSE /\ iter' = [iter EXCEPT !.pos = @ + 1]
          /\ rows' = Append(rows, Filled(Cells(RowAt(iter.page, iter.pos)), FALSE))
  /\ UNCHANGED <<inputVars, once, fetched, asked, caller, cols, valid>>

\* iterScanner.Next, which never prefetches.
Next ==
  /\ caller = "call" /\ usage.api = "Scanner" /\ ~NeedsPage /\ ~AtEnd
  /\ IF Cut THEN iter' = [iter EXCEPT !.err = TRUE] /\ UNCHANGED <<cols, valid, caller>>
     ELSE /\ iter' = [iter EXCEPT !.pos = @ + 1]
          /\ cols' = Cells(RowAt(iter.page, iter.pos)) /\ valid' = TRUE /\ caller' = "row"
  /\ UNCHANGED <<inputVars, fetchVars, rows>>

\* iterScanner.Scan.
ScannerScan ==
  /\ caller = "row" /\ valid
  /\ rows' = Append(rows, Filled(cols, TRUE))
  /\ valid' = FALSE
  /\ caller' = IF Contains(Fill(cols, TRUE), OutOfRange) THEN "panic" ELSE "call"
  /\ UNCHANGED <<inputVars, fetchVars, iter, cols>>

\* Scan or Next returns false and the consumer calls Close or Err; SliceMap returns no rows
\* with an error.  Without auto paging it queries again from PageState.
Close ==
  /\ caller = "call" /\ ~NeedsPage /\ AtEnd
  /\ IF ~usage.auto /\ ~iter.err /\ iter.page < Len(pages)
     THEN /\ iter' = [page |-> iter.page, pos |-> numRows, err |-> FALSE, next |-> iter.page + 1]
          /\ UNCHANGED <<caller, rows>>
     ELSE /\ caller' = "closed" /\ UNCHANGED iter
          /\ rows' = IF usage.api = "SliceMap" /\ iter.err THEN <<>> ELSE rows
  /\ UNCHANGED <<inputVars, fetchVars, cols, valid>>

Consumer == fetch \/ NextPage \/ Scan \/ Next \/ ScannerScan \/ Close
Background == \E p \in Pages : executeQuery(p) \/ AsyncStarts(p)

PagingNext == Consumer \/ Background

\* The consumer calls until it is told the end, goroutines run, and queries end (they have
\* a timeout).
FairSpec == PagingInit /\ [][PagingNext]_pagingVars /\ WF_pagingVars(Consumer) /\ WF_pagingVars(Background)

--------------------------------------------------------------------------------
RowWanted(r) ==
  LET all == FlattenSeq([j \in DOMAIN columns |-> Values(<<r, j>>, columns[j])])
  IN [i \in DOMAIN all |-> IF i \in usage.nils THEN Blank ELSE all[i]]
Total == RowAt(Len(pages), pages[Len(pages)].rows) - 1

\* The consumer reads the rows of the result in order, each once, every destination with
\* the value of its column, across empty pages and whichever of the consumer and the
\* prefetch fetches a page; and it is told the end without an error only after the last
\* row.  Each page is requested from the database once, though both may ask for it.
RowsExact ==
  /\ Len(rows) <= Total
  /\ \A r \in DOMAIN rows : rows[r] = RowWanted(r)
  /\ (caller = "closed" /\ ~iter.err) => Len(rows) = Total
  /\ \A p \in Pages : asked[p] <= 1

\* The comment of Scanner.Scan: "Scan copies the current row's columns into dest."
ScannerCopiesRow ==
  usage.api = "Scanner" => caller # "panic" /\ \A r \in DOMAIN rows : rows[r] = RowWanted(r)

\* A consumer that goes on calling is told the end: it never waits for a page for ever.
PagingEnds == <>(caller = "closed")
================================================================================
