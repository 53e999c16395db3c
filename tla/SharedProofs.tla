----------------------------- MODULE SharedProofs ----------------------------
(***************************************************************************)
(* Proofs about Streams, for any number of goroutines, words and bits, and *)
(* about RefreshDebouncer, for any number of callers.                      *)
(*                                                                         *)
(* Streams.  The inductive invariant IInv is reached in three layers:      *)
(* types and what the locals of a call satisfy (LocalOK); who owns each    *)
(* bit (OwnInv: a set bit is the reserved one, a granted one, or in the    *)
(* hands of exactly one goroutine); and the counter (Counting: it exceeds  *)
(* the granted streams by the goroutines inside Clear).  SeenInv, which    *)
(* rests on it, says how far a scan of GetStream has come.                 *)
(*                                                                         *)
(* RefreshDebouncer.  FreshResult is not inductive: the listeners the      *)
(* flusher has taken (cur) must be fresh before they get a result, and     *)
(* stay apart from those who came since (broadcaster).  NoLostWakeup needs *)
(* in addition that nobody waits in neither of the two sets.               *)
(***************************************************************************)
EXTENDS Streams, RefreshDebouncer, FiniteSetTheorems, TLAPS

\* The sizes New computes are positive.

LEMMA SizeFacts ==
  /\ NumBuckets \in Nat /\ NumBuckets > 0
  /\ BucketBits \in Nat /\ BucketBits > 0
  /\ NumStreams \in Nat /\ NumStreams > 0
BY SizeAssumption, SMT DEF NumStreams

\* Multiplication is monotone; the provers need it for offsets into the bit set.
LEMMA TimesMonotone ==
  ASSUME NEW a \in Nat, NEW b \in Nat, NEW c \in Nat, a >= b
  PROVE  a * c >= b * c
OBVIOUS

\* streamFromBucket yields a stream id, and bucketOffset and streamOffset lead
\* back to the word and the bit it was made from.
LEMMA StreamOfPosition ==
  ASSUME NEW b \in Buckets, NEW k \in Positions
  PROVE  /\ streamFromBucket(b, k) \in StreamIDs
         /\ bucketOffset(streamFromBucket(b, k)) = b
         /\ streamOffset(streamFromBucket(b, k)) = streamOffset(k)
<1>1. b \in Nat /\ k \in Nat /\ b <= NumBuckets - 1 /\ k <= BucketBits - 1
  BY SizeFacts DEF Buckets, Positions
<1>2. b * BucketBits + k < NumBuckets * BucketBits
  <2>1. b * BucketBits <= (NumBuckets - 1) * BucketBits
    BY <1>1, SizeFacts
  <2> QED BY <1>1, <2>1, SizeFacts
<1>3. (b * BucketBits + k) \div BucketBits = b /\ (b * BucketBits + k) % BucketBits = k
  BY <1>1, SizeFacts
<1>4. k % BucketBits = k
  BY <1>1, SizeFacts
<1> QED
  BY <1>1, <1>2, <1>3, <1>4, SizeFacts
  DEF streamFromBucket, bucketOffset, streamOffset, StreamIDs, NumStreams

\* Every stream id is the one of its own word and bit.
LEMMA PositionOfStream ==
  ASSUME NEW s \in StreamIDs
  PROVE  /\ bucketOffset(s) \in Buckets
         /\ streamOffset(s) \in Positions
         /\ s % BucketBits \in Positions
         /\ s = streamFromBucket(bucketOffset(s), s % BucketBits)
<1>1. s \in Nat /\ s < NumBuckets * BucketBits
  BY SizeFacts DEF StreamIDs, NumStreams
<1>2. s % BucketBits \in 0 .. BucketBits - 1 /\ s \div BucketBits \in Nat
      /\ s = (s \div BucketBits) * BucketBits + (s % BucketBits)
  BY <1>1, SizeFacts
<1>3. s \div BucketBits < NumBuckets
  <2>1. SUFFICES ASSUME s \div BucketBits >= NumBuckets PROVE FALSE
    BY <1>2, SizeFacts
  <2>2. (s \div BucketBits) * BucketBits >= NumBuckets * BucketBits
    BY <2>1, <1>2, SizeFacts, TimesMonotone
  <2> QED BY <2>2, <1>1, <1>2, SizeFacts
<1> QED
  BY <1>1, <1>2, <1>3, SizeFacts
  DEF streamFromBucket, bucketOffset, streamOffset, Buckets, Positions

\* Two streams with the same word and bit are the same stream.
LEMMA SameBit ==
  ASSUME NEW s \in StreamIDs, NEW t \in StreamIDs,
         bucketOffset(s) = bucketOffset(t), streamOffset(s) = streamOffset(t)
  PROVE  s = t
<1>1. s % BucketBits = t % BucketBits
  BY PositionOfStream, SizeFacts DEF streamOffset, Positions
<1> QED BY <1>1, PositionOfStream

\* Setting the bit of position k in word b puts one stream in use.
LEMMA SetBit ==
  ASSUME streams \in [Buckets -> SUBSET Positions],
         NEW b \in Buckets, NEW k \in Positions,
         streams' = [streams EXCEPT ![b] = streams[b] \cup {streamOffset(k)}]
  PROVE  InUse' = InUse \cup {streamFromBucket(b, k)}
<1> DEFINE t == streamFromBucket(b, k)
<1>1. t \in StreamIDs /\ bucketOffset(t) = b /\ streamOffset(t) = streamOffset(k)
  BY StreamOfPosition
<1>2. ASSUME NEW s \in StreamIDs
      PROVE  isSet(s)' <=> isSet(s) \/ s = t
  <2>1. bucketOffset(s) \in Buckets
    BY PositionOfStream
  <2>2. isSet(s)' <=> streamOffset(s) \in streams'[bucketOffset(s)]
    BY DEF isSet
  <2>3. CASE bucketOffset(s) # b
    BY <1>1, <2>1, <2>2, <2>3 DEF isSet
  <2>4. CASE bucketOffset(s) = b
    <3>1. streamOffset(s) = streamOffset(t) => s = t
      BY <1>1, <2>4, SameBit
    <3> QED BY <1>1, <2>1, <2>2, <2>4, <3>1 DEF isSet
  <2> QED BY <2>3, <2>4
<1> QED BY <1>1, <1>2 DEF InUse

\* Clearing the bit of stream t takes that stream, and no other, out of use.
LEMMA ClearBit ==
  ASSUME streams \in [Buckets -> SUBSET Positions], NEW t \in StreamIDs,
         streams' = [streams EXCEPT ![bucketOffset(t)] =
                       streams[bucketOffset(t)] \ {streamOffset(t)}]
  PROVE  InUse' = InUse \ {t}
<1>1. ASSUME NEW s \in StreamIDs
      PROVE  isSet(s)' <=> isSet(s) /\ s # t
  <2>1. bucketOffset(s) \in Buckets
    BY PositionOfStream
  <2>2. isSet(s)' <=> streamOffset(s) \in streams'[bucketOffset(s)]
    BY DEF isSet
  <2>3. CASE bucketOffset(s) # bucketOffset(t)
    BY <2>1, <2>2, <2>3 DEF isSet
  <2>4. CASE bucketOffset(s) = bucketOffset(t)
    <3>1. streamOffset(s) = streamOffset(t) => s = t
      BY <2>4, SameBit
    <3> QED BY <2>1, <2>2, <2>4, <3>1 DEF isSet
  <2> QED BY <2>3, <2>4
<1> QED BY <1>1 DEF InUse

------------------------------------------------------------------------------
(* The inductive invariant *)

\* What the locals of a call are known to satisfy between two atomic steps.
LocalOK ==
  \A p \in Procs :
    /\ pc[p] \in {"loadBucket", "casStream", "reloadBucket"} => i[p] < NumBuckets
    /\ pc[p] = "casStream" => streamOffset(j[p]) \notin bucket[p]
    /\ pc[p] = "casClear" => streamOffset(stream[p]) \in bucket[p]

\* The word GetStream visits next is a word of the bit set.
LEMMA PosType ==
  ASSUME TypeOK, NEW p \in Procs
  PROVE  pos(p) \in Buckets
<1>1. i[p] \in Nat /\ off[p] \in Nat
  BY SizeFacts DEF TypeOK, Buckets
<1> QED BY <1>1, SizeFacts DEF pos, Buckets

\* A scan of a word moves its own goroutine only: to a clear bit of the word, to
\* the next word, or to the answer that all of them are full.
LEMMA ScanType ==
  ASSUME TypeOK, NEW p \in Procs, NEW b \in SUBSET Positions, NEW from \in Positions,
         i[p] < NumBuckets, Scan(p, b, from)
  PROVE  /\ bucket' \in [Procs -> SUBSET Positions]
         /\ j' \in [Procs -> Positions]
         /\ i' \in [Procs -> 0 .. NumBuckets]
         /\ pc' \in [Procs -> Labels]
         /\ \A q \in Procs : q # p => /\ pc'[q] = pc[q] /\ i'[q] = i[q]
                                      /\ j'[q] = j[q] /\ bucket'[q] = bucket[q]
         /\ pc'[p] \in {"casStream", "loadBucket", "full"}
         /\ pc'[p] # "full" => i'[p] < NumBuckets
         /\ pc'[p] = "casStream" => streamOffset(j'[p]) \notin bucket'[p]
<1> DEFINE clear == {k \in Positions : k >= from /\ streamOffset(k) \notin b}
<1>1. i[p] \in Nat /\ i[p] + 1 \in 0 .. NumBuckets
  BY SizeFacts DEF TypeOK
<1>2. CASE \E k \in clear : /\ j' = [j EXCEPT ![p] = k]
                            /\ Goto(p, "casStream")
                            /\ UNCHANGED i
  BY <1>1, <1>2 DEF TypeOK, Scan, Goto, Labels
<1>3. CASE /\ i' = [i EXCEPT ![p] = @ + 1]
           /\ Goto(p, IF i[p] + 1 < NumBuckets THEN "loadBucket" ELSE "full")
           /\ UNCHANGED j
  BY <1>1, <1>3 DEF TypeOK, Scan, Goto, Labels
<1> QED BY <1>2, <1>3 DEF Scan

\* New establishes the types.
LEMMA InitType == Init => TypeOK /\ LocalOK
<1> SUFFICES ASSUME Init PROVE TypeOK /\ LocalOK
  OBVIOUS
<1>1. 0 \in Buckets /\ 0 \in Positions /\ 0 \in StreamIDs /\ NumBuckets - 1 \in Buckets
      /\ BucketBits - 1 \in Positions /\ 0 \in 0 .. NumBuckets
  BY SizeFacts DEF Buckets, Positions, StreamIDs
<1> QED BY <1>1 DEF Init, New, Reserved, TypeOK, LocalOK, Labels

\* TypeOK and LocalOK are preserved by every step.
LEMMA StepType ==
  ASSUME TypeOK, LocalOK, [Next]_vars
  PROVE  TypeOK' /\ LocalOK'
<1>1. ASSUME NEW p \in Procs, LoadOffset(p)
      PROVE  TypeOK' /\ LocalOK'
  BY <1>1 DEF LoadOffset, TypeOK, LocalOK, Goto, Labels, InUse
<1>2. ASSUME NEW p \in Procs, CASOffset(p)
      PROVE  TypeOK' /\ LocalOK'
  <2>1. NextOffset(off[p]) \in Buckets /\ 0 < NumBuckets /\ 0 \in 0 .. NumBuckets
    BY SizeFacts DEF TypeOK, NextOffset, Buckets
  <2> QED BY <1>2, <2>1 DEF CASOffset, TypeOK, LocalOK, Goto, Labels
<1>3. ASSUME NEW p \in Procs, LoadBucket(p)
      PROVE  TypeOK' /\ LocalOK'
  <2>1. streams[pos(p)] \in SUBSET Positions /\ 0 \in Positions /\ i[p] < NumBuckets
    BY <1>3, PosType, SizeFacts DEF TypeOK, LocalOK, LoadBucket, Positions
  <2>2. Scan(p, streams[pos(p)], 0)
    BY <1>3 DEF LoadBucket
  <2> QED BY Zenon, <1>3, <2>1, <2>2, ScanType DEF LoadBucket, TypeOK, LocalOK
<1>4. ASSUME NEW p \in Procs, CASStream(p)
      PROVE  TypeOK' /\ LocalOK'
  <2>1. pos(p) \in Buckets
    BY PosType
  <2>2. /\ streamFromBucket(pos(p), j[p]) \in StreamIDs
        /\ streamOffset(j[p]) \in Positions
    <3>1. j[p] \in Positions
      BY DEF TypeOK
    <3> QED BY <2>1, <3>1, StreamOfPosition, PositionOfStream
  <2> QED BY <1>4, <2>1, <2>2 DEF CASStream, TypeOK, LocalOK, Goto, Labels
<1>5. ASSUME NEW p \in Procs, ReloadBucket(p)
      PROVE  TypeOK' /\ LocalOK'
  <2>1. streams[pos(p)] \in SUBSET Positions /\ j[p] \in Positions /\ i[p] < NumBuckets
    BY <1>5, PosType, SizeFacts DEF TypeOK, LocalOK, ReloadBucket
  <2>2. Scan(p, streams[pos(p)], j[p])
    BY <1>5 DEF ReloadBucket
  <2> QED BY Zenon, <1>5, <2>1, <2>2, ScanType DEF ReloadBucket, TypeOK, LocalOK
<1>6. ASSUME NEW p \in Procs, Increment(p)
      PROVE  TypeOK' /\ LocalOK'
  BY <1>6 DEF Increment, TypeOK, LocalOK, Goto, Labels, locals
<1>7. ASSUME NEW p \in Procs, NEW s \in StreamIDs, Clear(p, s)
      PROVE  TypeOK' /\ LocalOK'
  <2>1. bucketOffset(s) \in Buckets
    BY PositionOfStream
  <2> QED BY <1>7, <2>1 DEF Clear, TryClear, TypeOK, LocalOK, Goto, Labels
<1>8. ASSUME NEW p \in Procs, CASClear(p)
      PROVE  TypeOK' /\ LocalOK'
  <2>1. bucketOffset(stream[p]) \in Buckets
    BY PositionOfStream DEF TypeOK
  <2> QED BY <1>8, <2>1 DEF CASClear, TypeOK, LocalOK, Goto, Labels, locals
<1>9. ASSUME NEW p \in Procs, ReloadClear(p)
      PROVE  TypeOK' /\ LocalOK'
  <2>1. bucketOffset(stream[p]) \in Buckets
    BY PositionOfStream DEF TypeOK
  <2> QED BY <1>9, <2>1 DEF ReloadClear, TryClear, TypeOK, LocalOK, Goto, Labels
<1>10. ASSUME NEW p \in Procs, Decrement(p)
      PROVE  TypeOK' /\ LocalOK'
  BY <1>10 DEF Decrement, TypeOK, LocalOK, Goto, Labels, locals
<1>11. ASSUME NEW p \in Procs, Return(p)
      PROVE  TypeOK' /\ LocalOK'
  <2>1. 0 \in Buckets /\ 0 \in Positions /\ 0 \in StreamIDs /\ 0 \in 0 .. NumBuckets
    BY SizeFacts DEF Buckets, Positions, StreamIDs
  <2> QED BY <1>11, <2>1 DEF Return, TypeOK, LocalOK, Goto, Labels
<1>12. CASE UNCHANGED vars
  BY <1>12 DEF vars, locals, TypeOK, LocalOK
<1> QED
  BY <1>1, <1>2, <1>3, <1>4, <1>5, <1>6, <1>7, <1>8, <1>9, <1>10, <1>11, <1>12
  DEF Next, Step, GetStream

------------------------------------------------------------------------------
(* Ownership of streams *)

\* Every bit that is set is accounted for: stream 0, a stream in the hands of a
\* request, or one on its way to or from a request.
Covered ==
  \A s \in InUse : s = 0 \/ s \in live \/ \E p \in Procs : Owns(p) /\ stream[p] = s

\* Clear has found the bit of its stream set so far.
NotBeaten == \A p \in Procs : pc[p] # "notInUse"

\* The second layer: ownership.
OwnInv == TypeOK /\ LocalOK /\ ExclusiveStreams /\ Covered /\ NotBeaten /\ 0 \in InUse

\* A step that leaves the words alone leaves the streams in use alone.
LEMMA SameInUse == ASSUME UNCHANGED streams PROVE InUse' = InUse
BY DEF InUse, isSet

\* New puts stream 0 in use, and nothing else.
LEMMA InitOwn == Init => OwnInv
<1> SUFFICES ASSUME Init PROVE OwnInv
  OBVIOUS
<1>1. TypeOK /\ LocalOK
  BY InitType
<1>2. 0 \in StreamIDs /\ bucketOffset(0) = 0 /\ streamOffset(0) = BucketBits - 1
  BY SizeFacts DEF StreamIDs, bucketOffset, streamOffset
<1>3. InUse = {0}
  <2>1. 0 \in InUse
    BY <1>2, SizeFacts DEF InUse, isSet, Init, New, Reserved, Buckets
  <2>2. ASSUME NEW s \in StreamIDs, isSet(s)
        PROVE  s = 0
    <3>1. bucketOffset(s) \in Buckets
      BY PositionOfStream
    <3>2. bucketOffset(s) = 0 /\ streamOffset(s) = BucketBits - 1
      BY <2>2, <3>1 DEF isSet, Init, New, Reserved
    <3> QED BY <3>2, <1>2, SameBit
  <2> QED BY <2>1, <2>2 DEF InUse
<1>4. ExclusiveStreams
  BY DEF Init, ExclusiveStreams, Owns
<1>5. Covered /\ NotBeaten
  BY <1>3 DEF Init, Covered, NotBeaten
<1> QED BY <1>1, <1>3, <1>4, <1>5 DEF OwnInv

\* A step that neither changes a bit nor lets a stream change hands.
LEMMA SameOwners ==
  ASSUME OwnInv, TypeOK', LocalOK', InUse' = InUse, live' = live,
         \A p \in Procs : Owns(p)' <=> Owns(p),
         \A p \in Procs : Owns(p) => stream'[p] = stream[p],
         NotBeaten'
  PROVE  OwnInv'
<1>1. ExclusiveStreams'
  BY DEF OwnInv, ExclusiveStreams
<1>2. Covered'
  BY DEF OwnInv, Covered
<1> QED BY <1>1, <1>2 DEF OwnInv

\* Every step keeps the ownership of bits.
LEMMA StepOwn ==
  ASSUME OwnInv, [Next]_vars
  PROVE  OwnInv'
<1> USE DEF Owns, Goto
<1>0. TypeOK /\ LocalOK /\ TypeOK' /\ LocalOK'
  BY StepType DEF OwnInv
<1>1. ASSUME NEW p \in Procs, LoadOffset(p) \/ CASOffset(p)
      PROVE  OwnInv'
  BY <1>0, <1>1, SameInUse, SameOwners
  DEF LoadOffset, CASOffset, OwnInv, NotBeaten, TypeOK
<1>3. ASSUME NEW p \in Procs, LoadBucket(p) \/ ReloadBucket(p)
      PROVE  OwnInv'
  <2>1. InUse' = InUse /\ live' = live /\ stream' = stream
    BY <1>3, SameInUse DEF LoadBucket, ReloadBucket
  <2>2. pc' = [pc EXCEPT ![p] = pc'[p]] /\ pc'[p] \in {"casStream", "loadBucket", "full"}
    BY <1>0, <1>3 DEF LoadBucket, ReloadBucket, Scan, TypeOK
  <2>3. pc[p] \in {"loadBucket", "reloadBucket"}
    BY <1>3 DEF LoadBucket, ReloadBucket
  <2> QED BY <1>0, <2>1, <2>2, <2>3, SameOwners DEF OwnInv, NotBeaten, TypeOK
<1>4. ASSUME NEW p \in Procs, CASStream(p)
      PROVE  OwnInv'
  <2>1. CASE ~ CASSucceeds(pos(p), bucket[p])
    BY <1>0, <1>4, <2>1, SameInUse, SameOwners DEF CASStream, OwnInv, NotBeaten, TypeOK
  <2>2. CASE CASSucceeds(pos(p), bucket[p])
    <3> DEFINE t == streamFromBucket(pos(p), j[p])
    <3>1. pos(p) \in Buckets /\ j[p] \in Positions
      BY <1>0, PosType DEF TypeOK
    <3>2. t \in StreamIDs /\ t \notin InUse
      BY <1>0, <1>4, <2>2, <3>1, StreamOfPosition
      DEF CASStream, LocalOK, CASSucceeds, InUse, isSet
    <3>3. InUse' = InUse \cup {t}
      BY <1>0, <1>4, <2>2, <3>1, SetBit DEF CASStream, CASSucceeds, TypeOK
    <3>4. /\ pc' = [pc EXCEPT ![p] = "increment"]
          /\ stream' = [stream EXCEPT ![p] = t]
          /\ live' = live /\ pc[p] = "casStream"
      BY <1>4, <2>2 DEF CASStream
    <3>5. ExclusiveStreams'
      BY <1>0, <3>2, <3>3, <3>4 DEF OwnInv, ExclusiveStreams, TypeOK
    <3>6. Covered'
      BY <1>0, <3>3, <3>4 DEF OwnInv, Covered, TypeOK
    <3> QED BY <1>0, <3>3, <3>4, <3>5, <3>6 DEF OwnInv, NotBeaten, TypeOK
  <2> QED BY <2>1, <2>2
<1>6. ASSUME NEW p \in Procs, Increment(p)
      PROVE  OwnInv'
  <2>1. /\ InUse' = InUse /\ stream' = stream /\ live' = live \cup {stream[p]}
        /\ pc' = [pc EXCEPT ![p] = "got"] /\ pc[p] = "increment"
    BY <1>6, SameInUse DEF Increment, locals
  <2>2. ExclusiveStreams'
    BY <1>0, <2>1 DEF OwnInv, ExclusiveStreams, TypeOK
  <2>3. Covered'
    BY <1>0, <2>1 DEF OwnInv, Covered, TypeOK
  <2> QED BY <1>0, <2>1, <2>2, <2>3 DEF OwnInv, NotBeaten, TypeOK
<1>7. ASSUME NEW p \in Procs, NEW s \in StreamIDs, Clear(p, s)
      PROVE  OwnInv'
  <2>1. s \in live /\ s \in InUse /\ s # 0
    BY <1>7 DEF Clear, OwnInv, ExclusiveStreams
  <2>2. /\ InUse' = InUse /\ stream' = [stream EXCEPT ![p] = s] /\ live' = live \ {s}
        /\ pc' = [pc EXCEPT ![p] = "casClear"] /\ pc[p] = "idle"
    BY Zenon, <1>7, <2>1, SameInUse DEF Clear, TryClear, InUse, isSet
  <2>3. ExclusiveStreams'
    BY <1>0, <2>1, <2>2 DEF OwnInv, ExclusiveStreams, TypeOK
  <2>4. Covered'
    BY <1>0, <2>1, <2>2 DEF OwnInv, Covered, TypeOK
  <2> QED BY <1>0, <2>2, <2>3, <2>4 DEF OwnInv, NotBeaten, TypeOK
<1>8. ASSUME NEW p \in Procs, CASClear(p)
      PROVE  OwnInv'
  <2>1. CASE ~ CASSucceeds(bucketOffset(stream[p]), bucket[p])
    BY <1>0, <1>8, <2>1, SameInUse, SameOwners
    DEF CASClear, OwnInv, NotBeaten, TypeOK, locals
  <2>2. CASE CASSucceeds(bucketOffset(stream[p]), bucket[p])
    <3>1. stream[p] \in StreamIDs
      BY <1>0 DEF TypeOK
    <3>2. InUse' = InUse \ {stream[p]}
      BY <1>0, <1>8, <2>2, <3>1, ClearBit DEF CASClear, CASSucceeds, TypeOK
    <3>3. /\ pc' = [pc EXCEPT ![p] = "decrement"] /\ pc[p] = "casClear"
          /\ stream' = stream /\ live' = live
      BY <1>8, <2>2 DEF CASClear, locals
    <3>4. ExclusiveStreams'
      BY <1>0, <3>2, <3>3 DEF OwnInv, ExclusiveStreams, TypeOK
    <3>5. Covered'
      BY <1>0, <3>2, <3>3 DEF OwnInv, Covered, TypeOK
    <3>6. stream[p] # 0
      BY <3>3 DEF OwnInv, ExclusiveStreams
    <3> QED BY <1>0, <3>2, <3>3, <3>4, <3>5, <3>6 DEF OwnInv, NotBeaten, TypeOK
  <2> QED BY <2>1, <2>2
<1>9. ASSUME NEW p \in Procs, ReloadClear(p)
      PROVE  OwnInv'
  <2>1. stream[p] \in InUse
    BY <1>9 DEF ReloadClear, OwnInv, ExclusiveStreams
  <2>2. /\ InUse' = InUse /\ stream' = stream /\ live' = live
        /\ pc' = [pc EXCEPT ![p] = "casClear"] /\ pc[p] = "reloadClear"
    BY Zenon, <1>9, <2>1, SameInUse DEF ReloadClear, TryClear, InUse, isSet
  <2> QED BY <1>0, <2>2, SameOwners DEF OwnInv, NotBeaten, TypeOK
<1>10. ASSUME NEW p \in Procs, Decrement(p)
      PROVE  OwnInv'
  BY <1>0, <1>10, SameInUse, SameOwners DEF Decrement, locals, OwnInv, NotBeaten, TypeOK
<1>11. ASSUME NEW p \in Procs, Return(p)
      PROVE  OwnInv'
  BY <1>0, <1>11, SameInUse, SameOwners DEF Return, OwnInv, NotBeaten, TypeOK
<1>12. CASE UNCHANGED vars
  BY Zenon, <1>0, <1>12, SameInUse, SameOwners DEF vars, locals, OwnInv, NotBeaten
<1> QED
  BY <1>1, <1>3, <1>4, <1>6, <1>7, <1>8, <1>9, <1>10, <1>11, <1>12
  DEF Next, Step, GetStream

------------------------------------------------------------------------------
(* The counter behind Available *)

\* Goroutines that hold a stream back from the counter: in Clear, not yet
\* through the atomic decrement.
Clearing == {p \in Procs : pc[p] \in {"casClear", "reloadClear", "decrement"}}

\* The counter is exact but for those goroutines.
Counting == inuseStreams = Cardinality(live) + Cardinality(Clearing)

\* Clear has not met a negative counter.
NoPanic == \A p \in Procs : pc[p] # "panic"

\* The inductive invariant.
IInv == OwnInv /\ Counting /\ NoPanic

\* The sets that the counter counts are finite.
LEMMA FiniteCounts ==
  ASSUME TypeOK
  PROVE  /\ IsFiniteSet(live) /\ Cardinality(live) \in Nat
         /\ IsFiniteSet(Clearing) /\ Cardinality(Clearing) \in Nat
<1>1. IsFiniteSet(StreamIDs)
  BY FS_Interval, SizeFacts DEF StreamIDs
<1>2. IsFiniteSet(live)
  BY <1>1, FS_Subset DEF TypeOK
<1>3. IsFiniteSet(Clearing)
  BY ProcsAssumption, FS_Subset DEF Clearing
<1> QED BY <1>2, <1>3, FS_CardinalityType

\* New establishes the inductive invariant.
LEMMA InitIInv == Init => IInv
<1> SUFFICES ASSUME Init PROVE IInv
  OBVIOUS
<1>1. live = {} /\ Clearing = {} /\ inuseStreams = 0 /\ NoPanic
  BY DEF Init, New, Clearing, NoPanic
<1> QED BY <1>1, InitOwn, FS_EmptySet DEF IInv, Counting

\* Every step keeps the inductive invariant.
LEMMA StepIInv ==
  ASSUME IInv, [Next]_vars
  PROVE  IInv'
<1> USE DEF Goto
<1>0. OwnInv /\ OwnInv' /\ TypeOK /\ TypeOK' /\ Counting /\ NoPanic
  BY StepOwn DEF IInv, OwnInv
<1>1. SUFFICES Counting' /\ NoPanic'
  BY <1>0 DEF IInv
<1>2. ASSUME inuseStreams' = inuseStreams, live' = live, Clearing' = Clearing, NoPanic'
      PROVE  Counting' /\ NoPanic'
  BY <1>0, <1>2 DEF Counting
<1>3. ASSUME NEW p \in Procs,
             LoadOffset(p) \/ CASOffset(p) \/ CASStream(p) \/ CASClear(p) \/ Return(p)
      PROVE  Counting' /\ NoPanic'
  <2>1. inuseStreams' = inuseStreams /\ live' = live
    BY <1>3 DEF LoadOffset, CASOffset, CASStream, CASClear, Return
  <2>2. Clearing' = Clearing /\ NoPanic'
    BY <1>0, <1>3
    DEF LoadOffset, CASOffset, CASStream, CASClear, Return, Clearing, NoPanic, TypeOK
  <2> QED BY <1>2, <2>1, <2>2
<1>4. ASSUME NEW p \in Procs, LoadBucket(p) \/ ReloadBucket(p)
      PROVE  Counting' /\ NoPanic'
  <2>1. inuseStreams' = inuseStreams /\ live' = live
    BY <1>4 DEF LoadBucket, ReloadBucket
  <2>2. pc' = [pc EXCEPT ![p] = pc'[p]] /\ pc'[p] \in {"casStream", "loadBucket", "full"}
    BY <1>0, <1>4 DEF LoadBucket, ReloadBucket, Scan, TypeOK
  <2>3. pc[p] \in {"loadBucket", "reloadBucket"}
    BY <1>4 DEF LoadBucket, ReloadBucket
  <2>4. Clearing' = Clearing /\ NoPanic'
    BY <1>0, <2>2, <2>3 DEF Clearing, NoPanic, TypeOK
  <2> QED BY <1>2, <2>1, <2>4
<1>5. ASSUME NEW p \in Procs, Increment(p)
      PROVE  Counting' /\ NoPanic'
  <2>1. Clearing' = Clearing /\ NoPanic'
    BY <1>0, <1>5 DEF Increment, Clearing, NoPanic, TypeOK
  <2>2. stream[p] \notin live
    BY <1>0, <1>5 DEF Increment, OwnInv, ExclusiveStreams, Owns
  <2>3. Cardinality(live') = Cardinality(live) + 1
    BY Zenon, <1>0, <1>5, <2>2, FiniteCounts, FS_AddElement DEF Increment
  <2> QED BY <1>0, <1>5, <2>1, <2>3, FiniteCounts DEF Increment, Counting
<1>6. ASSUME NEW p \in Procs, NEW s \in StreamIDs, Clear(p, s)
      PROVE  Counting' /\ NoPanic'
  <2>1. pc' = [pc EXCEPT ![p] = pc'[p]] /\ pc'[p] \in {"casClear", "notInUse"}
    BY <1>0, <1>6 DEF Clear, TryClear, TypeOK
  <2>2. pc'[p] = "casClear"
    BY <1>0, <2>1 DEF OwnInv, NotBeaten
  <2>3. Clearing' = Clearing \cup {p} /\ p \notin Clearing /\ NoPanic'
    BY <1>0, <1>6, <2>1, <2>2 DEF Clear, Clearing, NoPanic, TypeOK
  <2>4. Cardinality(Clearing') = Cardinality(Clearing) + 1
    BY Zenon, <1>0, <2>3, FiniteCounts, FS_AddElement
  <2>5. Cardinality(live') = Cardinality(live) - 1
    BY Zenon, <1>0, <1>6, FiniteCounts, FS_RemoveElement DEF Clear
  <2> QED BY <1>0, <1>6, <2>3, <2>4, <2>5, FiniteCounts DEF Clear, Counting
<1>7. ASSUME NEW p \in Procs, ReloadClear(p)
      PROVE  Counting' /\ NoPanic'
  <2>1. pc' = [pc EXCEPT ![p] = pc'[p]] /\ pc'[p] \in {"casClear", "notInUse"}
    BY <1>0, <1>7 DEF ReloadClear, TryClear, TypeOK
  <2>2. pc'[p] = "casClear"
    BY <1>0, <2>1 DEF OwnInv, NotBeaten
  <2>3. Clearing' = Clearing /\ NoPanic'
    BY <1>0, <1>7, <2>1, <2>2 DEF ReloadClear, Clearing, NoPanic, TypeOK
  <2> QED BY <1>2, <1>7, <2>3 DEF ReloadClear
<1>8. ASSUME NEW p \in Procs, Decrement(p)
      PROVE  Counting' /\ NoPanic'
  <2>1. pc[p] = "decrement" /\ p \in Clearing
    BY <1>8 DEF Decrement, Clearing
  <2>2. Cardinality(Clearing \ {p}) = Cardinality(Clearing) - 1
    BY Zenon, <1>0, <2>1, FiniteCounts, FS_RemoveElement
  <2>3. Cardinality(Clearing \ {p}) \in Nat
    BY <1>0, FiniteCounts, FS_RemoveElement, FS_CardinalityType
  <2>4. ~ (inuseStreams - 1 < 0)
    BY <1>0, <2>2, <2>3, FiniteCounts DEF Counting
  <2>5. pc' = [pc EXCEPT ![p] = "cleared"]
    BY <1>8, <2>4, Zenon DEF Decrement
  <2>6. Clearing' = Clearing \ {p} /\ NoPanic'
    BY <1>0, <2>1, <2>5 DEF Clearing, NoPanic, TypeOK
  <2> QED BY <1>0, <1>8, <2>2, <2>6, FiniteCounts DEF Decrement, Counting
<1>9. CASE UNCHANGED vars
  BY <1>0, <1>9 DEF vars, Counting, NoPanic, Clearing
<1> QED
  BY <1>3, <1>4, <1>5, <1>6, <1>7, <1>8, <1>9 DEF Next, Step, GetStream

\* The inductive invariant of the generator.
THEOREM SpecIInv == Spec => []IInv
BY InitIInv, StepIInv, PTL DEF Spec

\* The type invariant of streams.go's generator.
THEOREM TypeCorrect == Spec => []TypeOK
<1>1. IInv => TypeOK
  BY DEF IInv, OwnInv
<1> QED BY <1>1, SpecIInv, PTL

\* GetStream and Clear never give a stream two owners.
THEOREM Exclusive == Spec => []ExclusiveStreams
<1>1. IInv => ExclusiveStreams
  BY DEF IInv, OwnInv
<1> QED BY <1>1, SpecIInv, PTL

\* Clear never finds the bit of a granted stream clear, and its counter never
\* goes negative: the panic is unreachable.
THEOREM NoNegativeCount == Spec => []ClearSucceeds
<1>1. IInv => ClearSucceeds
  BY DEF IInv, OwnInv, NotBeaten, NoPanic, ClearSucceeds
<1> QED BY <1>1, SpecIInv, PTL

\* With no call in progress the counter equals the number of streams handed
\* out, so Available() is exact.
THEOREM AvailableCorrect == Spec => []AvailableExact
<1>1. ASSUME IInv, \A p \in Procs : pc[p] = "idle"
      PROVE  Available = Cardinality(StreamIDs \ InUse)
  <2>1. TypeOK /\ Clearing = {} /\ InUse = live \cup {0} /\ 0 \notin live
    BY <1>1 DEF IInv, OwnInv, Clearing, Covered, ExclusiveStreams, Owns
  <2>2. inuseStreams = Cardinality(live) /\ Cardinality(live) \in Nat /\ IsFiniteSet(live)
    BY <1>1, <2>1, FiniteCounts, FS_EmptySet DEF IInv, Counting
  <2>3. IsFiniteSet(InUse) /\ Cardinality(InUse) = Cardinality(live) + 1
    BY <2>1, <2>2, FS_AddElement
  <2>4. IsFiniteSet(StreamIDs) /\ Cardinality(StreamIDs) = NumStreams
    BY FS_Interval, SizeFacts DEF StreamIDs
  <2>5. Cardinality(StreamIDs \ InUse) = Cardinality(StreamIDs) - Cardinality(StreamIDs \cap InUse)
    BY <2>3, <2>4, FS_Difference
  <2>6. StreamIDs \cap InUse = InUse
    BY DEF InUse
  <2> QED BY <2>2, <2>3, <2>4, <2>5, <2>6, SizeFacts DEF Available
<1>2. IInv => AvailableExact
  BY <1>1 DEF AvailableExact
<1> QED BY <1>2, SpecIInv, PTL

\* Every step of the bit-set algorithm is one Grant, one Release, or no step of
\* the abstract allocator that Conn is specified against.
THEOREM Refinement == Spec => ImplementsAllocator
<1>1. Init => Allocator!Init
  <2>1. ASSUME Init PROVE InUse \ {0} = {}
    BY <2>1, InitOwn DEF OwnInv, Covered, Init, Owns
  <2> QED BY <2>1 DEF Allocator!Init
<1>2. ASSUME IInv, IInv', [Next]_vars
      PROVE  [Allocator!Next]_(InUse \ {0})
  <2>0. TypeOK /\ LocalOK /\ ExclusiveStreams
    BY <1>2 DEF IInv, OwnInv
  <2>1. CASE UNCHANGED streams
    BY <2>1, SameInUse
  <2>2. ASSUME NEW p \in Procs, CASStream(p), ~ UNCHANGED streams
        PROVE  Allocator!Next
    <3> DEFINE t == streamFromBucket(pos(p), j[p])
    <3>1. pos(p) \in Buckets /\ j[p] \in Positions
      BY <2>0, PosType DEF TypeOK
    <3>2. CASSucceeds(pos(p), bucket[p])
      BY <2>2 DEF CASStream
    <3>3. t \in StreamIDs /\ t \notin InUse
      BY <2>0, <2>2, <3>1, <3>2, StreamOfPosition
      DEF CASStream, LocalOK, CASSucceeds, InUse, isSet
    <3>4. InUse' = InUse \cup {t}
      BY <2>0, <2>2, <3>1, <3>2, SetBit DEF CASStream, CASSucceeds, TypeOK
    <3>5. t # 0
      BY <1>2, <3>3 DEF IInv, OwnInv
    <3>6. Allocator!Grant(t)
      BY <3>3, <3>4, <3>5 DEF Allocator!Grant, Allocator!Free
    <3> QED BY <3>3, <3>6 DEF Allocator!Next
  <2>3. ASSUME NEW p \in Procs, CASClear(p), ~ UNCHANGED streams
        PROVE  Allocator!Next
    <3>1. stream[p] \in StreamIDs /\ stream[p] \in InUse \ {0}
      BY <2>0, <2>3 DEF TypeOK, ExclusiveStreams, Owns, CASClear
    <3>2. InUse' = InUse \ {stream[p]}
      BY <2>0, <2>3, <3>1, ClearBit DEF CASClear, CASSucceeds, TypeOK
    <3>3. Allocator!Release(stream[p])
      BY <3>1, <3>2 DEF Allocator!Release
    <3> QED BY <3>1, <3>3 DEF Allocator!Next
  <2> QED
    BY Zenon, <1>2, <2>1, <2>2, <2>3
    DEF Next, Step, GetStream, LoadOffset, CASOffset, LoadBucket, ReloadBucket,
        Increment, Clear, ReloadClear, Decrement, Return, vars
<1> QED
  BY <1>1, <1>2, SpecIInv, PTL DEF ImplementsAllocator, Allocator!Spec, Spec

------------------------------------------------------------------------------
(* What a GetStream has seen *)

Scanning == {"loadBucket", "casStream", "reloadBucket"}
Getting == Scanning \cup {"loadOffset", "casOffset"}

\* The scan of goroutine p has gone past stream s: past its word, or past its
\* position in the word at hand.
Passed(p, s) ==
  \/ \E n \in 0 .. i[p] - 1 : bucketOffset(s) = (n + off[p]) % NumBuckets
  \/ /\ pc[p] \in {"casStream", "reloadBucket"}
     /\ bucketOffset(s) = pos(p) /\ s % BucketBits < j[p]

\* Every stream in use is seen, and a scan passes only streams that it has seen
\* in use, whether or not they still are.
Sees(p) ==
  /\ pc[p] \in Getting => InUse \subseteq seen[p]
  /\ pc[p] \in Scanning => \A s \in StreamIDs : Passed(p, s) => s \in seen[p]
  /\ pc[p] = "full" => seen[p] = StreamIDs
SeenInv == \A p \in Procs : Sees(p)

\* The words are visited in turn: NumBuckets of them are all of them.
LEMMA Rotation ==
  ASSUME NEW b \in Buckets, NEW o \in Buckets
  PROVE  \E n \in 0 .. NumBuckets - 1 : b = (n + o) % NumBuckets
<1>1. b \in Nat /\ o \in Nat /\ b < NumBuckets /\ o < NumBuckets /\ NumBuckets \in Nat
  BY SizeFacts DEF Buckets
<1>2. CASE b >= o
  <2>1. b - o \in 0 .. NumBuckets - 1 /\ ((b - o) + o) % NumBuckets = b
    BY <1>1, <1>2
  <2> QED BY <2>1
<1>3. CASE b < o
  <2>1. (b - o) + NumBuckets \in 0 .. NumBuckets - 1 /\ ((b - o) + NumBuckets) + o = b + NumBuckets
    BY <1>1, <1>3
  <2>2. (b + NumBuckets) % NumBuckets = b
    BY <1>1
  <2> QED BY <2>1, <2>2
<1> QED BY <1>1, <1>2, <1>3

\* A stream is in use if its word has its bit.
LEMMA BitInUse ==
  ASSUME NEW s \in StreamIDs, streamOffset(s % BucketBits) \in streams[bucketOffset(s)]
  PROVE  s \in InUse
<1>1. streamOffset(s) = streamOffset(s % BucketBits)
  BY PositionOfStream, StreamOfPosition
<1> QED BY <1>1 DEF InUse, isSet

\* The locals of goroutine q are as they were, and it has seen no less.
LEMMA StillSees ==
  ASSUME NEW q \in Procs, Sees(q), pc'[q] = pc[q], i'[q] = i[q], off'[q] = off[q], j'[q] = j[q],
         pc[q] \in Getting => InUse' \subseteq seen'[q],
         seen[q] \subseteq seen'[q], seen'[q] \subseteq StreamIDs
  PROVE  Sees(q)'
<1>1. \A s : Passed(q, s)' <=> Passed(q, s)
  BY DEF Passed, pos
<1> QED BY Zenon, <1>1 DEF Sees

\* A scan of the word as it is now sees what it passes.
LEMMA ScanSees ==
  ASSUME TypeOK, NEW p \in Procs, Sees(p), pc[p] \in Scanning, i[p] < NumBuckets,
         NEW from \in Positions, Scan(p, streams[pos(p)], from),
         \A s \in StreamIDs : bucketOffset(s) = pos(p) /\ s % BucketBits < from => s \in seen[p],
         UNCHANGED <<streams, off, seen>>
  PROVE  Sees(p)'
<1> DEFINE b == streams[pos(p)]
           clear == {k \in Positions : k >= from /\ streamOffset(k) \notin b}
<1>1. InUse' = InUse /\ InUse \subseteq seen[p] /\ seen'[p] = seen[p]
  BY SameInUse DEF Sees, Getting
<1>2. /\ i[p] \in Nat /\ off[p] \in Buckets /\ pos(p) \in Buckets
      /\ i \in [Procs -> 0 .. NumBuckets] /\ j \in [Procs -> Positions] /\ pc \in [Procs -> Labels]
      /\ seen[p] \in SUBSET StreamIDs
  BY PosType, SizeFacts DEF TypeOK
<1>3. \A s \in StreamIDs :
        bucketOffset(s) = pos(p) /\ (s % BucketBits) \notin clear => s \in seen[p]
  <2> SUFFICES ASSUME NEW s \in StreamIDs, bucketOffset(s) = pos(p), (s % BucketBits) \notin clear
               PROVE  s \in seen[p]
    OBVIOUS
  <2>1. s % BucketBits \in Positions
    BY PositionOfStream
  <2>2. CASE s % BucketBits < from
    BY <2>2
  <2>3. CASE streamOffset(s % BucketBits) \in b
    BY <1>1, <2>3, BitInUse
  <2> QED BY <2>1, <2>2, <2>3, SizeFacts DEF Positions
<1>4. CASE \E k \in clear : /\ \A k2 \in clear : k <= k2
                            /\ j' = [j EXCEPT ![p] = k]
                            /\ Goto(p, "casStream")
                            /\ UNCHANGED i
  <2>1. PICK k \in clear : /\ \A k2 \in clear : k <= k2
                           /\ j' = [j EXCEPT ![p] = k]
                           /\ Goto(p, "casStream")
                           /\ UNCHANGED i
    BY Zenon, <1>4
  <2>2. j'[p] = k /\ pc'[p] = "casStream" /\ i'[p] = i[p] /\ off'[p] = off[p] /\ pos(p)' = pos(p)
    BY <1>2, <2>1 DEF Goto, pos
  <2>3. ASSUME NEW s \in StreamIDs, Passed(p, s)'
        PROVE  s \in seen[p]
    <3>1. CASE \E n \in 0 .. i[p] - 1 : bucketOffset(s) = (n + off[p]) % NumBuckets
      BY <3>1 DEF Sees, Passed
    <3>2. CASE bucketOffset(s) = pos(p) /\ s % BucketBits < k
      <4>1. s % BucketBits \in Positions
        BY PositionOfStream
      <4>2. (s % BucketBits) \notin clear
        BY <2>1, <3>2, <4>1, SizeFacts DEF Positions
      <4> QED BY <1>3, <3>2, <4>2
    <3> QED BY Zenon, <2>2, <2>3, <3>1, <3>2 DEF Passed
  <2> QED BY <1>1, <2>2, <2>3 DEF Sees, Getting, Scanning
<1>5. CASE /\ clear = {}
           /\ i' = [i EXCEPT ![p] = @ + 1]
           /\ Goto(p, IF i[p] + 1 < NumBuckets THEN "loadBucket" ELSE "full")
  <2>1. /\ i'[p] = i[p] + 1 /\ off'[p] = off[p]
        /\ pc'[p] = IF i[p] + 1 < NumBuckets THEN "loadBucket" ELSE "full"
    BY <1>2, <1>5 DEF Goto
  <2>2. ASSUME NEW s \in StreamIDs, NEW n \in 0 .. i[p], bucketOffset(s) = (n + off[p]) % NumBuckets
        PROVE  s \in seen[p]
    <3>1. CASE n = i[p]
      BY <1>3, <1>5, <2>2, <3>1 DEF pos
    <3>2. CASE n # i[p]
      <4>1. n \in 0 .. i[p] - 1
        BY <1>2, <3>2
      <4> QED BY <2>2, <4>1 DEF Sees, Passed
    <3> QED BY <3>1, <3>2
  <2>3. CASE i[p] + 1 < NumBuckets
    <3>1. pc'[p] = "loadBucket"
      BY <2>1, <2>3
    <3>2. ASSUME NEW s \in StreamIDs, Passed(p, s)'
          PROVE  s \in seen[p]
      <4>1. \E n \in 0 .. (i[p] + 1) - 1 : bucketOffset(s) = (n + off[p]) % NumBuckets
        BY <2>1, <3>1, <3>2 DEF Passed
      <4>2. 0 .. (i[p] + 1) - 1 = 0 .. i[p]
        BY <1>2
      <4> QED BY Zenon, <2>2, <4>1, <4>2
    <3> QED BY <1>1, <3>1, <3>2 DEF Sees, Getting, Scanning
  <2>4. CASE ~(i[p] + 1 < NumBuckets)
    <3>1. pc'[p] = "full" /\ 0 .. NumBuckets - 1 \subseteq 0 .. i[p]
      BY <1>2, <2>1, <2>4, SizeFacts
    <3>2. ASSUME NEW s \in StreamIDs PROVE s \in seen[p]
      <4>1. PICK n \in 0 .. NumBuckets - 1 : bucketOffset(s) = (n + off[p]) % NumBuckets
        BY <1>2, PositionOfStream, Rotation
      <4> QED BY <2>2, <3>1, <4>1
    <3> QED BY Zenon, <1>1, <1>2, <3>1, <3>2 DEF Sees, Getting, Scanning
  <2> QED BY <2>3, <2>4
<1> QED BY <1>4, <1>5 DEF Scan

\* A step of p that takes no stream: the others see as much as before.
LEMMA OthersSee ==
  ASSUME IInv, SeenInv, NEW p \in Procs, InUse' \subseteq InUse, Sees(p)',
         \A q \in Procs : q # p => /\ pc'[q] = pc[q] /\ i'[q] = i[q] /\ off'[q] = off[q]
                                   /\ j'[q] = j[q] /\ seen'[q] = seen[q]
  PROVE  SeenInv'
<1> SUFFICES ASSUME NEW q \in Procs, q # p PROVE Sees(q)'
  BY Zenon DEF SeenInv
<1>1. seen[q] \subseteq StreamIDs
  BY DEF IInv, OwnInv, TypeOK
<1> QED BY Zenon, <1>1, StillSees DEF SeenInv, Sees

LEMMA InitSeen == Init => SeenInv
BY DEF Init, SeenInv, Sees, Getting, Scanning

LEMMA StepSeen ==
  ASSUME IInv, IInv', SeenInv, [Next]_vars
  PROVE  SeenInv'
<1>0. TypeOK /\ LocalOK /\ TypeOK' /\ 0 \in InUse
  BY DEF IInv, OwnInv
<1>1. ASSUME NEW p \in Procs, LoadOffset(p)
      PROVE  SeenInv'
  <2>1. InUse' = InUse
    BY <1>1, SameInUse DEF LoadOffset
  <2>2. /\ pc'[p] = "casOffset" /\ seen'[p] = IF pc[p] = "idle" THEN InUse ELSE seen[p]
        /\ pc[p] \in {"idle", "loadOffset"}
    BY <1>0, <1>1 DEF LoadOffset, Goto, TypeOK
  <2>3. Sees(p)'
    BY <2>1, <2>2 DEF SeenInv, Sees, Getting, Scanning
  <2> QED BY <1>0, <1>1, <2>1, <2>3, OthersSee DEF LoadOffset, Goto, TypeOK
<1>2. ASSUME NEW p \in Procs, CASOffset(p)
      PROVE  SeenInv'
  <2>1. InUse' = InUse
    BY <1>2, SameInUse DEF CASOffset
  <2>2. /\ seen'[p] = seen[p] /\ pc[p] = "casOffset"
        /\ pc'[p] = "loadOffset" \/ (pc'[p] = "loadBucket" /\ i'[p] = 0)
    BY <1>0, <1>2 DEF CASOffset, Goto, TypeOK
  <2>3. pc'[p] = "loadBucket" => \A s : ~Passed(p, s)'
    BY <2>2 DEF Passed
  <2>4. Sees(p)'
    BY <2>1, <2>2, <2>3 DEF SeenInv, Sees, Getting, Scanning
  <2> QED BY <1>0, <1>2, <2>1, <2>4, OthersSee DEF CASOffset, Goto, TypeOK
<1>3. ASSUME NEW p \in Procs, LoadBucket(p)
      PROVE  SeenInv'
  <2>1. InUse' = InUse
    BY <1>3, SameInUse DEF LoadBucket
  <2>2. 0 \in Positions /\ streams[pos(p)] \in SUBSET Positions /\ i[p] < NumBuckets
    <3>1. 0 \in Positions
      BY SizeFacts DEF Positions
    <3>2. i[p] < NumBuckets
      BY Zenon, <1>0, <1>3 DEF LoadBucket, LocalOK
    <3>3. streams[pos(p)] \in SUBSET Positions
      BY <1>0, <3>2, PosType DEF TypeOK
    <3> QED BY <3>1, <3>2, <3>3
  <2>3. \A s \in StreamIDs : bucketOffset(s) = pos(p) /\ s % BucketBits < 0 => s \in seen[p]
    BY PositionOfStream, SizeFacts DEF Positions
  <2>4. Sees(p)'
    BY <1>0, <1>3, <2>2, <2>3, ScanSees DEF LoadBucket, SeenInv, Scanning
  <2>5. \A q \in Procs : q # p => pc'[q] = pc[q] /\ i'[q] = i[q] /\ j'[q] = j[q]
    BY Zenon, <1>0, <1>3, <2>2, ScanType DEF LoadBucket
  <2> QED BY <1>3, <2>1, <2>4, <2>5, OthersSee DEF LoadBucket
<1>4. ASSUME NEW p \in Procs, ReloadBucket(p)
      PROVE  SeenInv'
  <2>1. InUse' = InUse
    BY <1>4, SameInUse DEF ReloadBucket
  <2>2. j[p] \in Positions /\ streams[pos(p)] \in SUBSET Positions /\ i[p] < NumBuckets
    <3>1. i[p] < NumBuckets
      BY Zenon, <1>0, <1>4 DEF ReloadBucket, LocalOK
    <3>2. j[p] \in Positions /\ streams[pos(p)] \in SUBSET Positions
      BY <1>0, <3>1, PosType DEF TypeOK
    <3> QED BY <3>1, <3>2
  <2>3. \A s \in StreamIDs : bucketOffset(s) = pos(p) /\ s % BucketBits < j[p] => s \in seen[p]
    BY <1>4 DEF ReloadBucket, SeenInv, Sees, Scanning, Passed
  <2>4. Sees(p)'
    BY <1>0, <1>4, <2>2, <2>3, ScanSees DEF ReloadBucket, SeenInv, Scanning
  <2>5. \A q \in Procs : q # p => pc'[q] = pc[q] /\ i'[q] = i[q] /\ j'[q] = j[q]
    BY <1>0, <1>4, <2>2, ScanType DEF ReloadBucket
  <2> QED BY Zenon, <1>4, <2>1, <2>4, <2>5, OthersSee DEF ReloadBucket
<1>5. ASSUME NEW p \in Procs, CASStream(p)
      PROVE  SeenInv'
  <2>1. pos(p) \in Buckets /\ j[p] \in Positions /\ pc[p] = "casStream"
    BY <1>0, <1>5, PosType DEF CASStream, TypeOK
  <2>2. CASE CASSucceeds(pos(p), bucket[p])
    <3> DEFINE t == streamFromBucket(pos(p), j[p])
    <3>1. InUse' = InUse \cup {t} /\ t \in StreamIDs
      BY Zenon, <1>0, <1>5, <2>1, <2>2, SetBit, StreamOfPosition DEF CASStream, CASSucceeds, TypeOK
    <3>2. \A q \in Procs : seen'[q] = IF seen[q] = {} THEN {} ELSE seen[q] \cup {t}
      BY Zenon, <1>5, <2>2 DEF CASStream
    <3>3. Sees(p)'
      BY <1>0, <1>5, <2>2 DEF CASStream, Sees, Getting, Scanning, Goto, TypeOK
    <3>4. ASSUME NEW q \in Procs, q # p PROVE Sees(q)'
      <4>1. Sees(q) /\ seen[q] \in SUBSET StreamIDs
        BY <1>0 DEF SeenInv, TypeOK
      <4>2. pc[q] \in Getting => InUse' \subseteq seen'[q]
        BY Zenon, <1>0, <3>1, <3>2, <4>1 DEF Sees
      <4>3. seen[q] \subseteq seen'[q] /\ seen'[q] \subseteq StreamIDs
        <5> HIDE DEF t
        <5>1. CASE seen[q] = {}
          BY Zenon, <3>2, <5>1
        <5>2. CASE seen[q] # {}
          <6>1. seen'[q] = seen[q] \cup {t}
            BY Zenon, <3>2, <5>2
          <6> QED BY <3>1, <4>1, <6>1
        <5> QED BY Zenon, <5>1, <5>2
      <4>4. pc'[q] = pc[q] /\ i'[q] = i[q] /\ off'[q] = off[q] /\ j'[q] = j[q]
        BY <1>0, <1>5, <2>2, <3>4 DEF CASStream, Goto, TypeOK
      <4> QED BY Zenon, <4>1, <4>2, <4>3, <4>4, StillSees
    <3> QED BY <3>3, <3>4 DEF SeenInv
  <2>3. CASE ~CASSucceeds(pos(p), bucket[p])
    <3>1. /\ pc'[p] = "reloadBucket" /\ UNCHANGED <<streams, seen, off, i, j>>
          /\ \A q \in Procs : q # p => pc'[q] = pc[q]
      BY <1>0, <1>5, <2>3 DEF CASStream, Goto, TypeOK
    <3>2. InUse' = InUse
      BY <3>1, SameInUse
    <3>3. \A s : Passed(p, s)' <=> Passed(p, s)
      BY <2>1, <3>1 DEF Passed, pos
    <3>4. Sees(p)'
      BY <2>1, <3>1, <3>2, <3>3 DEF SeenInv, Sees, Getting, Scanning
    <3> QED BY Zenon, <3>1, <3>2, <3>4, OthersSee
  <2> QED BY <2>2, <2>3
<1>6. ASSUME NEW p \in Procs, Increment(p) \/ Decrement(p) \/ Return(p) \/ ReloadClear(p)
      PROVE  SeenInv'
  <2>1. InUse' = InUse
    BY <1>6, SameInUse DEF Increment, Decrement, Return, ReloadClear
  <2>2. pc'[p] \in {"got", "panic", "cleared", "idle", "casClear", "notInUse"}
    BY <1>0, <1>6 DEF Increment, Decrement, Return, ReloadClear, TryClear, Goto, TypeOK
  <2>3. Sees(p)'
    BY <2>2 DEF Sees, Getting, Scanning
  <2>4. \A q \in Procs : q # p => /\ pc'[q] = pc[q] /\ i'[q] = i[q] /\ off'[q] = off[q]
                                  /\ j'[q] = j[q] /\ seen'[q] = seen[q]
    BY <1>0, <1>6
       DEF Increment, Decrement, Return, ReloadClear, TryClear, Goto, TypeOK, locals
  <2> QED BY Zenon, <2>1, <2>3, <2>4, OthersSee
<1>7. ASSUME NEW p \in Procs, NEW s \in StreamIDs, Clear(p, s)
      PROVE  SeenInv'
  <2>1. InUse' = InUse
    BY <1>7, SameInUse DEF Clear
  <2>2. pc'[p] \in {"casClear", "notInUse"}
    BY <1>0, <1>7 DEF Clear, TryClear, Goto, TypeOK
  <2>3. Sees(p)'
    BY <2>2 DEF Sees, Getting, Scanning
  <2> QED BY <1>0, <1>7, <2>1, <2>3, OthersSee DEF Clear, TryClear, Goto, TypeOK
<1>8. ASSUME NEW p \in Procs, CASClear(p)
      PROVE  SeenInv'
  <2>1. InUse' \subseteq InUse
    <3>1. CASE streams' = [streams EXCEPT ![bucketOffset(stream[p])] =
                             streams[bucketOffset(stream[p])] \ {streamOffset(stream[p])}]
      BY Zenon, <1>0, <3>1, ClearBit DEF TypeOK
    <3>2. CASE UNCHANGED streams
      BY <3>2, SameInUse
    <3> QED BY Zenon, <1>8, <3>1, <3>2 DEF CASClear, CASSucceeds
  <2>2. pc'[p] \in {"decrement", "reloadClear"}
    BY <1>0, <1>8 DEF CASClear, Goto, TypeOK
  <2>3. Sees(p)'
    BY <2>2 DEF Sees, Getting, Scanning
  <2> QED BY <1>0, <1>8, <2>1, <2>3, OthersSee DEF CASClear, Goto, TypeOK, locals
<1>9. CASE UNCHANGED vars
  <2>1. InUse' = InUse
    BY <1>9, SameInUse DEF vars
  <2>2. \A q \in Procs : Sees(q)'
    BY Zenon, <1>0, <1>9, <2>1, StillSees DEF vars, locals, SeenInv, Sees, TypeOK
  <2> QED BY <2>2 DEF SeenInv
<1> QED
  BY <1>1, <1>2, <1>3, <1>4, <1>5, <1>6, <1>7, <1>8, <1>9 DEF Next, Step, GetStream

\* GetStream reports that no stream is left (ErrNoStreams) only if it has seen
\* each of them in use, at some instant of the call.
THEOREM FullIsSeen == Spec => []FullOnlyIfAllSeen
<1>1. SeenInv => FullOnlyIfAllSeen
  BY DEF SeenInv, Sees, FullOnlyIfAllSeen
<1>2. Init => SeenInv
  BY InitSeen
<1>3. IInv /\ IInv' /\ SeenInv /\ [Next]_vars => SeenInv'
  BY StepSeen
<1> QED BY <1>1, <1>2, <1>3, SpecIInv, PTL DEF Spec

------------------------------------------------------------------------------
(* RefreshDebouncer *)

\* The variables of RefreshDebouncer keep their types.
DebouncerType ==
  /\ broadcaster \subseteq Callers /\ cur \subseteq Callers
  /\ caller \in [Callers -> {"idle", "waiting", "result", "refused"}]
  /\ fresh \in [Callers -> BOOLEAN]
  /\ refreshNowCh \in BOOLEAN
  /\ fpc \in {"select", "awake", "refresh", "done"}

\* Who waits listens: to the next refresh, or to the one that runs, which began later.
Listening ==
  /\ \A c \in broadcaster \cup cur : caller[c] = "waiting"
  /\ \A c \in Callers : caller[c] = "waiting" => c \in broadcaster \cup cur
  /\ \A c \in cur : fresh[c]
  /\ broadcaster \cap cur = {}
  /\ fpc # "refresh" => cur = {}

\* A flusher that sleeps, or will go back to sleep, finds an element in refreshNowCh
\* if somebody waits for a refresh that has not begun: refreshNow sends one only for
\* the first listener, and the flusher takes away element and listeners together.
NoLostWakeup ==
  fpc \in {"select", "refresh"} /\ (\E c \in Callers : caller[c] = "waiting" /\ c \notin cur)
    => refreshNowCh

WakeupSent == fpc \in {"select", "refresh"} /\ broadcaster # {} => refreshNowCh

DebouncerInv == DebouncerType /\ Listening /\ WakeupSent /\ FreshResult

LEMMA DebouncerInitially == DebouncerInit => DebouncerInv
BY Zenon DEF DebouncerInit, DebouncerInv, DebouncerType, Listening, WakeupSent, FreshResult

\* The steps of the debouncer keep the invariant, one by one.
LEMMA DebouncerInductive == DebouncerInv /\ [DebouncerNext]_debouncerVars => DebouncerInv'
<1> SUFFICES ASSUME DebouncerInv, [DebouncerNext]_debouncerVars PROVE DebouncerInv'
  OBVIOUS
<1> USE DEF DebouncerInv, DebouncerType, Listening, WakeupSent, FreshResult
<1>1. CASE debounce \/ Quieten \/ TimerFires
  BY <1>1 DEF debounce, Quieten, TimerFires, stopVars, flushVars
<1>2. CASE Wake
  BY Zenon, <1>2 DEF Wake, stopVars
<1>3. CASE FlusherEnds
  BY <1>3 DEF FlusherEnds, Tell, stopVars
<1>4. CASE Refresh
  BY Zenon, <1>4 DEF Refresh, stopVars
<1>5. CASE Broadcast
  BY <1>5 DEF Broadcast, Tell, Taken, stopVars
<1>6. CASE stop
  BY <1>6 DEF stop, Stop, CloseQuit, StopReturn, flushVars
<1>7. ASSUME NEW c \in Callers, refreshNow(c) PROVE DebouncerInv'
  BY Zenon, <1>7 DEF refreshNow, Ask, stopVars, flushVars
<1>8. ASSUME NEW c \in Callers, Received(c) PROVE DebouncerInv'
  BY <1>8 DEF Received, stopVars, flushVars
<1>9. CASE UNCHANGED debouncerVars
  BY <1>9 DEF debouncerVars, stopVars, flushVars
<1> QED
  BY Zenon, <1>1, <1>2, <1>3, <1>4, <1>5, <1>6, <1>7, <1>8, <1>9 DEF DebouncerNext, flusher

\* A caller of refreshNow never gets the result of a refresh that was already running
\* when it asked, whatever the number of callers.
THEOREM AlwaysFresh == DebouncerSpec => []FreshResult
<1>1. DebouncerInv => FreshResult
  BY DEF DebouncerInv
<1> QED
  BY DebouncerInitially, DebouncerInductive, <1>1, PTL DEF DebouncerSpec

\* No caller of refreshNow is left waiting beside a sleeping flusher: the safety half
\* of RequestsServed.
THEOREM WakeupPending == DebouncerSpec => []NoLostWakeup
<1>1. DebouncerInv => NoLostWakeup
  BY DEF DebouncerInv, DebouncerType, Listening, WakeupSent, NoLostWakeup
<1> QED
  BY DebouncerInitially, DebouncerInductive, <1>1, PTL DEF DebouncerSpec

===============================================================================
