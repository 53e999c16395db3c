------------------------------- MODULE Streams -------------------------------
(***************************************************************************)
(* The lock-free stream id generator of internal/streams/streams.go.       *)
(*                                                                         *)
(* The bit set is an array of words.  Every goroutine reads a word, then   *)
(* tries a compare-and-swap, and retries on failure; the counter of used   *)
(* streams is updated by a separate atomic add.  One action of this module *)
(* is one atomic memory operation together with the local computation that *)
(* follows it.                                                             *)
(*                                                                         *)
(* Callers are the goroutines of a connection.  A stream that GetStream    *)
(* returned may be cleared by any goroutine (the reader releases streams   *)
(* that a request took), but only once: Conn shows that its connection     *)
(* obeys this rule.                                                        *)
(***************************************************************************)
EXTENDS Integers, FiniteSets

CONSTANTS Procs,        \* goroutines that call GetStream and Clear
          NumBuckets,   \* words of the bit set (512 for protocol 3 and later)
          BucketBits    \* streams per word (64)

ASSUME SizeAssumption == NumBuckets \in Nat \ {0} /\ BucketBits \in Nat \ {0}
ASSUME ProcsAssumption == IsFiniteSet(Procs)

VARIABLES
  streams,        \* streams[b]: the bits of word b that are set
  offset,         \* where the last GetStream started to scan
  inuseStreams,   \* the counter behind Available
  live,           \* streams returned by GetStream and not yet passed to Clear
  pc,             \* the atomic operation each goroutine does next
  off, i, j,      \* locals of GetStream: start word, words scanned, position
  bucket,         \* local copy of a word
  stream,         \* the stream a goroutine is being given, or is clearing
  seen            \* history: streams in use at some instant of this GetStream

locals == <<off, i, j, bucket, stream>>
vars   == <<streams, offset, inuseStreams, live, pc, locals, seen>>

Buckets    == 0 .. NumBuckets - 1
Positions  == 0 .. BucketBits - 1     \* of a stream in its word; also its bits
NumStreams == NumBuckets * BucketBits
StreamIDs  == 0 .. NumStreams - 1

streamFromBucket(b, k) == b * BucketBits + k
bucketOffset(s)        == s \div BucketBits
streamOffset(s)        == BucketBits - (s % BucketBits) - 1
isSet(s)               == streamOffset(s) \in streams[bucketOffset(s)]

InUse == {s \in StreamIDs : isSet(s)}

MutAvailable == NumStreams - inuseStreams
Available == NumStreams - inuseStreams - 1

NextOffset(o) == (o + 1) % NumBuckets

\* The word goroutine p is scanning.
MutPos(p) == off[p]
pos(p) == (i[p] + off[p]) % NumBuckets

\* Whether atomic.CompareAndSwapUint64(&s.streams[b], old, _) succeeds.
MutCASSucceeds(b, old) == TRUE
CASSucceeds(b, old) == streams[b] = old

\* Stream 0 is reserved: the highest bit of word 0 is set.
MutReserved == {}
Reserved == {BucketBits - 1}

New ==
  /\ streams = [b \in Buckets |-> IF b = 0 THEN Reserved ELSE {}]
  /\ offset = NumBuckets - 1
  /\ inuseStreams = 0

Init ==
  /\ New
  /\ live = {}
  /\ pc = [p \in Procs |-> "idle"]
  /\ off = [p \in Procs |-> 0]
  /\ i = [p \in Procs |-> 0]
  /\ j = [p \in Procs |-> 0]
  /\ bucket = [p \in Procs |-> {}]
  /\ stream = [p \in Procs |-> 0]
  /\ seen = [p \in Procs |-> {}]

Goto(p, label) == pc' = [pc EXCEPT ![p] = label]

-----------------------------------------------------------------------------
(* GetStream *)

\* The call begins, or its compare-and-swap of the offset failed.
MutLoadOffset(p) ==
  /\ pc[p] \in {"idle", "loadOffset"}
  /\ off' = [off EXCEPT ![p] = IF pc[p] = "idle" THEN offset ELSE @]
  /\ seen' = [seen EXCEPT ![p] = IF pc[p] = "idle" THEN InUse ELSE @]
  /\ Goto(p, "casOffset")
  /\ UNCHANGED <<streams, offset, inuseStreams, live, i, j, bucket, stream>>

LoadOffset(p) ==
  /\ pc[p] \in {"idle", "loadOffset"}
  /\ off' = [off EXCEPT ![p] = offset]
  /\ seen' = [seen EXCEPT ![p] = IF pc[p] = "idle" THEN InUse ELSE @]
  /\ Goto(p, "casOffset")
  /\ UNCHANGED <<streams, offset, inuseStreams, live, i, j, bucket, stream>>

CASOffset(p) ==
  /\ pc[p] = "casOffset"
  /\ \/ /\ offset = off[p]
        /\ offset' = NextOffset(off[p])
        /\ off' = [off EXCEPT ![p] = NextOffset(@)]
        /\ i' = [i EXCEPT ![p] = 0]
        /\ Goto(p, "loadBucket")
     \/ /\ offset # off[p]
        /\ Goto(p, "loadOffset")
        /\ UNCHANGED <<offset, off, i>>
  /\ UNCHANGED <<streams, inuseStreams, live, j, bucket, stream, seen>>

\* With word b in hand, look for a clear bit from position from on: try to
\* take the first one, else go on with the next word, else give up.
Scan(p, b, from) ==
  LET clear == {k \in Positions : k >= from /\ streamOffset(k) \notin b} IN
  /\ bucket' = [bucket EXCEPT ![p] = b]
  /\ \/ \E k \in clear :
          /\ \A k2 \in clear : k <= k2
          /\ j' = [j EXCEPT ![p] = k]
          /\ Goto(p, "casStream")
          /\ UNCHANGED i
     \/ /\ clear = {}
        /\ i' = [i EXCEPT ![p] = @ + 1]
        /\ Goto(p, IF i[p] + 1 < NumBuckets THEN "loadBucket" ELSE "full")
        /\ UNCHANGED j

LoadBucket(p) ==
  /\ pc[p] = "loadBucket"
  /\ Scan(p, streams[pos(p)], 0)
  /\ UNCHANGED <<streams, offset, inuseStreams, live, off, stream, seen>>

CASStream(p) ==
  /\ pc[p] = "casStream"
  /\ \/ /\ CASSucceeds(pos(p), bucket[p])
        /\ streams' = [streams EXCEPT ![pos(p)] =
                                 bucket[p] \cup {streamOffset(j[p])}]
        /\ stream' = [stream EXCEPT ![p] = streamFromBucket(pos(p), j[p])]
        /\ seen' = [q \in Procs |->
                     IF seen[q] = {} THEN {}
                     ELSE seen[q] \cup {streamFromBucket(pos(p), j[p])}]
        /\ Goto(p, "increment")
     \/ /\ ~ CASSucceeds(pos(p), bucket[p])
        /\ Goto(p, "reloadBucket")
        /\ UNCHANGED <<streams, stream, seen>>
  /\ UNCHANGED <<offset, inuseStreams, live, off, i, j, bucket>>

ReloadBucket(p) ==
  /\ pc[p] = "reloadBucket"
  /\ Scan(p, streams[pos(p)], j[p])
  /\ UNCHANGED <<streams, offset, inuseStreams, live, off, stream, seen>>

\* atomic.AddInt32(&s.inuseStreams, 1); the stream now belongs to the caller.
Increment(p) ==
  /\ pc[p] = "increment"
  /\ inuseStreams' = inuseStreams + 1
  /\ live' = live \cup {stream[p]}
  /\ Goto(p, "got")
  /\ UNCHANGED <<streams, offset, locals, seen>>

-----------------------------------------------------------------------------
(* Clear *)

\* The word was read: the bit is still set, or somebody cleared it.
TryClear(p, s, b) ==
  /\ bucket' = [bucket EXCEPT ![p] = b]
  /\ Goto(p, IF streamOffset(s) \in b THEN "casClear" ELSE "notInUse")

Clear(p, s) ==
  /\ pc[p] = "idle"
  /\ s \in live
  /\ live' = live \ {s}
  /\ stream' = [stream EXCEPT ![p] = s]
  /\ TryClear(p, s, streams[bucketOffset(s)])
  /\ UNCHANGED <<streams, offset, inuseStreams, off, i, j, seen>>

CASClear(p) ==
  LET b == bucketOffset(stream[p]) IN
  /\ pc[p] = "casClear"
  /\ \/ /\ CASSucceeds(b, bucket[p])
        /\ streams' = [streams EXCEPT ![b] = bucket[p] \ {streamOffset(stream[p])}]
        /\ Goto(p, "decrement")
     \/ /\ ~ CASSucceeds(b, bucket[p])
        /\ Goto(p, "reloadClear")
        /\ UNCHANGED streams
  /\ UNCHANGED <<offset, inuseStreams, live, locals, seen>>

ReloadClear(p) ==
  /\ pc[p] = "reloadClear"
  /\ TryClear(p, stream[p], streams[bucketOffset(stream[p])])
  /\ UNCHANGED <<streams, offset, inuseStreams, live, off, i, j, stream, seen>>

Decrement(p) ==
  /\ pc[p] = "decrement"
  /\ inuseStreams' = inuseStreams - 1
  /\ Goto(p, IF inuseStreams - 1 < 0 THEN "panic" ELSE "cleared")
  /\ UNCHANGED <<streams, offset, live, locals, seen>>

\* The call returns to its caller and its locals die.
Return(p) ==
  /\ pc[p] \in {"got", "full", "cleared", "notInUse"}
  /\ Goto(p, "idle")
  /\ off' = [off EXCEPT ![p] = 0]
  /\ i' = [i EXCEPT ![p] = 0]
  /\ j' = [j EXCEPT ![p] = 0]
  /\ bucket' = [bucket EXCEPT ![p] = {}]
  /\ stream' = [stream EXCEPT ![p] = 0]
  /\ seen' = [seen EXCEPT ![p] = {}]
  /\ UNCHANGED <<streams, offset, inuseStreams, live>>

-----------------------------------------------------------------------------
\* The steps of a call that has begun.
Step(p) ==
  \/ pc[p] # "idle" /\ LoadOffset(p)
  \/ CASOffset(p) \/ LoadBucket(p) \/ CASStream(p) \/ ReloadBucket(p)
  \/ Increment(p)
  \/ CASClear(p) \/ ReloadClear(p) \/ Decrement(p)
  \/ Return(p)

GetStream(p) == pc[p] = "idle" /\ LoadOffset(p)

Next ==
  \E p \in Procs :
    \/ GetStream(p)
    \/ \E s \in StreamIDs : Clear(p, s)
    \/ Step(p)

Spec == Init /\ [][Next]_vars

\* A goroutine that is inside a call keeps running; nobody has to begin one.
FairSpec == Spec /\ \A p \in Procs : WF_vars(Step(p))

-----------------------------------------------------------------------------
(* Properties *)

Labels == {"idle", "loadOffset", "casOffset", "loadBucket", "casStream",
           "reloadBucket", "increment", "got", "full", "casClear",
           "reloadClear", "decrement", "cleared", "notInUse", "panic"}

\* Type invariant.
TypeOK ==
  /\ streams \in [Buckets -> SUBSET Positions]
  /\ offset \in Buckets
  /\ inuseStreams \in Int
  /\ live \in SUBSET StreamIDs
  /\ pc \in [Procs -> Labels]
  /\ off \in [Procs -> Buckets]
  /\ i \in [Procs -> 0 .. NumBuckets]
  /\ j \in [Procs -> Positions]
  /\ bucket \in [Procs -> SUBSET Positions]
  /\ stream \in [Procs -> StreamIDs]
  /\ seen \in [Procs -> SUBSET StreamIDs]

\* p is between winning a stream and handing it out, or between Clear's
\* entry and the compare-and-swap that frees it.
Owns(p) == pc[p] \in {"increment", "casClear", "reloadClear"}

\* Whatever GetStream and Clear interleave, a stream never has two owners:
\* one just won by GetStream is not in the hands of another request or being
\* cleared by another goroutine, every owned stream has its bit set, and
\* stream 0 (reserved by New) is owned by nobody.
ExclusiveStreams ==
  /\ \A p \in Procs : Owns(p) =>
       /\ stream[p] \in InUse \ ({0} \cup live)
       /\ \A q \in Procs : Owns(q) /\ stream[q] = stream[p] => q = p
  /\ live \subseteq InUse \ {0}

\* Clear of a granted stream never reports "already cleared" and never
\* reaches panic("negative streams inuse"), although the counter lags behind
\* the bit set.
ClearSucceeds == \A p \in Procs : pc[p] \notin {"panic", "notInUse"}

\* When no call is in progress Available() is the number of streams GetStream
\* can still hand out, so the pool's choice of the least loaded connection
\* rests on a count that does not drift.
AvailableExact ==
  (\A p \in Procs : pc[p] = "idle") => Available = Cardinality(StreamIDs \ InUse)

\* GetStream gives up (ErrNoStreams) only if every stream was in use at some
\* instant of that call, even though the words are read one after the other.
FullOnlyIfAllSeen == \A p \in Procs : pc[p] = "full" => seen[p] = StreamIDs

\* The compare-and-swap loops are lock-free: while some call is in progress,
\* some call (not necessarily that one) returns.
LockFree ==
  \A p \in Procs :
    pc[p] # "idle" ~>
      \E q \in Procs : pc[q] \in {"got", "full", "cleared", "notInUse"}

\* Each call is one atomic Grant or Release of the allocator that the
\* connection is specified against.
Allocator == INSTANCE StreamAllocator WITH granted <- InUse \ {0}
ImplementsAllocator == Allocator!Spec

=============================================================================
