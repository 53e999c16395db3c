# A TLA+ model of gocql

gocql is a Cassandra driver. A *session* keeps one *pool* of multiplexed
connections per node, learns of changes of the cluster through a *control
connection*, and sends the queries of many goroutines over the pools. Nearly
everything that is hard about it is either concurrency inside one process, where
goroutines share connections, connections die at any moment and timeouts race
answers, or the conversion of values to bytes and back, in three protocol
versions. This directory models both in TLA+, checks them with TLC and proves the
parts that hold for every size with TLAPS.

## The system: inventory

| part | state | operations | what makes it hard |
|---|---|---|---|
| stream id generator (`internal/streams`) | words of bits, offset, counter, all atomics | `GetStream`, `Clear`, `Available` | lock-free: compare-and-swap races, two atomics changed one after the other |
| connection, requests (`conn.go`) | `calls`, `closed`, streams, one reader | `execInternal`, `processFrame`, `releaseStream`, `closeWithError` | timeouts race responses, streams are used again, unbuffered channels between callers, reader and closer |
| connection, writers (`conn.go`) | semaphore; batch, timer, flusher | `writeContext` of `deadlineContextWriter` and `writeCoalescer` | partial writes, results of a batch, shutdown of the flusher |
| host connection pool (`connectionpool.go`) | `conns`, `filling`, `closed` | `Pick`, `fill`, `connect`, `fillingStopped`, `HandleError`, `Close` | decisions taken before dialling, lock upgrade, callbacks under a lock |
| refresh debouncer (`host_source.go`) | timer, request channel, broadcaster | `debounce`, `refreshNow`, `flusher`, `stop` | requests during a refresh, stop against waiting callers |
| control connection, `Session.Close` (`control.go`, `session.go`) | `state`, `reconnecting`, `conn` | `connect`, `setupConn`, `heartBeat`, `reconnect`, `HandleError`, `close` | several goroutines reconnect, Close overtakes them |
| policy connection pool, session init (`connectionpool.go`, `session.go`) | pools by host, hosts connecting | `SetHosts`, `addHost`, `removeHost`, `Close`, `init` | pools made while hosts leave or the session closes |
| event debouncer, node events (`events.go`) | buffered events, host states | `debounce`, `flush`, `handleNodeUp`, `handleNodeDown` | batches handled concurrently, dropped events |
| ring and ring refresh (`ring.go`, `host_source.go`) | hosts by id, ids by address | `addHostIfMissing`, `removeHost`, `refreshRing` | changed addresses, a refresh that stops half way |
| prepared statement cache (`prepared_cache.go`, `internal/lru`) | LRU of flights | `execIfMissing`, `evictPreparedID`, `prepareStatement` | one flight for many callers, eviction of what was replaced |
| query executor (`query_executor.go`) | attempts, host iterator, result channel | `executeQuery`, `do`, `speculate`, retry policies | speculative executions race |
| host selection policies (`policies.go`, `hostpool`) | host lists, counters, token map | `Pick`, `AddHost`, `RemoveHost`, ... | copy-on-write lists, no host twice or left out |
| token ring, replica placement (`token.go`, `topology.go`) | sorted tokens | `GetHostForToken`, `replicaMap` | wrap-around, racks |
| startup, protocol discovery (`conn.go`, `control.go`) | two goroutines, ticker, `startupErr`, `startupCompleted` | `setupConn`, `options`, `startup`, `authenticateHandshake`, `discoverProtocol` | two goroutines and `setupConn` wait for each other; the layout of frames changes in the middle |
| protocol 5 segments (`frame.go`, `conn.go`, `crc.go`) | partial frame | `prepareModernLayout`, `recvSegment`, `recvPartialFrames` | frames across segments, two checksums |
| frame codec (`frame.go`, `conn.go`) | buffer | the writers of requests, `parseFrame` and below | optional fields by flag and version |
| types (`types.go`) | registered types, aliases | `RegisterType`, `RegisterCustom`, `AddAlias`, parsing of type names | nesting, two notations |
| marshalling (`marshal.go`, `vector.go`, `uuid.go`) | none | `Marshal`, `Unmarshal` of every type | widths, signs, nulls, many Go types |
| paging iterator (`session.go`, `helpers.go`) | rows, next page | `Scan`, `MapScan`, `Scanner`, `fetch`, `fetchAsync` | prefetch races the reader |
| schema metadata (`metadata.go`) | schema cache | `refreshSchemas` | notifications of changes |
| metadata parsing, dialling, hashing, compressors, logging | none shared between steps | conversions and I/O | large, sequential |

`PROJECT.json` lists each part with its status, the hazards of the code at the
lines where they bite, and the definitions' source lines.

## Modules

* `StreamAllocator` — what `GetStream` and `Clear` promise: a set of granted ids,
  `Grant` of a free one, `Release`.
* `Streams` — the generator at the grain of its atomic loads and
  compare-and-swaps. A word is the set of its set bits; `streamFromBucket`,
  `bucketOffset` and `streamOffset` are translated with the reversed bit order of
  the code. Goroutines take streams, return them and read `Available`.
* `SharedProofs` (`Streams`, `RefreshDebouncer`), `ConnectionProofs` (`Conn`, `Startup`),
  `PoolProofs` (`HostConnPool`), `SessionProofs` (`ControlConn`, `Schema`), `PreparedProofs`
  (`PreparedCache`), `ExecutorProofs` (`ConnWriters`, `QueryExecutor`), `ClusterTypes` and
  `ClusterProofs` (`Cluster`) — the theorems, see Proofs.
* `Conn` — one connection: many executions of `execInternal`, the reader
  (`serve`, `processFrame`) and `closeWithError`, whoever runs it. It uses the
  generator through `StreamAllocator`, which `Streams` is proved to implement.
  A delivery on `call.resp`, an unbuffered channel, is one joint step.
* `Startup` — the handshake of a connection, at the grain of the channel operations
  of its goroutines, under `discoverProtocol`, against a server that speaks up to
  some version, refuses others in each way the code knows, answers any request with
  any error, asks for a login, or hangs up. A message carries the layout it was
  written in.
* `ContextWriter`, `ConnWriters` — the contract of
  `contextWriter` and its two implementations, byte by byte, so that a write may
  fail anywhere.
* `HostConnPool` — the pool of one host: fill goroutines, connect goroutines,
  dying connections and Close.
* `RefreshDebouncer` — the debouncer of ring and schema refreshes with its error
  broadcaster.
* `Paging` — an `Iter` with its consumer, which scans, uses a `Scanner` or maps,
  with or without automatic paging, while a goroutine may fetch the next page. A
  cell is named by its row and column, so that what a destination holds says where
  it comes from.
* `MCShared` — `Streams`, `ConnWriters`, `RefreshDebouncer` and `Paging` for TLC: the
  objects goroutines share, which do not touch each other.
* `ControlConn` — the control connection composed with `Session.Close`. The
  debouncers it calls are represented by what `RefreshDebouncer` shows: a
  request is answered unless it comes after the flusher ended. `MCControl` — `Startup`
  and `ControlConn` for TLC: a version is settled before the control connection is made.
* `PreparedCache`, `MCPreparedCache` — the LRU of prepared statements, the flights
  that load it, and the executions (queries, batches) that prepare, execute and
  start over on UNPREPARED, against a node that forgets statements and changes
  their result metadata.
* `HostSelection` — the selection policies as operators: copy-on-write lists,
  round robin over tiers (which is what the round-robin, DC-aware and rack-aware
  policies differ in) and the token-aware iterator in front of it.
* `QueryExecutor`, `MCQueryExecutor` — one request over `HostSelection`: retries
  by each retry policy, speculative runs that share the host iterator and the
  count of attempts, the result channel, and cancellation.
* `Cluster`, `MCCluster` — what the session knows of the nodes: ring, address
  index, pools by host id, host states and the list of the selection policy,
  under ring refreshes, batches of node events, `reconnectDownedHosts`, reports
  of pools and a control connection that moves to another node. Each goroutine
  is a record of what it is doing and its locals; calls that take different
  locks are different steps. A host has the address nodes know it by, which is in events
  and in the index, and one to connect to (`ConnectAddress`), which is in the policy's
  list and in the reports of its pool. A pool is what `HostConnPool` shows of it, with one
  connection; a refresh is asked for as `RefreshDebouncer` allows.
* `ReplicationStrategy` — how a keyspace is replicated, from its row in the schema.
* `Schema` — the schema cache, its refresh at the grain of queries, store and
  notifications, and a schema listener, while the session starts and the schema
  changes. An object of a keyspace (table, type, function, aggregate) is a version
  number; a listener is what it can know from the calls it gets.
* `Placement` — the token ring and the replica maps of the two replication
  strategies as operators, and a reference definition of the natural replicas.
* `TokenAware`, `MCTokenAware` — `Schema` with the token-aware policy: its ring and
  replica maps, at the start of the session, when hosts come and go and when
  `schemaRefreshed` is called. Each of its steps is a step of `Schema` or leaves the
  variables of `Schema` alone, so what is proved of `SchemaSpec` holds of it.
* `Wire` — the primitive fields of the protocol (`readInt`, `writeString`, ...) over
  sequences of bytes. A record, list or map is read by a layout: the kinds of its
  fields, or of its number and items.
* `Types` — registered types and the parser of type names. A name is a sequence of
  lexemes.
* `FrameReader`, `FrameWriter` — the responses the driver parses and the requests it
  writes, in bytes. `Frames` puts the server at the other end: it decodes requests
  and encodes responses by the layouts of the protocol, which it states on its own.
  `MCFrames` has the requests and responses that are tried.
* `Segments` — the segments of protocol 5 with both checksums, computed bit by bit.
* `Marshal`, `VInt`, `Composite` — the codecs of the scalar types, of vints, and of
  collections, tuples, user types and vectors; `Codec` binds a value, and scans it
  into a destination; `CodecCases` has the values and destinations.
* `MCConnection` — `Conn`, `Codec`, `Types`, `Frames` and `Segments` for TLC; `MCCodec` —
  `Codec` alone.

Names are those of the source; where one function is several steps, each step
is named for what it does and the function is the disjunction of its steps.
Objects that nobody refers to any more are used again (`Collect`), so that a
few connection objects stand for an unbounded supply. A definition that starts
with `Mut` is a plausible bug in the definition after it: the properties are
tested against these. `CASE` means first match, as `switch` does in Go, where its guards
overlap: in the modules of the codecs and frames, which only TLC evaluates. The modules
with theorems about them have no overlapping guards.

## Runs

Each run checks the safety and the liveness of one part, on an instance small enough to be explored completely.

* **shared** — objects that do not touch each other, each alone in a behaviour.
  Stream ids (2 goroutines, 2 words of 2 bits: ids 0..3, so the set fills up and every
  word is contended). `ExclusiveStreams`: an id has one owner. `AvailableExact`: at rest
  the counter is right. `FullOnlyIfAllSeen`: GetStream gives up only after it saw every
  id taken. `LockFree`: if goroutines keep running, some call completes.
  `ImplementsAllocator`: refinement. Writers (3 frames of 1, 2 and 3 bytes).
  `ImplementsContextWriter`: both keep frames whole and report exact byte counts.
  `AllReturn`. Refreshes (3 callers). `FreshResult`: an answer comes from a refresh that
  began after the request. `RequestsServed`: every caller is answered and every
  debounced event leads to a refresh. Paging (1 to 3 pages, also empty, or cut inside a
  row; tables without a tuple and with one as the last column; prefetch thresholds of 0, 1/4, 3/4
  and 1, so that the prefetch starts never, late, early and at once). `RowsExact`,
  `PagingEnds`.
* **connection** — parts that are each alone in a behaviour. `Conn` (2 calls, 2 ids
  besides 0). `OwnResponse`, `StreamsAccounted`: with timeouts, cancellation, failed writes
  and closing at any moment no call gets another's response, no id is in two hands or
  lost. `CloseCompletes`: the channel operations between closer, reader and callers never
  block for good.
  Values. `RoundTrip`: what `Marshal` makes of a value, `Unmarshal` reads back, into every
  Go type the documentation lists that can hold it, and into one that cannot only with an
  error, but for the exceptions below; `NoNeedlessError`: nothing representable is refused,
  with exceptions too. Values lie at the edges of each width; a byte has 2 bits (4 in
  `VInt`), so that the widths of 8 to 64 bits become 2 to 16 and all edges are within reach.
  Lengths, frames and checksums use real bytes.
  Names (2 registrations, under names with and without the prefix of the Java classes).
  `NamesResolve`: registered types, aliases and nested names, in CQL and in Java notation,
  resolve to the type that was meant.
  Frames. `RequestUnderstood`, `ResponseUnderstood`: requests and responses of every kind
  for protocols 3 to 5, each optional field present and absent, mean the same to both
  sides and are read to their last byte. `FramesIntact` (a segment of at most 31 bytes of
  payload; frames that fit, fill one or two exactly, and exceed one or two by a byte; one
  damaged byte): frames arrive whole and in order, or the connection fails.
* **pool** (2 fill goroutines, size 2, 3 connection objects, so that a lost
  connection is replaced while another is being made). `ConnsSound`: the pool keeps to
  its size and dead connections leave. `ClosedPoolDrains`, `PoolHeals`.
* **control** — `Startup` (hosts that speak up to version 3, 4 or 5, with and without a
  compressor and a login, which may take 2 rounds; a second host after one that fails).
  `HandshakeInStep`: every message is read in the layout it was written in, and nobody reads
  beside `serve`. `HighestVersion`: discovery settles below the host's highest version only
  if the host answered each one in between with a server or protocol error.
  `DiscoveryEnds`. `ControlConn` (3 connection objects). `OneControlConn`: one reconnection
  at a time, no connection forgotten. `ControlHeals`.
* **prepared** (2 goroutines, queries of one statement and batches of two, a cache
  of 1 entry so that every second preparation evicts, 2 faults).
  `CachedIsPrepared`: no failed flight stays in the cache, and the panic listed below
  has one cause. `RowsDecoded`: rows sent without metadata are decoded with the right
  one. `ExecutionsEnd`: retries after UNPREPARED come to an end.
* **executor** (2 local hosts, 1 remote, 1 retry, 1 speculative run, all retry policies,
  with and without replicas; a host that goes down and comes up again, so that it is taken
  out of a list and added behind the others, or only goes down under the downgrading
  policy, which has the most retries).
  `AttemptsBound`, `HostsInTurn`: how often and where a request is sent, a
  non-idempotent one once. `RunsEnd`: every run ends, whoever wins.
* **cluster** (2 ids, 2 addresses of which one is not the one to connect to, 2 troubles,
  an event buffer of 1, so that the topology event may be dropped). The node moves, a
  second one joins it or takes its place at its address. A trouble is a status event, a
  failed dial, a failed query, a lost connection or a moved control connection; with two
  status events the batch of the older one may be applied after that of the newer one. `AddressesExact`,
  `PoolsMatchRing`, `UpServed`, `RingCurrent`: the five views of the cluster agree
  when nothing is in progress, except after the races listed below.
* **routing** (4 hosts in 2 data centers and 2 racks, three orders of tokens, one
  with two tokens for a host; 2 hosts that come and go, 1 move, 2 schema changes,
  1 failed query, all cache modes). Every kind of strategy, the one with a factor
  that does not parse included, meets the full ring, one without the second rack
  and one without the second data center; two changes are enough for one during
  a refresh and one after it. `RoutesRight`: the first hosts of
  Pick are the natural replicas. `SchemaFollowed`: cluster, cache and listener
  agree when all is quiet.
* **conn_net_error**, **control_close_returns**, **scanner_tuple**,
  **documented_conversions** (violations) — see below.

The modelled calls, events and faults of every run end, and a state without successors is
one where all of them have: deadlock is not checked as such, the liveness properties say who
must not be left waiting. Values, names and frames are sequential: their states are the
cases.

Fairness is what Go and the timeouts of the driver give: a goroutine that can
go on does (weak fairness of its steps), a `select` that is ready again and again
is taken (strong fairness, writers and `SendQuit`), dials, writes and body reads
end at their deadlines, a startup at `ConnectTimeout`, and the goroutine that uses an
iterator goes on calling it. Nothing makes a response arrive, a request time out, a
connection die, or a session close. "Heals" properties and `ExecutionsEnd` start from `calm`,
a point after which the network and the node work; the part of `RequestsServed` about
`debounce` from `quiet`, after which no more events come, because each event restarts
the timer.

## What the code does differently from what it says

* `conn_net_error`: `readFrame` formats a net error with `%v`, so the branch of
  `processFrame` that closes the connection on net errors is dead. After a
  deadline met inside a body the reader takes the rest of it for frames. The
  safety properties of `Conn` therefore hold only until that happens (`midBody`).
* `control_close_returns`: `Session.Close` stops the schema refresher before the
  control connection. A reconnect in progress then waits for ever in
  `refreshSchemaMetadata`, and `control.close` for ever for the heartbeat.
* `scanner_tuple`: `iterScanner.Scan` takes the type of a column from the index of the
  destination. Behind a tuple column, which has several destinations, it decodes the
  columns of a row with the types of others, or indexes past the last one.
  `RowsExact` uses a Scanner only where no column follows a tuple.
* `documented_conversions`: `AsDocumented` is what the comments of `Marshal`, `Unmarshal`
  and `Scan` say, and `RoundTrip` and `NoNeedlessError` are what holds of it. Each
  difference between them is a definition of `Codec`:
  * `NilRefused`: nil bound to a tuple panics, and to a user type is an error, where "nil is
    serialized as CQL null" (the shortest counterexample of the run);
  * `NullRefused`: a NULL panics in an `interface{}` that holds nothing, and is refused by
    arrays, `[16]byte`, `inf.Dec` and, of a timeuuid, by `time.Time`, where "NULL values are
    unmarshaled as zero values of the destination type";
  * `DurationRefused`: a duration is refused by `time.Duration`, which the table of `Scan`
    lists;
  * `Wrapped`: integers of one width go between signed and unsigned types by their bits,
    where the table says "with range checking";
  * `DayAfter`: the date of a `time.Time` before 1970 that is no midnight is that of the
    next day;
  * `EmptyForNull`: a null in a tuple is sent as an empty value if it is a nil pointer in a
    `[]interface{}`, or a nil slice or nil interface in a struct.

Other limits, visible in the models and in the exceptions their properties state:

* a connection that dies before `connect` adds it stays in the pool for good
  (`early` in `ConnsSound`);
* `connect` closes a connection with `pool.mu` held, and blocks itself if the
  socket's Close fails (`SelfDeadlock`);
* `refreshNow` on a debouncer whose flusher has ended is never answered
  (`RequestsServed` excludes it);
* a reconnection that overtakes the connect of `NewSession` makes the session
  forget a connection (`raced` in `OneControlConn`), and one that passed the check
  of `c.state` before `close` leaves the new connection open;
* a connection closed without an error tells no stream observer;
* the quit channel of `deadlineContextWriter` is never closed;
* an execution that gets new result metadata after its statement was evicted and
  is being prepared again reads the nil statement of that flight and panics
  (`CachedIsPrepared` says that nothing else leads there);
* a speculative run that finds the iterator at its end answers ErrNoConnections
  at once, and its answer cancels the main run, which may be about to succeed;
* a request that passed the check of its context may be written after the caller
  has its answer;
* when an address passes from one host to another, removing the first deletes the
  address entry of the second, and takes it out of the policy's list, which
  compares addresses (`takenOver` in `AddressesExact` and `UpServed`);
* a report that a pool is connected may overtake the removal of that pool: the
  host is then up without a pool, and `reconnectDownedHosts` passes over it
  (`overtaken` in `UpServed`);
* `addHost` for a host that left the ring meanwhile makes a pool nobody removes
  (`late` in `PoolsMatchRing`), and so does one after `policyConnPool.Close`;
* a ring refresh that fails half way (`ErrCannotFindHost`, when the control
  connection added the host in between) or whose event was dropped is not
  repeated before the next event (`missed` in `RingCurrent`), and neither is a
  failed schema refresh (`failed` in `SchemaFollowed`);
* with several tokens for a host, the replica map of NetworkTopologyStrategy may
  name it twice and another replica not at all (`OneTokenEach` in `RoutesRight`);
* while the policy has a ring without hosts, the owner of a token is nil;
* a server that challenges a `PasswordAuthenticator` meets a nil challenger, and the
  goroutine of the startup panics (an outcome of `Startup`);
* a host whose address to connect to is not the one it has among the nodes is looked up by
  the wrong one when its pool cannot be filled: it is not marked down, and stays up with no
  connection until a query picks it (`ConnectAddr` in `UpServed`);
* an error of code Server, whatever it is about, counts as a refused version: discovery goes
  on with a lower one than the host speaks (`erred` in `HighestVersion`);
* a type registered under its full Java class name is never found, because `getType` drops
  the prefix and `RegisterType` and `RegisterCustom` do not, although their comments ask for
  the name "as returned in the metadata" (`Trimmed` in `NamesResolve`);
* `UnsetValue` on protocol 3, which has none, is sent all the same; a server takes it for a
  null and deletes the column (`Arriving` in `RequestUnderstood`);
* a server error that comes in another version than the connection's is no
  protocol error: discovery passes over the host instead of trying a lower version;
* nil as the first destination of a tuple column skips one destination for the column
  and not one for each element;
* `MapScan` takes the names of its columns before it turns to the next page;
* a scalar type registered under an id of the protocol is not consulted when a result names
  the id (`NewType`); a tuple cannot be bound from one slice;
* with a rack-aware fallback, `Pick` passes over remote replicas when none of them is in
  another rack (`RoutesRight`);
* a keyspace listener is not told when a keyspace changes from one class without
  a strategy to another.

## Proofs

The theorems are about the same definitions as the runs, for every value of the constants
that satisfies the assumptions named here. TLC evaluates the assumptions on each run.
Most of the invariants are not inductive alone. In each part an inductive invariant is
shown to hold at first and to be kept by every action, and to imply the property.

| module | theorem | property | run |
|---|---|---|---|
| `SharedProofs` | `Exclusive` | `ExclusiveStreams` | shared |
| | `AvailableCorrect` | `AvailableExact` | shared |
| | `FullIsSeen` | `FullOnlyIfAllSeen` | shared |
| | `Refinement` | `ImplementsAllocator` | shared |
| | `AlwaysFresh` | `FreshResult` | shared |
| `ConnectionProofs` | `ResponsesOwn` | `OwnResponse` | connection |
| | `StreamsKept` | `StreamsAccounted` | connection |
| | `InStep` | `HandshakeInStep` | control |
| | `SettlesOnHighest` | `HighestVersion` | control |
| `PoolProofs` | `PoolSound` | `ConnsSound` | pool |
| `SessionProofs` | `ControlSound` | `OneControlConn` | control |
| | `ListenersFollow` | `SchemaFollowed` | routing |
| `PreparedProofs` | `CacheSound` | `CachedIsPrepared` | prepared |
| | `DecodedRight` | `RowsDecoded` | prepared |
| `ExecutorProofs` | `WritersKeepContract` | `ImplementsContextWriter` | shared |
| | `SentBounded` | `AttemptsBound` | executor |
| `ClusterProofs` | `AddressesAlwaysExact` | `AddressesExact` | cluster |
| | `PoolsFollowRing` | `PoolsMatchRing` | cluster |
| | `RingFollowsCluster` | `RingCurrent` | cluster |

**Stream ids** (`SizeAssumption`, `ProcsAssumption`: the sizes are positive, the
goroutines finitely many). `IInv` adds what the locals of a goroutine satisfy between two
atomics (`LocalOK`), that every set bit is the reserved one, a granted one, or one a
single goroutine is taking or giving back (`Covered`), and that the counter exceeds the
granted streams by exactly the goroutines inside Clear (`Counting`). Arithmetic on words
and bits is isolated in a few lemmas (`StreamOfPosition`, `PositionOfStream`, `SetBit`,
`ClearBit`). `Refinement`: every step of the algorithm is a `Grant`, a `Release` or a
stutter of `StreamAllocator`. `FullIsSeen` needs how far a scan has come (`SeenInv`):
GetStream has seen every stream taken that its scan has passed, in the words before and
in the bits of the word at hand. `TypeCorrect` and `NoNegativeCount` come on the way.

**Refresh debouncer** (any set of callers). Who waits is a listener of the next refresh or
of the one that runs, never of both (`Listening`), and only the first listener sends to
`refreshNowCh`. `WakeupPending` is the safety half of `RequestsServed`.

**Writers of a connection** (`WritersAssumption`: no frame is empty; any number of calls,
frames of any length). `WritersKeepContract`: every step of either writer is a step of
`ContextWriter` or one that no caller sees. With the semaphore one call writes at a time,
and after a partial write nobody does (`Deadline`). With the coalescer a call is in the
queue once until it is answered, with nothing of its frame written before the flush
(`Waiting`). The flusher has one count for the whole batch and takes the length of each
frame from it in turn. That this gives each caller its own share rests on where the frames
begin in the batch (`Batch`: there are offsets such that the count is the offset of the
buffer the write got to, and what was written of that one).

**Requests of a connection** (`StreamsAssumption`, `NoCallAssumption`: the ids contain the
reserved 0, and no call is none). `ConnInv` follows the life of a stream: held by one call
(`Held`), with a request at the server under its own id (`Asked`), in the hands of the
reader (`Read`), listed in `c.calls` (`Listed`); while the connection is open, each id
that is taken is at one of these places (`Kept`). The channels of a call that waits are
open (`Told`), and a closed connection stays closed (`Closing`). `UsesAllocator`: a
connection changes its ids by `Grant` and `Release` only, so with `Refinement` the
generator underneath it never sees the release of an id that is free. All three theorems
hold until the reader gives up inside a body (`midBody`), from where on what it reads is
garbage; `LostForGood` says there is no way back.

**Startup** (`StartupAssumption`: any lists of hosts that speak up to some version, with
or without a compressor, with any login; any number of rounds). Three goroutines and the
server each act on what they know. `Versions`: a message that lowers the version comes
from a host that refuses it or answered it with a server or protocol error (`Refused`),
one that accepts it from a host that speaks it, and discovery, which counts down, has
passed refused versions only. `Layouts`: whenever one side is to write, both take the
message for the same layout, although the answer that accepts STARTUP changes what the
server speaks before the client knows. `Turns`: one message is on the wire at a time, and
the reader rests while a response is handled. `Rests`: between two startups nobody is at
work.

**Pool of a host** (`PoolAssumption`: sizes are positive, the connection objects finitely
many). The decision how many connections to make is old when they are added. It holds
because one filler is active at a time and every connect belongs to it (`Filler`), and
because the connections in the pool, those being made and those still to be started
together fit into the size (`Counted`). `Held` and `OpenTracked` say where each dead and
each open connection is; `NothingLeaks` is the safety half of `ClosedPoolDrains`.

**Control connection** (`DistinctAssumption`). `Exclusive` is what the compare-and-swap on
`c.reconnecting` gives. That no connection is forgotten needs `Replaced` besides: whoever
is about to store a connection finds the old one closed, or none.

**Schema cache and listeners** (`SchemaAssumption`: a keyspace that is defined is not none;
any keyspaces, objects, changes and failed queries). `SchemaFollowed` speaks of a session
at rest. `CacheCurrent`: while no change waits for a refresh, what the refresh under way
has read is what the cluster has, and so is the cache once it is stored (`StoreInv`).
`ListenerInv` says what a listener knows at each point of a refresh: the old schema, the
new one, or, between the calls about keyspaces and those about their objects, the new
keyspaces with the old objects. A refresh that read `sessionInitialized` before it was set
tells nobody, but then OnSessionReady comes after its store.

**Prepared statements** (`BoundsAssumption`: any requests, any size of the cache). `Cached`
says what a cached flight may be, and `Undisturbed` what the cache holds for a query whose
statement has not left it: a flight that is done, from the time the query has waited for
it. `DecodedRight` rests on the types: in every statement, in a flight or copied by an
execution, the metadata is the one its metadata id stands for.

**Query executor** (`TierAssumption`, `ExecutorAssumption`: any hosts, retries and
speculative executions). The runs raise the count of attempts and read it in separate
steps. The invariant is an account: the requests sent, and those that runs may still send
before they count again (`Ready`), are each paid for by a run or by one of the first
`NumRetries` counts.

**Cluster** (`TablesAssumption`: any nodes and addresses, no two nodes at one address at
first, enough pools for the nodes there are at first). `TypeInv` says what each goroutine
holds where it is (`Staffed`), and contains `AddressesExact`. `PoolsMatchRing` and
`RingCurrent` speak of a session at rest; what leads there holds all the time. `Mapped`: a
pool in the map is open and is that of the host in the ring, or is late; `Unmapped`: a
host has lost its pool before `removeHost` takes it out of the ring. `Current`: a refresh
was missed, or is asked for, or an event will ask for it, or the ring is exactly as far
from the table as `refreshRing` has still to go (`Synced`, by the point it has reached:
the rows it has read are in the ring, and of the old hosts those it has not compared).

### What is only model-checked

* Liveness: `LockFree`, `AllReturn`, `RequestsServed`, `PagingEnds`, `CloseCompletes`,
  `DiscoveryEnds`, `ClosedPoolDrains`, `PoolHeals`, `ControlHeals`, `ExecutionsEnd`,
  `RunsEnd`. It rests on fairness, which is out of the provers' reach.
* What recursive definitions compute, which takes induction over data: `RoundTrip`,
  `NoNeedlessError`, `NamesResolve`, `RequestUnderstood`, `ResponseUnderstood`,
  `FramesIntact`, `RoutesRight`; `RowsExact`, because it compares what was scanned with
  all pages put together; `HostsInTurn`, because the order of the hosts comes from
  filtering and joining lists.
* `UpServed`. Its exception `takenOver` notes an address that one id takes from another in
  the index. When two nodes exchange their addresses the entry is deleted in between, and
  nothing is noted. The tables of the run have no such exchange, so the property as it
  stands is one of this instance and not of all tables.

## Not modelled

* Hashing (murmur3, the partitioners): the ring needs no more than a function. The
  checksums of segments are modelled, because damage must be told.
* `compileMetadata` and the queries of the schema tables: the conversion of rows without
  state. The types in those rows are parsed by `Types`, and who is told of what is in
  `Schema`.
* The start of a session up to its first pools, and `Session.Close`, over `Cluster`: with
  the topology changes the product is out of TLC's reach. `Close` against the control
  connection is in `ControlConn`, the order of the start in `Schema`.
* The hostpool policies (scores and random choices of an external library), host filters,
  the consistency levels of a downgrading policy, the pauses of back-off policies, and
  `awaitSchemaAgreement`: clocks and numbers that steer no modelled state.
* Custom `Marshaler`s, struct tags, the text of UUIDs and their generation from the clock.
* Observers, logging, the text of errors: no effect on the state, except for the stream
  observer (`Conn`) and the schema listeners (`Schema`).
* Dialling, TLS, compressors: sockets and adapters of libraries. A compressor in `Frames`
  and `Segments` is any function that can be undone.
