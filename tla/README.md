# TLA+ models and proofs for cohttpd

cohttpd is a coroutine-based HTTP server in C++. A monitor process forks worker
processes; each worker runs a single-threaded coroutine scheduler (libgo) with
one coroutine that accepts connections and one per connection. Requests are
parsed from chunks of a buffer pool and handed to loadable modules, of which the
redis module talks to a backend through channels. This project models that
system in TLA+, checks the models with TLC and proves the central results with
TLAPS.

## Inventory

| Part | State | Operations | Hard behaviour | What makes it correct |
|---|---|---|---|---|
| Process manager (`cohttp.cpp`) | the processes, the loops that fork | `main`, `do_fork`, `check_alive::check` | deaths during reaping and forking, failing forks, exceptions that return into the parent's loop | no worker forgotten or started twice; CpuUsed workers in the end |
| Accept service (`server.cpp`, `http_service`) | accept coroutine, connection counter | `setup`, `start`, `stop`, `time_tick` | several workers on one socket, descriptor exhaustion, counter wrap-around, a throwing constructor | clients are served; connection numbers unique |
| Accept semaphore (`semops.cpp`) | id and value | `wait`, `wake` | crossing processes, ignored errors | one worker in `accept()` |
| Connection (`server.cpp`, `http_connection`) | receive buffers, sizes, two timers | constructor, `parse`, `process_request`, timer callbacks, destructor | reads split anywhere, pipelining, timers racing transfers, resets | no byte lost, limits, bounded memory, timers guard transfers, transfers and connections end |
| Codec and request (`codecs.cpp`, `request.cpp`) | parser state, URL, fields, body | parser callbacks, `operator[]` | fragments, trailers | what the module sees is what was sent |
| Response (`response.cpp`) | buffers, state | `status`, `header`, `printf`, `append`, `eom` | buffer ends, call order | all of the response is sent, in order |
| Buffer pool (`iobufs.cpp`) | arena, bitmap | `acquire`, `release` | exhaustion, fallback to the heap | a chunk has one owner and lies in the arena |
| Bit set (`bitset.cpp`) | blocks | `set`, `reset`, `find_first`, shifts, set operations | block edges | equals its mathematical definition |
| Module registry (`modules.cpp`) | table of modules | `setup`, `setup_handler`, `match_handler`, `list_handler` | path termination, duplicates | a request reaches its module |
| redis module (`modules/redis.cpp`) | order and reply channels | handlers, redis coroutine | timeouts racing late replies, reconnects, iterators across waits | replies reach their request; handlers return |
| default, hello modules | none | handlers | none | trivial |
| `lpmtree.hpp` | tree | `insert`, `search`, `values` | prefixes | longest prefix; used by nothing |
| `load_config`, errors, logging | options | | overflow of MaxBodySize | |

How they interact: the monitor forks workers, which inherit the listening socket
and the semaphore; the accept coroutine constructs a connection, which calls the
modules' `on_connect_init`, and starts its coroutine; that coroutine takes
buffers from the worker's pool, runs the codec on them, calls the module's
`on_request_header` and `on_request_body`, writes the response and at its end
calls `on_connect_exit`. Timer callbacks run in the scheduler between coroutine
switches and act on a connection only by shutting its socket down.

libgo, http_parser, hiredis, asio and the kernel are external: they are modelled
as the code uses them. In particular a coroutine runs on until it waits (socket,
channel, sleep), a worker has one thread, an exception that leaves a coroutine
ends the process, and one that leaves a timer callback leaves `RunLoop()`.

## Modules

| Module | Models | Extended by |
|---|---|---|
| `BufferPool` | what a pool promises: a chunk has at most one owner, and a buffer from elsewhere is handed out only when all are in use | |
| `IoBufs` | `iobufs` over `bitset`; implements `BufferPool` | `MCIoBufs`, `IoBufsProofs` |
| `HttpConnection` | one connection with its codec's stopping points, buffers, timers and peer | `MCHttpConnection`, `HttpConnectionProofs` |
| `HttpService` | the accept loops of several workers, `semops`, connection numbers | `MCHttpService`, `HttpServiceProofs` |
| `Master` | `main`, `do_fork`, `check` as processes that inherit their parent's loop | `MCMaster`, `MasterProofs` |
| `RedisModule` | handlers, channels and redis coroutines in one worker | `MCRedisModule`, `RedisModuleProofs` |
| `Response` | the response a handler builds, call by call | `MCResponse`, `ResponseProofs` |
| `Bitset` | the operations of `bitset` the pool does not use; extends `IoBufs` | `MCIoBufs`, `IoBufsProofs` |
| `RequestDelivery` | what a module may rely on: each request whole, in order | |
| `Codec` | `http_codec` and `http_request` on reads of any length; implements `RequestDelivery` | `Dispatch` |
| `Routing` | `modules`: loading, the table, the match of a path | `Dispatch` |
| `LpmTree` | `lpmtree` and the definition of the longest prefix | `Dispatch` |
| `Dispatch` | `Codec` and `Routing` composed by `start()` and `process_request()` | `MCDispatch`, `DispatchProofs`, `DeliveryProofs` |

Definitions keep the names of the code. Operators whose comment starts with
"Defect:" are wrong versions of the definition after them; they are not part of
any specification and serve to show that the properties notice such errors.

**IoBufs.** `bits_` is the bitmap, a set of positions per block; `slot[h]` is
what the holder `h` of a buffer has: a chunk, a heap buffer or nothing.
`acquire` and `release` do not wait, so each is one step. A failed `assert`
sets `aborted` when the build keeps asserts. The bitmap has whole blocks, so with
most chunk counts it has positions behind the arena (`Past`). The refinement of
`BufferPool` maps a buffer at such a position to one from outside (`Held`).

**HttpConnection.** `pc` is the place at which the coroutine waits or between
two of its parts; the two receive loops of `process_request` are the same code
twice and are told apart by `phase`. A buffer is its two cursors. Bytes are
counted: `arrived` in the socket, at most `Window`, and `unparsed` (history), read
but not parsed. A request is the length of its header
and body and the position of its first malformed byte; the codec stops in front
of the last byte of the header and behind the last byte of the message. The
timers' callbacks can run at every wait. The peer may send, without end if it likes,
stop, half close and reset at any moment. A handler may throw (`handler_throws`):
`parse()` catches a `system_error`, anything else ends the worker. An empty response
is written successfully on any socket, shut or reset ones included
(`write_nothing`).

**HttpService.** Each worker's accept coroutine is between `wait` and `accept`;
between two waits it runs as one step. A connection is its place in the order of
accepts (history) and the number it was given.

**Master.** Each process has its place, and `left`, what the loop it is in has
still to do; a child gets a copy. `escapes` is the exception that leaves a
worker's `RunLoop()` (`shutdown` in `HttpConnection` shows where it comes from).
A monitor's `check` that finds no dead worker only arms its timer again, which
changes nothing here. A worker that has fallen back into the loop still has its
coroutines; what they do with the destroyed module table is not modelled.

**RedisModule.** A command carries the connection and the transaction; a reply
the transaction and which of the two commands it answers, and whether it is
NULL. The timed waits end at any moment at which the channel is still empty
(full). `late` is history. Using the freed entry of `redis_reply_` is undefined
behaviour: `fault` is set and nothing more is said. A rehash of that `unordered_map` by
`on_connect_init()` during the wait is no fault: it moves no entry, and the iterator
is only dereferenced, which works in the library the server is built with although
the standard calls the iterator invalid.

**Response.** A byte is the number of the header line or body text it belongs
to; the contents do not matter, only which text is where and whether its last
byte was replaced by the terminator of `snprintf()`. `lines` and `texts` are history: each
call's kind, length and where the header or the body ended after it. A handler may make the
calls in any order. `append()` keeps a reference into the list of buffers while
it adds to it: where `std::vector` then moves its elements (at 1, 2, 4, ...
buffers) the outcome is undefined and the model stops; otherwise the full
buffer is lost and the new one is listed twice. `spoilt` records that, and a
`printf()` longer than a buffer, which is given up. Nothing in the repository
calls `append()` or `reset()`. The `status` line, the Date field that `status()` writes after it and the blank
line may be dropped for lack of room like any other: only `header()` checks.

**Bitset.** A bitset is its blocks and its size. The operators are compared with
operations on sets of positions (`BitsetOperations`), for every bitmap the pool
gets into, cut or extended to every size up to one more block; unused bits must
stay 0. `less` and equality must order all bitsets (`BitsetPairs`). `operator>>=`
runs its loop from the wrong end and reads behind the last block: `shr` follows
it, with that block arbitrary, and the property speaks only of shifts by whole
blocks and of those that leave one block; it is false of the others. Nothing in
the server calls it.

**Codec.** The stream is a sequence of bytes that know which part of a request
they belong to; http_parser is the environment that calls back with the part of a
text one read has brought. `where` is the buffer and the place in it of each byte;
a slice of the body is a place and a length, and what it stands for is what lies
there (`InMemory`). Sorting may leave fields of one name in any order. `Delivery`
maps the request object to `RequestDelivery`: the header once
`headers_completed_` is set, the body and the trailers once `message_completed_`
is. The FIXME at `codecs.cpp:14` (a body that is not contiguous when a buffer
holds one and a half requests) is what the slices are for, and the refinement shows
that they suffice.

**Routing, Dispatch.** Files are loaded in any order; each has an outcome (no
library, no `create_module`, nothing created, an exception, a module). The
exception ends the loop, as the `catch` around it does. `created` is history and
defines the owner of a path. Paths are sequences of characters, `upper` is
`toupper()`. `Dispatch` chooses the module when the header is complete; the text
at `path.data()` runs to the end of the URL (`PathData`), the path itself may end
before (`Path`). An event name stands for the pair of init and exit flags, which
the modules of the repository set together. Reads, limits and timers are in
`HttpConnection`; here a connection may break off at any read. A constructor of
`http_connection` that throws is in `HttpService`.

**LpmTree.** A tree is the set of its nodes, each the characters on the way to it.
`TreeMatchesLongest` grows one from the modules' paths in the order of creation.

## Runs

| Run | Instance | Shows |
|---|---|---|
| `pool` | 3 chunks in blocks of 2, 5 holders | `TypeOK`, `BitmapMatchesUse`, `Exclusive`, `BitsetOperations`, `BitsetPairs`, `ImplementsPool` |
| `connection` | 3-byte buffers and limits, 6 bytes in the socket, 8 kinds of request without end, both timers | `TypeOK`, `NoByteLost`, `TimersGuardTransfers`, `MemoryBounded`, `LimitsHold`, `TransfersEnd`, `LifeEnds` |
| `timer_throws` | requests with short headers | violation of `TimerRemovesConnectionOnly` |
| `service` | 2 workers, 2 descriptors each, 5 clients, 3 numbers | `TypeOK`, `IdsFarApart`, `ClientsServed` |
| `master` | 2 workers, 5 processes, failing forks, exceptions, 2 deaths | `TypeOK`, `NoneForgotten`, `Restored`, `ForkTreeBounded`, `ZombiesReaped` |
| `worker_forks` | exceptions, no deaths | violation of `AtMostCpuUsed` |
| `redis` | 2 connections on the first of 2 servers, 2 requests each, channels of 2 | `TypeOK`, `RepliesInOrder`, `RepliesMatch`, `HandlerReturns` |
| `response` | 4-byte buffers, texts of 1, 3, 4 and 9 bytes, a Date of 2, 4 lines, 4 texts | `TypeOK`, `HeaderOfWholeLines`, `StatusFirst`, `BodyAsWritten` |
| `redis_stale_reply` | one connection, 2 requests | violation of `OwnReplies` |
| `redis_freed_channel` | one connection, one request | violation of `NoFreedChannel` |
| `dispatch` | 6 files, 3 pipelined requests, 5-byte buffers | `TypeOK`, `NoneRefused`, `LookupFinds`, `RoutedToOwner`, `LifeCycle`, `TreeMatchesLongest`, `ImplementsDelivery` |
| `query_string` | the same files, one request with a query | violation of `RoutedByPath` |

What the properties say is in the comments in front of them. Several are
weaker than one would wish, because the code is: `LimitsHold` leaves a slack of
one buffer (and the other way round a pipelined request is refused whose header
is within the limit, if the read that completed it also brought enough of its
body); `IdsFarApart` lets connection numbers repeat after 2^32 accepts;
`BodyAsWritten` and `HeaderOfWholeLines` let the last byte of a full buffer be a
NUL, and the first says nothing once `append()` has run over a buffer's end; `LookupFinds`
ends where the first trailer begins, because trailers are added behind the sorted
fields, where a binary search may miss them or, with them, a field;
`RoutedToOwner` is about URLs that end with their path, since a query spoils the
comparison (`query_string`); `LifeCycle` is about the modules in the table, since
`list_handler()` leaves out the one without a path, which is therefore never told
of the process or of connections; `StatusFirst` lets a field stand first after a
status line that is longer than a buffer, which `status()` drops without noticing;
`LifeEnds` is about configurations with a life timer, since without one (`LifeTimer:
-1`) a peer that always sends the next request keeps its connection; and
`NoneForgotten` and `Restored` count the forks that failed, since the monitor
never repeats them.

Two more disagreements have no run of their own. With a chunk count that is no multiple
of 64, which nothing checks, the bitmap's unused bits are 1, and an exhausted pool tries
the positions behind the arena before it falls back to `malloc()`, against the
assertion in `bitset::set`. The run `pool` has such a position, which is why
`BufferPool` leaves open what a buffer from outside the arena is; with `NDEBUG = FALSE`
in `MCIoBufs.cfg` TLC stops at the failed assertion. With the shipped 16384 there is no
such position. And the semaphore `acceptor_mutex(1)` excludes
nobody: its constructor sets a local variable in place of the member, so two workers
of `HttpService` are in `accept()` at once.

The violations are disagreements between the code and what its comments, log
lines, assertions or configuration say; `PROJECT.json` quotes both sides.

*Bounds.* The pool's instance exhausts the arena, crosses a block edge and has an unused
position in the last block. The
connection's buffers are shorter than its requests, so that a request spans
several buffers and a buffer holds parts of two requests; the number of requests and
bytes has no bound, only the six bytes that can be under way, enough for two buffers
of them and for pipelined requests; the requests exceed each limit by the slack and
by more. The service's counter wraps around and both workers run out of
descriptors. Two deaths let both workers die between the reaping and the forking
of one check, or a restarted one die again; five processes are enough for the
largest tree of forks two workers can make, and for the table to be full once a
worker has been restarted. The redis
channels fill up with the replies of one timed-out request. A response's texts
leave room, fill a buffer exactly, or are longer than two; two of the last kind
give a list of five buffers, where `append()` adds two without undefined
behaviour. The Date fits behind a short status line, and takes the place of one that
is too long. The stream of `dispatch` has fields with
names that are prefixes of each other, occur twice and have an empty value, a
request without fields and body, and a chunked body with a trailer; in buffers of 5
bytes every text is split at every place and requests share buffers. Two of its
files have the same path but for case, one has none, one is no library and one
throws.

*Deadlock.* Checked for the pool. The other systems may stop: the connection is
gone, the clients are exhausted, no worker dies any more, the bound on
transactions is reached, the handler has made its calls, the
connection of `Dispatch` is closed.

*Fairness.* The scheduler runs every coroutine that can go on and every timer
that is due: weak fairness of the coroutine's steps (a handler that ends at
last included) and of the idle timer in `HttpConnection`, of the accept coroutine in
`HttpService`, of the timed waits of a handler in `RedisModule`, and of each
process in `Master`. `LifeEnds` asks, as its premise, for strong fairness of
the life timer: a timer runs when the coroutine waits, and one whose next bytes are
always there already is not kept in one wait for long, but waits again and again.
Nothing is assumed of peers, clients and redis, nor that a
connection ends in `HttpService`: with no descriptor left the accept loop spins,
and whether other coroutines then run is up to libgo.

*Reset clients.* When `remote_endpoint()` throws in the constructor, the
exception leaves the accept coroutine: `accept_throws` in `HttpService`, a death
in `Master`.

*The semaphore.* As the code is, `semop()` fails and nothing is excluded. Note
that `semop()` is not a call libgo replaces: with a working semaphore a worker
would block as a whole, connections included, while another waits in `accept()`.

## Proofs

Each section names the theorems, the inductive invariant behind them and why it is
needed. They hold for every value of the constants that the `ASSUME`s of the
modules allow. The theorems about `TypeOK` (`PoolTypes`, `ConnectionTypes`, `ServiceTypes`, `MasterTypes`,
`RedisTypes`, `ResponseTypes`, `DispatchTypes`) rest on the same invariants.

**IoBufsProofs**, for every arena size, block width and set of holders:

* `PoolSafe`: `TypeOK`, `BitmapMatchesUse` and `Exclusive` are invariants. Their
  conjunction `IInv` is inductive (`PoolExclusive` and `PoolTypes` state parts by
  themselves); the lemmas say what `find_first` returns and that `set` changes one
  bit only (`DivMod`, `Split`, `SetOneBit`).
* `PoolRefinement`: the pool implements `BufferPool`, for every chunk count, whole
  blocks or not. It rests on `IInv`, by which the free bits are the chunks nobody holds,
  and on `find_first` returning the first of them (`FindFirst`): if that is behind the
  arena, no chunk is free.
* `BitsetComputes`: `BitsetOperations`; `BitsetOrder`: `BitsetPairs`. The properties
  are about one state, so all that is needed of the pool is `TypeOK`; the argument is
  about the operators. `Of(n, S)` is the bitset of `n` bits with a 1 at exactly the
  positions `S` and its unused bits 0. Whatever the pool's bitmap holds, a `resize()`
  of it is such a bitset (`BitmapOf`, from `ZeroUnused`), and so is every bitset with
  clean unused bits (`BitsetOf`, from `Canonical`). One lemma per operation then says
  that it maps `Of(n, S)` to the `Of` of the right set: `FillFacts`, `ShlFacts`,
  `ShrFacts`, `ResizeFacts`, `SetBitFacts`, `FlipBitFacts`, `PushFacts`, `AppendFacts`,
  `PairFacts`; `FindNextFacts` and `CountFacts` say what the two queries return. The
  arithmetic is in `Places`, `Sized`, `ShiftPlaces` and `PlaceOrder`: which block and bit a
  position is, where in the last block the size ends, and where a shifted bit comes
  from. `count()` is a loop over the blocks: its partial sums are the cardinalities of
  the positions before a block, and the least block at which the loop would differ
  from them leads to a contradiction. The order rests on the first block in which two
  bitsets differ and, in it, the highest bit (`Decides`, `WordOrder`).

**HttpConnectionProofs**, for all buffer sizes, limits and requests:

* `ConnectionSafe`: `TypeOK`, `NoByteLost` and `TimersGuardTransfers`
  (`TimersGuard` and `ConnectionTypes` state parts by themselves).
* `LimitSlack`: `LimitsHold`.
* `MemoryBound`: `MemoryBounded`.

Their inductive invariant adds what the properties leave open: every buffer but
the last is read to its end, and a buffer is only added when the last is full
(`BuffersInv`); how far the parser is in each phase (`ParserInv`); that the
sizes account for the buffers filled in this request (`SizeInv`); where each
timer can be armed (`TimerInv`). Without the first, freeing buffers could drop
unread bytes; without the third, nothing bounds the number of buffers.

**HttpServiceProofs**, for every width of the counter and every number of workers,
descriptors and clients:

* `ConnectionNumbers`: `IdsFarApart`. The inductive invariant ties the counter and
  the numbers to the accepts modulo `Conids`; the lemmas are about remainders.
* `ServiceTypes`: `TypeOK`, descriptors within their limit included. That a worker
  never accepts more than the bound on clients needs `Queued`: what it has accepted
  and what still waits are together no more than the clients there have been.

**MasterProofs**, for every number of workers and processes, with every fault
switched on:

* `MonitorBooks` and `MasterTypes`: `NoneForgotten` and `TypeOK`. The inductive
  invariant keeps books for every process, not only for the monitor, because a
  worker that has fallen back into a loop is a monitor too (`BooksInv`), and says
  that ended processes have no children, that a monitor that waits has no forks
  left to make and that nobody is its own parent (`PlacesInv`). Each action is a
  change of one or two sets of children by one element or by the zombies, whose
  cardinality the finite-set theorems give.
* `ForksBounded`: `ForkTreeBounded`. A process is told apart from all others by the
  forks, numbered by what was left to do, of which it or the ancestor it was copied
  from was the child. `TreeInv` says that such sets exist, that their numbers are
  behind the loop of the process, and that any two processes differ in a fork both
  have behind them. A fork gives the child the parent's set and the number of this
  fork; from then on it is behind both. The sets are subsets of `1 .. process`, of
  which there are `2 ^ process`.

**RedisModuleProofs**, for every set of connections, number of servers and requests,
and capacity of either channel:

* `RedisOrder`: `RepliesInOrder`; `RedisMatch`: `RepliesMatch`; `RedisTypes`:
  `TypeOK`.

`RepliesInOrder` says that the replies in a connection's channel, the command its
server's coroutine works on and the commands in that server's queue follow each
other without a gap between the two replies of a command. It is not inductive: the invariant `Inv` adds that a
connection's commands are with its own server only (`CommandOK`, `QueueOK`), and that
none is newer than the transaction at hand (`ReplyOK`). `RepliesMatch` needs more:
while no pop has timed out, nothing of a connection is under way outside its pops
(`Quiet`), and in them everything under way answers the request at hand, beginning
with the reply that is due (`FirstToCome`, `Matching`).
This is where a timeout breaks the match (`redis_stale_reply`): it leaves a reply
of an earlier transaction behind.

**ResponseProofs**, for every buffer size, set of lengths and order of calls:

* `HeaderWhole`: `HeaderOfWholeLines`; `StatusComesFirst`: `StatusFirst`;
  `BodySent`: `BodyAsWritten`; `ResponseTypes`: `TypeOK`.

`HeaderOfWholeLines` is inductive with the types (`HeaderOK`). `StatusFirst` is not:
`header()` only checks that a status has been set, and a status line that does not
fit is dropped. `StatusWritten` adds that a status once set has had its line, and
`EmptyHeader` that what was dropped from a header still empty is longer than a buffer;
a field that comes first has therefore such a status line before it. `BodyAsWritten` needs `OwnBuffers`: as
long as nothing is spoilt the list of the body's buffers names all buffers taken from
the pool, each once, so that a text written to the last cannot show up in another.
`append()` over the end of a buffer is what breaks that.

**DispatchProofs**, for every set of files, every order and outcome of loading, every
stream and buffer size, and every `toupper()`:

* `RequestsReachOwner`: `RoutedToOwner`. It is not inductive: it says nothing of the
  table before a request is there. `TableInv` says that the table holds, for each
  path, the first module created for it and no other, which every turn of `setup()`
  keeps because the equality of paths is an equivalence; `MatchesOwner` derives from
  it that `match_handler()` yields the owner of any text at all; and the choice made
  at the header is kept until the body because no step in between touches the URL or
  the table. That the URL the choice is made from is the one that was sent is
  `DeliveryRefined`, below.
* `ModulesTold`: `LifeCycle`. The inductive invariant `LifeInv` gives, for every
  stage of the worker, what each module has been told by then (`Story`): no
  request before the stage of headers, the header of the transaction at hand when the
  body is waited for, no end of the connection before the last stage.
* `TreeFindsLongest`: `TreeMatchesLongest`. `Holds` says what a tree is after `k`
  insertions: its nodes are the prefixes of what was inserted, the value of a node is
  the last one inserted there, and `values_` has each value once. An insertion keeps it
  (`HoldsNext`), so the whole tree has it (`GrownHolds`). A walk down the tree meets a
  value after `n` characters exactly if a prefix of this length was inserted (`Met`),
  and `SearchFacts` shows that the last value met is the one `LongestPrefix` chooses.
  The series is the one of the modules' paths, of which `TableInv` gives the types.

**DeliveryProofs**, for every stream of well-formed requests, every buffer size, every
split of the bytes into reads and every set of names asked for:

* `DeliveryRefined`: `ImplementsDelivery`, the refinement of `RequestDelivery`.
* `NothingRefused`: `NoneRefused`; `LookupsFind`: `LookupFinds`; `DispatchTypes`:
  `TypeOK` of `Dispatch`.

The inductive invariant `DeliveryInv` says, for every place in a request where the parser
can stand, what the request object holds there. `CodecInv` does so per part: the beginning
of the url (`InUrl`), the whole lines before and the beginning of a name or a value in
the line at hand (`FieldsAt`, with `Whole` and `Partly`), after the header the fields in
some sorted order (`HeadSorted`), and in the body slices that together hold the bytes up
to here (`HeldBy`). `WhereInv` says that bytes that came later lie at later places and
that those not yet parsed lie one behind the other, so that a slice grown by the
length of a read still names the bytes of the body. Without the places the refinement
does not follow: the body is delivered as slices, and that they name the bytes sent is
a fact about memory, not about the parser. `DeliveryInv` adds that a handler called for
the body has had the header.

The lemmas come in four groups. What a sequence joined from parts looks like at every
place (`Joined`) is proved by the least place at which it would differ, not by an induction
theorem; from it follows where each url, line, chunk and body lies in the stream
(`LineFacts`, `HeadFacts`, `BodyFacts`, `WireFacts`, `RequestAt`). What one callback gets
(`RunFacts`: a run of bytes of one kind that ends within its text). One lemma per callback,
which says how far it moves on. And, for `LookupFinds`, that the order of the names is
total (`LessIrreflexive`, `LessSplits`, `LessTotal`) and that `lower_bound` halves down
to the first name that is not less (`BoundParts`, `BoundFinds`).

The assumptions are those of `Codec` and `Routing`: a buffer has at least one byte; the stream
has requests with a url, and names of fields, that are not empty, and trailers only after
chunks, all of which http_parser makes sure of before it calls back.

Every safety property of the passing runs, refinements included, is stated by one of these
theorems. Model-checked only is liveness (`TransfersEnd`, `LifeEnds`, `ClientsServed`, `Restored`,
`ZombiesReaped`, `HandlerReturns`), which TLAPS does not support under fairness. Where a
definition is recursive (`LineEnd`, `shr_loop`, `count`, `Grown`), the function is
shown to exist and its values are found by the least argument at which they would
differ, since the induction theorems of the library cannot be instantiated; what
`shr_loop` computes in more than no turn at all is not stated, because it is not a shift.

## Not modelled

* Vendored code: by far most of the lines in the repository are the copies of asio
  1.10.8 and doctest under `src/src/3rd`. asio is modelled as the server uses it
  (a read brings any number of bytes, an accept yields a client or fails); its
  inside is not what this project is about. The server's own code is about 3600
  lines.
* `load_config()`: one pass over a YAML file before anything runs; its results are
  the CONSTANTS. (`MaxBodySize` from 2048 on overflows the `int` it is multiplied
  in.)
* Loading of shared libraries beyond its outcome, YAML parsing, logging,
  formatting (I/O); the wording of responses; `bitset::to_string()`.
* The default and hello modules: no state, one fixed response.
* `http_service::stop()` and the exit of `start()`: `start()` runs on a copy of
  the service, so `stop()` does not reach it. The death of the monitor process.
* `http_request::reset()`, which nothing calls.

## Plan

Done: the pool with all of `bitset`, the connection, the accept service, the
process manager, the redis module, the response, the codec, the module registry
and their composition, `lpmtree`; proofs of every safety property the runs check.

Next, in this order:

1. `Worker`: connections, pool and redis module composed: every buffer a
   connection took is given back.
2. The refinement of a per-connection reply queue by the redis module up to the
   first timeout.
