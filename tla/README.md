# A TLA+ model of the ds4 serving host and its native runtime

This directory models, checks and proves parts of ds4-dfm-rs: the Rust host that
accepts HTTP requests, queues them, runs them on one inference engine and streams
the answers, and the C runtime below it that shares state between threads,
processes or machines: the distributed pipeline, the page cache of the per-layer
embeddings, the memory governor and the disk store of checkpoints. The model is
translated from the source; `PROJECT.json` gives the lines of every definition.

## 1. The system

| component | state it keeps | operations | how it interacts |
|---|---|---|---|
| HTTP front end (`serve.rs`: accept thread, `handle_client`, `prepare_client`) | the socket of one client | accept, read, parse, answer errors, queue a job, drain its output | takes a `ClientLease`; sends an `OwnerJob` over the jobs channel |
| Admission (`admit.rs`) | `queued`, `clients`, `inflight_body_bytes`, `stopping` | `preparse_shed`, `enqueue`, `queue_unlink_head` | under the server mutex, from client threads, the owner and destructors |
| Output sinks (`serve.rs`: `SinkBuffer`, `SinkState`, `JobSink`) | bytes buffered for one client, gone / slow / closed | `write`, `flush`, `take`, `cancel`, `commit_tool_terminal` | written by the owner, drained by the client thread; charges the aggregate backlog |
| Inference owner (`serve.rs`: `owner_loop`, `run_owner_job`, `run_serial`) | the job it runs, the serial session | receive, shed by age, hold, refuse, resize, generate, settle, shut down | hands the `JobLease` back over the job's done channel |
| Continuation registry (`cont.rs`) | vector of records (live frontier or replay only), index of the live serial record, reference counts, clocks | publish, demote, expire, prune, pin, unpin, resolve, claim, protect, hold | under the server mutex; queried at parse, enqueue, placement and commit |
| Continuous and static lanes (`serve_cont*.rs`, `serve_owner_cont.rs`, `serve_static*.rs`, `serve_owner_static.rs`) | banks, rolling table, one job of lookahead | admit, place, evict, settle | the owner routes batchable jobs to them |
| Generation driver and session ledger (`generate.rs`, `ds4-core/session.rs`) | tokens committed, generation counter | plan/commit sync, rewind, invalidate, decode | called by the owner; its generation and frontier are what the registry compares |
| Tool memory, retry, parse, render, stream | LRU of exact tool blocks; otherwise none | text to text | client threads (parse) and owner (render, stream) |
| Disk KV store (`ds4_kvstore.c`; ported in `ds4-kv`) | checkpoint files and an index of them | stage, commit by rename, evict to budget, rewrite trailers and hits in place, look up by prefix | used by the session at save, restore and shutdown; several processes may share the directory |
| Distribution (`ds4_distributed.c`; ported in `ds4-dist`) | coordinator: worker registry, route plan, timeline; worker: token timeline per session, receive queue, window of forwarded requests | sync, eval, pipelined prefill, replay after a failure, relay, reconnect | TCP frames from hop to hop; sender, reader, relay and prefetch threads |
| PLE page cache (`ds4_ple.c`, `cuda/qwen38_ple.cu`) | slots in sets, leases, work queue | request a page, lease rows, gather tile by tile, release by a stream callback, close | I/O workers read pages unlocked; the CUDA stream gives leases back |
| Memory governor (`ds4_mem_gov.h`, `ds4.c`) | leases of the memory consumers, epoch | publish, evaluate, epoch-protected copy, fund check, trims | consulted before banks grow and session graphs are built |
| Native engine (`ds4.c`, CUDA, Metal) | weights, device KV state | numeric kernels | behind FFI |

What is hard in it: an owner and a client thread act on one sink without waiting
for each other; a client can vanish at every point; checks made before parsing
are stale when the job is queued; a lease is returned over a channel and its
accounting happens in destructors; turns of different conversations compete for
one session under several clocks; shutdown must come after the last job. Below
the host, a coordinator commits its own layers before the workers answer, frames
of an abandoned connection are still evaluated, threads of a connection wait on
one another's queues, a slot is filled while the store is unlocked and read by a
kernel long after it was leased, and processes change a directory under each
other's index.

Properties that make each part correct: admission counters are exact and bounded
on all paths; every queued job settles once and is counted under one outcome; a
request counted as completed was delivered; no output stays charged for a client
that is gone; a turn is reserved only for a client that accepted its terminal;
a pinned continuation is neither forgotten nor evicted inside its deadline;
Retry-After values name the second a hold ends; shutdown is quiet; a call on the pipeline that
succeeds has the logits of its target on every node; each request of a worker is
answered once or the connection ends; the bytes under a lease do not change; a
torn ledger is never used; a grant is funded; a lookup never costs the session.

## 2. Modules

| module | models |
|---|---|
| `ServeJobs` | the life of a request: accept thread, client threads, admission, sinks, leases, the owner on the serial lane, stop and shutdown |
| `MCServeJobs` | the symmetry of its instances |
| `ServeJobsProofs` | its inductive invariant `JobsInv`, the sums over connections, and the theorems |
| `ContRegistry` | the continuation registry on its vector, with the clock, leases and the native generation/frontier as environment |
| `MCContRegistry` | instances of it |
| `ContTable` | what the registry promises, without vector, clock and ids |
| `ContRegistryProofs` | the registry's inductive invariant `RegInv`, its theorems, and that it implements `ContTable` |
| `SpanEval` | what evaluating a span of a prompt over a route promises |
| `DistPrefill` | the pipelined prefill: main, sender and reader thread of the coordinator; implements `SpanEval` |
| `DistSession`, `MCDistSession` | sync and eval of a distributed session over two workers, with recovery |
| `DistWorker` | the three threads of a worker's work connection |
| `PleCache`, `MCPleCache` | the page cache and the gathers that lease its pages |
| `GovLedger` | the snapshot protocol of the governor's ledger |
| `MemGov` | the evaluator, the funding of cache growth and the trims |
| `KvStore`, `MCKvStore` | processes on one directory of checkpoint records |
| `DistPrefillProofs`, `DistSessionProofs`, `DistWorkerProofs` | the distributed part, for any chunks, prompts, requests and windows |
| `PleCacheProofs` | the page cache, for any pages, ways, workers, rows and readers |
| `GovProofs` | snapshots and funding, for any readers, banks and box |
| `KvStoreProofs` | the directory, for any processes, texts and records |

### ServeJobs

A connection carries one request, so client threads (`cpc`), jobs, leases and
sinks are functions over `Conns`. Each action is the code run under one
acquisition of the sink and/or server mutex, or between two of them:

* accept thread: `Accept`, `AcceptStop` (leaves the loop), `AcceptExit` (sets
  `stopping`, drops its sender);
* client thread: `ReadAnswered`, `ReadShed`, `ReadJob` (prepare_client);
  `EnqueueRefused`, `Enqueue` (queue_client: counters, pin, lease, channel in one
  critical section); `DrainLook`, `DrainTake`, `DrainSend`, `DrainIdle` (the drain
  loop: look under the sink mutex, take, send without a lock, probe and
  heartbeat); `Settle` (done channel and `JobLease::drop`); `DrainClose`;
* owner: `OwnerRecv`, `OwnerSkipGone`, `OwnerShedAge`, `OwnerBegin`, then on the
  serial lane `OwnerHold`, `OwnerRefuse`, `OwnerResize`, `OwnerGenerate`,
  `OwnerChunk`, `OwnerFlushGone`, `OwnerError`, `OwnerPlainEnd`, and the three
  results of commit_tool_terminal `OwnerToolFull`, `OwnerToolGone`,
  `OwnerToolCommit`; `OwnerFinish`; `OwnerShutdown`;
* environment: `PeerLeaves`, `TurnAges`.

`Write` is `JobSink::write` with its three results. Sizes are in units: a chunk,
an answer and a terminal are one unit each. The registry is abstracted to the
live serial turn, whether its hold window is open, and which turn the session
ends with. `lost` and `sending` are observations: response units dropped, and
units between the sink and the socket. "Sent" means accepted by the socket, as
in the code. Sums over connections are sizes of sets of units (`BodyUnits`,
`OutUnits`): connection `c` with body `n` contributes `<<c, 1>>` to `<<c, n>>`. In
this form TLC evaluates them and the prover can add and remove a connection.

### ContRegistry and ContTable

`records` is the vector, newest first, `serial_live` the cached index (0 for
none). `publish`, `prune`, `remove_idx`, `demote_idx`, `expire` are operators on
the vector, named as in the source, so the index arithmetic is explicit. Time is
an integer number of ticks, `TickHz` ticks a second, and `Retry` is the code's
`(left + 0.999) as i32` on them. The code truncates a remainder of less than a
millisecond past a whole second, so its Retry-After falls short by that much: the
run's ticks are half milliseconds, so that this happens, and `WindowsAgree` says
what is true of it. The clock is read at the times in `Instants`. A native
(generation, frontier) pair is one number (`ref`): the code only compares pairs.

`ContTable` keeps only which record is live for each owner, which records are
known, and who holds references. `ContRegistry` implements it
(`ImplementsTable`): a run checks it and a theorem proves it. The pruning loop is
a recursive function over its iterations, of which `PruneStep` is one.

### SpanEval and DistPrefill

`main`, `sender` and `reader` are the threads, `ring` the send slots, `conn` the
socket to the first worker, `asleep` the threads inside a condition wait: a thread
in it only leaves when another signals, so a forgotten signal is a deadlock or a
liveness violation here. Sending takes two steps, so a slot given back too early
is sent torn. The worker side (`Answer`, `Refuse`, `PeerClose`) is external and may
answer out of contract. `SpanEval` has one chunk counter, one acknowledgement
counter and a verdict; `ImplementsSpan` maps the threads onto it.

### DistSession

`owner` is the coordinator's own timeline and logits, `worker` those of the two
workers, `plan` and `reg` the route in use and the registry, `link` the
connections, each with the frames still in it. A logit is the vector of the
timelines it was computed from on each node, so "right" means equal to the target
on all three. Failures (`Fault`) are counted by `MaxFaults`: an evaluation, a
reset, a send, a lost worker, a closed link, a timed-out receive.

### DistWorker

`Recv`, `Eval` and `Relay` are the three threads, `jobs` and `fwd` hold the bounded
queues, `up` what was written upstream. Both evaluation and relay answer and both
may shut the upstream socket down. A relay begins by allocating its buffer
(`RelayStarts`); without it (`RelayStarves`) it shuts upstream and returns, and
leaves the queue of pending requests open.

### PleCache

A slot is empty, loading, ready or in error, with a reference count; `data` says
which page's bytes it holds, so that overwriting under a lease is visible. A gather
fills a tile, waits, launches the kernel and leaves the release to the stream
(`StreamReleases`). The generation number of a work item is left out because
`ReadsOwnSlot` shows that it cannot differ.

### GovLedger and MemGov

`GovLedger` is word by word: writers bracket a lease replacement with the epoch,
readers copy between two looks. It justifies the atomic publication in `MemGov`.
`MemGov` counts pages: banks that grow to their credit, the serial session, the
graph pool, other processes, and the ledger as last published; `mode` is
`ds4_gov_mode`. The funding check looks at the memory before the trims and again
after each one that released something, and each look may fail (`Looks`), as may
the governor's own; a failed look is no limit, and the session's fit gate fails
open in the same way (`Fits`). `over` is a history variable: the pages the quote of
the last grant took for resident although a trim had given them back; `blind` says
that some growth was granted on no look at all. `DS4_SERIAL_RESERVE_CTX` is off by
default: `mem_gov` turns it on, `mem_gov_floor` leaves it off. The projection's
safety band and unpromoted substrates are zero.

### KvStore

`file` is every file written, `dir` what each name refers to, so a process that
has a file open keeps it when the name is unlinked or renamed over. The steps are
the points between which another process can act: look, unlink, refresh, one
unlink per victim, write, rename; truncate, append, header; find, open, load,
touch. A text is its own hash, `ctx` stands for all stamped header fields, and any
record may be the victim: the score decays with time. A crash loses the process; a
power cut leaves a record short, since nothing is synced. Temporaries a crash
leaves behind, and short records, are not in the budget the code counts: neither
is it in the model's. `total` is the sum an eviction pass has in hand; `Stored` and
`Listing` are the bytes under the names and in an index, again counted as units.

## 3. Runs

| run | instance | what it shows |
|---|---|---|
| `serve_jobs` | 2 connections, fresh or follow-up, queue of 1, bodies of 1 and 2 against 3, sink and aggregate of 2 units, up to 2 chunks | `TypeOK`, `AdmissionAccounted`, `OutcomesAccounted`, `BodyAccounted`, `HaltedIsQuiet`, `BacklogAccounted`, `OutputSettled`, `TurnWasAccepted`: both connections pass the stale pre-parse check while the queue has one place; own overflow, aggregate eviction, disconnects on both sides, a follow-up racing the turn it names |
| `serve_live` | 2 connections, `FairSpec` | `JobsSettle`, `StopHalts` |
| `cont_registry` | 1 bank and the serial session, 2 leases, 3 publications, capacity 1, four instants of a clock of half milliseconds | `VectorSound`, `PinPromise`, `PinProtects`, `WindowsAgree`, `NoRevival`, `PruneComplete`, `ImplementsTable` |
| `dist_prefill` | 5 chunks, 2 slots, window 4, 2 frames on the wire | `TransferSound`, `VerdictHonest`, `Returns`, `ImplementsSpan` |
| `dist_session` | 2 calls, prompts of 1 and 2 tokens, 2 connection epochs, 1 fault | `NodesInStep`, `AnswersExact`, `SameIsFresh`, `CallReturns` |
| `dist_session_logits` | the same | violates `SyncLogits` (section 5) |
| `dist_worker` | 3 requests, receive queue of 1, forward window of 2 | `AnswersSound`, `AnsweredOrEnded`, `LoopEnds`: the loop ends, or a relay without a buffer has abandoned the evaluation thread (section 5) |
| `ple_cache` | 2 readers, 1 I/O worker, 4 pages in a set of 3 ways, a request ahead, a failing read | `LeasesHonoured`, `LoadsSound`, `GatherReturns`, `CloseEnds` |
| `gov_ledger` | 1 writer, 2 readers, 2 publications, 2 attempts | `SnapshotCoherent`, `StampIdentifies` |
| `mem_gov` | 2 banks in a box of 9 pages, both modes, a word of 9, a reserve of 3 | `GrantsCovered`, `LedgerSound`, `CreditedKeepsPages` |
| `mem_gov_floor` | the same box, enforcing and without a reserve: the defaults | violates `GrowthFitsFloor` (section 5) |
| `kv_store` | 2 processes of context 1 and 2, 2 texts that do not fit together, 3 stores, 1 lookup, 1 crash, power cut or failed write | `RecordsTrue`, `LookupSafe`, `BudgetKept` |

All runs but `dist_session_logits` and `mem_gov_floor` pass, each in under three
minutes. A property
that is a conjunction names its parts, each with its own comment in the module.

Bounds: `MaxChunks` (chunks before a terminal), `MaxTime` and `Instants`
(the times the clock is read), `MaxRid`
(publications), `MaxRef` (native states), `MaxCalls`, `MaxEpoch`, `MaxFaults`,
`MaxGathers`, `MaxPrefetch`, `MaxErrors`, `MaxPublishes`, `MaxSnapshots`,
`MaxOutside`, `MaxPool`, `MaxStores`, `MaxLoads`. Two connections meet in every pair
of places (one running, one queued; one writing, one evicting; both holding a
stale check). The limit on clients needs a third and is not met in a run; the
theorems have it. Publications on capacity 1 let the vector outgrow its
limit by pinned and live records and shrink again. Five chunks go round both
slots twice and exceed the window. Two calls and two epochs are what a late frame
needs: one call is abandoned, the next runs on the new connection. The two
readers' rows need all four pages of a set of three ways, so each must wait for
the other's leases. Three stores are what replacing a record behind a lookup
takes: the record, one that evicts it, and its successor.

Deadlock is not checked where the system may stop (halted server, closed store,
ended connection) or where a bound runs out; it is checked in `dist_prefill`,
whose returned call stutters, and in `mem_gov`. Symmetry is used only in runs
without liveness, over connections or leases, which are only compared for
equality.

Fairness. `serve_live`: weak fairness of the owner, of each client thread as a
whole and of the accept thread's exit. The owner never waits for a client (sink
writes do not block), socket reads and sends have timeouts, the drain's condition
variable waits with a timeout, so a runnable thread makes a step. Nothing is
assumed of clients: `PeerLeaves` and the choice between a successful and a failed
send are unfair, and no request to stop is assumed. `dist_prefill`,
`dist_session`: weak fairness of the coordinator's threads, none of the workers:
a receive that gets nothing fails after the socket timeout that
`dist_set_socket_low_latency` sets. `dist_worker`: weak fairness of its three
threads; the neighbours may be silent for ever. `ple_cache`: weak fairness of each
worker, reader and of the closing thread (they are scheduled and a `pread`
returns), and of the stream callbacks, which CUDA runs in order; after a sticky
CUDA error it does not, and the code then keeps the leases: not modelled.

## 4. Proofs

Every invariant and every action property of the runs is proved by TLAPS for all
values of the constants, and so is the refinement of `ContTable`. Each theorem
`Spec => []P` rests on an inductive invariant in the same module: it holds
initially, every action keeps it (one lemma or step per action), and it implies
`P`. What the invariants add to the properties, and why:

**ServeJobsProofs**: `TypesHold`, `AdmissionExact`, `OutcomesExact`,
`OutputIsSettled`, `LiveTurnAccepted`, `ShutdownIsQuiet`, all from `JobsInvariant`
(`Spec => []JobsInv`), and `BodyExact`, `BacklogExact` on top of it; for any finite
set of connections and any limits.

* `LeaseFollowsClient`: where the lease is at each point of the client thread, a
  queue slot is held exactly while the lease is in the channel, and pins are gone
  with the lease. Without it a destructor could run twice.
* `LeaseFollowsOwner`: the channel holds each queued lease once, the owner holds
  the running one, and a halted owner is `Disconnected`. This is why the queue
  count is positive at `OwnerRecv`, and why a halted server is quiet.
* `SinkStates`: a closed sink's lease left the owner, lost output means a sink
  given up, and a thread that awaits its lease has drained or given up its sink.
  `CompletedDelivered` follows when `Settle` looks at `gone`.
* `TurnIsPast`: the running job is not yet the live turn, so changing its
  settlement cannot spoil `TurnWasAccepted`.
* `Charged`, `IdleEmpty`: that the backlog stays within the cap plus
  `|Conns| * Slack` is not inductive, since a drain lowers the sum and small
  writers then fill up again. What is: the units *beyond* the first `Slack` of each
  sink are within the cap, because a write past that size is only buffered when
  the whole backlog fits.

Counters are related to sets, and each action is reduced to the one connection or
the units that enter or leave a set (`FS_AddElement`, `FS_RemoveElement`,
`UnitsSplit`, `UnitsEmptied`, `UnitsGrown`). Assumptions: `ConnsAssumption`,
`LimitsAssumption`.

**ContRegistryProofs**: `VectorSoundHolds`, `PinProtectsHolds`, `NoRevivalHolds`,
`PruneCompleteHolds`, `PinPromiseHolds`, `WindowsAgreeHolds` and
`RegistryImplementsTable`, all from `RegistryInvariant` (`Spec => []RegInv`), for any
banks, ids, protocols, limits and history and finitely many leases
(`LeasesAssumption`).

* `VecOK`: the vector is typed, newest first, has at most one live record per
  owner, and the cached index is that of the serial owner's. `NewestFirst` is part
  of it because only the order makes ids unique, and unique ids are what lets
  `unpin` find its record again after the vector has shifted.
* `Fresh`: ids in the vector were given out before the next one.
* `RefsExact`, `PinsKnown`: a record's `hard_refs` is the number of leases that hold
  it and what a lease holds is in the vector. Neither is inductive alone: a prune
  spares a record only for its count, and an unpin lowers a count only if the
  record is there.
* `Covered`: a record's pin expiry is not before the deadline of any lease on it,
  whichever lease pinned last. `PinProtects` follows.

`prune` and `expire` are treated as what they leave: a subset of the records, or the
same records some of them demoted (`Pruned`, `Aged`). That the loop has run to its
end after as many iterations as there are records is proved by showing that its
function exists (`PassesExist`) and that each iteration removes a record or is
settled (`PruneStepOK`), by induction on the iterations over a set (`CountUp`).
Refinement is proved call by call: a publication is a `TPublish` with the pruned
records as its `drop`, expiry and demotion are a `TLapse`, a pin that first expires
records is one `TPin`. `WindowsAgreeHolds` is about a clock of any resolution: the
Retry-After and a millisecond more is enough (`RetryCovers`, `WaitEnds`), and a
second less is not (`WaitNeeded`).

**PleCacheProofs**: `LeasesHonouredHolds`, `LoadsSoundHolds` from `CacheInvariant`
(`Spec => []PleInv`), for any pages and hash, any number of sets and ways, any
workers, row lists and tile, any finite set of readers, batched or not
(`LayoutKnown`, `TileKnown`, `RowsSpanPages`, `FewReaders`). Of `FewReaders` the proofs
use only that the readers are finitely many; that there are fewer of them than ways
is what the liveness run needs.

* `Placed`, `OneEntry`: a page that is not empty is in a way of its own set, so a scan
  of the set sees every copy there could be. `OneCopy` is not inductive without it.
* `Loads`: the queue has no repetition, queue and workers are disjoint, and between
  them they have exactly the slots that are loading. It is why a worker that
  finishes, with the store unlocked since it began, still writes the slot it was
  given for, and why the queue is never longer than the slots.
* `ReaderOK`, `WantsV`: what a gather holds at each point: the first page of a row
  only of a row with two, no lease while it fills, a slot awaited only between
  request and answer, and that slot still assigned to the page it asked for.
* `LeasesV`: `LeasesIntact`; `RefsV`: `RefsExact` with the finiteness of the three sets
  it counts. They need each other: a slot is recycled only at count zero, so no
  lease is on it, and a lease is taken only on a slot that is ready.
* `FaultsV`: while a failed read is still referred to, every gather under way is
  marked as having met a failure. `FailureIsFresh` alone does not say why a gather
  that hits another's failed slot is marked.
* `EngineInv`: past `open` every reader is idle, past `drain` every stream is empty, at
  `freed` every worker is gone.

Reference counts are cardinalities of sets of (reader, lease) pairs and (reader,
tile, lease) triples; one lemma per kind of change says how they move (`RefsTaken`,
`RefsLeased`, `RefsAcquired`, `RefsSent`, `RefsReleased`, `RefsReturned`,
`RefsDropped`). The leases of a tile are told apart by the place they serve, so
two rows on one page are two references.

**DistPrefillProofs**: `TransferSoundHolds`, `VerdictHonestHolds` from `PrefillInv`,
for any number of chunks, slots, any window and any capacity of the wire.
`RingInv` says that the queued slots hold the chunks after the last one written and
that the slot being filled is not among them, so a frame is never torn although
the sender reads its slot without the lock; `FlowInv` that every frame written is on
the wire, answered or taken by the reader, which bounds the flight; `WireInv`,
`ReplyInv`, `LostInv` relate what was answered to what was evaluated; `FaultInv` that
whatever stopped a thread is on record, so a failure's code is honest.
`PrefillImplementsSpan` is the safety part of `ImplementsSpan`: the initial state
maps to `SpanInit` and every step to a step of `SpanEval` or a stutter.

**DistSessionProofs**: `NodesInStepHolds`, `AnswersExactHolds`, `SameIsFreshHolds` from
`SessionInv`, for any prompts, calls, connections and failures. `LinksOK` is the
heart: every frame or result on *any* connection, abandoned ones too, stands for
the timeline its hash names on each node it has passed, and those of the running
span lie behind its position; so a late frame is either refused or right.
`SpanOK` and `PlanOK` relate the owner's slice to the target and a reused plan to the
registry.

**DistWorkerProofs**: `AnswersSoundHolds` from `WorkerInv`, for any requests, depth and
window. `Chain` puts the requests in evaluation, in the queue and in hand in the
order they were read; `Travel` says where those that left the evaluation may be, and
that only an error may be about a request still in hand; `Lives` says who runs as
long as whom.

**GovProofs**, the ledger: `SnapshotCoherentHolds`, `StampIdentifiesHolds` from `LedgerInv`, for
any readers, consumers, values and attempts, under the hypothesis `OneWriter`, which
is the header's own precondition (section 5 has what happens without). `EpochOf`
ties the epoch's parity to the writer's place, `CopyOf` says that a reader's copy so
far is the ledger as long as the epoch has not moved.

**GovProofs**, the funding: `LedgerSoundHolds`, `CreditedKeepsPagesHolds` (an action
property) and `GrantsCoveredHolds`, for any banks, any box a word can count, any
reserve and sessions, and both modes. `LedgerSound` is inductive as it stands,
`GrantsCovered` together with it and with `SerialLease` (`FundInv`): an enforced quote
protects the reserve and the debts of the *ledger*, so the proof needs that the
serial lane's lease still carries the reserve and owes nothing. A grant is covered
by the look it was decided on (`LegacyFits`), which `FundCheckTrims` shows to be one of
the memory as the trims left it, or by the quote, whose error is `over`
(`QuoteFits`). What a session, the pool or another process takes cancels out of
`PromisesKept`: the rows' debt is charged to what the lane has mapped. `SumOver` is a recursive function over the banks; its laws (monotony,
change of one bank) come from an induction that the module derives from the
least-element principle (`WFMin`, `NatLessThanWellFounded`), stated over sets of
naturals because the library's induction theorems take an operator.

**KvStoreProofs**: `RecordsTrueHolds`, `LookupSafeHolds` from `StoreInv`,
`BudgetKeptHolds` from `BudgetInv` beside it, for any processes, contexts, texts and
records. `Recalls` is what makes the headers inductive: a header a process read and
will write back describes the *file* it was read from, whatever its name refers to
by then. `Counted` says that what a pass has in hand is what its index lists, and
that the directory exceeds it by no more than others added since; `Private` that a
temporary belongs to its writer until the rename.

Only model-checked: liveness (`JobsSettle`, `StopHalts`, `Returns`, `CallReturns`,
`AnsweredOrEnded`, `LoopEnds`, `GatherReturns`, `CloseEnds`) and the fairness part of
`ImplementsSpan`: fairness and ENABLED are outside the prover.

## 5. Where code and comments disagree

* `dist_session_logits`. A sync that fails leaves the coordinator's checkpoint
  ahead of the workers: its own slice is committed before they answer. If the
  replay then fails to find a route, before the reset, a retry of the same sync
  finds the checkpoint equal to the prompt and returns success with the logits of
  an earlier state (`ds4_distributed.c:5284`). `SameIsFresh` says what does hold:
  the shortcut is right as long as no call failed since the evaluation.
* `mem_gov_floor`. The comment at `ds4.c:61807` says that "every admission spend must
  ALSO fit live free memory beyond the operator floor". By default the governor's
  quote decides, and it charges the claim less what the bank lease calls resident.
  Trims and reclaims publish no lease, so the quote can take pages for resident
  that were given back and taken by others since, and admits growth that does not
  fit. (Pages faulted in since the last publication are, the other way round,
  charged twice.) `GrantsCovered` says what does hold: the shortfall is never more
  than those pages.
* A relay without its buffer. When `dist_worker_forwarder_relay_main` cannot
  allocate (`ds4_distributed.c:6190`) it shuts the upstream socket and returns; the
  exits further down also close the queue of pending requests. An evaluation
  thread that waits for room in it (`queue_not_full`) then waits for ever, and the
  connection's loop never ends. `LoopEnds` names this state, `Abandoned`, as its one
  exception.
* Retry-After. `(left + 0.999) as i32` (`cont.rs:479`) is a ceiling for remainders of
  a millisecond and more only; a client that comes back on the second can find
  less than a millisecond of the hold left.
* Two writers of the ledger. `ds4_mem_gov.h:374` says that readers "keep
  discarding through the violation window" and that "parity self-heals". With
  `Writers = {w1, w2}`, `Coherent` fails: the second writer makes the epoch even
  while both still write; and an increment made of a load and a store can be lost,
  which leaves the epoch odd. The code has one writer thread; the tripwire reports
  more, it does not contain them.
* In-place trailers. `kv_cache_rewrite_trailer` cuts a trailer before it writes the
  new one, and evicts nothing for what it adds: a crash in between leaves the flag
  without a trailer, and the budget is exceeded until the next store. `BudgetKept`
  is therefore about stores. The Rust port stages the rewrite and checks the budget.

## 6. Not modelled

In the modelled parts: bytes and wording of HTTP; job ids; the direct sink used
for jobs not run by the owner; failure to spawn the accept thread or to clone the
probe socket; the trailing retry of a send inside its stall limit; HELLO
validation and the search for a route's layers; distributed snapshots; row hashing
and conversion kernels; the boot fit of the memory; a read error inside a payload;
restoring a bank from disk; a
reclaim that unmaps part of a bank and fails. The order buffer mutex before server
mutex is taken from the code: an action is a critical section, so a violation of it
would not show here.

Components with no module are listed in `PROJECT.json` with the reason. The byte
formats (parse, render, stream, tokenizers), the numeric kernels, the C server
that serves as oracle, the command line, build and benchmark tools are outside the
project's scope: most lines of the repository are kernels and model graphs, whose
correctness is numeric and not a question for a model checker.

## 7. Plan

1. `SerialLane`: session ledger, generation counter, resize and registry; a
   resolved continuation runs on the published content.
2. `RollingLane`: banks, reservations, lookahead, eviction, composed with
   `ContTable` and the funding check of `MemGov`; static coalescing.
3. Distributed snapshots, composed with `DistSession`. `ToolMemory`: LRU with
   shared blocks.
