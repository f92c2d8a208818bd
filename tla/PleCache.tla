------------------------------ MODULE PleCache ------------------------------
(***************************************************************************)
(* The page cache of the per-layer embedding store (ds4_ple.c) under its   *)
(* only client, the CUDA gather (cuda/qwen38_ple.cu).  A gather leases the *)
(* pages of its rows tile by tile; a tile's leases are given back by a     *)
(* callback of the stream once the kernel has read the pages.  Workers     *)
(* read pages into slots with the store unlocked.  Every action is one     *)
(* critical section of the store's mutex, or one step outside it.          *)
(*                                                                         *)
(* last_access clocks are kept as the order of the slots, oldest first.    *)
(* The generation that a work item carries is left out: ReadsOwnSlot says  *)
(* it could never differ.  The engine closes the store between gathers, so *)
(* the early returns of a gather that finds the store stopping are not     *)
(* taken.  Statistics are left out.                                        *)
(***************************************************************************)
EXTENDS Naturals, Sequences, FiniteSets, SequencesExt, FiniteSetsExt

CONSTANTS
  Pages,        \* pages of the sidecar files
  SetOf,        \* [Pages -> the set its hash selects]
  Sets,         \* number of sets
  Ways,         \* slots of a set, DS4_PLE_CACHE_WAYS
  Workers,      \* I/O threads
  Readers,      \* threads that gather, each on its own stream
  RowLists,     \* the row lists a gather may be given; a row is its 1 or 2 pages
  Tile,         \* rows of a tile
  Batch,        \* FALSE under DS4_PLE_NO_BATCH_ACQUIRE
  MaxGathers,   \* bound on gathers
  MaxPrefetch,  \* bound on pages requested ahead
  MaxErrors     \* bound on reads that fail

Slots == 1..(Sets * Ways)
WaysOf(p) == ((SetOf[p] - 1) * Ways + 1)..(SetOf[p] * Ways)

ASSUME LayoutKnown == Sets \in Nat \ {0} /\ Ways \in Nat \ {0} /\ SetOf \in [Pages -> 1..Sets]
ASSUME TileKnown == Tile \in Nat \ {0} /\ {MaxGathers, MaxPrefetch, MaxErrors} \subseteq Nat
ASSUME RowsSpanPages ==
  RowLists \subseteq Seq({<<p>> : p \in Pages} \cup Pages \X Pages) \ {<<>>}
\* A gather that waits for a slot may hold the first page of its row.
ASSUME FewReaders == IsFiniteSet(Readers) /\ Cardinality(Readers) < Ways

NoPage == "no page"
Torn == "torn"
NoSlot == 0

VARIABLES
  slots,     \* [Slots -> page, st, refs, awaited]
  data,      \* [Slots -> the page the bytes are, or Torn]
  lru,       \* the slots, least recently touched first
  queue,     \* slots waiting to be read
  worker,    \* [Workers -> pc, slot]
  reader,    \* [Readers -> pc, rows left, rows in the tile and their leases, lease of the row
             \* begun, slot awaited, failed]; leases are sets
  stream,    \* [Readers -> tiles enqueued, each the set of leases it holds]
  engine,    \* "open", "drain", "stop" or "freed"
  used,      \* how much of each bound is used
  faulted    \* readers during whose gather some read failed

vars == <<slots, data, lru, queue, worker, reader, stream, engine, used, faulted>>

\* A lease serves one place of a tile: a row, and the first or second page of it.
Lease == [place : (1..Tile) \X {1, 2}, page : Pages, slot : Slots]
Idle == [pc |-> "idle", rows |-> <<>>, n |-> 0, tile |-> {}, got |-> {}, want |-> NoSlot, failed |-> FALSE]

TypeOK ==
  /\ \A s \in Slots : /\ slots[s].page \in Pages \cup {NoPage} /\ slots[s].refs \in Nat
                      /\ slots[s].st \in {"empty", "loading", "ready", "error"}
                      /\ slots[s].awaited \in BOOLEAN
  /\ data \in [Slots -> Pages \cup {Torn}]
  /\ Len(lru) = Cardinality(Slots) /\ ToSet(lru) = Slots
  /\ queue \in Seq(Slots) /\ Len(queue) <= Cardinality(Slots)
  /\ worker \in [Workers -> [pc : {"run", "asleep", "read", "gone"}, slot : Slots \cup {NoSlot}]]
  /\ \A r \in Readers :
       /\ reader[r].pc \in {"idle", "fill", "page", "blocked", "ready", "await", "woken", "drop",
                            "enqueue", "abort"}
       /\ reader[r].n \in 0..Tile /\ reader[r].tile \subseteq Lease
       /\ reader[r].got \in {{}} \cup {{l} : l \in Lease}
       /\ stream[r] \in Seq(SUBSET Lease)
  /\ engine \in {"open", "drain", "stop", "freed"}

\* store_start: every slot empty, every worker running.
Init ==
  /\ slots = [s \in Slots |-> [page |-> NoPage, st |-> "empty", refs |-> 0, awaited |-> FALSE]]
  /\ data = [s \in Slots |-> Torn]
  /\ lru = [s \in Slots |-> s]
  /\ queue = <<>>
  /\ worker = [w \in Workers |-> [pc |-> "run", slot |-> NoSlot]]
  /\ reader = [r \in Readers |-> Idle]
  /\ stream = [r \in Readers |-> <<>>]
  /\ engine = "open"
  /\ used = [gathers |-> 0, prefetch |-> 0, errors |-> 0]
  /\ faulted = {}

-----------------------------------------------------------------------------
(* The cache. *)

\* s becomes the most recently touched: those behind it move up.
Touch(order, s) ==
  LET at == CHOOSE i \in DOMAIN order : order[i] = s
  IN  [i \in DOMAIN order |-> CASE i < at -> order[i]
                               [] i = Len(order) -> s
                               [] OTHER -> order[i + 1]]

Entry(p, s) ==
  slots[s].st # "empty" /\ slots[s].page = p /\ ~(slots[s].st = "error" /\ slots[s].refs = 0)

\* Mutant: a page that is being read is not found by the next request for it.
Matches_resident(p) == {s \in WaysOf(p) : Entry(p, s) /\ slots[s].st # "loading"}
Matches(p) == {s \in WaysOf(p) : Entry(p, s)}

Fresh(p) == {s \in WaysOf(p) : slots[s].st = "empty" \/
                              (slots[s].st = "error" /\ slots[s].refs = 0 /\ slots[s].page = p)}

\* Mutant: leases do not keep a page.
Evictable_leased(p) == {s \in WaysOf(p) : slots[s].st \notin {"empty", "loading"}}
Evictable(p) == {s \in WaysOf(p) : slots[s].st \notin {"empty", "loading"} /\ slots[s].refs = 0}

\* The scan keeps the last empty way, or else the least recently touched one.
Victim(p) ==
  IF Fresh(p) # {} THEN Max(Fresh(p))
  ELSE lru[Min({i \in DOMAIN lru : lru[i] \in Evictable(p)})]

SetWaiters == {r \in Readers : reader[r].pc = "blocked"}

\* pthread_cond_broadcast(state_cond): both kinds of sleeper wake.
Woken(rs) == [r \in Readers |-> CASE rs[r].pc = "blocked" -> [rs[r] EXCEPT !.pc = "page"]
                                  [] rs[r].pc = "await" -> [rs[r] EXCEPT !.pc = "woken"]
                                  [] OTHER -> rs[r]]

\* cache_release and release_rows wake the waiters for a slot, if any.
\* Mutant: the release wakes nobody.
WakeSetWaiters_none(rs) == rs
WakeSetWaiters(rs) == IF SetWaiters # {} THEN Woken(rs) ELSE rs

Hit(p, hold) ==
  \E s \in Matches(p) :
    /\ slots' = [slots EXCEPT ![s].refs = @ + hold]
    /\ lru' = Touch(lru, s)
    /\ UNCHANGED <<data, queue, worker>>

\* The victim is recycled and queued; cache_queue_locked signals one worker.
Recycle(p, hold) ==
  /\ Matches(p) = {} /\ Fresh(p) \cup Evictable(p) # {}
  /\ slots' = [slots EXCEPT ![Victim(p)] = [@ EXCEPT !.page = p, !.st = "loading", !.refs = hold]]
  /\ lru' = Touch(lru, Victim(p))
  /\ queue' = Append(queue, Victim(p))
  /\ LET sleepers == {w \in Workers : worker[w].pc = "asleep"} IN
       IF sleepers = {} THEN UNCHANGED worker
       ELSE \E w \in sleepers : worker' = [worker EXCEPT ![w].pc = "run"]
  /\ UNCHANGED data

SetFull(p) == Matches(p) = {} /\ Fresh(p) \cup Evictable(p) = {}

\* The slot that holds page p after a request for it, in the next state.
SlotOf(p) == IF Matches(p) # {} THEN CHOOSE s \in Matches(p) : TRUE ELSE Victim(p)

LeasesOn(s, leases) == Cardinality({l \in leases : l.slot = s})

\* Each lease takes, or gives back, one reference; none goes below zero.
Ref(leases) == [s \in Slots |-> [slots[s] EXCEPT !.refs = @ + LeasesOn(s, leases)]]
Unref(leases) == [s \in Slots |-> [slots[s] EXCEPT !.refs = Max({0, @ - LeasesOn(s, leases)})]]

-----------------------------------------------------------------------------
(* The I/O workers. *)

WorkerWaits(w) ==
  /\ worker[w].pc = "run" /\ engine \in {"open", "drain"} /\ queue = <<>>
  /\ worker' = [worker EXCEPT ![w].pc = "asleep"]
  /\ UNCHANGED <<slots, data, lru, queue, reader, stream, engine, used, faulted>>

\* From here on the bytes of the slot are in flux, with the store unlocked.
WorkerTakes(w) ==
  /\ worker[w].pc = "run" /\ engine \in {"open", "drain"} /\ queue # <<>>
  /\ worker' = [worker EXCEPT ![w] = [pc |-> "read", slot |-> Head(queue)]]
  /\ queue' = Tail(queue)
  /\ data' = [data EXCEPT ![Head(queue)] = Torn]
  /\ UNCHANGED <<slots, lru, reader, stream, engine, used, faulted>>

WorkerStops(w) ==
  /\ worker[w].pc = "run" /\ engine = "stop"
  /\ worker' = [worker EXCEPT ![w].pc = "gone"]
  /\ UNCHANGED <<slots, data, lru, queue, reader, stream, engine, used, faulted>>

\* The sleepers for this page and the waiters for any slot are woken.
WakeLoaded(s) ==
  reader' = IF slots[s].awaited \/ SetWaiters # {} THEN Woken(reader) ELSE reader

ReadSucceeds(w) ==
  LET s == worker[w].slot IN
  /\ worker[w].pc = "read"
  /\ data' = [data EXCEPT ![s] = slots[s].page]
  /\ slots' = [slots EXCEPT ![s].st = "ready"]
  /\ WakeLoaded(s)
  /\ worker' = [worker EXCEPT ![w] = [pc |-> "run", slot |-> NoSlot]]
  /\ UNCHANGED <<lru, queue, stream, engine, used, faulted>>

\* A short read or an errno of pread.
ReadFails(w) ==
  LET s == worker[w].slot IN
  /\ worker[w].pc = "read" /\ used.errors < MaxErrors
  /\ slots' = [slots EXCEPT ![s].st = "error"]
  /\ WakeLoaded(s)
  /\ worker' = [worker EXCEPT ![w] = [pc |-> "run", slot |-> NoSlot]]
  /\ used' = [used EXCEPT !.errors = @ + 1]
  /\ faulted' = faulted \cup {r \in Readers : reader[r].pc # "idle"}
  /\ UNCHANGED <<data, lru, queue, stream, engine>>

Worker(w) == WorkerWaits(w) \/ WorkerTakes(w) \/ WorkerStops(w) \/ ReadSucceeds(w) \/ ReadFails(w)

-----------------------------------------------------------------------------
(* The gather. *)

Goto(r, pc) == [reader EXCEPT ![r].pc = pc]

\* Between gathers the thread requests the pages of the rows to come; a page
\* whose set is full is dropped.
Prefetch(r, p) ==
  /\ reader[r].pc = "idle" /\ engine = "open" /\ used.prefetch < MaxPrefetch
  /\ \/ Hit(p, 0)
     \/ Recycle(p, 0)
  /\ used' = [used EXCEPT !.prefetch = @ + 1]
  /\ UNCHANGED <<reader, stream, engine, faulted>>

\* A failed read some gather still refers to: a second gather meets it too.
Held(s) == slots[s].st = "error" /\ slots[s].refs > 0

Gather(r, list) ==
  /\ reader[r].pc = "idle" /\ engine = "open" /\ used.gathers < MaxGathers
  /\ reader' = [reader EXCEPT ![r] = [Idle EXCEPT !.pc = "fill", !.rows = list]]
  /\ used' = [used EXCEPT !.gathers = @ + 1]
  /\ faulted' = (faulted \ {r}) \cup (IF \E s \in Slots : Held(s) THEN {r} ELSE {})
  /\ UNCHANGED <<slots, data, lru, queue, worker, stream, engine>>

Capacity(r) == Min({Tile, Len(reader[r].rows)})

ReadySlot(p) == {s \in WaysOf(p) : slots[s].st = "ready" /\ slots[s].page = p}
RowReady(row) == \A i \in DOMAIN row : ReadySlot(row[i]) # {}

\* ds4_ple_store_acquire_ready_rows: the longest prefix of the rows whose
\* pages are ready, under one lock.  The row that ends it may have had its
\* first page touched.
ReadyRows(r) ==
  LET ready == {k \in 0..Capacity(r) : \A i \in 1..k : RowReady(reader[r].rows[i])}
  IN  IF Batch THEN Max(ready) ELSE 0

Lookup(p) == CHOOSE s \in ReadySlot(p) : TRUE

\* The leases on the pages of the first k rows.
Places(r, k) == {x \in (1..k) \X {1, 2} : x[2] <= Len(reader[r].rows[x[1]])}
LeaseAt(r, x) ==
  LET p == reader[r].rows[x[1]][x[2]] IN [place |-> x, page |-> p, slot |-> Lookup(p)]
ReadyLeases(r, k) == {LeaseAt(r, x) : x \in Places(r, k)}

\* They are touched row by row.
TouchRow(order, row) ==
  LET first == Touch(order, Lookup(row[1]))
  IN  IF Len(row) = 1 THEN first ELSE Touch(first, Lookup(row[2]))
TouchRows(rows, k) ==
  LET loop[i \in 0..k] == IF i = 0 THEN lru ELSE TouchRow(loop[i - 1], rows[i])
  IN  loop[k]

AcquireReady(r) ==
  /\ reader[r].pc = "fill"
  /\ \E k \in {ReadyRows(r)} : \E leases \in {ReadyLeases(r, k)} :
       LET whole == k = Capacity(r)
           first == reader[r].rows[k + 1][1]
           half == Batch /\ ~whole /\ ReadySlot(first) # {}
           order == TouchRows(reader[r].rows, k)
       IN
       /\ slots' = Ref(leases)
       /\ lru' = IF half THEN Touch(order, Lookup(first)) ELSE order
       /\ reader' = [reader EXCEPT ![r] = [@ EXCEPT !.n = k, !.tile = leases,
                       !.pc = IF whole THEN "enqueue" ELSE "page"]]
  /\ UNCHANGED <<data, queue, worker, stream, engine, used, faulted>>

\* The row in progress, and the page of it that comes next.
Row(r) == reader[r].rows[reader[r].n + 1]
Begun(r) == IF reader[r].got = {} THEN 0 ELSE 1
NextPage(r) == Row(r)[Begun(r) + 1]

RequestPage(r) ==
  /\ reader[r].pc = "page"
  /\ \/ Hit(NextPage(r), 1)
     \/ Recycle(NextPage(r), 1)
  /\ reader' = [reader EXCEPT ![r] = [@ EXCEPT !.pc = "ready", !.want = SlotOf(NextPage(r))]]
  /\ UNCHANGED <<stream, engine, used, faulted>>

NoSlotFor(r) ==
  /\ reader[r].pc = "page" /\ SetFull(NextPage(r))
  /\ reader' = Goto(r, IF reader[r].tile = {} THEN "blocked"
                       ELSE IF reader[r].got # {} THEN "drop" ELSE "enqueue")
  /\ UNCHANGED <<slots, data, lru, queue, worker, stream, engine, used, faulted>>

\* cache_wait_ready: the page is being read.
SleepForPage(r) ==
  LET s == reader[r].want IN
  /\ reader[r].pc \in {"ready", "woken"} /\ slots[s].st = "loading"
  /\ slots' = [slots EXCEPT ![s].awaited = @ \/ reader[r].pc = "ready"]
  /\ reader' = Goto(r, "await")
  /\ UNCHANGED <<data, lru, queue, worker, stream, engine, used, faulted>>

\* The sleeper clears the flag that its page is awaited.
Awake(r) ==
  [slots EXCEPT ![reader[r].want].awaited = @ /\ reader[r].pc # "woken"]

\* The page is ready: the row may be complete, and with it the tile.
PageReady(r) ==
  LET s == reader[r].want
      new == [place |-> <<reader[r].n + 1, Begun(r) + 1>>, page |-> NextPage(r), slot |-> s]
      got == reader[r].got \cup {new}
      whole == Begun(r) + 1 = Len(Row(r))
      n == reader[r].n + (IF whole THEN 1 ELSE 0)
  IN
  /\ reader[r].pc \in {"ready", "woken"} /\ slots[s].st = "ready"
  /\ slots' = Awake(r)
  /\ reader' = [reader EXCEPT ![r] = [@ EXCEPT !.want = NoSlot, !.n = n,
                  !.tile = reader[r].tile \cup (IF whole THEN got ELSE {}),
                  !.got = IF whole THEN {} ELSE got,
                  !.pc = IF n < Capacity(r) THEN "page" ELSE "enqueue"]]
  /\ UNCHANGED <<data, lru, queue, worker, stream, engine, used, faulted>>

PageFailed(r) ==
  LET s == reader[r].want IN
  /\ reader[r].pc \in {"ready", "woken"} /\ slots[s].st = "error"
  /\ slots' = [Awake(r) EXCEPT ![s].refs = @ - 1]
  /\ reader' = WakeSetWaiters([reader EXCEPT ![r] = [@ EXCEPT !.want = NoSlot, !.failed = TRUE,
                  !.pc = IF reader[r].got # {} THEN "drop" ELSE "abort"]])
  /\ UNCHANGED <<data, lru, queue, worker, stream, engine, used, faulted>>

\* The first page of a row whose second could not be had.
DropFirst(r) ==
  /\ reader[r].pc = "drop"
  /\ slots' = Unref(reader[r].got)
  /\ reader' = WakeSetWaiters([reader EXCEPT ![r] = [@ EXCEPT !.got = {},
                  !.pc = IF reader[r].failed THEN "abort" ELSE "enqueue"]])
  /\ UNCHANGED <<data, lru, queue, worker, stream, engine, used, faulted>>

\* The copy of the descriptors, the kernel and the callback that releases
\* the leases go to the stream.
Enqueue(r) ==
  LET rest == SubSeq(reader[r].rows, reader[r].n + 1, Len(reader[r].rows)) IN
  /\ reader[r].pc = "enqueue"
  /\ stream' = [stream EXCEPT ![r] = Append(@, reader[r].tile)]
  /\ reader' = [reader EXCEPT ![r] = IF rest = <<>> THEN Idle
                  ELSE [@ EXCEPT !.pc = "fill", !.rows = rest, !.n = 0, !.tile = {}]]
  /\ UNCHANGED <<slots, data, lru, queue, worker, engine, used, faulted>>

\* An allocation or a CUDA call fails.
GatherFails(r) ==
  /\ reader[r].pc \in {"fill", "enqueue"}
  /\ reader' = Goto(r, "abort")
  /\ UNCHANGED <<slots, data, lru, queue, worker, stream, engine, used, faulted>>

Abort(r) ==
  /\ reader[r].pc = "abort" /\ stream[r] = <<>>
  /\ slots' = Unref(reader[r].tile)
  /\ reader' = WakeSetWaiters([reader EXCEPT ![r] = Idle])
  /\ UNCHANGED <<data, lru, queue, worker, stream, engine, used, faulted>>

Reader(r) == \/ AcquireReady(r) \/ RequestPage(r) \/ NoSlotFor(r) \/ SleepForPage(r) \/ PageReady(r)
             \/ PageFailed(r) \/ DropFirst(r) \/ Enqueue(r) \/ Abort(r)

Calls(r) == GatherFails(r) \/ (\E p \in Pages : Prefetch(r, p)) \/ \E list \in RowLists : Gather(r, list)

\* release_leases_callback, after the kernel of the tile has run.
StreamReleases(r) ==
  /\ stream[r] # <<>>
  /\ slots' = Unref(Head(stream[r]))
  /\ stream' = [stream EXCEPT ![r] = Tail(@)]
  /\ reader' = WakeSetWaiters(reader)
  /\ UNCHANGED <<data, lru, queue, worker, engine, used, faulted>>

-----------------------------------------------------------------------------
(* Closing the engine. *)

EngineCloses ==
  /\ engine = "open" /\ \A r \in Readers : reader[r].pc = "idle"
  /\ engine' = "drain"
  /\ UNCHANGED <<slots, data, lru, queue, worker, reader, stream, used, faulted>>

\* Mutant: workers that sleep are not woken.
Stop_silent ==
  /\ engine = "drain" /\ \A r \in Readers : stream[r] = <<>>
  /\ engine' = "stop"
  /\ UNCHANGED <<slots, data, lru, queue, worker, reader, stream, used, faulted>>
Stop ==
  /\ engine = "drain" /\ \A r \in Readers : stream[r] = <<>>
  /\ engine' = "stop"
  /\ worker' = [w \in Workers |-> [worker[w] EXCEPT !.pc = IF @ = "asleep" THEN "run" ELSE @]]
  /\ UNCHANGED <<slots, data, lru, queue, reader, stream, used, faulted>>

\* The workers are joined and the store is freed.
Freed ==
  /\ engine = "stop" /\ \A w \in Workers : worker[w].pc = "gone"
  /\ engine' = "freed"
  /\ UNCHANGED <<slots, data, lru, queue, worker, reader, stream, used, faulted>>

Close == Stop \/ Freed

Next == \/ \E w \in Workers : Worker(w)
        \/ \E r \in Readers : Reader(r) \/ Calls(r) \/ StreamReleases(r)
        \/ EngineCloses \/ Close

\* Threads are scheduled, preads return and the stream makes progress.
Spec ==
  /\ Init /\ [][Next]_vars
  /\ \A w \in Workers : WF_vars(Worker(w))
  /\ \A r \in Readers : WF_vars(Reader(r)) /\ WF_vars(StreamReleases(r))
  /\ WF_vars(Close)

-----------------------------------------------------------------------------
(* Properties. *)

\* The sets of leases that reader r and its stream hold.
Holdings(r) == {reader[r].tile, reader[r].got} \cup ToSet(stream[r])

\* The pages that a tile or a kernel reads stay what they were leased as: no
\* eviction, retry or late read touches the bytes under a lease.
LeasesIntact ==
  \A r \in Readers : \A h \in Holdings(r) : \A l \in h :
    slots[l.slot].st = "ready" /\ slots[l.slot].page = l.page /\ data[l.slot] = l.page

\* The leases on slot s of tiles being filled, those of tiles in the streams,
\* and the readers that wait for its page.
Filling(s) == UNION {{<<r, l>> : l \in {m \in reader[r].tile \cup reader[r].got : m.slot = s}} : r \in Readers}
InFlight(s) ==
  UNION {UNION {{<<r, i, l>> : l \in {m \in stream[r][i] : m.slot = s}} : i \in DOMAIN stream[r]} : r \in Readers}
Awaiting(s) == {r \in Readers : reader[r].want = s}

\* Every reference belongs to a lease or to a gather that awaits the page, so
\* that every path out of a gather returns what it took.
RefsExact ==
  \A s \in Slots :
    slots[s].refs = Cardinality(Filling(s)) + Cardinality(InFlight(s)) + Cardinality(Awaiting(s))

\* A page lives in one slot: a request that meets a load in flight, a failed
\* read or a recycled way never starts a second copy of it.
OneCopy ==
  \A s, t \in Slots : s # t /\ slots[s].page = slots[t].page /\ slots[s].page # NoPage =>
    ~Entry(slots[s].page, s) \/ ~Entry(slots[t].page, t)

\* Every slot that is loading waits in the queue or is read by a worker,
\* once, and nothing else is queued or read: the queue cannot overflow, a
\* work item cannot outlive the load it was made for, and no load is lost.
ReadsOwnSlot ==
  \A s \in Slots :
    Cardinality({i \in DOMAIN queue : queue[i] = s})
      + Cardinality({w \in Workers : worker[w].pc = "read" /\ worker[w].slot = s})
    = IF slots[s].st = "loading" THEN 1 ELSE 0

\* A gather fails on a page only when a read failed during that gather, or the
\* failure was still held by another when it began: an earlier error, of a
\* prefetch or of a gather that is over, is retried.
FailureIsFresh == \A r \in Readers : reader[r].failed => r \in faulted

\* When the store is freed no callback, lease or worker refers to it.
FreedUnused ==
  engine = "freed" => /\ \A r \in Readers : stream[r] = <<>>
                      /\ \A s \in Slots : slots[s].refs = 0
                      /\ \A w \in Workers : worker[w].pc = "gone"

\* Every gather returns: no wait for a slot or for a page lasts for ever,
\* although the pages waited for may be pinned by the waiter's own tiles.
GatherReturns == \A r \in Readers : (reader[r].pc # "idle") ~> (reader[r].pc = "idle")

\* Closing ends, whatever the workers were doing.
CloseEnds == (engine = "drain") ~> (engine = "freed")

\* A lease is honoured until its kernel has run: the bytes under it do not
\* change, and the reference it took is given back exactly once.
LeasesHonoured == LeasesIntact /\ RefsExact

\* The loads keep the cache consistent: one copy of a page, one reader per
\* slot, no error served from the cache, nothing used after it is freed.
LoadsSound == TypeOK /\ OneCopy /\ ReadsOwnSlot /\ FailureIsFresh /\ FreedUnused
=============================================================================
