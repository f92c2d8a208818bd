------------------------------- MODULE MemGov -------------------------------
(***************************************************************************)
(* Funding of cache growth by the memory governor (ds4.c, the continuous   *)
(* lane's ds4_batch_cont_fund_check and its trims; ds4_mem_gov.h, the      *)
(* evaluator).  Banks of the continuous lane grow page by page up to the   *)
(* length their row was credited with; the serial lane builds a session    *)
(* graph out of the same memory; a free bank keeps its pages as a warm     *)
(* record until a trim takes them.  Sizes are in pages.  All of this runs  *)
(* on one thread, so a publication is one step here: GovLedger has the     *)
(* protocol that shows it to other threads.  Substrate promotions are      *)
(* complete (the eager boot) and the projection's safety band is zero.     *)
(***************************************************************************)
EXTENDS Integers

CONSTANTS
  NBanks,      \* banks of the continuous lane, ctx->max_seq
  Total,       \* memory of the box
  Eager,       \* what the lane allocated at boot, bank_census_eager
  Floor,       \* ds4_mem_floor_bytes
  Reserve,     \* the serial lane's carve-out, ctx->serial_reserve
  FitGate,     \* the session-graph fit gate is on (DS4_SESSION_GRAPH_FIT)
  Headroom,    \* slack a session graph must leave
  Budget,      \* comp_map_budget
  Lengths,     \* lengths a row asks for
  Sessions,    \* sizes of session graphs
  WordMax,     \* UINT64_MAX
  Modes,       \* values of ds4_gov_mode: "observe", "enforce"
  VmmTrim,     \* ds4_batch_trim_enabled
  MaxOutside,  \* bound on what other processes take
  MaxPool      \* bound on the engine's graph-pool reserve

ASSUME MemGovAssumption ==
  /\ {NBanks, Total, Eager, Floor, Reserve, Headroom, Budget, WordMax, MaxOutside, MaxPool} \subseteq Nat
  /\ Lengths \subseteq Nat \ {0} /\ Sessions \subseteq Nat \ {0} /\ {VmmTrim, FitGate} \subseteq BOOLEAN
  /\ Modes \subseteq {"observe", "enforce"} /\ Eager + Floor + Reserve <= Total /\ Total <= WordMax

LeaseHolders == {"bank", "serial"}
Banks == 1..NBanks

VARIABLES
  pages,    \* mapped pages of each bank
  credit,   \* length its row is credited with, 0 when it has none
  session,  \* the serial lane's graph
  pool,     \* the engine's own graph-pool reserve
  outside,  \* what other processes hold
  lease,    \* the ledger
  last,     \* the last funding decision
  blind,    \* history: some growth was granted without an observation
  over,     \* history: pages the last quote that granted growth took for
            \* resident although a trim had given them back
  mode      \* ds4_gov_mode, read from the environment once

vars == <<pages, credit, session, pool, outside, lease, last, blind, over, mode>>

SumOver(f, S) ==
  LET sum[i \in 0..NBanks] == IF i = 0 THEN 0 ELSE sum[i-1] + (IF i \in S THEN f[i] ELSE 0)
  IN sum[NBanks]
Mapped(pg) == SumOver(pg, Banks)       \* ds4_batch_slabs_cache_resident
Free(pg, pl) == Total - Eager - Mapped(pg) - session - pl - outside
Less(a, b) == IF a > b THEN a - b ELSE 0

\* ds4_batch_credit_union_projection: what the credited rows have yet to
\* fault in, with bank b at length n.
Growth(pg, cr, b, n) == SumOver([c \in Banks |-> Less(IF c = b THEN n ELSE cr[c], pg[c])], Banks)
Due == SumOver([c \in Banks |-> Less(credit[c], pages[c])], Banks)

Statuses == {"admit", "refuse_class", "refuse_live", "retry", "fault"}
NoDecision == [verdict |-> "none", quote |-> "none", seen |-> FALSE, need |-> 0, free |-> 0, backed |-> FALSE]

TypeOK ==
  /\ pages \in [Banks -> 0..Total] /\ credit \in [Banks -> Lengths \cup {0}]
  /\ session \in Sessions \cup {0} /\ pool \in 0..MaxPool /\ outside \in 0..MaxOutside
  /\ lease \in [LeaseHolders -> [intent : Nat, resident : Nat, reservation : Nat]]
  /\ last.verdict \in Statuses \cup {"none"} /\ blind \in BOOLEAN /\ over \in Nat /\ mode \in Modes
  /\ Free(pages, pool) >= 0

\* ds4_gov_publish_use, ds4_gov_publish_reservation
Published(lg, c, intent, resident) ==
  [lg EXCEPT ![c] = [intent |-> intent, resident |-> resident, reservation |-> lg[c].reservation]]

\* The boot: ds4_batch_ctx_create carves the reserve and publishes the lease.
Init ==
  /\ pages = [b \in Banks |-> 0] /\ credit = [b \in Banks |-> 0]
  /\ session = 0 /\ pool = 0 /\ outside = 0
  /\ lease = [bank |-> [intent |-> Eager, resident |-> Eager, reservation |-> 0],
              serial |-> [intent |-> 0, resident |-> 0, reservation |-> Reserve]]
  /\ last = NoDecision /\ blind = FALSE /\ over = 0 /\ mode \in Modes

-----------------------------------------------------------------------------
(* The evaluator. *)

\* ds4_mem_sat_add; ovf is the local fault count.
\* Mutant: the sum wraps.
SatAdd_wrap(acc, x) == [sum |-> (acc.sum + x) % (WordMax + 1), ovf |-> acc.ovf]
SatAdd(acc, x) ==
  IF x > WordMax - acc.sum THEN [sum |-> WordMax, ovf |-> TRUE]
  ELSE [sum |-> acc.sum + x, ovf |-> acc.ovf]
Nothing == [sum |-> 0, ovf |-> FALSE]

\* ds4_gov_evaluate for the claim of requester r.  With two consumers the
\* sum over the others has one term.
Evaluate(lg, obs, free, r, proposed, limit) ==
  LET other == CHOOSE c \in LeaseHolders : c # r
      owed == lg[other].intent - lg[other].resident
      total == SatAdd(SatAdd(Nothing, lg[other].intent), proposed)
      unfunded == Less(proposed, lg[r].resident)
      required == SatAdd(SatAdd(SatAdd(SatAdd(Nothing, Floor), lg[other].reservation), owed), unfunded)
  IN IF \E c \in LeaseHolders : lg[c].resident > lg[c].intent THEN "fault"
     ELSE IF total.ovf THEN "fault"
     ELSE IF obs # "ok" THEN "retry"
     ELSE IF limit # 0 /\ proposed > limit THEN "refuse_class"
     ELSE IF required.ovf THEN "fault"
     ELSE IF free >= required.sum THEN "admit"
     ELSE "refuse_live"

Governed(legacy, quote) ==
  IF mode = "observe" \/ quote = "retry" THEN legacy
  ELSE IF quote = "fault" THEN "refuse_live" ELSE quote

\* What a grant must mean over the integers, whatever the word: the ledger's
\* protected sums and the spend fit what is free.
Backed(proposed, free) ==
  /\ proposed + lease["serial"].intent <= WordMax
  /\ Floor + lease["serial"].reservation + lease["serial"].intent - lease["serial"].resident
     + Less(proposed, lease["bank"].resident) <= free

-----------------------------------------------------------------------------
(* The continuous lane. *)

\* Banks a trim may take: neither the target nor a fork's source, and no bank
\* with a credit.
\* Mutant: a credited bank is taken too.
Victims_credited(pg, b, keep) == {c \in Banks \ ({b} \cup keep) : pg[c] > 0}
Victims(pg, b, keep) == {c \in Banks \ ({b} \cup keep) : pg[c] > 0 /\ credit[c] = 0}

\* ds4_batch_trim_free_banks takes whole banks until it has what it wants: the
\* sets it can take over the orders of the victims, none if the device does
\* not synchronize.
Trims(pg, b, keep, want) ==
  LET cand == Victims(pg, b, keep)
      got(V) == SumOver(pg, V)
  IN IF ~VmmTrim \/ want <= 0 THEN {{}}
     ELSE {V \in SUBSET cand : \/ V = {}
                               \/ V = cand /\ got(V) < want
                               \/ got(V) >= want /\ \E v \in V : got(V \ {v}) < want}
Trimmed(pg, V) == [c \in Banks |-> IF c \in V THEN 0 ELSE pg[c]]

\* ds4_mem_usable_beyond(ctx->serial_reserve); no observation is no limit.
\* Mutant: the reserve is not kept back.
Usable_unreserved(obs, pg, pl) == IF obs = "ok" THEN Less(Free(pg, pl), Floor) ELSE WordMax
Usable(obs, pg, pl) == IF obs = "ok" THEN Less(Less(Free(pg, pl), Floor), Reserve) ELSE WordMax

\* How an observation ends, and what a look of the legacy formula finds.
Results == {"ok", "error"}
Looks(pg, pl) == {[ok |-> obs = "ok", usable |-> Usable(obs, pg, pl)] : obs \in Results}

\* ds4_batch_cont_fund_check.  First the trim that makes room in the class ...
OverBudget(need, pg) == Budget # 0 /\ need # 0 /\ Mapped(pg) + need > Budget
ClassTrims(need, b, keep) ==
  IF OverBudget(need, pages) THEN Trims(pages, b, keep, Mapped(pages) + need - Budget) ELSE {{}}

\* ... then, if the class allows it, the trim that makes room above the floor ...
FloorTrims(need, pg, b, keep, look) ==
  IF need # 0 /\ ~OverBudget(need, pg) THEN Trims(pg, b, keep, need - look.usable) ELSE {{}}

\* ... then the engine's own pool (ds4_mem_own_trim) ...
PoolAfter(need, class, look) ==
  IF need # 0 /\ ~class /\ need > look.usable THEN 0 ELSE pool

Legacy(need, class, usable) ==
  IF class THEN "refuse_class" ELSE IF need > usable THEN "refuse_live" ELSE "admit"

\* ... then the governor.  The claim counts what was mapped after the first
\* trim, pg1; pg2 and pl are what the later ones left, and look is the last
\* observation the legacy formula made.
Decide(b, n, need, pg1, pg2, pl, look, gobs) ==
  LET class == OverBudget(need, pg1)
      res == Eager + Mapped(pg1)
      quote == Evaluate(lease, gobs, Free(pg2, pl), "bank", res + need,
                        IF Budget # 0 THEN Eager + Budget ELSE 0)
      quoted == mode = "enforce" /\ gobs = "ok"
      verdict == IF need # 0 THEN Governed(Legacy(need, class, look.usable), quote) ELSE "admit"
      granted == verdict = "admit" /\ need # 0
      seen == look.ok \/ quoted
  IN /\ pages' = pg2 /\ pool' = pl
     /\ last' = [verdict |-> verdict, quote |-> quote, seen |-> seen, need |-> need,
                 free |-> Free(pg2, pl), backed |-> Backed(res + need, Free(pg2, pl))]
     /\ credit' = IF verdict = "admit" THEN [credit EXCEPT ![b] = n] ELSE credit
     /\ lease' = IF verdict = "admit" THEN Published(lease, "bank", res + need, res) ELSE lease
     /\ blind' = (blind \/ (granted /\ ~seen))
     /\ over' = IF ~granted THEN over ELSE IF quoted THEN Less(lease["bank"].resident, res) ELSE 0
     /\ UNCHANGED <<session, outside, mode>>

\* The check for length n of bank b's row; keep is a fork's source.  The legacy
\* formula looks at the memory again after each trim that released something;
\* gobs is the governor's own observation.
FundCheck(b, n, keep) ==
  LET need == Growth(pages, credit, b, n) IN
  \E V \in ClassTrims(need, b, keep) :
    LET pg1 == Trimmed(pages, V) IN
    \E look1 \in Looks(pg1, pool) : \E W \in FloorTrims(need, pg1, b, keep, look1) :
      LET pg2 == Trimmed(pg1, W) IN
      \E look2 \in IF W # {} THEN Looks(pg2, pool) ELSE {look1} :
        LET pl == PoolAfter(need, OverBudget(need, pg1), look2) IN
        \E look3 \in IF pl # pool THEN Looks(pg2, pl) ELSE {look2}, gobs \in Results :
          Decide(b, n, need, pg1, pg2, pl, look3, gobs)

Sources(b) == {{}} \cup {{c} : c \in Banks \ {b}}

\* A request is admitted to a free bank, cold, warm or as a fork.
Admit(b, n) ==
  /\ credit[b] = 0
  /\ \E keep \in Sources(b) : FundCheck(b, n, keep)

\* A row that nears the end of its credit asks for more; refused, it ends there.
Extend(b, n) ==
  /\ 0 < credit[b] /\ credit[b] < n
  /\ FundCheck(b, n, {})

\* A credited row maps a page before it emits into it.
Fault(b) ==
  /\ pages[b] < credit[b] /\ Free(pages, pool) > 0
  /\ pages' = [pages EXCEPT ![b] = @ + 1]
  /\ last' = NoDecision
  /\ UNCHANGED <<credit, session, pool, outside, lease, blind, over, mode>>

RowEnd(b) ==
  LET cr == [credit EXCEPT ![b] = 0] IN
  /\ credit[b] # 0
  /\ credit' = cr
  /\ lease' = Published(lease, "bank", Eager + Mapped(pages) + Growth(pages, cr, b, 0),
                        Eager + Mapped(pages))
  /\ last' = NoDecision
  /\ UNCHANGED <<pages, session, pool, outside, blind, over, mode>>

\* The serial lane reclaims warm banks while no row runs:
\* ds4_batch_ctx_reclaim_prepare and _commit, ds4_batch_ctx_trim_free.
Reclaim(V) ==
  /\ VmmTrim /\ V # {} /\ \A b \in Banks : credit[b] = 0
  /\ \A b \in V : pages[b] > 0
  /\ pages' = Trimmed(pages, V)
  /\ last' = NoDecision
  /\ UNCHANGED <<credit, session, pool, outside, lease, blind, over, mode>>

-----------------------------------------------------------------------------
(* The serial lane and the rest of the box. *)

\* The gate fails open when it is off or there is no observation.
Fits(n, obs) == ~FitGate \/ obs # "ok" \/ Free(pages, pool) >= n + Headroom

\* The graph is allocated, or the gate refuses it, or the allocation fails.
BuildSession(n, obs) ==
  /\ session = 0
  /\ \/ /\ Fits(n, obs) /\ Free(pages, pool) >= n
        /\ session' = n /\ lease' = Published(lease, "serial", n, n)
     \/ UNCHANGED session /\ lease' = Published(lease, "serial", 0, 0)
  /\ last' = NoDecision
  /\ UNCHANGED <<pages, credit, pool, outside, blind, over, mode>>

\* ds4_session_free
FreeSession ==
  /\ session # 0
  /\ session' = 0
  /\ lease' = Published(lease, "serial", 0, 0)
  /\ last' = NoDecision
  /\ UNCHANGED <<pages, credit, pool, outside, blind, over, mode>>

PoolGrows ==
  /\ pool < MaxPool /\ Free(pages, pool) > 0
  /\ pool' = pool + 1
  /\ last' = NoDecision
  /\ UNCHANGED <<pages, credit, session, outside, lease, blind, over, mode>>

OutsideTakes ==
  /\ outside < MaxOutside /\ Free(pages, pool) > 0
  /\ outside' = outside + 1
  /\ last' = NoDecision
  /\ UNCHANGED <<pages, credit, session, pool, lease, blind, over, mode>>

OutsideReturns ==
  /\ outside > 0
  /\ outside' = outside - 1
  /\ last' = NoDecision
  /\ UNCHANGED <<pages, credit, session, pool, lease, blind, over, mode>>

Next ==
  \/ \E b \in Banks : (\E n \in Lengths : Admit(b, n) \/ Extend(b, n)) \/ Fault(b) \/ RowEnd(b)
  \/ \E V \in SUBSET Banks : Reclaim(V)
  \/ (\E n \in Sessions, obs \in Results : BuildSession(n, obs)) \/ FreeSession
  \/ PoolGrows \/ OutsideTakes \/ OutsideReturns

Spec == Init /\ [][Next]_vars

-----------------------------------------------------------------------------
(* Properties. *)

Granted == last.verdict = "admit" /\ last.need > 0 /\ last.seen

\* The comment on the funding check: "Every admission spend must ALSO fit live
\* free memory beyond the operator floor".  An enforced quote breaks it: a trim
\* publishes nothing, so the quote takes pages given back for resident.
GrowthFitsFloor == Granted => last.need + Floor <= last.free

\* A grant that was observed fits what is free beyond floor and reserve, but for
\* the trimmed pages its quote took for resident.
GrantFits == Granted => last.need + Floor + Reserve <= last.free + over

\* What the lane has mapped and what it still owes its rows leave floor and
\* reserve in the box, but for those pages: no grant counts bytes that an
\* earlier row was promised and has not faulted in.
PromisesKept ==
  ~blind => Free(pages, pool) + pool + outside + session + over >= Floor + Due + Reserve

\* In either mode growth is promised once: each grant fits the free memory less
\* floor and reserve, and the promises of all rows together stay within the box
\* until the rows end, up to the pages the ledger had wrong at the last grant.
GrantsCovered == GrantFits /\ PromisesKept

\* Whatever the ledger holds, a quote that admits is backed by the sums over the
\* integers: a sum that leaves the word is never taken for a small one, and a
\* fault never lets an enforced claim through.
QuoteSound ==
  /\ last.quote = "admit" => last.backed
  /\ mode = "enforce" /\ last.quote = "fault" /\ last.need > 0 => last.verdict # "admit"

\* A row's end leaves no phantom debt: while no row runs, the lane's lease
\* promises nothing beyond what it says is resident.
RowEndSettles ==
  (\A b \in Banks : credit[b] = 0) => lease["bank"].intent = lease["bank"].resident

\* In either mode the ledger and the quotes drawn from it are sound: the box is
\* never overdrawn, a quote that admits is backed, an enforced fault refuses,
\* and a lane without rows owes nothing.
LedgerSound == TypeOK /\ QuoteSound /\ RowEndSettles

\* No step takes a page from a bank whose row is credited: a trim for one row
\* or for the serial lane never unmaps another row's cache.
CreditedKeepsPages == [][\A b \in Banks : credit[b] # 0 => pages'[b] >= pages[b]]_vars
=============================================================================
