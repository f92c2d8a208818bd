---------------------------- MODULE ContRegistry ----------------------------
(***************************************************************************)
(* The continuation registry of ds4-server (crates/ds4-server/src/cont.rs).*)
(*                                                                         *)
(* After a tool-calling turn the server publishes a record saying which    *)
(* owner (the serial session, or one bank of the batch) still holds the    *)
(* conversation's frontier.  A follow-up request presents the call ids and *)
(* is resolved to that frontier; other requests are held off for a while.  *)
(* All operations run under the server mutex, so each one is one action.   *)
(*                                                                         *)
(* The vector is kept as the code keeps it: newest record first, and the   *)
(* live serial record named by its INDEX, which every insertion and        *)
(* removal has to shift.  Owner generation and frontier are always         *)
(* compared together, so the pair is one number, a native reference, 0     *)
(* being the unset one.  Times are in ticks, TickHz of them per second:    *)
(* the code's clock is a double, so a tick may be finer than a millisecond.*)
(***************************************************************************)
EXTENDS Naturals, Integers, Sequences, FiniteSets

CONSTANTS
  Protocols,    \* wire protocols that publish tool turns
  IdLists,      \* the lists of call ids a turn or a follow-up can carry
  Banks,        \* native banks
  Leases,       \* job leases that may hold a pin
  MaxRecords, Grace, Ttl, PinDeadline, HoldShed,   \* the registry's limits
  TickHz,
  Instants, MaxTime, MaxRid, MaxRef   \* bounds of the model, not of the code:
                                      \* the readings of the clock, the last
                                      \* one, record ids and references

Serial == "serial"
Owners == {Serial} \cup Banks
None == 0

\* No id list repeats an id: publish() and live_tool_result_ids() both
\* drop duplicates and empty ids.
ASSUME IdListsAssumption ==
  \A ids \in IdLists : \A i, j \in DOMAIN ids : ids[i] = ids[j] => i = j
ASSUME LimitsAssumption ==
  /\ {MaxRecords, Grace, Ttl, PinDeadline, HoldShed} \subseteq Nat
  /\ {MaxTime, MaxRid, MaxRef} \subseteq Nat
  /\ MaxRecords > 0 /\ TickHz \in Nat \ {0}
  /\ Instants \subseteq 0..MaxTime
  /\ Serial \notin Banks
ASSUME LeasesAssumption == IsFiniteSet(Leases)

VARIABLES
  records,         \* the vector, newest first
  serial_live,     \* index of the live serial record, or None
  next_record_id,
  now,             \* the monotonic clock
  native,          \* [Owners -> ref]: what the engine holds for each owner
  pin,             \* [Leases -> record id or None]: the ContPin of a lease
  pinned_at        \* [Leases -> time]: when that pin was taken

vars == <<records, serial_live, next_record_id, now, native, pin, pinned_at>>

----------------------------------------------------------------------------
(* Helpers.  reg is a registry value [recs |-> vector, sl |-> index].      *)

Max2(a, b) == IF a > b THEN a ELSE b
Min2(a, b) == IF a < b THEN a ELSE b
InList(id, ids) == \E k \in DOMAIN ids : ids[k] = id
set_eq(a, b) == Len(a) = Len(b) /\ \A k \in DOMAIN a : InList(a[k], b)

Live(rec) == rec.state = "live"
LiveIdx(recs) == {i \in DOMAIN recs : Live(recs[i])}

\* First record, newest first, that carries the id under the protocol,
\* whatever its state; None if there is none.
find_idx(recs, proto, id) ==
  LET hits == {i \in DOMAIN recs : recs[i].protocol = proto
                                   /\ InList(id, recs[i].call_ids)}
  IN  IF hits = {} THEN None ELSE CHOOSE i \in hits : \A j \in hits : i <= j

demote_idx(reg, i) ==
  IF ~Live(reg.recs[i]) THEN reg
  ELSE [recs |-> [reg.recs EXCEPT ![i].state = "replay"],
        sl   |-> IF reg.sl = i THEN None ELSE reg.sl]

\* Mutant: removal that forgets to shift the serial index.
remove_idx_noshift(reg, i) ==
  LET d == demote_idx(reg, i)
  IN  [recs |-> SubSeq(d.recs, 1, i - 1) \o SubSeq(d.recs, i + 1, Len(d.recs)),
       sl   |-> IF d.sl = i THEN None ELSE d.sl]

remove_idx(reg, i) ==
  LET d == demote_idx(reg, i)
  IN  [recs |-> SubSeq(d.recs, 1, i - 1) \o SubSeq(d.recs, i + 1, Len(d.recs)),
       sl   |-> CASE d.sl = i -> None
                  [] d.sl > i -> d.sl - 1
                  [] OTHER    -> d.sl]

\* Mutant: eviction that ignores hard references.
Evictable_unpinned(recs) == {i \in DOMAIN recs : ~Live(recs[i])}

\* Mutant: only the last record is ever considered.
Evictable_tail(recs) ==
  {i \in DOMAIN recs : i = Len(recs) /\ ~Live(recs[i]) /\ recs[i].hard_refs <= 0}

Evictable(recs) ==
  {i \in DOMAIN recs : ~Live(recs[i]) /\ recs[i].hard_refs <= 0}

\* While the vector is over its limit, drop the oldest evictable record.
PruneStep(reg) ==
  LET e == Evictable(reg.recs)
  IN  IF Len(reg.recs) <= MaxRecords \/ e = {} THEN reg
      ELSE remove_idx(reg, CHOOSE i \in e : \A j \in e : j <= i)

\* Every iteration that removes nothing is the last, so there are at most as
\* many as there are records.
prune(reg) ==
  LET loop[k \in 0..Len(reg.recs)] == IF k = 0 THEN reg ELSE PruneStep(loop[k - 1])
  IN  loop[Len(reg.recs)]

\* Demote every live record older than the TTL (TTL 0: never).
expire(reg, t) ==
  LET old == {i \in LiveIdx(reg.recs) : t - reg.recs[i].publish_time > Ttl}
  IN  IF Ttl <= 0 THEN reg
      ELSE [recs |-> [i \in DOMAIN reg.recs |->
                        IF i \in old THEN [reg.recs[i] EXCEPT !.state = "replay"]
                        ELSE reg.recs[i]],
            sl   |-> IF reg.sl \in old THEN None ELSE reg.sl]

\* The live record a new publication of this owner supersedes, or None.
Superseded(reg, owner) ==
  IF owner = Serial THEN reg.sl
  ELSE LET hits == {i \in LiveIdx(reg.recs) : reg.recs[i].owner = owner}
       IN  IF hits = {} THEN None ELSE CHOOSE i \in hits : \A j \in hits : i <= j

NewRecord(rid, proto, ids, owner, ref, t) ==
  [record_id |-> rid, state |-> "live", owner |-> owner, protocol |-> proto,
   ref |-> ref, call_ids |-> ids, publish_time |-> t,
   hard_refs |-> 0, pin_expiry |-> 0]

\* Mutant: a turn with known ids reactivates its old record in place.
publish_reuse(reg, rid, proto, ids, owner, ref, t) ==
  LET sup  == Superseded(reg, owner)
      d    == IF sup = None THEN reg ELSE demote_idx(reg, sup)
      same == {i \in DOMAIN d.recs : d.recs[i].owner = owner /\ d.recs[i].call_ids = ids}
      i    == CHOOSE k \in same : TRUE
  IN  IF same # {}
      THEN [recs |-> [d.recs EXCEPT ![i].state = "live", ![i].ref = ref],
            sl   |-> IF owner = Serial THEN i ELSE d.sl]
      ELSE prune([recs |-> <<NewRecord(rid, proto, ids, owner, ref, t)>> \o d.recs,
                  sl   |-> IF owner = Serial THEN 1
                           ELSE IF d.sl = None THEN None ELSE d.sl + 1])

publish(reg, rid, proto, ids, owner, ref, t) ==
  LET sup == Superseded(reg, owner)
      d   == IF sup = None THEN reg ELSE demote_idx(reg, sup)
  IN  prune([recs |-> <<NewRecord(rid, proto, ids, owner, ref, t)>> \o d.recs,
             sl   |-> IF owner = Serial THEN 1
                      ELSE IF d.sl = None THEN None ELSE d.sl + 1])

Pinned(rec, t) == rec.hard_refs > 0 /\ PinDeadline > 0 /\ t < rec.pin_expiry

\* A claim matches only the exact id set, found through its first id.
Claimed(recs, proto, ids, ownerKind) ==
  LET i == find_idx(recs, proto, ids[1])
  IN  IF /\ ids # <<>> /\ i # None
         /\ Live(recs[i]) /\ recs[i].owner \in ownerKind
         /\ set_eq(recs[i].call_ids, ids)
      THEN i ELSE None

\* Mutant: whole seconds, rounded down.
Retry_floor(left) == Max2(1, left \div TickHz)

\* Retry-After of a hold lasting left ticks: (left + 0.999) as i32, in
\* seconds and at least 1.  A remainder below one millisecond past a whole
\* second is dropped.
Retry(left) == Max2(1, (left * 1000 + 999 * TickHz) \div (1000 * TickHz))

----------------------------------------------------------------------------
(* The answers of the registry, as operators on an expired registry.       *)

\* Does the serial frontier belong to this follow-up right now?
resolve_serial(reg, proto, ids, session) ==
  LET i == Claimed(reg.recs, proto, ids, {Serial})
  IN  session # 0 /\ i # None /\ reg.recs[i].ref = session

\* The bank a follow-up names, if its record is live.
bank_claim(reg, proto, ids) == Claimed(reg.recs, proto, ids, Banks)

\* place_bank_continuation: stay on the bank only if it still holds the
\* published reference.
place_bank(reg, proto, ids, nat) ==
  LET i == bank_claim(reg, proto, ids)
  IN  i # None /\ reg.recs[i].ref > 0 /\ nat[reg.recs[i].owner] = reg.recs[i].ref

\* May bank b be evicted?  live = 0 means the native reference is unknown
\* and fails closed.
BankRecordMatches(rec, b, known, ref) ==
  /\ Live(rec) /\ rec.owner = b
  /\ known => ref # 0 /\ rec.ref = ref

bank_protected(recs, b, known, ref, t) ==
  \E i \in DOMAIN recs :
    /\ BankRecordMatches(recs[i], b, known, ref)
    /\ \/ Grace > 0 /\ t - recs[i].publish_time < Grace
       \/ Pinned(recs[i], t)

\* Seconds after which to retry a placement refused by the protection; 0
\* if the bank is not protected.
bank_hold_retry(recs, b, known, ref, t) ==
  LET hits == {i \in DOMAIN recs : BankRecordMatches(recs[i], b, known, ref)}
      rec  == recs[CHOOSE i \in hits : \A j \in hits : i <= j]
      graceLeft == IF Grace > 0 THEN Grace - (t - rec.publish_time) ELSE 0
      pinLeft   == IF Pinned(rec, t) THEN rec.pin_expiry - t ELSE 0
  IN  IF bank_protected(recs, b, known, ref, t)
      THEN Retry(Max2(graceLeft, pinLeft)) ELSE 0

\* Seconds a request must wait because the serial frontier is reserved for
\* another conversation; 0 when it may run.
serial_hold(reg, proto, ids, t) ==
  LET rec      == reg.recs[reg.sl]
      shedW    == Min2(HoldShed, Grace)
      shedLeft == IF shedW > 0 THEN shedW - (t - rec.publish_time) ELSE 0
      pinLeft  == IF Pinned(rec, t) THEN rec.pin_expiry - t ELSE 0
      mine     == rec.protocol = proto /\ ids # <<>> /\ set_eq(rec.call_ids, ids)
  IN  IF reg.sl = None THEN 0
      ELSE IF mine \/ (shedLeft <= 0 /\ ~Pinned(rec, t)) THEN 0
      ELSE Retry(Max2(shedLeft, pinLeft))

----------------------------------------------------------------------------
Reg == [recs |-> records, sl |-> serial_live]
SetReg(reg) == records' = reg.recs /\ serial_live' = reg.sl

Init ==
  /\ records = <<>> /\ serial_live = None /\ next_record_id = 1
  /\ now = 0
  /\ native = [o \in Owners |-> 0]
  /\ pin = [l \in Leases |-> None] /\ pinned_at = [l \in Leases |-> 0]

\* publish_serial / publish_bank with the owner's current reference.  An
\* unset reference publishes nothing (the early return).
Publish(owner, proto, ids) ==
  /\ next_record_id <= MaxRid
  /\ native[owner] # 0 /\ ids # <<>>
  /\ SetReg(publish(Reg, next_record_id, proto, ids, owner, native[owner], now))
  /\ next_record_id' = next_record_id + 1
  /\ UNCHANGED <<now, native, pin, pinned_at>>

demote_serial ==
  /\ serial_live # None
  /\ SetReg(demote_idx(Reg, serial_live))
  /\ UNCHANGED <<next_record_id, now, native, pin, pinned_at>>

\* live_has_id, resolve_serial, bank_claim and serial_hold all start by
\* expiring; that is their only effect on the registry.
Query ==
  /\ LiveIdx(records) # {}
  /\ SetReg(expire(Reg, now))
  /\ UNCHANGED <<next_record_id, now, native, pin, pinned_at>>

\* pin_live on behalf of a lease: one more hard reference on the newest
\* record carrying the id, if that record is still live.
PinLive(l, proto, id) ==
  LET e == expire(Reg, now)
      i == find_idx(e.recs, proto, id)
      pinned == [e.recs[i] EXCEPT !.hard_refs = @ + 1,
                   !.pin_expiry = IF PinDeadline > 0 THEN Max2(@, now + PinDeadline) ELSE @]
  IN  /\ pin[l] = None
      /\ i # None /\ Live(e.recs[i])
      /\ SetReg([e EXCEPT !.recs = [@ EXCEPT ![i] = pinned]])
      /\ pin' = [pin EXCEPT ![l] = e.recs[i].record_id]
      /\ pinned_at' = [pinned_at EXCEPT ![l] = now]
      /\ UNCHANGED <<next_record_id, now, native>>

\* Mutant: the first unpin ends the protection of every other lease.
Unpin_clears(l) ==
  LET hits == {i \in DOMAIN records : records[i].record_id = pin[l]}
  IN  /\ pin[l] # None
      /\ records' = [i \in DOMAIN records |->
                       IF i \in hits /\ records[i].hard_refs > 0
                       THEN [records[i] EXCEPT !.hard_refs = @ - 1, !.pin_expiry = 0]
                       ELSE records[i]]
      /\ pin' = [pin EXCEPT ![l] = None]
      /\ pinned_at' = [pinned_at EXCEPT ![l] = 0]
      /\ UNCHANGED <<serial_live, next_record_id, now, native>>

\* unpin by record id when the lease is dropped.
Unpin(l) ==
  LET hits == {i \in DOMAIN records : records[i].record_id = pin[l]}
  IN  /\ pin[l] # None
      /\ records' = [i \in DOMAIN records |->
                       IF i \in hits /\ records[i].hard_refs > 0
                       THEN [records[i] EXCEPT !.hard_refs = @ - 1] ELSE records[i]]
      /\ pin' = [pin EXCEPT ![l] = None]
      /\ pinned_at' = [pinned_at EXCEPT ![l] = 0]
      /\ UNCHANGED <<serial_live, next_record_id, now, native>>

\* The engine moves an owner to another generation or frontier.
Advance(o) ==
  /\ native[o] < MaxRef
  /\ native' = [native EXCEPT ![o] = @ + 1]
  /\ UNCHANGED <<records, serial_live, next_record_id, now, pin, pinned_at>>

\* The clock is read again, any time later.
Tick ==
  /\ \E t \in Instants : t > now /\ now' = t
  /\ UNCHANGED <<records, serial_live, next_record_id, native, pin, pinned_at>>

Ids == UNION {{ids[k] : k \in DOMAIN ids} : ids \in IdLists}

Next ==
  \/ \E o \in Owners, p \in Protocols, ids \in IdLists : Publish(o, p, ids)
  \/ demote_serial
  \/ Query
  \/ \E l \in Leases, p \in Protocols, id \in Ids : PinLive(l, p, id)
  \/ \E l \in Leases : Unpin(l)
  \/ \E o \in Owners : Advance(o)
  \/ Tick

Spec == Init /\ [][Next]_vars

----------------------------------------------------------------------------
(* Properties.                                                             *)

RecordType ==
  [record_id : 1..MaxRid, state : {"live", "replay"}, owner : Owners,
   protocol : Protocols, ref : 1..MaxRef, call_ids : IdLists,
   publish_time : 0..MaxTime, hard_refs : Nat,
   pin_expiry : 0..(MaxTime + PinDeadline)]

\* The types of the registry's state.
TypeOK ==
  /\ records \in Seq(RecordType)
  /\ serial_live \in 0..Len(records)
  /\ next_record_id \in 1..(MaxRid + 1)
  /\ now \in 0..MaxTime
  /\ native \in [Owners -> 0..MaxRef]
  /\ pin \in [Leases -> 0..MaxRid] /\ pinned_at \in [Leases -> 0..MaxTime]

\* serial_live is exactly the index of the live serial record: the index
\* survives every insertion in front of it and every removal around it,
\* and there is never a second live serial record it does not name.
SerialSlot ==
  \A i \in DOMAIN records :
    (Live(records[i]) /\ records[i].owner = Serial) <=> serial_live = i

\* A bank has at most one live record, so a claim cannot be answered from a
\* superseded turn of the same bank.
BankSlot ==
  \A i, j \in LiveIdx(records) :
    records[i].owner = records[j].owner => i = j

\* The vector stays sorted newest first; find_idx relies on it to let the
\* newest turn shadow an older one that used the same id.
NewestFirst ==
  \A i, j \in DOMAIN records :
    i < j => records[i].record_id > records[j].record_id

\* The vector is well formed after every operation: its cached index, the
\* uniqueness of live records and its order survive the index arithmetic of
\* publish(), remove_idx() and prune().
VectorSound == TypeOK /\ SerialSlot /\ BankSlot /\ NewestFirst

\* A lease that pinned a live bank record keeps that bank from being
\* evicted for the whole pin deadline, whatever other leases pin and unpin,
\* as long as the bank still holds the published reference.
PinProtects ==
  \A l \in Leases : \A i \in DOMAIN records :
    LET r == records[i] IN
    (/\ pin[l] = r.record_id /\ Live(r) /\ r.owner \in Banks
     /\ now < pinned_at[l] + PinDeadline)
      => /\ bank_protected(records, r.owner, TRUE, r.ref, now)
         /\ bank_protected(records, r.owner, FALSE, 0, now)

\* One millisecond in whole ticks: what (left + 0.999) as i32 may drop.
Millisecond == TickHz \div 1000

\* A client that honours the Retry-After of a serial hold is not held by
\* the same record again: a millisecond after now + retry the reservation
\* is over, unless someone published or pinned in between.  Nor is it sent
\* away for longer than it must: a second earlier it would still be held,
\* unless the record is demoted or expires first.
HoldRetryHonest ==
  \A p \in Protocols, ids \in IdLists \cup {<<>>} :
    LET t0 == now
        r  == serial_hold(expire(Reg, t0), p, ids, t0)
        t1 == t0 + r * TickHz + Millisecond
        t2 == t0 + (r - 1) * TickHz
    IN  /\ r > 0 => serial_hold(expire(Reg, t1), p, ids, t1) = 0
        /\ r > 1 => serial_hold(Reg, p, ids, t2) > 0

\* Likewise for a placement refused because the bank is protected.
BankRetryHonest ==
  \A b \in Banks : \A known \in BOOLEAN :
    LET r  == bank_hold_retry(records, b, known, native[b], now)
        t1 == now + r * TickHz + Millisecond
        t2 == now + (r - 1) * TickHz
    IN  /\ r > 0 => ~bank_protected(records, b, known, native[b], t1)
        /\ r > 1 => bank_protected(records, b, known, native[b], t2)

\* The request that resolve_serial gives the serial frontier to is never
\* one that serial_hold keeps away from it: the two decisions of run_serial,
\* made at one reading of the clock, single out the same conversation.
ResolvedNotHeld ==
  \A p \in Protocols, ids \in IdLists :
    LET e == expire(Reg, now)
    IN  resolve_serial(e, p, ids, native[Serial]) => serial_hold(e, p, ids, now) = 0

\* The time windows of the registry agree with each other at every reading
\* of the clock: the Retry-After of either hold names the second in which
\* the hold ends, up to the millisecond its rounding may drop, and no hold
\* keeps away the conversation it is held for.
WindowsAgree == HoldRetryHonest /\ BankRetryHonest /\ ResolvedNotHeld

\* Once a record left the live state, or the vector, it never becomes live
\* again: a follow-up refused with 409 stays refused until a new turn
\* publishes its ids.
NoRevival ==
  [][\A j \in DOMAIN records' :
       Live(records'[j]) =>
         \/ records'[j].record_id = next_record_id
         \/ \E i \in DOMAIN records : /\ records[i].record_id = records'[j].record_id
                                      /\ Live(records[i])]_vars

\* A publication leaves the vector over max_records only when every record
\* in it is live or pinned: one that is kept never hides an older one that
\* should have gone, so owners and leases bound the vector.
PruneComplete ==
  [][next_record_id' # next_record_id =>
       \/ Len(records') <= MaxRecords
       \/ \A i \in DOMAIN records' : Live(records'[i]) \/ records'[i].hard_refs > 0]_vars

----------------------------------------------------------------------------
(* The vector implements the abstract table.                               *)

RidAt(i) == IF i = None THEN None ELSE records[i].record_id
RecordIds == {records[i].record_id : i \in DOMAIN records}
LiveRid(o) ==
  LET hits == {i \in LiveIdx(records) : records[i].owner = o}
  IN  IF o = Serial THEN RidAt(serial_live)
      ELSE IF hits = {} THEN None ELSE RidAt(CHOOSE i \in hits : TRUE)
RefsOf(r) == records[CHOOSE i \in DOMAIN records : records[i].record_id = r].hard_refs

Table == INSTANCE ContTable WITH
  next  <- next_record_id,
  known <- RecordIds,
  live  <- [o \in Owners |-> LiveRid(o)],
  refs  <- [r \in RecordIds |-> RefsOf(r)],
  held  <- pin

\* Hard references are exactly the pins leases hold, and a pinned record is
\* never pruned from under its lease, even when a later turn republishes
\* the same call id (the lease unpins by record id).
PinPromise == Table!PinPromise

\* Every operation on the vector, with its index arithmetic, its pruning
\* loop and its clock, is a step of the abstract table: one live record per
\* owner, forgetting only what nobody pins.
ImplementsTable == Table!TSpec

=============================================================================
