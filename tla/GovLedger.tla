------------------------------ MODULE GovLedger ------------------------------
(***************************************************************************)
(* The memory governor's ledger and the versioned snapshot protocol over   *)
(* it (ds4_mem_gov.h; ds4.c, ds4_gov_publish_use, _publish_reservation and *)
(* ds4_gov_snapshot).  A writer makes the epoch odd, replaces a lease word *)
(* by word and makes the epoch even again; a reader, such as the metrics   *)
(* page, copies the ledger word by word between two looks at the epoch.    *)
(* The words are plain memory: between the fences the compiler may store   *)
(* and copy them in any order, and does so here.  The load of the epoch    *)
(* and its store are two steps, as in the code.                            *)
(***************************************************************************)
EXTENDS Naturals, FiniteSets

CONSTANTS
  Writers,       \* threads that publish; the code's precondition is one
  Readers,       \* threads that take snapshots
  Consumers,     \* ds4_gov_consumer
  Values,        \* bytes
  Attempts,      \* tries of a snapshot, 8 in the code
  MaxPublishes,  \* bound on publications
  MaxSnapshots   \* bound on the snapshots a reader takes

ASSUME GovLedgerAssumption ==
  /\ Consumers # {} /\ Values \subseteq Nat /\ 0 \in Values
  /\ Attempts \in Nat \ {0} /\ MaxPublishes \in Nat /\ MaxSnapshots \in Nat

Fields == {"intent", "resident", "reservation"}
Words == Consumers \X Fields

VARIABLES
  epoch, ledger, faults,   \* g_gov_ledger and memgov_faults
  writer,     \* what each writer is doing: its publication and its private copy
  reader,     \* what each reader is doing: its attempt and its copy
  published,  \* every ledger that stood between two publications
  publishes

ledgerVars == <<epoch, ledger, faults, writer, reader, published, publishes>>

Ledgers == [Words -> Values]
Empty == [w \in Words |-> 0]

\* ds4_gov_publish_use replaces the first two words, ds4_gov_publish_reservation
\* the third; the others are read from the ledger inside the bracket.
Publications ==
  {[consumer |-> c, words |-> [intent |-> i, resident |-> r]] : c \in Consumers, i, r \in Values}
  \cup {[consumer |-> c, words |-> [reservation |-> v]] : c \in Consumers, v \in Values}

WriterRec == [pc : {"idle", "begin", "lease", "write", "loaded"}, seen : Nat,
              pub : Publications, lease : [Fields -> Values], left : SUBSET Fields]
ReaderRec == [pc : {"ready", "begin", "copy", "verify", "accepted", "exhausted"},
              taken : 0..MaxSnapshots, attempt : 0..Attempts, began : Nat,
              copy : Ledgers, left : SUBSET Words]

LedgerTypeOK ==
  /\ epoch \in 0..(2 * MaxPublishes) /\ ledger \in Ledgers /\ faults \in Nat
  /\ writer \in [Writers -> WriterRec] /\ reader \in [Readers -> ReaderRec]
  /\ published \subseteq Ledgers /\ publishes \in 0..MaxPublishes

LedgerInit ==
  /\ epoch = 0 /\ ledger = Empty /\ faults = 0
  /\ writer = [w \in Writers |-> [pc |-> "idle", seen |-> 0, pub |-> CHOOSE p \in Publications : TRUE,
                                  lease |-> [f \in Fields |-> 0], left |-> {}]]
  /\ reader = [r \in Readers |-> [pc |-> "ready", taken |-> 0, attempt |-> 0, began |-> 0,
                                  copy |-> Empty, left |-> {}]]
  /\ published = {Empty} /\ publishes = 0

-----------------------------------------------------------------------------
(* Writers. *)

Odd(e) == e % 2 = 1
Tick(b) == IF b THEN faults + 1 ELSE faults
Idle == CHOOSE p \in Publications : TRUE

\* ds4_gov_epoch_write_begin loads the epoch, and counts a fault if it is odd.
LoadBegin(w, p) ==
  /\ writer[w].pc = "idle" /\ publishes < MaxPublishes
  /\ publishes' = publishes + 1
  /\ faults' = Tick(Odd(epoch))
  /\ writer' = [writer EXCEPT ![w] = [@ EXCEPT !.pc = "begin", !.seen = epoch, !.pub = p]]
  /\ UNCHANGED <<epoch, ledger, reader, published>>

StoreBegin(w) ==
  /\ writer[w].pc = "begin"
  /\ epoch' = writer[w].seen + 1
  /\ writer' = [writer EXCEPT ![w].pc = "lease"]
  /\ UNCHANGED <<ledger, faults, reader, published, publishes>>

Refused(l) == l["resident"] > l["intent"]

ReadLease(w) ==
  LET p == writer[w].pub
      l == [f \in Fields |-> IF f \in DOMAIN p.words THEN p.words[f] ELSE ledger[<<p.consumer, f>>]] IN
  /\ writer[w].pc = "lease"
  /\ faults' = Tick(Refused(l))
  /\ writer' = [writer EXCEPT ![w] = [@ EXCEPT !.pc = "write", !.lease = l,
                                               !.left = IF Refused(l) THEN {} ELSE Fields]]
  /\ UNCHANGED <<epoch, ledger, reader, published, publishes>>

WriteWord(w, f) ==
  /\ writer[w].pc = "write" /\ f \in writer[w].left
  /\ ledger' = [ledger EXCEPT ![<<writer[w].pub.consumer, f>>] = writer[w].lease[f]]
  /\ writer' = [writer EXCEPT ![w].left = @ \ {f}]
  /\ UNCHANGED <<epoch, faults, reader, published, publishes>>

\* ds4_gov_epoch_write_end
LoadEnd(w) ==
  /\ writer[w].pc = "write" /\ writer[w].left = {}
  /\ faults' = Tick(~Odd(epoch))
  /\ writer' = [writer EXCEPT ![w] = [@ EXCEPT !.pc = "loaded", !.seen = epoch]]
  /\ published' = IF \A v \in Writers \ {w} : writer[v].pc \in {"idle", "begin", "lease", "loaded"}
                  THEN published \cup {ledger} ELSE published
  /\ UNCHANGED <<epoch, ledger, reader, publishes>>

\* Mutant: the closing store puts back the epoch the bracket began with.
StoreEnd_back(w) ==
  /\ writer[w].pc = "loaded"
  /\ epoch' = writer[w].seen - 1
  /\ writer' = [writer EXCEPT ![w] = [@ EXCEPT !.pc = "idle", !.pub = Idle, !.seen = 0,
                                               !.lease = [f \in Fields |-> 0]]]
  /\ UNCHANGED <<ledger, faults, reader, published, publishes>>
StoreEnd(w) ==
  /\ writer[w].pc = "loaded"
  /\ epoch' = writer[w].seen + 1
  /\ writer' = [writer EXCEPT ![w] = [@ EXCEPT !.pc = "idle", !.pub = Idle, !.seen = 0,
                                               !.lease = [f \in Fields |-> 0]]]
  /\ UNCHANGED <<ledger, faults, reader, published, publishes>>

Writer(w) ==
  \/ \E p \in Publications : LoadBegin(w, p)
  \/ StoreBegin(w)
  \/ ReadLease(w)
  \/ \E f \in Fields : WriteWord(w, f)
  \/ LoadEnd(w)
  \/ StoreEnd(w)

-----------------------------------------------------------------------------
(* Readers: ds4_gov_snapshot. *)

StartSnapshot(r) ==
  /\ reader[r].pc \in {"ready", "accepted", "exhausted"} /\ reader[r].taken < MaxSnapshots
  /\ reader' = [reader EXCEPT ![r] = [@ EXCEPT !.pc = "begin", !.taken = reader[r].taken + 1,
                                               !.attempt = 0, !.began = 0, !.copy = Empty]]
  /\ UNCHANGED <<epoch, ledger, faults, writer, published, publishes>>

\* The next try, or the end of them: the last copy stands, and a fault is counted.
Retry(r, rec) ==
  /\ reader' = [reader EXCEPT ![r] = [rec EXCEPT !.pc = IF rec.attempt < Attempts THEN "begin"
                                                        ELSE "exhausted"]]
  /\ faults' = Tick(rec.attempt = Attempts)

ReadBegin(r) ==
  LET rec == [reader[r] EXCEPT !.began = epoch, !.attempt = @ + 1] IN
  /\ reader[r].pc = "begin"
  /\ IF Odd(epoch) THEN Retry(r, rec)
     ELSE /\ reader' = [reader EXCEPT ![r] = [rec EXCEPT !.pc = "copy", !.left = Words]]
          /\ UNCHANGED faults
  /\ UNCHANGED <<epoch, ledger, writer, published, publishes>>

CopyWord(r, w) ==
  /\ reader[r].pc = "copy" /\ w \in reader[r].left
  /\ reader' = [reader EXCEPT ![r] = [@ EXCEPT !.copy[w] = ledger[w], !.left = reader[r].left \ {w},
                  !.pc = IF reader[r].left = {w} THEN "verify" ELSE "copy"]]
  /\ UNCHANGED <<epoch, ledger, faults, writer, published, publishes>>

\* ds4_gov_epoch_read_verify
\* Mutant: the second look asks only whether the epoch is even.
Verified_parity(r) == ~Odd(epoch)
Verified(r) == epoch = reader[r].began /\ ~Odd(reader[r].began)

ReadVerify(r) ==
  /\ reader[r].pc = "verify"
  /\ IF Verified(r) THEN reader' = [reader EXCEPT ![r].pc = "accepted"] /\ UNCHANGED faults
     ELSE Retry(r, reader[r])
  /\ UNCHANGED <<epoch, ledger, writer, published, publishes>>

Reader(r) == StartSnapshot(r) \/ ReadBegin(r) \/ (\E w \in Words : CopyWord(r, w)) \/ ReadVerify(r)

LedgerNext == (\E w \in Writers : Writer(w)) \/ \E r \in Readers : Reader(r)

LedgerSpec == LedgerInit /\ [][LedgerNext]_ledgerVars

-----------------------------------------------------------------------------
(* Properties. *)

Accepted == {r \in Readers : reader[r].pc = "accepted"}

\* A snapshot that is accepted is a ledger that stood between two
\* publications, never a mixture, in whatever order the words are stored and
\* copied and however often the writer comes by (ds4_gov_epoch_read_verify).
Coherent == \A r \in Accepted : reader[r].copy \in published

\* No accepted snapshot shows the impossible lease the evaluator fails on,
\* although single words of the ledger pass through it while a lease is
\* replaced (ds4_gov_lease_publish, "the ledger never holds a state the
\* evaluator must fail on").
NeverImpossible ==
  \A r \in Accepted, c \in Consumers :
    reader[r].copy[<<c, "resident">>] <= reader[r].copy[<<c, "intent">>]

\* The epoch a snapshot is stamped with says which ledger it is: two accepted
\* snapshots with the same stamp are equal.
StampIdentifies ==
  \A q, r \in Accepted : reader[q].began = reader[r].began => reader[q].copy = reader[r].copy

\* What a reader accepts is a ledger that stood at one moment, and a mixture
\* of two is never handed out.
SnapshotCoherent == LedgerTypeOK /\ Coherent /\ NeverImpossible
=============================================================================
