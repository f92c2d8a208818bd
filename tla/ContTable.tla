------------------------------ MODULE ContTable ------------------------------
(***************************************************************************)
(* What the continuation registry promises, without its vector, its clock  *)
(* or its ids: each owner (the serial session or a bank) has at most one   *)
(* live record, a record may lapse at any time, and a record some lease    *)
(* has pinned is never forgotten.  ContRegistry, the code's vector, is     *)
(* shown to implement this table.                                          *)
(***************************************************************************)
EXTENDS Naturals, FiniteSets

CONSTANTS Owners, Leases, MaxRid

None == 0

VARIABLES
  next,    \* the next record id
  known,   \* ids of the records the table still has
  live,    \* [Owners -> id of the owner's live record, or None]
  refs,    \* [known -> number of hard references]
  held     \* [Leases -> id of the record the lease pinned, or None]

tvars == <<next, known, live, refs, held>>

Lapsed(S) == [o \in Owners |-> IF o \in S THEN None ELSE live[o]]

TInit ==
  /\ next = 1 /\ known = {}
  /\ live = [o \in Owners |-> None]
  /\ refs = [r \in {} |-> 0]
  /\ held = [l \in Leases |-> None]

\* A record nobody pins and that is no owner's live record.
Forgettable(r, newLive) ==
  /\ \A o \in Owners : newLive[o] # r
  /\ r \in known => refs[r] = 0

\* Owner o finishes a turn: its old record stops being live, and some
\* forgettable records may go.
TPublish(o, drop) ==
  LET newLive == [live EXCEPT ![o] = next]
      all     == known \cup {next}
  IN  /\ next <= MaxRid
      /\ drop \subseteq all
      /\ \A r \in drop : Forgettable(r, newLive)
      /\ next' = next + 1
      /\ live' = newLive
      /\ known' = all \ drop
      /\ refs' = [r \in all \ drop |-> IF r = next THEN 0 ELSE refs[r]]
      /\ UNCHANGED held

\* The owners in S lose their live records (demotion, expiry).
TLapse(S) ==
  /\ live' = Lapsed(S)
  /\ UNCHANGED <<next, known, refs, held>>

\* A lease pins the live record of o; others may lapse at the same time.
TPin(l, o, S) ==
  /\ held[l] = None
  /\ o \notin S /\ live[o] # None
  /\ live' = Lapsed(S)
  /\ held' = [held EXCEPT ![l] = live[o]]
  /\ refs' = [refs EXCEPT ![live[o]] = @ + 1]
  /\ UNCHANGED <<next, known>>

TUnpin(l) ==
  /\ held[l] # None
  /\ held' = [held EXCEPT ![l] = None]
  /\ refs' = [refs EXCEPT ![held[l]] = @ - 1]
  /\ UNCHANGED <<next, known, live>>

TNext ==
  \/ \E o \in Owners : \E drop \in SUBSET (known \cup {next}) : TPublish(o, drop)
  \/ \E S \in SUBSET Owners : TLapse(S)
  \/ \E l \in Leases, o \in Owners : \E S \in SUBSET Owners : TPin(l, o, S)
  \/ \E l \in Leases : TUnpin(l)

TSpec == TInit /\ [][TNext]_tvars

----------------------------------------------------------------------------
\* Every reference count is the number of leases holding that record.
RefsAreHolders ==
  \A r \in known : refs[r] = Cardinality({l \in Leases : held[l] = r})

\* No lease holds a record the table has forgotten.
HeldAreKnown == \A l \in Leases : held[l] # None => held[l] \in known

\* The promise to a lease: the reference count of a live or pinned record
\* accounts for every lease, and what it pinned is still there.
PinPromise == RefsAreHolders /\ HeldAreKnown
=============================================================================
