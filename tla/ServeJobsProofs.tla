--------------------------- MODULE ServeJobsProofs ---------------------------
(***************************************************************************)
(* Proofs about the job life cycle, for any number of connections and any  *)
(* limits.  JobsInv, below, is inductive; it says where the lease of each  *)
(* job is at each point of its client thread and of the owner, that the    *)
(* admission and outcome counters are the sizes of sets of leases, and     *)
(* what a given-up or closed sink may still hold.  On top of it the body   *)
(* budget and the output backlog, sums over the connections, are counted   *)
(* as sets of units.                                                       *)
(***************************************************************************)
EXTENDS ServeJobs, FiniteSetTheorems, TLAPS

LeaseRec == [at : Places, queued : BOOLEAN, outcome : Outcomes,
             shed : BOOLEAN, pin : Conns \cup {None}]
AdmitRec == [stopping : BOOLEAN, queued : Int, inflight_body_bytes : Int, clients : Int]
RuntimeRec == [started : Int, inflight : Int, completed : Int, failed : Int,
               canceled : Int, out_backlog : Int]
JobRec   == [body : Nat, kind : Requests, follow : Conns \cup {None}]
OwnerRec == [pc : OwnerPCs, cur : Conns \cup {None}, budget : Nat]
TurnRec  == [live : Conns \cup {None}, window : BOOLEAN, session : Conns \cup {None}]
SinkRec  == [bytes : Nat, gone : BOOLEAN, slow : BOOLEAN,
             closed : BOOLEAN, started : BOOLEAN]

\* TypeOK with integer counters: that they are never negative follows from
\* Counts.
TypeInv ==
  /\ apc \in {"accept", "exiting", "exited"}
  /\ cpc \in [Conns -> ClientPCs] /\ peer \in [Conns -> BOOLEAN]
  /\ admit \in AdmitRec /\ runtime \in RuntimeRec
  /\ job \in [Conns -> JobRec] /\ lease \in [Conns -> LeaseRec]
  /\ sink \in [Conns -> SinkRec]
  /\ sending \in [Conns -> Nat] /\ lost \in [Conns -> BOOLEAN]
  /\ chan \in Seq(Conns)
  /\ owner \in OwnerRec /\ turn \in TurnRec
  /\ owner.pc \in {"begin", "serial", "generate", "finish"} => owner.cur \in Conns

\* Where the lease of c is while its client thread is at each point.
LeaseFollowsClient ==
  \A c \in Conns :
    /\ cpc[c] \in {"new", "read", "enqueue"} => lease[c].at = "none"
    /\ cpc[c] \in {"drain", "idle", "beat", "take", "send", "await"} =>
         lease[c].at \in {"chan", "owner", "done"}
    /\ cpc[c] = "close" => lease[c].at = "settled"
    /\ cpc[c] = "over" => lease[c].at \in {"none", "settled"}
    /\ sending[c] > 0 => cpc[c] = "send"
    /\ lease[c].queued <=> lease[c].at = "chan"
    /\ lease[c].at \in {"none", "settled"} => lease[c].pin = None

\* The channel holds each queued lease at most once, the owner the started
\* one, and a halted owner cannot be handed another.
LeaseFollowsOwner ==
  /\ \A i \in 1..Len(chan) : lease[chan[i]].at = "chan"
  /\ \A i, j \in 1..Len(chan) : i # j => chan[i] # chan[j]
  /\ owner.pc \in {"begin", "serial", "generate", "finish"} => lease[owner.cur].at = "owner"
  /\ owner.pc = "halted" => Disconnected

Counts == QueueAccounted /\ ClientsAccounted /\ OutcomesAccounted

\* What the sink and the delivery flag of c say of each other.
SinkStates ==
  \A c \in Conns :
    /\ sink[c].closed => lease[c].at \in {"done", "settled"}
    /\ lost[c] /\ cpc[c] # "over" => sink[c].gone
    /\ cpc[c] = "await" => sink[c].bytes = 0 /\ (sink[c].closed \/ sink[c].gone)

\* A job that has not reached its terminal is not the live turn.
TurnIsPast ==
  owner.pc \in {"begin", "serial", "generate"} => turn.live # owner.cur

JobsInv ==
  /\ TypeInv
  /\ LeaseFollowsClient /\ LeaseFollowsOwner
  /\ Counts /\ QueueBounded
  /\ GoneHoldsNothing /\ SinkStates /\ CompletedDelivered
  /\ TurnIsPast /\ TurnWasAccepted

----------------------------------------------------------------------------
(* Types.                                                                  *)

\* Setting one field of a record to a value of its type keeps the record's
\* type.
LEMMA AdmitSet ==
  ASSUME NEW r \in AdmitRec
  PROVE  /\ \A v \in BOOLEAN : [r EXCEPT !.stopping = v] \in AdmitRec
         /\ \A v \in Int :
              /\ [r EXCEPT !.queued = v] \in AdmitRec
              /\ [r EXCEPT !.inflight_body_bytes = v] \in AdmitRec
              /\ [r EXCEPT !.clients = v] \in AdmitRec
BY DEF AdmitRec

LEMMA RuntimeSet ==
  ASSUME NEW r \in RuntimeRec
  PROVE  /\ \A v \in Int :
              /\ [r EXCEPT !.started = v] \in RuntimeRec
              /\ [r EXCEPT !.inflight = v] \in RuntimeRec
              /\ [r EXCEPT !.completed = v] \in RuntimeRec
              /\ [r EXCEPT !.failed = v] \in RuntimeRec
              /\ [r EXCEPT !.canceled = v] \in RuntimeRec
              /\ [r EXCEPT !.out_backlog = v] \in RuntimeRec
BY DEF RuntimeRec

LEMMA LeaseSet ==
  ASSUME NEW r \in LeaseRec
  PROVE  /\ \A v \in Places : [r EXCEPT !.at = v] \in LeaseRec
         /\ \A v \in BOOLEAN :
              /\ [r EXCEPT !.queued = v] \in LeaseRec
              /\ [r EXCEPT !.shed = v] \in LeaseRec
         /\ \A v \in Outcomes : [r EXCEPT !.outcome = v] \in LeaseRec
         /\ \A v \in Conns \cup {None} : [r EXCEPT !.pin = v] \in LeaseRec
BY DEF LeaseRec

LEMMA SinkSet ==
  ASSUME NEW r \in SinkRec
  PROVE  /\ \A v \in Nat : [r EXCEPT !.bytes = v] \in SinkRec
         /\ \A v \in BOOLEAN :
              /\ [r EXCEPT !.gone = v] \in SinkRec
              /\ [r EXCEPT !.slow = v] \in SinkRec
              /\ [r EXCEPT !.closed = v] \in SinkRec
              /\ [r EXCEPT !.started = v] \in SinkRec
BY DEF SinkRec

LEMMA OwnerSet ==
  ASSUME NEW r \in OwnerRec
  PROVE  /\ \A v \in OwnerPCs : [r EXCEPT !.pc = v] \in OwnerRec
         /\ \A v \in Conns \cup {None} : [r EXCEPT !.cur = v] \in OwnerRec
         /\ \A v \in Nat : [r EXCEPT !.budget = v] \in OwnerRec
BY DEF OwnerRec

LEMMA TurnSet ==
  ASSUME NEW r \in TurnRec
  PROVE  /\ \A v \in Conns \cup {None} :
              /\ [r EXCEPT !.live = v] \in TurnRec
              /\ [r EXCEPT !.session = v] \in TurnRec
         /\ \A v \in BOOLEAN : [r EXCEPT !.window = v] \in TurnRec
BY DEF TurnRec

\* The fields of typed records.
LEMMA FieldTypes ==
  /\ \A r \in AdmitRec : r.queued \in Int /\ r.inflight_body_bytes \in Int /\ r.clients \in Int
  /\ \A r \in RuntimeRec : /\ r.started \in Int /\ r.inflight \in Int /\ r.completed \in Int
                           /\ r.failed \in Int /\ r.canceled \in Int /\ r.out_backlog \in Int
  /\ \A l \in LeaseRec : /\ l.at \in Places /\ l.outcome \in Outcomes
                         /\ l.shed \in BOOLEAN /\ l.queued \in BOOLEAN
  /\ \A s \in SinkRec : s.bytes \in Nat /\ s.slow \in BOOLEAN /\ s.gone \in BOOLEAN
  /\ \A r \in OwnerRec : r.pc \in OwnerPCs /\ r.budget \in Nat /\ r.cur \in Conns \cup {None}
  /\ \A r \in TurnRec : r.live \in Conns \cup {None} /\ r.window \in BOOLEAN
  /\ \A r \in JobRec : r.body \in Nat
BY DEF AdmitRec, RuntimeRec, LeaseRec, SinkRec, OwnerRec, TurnRec, JobRec

\* The records the actions build.
LEMMA SinkBuilds ==
  ASSUME NEW s \in SinkRec
  PROVE  /\ Cancelled(s) \in SinkRec
         /\ Evicted(s) \in SinkRec
         /\ [Evicted(s) EXCEPT !.started = TRUE] \in SinkRec
         /\ [s EXCEPT !.bytes = @ + 1, !.started = TRUE] \in SinkRec
<1>1. s.bytes + 1 \in Nat /\ 0 \in Nat
  BY FieldTypes
<1>2. Cancelled(s) \in SinkRec
  BY <1>1, SinkSet DEF Cancelled
<1>3. Evicted(s) \in SinkRec
  BY <1>1, SinkSet DEF Evicted
<1>4. [s EXCEPT !.bytes = @ + 1, !.started = TRUE] \in SinkRec
  BY <1>1, SinkSet
<1> QED BY <1>2, <1>3, <1>4, SinkSet

\* The sink operations keep the types of what they change.
LEMMA CancelType ==
  ASSUME TypeInv, NEW c \in Conns, NEW n \in Nat, cancel(c, n)
  PROVE  sink' \in [Conns -> SinkRec] /\ runtime' \in RuntimeRec /\ lost' \in [Conns -> BOOLEAN]
<1>1. sink \in [Conns -> SinkRec] /\ runtime \in RuntimeRec /\ lost \in [Conns -> BOOLEAN]
  BY DEF TypeInv
<1>2. sink' \in [Conns -> SinkRec]
  BY <1>1, SinkBuilds DEF cancel
<1>3. runtime.out_backlog - sink[c].bytes \in Int
  BY <1>1, FieldTypes
<1>4. runtime' \in RuntimeRec
  BY <1>1, <1>3, RuntimeSet DEF cancel
<1>5. lost' \in [Conns -> BOOLEAN]
  BY <1>1, Zenon DEF cancel
<1> QED BY <1>2, <1>4, <1>5

\* The three results of a write, with the @ of its updates spelled out.
LEMMA WriteCases ==
  ASSUME TypeInv, NEW c \in Conns, NEW ok \in BOOLEAN, Write(c, ok)
  PROVE  \/ /\ Refused(c) /\ ~ok /\ sink' = sink /\ runtime' = runtime
            /\ lost' = [lost EXCEPT ![c] = TRUE]
         \/ /\ ~Refused(c) /\ ~ok
            /\ sink' = [sink EXCEPT ![c] = [Evicted(sink[c]) EXCEPT !.started = TRUE]]
            /\ runtime' = [runtime EXCEPT !.out_backlog = runtime.out_backlog - sink[c].bytes]
            /\ lost' = [lost EXCEPT ![c] = TRUE]
         \/ /\ ~Refused(c) /\ ok
            /\ sink' = [sink EXCEPT ![c] = [sink[c] EXCEPT !.bytes = @ + 1, !.started = TRUE]]
            /\ runtime' = [runtime EXCEPT !.out_backlog = runtime.out_backlog + 1]
            /\ lost' = lost
<1>1. CASE Refused(c)
  BY <1>1, Zenon DEF Write
<1>2. CASE ~Refused(c) /\ Overflows(c)
  BY <1>2, Zenon DEF Write
<1>3. CASE ~Refused(c) /\ ~Overflows(c)
  <2>1. /\ sink' = [sink EXCEPT ![c].bytes = @ + 1, ![c].started = TRUE]
        /\ runtime' = [runtime EXCEPT !.out_backlog = runtime.out_backlog + 1]
        /\ lost' = lost /\ ok
    BY <1>3, Zenon DEF Write
  <2>2. sink' = [sink EXCEPT ![c] = [sink[c] EXCEPT !.bytes = @ + 1, !.started = TRUE]]
    BY <2>1 DEF TypeInv
  <2> QED BY <1>3, <2>1, <2>2
<1> QED BY <1>1, <1>2, <1>3

LEMMA WriteType ==
  ASSUME TypeInv, NEW c \in Conns, NEW ok \in BOOLEAN, Write(c, ok)
  PROVE  sink' \in [Conns -> SinkRec] /\ runtime' \in RuntimeRec /\ lost' \in [Conns -> BOOLEAN]
<1>1. sink \in [Conns -> SinkRec] /\ runtime \in RuntimeRec /\ lost \in [Conns -> BOOLEAN]
  BY DEF TypeInv
<1>2. runtime.out_backlog - sink[c].bytes \in Int /\ runtime.out_backlog + 1 \in Int
  BY <1>1, FieldTypes
<1>3. /\ Evicted(sink[c]) \in SinkRec
      /\ [Evicted(sink[c]) EXCEPT !.started = TRUE] \in SinkRec
      /\ [sink[c] EXCEPT !.bytes = @ + 1, !.started = TRUE] \in SinkRec
  BY <1>1, SinkBuilds
<1>4. sink' \in [Conns -> SinkRec]
  BY <1>1, <1>3, WriteCases
<1>5. runtime' \in RuntimeRec
  <2>1. /\ [runtime EXCEPT !.out_backlog = runtime.out_backlog - sink[c].bytes] \in RuntimeRec
        /\ [runtime EXCEPT !.out_backlog = runtime.out_backlog + 1] \in RuntimeRec
    BY <1>1, <1>2, RuntimeSet
  <2> QED BY <1>1, <2>1, WriteCases
<1>6. lost' \in [Conns -> BOOLEAN]
  BY <1>1, WriteCases
<1> QED BY <1>4, <1>5, <1>6

\* The owner is serving the job of owner.cur.
Busy == owner.pc \in {"begin", "serial", "generate", "finish"}

LEMMA OutcomeType ==
  ASSUME TypeInv, Busy, NEW o \in Outcomes, NEW shed \in BOOLEAN, Outcome(o, shed)
  PROVE  /\ lease' \in [Conns -> LeaseRec]
         /\ owner' \in OwnerRec /\ owner'.cur = owner.cur /\ owner'.pc = "finish"
         /\ lease' = [lease EXCEPT ![owner.cur] = [lease[owner.cur] EXCEPT !.outcome = o, !.shed = shed]]
<1>1. lease \in [Conns -> LeaseRec] /\ owner \in OwnerRec /\ owner.cur \in Conns
  BY DEF TypeInv, Busy
<1>2. lease' = [lease EXCEPT ![owner.cur] = [lease[owner.cur] EXCEPT !.outcome = o, !.shed = shed]]
  BY <1>1 DEF Outcome, Cur
<1>3. [lease[owner.cur] EXCEPT !.outcome = o, !.shed = shed] \in LeaseRec
  BY <1>1, LeaseSet
<1>4. owner' \in OwnerRec
  BY <1>1, OwnerSet DEF Outcome, Goto, OwnerPCs
<1>5. owner'.cur = owner.cur /\ owner'.pc = "finish"
  BY <1>1 DEF Outcome, Goto, OwnerRec
<1> QED BY <1>1, <1>2, <1>3, <1>4, <1>5

LEMMA ClientOverType ==
  ASSUME TypeInv, NEW c \in Conns, ClientOver(c)
  PROVE  cpc' \in [Conns -> ClientPCs] /\ peer' \in [Conns -> BOOLEAN] /\ admit' \in AdmitRec
<1>1. admit \in AdmitRec /\ admit.clients - 1 \in Int
  BY FieldTypes DEF TypeInv
<1>2. admit' \in AdmitRec
  BY <1>1, AdmitSet DEF ClientOver
<1> QED BY <1>2 DEF TypeInv, ClientOver, ClientPCs

LEMMA LeaseDropType ==
  ASSUME TypeInv, NEW c \in Conns, NEW o \in Outcomes, LeaseDrop(c, o)
  PROVE  /\ lease' \in [Conns -> LeaseRec] /\ admit' \in AdmitRec /\ runtime' \in RuntimeRec
         /\ lease' = [lease EXCEPT ![c] = [lease[c] EXCEPT !.at = "settled", !.queued = FALSE,
                                                          !.pin = None, !.outcome = o]]
<1>1. /\ lease \in [Conns -> LeaseRec] /\ admit \in AdmitRec /\ runtime \in RuntimeRec
      /\ job[c] \in JobRec
  BY DEF TypeInv
<1>2. lease' = [lease EXCEPT ![c] = [lease[c] EXCEPT !.at = "settled", !.queued = FALSE,
                                                   !.pin = None, !.outcome = o]]
  BY <1>1 DEF LeaseDrop
<1>3. lease' \in [Conns -> LeaseRec]
  <2>1. [lease[c] EXCEPT !.at = "settled", !.queued = FALSE, !.pin = None, !.outcome = o] \in LeaseRec
    BY <1>1, LeaseSet DEF Places
  <2> QED BY <1>1, <1>2, <2>1
<1>4. admit' \in AdmitRec
  <2> DEFINE q == IF lease[c].queued /\ admit.queued > 0 THEN admit.queued - 1 ELSE admit.queued
             n == admit.inflight_body_bytes - job[c].body
  <2>1. q \in Int /\ n \in Int
    BY <1>1, FieldTypes
  <2>2. admit' = [admit EXCEPT !.queued = q, !.inflight_body_bytes = n]
    BY DEF LeaseDrop
  <2> HIDE DEF q, n
  <2> QED BY <1>1, <2>1, <2>2, AdmitSet
<1>5. runtime' \in RuntimeRec
  <2> DEFINE r1 == runtime.inflight - 1
             r2 == runtime.completed + (IF o = "completed" THEN 1 ELSE 0)
             r3 == runtime.failed + (IF o = "failed" THEN 1 ELSE 0)
             r4 == runtime.canceled + (IF o = "canceled" THEN 1 ELSE 0)
  <2>1. r1 \in Int /\ r2 \in Int /\ r3 \in Int /\ r4 \in Int
    BY <1>1, FieldTypes
  <2>2. runtime' = [runtime EXCEPT !.inflight = r1, !.completed = r2, !.failed = r3, !.canceled = r4]
    BY DEF LeaseDrop
  <2> HIDE DEF r1, r2, r3, r4
  <2> QED BY <1>1, <2>1, <2>2, RuntimeSet
<1> QED BY <1>2, <1>3, <1>4, <1>5

\* Every step keeps TypeInv.
LEMMA TypeStep == TypeInv /\ [Next]_vars => TypeInv'
<1> SUFFICES ASSUME TypeInv, [Next]_vars PROVE TypeInv'
  OBVIOUS
<1>0. /\ admit \in AdmitRec /\ runtime \in RuntimeRec /\ owner \in OwnerRec /\ turn \in TurnRec
      /\ sink \in [Conns -> SinkRec] /\ lease \in [Conns -> LeaseRec]
      /\ job \in [Conns -> JobRec] /\ chan \in Seq(Conns)
  BY DEF TypeInv
<1>1. ASSUME NEW c \in Conns, Accept(c) PROVE TypeInv'
  <2>1. admit.clients + 1 \in Int
    BY <1>0, FieldTypes
  <2>2. admit' \in AdmitRec
    BY <1>0, <1>1, <2>1, AdmitSet DEF Accept
  <2>3. cpc' \in [Conns -> ClientPCs]
    BY <1>1 DEF Accept, TypeInv, ClientPCs
  <2> QED BY <1>1, <2>2, <2>3 DEF TypeInv, Accept
<1>2. ASSUME NEW c \in Conns, ClientThread(c) PROVE TypeInv'
  <2>1. CASE ReadAnswered(c)
    BY <2>1, ClientOverType DEF TypeInv, ReadAnswered
  <2>2. ASSUME NEW n \in BodySizes, ReadShed(c, n) PROVE TypeInv'
    BY <2>2, ClientOverType DEF TypeInv, ReadShed
  <2>3. ASSUME NEW n \in BodySizes, NEW kind \in Requests, NEW f \in Conns \cup {None},
               ReadJob(c, n, kind, f)
        PROVE  TypeInv'
    <3>1. [body |-> n, kind |-> kind, follow |-> f] \in JobRec
      BY LimitsAssumption DEF JobRec
    <3> QED BY <2>3, <3>1 DEF TypeInv, ReadJob, ClientPCs
  <2>4. CASE EnqueueRefused(c)
    BY <2>4, ClientOverType DEF TypeInv, EnqueueRefused
  <2>5. CASE Enqueue(c)
    <3> DEFINE pin == IF job[c].follow # None /\ turn.live = job[c].follow
                      THEN turn.live ELSE None
               new == [NoLease EXCEPT !.at = "chan", !.queued = TRUE, !.pin = pin]
    <3>1. pin \in Conns \cup {None} /\ (turn.window \/ pin # None) \in BOOLEAN
      BY <1>0, FieldTypes
    <3>2. admit.queued + 1 \in Int /\ admit.inflight_body_bytes + job[c].body \in Int
      BY <1>0, FieldTypes
    <3>3. runtime.started + 1 \in Int /\ runtime.inflight + 1 \in Int
      BY <1>0, FieldTypes
    <3>4. new \in LeaseRec
      BY <3>1 DEF NoLease, LeaseRec, Places, Outcomes
    <3>5. /\ lease' = [lease EXCEPT ![c] = new] /\ turn' = [turn EXCEPT !.window = turn.window \/ pin # None]
          /\ admit' = [admit EXCEPT !.queued = admit.queued + 1,
                         !.inflight_body_bytes = admit.inflight_body_bytes + job[c].body]
          /\ runtime' = [runtime EXCEPT !.started = runtime.started + 1, !.inflight = runtime.inflight + 1]
          /\ chan' = Append(chan, c) /\ cpc' = [cpc EXCEPT ![c] = "drain"]
          /\ UNCHANGED <<apc, peer, job, sink, sending, lost, owner>>
      BY <2>5 DEF Enqueue
    <3> HIDE DEF new, pin
    <3>6. admit' \in AdmitRec
      BY <1>0, <3>2, <3>5, AdmitSet
    <3>7. runtime' \in RuntimeRec
      BY <1>0, <3>3, <3>5, RuntimeSet
    <3>8. turn' \in TurnRec
      BY <1>0, <3>1, <3>5, TurnSet
    <3>9. lease' \in [Conns -> LeaseRec] /\ chan' \in Seq(Conns) /\ cpc' \in [Conns -> ClientPCs]
      BY <1>0, <3>4, <3>5 DEF TypeInv, ClientPCs
    <3> QED BY <3>5, <3>6, <3>7, <3>8, <3>9 DEF TypeInv
  <2>6. CASE DrainLook(c)
    BY <2>6 DEF TypeInv, DrainLook, ClientPCs
  <2>7. CASE DrainIdle(c)
    <3>1. sink' \in [Conns -> SinkRec] /\ runtime' \in RuntimeRec /\ lost' \in [Conns -> BOOLEAN]
      BY <2>7, CancelType DEF TypeInv, DrainIdle
    <3> QED BY <2>7, <3>1 DEF TypeInv, DrainIdle, ClientPCs
  <2>8. CASE DrainTake(c)
    <3>1. sink[c].bytes \in Nat /\ runtime.out_backlog - sink[c].bytes \in Int
      BY <1>0, FieldTypes
    <3>2. runtime' \in RuntimeRec
      BY <1>0, <2>8, <3>1, RuntimeSet DEF DrainTake
    <3>3. sink' \in [Conns -> SinkRec]
      BY <1>0, <2>8, SinkSet DEF DrainTake
    <3> QED BY <2>8, <3>1, <3>2, <3>3 DEF TypeInv, DrainTake, ClientPCs
  <2>9. CASE DrainSend(c)
    <3>1. sending[c] \in Nat
      BY DEF TypeInv
    <3>2. sink' \in [Conns -> SinkRec] /\ runtime' \in RuntimeRec /\ lost' \in [Conns -> BOOLEAN]
      BY <2>9, <3>1, CancelType DEF TypeInv, DrainSend
    <3> QED BY <2>9, <3>2 DEF TypeInv, DrainSend, ClientPCs
  <2>10. CASE Settle(c)
    <3> DEFINE o == IF sink[c].gone /\ lease[c].outcome = "completed"
                    THEN "canceled" ELSE lease[c].outcome
    <3>1. o \in Outcomes /\ LeaseDrop(c, o)
      BY <1>0, <2>10, FieldTypes DEF Settle, Outcomes
    <3> HIDE DEF o
    <3> QED BY <2>10, <3>1, LeaseDropType DEF TypeInv, Settle, ClientPCs
  <2>11. CASE DrainClose(c)
    <3>1. runtime.out_backlog - sink[c].bytes \in Int
      BY <1>0, FieldTypes
    <3>2. runtime' \in RuntimeRec
      BY <1>0, <2>11, <3>1, RuntimeSet DEF DrainClose
    <3>3. sink' \in [Conns -> SinkRec] /\ job' \in [Conns -> JobRec]
      BY <1>0, <2>11, LimitsAssumption DEF DrainClose, NewSink, NoJob, SinkRec, JobRec
    <3> QED BY <2>11, <3>2, <3>3, ClientOverType DEF TypeInv, DrainClose
  <2> QED BY <1>2, <2>1, <2>2, <2>3, <2>4, <2>5, <2>6, <2>7, <2>8, <2>9, <2>10, <2>11
          DEF ClientThread
<1>3. ASSUME NEW c \in Conns, PeerLeaves(c) PROVE TypeInv'
  BY <1>3 DEF TypeInv, PeerLeaves
<1>4. CASE OwnerRecv
  <2> DEFINE h == Head(chan)
  <2>1. h \in Conns /\ Tail(chan) \in Seq(Conns)
    BY <1>0, <1>4 DEF OwnerRecv
  <2>2. /\ lease' = [lease EXCEPT ![h] = [lease[h] EXCEPT !.at = "owner", !.queued = FALSE]]
        /\ owner' = [owner EXCEPT !.pc = "begin", !.cur = h]
    BY <1>0, <1>4, <2>1 DEF OwnerRecv
  <2> HIDE DEF h
  <2>3. lease' \in [Conns -> LeaseRec]
    <3>1. [lease[h] EXCEPT !.at = "owner", !.queued = FALSE] \in LeaseRec
      BY <1>0, <2>1, LeaseSet DEF Places
    <3> QED BY <1>0, <2>1, <2>2, <3>1
  <2>4. owner' \in OwnerRec /\ owner'.cur \in Conns
    <3>1. owner' \in OwnerRec
      BY <1>0, <2>1, <2>2, OwnerSet DEF OwnerPCs
    <3> QED BY <1>0, <2>1, <2>2, <3>1 DEF OwnerRec
  <2>5. admit' \in AdmitRec
    <3>1. admit.queued \in Int /\ admit.queued - 1 \in Int
      BY <1>0, FieldTypes
    <3>2. \/ admit' = [admit EXCEPT !.queued = admit.queued - 1]
          \/ admit' = [admit EXCEPT !.queued = admit.queued]
      BY <1>4 DEF OwnerRecv
    <3> QED BY <1>0, <3>1, <3>2, AdmitSet
  <2> QED BY <1>4, <2>1, <2>3, <2>4, <2>5 DEF TypeInv, OwnerRecv
<1>5. CASE RunJob
  <2>1. CASE OwnerSkipGone
    <3>1. Busy /\ owner.cur \in Conns
      BY <2>1 DEF OwnerSkipGone, TypeInv, Busy
    <3>2. sink' \in [Conns -> SinkRec] /\ runtime' \in RuntimeRec /\ lost' \in [Conns -> BOOLEAN]
      BY <2>1, <3>1, CancelType DEF TypeInv, OwnerSkipGone, Cur
    <3> QED BY <2>1, <3>1, <3>2, OutcomeType DEF TypeInv, OwnerSkipGone, Outcomes
  <2>2. CASE OwnerShedAge
    <3>1. PICK ok \in BOOLEAN : Write(owner.cur, ok)
      BY <2>2 DEF OwnerShedAge, Cur
    <3>2. Busy /\ owner.cur \in Conns
      BY <2>2 DEF OwnerShedAge, TypeInv, Busy
    <3>3. Outcome("shed", TRUE) /\ UNCHANGED <<apc, cpc, peer, admit, job, sending, chan, turn>>
      BY <2>2 DEF OwnerShedAge
    <3>4. lease' \in [Conns -> LeaseRec] /\ owner' \in OwnerRec /\ owner'.cur = owner.cur
      BY <3>2, <3>3, OutcomeType DEF Outcomes
    <3> QED BY <3>1, <3>2, <3>3, <3>4, WriteType DEF TypeInv
  <2>3. CASE OwnerBegin
    <3>1. owner' \in OwnerRec /\ owner'.cur = owner.cur
      <4>1. owner' \in OwnerRec
        BY <1>0, <2>3, OwnerSet DEF OwnerBegin, Goto, OwnerPCs
      <4>2. owner' = [owner EXCEPT !.pc = "serial"]
        BY <2>3 DEF OwnerBegin, Goto
      <4> QED BY <1>0, <4>1, <4>2 DEF OwnerRec
    <3> QED BY <2>3, <3>1 DEF TypeInv, OwnerBegin
  <2>4. CASE OwnerHold
    <3>1. PICK ok \in BOOLEAN : Write(owner.cur, ok)
      BY <2>4 DEF OwnerHold, Cur
    <3>2. Busy /\ owner.cur \in Conns
      BY <2>4 DEF OwnerHold, TypeInv, Busy
    <3> QED BY <2>4, <3>1, <3>2, WriteType, OutcomeType DEF TypeInv, OwnerHold, Outcomes
  <2>5. CASE OwnerRefuse
    <3>1. PICK ok \in BOOLEAN : /\ Write(owner.cur, ok)
                               /\ Outcome(IF ok THEN "completed" ELSE "canceled", FALSE)
      BY <2>5 DEF OwnerRefuse, Cur
    <3>2. Busy /\ owner.cur \in Conns
      BY <2>5 DEF OwnerRefuse, TypeInv, Busy
    <3> QED BY <2>5, <3>1, <3>2, WriteType, OutcomeType DEF TypeInv, OwnerRefuse, Outcomes
  <2>6. CASE OwnerResize
    <3>1. turn' \in TurnRec
      BY <1>0, <2>6, TurnSet DEF OwnerResize
    <3> QED BY <2>6, <3>1 DEF TypeInv, OwnerResize
  <2>7. CASE OwnerGenerate
    <3>1. turn' \in TurnRec
      BY <1>0, <2>7, TurnSet DEF OwnerGenerate
    <3>2. owner' \in OwnerRec
      BY <1>0, <2>7, OwnerSet, LimitsAssumption DEF OwnerGenerate, OwnerPCs
    <3>3. owner'.cur = owner.cur
      BY <1>0, <2>7 DEF OwnerGenerate, OwnerRec
    <3> QED BY <2>7, <3>1, <3>2, <3>3 DEF TypeInv, OwnerGenerate
  <2>8. CASE OwnerChunk
    <3>1. PICK ok \in BOOLEAN :
            /\ Write(owner.cur, ok)
            /\ IF ok THEN owner' = [owner EXCEPT !.budget = owner.budget - 1] /\ UNCHANGED lease
               ELSE Outcome("canceled", FALSE)
      BY <2>8 DEF OwnerChunk, Cur
    <3>2. Busy /\ owner.cur \in Conns
      BY <2>8 DEF OwnerChunk, TypeInv, Busy
    <3>3. CASE ok
      <4>1. owner.budget - 1 \in Nat
        BY <1>0, <2>8, FieldTypes DEF OwnerChunk
      <4>2. owner' \in OwnerRec
        BY <1>0, <3>1, <3>3, <4>1, OwnerSet
      <4>3. owner'.cur = owner.cur
        BY <1>0, <3>1, <3>3 DEF OwnerRec
      <4> QED BY <2>8, <3>1, <3>2, <3>3, <4>2, <4>3, WriteType DEF TypeInv, OwnerChunk
    <3>4. CASE ~ok
      BY <2>8, <3>1, <3>2, <3>4, WriteType, OutcomeType DEF TypeInv, OwnerChunk, Outcomes
    <3> QED BY <3>3, <3>4
  <2>9. CASE OwnerFlushGone
    <3>1. Busy /\ owner.cur \in Conns
      BY <2>9 DEF OwnerFlushGone, TypeInv, Busy
    <3>2. sink' \in [Conns -> SinkRec] /\ runtime' \in RuntimeRec /\ lost' \in [Conns -> BOOLEAN]
      BY <2>9, <3>1, CancelType DEF TypeInv, OwnerFlushGone, Cur
    <3> QED BY <2>9, <3>1, <3>2, OutcomeType DEF TypeInv, OwnerFlushGone, Outcomes
  <2>10. CASE OwnerError
    <3>1. PICK ok \in BOOLEAN : Write(owner.cur, ok)
      BY <2>10 DEF OwnerError, Cur
    <3>2. Busy /\ owner.cur \in Conns
      BY <2>10 DEF OwnerError, TypeInv, Busy
    <3> QED BY <2>10, <3>1, <3>2, WriteType, OutcomeType DEF TypeInv, OwnerError, Outcomes
  <2>11. ASSUME NEW failed \in BOOLEAN, OwnerPlainEnd(failed) PROVE TypeInv'
    <3>1. PICK ok \in BOOLEAN :
            /\ Write(owner.cur, ok)
            /\ Outcome(IF ~ok THEN "canceled" ELSE IF failed THEN "failed" ELSE "completed", FALSE)
      BY <2>11 DEF OwnerPlainEnd, Cur
    <3>2. Busy /\ owner.cur \in Conns
      BY <2>11 DEF OwnerPlainEnd, TypeInv, Busy
    <3>3. turn' \in TurnRec
      BY <1>0, <2>11, TurnSet DEF OwnerPlainEnd
    <3> QED BY <2>11, <3>1, <3>2, <3>3, WriteType, OutcomeType DEF TypeInv, OwnerPlainEnd, Outcomes
  <2>12. CASE OwnerToolFull
    <3>1. Busy /\ owner.cur \in Conns
      BY <2>12 DEF OwnerToolFull, TypeInv, Busy
    <3>2. sink' \in [Conns -> SinkRec] /\ lost' \in [Conns -> BOOLEAN]
      BY <1>0, <2>12, <3>1, SinkBuilds DEF TypeInv, OwnerToolFull, Cur
    <3>3. runtime' \in RuntimeRec
      <4>1. runtime.out_backlog - sink[owner.cur].bytes \in Int
        BY <1>0, <3>1, FieldTypes
      <4> QED BY <1>0, <2>12, <4>1, RuntimeSet DEF OwnerToolFull, Cur
    <3> QED BY <2>12, <3>1, <3>2, <3>3, OutcomeType DEF TypeInv, OwnerToolFull, Outcomes
  <2>13. CASE OwnerToolGone
    <3>1. Busy /\ owner.cur \in Conns
      BY <2>13 DEF OwnerToolGone, TypeInv, Busy
    <3>2. sink' \in [Conns -> SinkRec] /\ lost' \in [Conns -> BOOLEAN]
      BY <1>0, <2>13, <3>1, SinkBuilds DEF TypeInv, OwnerToolGone, Cur
    <3>3. runtime' \in RuntimeRec
      <4>1. runtime.out_backlog - sink[owner.cur].bytes \in Int
        BY <1>0, <3>1, FieldTypes
      <4> QED BY <1>0, <2>13, <4>1, RuntimeSet DEF OwnerToolGone, Cur
    <3>4. turn' \in TurnRec
      BY <1>0, <2>13, TurnSet DEF OwnerToolGone
    <3> QED BY <2>13, <3>1, <3>2, <3>3, <3>4, OutcomeType DEF TypeInv, OwnerToolGone, Outcomes
  <2>14. CASE OwnerToolCommit
    <3>1. Busy /\ owner.cur \in Conns
      BY <2>14 DEF OwnerToolCommit, TypeInv, Busy
    <3>2. sink' \in [Conns -> SinkRec]
      <4>1. sink' = [sink EXCEPT ![owner.cur] = [sink[owner.cur] EXCEPT !.bytes = @ + 1, !.started = TRUE]]
        BY <1>0, <2>14, <3>1 DEF OwnerToolCommit, Cur
      <4>2. [sink[owner.cur] EXCEPT !.bytes = @ + 1, !.started = TRUE] \in SinkRec
        BY <1>0, <3>1, SinkBuilds
      <4> QED BY <1>0, <4>1, <4>2
    <3>3. runtime' \in RuntimeRec
      <4>1. runtime.out_backlog + 1 \in Int
        BY <1>0, FieldTypes
      <4> QED BY <1>0, <2>14, <4>1, RuntimeSet DEF OwnerToolCommit
    <3>4. turn' \in TurnRec
      BY <2>14, <3>1 DEF OwnerToolCommit, TurnRec, Cur
    <3> QED BY <2>14, <3>1, <3>2, <3>3, <3>4, OutcomeType DEF TypeInv, OwnerToolCommit, Outcomes
  <2>15. CASE OwnerFinish
    <3> DEFINE c == owner.cur
               shed == lease[c].shed \/ sink[c].slow
               o == IF sink[c].slow /\ lease[c].outcome \notin {"failed", "shed"}
                    THEN "canceled" ELSE lease[c].outcome
               new == [lease[c] EXCEPT !.at = "done", !.shed = shed, !.outcome = o]
    <3>1. c \in Conns
      BY <2>15 DEF OwnerFinish, TypeInv
    <3>2. shed \in BOOLEAN /\ o \in Outcomes
      BY <1>0, <3>1, FieldTypes DEF Outcomes
    <3>3. lease' = [lease EXCEPT ![c] = new]
      BY <1>0, <2>15, <3>1 DEF OwnerFinish, Cur
    <3>4. new \in LeaseRec
      <4> HIDE DEF shed, o, c
      <4> QED BY <1>0, <3>1, <3>2, LeaseSet DEF Places
    <3>5. lease' \in [Conns -> LeaseRec]
      BY <1>0, <3>1, <3>3, <3>4
    <3>6. sink' \in [Conns -> SinkRec]
      BY <1>0, <2>15, <3>1, SinkSet DEF OwnerFinish, Cur
    <3>7. owner' \in OwnerRec /\ owner'.pc = "recv"
      <4>1. owner' \in OwnerRec
        BY <1>0, <2>15, OwnerSet DEF OwnerFinish, OwnerPCs
      <4> QED BY <1>0, <2>15, <4>1 DEF OwnerFinish, OwnerRec
    <3> QED BY <2>15, <3>5, <3>6, <3>7 DEF TypeInv, OwnerFinish
  <2> QED BY <1>5, <2>1, <2>2, <2>3, <2>4, <2>5, <2>6, <2>7, <2>8, <2>9, <2>10, <2>11,
             <2>12, <2>13, <2>14, <2>15 DEF RunJob
<1>6. CASE OwnerShutdown
  <2>1. owner' \in OwnerRec
    BY <1>0, <1>6, OwnerSet DEF OwnerShutdown, Goto, OwnerPCs
  <2>2. owner'.pc = "halted"
    BY <1>0, <1>6 DEF OwnerShutdown, Goto, OwnerRec
  <2> QED BY <1>6, <2>1, <2>2 DEF TypeInv, OwnerShutdown
<1>7. CASE AcceptStop
  BY <1>7 DEF TypeInv, AcceptStop
<1>8. CASE AcceptExit
  <2>1. admit' \in AdmitRec
    BY <1>0, <1>8, AdmitSet DEF AcceptExit
  <2> QED BY <1>8, <2>1 DEF TypeInv, AcceptExit
<1>9. CASE TurnAges
  <2>1. turn' \in TurnRec
    BY <1>0, <1>9, TurnSet DEF TurnAges
  <2> QED BY <1>9, <2>1 DEF TypeInv, TurnAges
<1>10. CASE UNCHANGED vars
  BY <1>10 DEF TypeInv, vars
<1> QED BY <1>1, <1>2, <1>3, <1>4, <1>5, <1>6, <1>7, <1>8, <1>9, <1>10 DEF Next, OwnerThread

----------------------------------------------------------------------------
(* What the owner's steps do, in the terms of the invariant.               *)

\* What GoneHoldsNothing says of one sink.
SinkConsistent(s) == s.slow \/ s.gone => s.gone /\ s.bytes = 0

\* Sink c changes the way writes and cancellations change it, and no other
\* sink changes.
SinkEffect(c) ==
  /\ \A d \in Conns \ {c} : sink'[d] = sink[d] /\ lost'[d] = lost[d]
  /\ sink'[c].closed = sink[c].closed
  /\ sink[c].gone => sink'[c].gone
  /\ SinkConsistent(sink[c]) => SinkConsistent(sink'[c])
  /\ lost'[c] => lost[c] \/ sink'[c].gone \/ sink[c].closed

SameCounters ==
  /\ runtime'.started = runtime.started /\ runtime'.inflight = runtime.inflight
  /\ runtime'.completed = runtime.completed /\ runtime'.failed = runtime.failed
  /\ runtime'.canceled = runtime.canceled

\* Every lease stays where it is, and only the one of c changes at all.
LeaseEffect(c) ==
  /\ \A d \in Conns : /\ lease'[d].at = lease[d].at /\ lease'[d].queued = lease[d].queued
                       /\ lease'[d].pin = lease[d].pin
  /\ \A d \in Conns \ {c} : lease'[d] = lease[d]

\* A step of the owner inside the job of c.
OwnerWork(c) ==
  /\ owner.pc \in {"begin", "serial", "generate"}
  /\ UNCHANGED <<apc, cpc, admit, chan, sending>>
  /\ SameCounters /\ LeaseEffect(c) /\ SinkEffect(c)
  /\ owner'.cur = c /\ owner'.pc \in {"begin", "serial", "generate", "finish"}

LEMMA SameSinks ==
  ASSUME TypeInv, NEW c \in Conns, UNCHANGED <<sink, lost>>
  PROVE  SinkEffect(c)
BY DEF SinkEffect, SinkConsistent

LEMMA BacklogOnly ==
  ASSUME NEW r \in RuntimeRec, NEW n, runtime = r, runtime' = [r EXCEPT !.out_backlog = n]
  PROVE  SameCounters
BY DEF SameCounters, RuntimeRec

LEMMA CancelEffect ==
  ASSUME TypeInv, NEW c \in Conns, NEW n, cancel(c, n)
  PROVE  SinkEffect(c) /\ SameCounters
<1>1. sink \in [Conns -> SinkRec] /\ runtime \in RuntimeRec /\ lost \in [Conns -> BOOLEAN]
  BY DEF TypeInv
<1>2. SameCounters
  BY <1>1, BacklogOnly DEF cancel
<1>3. sink' = [sink EXCEPT ![c] = Cancelled(sink[c])]
  BY DEF cancel
<1>4. \A d \in Conns \ {c} : sink'[d] = sink[d] /\ lost'[d] = lost[d]
  BY <1>1 DEF cancel
<1>5. sink'[c].gone /\ sink'[c].bytes = 0 /\ sink'[c].closed = sink[c].closed
  BY <1>1, <1>3 DEF Cancelled, SinkRec
<1> QED BY <1>2, <1>4, <1>5 DEF SinkEffect, SinkConsistent

LEMMA WriteEffect ==
  ASSUME TypeInv, NEW c \in Conns, NEW ok \in BOOLEAN, Write(c, ok)
  PROVE  SinkEffect(c) /\ SameCounters
<1>1. sink \in [Conns -> SinkRec] /\ runtime \in RuntimeRec /\ lost \in [Conns -> BOOLEAN]
  BY DEF TypeInv
<1>2. SameCounters
  BY <1>1, WriteCases, BacklogOnly DEF SameCounters
<1>3. \A d \in Conns \ {c} : sink'[d] = sink[d] /\ lost'[d] = lost[d]
  BY <1>1, WriteCases
<1>4. CASE Refused(c) /\ sink' = sink
  BY <1>2, <1>3, <1>4 DEF SinkEffect, SinkConsistent, Refused
<1>5. CASE sink' = [sink EXCEPT ![c] = [Evicted(sink[c]) EXCEPT !.started = TRUE]]
  <2>1. sink'[c].gone /\ sink'[c].bytes = 0 /\ sink'[c].closed = sink[c].closed
    BY <1>1, <1>5 DEF Evicted, SinkRec
  <2> QED BY <1>2, <1>3, <2>1 DEF SinkEffect, SinkConsistent
<1>6. CASE /\ ~Refused(c) /\ lost' = lost
           /\ sink' = [sink EXCEPT ![c] = [sink[c] EXCEPT !.bytes = @ + 1, !.started = TRUE]]
  <2>1. sink'[c].closed = sink[c].closed /\ sink'[c].gone = sink[c].gone /\ sink'[c].slow = sink[c].slow
    BY <1>1, <1>6 DEF SinkRec
  <2> QED BY <1>2, <1>3, <1>6, <2>1 DEF SinkEffect, SinkConsistent, Refused
<1> QED BY <1>4, <1>5, <1>6, WriteCases

LEMMA OutcomeEffect ==
  ASSUME TypeInv, Busy, NEW o \in Outcomes, NEW shed \in BOOLEAN, Outcome(o, shed)
  PROVE  /\ LeaseEffect(owner.cur)
         /\ owner'.cur = owner.cur /\ owner'.pc \in {"begin", "serial", "generate", "finish"}
<1>1. lease \in [Conns -> LeaseRec] /\ owner.cur \in Conns
  BY DEF TypeInv, Busy
<1>2. lease' = [lease EXCEPT ![owner.cur] = [lease[owner.cur] EXCEPT !.outcome = o, !.shed = shed]]
  BY OutcomeType
<1>3. \A d \in Conns \ {owner.cur} : lease'[d] = lease[d]
  BY <1>1, <1>2
<1>4. /\ lease'[owner.cur].at = lease[owner.cur].at
      /\ lease'[owner.cur].queued = lease[owner.cur].queued
      /\ lease'[owner.cur].pin = lease[owner.cur].pin
  BY <1>1, <1>2 DEF LeaseRec
<1> QED BY <1>3, <1>4, OutcomeType DEF LeaseEffect

\* Every step of the owner is work inside its job that does not publish a
\* turn, the commit of a tool turn, or the end of the job.
LEMMA RunJobEffect ==
  ASSUME TypeInv, RunJob
  PROVE  \/ OwnerWork(owner.cur) /\ turn'.live \in {turn.live, None}
         \/ OwnerWork(owner.cur) /\ OwnerToolCommit
         \/ OwnerFinish
<1> DEFINE c == owner.cur
           Goal == \/ OwnerWork(owner.cur) /\ turn'.live \in {turn.live, None}
                   \/ OwnerWork(owner.cur) /\ OwnerToolCommit
                   \/ OwnerFinish
<1>0. /\ runtime \in RuntimeRec /\ owner \in OwnerRec /\ turn \in TurnRec
      /\ sink \in [Conns -> SinkRec] /\ lease \in [Conns -> LeaseRec]
      /\ lost \in [Conns -> BOOLEAN]
  BY DEF TypeInv
<1>1. CASE OwnerSkipGone
  <2>1. Busy /\ c \in Conns /\ owner.pc = "begin"
    BY <1>1 DEF OwnerSkipGone, TypeInv, Busy
  <2>2. SinkEffect(c) /\ SameCounters
    BY <1>1, <2>1, CancelEffect, SameSinks DEF OwnerSkipGone, Cur, SameCounters
  <2> QED BY <1>1, <2>1, <2>2, OutcomeEffect DEF OwnerSkipGone, OwnerWork, Outcomes
<1>2. CASE OwnerShedAge
  <2>1. Busy /\ c \in Conns /\ owner.pc = "begin"
    BY <1>2 DEF OwnerShedAge, TypeInv, Busy
  <2>2. SinkEffect(c) /\ SameCounters
    BY <1>2, <2>1, WriteEffect DEF OwnerShedAge, Cur
  <2>3. Outcome("shed", TRUE) /\ UNCHANGED <<apc, cpc, peer, admit, job, sending, chan, turn>>
    BY <1>2 DEF OwnerShedAge
  <2> QED BY <2>1, <2>2, <2>3, OutcomeEffect DEF OwnerWork, Outcomes
<1>3. CASE OwnerBegin
  <2>1. c \in Conns /\ owner.pc = "begin" /\ owner' = [owner EXCEPT !.pc = "serial"]
    BY <1>3 DEF OwnerBegin, Goto, TypeInv
  <2>2. owner'.cur = owner.cur /\ owner'.pc = "serial"
    BY <1>0, <2>1 DEF OwnerRec
  <2>3. SinkEffect(c) /\ SameCounters /\ LeaseEffect(c)
    BY <1>3, <2>1, SameSinks DEF OwnerBegin, SameCounters, LeaseEffect
  <2> QED BY <1>3, <2>1, <2>2, <2>3 DEF OwnerBegin, OwnerWork
<1>4. CASE OwnerHold
  <2>1. Busy /\ c \in Conns /\ owner.pc = "serial"
    BY <1>4 DEF OwnerHold, TypeInv, Busy
  <2>2. SinkEffect(c) /\ SameCounters
    BY <1>4, <2>1, WriteEffect DEF OwnerHold, Cur
  <2> QED BY <1>4, <2>1, <2>2, OutcomeEffect DEF OwnerHold, OwnerWork, Outcomes
<1>5. CASE OwnerRefuse
  <2>1. Busy /\ c \in Conns /\ owner.pc = "serial"
    BY <1>5 DEF OwnerRefuse, TypeInv, Busy
  <2>2. PICK ok \in BOOLEAN : /\ Write(c, ok)
                             /\ Outcome(IF ok THEN "completed" ELSE "canceled", FALSE)
    BY <1>5 DEF OwnerRefuse, Cur
  <2>3. SinkEffect(c) /\ SameCounters
    BY <2>1, <2>2, WriteEffect
  <2> QED BY <1>5, <2>1, <2>2, <2>3, OutcomeEffect DEF OwnerRefuse, OwnerWork, Outcomes
<1>6. CASE OwnerResize
  <2>1. c \in Conns /\ owner.pc = "serial"
    BY <1>6 DEF OwnerResize, TypeInv
  <2>2. SinkEffect(c) /\ SameCounters /\ LeaseEffect(c)
    BY <1>6, <2>1, SameSinks DEF OwnerResize, SameCounters, LeaseEffect
  <2>3. turn'.live = None
    BY <1>0, <1>6 DEF OwnerResize, TurnRec
  <2> QED BY <1>6, <2>1, <2>2, <2>3 DEF OwnerResize, OwnerWork
<1>7. CASE OwnerGenerate
  <2>1. c \in Conns /\ owner.pc = "serial"
    BY <1>7 DEF OwnerGenerate, TypeInv
  <2>2. SinkEffect(c) /\ SameCounters /\ LeaseEffect(c)
    BY <1>7, <2>1, SameSinks DEF OwnerGenerate, SameCounters, LeaseEffect
  <2>3. turn'.live = turn.live
    BY <1>0, <1>7 DEF OwnerGenerate, TurnRec
  <2>4. owner'.cur = owner.cur /\ owner'.pc = "generate"
    BY <1>0, <1>7 DEF OwnerGenerate, OwnerRec
  <2> QED BY <1>7, <2>1, <2>2, <2>3, <2>4 DEF OwnerGenerate, OwnerWork
<1>8. CASE OwnerChunk
  <2>1. Busy /\ c \in Conns /\ owner.pc = "generate"
    BY <1>8 DEF OwnerChunk, TypeInv, Busy
  <2>2. PICK ok \in BOOLEAN :
          /\ Write(c, ok)
          /\ IF ok THEN owner' = [owner EXCEPT !.budget = owner.budget - 1] /\ UNCHANGED lease
             ELSE Outcome("canceled", FALSE)
    BY <1>8 DEF OwnerChunk, Cur
  <2>3. SinkEffect(c) /\ SameCounters
    BY <2>1, <2>2, WriteEffect
  <2>4. CASE ok
    <3>1. owner'.cur = owner.cur /\ owner'.pc = owner.pc
      BY <1>0, <2>2, <2>4 DEF OwnerRec
    <3>2. LeaseEffect(c)
      BY <2>2, <2>4 DEF LeaseEffect
    <3> QED BY <1>8, <2>1, <2>3, <3>1, <3>2 DEF OwnerChunk, OwnerWork
  <2>5. CASE ~ok
    BY <1>8, <2>1, <2>2, <2>3, <2>5, OutcomeEffect DEF OwnerChunk, OwnerWork, Outcomes
  <2> QED BY <2>4, <2>5
<1>9. CASE OwnerFlushGone
  <2>1. Busy /\ c \in Conns /\ owner.pc = "generate"
    BY <1>9 DEF OwnerFlushGone, TypeInv, Busy
  <2>2. SinkEffect(c) /\ SameCounters
    BY <1>9, <2>1, CancelEffect, SameSinks DEF OwnerFlushGone, Cur, SameCounters
  <2> QED BY <1>9, <2>1, <2>2, OutcomeEffect DEF OwnerFlushGone, OwnerWork, Outcomes
<1>10. CASE OwnerError
  <2>1. Busy /\ c \in Conns /\ owner.pc \in {"serial", "generate"}
    BY <1>10 DEF OwnerError, TypeInv, Busy
  <2>2. SinkEffect(c) /\ SameCounters
    BY <1>10, <2>1, WriteEffect DEF OwnerError, Cur
  <2>3. Outcome("failed", FALSE) /\ UNCHANGED <<apc, cpc, peer, admit, job, sending, chan, turn>>
    BY <1>10 DEF OwnerError
  <2> QED BY <2>1, <2>2, <2>3, OutcomeEffect DEF OwnerWork, Outcomes
<1>11. ASSUME NEW failed \in BOOLEAN, OwnerPlainEnd(failed) PROVE Goal
  <2>1. Busy /\ c \in Conns /\ owner.pc = "generate"
    BY <1>11 DEF OwnerPlainEnd, TypeInv, Busy
  <2>2. PICK ok \in BOOLEAN :
          /\ Write(c, ok)
          /\ Outcome(IF ~ok THEN "canceled" ELSE IF failed THEN "failed" ELSE "completed", FALSE)
    BY <1>11 DEF OwnerPlainEnd, Cur
  <2>3. SinkEffect(c) /\ SameCounters
    BY <2>1, <2>2, WriteEffect
  <2>4. turn'.live = None
    BY <1>0, <1>11 DEF OwnerPlainEnd, TurnRec
  <2> QED BY <1>11, <2>1, <2>2, <2>3, <2>4, OutcomeEffect DEF OwnerPlainEnd, OwnerWork, Outcomes
<1>12. CASE OwnerToolFull
  <2>1. Busy /\ c \in Conns /\ owner.pc = "generate"
    BY <1>12 DEF OwnerToolFull, TypeInv, Busy
  <2>2. \A d \in Conns \ {c} : sink'[d] = sink[d] /\ lost'[d] = lost[d]
    BY <1>0, <1>12, <2>1 DEF OwnerToolFull, Cur
  <2>3. sink'[c].gone /\ sink'[c].bytes = 0 /\ sink'[c].closed = sink[c].closed
    BY <1>0, <1>12, <2>1 DEF OwnerToolFull, Cur, Evicted, SinkRec
  <2>4. SinkEffect(c)
    BY <2>2, <2>3 DEF SinkEffect, SinkConsistent
  <2>5. SameCounters
    <3>1. runtime' = [runtime EXCEPT !.out_backlog = runtime.out_backlog - sink[c].bytes]
      BY <1>12 DEF OwnerToolFull, Cur
    <3> QED BY <1>0, <3>1, BacklogOnly
  <2> QED BY <1>12, <2>1, <2>4, <2>5, OutcomeEffect DEF OwnerToolFull, OwnerWork, Outcomes
<1>13. CASE OwnerToolGone
  <2>1. Busy /\ c \in Conns /\ owner.pc = "generate"
    BY <1>13 DEF OwnerToolGone, TypeInv, Busy
  <2>2. \A d \in Conns \ {c} : sink'[d] = sink[d] /\ lost'[d] = lost[d]
    BY <1>0, <1>13, <2>1 DEF OwnerToolGone, Cur
  <2>3. sink'[c].gone /\ sink'[c].bytes = 0 /\ sink'[c].closed = sink[c].closed
    BY <1>0, <1>13, <2>1 DEF OwnerToolGone, Cur, Cancelled, SinkRec
  <2>4. SinkEffect(c)
    BY <2>2, <2>3 DEF SinkEffect, SinkConsistent
  <2>5. SameCounters
    <3>1. runtime' = [runtime EXCEPT !.out_backlog = runtime.out_backlog - sink[c].bytes]
      BY <1>13 DEF OwnerToolGone, Cur
    <3> QED BY <1>0, <3>1, BacklogOnly
  <2>6. turn'.live = None
    BY <1>0, <1>13 DEF OwnerToolGone, TurnRec
  <2> QED BY <1>13, <2>1, <2>4, <2>5, <2>6, OutcomeEffect DEF OwnerToolGone, OwnerWork, Outcomes
<1>14. CASE OwnerToolCommit
  <2>1. Busy /\ c \in Conns /\ owner.pc = "generate"
    BY <1>14 DEF OwnerToolCommit, TypeInv, Busy
  <2>2. \A d \in Conns \ {c} : sink'[d] = sink[d] /\ lost'[d] = lost[d]
    BY <1>0, <1>14, <2>1 DEF OwnerToolCommit, Cur
  <2>3. /\ sink'[c].gone = sink[c].gone /\ sink'[c].slow = sink[c].slow
        /\ sink'[c].closed = sink[c].closed /\ ~sink[c].gone
    BY <1>0, <1>14, <2>1 DEF OwnerToolCommit, Cur, SinkRec
  <2>4. SinkEffect(c)
    BY <1>14, <2>2, <2>3 DEF SinkEffect, SinkConsistent, OwnerToolCommit
  <2>5. SameCounters
    <3>1. runtime' = [runtime EXCEPT !.out_backlog = runtime.out_backlog + 1]
      BY <1>14 DEF OwnerToolCommit, Cur
    <3> QED BY <1>0, <3>1, BacklogOnly
  <2> QED BY <1>14, <2>1, <2>4, <2>5, OutcomeEffect DEF OwnerToolCommit, OwnerWork, Outcomes
<1> QED BY <1>1, <1>2, <1>3, <1>4, <1>5, <1>6, <1>7, <1>8, <1>9, <1>10, <1>11, <1>12, <1>13,
           <1>14 DEF RunJob

----------------------------------------------------------------------------
(* Where the leases are.                                                   *)

\* While a client thread runs, the owner has not halted.
LEMMA NotHalted ==
  ASSUME LeaseFollowsOwner, NEW c \in Conns, cpc[c] \notin {"new", "over"}
  PROVE  owner.pc # "halted"
BY DEF LeaseFollowsOwner, Disconnected

\* What queueing, receiving, finishing and settling do to the lease.
LEMMA EnqueueEffect ==
  ASSUME TypeInv, NEW c \in Conns, Enqueue(c)
  PROVE  /\ \A d \in Conns \ {c} : lease'[d] = lease[d]
         /\ lease'[c].at = "chan" /\ lease'[c].queued = TRUE /\ lease'[c].shed = FALSE
<1>1. lease \in [Conns -> LeaseRec]
  BY DEF TypeInv
<1> DEFINE pin == IF job[c].follow # None /\ turn.live = job[c].follow
                  THEN turn.live ELSE None
<1>2. lease' = [lease EXCEPT ![c] = [NoLease EXCEPT !.at = "chan", !.queued = TRUE, !.pin = pin]]
  BY DEF Enqueue
<1> HIDE DEF pin
<1> QED BY <1>1, <1>2 DEF NoLease

LEMMA OwnerRecvEffect ==
  ASSUME TypeInv, OwnerRecv
  PROVE  /\ chan # <<>> /\ chan[1] \in Conns /\ chan[1] = Head(chan)
         /\ \A d \in Conns \ {chan[1]} : lease'[d] = lease[d]
         /\ lease'[chan[1]].at = "owner" /\ lease'[chan[1]].queued = FALSE
         /\ lease'[chan[1]].pin = lease[chan[1]].pin
         /\ owner'.cur = chan[1] /\ owner'.pc = "begin"
         /\ Len(chan') = Len(chan) - 1
         /\ \A i \in 1..Len(chan') : chan'[i] = chan[i + 1]
<1>1. lease \in [Conns -> LeaseRec] /\ chan \in Seq(Conns) /\ chan # <<>> /\ owner \in OwnerRec
  BY DEF TypeInv, OwnerRecv
<1>2. chan[1] \in Conns /\ chan[1] = Head(chan)
  BY <1>1
<1>3. lease' = [lease EXCEPT ![chan[1]] = [lease[chan[1]] EXCEPT !.at = "owner", !.queued = FALSE]]
  BY <1>1, <1>2 DEF OwnerRecv
<1>4. /\ lease'[chan[1]].at = "owner" /\ lease'[chan[1]].queued = FALSE
      /\ lease'[chan[1]].pin = lease[chan[1]].pin
  BY <1>1, <1>2, <1>3 DEF LeaseRec
<1>5. owner'.cur = chan[1] /\ owner'.pc = "begin"
  BY <1>1, <1>2 DEF OwnerRecv, OwnerRec
<1>6. Len(chan') = Len(chan) - 1 /\ \A i \in 1..Len(chan') : chan'[i] = chan[i + 1]
  BY <1>1 DEF OwnerRecv
<1> QED BY <1>1, <1>2, <1>3, <1>4, <1>5, <1>6

LEMMA OwnerFinishEffect ==
  ASSUME TypeInv, OwnerFinish
  PROVE  /\ owner.cur \in Conns
         /\ \A d \in Conns \ {owner.cur} : lease'[d] = lease[d] /\ sink'[d] = sink[d]
         /\ lease'[owner.cur].at = "done"
         /\ lease'[owner.cur].queued = lease[owner.cur].queued
         /\ lease'[owner.cur].pin = lease[owner.cur].pin
         /\ ~sink[owner.cur].slow => /\ lease'[owner.cur].outcome = lease[owner.cur].outcome
                                    /\ lease'[owner.cur].shed = lease[owner.cur].shed
         /\ sink'[owner.cur].closed /\ sink'[owner.cur].bytes = sink[owner.cur].bytes
         /\ sink'[owner.cur].gone = sink[owner.cur].gone
         /\ sink'[owner.cur].slow = sink[owner.cur].slow
         /\ owner'.cur = None /\ owner'.pc = "recv"
<1> DEFINE c == owner.cur
           shed == lease[c].shed \/ sink[c].slow
           o == IF sink[c].slow /\ lease[c].outcome \notin {"failed", "shed"}
                THEN "canceled" ELSE lease[c].outcome
<1>1. /\ lease \in [Conns -> LeaseRec] /\ sink \in [Conns -> SinkRec] /\ c \in Conns
      /\ owner \in OwnerRec
  BY DEF TypeInv, OwnerFinish
<1>2. lease' = [lease EXCEPT ![c] = [lease[c] EXCEPT !.at = "done", !.shed = shed, !.outcome = o]]
  BY <1>1 DEF OwnerFinish, Cur
<1>3. ~sink[c].slow => o = lease[c].outcome /\ shed = lease[c].shed
  BY <1>1 DEF SinkRec, LeaseRec
<1>4. /\ sink'[c].closed /\ sink'[c].bytes = sink[c].bytes
      /\ sink'[c].gone = sink[c].gone /\ sink'[c].slow = sink[c].slow
      /\ \A d \in Conns \ {c} : sink'[d] = sink[d]
  BY <1>1 DEF OwnerFinish, Cur, SinkRec
<1>5. owner'.cur = None /\ owner'.pc = "recv"
  BY <1>1 DEF OwnerFinish, OwnerRec
<1> HIDE DEF shed, o, c
<1>6. /\ lease'[c].at = "done" /\ lease'[c].queued = lease[c].queued /\ lease'[c].pin = lease[c].pin
      /\ lease'[c].shed = shed /\ lease'[c].outcome = o
      /\ \A d \in Conns \ {c} : lease'[d] = lease[d]
  BY <1>1, <1>2 DEF LeaseRec
<1> QED BY <1>1, <1>3, <1>4, <1>5, <1>6 DEF c

LEMMA SettleEffect ==
  ASSUME TypeInv, NEW c \in Conns, Settle(c)
  PROVE  /\ \A d \in Conns \ {c} : lease'[d] = lease[d]
         /\ lease'[c].at = "settled" /\ lease'[c].queued = FALSE /\ lease'[c].pin = None
         /\ lease'[c].shed = lease[c].shed
         /\ lease'[c].outcome = IF sink[c].gone /\ lease[c].outcome = "completed"
                                THEN "canceled" ELSE lease[c].outcome
         /\ LeaseDrop(c, lease'[c].outcome) /\ lease'[c].outcome \in Outcomes
<1> DEFINE o == IF sink[c].gone /\ lease[c].outcome = "completed"
                THEN "canceled" ELSE lease[c].outcome
<1>1. lease \in [Conns -> LeaseRec]
  BY DEF TypeInv
<1>2. o \in Outcomes /\ LeaseDrop(c, o)
  BY <1>1, FieldTypes DEF Settle, Outcomes
<1> HIDE DEF o
<1>3. lease' = [lease EXCEPT ![c] = [lease[c] EXCEPT !.at = "settled", !.queued = FALSE,
                                                   !.pin = None, !.outcome = o]]
  BY <1>2, LeaseDropType
<1>4. /\ lease'[c].at = "settled" /\ lease'[c].queued = FALSE /\ lease'[c].pin = None
      /\ lease'[c].shed = lease[c].shed /\ lease'[c].outcome = o
      /\ \A d \in Conns \ {c} : lease'[d] = lease[d]
  BY <1>1, <1>3 DEF LeaseRec
<1> QED BY <1>2, <1>4 DEF o

\* Every step keeps each lease where its client thread and the owner expect
\* it.
LEMMA PlaceStep ==
  ASSUME TypeInv, LeaseFollowsClient, LeaseFollowsOwner, [Next]_vars
  PROVE  LeaseFollowsClient' /\ LeaseFollowsOwner'
<1>0. /\ cpc \in [Conns -> ClientPCs] /\ sending \in [Conns -> Nat] /\ chan \in Seq(Conns)
      /\ lease \in [Conns -> LeaseRec] /\ owner \in OwnerRec
  BY DEF TypeInv
<1>1. ASSUME NEW c \in Conns, Accept(c) PROVE LeaseFollowsClient' /\ LeaseFollowsOwner'
  <2>1. lease' = lease /\ sending' = sending /\ chan' = chan /\ owner' = owner /\ apc = "accept"
    BY <1>1 DEF Accept
  <2>2. cpc[c] = "new" /\ \E v \in {"over", "read"} : cpc' = [cpc EXCEPT ![c] = v]
    BY <1>1 DEF Accept
  <2>3. LeaseFollowsClient'
    BY <1>0, <2>1, <2>2 DEF LeaseFollowsClient
  <2>4. LeaseFollowsOwner'
    BY <2>1 DEF LeaseFollowsOwner, Disconnected
  <2> QED BY <2>3, <2>4
<1>2. ASSUME NEW c \in Conns, ClientThread(c) PROVE LeaseFollowsClient' /\ LeaseFollowsOwner'
  \* Most of the client thread's steps move it between points where its
  \* lease is expected in the same places.
  <2> DEFINE Moves(from, to) ==
               /\ cpc[c] = from /\ cpc' = [cpc EXCEPT ![c] = to]
               /\ UNCHANGED <<apc, lease, chan, owner>>
             InFlight == {"drain", "idle", "beat", "take", "send", "await"}
  <2>1. ASSUME NEW from \in ClientPCs \ {"new", "over"}, NEW to \in ClientPCs, Moves(from, to),
               \/ from \in InFlight /\ to \in InFlight
               \/ from = "read" /\ to = "enqueue"
               \/ from \in {"read", "enqueue", "close"} /\ to = "over",
               \/ sending' = sending /\ from # "send"
               \/ sending' = [sending EXCEPT ![c] = 0]
               \/ to = "send" /\ \E n \in Nat : sending' = [sending EXCEPT ![c] = n]
        PROVE  LeaseFollowsClient' /\ LeaseFollowsOwner'
    <3>1. LeaseFollowsClient'
      BY <1>0, <2>1 DEF LeaseFollowsClient, ClientPCs
    <3>2. LeaseFollowsOwner'
      BY <2>1, NotHalted DEF LeaseFollowsOwner
    <3> QED BY <3>1, <3>2
  <2>2. CASE ReadAnswered(c)
    <3>1. Moves("read", "over") /\ sending' = sending
      BY <2>2 DEF ReadAnswered, ClientOver
    <3> QED BY <2>1, <3>1 DEF ClientPCs
  <2>3. ASSUME NEW n \in BodySizes, ReadShed(c, n) PROVE LeaseFollowsClient' /\ LeaseFollowsOwner'
    <3>1. Moves("read", "over") /\ sending' = sending
      BY <2>3 DEF ReadShed, ClientOver
    <3> QED BY <2>1, <3>1 DEF ClientPCs
  <2>4. ASSUME NEW n \in BodySizes, NEW kind \in Requests, NEW f \in Conns \cup {None},
               ReadJob(c, n, kind, f)
        PROVE  LeaseFollowsClient' /\ LeaseFollowsOwner'
    <3>1. Moves("read", "enqueue") /\ sending' = sending
      BY <2>4 DEF ReadJob
    <3> QED BY <2>1, <3>1 DEF ClientPCs
  <2>5. CASE EnqueueRefused(c)
    <3>1. Moves("enqueue", "over") /\ sending' = sending
      BY <2>5 DEF EnqueueRefused, ClientOver
    <3> QED BY <2>1, <3>1 DEF ClientPCs
  <2>6. CASE Enqueue(c)
    <3>1. /\ cpc[c] = "enqueue" /\ cpc' = [cpc EXCEPT ![c] = "drain"] /\ sending' = sending
          /\ chan' = Append(chan, c) /\ owner' = owner
      BY <2>6 DEF Enqueue
    <3>2. /\ \A d \in Conns \ {c} : lease'[d] = lease[d]
          /\ lease'[c].at = "chan" /\ lease'[c].queued = TRUE
      BY <2>6, EnqueueEffect
    <3>3. lease[c].at = "none" /\ owner.pc # "halted"
      BY <3>1, NotHalted DEF LeaseFollowsClient
    <3>4. LeaseFollowsClient'
      BY <1>0, <3>1, <3>2 DEF LeaseFollowsClient
    <3>5. /\ Len(chan') = Len(chan) + 1 /\ chan'[Len(chan')] = c
          /\ \A i \in 1..Len(chan) : chan'[i] = chan[i] /\ chan[i] \in Conns
      BY <1>0, <3>1
    <3>6. \A i \in 1..Len(chan) : chan[i] # c
      BY <3>3 DEF LeaseFollowsOwner
    <3>7. \A i \in 1..Len(chan') : lease'[chan'[i]].at = "chan"
      BY <1>0, <3>2, <3>5, <3>6 DEF LeaseFollowsOwner
    <3>8. \A i, j \in 1..Len(chan') : i # j => chan'[i] # chan'[j]
      <4>1. SUFFICES ASSUME NEW i \in 1..Len(chan'), NEW j \in 1..Len(chan'), i # j
                     PROVE  chan'[i] # chan'[j]
        OBVIOUS
      <4>2. Len(chan) \in Nat
        BY <1>0
      <4>3. CASE i \in 1..Len(chan) /\ j \in 1..Len(chan)
        BY <3>5, <4>1, <4>3 DEF LeaseFollowsOwner
      <4>4. CASE i = Len(chan') \/ j = Len(chan')
        BY <3>5, <3>6, <4>1, <4>2, <4>4
      <4> QED BY <3>5, <4>1, <4>2, <4>3, <4>4
    <3>9. owner.pc \in {"begin", "serial", "generate", "finish"} => lease'[owner.cur].at = "owner"
      BY <3>2, <3>3 DEF LeaseFollowsOwner, TypeInv
    <3> QED BY <3>1, <3>3, <3>4, <3>7, <3>8, <3>9 DEF LeaseFollowsOwner
  <2>7. CASE DrainLook(c)
    <3>1. PICK to \in {"take", "await", "idle", "beat"} : Moves("drain", to) /\ sending' = sending
      BY <2>7 DEF DrainLook
    <3> QED BY <2>1, <3>1 DEF ClientPCs
  <2>8. CASE DrainIdle(c)
    <3>1. PICK from \in {"idle", "beat"}, to \in {"await", "drain"} :
            Moves(from, to) /\ sending' = sending
      BY <2>8 DEF DrainIdle
    <3> QED BY <2>1, <3>1 DEF ClientPCs
  <2>9. CASE DrainTake(c)
    <3>1. sink[c].bytes \in Nat
      BY FieldTypes DEF TypeInv
    <3>2. Moves("take", "send") /\ \E n \in Nat : sending' = [sending EXCEPT ![c] = n]
      BY <2>9, <3>1 DEF DrainTake
    <3> QED BY <2>1, <3>2 DEF ClientPCs
  <2>10. CASE DrainSend(c)
    <3>1. PICK to \in {"drain", "await"} : Moves("send", to) /\ sending' = [sending EXCEPT ![c] = 0]
      BY <2>10 DEF DrainSend
    <3> QED BY <2>1, <3>1 DEF ClientPCs
  <2>11. CASE Settle(c)
    <3>1. /\ cpc[c] = "await" /\ lease[c].at = "done" /\ cpc' = [cpc EXCEPT ![c] = "close"]
          /\ UNCHANGED <<apc, sending, chan, owner>>
      BY <2>11 DEF Settle
    <3>2. /\ \A d \in Conns \ {c} : lease'[d] = lease[d]
          /\ lease'[c].at = "settled" /\ lease'[c].queued = FALSE /\ lease'[c].pin = None
      BY <2>11, SettleEffect
    <3>3. LeaseFollowsClient'
      BY <1>0, <3>1, <3>2 DEF LeaseFollowsClient
    <3>4. \A i \in 1..Len(chan) : chan[i] \in Conns /\ chan[i] # c
      BY <1>0, <3>1 DEF LeaseFollowsOwner
    <3>5. owner.pc \in {"begin", "serial", "generate", "finish"} => owner.cur \in Conns \ {c}
      BY <3>1 DEF LeaseFollowsOwner, TypeInv
    <3>6. owner.pc # "halted"
      BY <3>1, NotHalted
    <3> QED BY <3>1, <3>2, <3>3, <3>4, <3>5, <3>6 DEF LeaseFollowsOwner
  <2>12. CASE DrainClose(c)
    <3>1. Moves("close", "over") /\ sending' = sending
      BY <2>12 DEF DrainClose, ClientOver
    <3> QED BY <2>1, <3>1 DEF ClientPCs
  <2> QED BY <1>2, <2>2, <2>3, <2>4, <2>5, <2>6, <2>7, <2>8, <2>9, <2>10, <2>11, <2>12
          DEF ClientThread
<1>3. ASSUME NEW c \in Conns, PeerLeaves(c) PROVE LeaseFollowsClient' /\ LeaseFollowsOwner'
  BY <1>3 DEF PeerLeaves, LeaseFollowsClient, LeaseFollowsOwner, Disconnected
<1>4. CASE OwnerRecv
  <2> DEFINE h == chan[1]
  <2>0. 1 \in 1..Len(chan)
    BY <1>0, <1>4 DEF OwnerRecv
  <2>1. /\ h \in Conns /\ lease[h].at = "chan"
        /\ \A d \in Conns \ {h} : lease'[d] = lease[d]
        /\ lease'[h].at = "owner" /\ lease'[h].queued = FALSE /\ lease'[h].pin = lease[h].pin
        /\ owner'.cur = h /\ owner'.pc = "begin"
    BY <1>4, <2>0, OwnerRecvEffect DEF LeaseFollowsOwner
  <2>2. UNCHANGED <<apc, cpc, sending>>
    BY <1>4 DEF OwnerRecv
  <2>3. LeaseFollowsClient'
    BY <1>0, <2>1, <2>2 DEF LeaseFollowsClient
  <2>4. /\ Len(chan) \in Nat /\ Len(chan') = Len(chan) - 1 /\ Len(chan') \in Nat
        /\ \A i \in 1..Len(chan') : chan'[i] = chan[i + 1] /\ chan[i + 1] \in Conns
    BY <1>0, <1>4, OwnerRecvEffect
  <2>5. \A i \in 1..Len(chan') : chan'[i] # h /\ lease[chan'[i]].at = "chan"
    <3>1. \A i \in 1..Len(chan') : i + 1 \in 1..Len(chan) /\ i + 1 # 1
      BY <2>4
    <3> QED BY <2>0, <2>4, <3>1 DEF LeaseFollowsOwner
  <2>6. \A i \in 1..Len(chan') : lease'[chan'[i]].at = "chan"
    BY <2>1, <2>4, <2>5
  <2>7. \A i, j \in 1..Len(chan') : i # j => chan'[i] # chan'[j]
    BY <2>4 DEF LeaseFollowsOwner
  <2> QED BY <2>1, <2>3, <2>6, <2>7 DEF LeaseFollowsOwner
<1>5. CASE OwnerFinish
  <2> DEFINE c == owner.cur
  <2>1. /\ c \in Conns /\ lease[c].at = "owner"
        /\ \A d \in Conns \ {c} : lease'[d] = lease[d]
        /\ lease'[c].at = "done" /\ lease'[c].queued = lease[c].queued
        /\ lease'[c].pin = lease[c].pin /\ owner'.pc = "recv"
    BY <1>5, OwnerFinishEffect DEF LeaseFollowsOwner, OwnerFinish
  <2>2. UNCHANGED <<apc, cpc, sending, chan>>
    BY <1>5 DEF OwnerFinish
  <2> HIDE DEF c
  <2>3. LeaseFollowsClient'
    BY <1>0, <2>1, <2>2 DEF LeaseFollowsClient
  <2>4. \A i \in 1..Len(chan) : chan[i] \in Conns \ {c}
    BY <1>0, <2>1 DEF LeaseFollowsOwner
  <2> QED BY <2>1, <2>2, <2>3, <2>4 DEF LeaseFollowsOwner
<1>6. CASE OwnerWork(owner.cur)
  <2>1. /\ UNCHANGED <<apc, cpc, chan, sending>> /\ owner'.cur = owner.cur
        /\ owner.cur \in Conns /\ lease[owner.cur].at = "owner"
        /\ owner'.pc \in {"begin", "serial", "generate", "finish"}
        /\ \A d \in Conns : /\ lease'[d].at = lease[d].at /\ lease'[d].queued = lease[d].queued
                             /\ lease'[d].pin = lease[d].pin
    BY <1>6 DEF OwnerWork, LeaseEffect, LeaseFollowsOwner, TypeInv
  <2>2. LeaseFollowsClient'
    BY <1>0, <2>1 DEF LeaseFollowsClient
  <2>3. \A i \in 1..Len(chan) : chan[i] \in Conns
    BY <1>0
  <2> QED BY <2>1, <2>2, <2>3 DEF LeaseFollowsOwner
<1>7. CASE OwnerShutdown
  <2>1. UNCHANGED <<apc, cpc, lease, sending, chan>> /\ Disconnected
    BY <1>7 DEF OwnerShutdown
  <2>2. owner'.pc = "halted"
    BY <1>0, <1>7 DEF OwnerShutdown, Goto, OwnerRec
  <2>3. Disconnected'
    BY <2>1 DEF Disconnected
  <2> QED BY <2>1, <2>2, <2>3 DEF LeaseFollowsClient, LeaseFollowsOwner
<1>8. CASE AcceptStop
  BY <1>8 DEF AcceptStop, LeaseFollowsClient, LeaseFollowsOwner, Disconnected
<1>9. CASE AcceptExit
  BY <1>9 DEF AcceptExit, LeaseFollowsClient, LeaseFollowsOwner, Disconnected
<1>10. CASE TurnAges
  BY <1>10 DEF TurnAges, LeaseFollowsClient, LeaseFollowsOwner, Disconnected
<1>11. CASE UNCHANGED vars
  BY <1>11 DEF vars, LeaseFollowsClient, LeaseFollowsOwner, Disconnected
<1> QED BY <1>1, <1>2, <1>3, <1>4, <1>5, <1>6, <1>7, <1>8, <1>9, <1>10, <1>11, RunJobEffect
        DEF Next, OwnerThread

----------------------------------------------------------------------------
(* The counters.                                                           *)

Queued  == {c \in Conns : lease[c].queued}
Running == {c \in Conns : cpc[c] \notin {"new", "over"}}
Begun   == LeasesAt(Places \ {"none"})
Pending == LeasesAt(Places \ {"none", "settled"})

\* Adding or removing one connection changes a count by one.
LEMMA CountChange ==
  ASSUME NEW S \in SUBSET Conns, NEW c \in Conns
  PROVE  /\ Cardinality(S) \in Nat
         /\ c \notin S => Cardinality(S \cup {c}) = Cardinality(S) + 1
         /\ c \in S => Cardinality(S \ {c}) = Cardinality(S) - 1 /\ Cardinality(S) > 0
<1>1. IsFiniteSet(S)
  BY ConnsAssumption, FS_Subset
<1>2. Cardinality(S) \in Nat
  BY <1>1, FS_CardinalityType
<1>3. c \in S => Cardinality(S) # 0
  BY <1>1, FS_EmptySet
<1>4. c \notin S => Cardinality(S \cup {c}) = Cardinality(S) + 1
  BY <1>1, FS_AddElement
<1>5. c \in S => Cardinality(S \ {c}) = Cardinality(S) - 1
  BY <1>1, FS_RemoveElement
<1> QED BY <1>2, <1>3, <1>4, <1>5

\* The steps that move no lease between the counted sets.
LEMMA CountsFrame ==
  ASSUME TypeInv, TypeInv', Counts, SameCounters,
         admit'.queued = admit.queued, admit'.clients = admit.clients,
         Running' = Running,
         \A c \in Conns : /\ lease'[c].queued = lease[c].queued
                          /\ lease'[c].at = "none" <=> lease[c].at = "none"
                          /\ lease'[c].at = "settled" <=> lease[c].at = "settled"
                          /\ lease[c].at = "settled" => lease'[c].outcome = lease[c].outcome
  PROVE  Counts'
<1>1. \A c \in Conns : lease[c].at \in Places /\ lease'[c].at \in Places
  BY FieldTypes DEF TypeInv
<1>2. Queued' = Queued
  BY DEF Queued
<1>3. Begun' = Begun /\ Pending' = Pending
  BY <1>1 DEF Begun, Pending, LeasesAt
<1>4. Settled("completed")' = Settled("completed")
  BY DEF Settled, LeasesAt
<1>5. Settled("failed")' = Settled("failed")
  BY DEF Settled, LeasesAt
<1>6. Settled("canceled")' = Settled("canceled")
  BY DEF Settled, LeasesAt
<1>7. QueueAccounted' /\ ClientsAccounted'
  BY <1>2 DEF Counts, QueueAccounted, ClientsAccounted, Queued, Running
<1>8. OutcomesAccounted'
  BY <1>3, <1>4, <1>5, <1>6 DEF Counts, OutcomesAccounted, SameCounters, Begun, Pending
<1> QED BY <1>7, <1>8 DEF Counts

\* A client thread that ends gives its connection slot back.
LEMMA CountsOver ==
  ASSUME TypeInv, TypeInv', Counts, SameCounters, NEW c \in Conns, ClientOver(c),
         cpc[c] \notin {"new", "over"}, lease' = lease
  PROVE  Counts' /\ admit'.queued = admit.queued
<1>1. Running' = Running \ {c} /\ c \in Running
  BY DEF ClientOver, Running, TypeInv
<1>2. admit'.clients = admit.clients - 1 /\ admit'.queued = admit.queued
  <2>1. admit \in AdmitRec
    BY DEF TypeInv
  <2>2. admit' = [admit EXCEPT !.clients = admit.clients - 1]
    BY DEF ClientOver
  <2> QED BY <2>1, <2>2 DEF AdmitRec
<1>3. Running \in SUBSET Conns
  BY DEF Running
<1>4. Cardinality(Running') = Cardinality(Running) - 1
  BY <1>1, <1>3, CountChange
<1>5. ClientsAccounted'
  BY <1>2, <1>4 DEF Counts, ClientsAccounted, Running
<1>6. QueueAccounted'
  BY <1>2 DEF Counts, QueueAccounted
<1>7. OutcomesAccounted'
  BY DEF Counts, OutcomesAccounted, SameCounters, LeasesAt, Settled
<1> QED BY <1>2, <1>5, <1>6, <1>7 DEF Counts

\* Queueing a job takes a queue slot and starts a request.
LEMMA CountsEnqueue ==
  ASSUME TypeInv, TypeInv', Counts, LeaseFollowsClient, QueueBounded,
         NEW c \in Conns, Enqueue(c)
  PROVE  Counts' /\ QueueBounded'
<1>1. /\ \A d \in Conns \ {c} : lease'[d] = lease[d]
      /\ lease'[c].at = "chan" /\ lease'[c].queued = TRUE
  BY EnqueueEffect
<1>2. lease[c].at = "none" /\ ~lease[c].queued /\ cpc[c] = "enqueue"
  BY DEF LeaseFollowsClient, Enqueue
<1>3. /\ admit'.queued = admit.queued + 1 /\ admit'.clients = admit.clients
      /\ runtime'.started = runtime.started + 1 /\ runtime'.inflight = runtime.inflight + 1
      /\ runtime'.completed = runtime.completed /\ runtime'.failed = runtime.failed
      /\ runtime'.canceled = runtime.canceled
  <2>1. admit \in AdmitRec /\ runtime \in RuntimeRec
    BY DEF TypeInv
  <2>2. /\ admit' = [admit EXCEPT !.queued = admit.queued + 1,
                       !.inflight_body_bytes = admit.inflight_body_bytes + job[c].body]
        /\ runtime' = [runtime EXCEPT !.started = runtime.started + 1, !.inflight = runtime.inflight + 1]
    BY DEF Enqueue
  <2> QED BY <2>1, <2>2 DEF AdmitRec, RuntimeRec
<1>4. Queued' = Queued \cup {c} /\ c \notin Queued
  BY <1>1, <1>2 DEF Queued
<1>5. Begun' = Begun \cup {c} /\ c \notin Begun
  BY <1>1, <1>2 DEF Begun, LeasesAt, Places
<1>6. Pending' = Pending \cup {c} /\ c \notin Pending
  BY <1>1, <1>2 DEF Pending, LeasesAt, Places
<1>7. /\ Settled("completed")' = Settled("completed") /\ Settled("failed")' = Settled("failed")
      /\ Settled("canceled")' = Settled("canceled")
  BY <1>1, <1>2 DEF Settled, LeasesAt
<1>8. Running' = Running
  BY <1>2 DEF Running, Enqueue, TypeInv
<1>9. Queued \in SUBSET Conns /\ Begun \in SUBSET Conns /\ Pending \in SUBSET Conns
  BY DEF Queued, Begun, Pending, LeasesAt
<1>10. QueueAccounted'
  BY <1>3, <1>4, <1>9, CountChange DEF Counts, QueueAccounted, Queued
<1>11. ClientsAccounted'
  BY <1>3, <1>8 DEF Counts, ClientsAccounted, Running
<1>12. OutcomesAccounted'
  <2>1. Cardinality(Begun') = Cardinality(Begun) + 1
    BY <1>5, <1>9, CountChange
  <2>2. Cardinality(Pending') = Cardinality(Pending) + 1
    BY <1>6, <1>9, CountChange
  <2> QED BY <1>3, <1>7, <2>1, <2>2 DEF Counts, OutcomesAccounted, Begun, Pending
<1>13. QueueBounded'
  <2>1. admit.queued \in Int /\ MaxQueue \in Nat
    BY FieldTypes, LimitsAssumption DEF TypeInv
  <2>2. ~OverDepth
    BY DEF Enqueue, enqueue
  <2> QED BY <1>3, <2>1, <2>2 DEF QueueBounded, OverDepth
<1> QED BY <1>10, <1>11, <1>12, <1>13 DEF Counts

\* Receiving a job gives its queue slot back.
LEMMA CountsRecv ==
  ASSUME TypeInv, TypeInv', Counts, LeaseFollowsClient, LeaseFollowsOwner, OwnerRecv
  PROVE  Counts' /\ admit'.queued <= admit.queued
<1> DEFINE h == chan[1]
<1>1. /\ h \in Conns /\ \A d \in Conns \ {h} : lease'[d] = lease[d]
      /\ lease'[h].at = "owner" /\ lease'[h].queued = FALSE
  BY OwnerRecvEffect
<1>2. lease[h].at = "chan" /\ lease[h].queued
  <2>1. 1 \in 1..Len(chan)
    BY DEF OwnerRecv, TypeInv
  <2> QED BY <1>1, <2>1 DEF LeaseFollowsOwner, LeaseFollowsClient
<1> HIDE DEF h
<1>3. Queued' = Queued \ {h} /\ h \in Queued /\ Queued \in SUBSET Conns
  BY <1>1, <1>2 DEF Queued
<1>4. Cardinality(Queued') = Cardinality(Queued) - 1 /\ Cardinality(Queued) > 0 /\ Cardinality(Queued) \in Nat
  BY <1>1, <1>3, CountChange
<1>5. admit'.queued = admit.queued - 1 /\ admit'.clients = admit.clients
  <2>1. admit \in AdmitRec /\ admit.queued > 0
    BY <1>4 DEF TypeInv, Counts, QueueAccounted, Queued
  <2>2. admit' = [admit EXCEPT !.queued = admit.queued - 1]
    BY <2>1 DEF OwnerRecv
  <2> QED BY <2>1, <2>2 DEF AdmitRec
<1>6. Begun' = Begun /\ Pending' = Pending
  BY <1>1, <1>2 DEF Begun, Pending, LeasesAt, Places
<1>7. /\ Settled("completed")' = Settled("completed") /\ Settled("failed")' = Settled("failed")
      /\ Settled("canceled")' = Settled("canceled")
  BY <1>1, <1>2 DEF Settled, LeasesAt
<1>8. QueueAccounted' /\ ClientsAccounted'
  BY <1>4, <1>5 DEF Counts, QueueAccounted, ClientsAccounted, Queued, OwnerRecv
<1>9. OutcomesAccounted'
  BY <1>6, <1>7 DEF Counts, OutcomesAccounted, Begun, Pending, OwnerRecv
<1>10. admit'.queued <= admit.queued
  BY <1>5, FieldTypes DEF TypeInv
<1> QED BY <1>8, <1>9, <1>10 DEF Counts

\* Settling a job counts it once, under its final outcome.
LEMMA CountsSettle ==
  ASSUME TypeInv, TypeInv', Counts, LeaseFollowsClient, NEW c \in Conns, Settle(c)
  PROVE  Counts' /\ admit'.queued = admit.queued
<1> DEFINE o == lease'[c].outcome
           bump(f) == IF o = f THEN 1 ELSE 0
<1>1. /\ \A d \in Conns \ {c} : lease'[d] = lease[d]
      /\ lease'[c].at = "settled" /\ lease'[c].queued = FALSE
      /\ LeaseDrop(c, o) /\ o \in Outcomes
  BY SettleEffect
<1>2. lease[c].at = "done" /\ ~lease[c].queued /\ cpc[c] = "await"
  BY DEF LeaseFollowsClient, Settle
<1>3. /\ admit'.queued = admit.queued /\ admit'.clients = admit.clients
      /\ runtime'.started = runtime.started /\ runtime'.inflight = runtime.inflight - 1
      /\ runtime'.completed = runtime.completed + bump("completed")
      /\ runtime'.failed = runtime.failed + bump("failed")
      /\ runtime'.canceled = runtime.canceled + bump("canceled")
  <2>1. admit \in AdmitRec /\ runtime \in RuntimeRec
    BY DEF TypeInv
  <2>2. /\ admit' = [admit EXCEPT !.queued = admit.queued,
                       !.inflight_body_bytes = admit.inflight_body_bytes - job[c].body]
        /\ runtime' = [runtime EXCEPT !.inflight = runtime.inflight - 1,
                         !.completed = runtime.completed + bump("completed"),
                         !.failed = runtime.failed + bump("failed"),
                         !.canceled = runtime.canceled + bump("canceled")]
    BY <1>1, <1>2 DEF LeaseDrop
  <2> HIDE DEF bump
  <2> QED BY <2>1, <2>2 DEF AdmitRec, RuntimeRec
<1> HIDE DEF o
<1>4. Queued' = Queued /\ Running' = Running
  <2>1. cpc' = [cpc EXCEPT ![c] = "close"] /\ cpc \in [Conns -> ClientPCs]
    BY DEF Settle, TypeInv
  <2>2. Running' = Running
    BY <1>2, <2>1 DEF Running
  <2> QED BY <1>1, <1>2, <2>2 DEF Queued
<1>5. Begun' = Begun
  BY <1>1, <1>2 DEF Begun, LeasesAt, Places
<1>6. Pending' = Pending \ {c} /\ c \in Pending /\ Pending \in SUBSET Conns
  BY <1>1, <1>2 DEF Pending, LeasesAt, Places
<1>7. ASSUME NEW f \in Outcomes
      PROVE  Cardinality(Settled(f)') = Cardinality(Settled(f)) + bump(f)
  <2>1. Settled(f) \in SUBSET Conns /\ c \notin Settled(f)
    BY <1>2 DEF Settled, LeasesAt
  <2>2. Settled(f)' = IF o = f THEN Settled(f) \cup {c} ELSE Settled(f)
    BY <1>1, <1>2 DEF Settled, LeasesAt, o
  <2>3. Cardinality(Settled(f)) \in Nat
    BY <2>1, CountChange
  <2> QED BY <2>1, <2>2, <2>3, CountChange
<1>8. Cardinality(Pending') = Cardinality(Pending) - 1
  BY <1>6, CountChange
<1>9. QueueAccounted' /\ ClientsAccounted'
  BY <1>3, <1>4 DEF Counts, QueueAccounted, ClientsAccounted, Queued, Running
<1>10. OutcomesAccounted'
  <2> HIDE DEF bump
  <2>1. "completed" \in Outcomes /\ "failed" \in Outcomes /\ "canceled" \in Outcomes
    BY DEF Outcomes
  <2>2. runtime'.started = Cardinality(Begun') /\ runtime'.inflight = Cardinality(Pending')
    BY <1>3, <1>5, <1>8 DEF Counts, OutcomesAccounted, Begun, Pending
  <2>3. /\ runtime'.completed = Cardinality(Settled("completed")')
        /\ runtime'.failed = Cardinality(Settled("failed")')
        /\ runtime'.canceled = Cardinality(Settled("canceled")')
    BY <1>3, <1>7, <2>1 DEF Counts, OutcomesAccounted
  <2> QED BY <2>2, <2>3 DEF OutcomesAccounted, Begun, Pending
<1> QED BY <1>3, <1>9, <1>10 DEF Counts

\* Every step keeps the counters exact and the queue within its limit.
LEMMA CountsStep ==
  ASSUME TypeInv, TypeInv', Counts, LeaseFollowsClient, LeaseFollowsOwner, QueueBounded, [Next]_vars
  PROVE  Counts' /\ QueueBounded'
<1>0. /\ admit \in AdmitRec /\ runtime \in RuntimeRec /\ cpc \in [Conns -> ClientPCs]
      /\ admit'.queued \in Int /\ admit.queued \in Int /\ MaxQueue \in Nat
  BY FieldTypes, LimitsAssumption DEF TypeInv
<1>1. admit'.queued <= admit.queued => QueueBounded'
  BY <1>0 DEF QueueBounded
<1>2. ASSUME NEW c \in Conns, Accept(c) PROVE Counts' /\ QueueBounded'
  <2>1. lease' = lease /\ SameCounters
    BY <1>2 DEF Accept, SameCounters
  <2>2. CASE admit' = admit /\ cpc' = [cpc EXCEPT ![c] = "over"]
    <3>1. Running' = Running
      BY <1>0, <1>2, <2>2 DEF Running, Accept
    <3> QED BY <1>0, <1>1, <2>1, <2>2, <3>1, CountsFrame
  <2>3. CASE admit' = [admit EXCEPT !.clients = admit.clients + 1] /\ cpc' = [cpc EXCEPT ![c] = "read"]
    <3>1. admit'.clients = admit.clients + 1 /\ admit'.queued = admit.queued
      BY <1>0, <2>3 DEF AdmitRec
    <3>2. Running' = Running \cup {c} /\ c \notin Running /\ Running \in SUBSET Conns
      BY <1>0, <1>2, <2>3 DEF Running, Accept
    <3>3. Cardinality(Running') = Cardinality(Running) + 1
      BY <3>2, CountChange
    <3>4. ClientsAccounted' /\ QueueAccounted'
      BY <2>1, <3>1, <3>3 DEF Counts, ClientsAccounted, QueueAccounted, Running
    <3>5. OutcomesAccounted'
      BY <2>1 DEF Counts, OutcomesAccounted, SameCounters, LeasesAt, Settled
    <3> QED BY <1>0, <1>1, <3>1, <3>4, <3>5 DEF Counts
  <2> QED BY <1>2, <2>2, <2>3 DEF Accept
<1>3. ASSUME NEW c \in Conns, ClientThread(c) PROVE Counts' /\ QueueBounded'
  <2>1. ASSUME ClientOver(c), cpc[c] \notin {"new", "over"}, lease' = lease, SameCounters
        PROVE  Counts' /\ QueueBounded'
    BY <1>0, <1>1, <2>1, CountsOver
  <2>2. ASSUME SameCounters, admit' = admit, lease' = lease, cpc[c] \notin {"new", "over"},
               NEW to \in ClientPCs \ {"new", "over"}, cpc' = [cpc EXCEPT ![c] = to]
        PROVE  Counts' /\ QueueBounded'
    <3>1. Running' = Running
      BY <1>0, <2>2 DEF Running
    <3> QED BY <1>0, <1>1, <2>2, <3>1, CountsFrame
  <2>3. CASE ReadAnswered(c)
    BY <2>1, <2>3 DEF ReadAnswered, SameCounters
  <2>4. ASSUME NEW n \in BodySizes, ReadShed(c, n) PROVE Counts' /\ QueueBounded'
    BY <2>1, <2>4 DEF ReadShed, SameCounters
  <2>5. ASSUME NEW n \in BodySizes, NEW kind \in Requests, NEW f \in Conns \cup {None},
               ReadJob(c, n, kind, f)
        PROVE  Counts' /\ QueueBounded'
    BY <2>2, <2>5 DEF ReadJob, SameCounters, ClientPCs
  <2>6. CASE EnqueueRefused(c)
    BY <2>1, <2>6 DEF EnqueueRefused, SameCounters
  <2>7. CASE Enqueue(c)
    BY <2>7, CountsEnqueue
  <2>8. CASE DrainLook(c)
    <3>1. PICK to \in {"take", "await", "idle", "beat"} : cpc' = [cpc EXCEPT ![c] = to]
      BY <2>8 DEF DrainLook
    <3>2. cpc[c] = "drain" /\ SameCounters /\ admit' = admit /\ lease' = lease
      BY <2>8 DEF DrainLook, SameCounters
    <3> QED BY <2>2, <3>1, <3>2 DEF ClientPCs
  <2>9. CASE DrainIdle(c)
    <3>1. PICK to \in {"await", "drain"} : cpc' = [cpc EXCEPT ![c] = to]
      BY <2>9 DEF DrainIdle
    <3>2. SameCounters
      BY <2>9, CancelEffect DEF DrainIdle, SameCounters
    <3>3. cpc[c] \in {"idle", "beat"} /\ admit' = admit /\ lease' = lease
      BY <2>9 DEF DrainIdle
    <3> QED BY <2>2, <3>1, <3>2, <3>3 DEF ClientPCs
  <2>10. CASE DrainTake(c)
    <3>1. SameCounters
      BY <1>0, <2>10, BacklogOnly DEF DrainTake
    <3> QED BY <2>2, <2>10, <3>1 DEF DrainTake, ClientPCs
  <2>11. CASE DrainSend(c)
    <3>1. PICK to \in {"await", "drain"} : cpc' = [cpc EXCEPT ![c] = to]
      BY <2>11 DEF DrainSend
    <3>2. SameCounters
      BY <2>11, CancelEffect DEF DrainSend, SameCounters
    <3>3. cpc[c] = "send" /\ admit' = admit /\ lease' = lease
      BY <2>11 DEF DrainSend
    <3> QED BY <2>2, <3>1, <3>2, <3>3 DEF ClientPCs
  <2>12. CASE Settle(c)
    BY <1>0, <1>1, <2>12, CountsSettle
  <2>13. CASE DrainClose(c)
    <3>1. SameCounters
      BY <1>0, <2>13, BacklogOnly DEF DrainClose
    <3> QED BY <2>1, <2>13, <3>1 DEF DrainClose
  <2> QED BY <1>3, <2>3, <2>4, <2>5, <2>6, <2>7, <2>8, <2>9, <2>10, <2>11, <2>12, <2>13
          DEF ClientThread
<1>4. CASE OwnerRecv
  BY <1>1, <1>4, CountsRecv
<1>5. CASE OwnerFinish
  <2>1. /\ owner.cur \in Conns /\ lease[owner.cur].at = "owner"
        /\ \A d \in Conns \ {owner.cur} : lease'[d] = lease[d]
        /\ lease'[owner.cur].at = "done" /\ lease'[owner.cur].queued = lease[owner.cur].queued
    BY <1>5, OwnerFinishEffect DEF LeaseFollowsOwner, OwnerFinish
  <2>2. admit' = admit /\ SameCounters /\ Running' = Running
    BY <1>5 DEF OwnerFinish, SameCounters, Running
  <2>3. \A c \in Conns : /\ lease'[c].queued = lease[c].queued
                         /\ lease'[c].at = "none" <=> lease[c].at = "none"
                         /\ lease'[c].at = "settled" <=> lease[c].at = "settled"
                         /\ lease[c].at = "settled" => lease'[c].outcome = lease[c].outcome
    BY <2>1
  <2> QED BY <1>0, <1>1, <2>2, <2>3, CountsFrame
<1>6. CASE OwnerWork(owner.cur)
  <2>1. /\ owner.cur \in Conns /\ lease[owner.cur].at = "owner"
        /\ LeaseEffect(owner.cur) /\ admit' = admit /\ SameCounters /\ cpc' = cpc
    BY <1>6 DEF OwnerWork, LeaseFollowsOwner, TypeInv
  <2>2. \A c \in Conns : /\ lease'[c].queued = lease[c].queued
                         /\ lease'[c].at = "none" <=> lease[c].at = "none"
                         /\ lease'[c].at = "settled" <=> lease[c].at = "settled"
                         /\ lease[c].at = "settled" => lease'[c].outcome = lease[c].outcome
    BY <2>1 DEF LeaseEffect
  <2>3. Running' = Running
    BY <2>1 DEF Running
  <2> QED BY <1>0, <1>1, <2>1, <2>2, <2>3, CountsFrame
<1>7. CASE UNCHANGED <<cpc, runtime, lease>> /\ admit'.queued = admit.queued /\ admit'.clients = admit.clients
  <2>1. SameCounters /\ Running' = Running
    BY <1>7 DEF SameCounters, Running
  <2> QED BY <1>0, <1>1, <1>7, <2>1, CountsFrame
<1>8. CASE \/ \E c \in Conns : PeerLeaves(c)
           \/ OwnerShutdown \/ AcceptStop \/ AcceptExit \/ TurnAges \/ UNCHANGED vars
  <2>1. admit' = admit \/ admit' = [admit EXCEPT !.stopping = TRUE]
    BY <1>8 DEF PeerLeaves, OwnerShutdown, AcceptStop, AcceptExit, TurnAges, vars
  <2>2. admit'.queued = admit.queued /\ admit'.clients = admit.clients
    BY <1>0, <2>1 DEF AdmitRec
  <2>3. UNCHANGED <<cpc, runtime, lease>>
    BY <1>8 DEF PeerLeaves, OwnerShutdown, AcceptStop, AcceptExit, TurnAges, vars
  <2> QED BY <1>7, <2>2, <2>3
<1> QED BY <1>2, <1>3, <1>4, <1>5, <1>6, <1>8, RunJobEffect DEF Next, OwnerThread

----------------------------------------------------------------------------
(* Delivery.                                                               *)

Delivery == GoneHoldsNothing /\ SinkStates /\ CompletedDelivered

\* What Delivery says of one connection.
Delivered(c) ==
  /\ SinkConsistent(sink[c])
  /\ sink[c].closed => lease[c].at \in {"done", "settled"}
  /\ lost[c] /\ cpc[c] # "over" => sink[c].gone
  /\ cpc[c] = "await" => sink[c].bytes = 0 /\ (sink[c].closed \/ sink[c].gone)
  /\ lease[c].at = "settled" /\ lease[c].outcome = "completed" /\ cpc[c] = "close" =>
       ~lost[c] /\ sending[c] = 0 /\ sink[c].bytes = 0

LEMMA DeliveredDelivery == Delivery <=> \A c \in Conns : Delivered(c)
BY DEF Delivery, Delivered, GoneHoldsNothing, SinkConsistent, SinkStates, CompletedDelivered,
       Settled, LeasesAt

\* A step that changes nothing Delivered(c) looks at.
LEMMA DeliveredFrame ==
  ASSUME NEW c \in Conns, Delivered(c), sink'[c] = sink[c], lost'[c] = lost[c], cpc'[c] = cpc[c],
         lease'[c] = lease[c], sending'[c] = sending[c]
  PROVE  Delivered(c)'
BY DEF Delivered

\* Every step keeps what a given-up or closed sink promises.
LEMMA DeliveryStep ==
  ASSUME TypeInv, LeaseFollowsClient, LeaseFollowsOwner, Delivery, [Next]_vars
  PROVE  Delivery'
<1>0. /\ cpc \in [Conns -> ClientPCs] /\ sending \in [Conns -> Nat] /\ lost \in [Conns -> BOOLEAN]
      /\ lease \in [Conns -> LeaseRec] /\ sink \in [Conns -> SinkRec]
  BY DEF TypeInv
<1>1. \A d \in Conns : Delivered(d)
  BY DeliveredDelivery
<1>2. SUFFICES ASSUME NEW d \in Conns PROVE Delivered(d)'
  BY DEF Delivery, Delivered, GoneHoldsNothing, SinkConsistent, SinkStates, CompletedDelivered,
         Settled, LeasesAt
<1>3. Delivered(d) /\ sink[d].bytes \in Nat
  BY <1>0, <1>1, FieldTypes
<1>4. ASSUME NEW c \in Conns, Accept(c) PROVE Delivered(d)'
  <2>1. UNCHANGED <<sink, lost, lease, sending>> /\ cpc[c] = "new"
    BY <1>4 DEF Accept
  <2>2. PICK v \in {"over", "read"} : cpc' = [cpc EXCEPT ![c] = v]
    BY <1>4 DEF Accept
  <2> QED BY <1>0, <1>3, <2>1, <2>2 DEF Delivered
<1>5. ASSUME NEW c \in Conns, ClientThread(c) PROVE Delivered(d)'
  <2>1. ASSUME d # c, ClientThread(c) PROVE Delivered(d)'
    <3>1. cpc'[d] = cpc[d]
      BY <1>0, <2>1 DEF ClientThread, ReadAnswered, ReadShed, ReadJob, EnqueueRefused, Enqueue,
         ClientOver, DrainLook, DrainIdle, DrainTake, DrainSend, Settle, DrainClose
    <3>2. sending'[d] = sending[d]
      BY <1>0, <2>1 DEF ClientThread, ReadAnswered, ReadShed, ReadJob, EnqueueRefused, Enqueue,
         DrainLook, DrainIdle, DrainTake, DrainSend, Settle, DrainClose
    <3>3. sink'[d] = sink[d] /\ lost'[d] = lost[d]
      BY <1>0, <2>1 DEF ClientThread, ReadAnswered, ReadShed, ReadJob, EnqueueRefused, Enqueue,
         DrainLook, DrainIdle, DrainTake, DrainSend, Settle, DrainClose, cancel
    <3>4. lease'[d] = lease[d]
      BY <1>0, <2>1, EnqueueEffect, SettleEffect DEF ClientThread, ReadAnswered, ReadShed, ReadJob,
         EnqueueRefused, DrainLook, DrainIdle, DrainTake, DrainSend, DrainClose
    <3> QED BY <1>3, <3>1, <3>2, <3>3, <3>4, DeliveredFrame
  <2>2. ASSUME d = c, UNCHANGED <<sink, lost, lease>>, sending'[c] \in Nat,
               cpc'[c] \notin {"await", "close"}, cpc[c] # "over"
        PROVE  Delivered(d)'
    BY <1>3, <2>2 DEF Delivered
  <2>3. CASE d = c /\ ReadAnswered(c)
    BY <1>0, <2>2, <2>3 DEF ReadAnswered, ClientOver
  <2>4. ASSUME NEW n \in BodySizes, d = c, ReadShed(c, n) PROVE Delivered(d)'
    BY <1>0, <2>2, <2>4 DEF ReadShed, ClientOver
  <2>5. ASSUME NEW n \in BodySizes, NEW kind \in Requests, NEW f \in Conns \cup {None}, d = c,
               ReadJob(c, n, kind, f)
        PROVE  Delivered(d)'
    BY <1>0, <2>2, <2>5 DEF ReadJob
  <2>6. CASE d = c /\ EnqueueRefused(c)
    BY <1>0, <2>2, <2>6 DEF EnqueueRefused, ClientOver
  <2>7. CASE d = c /\ Enqueue(c)
    <3>1. /\ sink' = sink /\ lost' = lost /\ sending' = sending
          /\ cpc[c] = "enqueue" /\ cpc'[c] = "drain"
      BY <1>0, <2>7 DEF Enqueue
    <3>2. lease[c].at = "none" /\ lease'[c].at = "chan"
      BY <2>7, <3>1, EnqueueEffect DEF LeaseFollowsClient
    <3> QED BY <1>3, <2>7, <3>1, <3>2 DEF Delivered
  <2>8. CASE d = c /\ DrainLook(c)
    <3>1. UNCHANGED <<sink, lost, lease, sending>> /\ cpc[c] = "drain"
      BY <2>8 DEF DrainLook
    <3>2. PICK to \in {"take", "await", "idle", "beat"} :
            /\ cpc' = [cpc EXCEPT ![c] = to]
            /\ to = "await" => sink[c].bytes = 0 /\ (sink[c].closed \/ sink[c].gone)
      BY <2>8 DEF DrainLook
    <3> QED BY <1>0, <1>3, <2>8, <3>1, <3>2 DEF Delivered
  <2>9. CASE d = c /\ DrainIdle(c)
    <3>1. UNCHANGED <<lease, sending>> /\ cpc[c] \in {"idle", "beat"}
      BY <2>9 DEF DrainIdle
    <3>2. CASE UNCHANGED <<sink, lost>> /\ cpc' = [cpc EXCEPT ![c] = "drain"]
      BY <1>0, <1>3, <2>9, <3>1, <3>2 DEF Delivered
    <3>3. CASE cancel(c, 0) /\ cpc' = [cpc EXCEPT ![c] = "await"]
      <4>1. sink'[c].gone /\ sink'[c].bytes = 0 /\ sink'[c].closed = sink[c].closed
        BY <1>0, <3>3 DEF cancel, Cancelled, SinkRec
      <4> QED BY <1>0, <1>3, <2>9, <3>1, <3>3, <4>1 DEF Delivered, SinkConsistent
    <3> QED BY <2>9, <3>2, <3>3 DEF DrainIdle
  <2>10. CASE d = c /\ DrainTake(c)
    <3>1. UNCHANGED <<lease, lost>> /\ cpc[c] = "take" /\ cpc'[c] = "send"
      BY <1>0, <2>10 DEF DrainTake
    <3>2. /\ sink'[c].bytes = 0 /\ sink'[c].gone = sink[c].gone /\ sink'[c].slow = sink[c].slow
          /\ sink'[c].closed = sink[c].closed
      BY <1>0, <2>10 DEF DrainTake, SinkRec
    <3> QED BY <1>3, <2>10, <3>1, <3>2 DEF Delivered, SinkConsistent
  <2>11. CASE d = c /\ DrainSend(c)
    <3>1. lease' = lease /\ cpc[c] = "send"
      BY <2>11 DEF DrainSend
    <3>2. CASE UNCHANGED <<sink, lost>> /\ cpc' = [cpc EXCEPT ![c] = "drain"]
      BY <1>0, <1>3, <2>11, <3>1, <3>2 DEF Delivered
    <3>3. CASE cancel(c, sending[c]) /\ cpc' = [cpc EXCEPT ![c] = "await"]
      <4>1. sink'[c].gone /\ sink'[c].bytes = 0 /\ sink'[c].closed = sink[c].closed
        BY <1>0, <3>3 DEF cancel, Cancelled, SinkRec
      <4> QED BY <1>0, <1>3, <2>11, <3>1, <3>3, <4>1 DEF Delivered, SinkConsistent
    <3> QED BY <2>11, <3>2, <3>3 DEF DrainSend
  <2>12. CASE d = c /\ Settle(c)
    <3>1. UNCHANGED <<sink, lost, sending>> /\ cpc[c] = "await" /\ cpc'[c] = "close"
      BY <1>0, <2>12 DEF Settle
    <3>2. /\ lease'[c].at = "settled"
          /\ lease'[c].outcome = IF sink[c].gone /\ lease[c].outcome = "completed"
                                 THEN "canceled" ELSE lease[c].outcome
      BY <2>12, SettleEffect
    <3>3. lease'[c].outcome = "completed" => ~sink[c].gone
      BY <3>2
    <3>4. sending[c] = 0
      BY <1>0, <3>1 DEF LeaseFollowsClient
    <3> QED BY <1>3, <2>12, <3>1, <3>2, <3>3, <3>4 DEF Delivered
  <2>13. CASE d = c /\ DrainClose(c)
    <3>1. /\ cpc[c] = "close" /\ cpc'[c] = "over" /\ lease' = lease /\ lost'[c] = FALSE
          /\ sink'[c].bytes = 0 /\ sink'[c].gone
      BY <1>0, <2>13 DEF DrainClose, ClientOver, NewSink
    <3>2. lease[c].at = "settled"
      BY <3>1 DEF LeaseFollowsClient
    <3> QED BY <2>13, <3>1, <3>2 DEF Delivered, SinkConsistent
  <2> QED BY <1>5, <2>1, <2>3, <2>4, <2>5, <2>6, <2>7, <2>8, <2>9, <2>10, <2>11, <2>12, <2>13
          DEF ClientThread
<1>6. CASE OwnerRecv
  <2>1. UNCHANGED <<sink, lost, sending, cpc>>
    BY <1>6 DEF OwnerRecv
  <2>2. 1 \in 1..Len(chan)
    BY <1>6 DEF OwnerRecv, TypeInv
  <2>3. \/ lease'[d] = lease[d]
        \/ lease[d].at = "chan" /\ lease'[d].at = "owner"
    BY <1>6, <2>2, OwnerRecvEffect DEF LeaseFollowsOwner
  <2> QED BY <1>3, <2>1, <2>3 DEF Delivered
<1>7. CASE OwnerFinish
  <2>1. UNCHANGED <<lost, sending, cpc>>
    BY <1>7 DEF OwnerFinish
  <2>2. CASE d # owner.cur
    BY <1>3, <1>7, <2>1, <2>2, OwnerFinishEffect, DeliveredFrame
  <2>3. CASE d = owner.cur
    <3>1. /\ lease'[d].at = "done" /\ sink'[d].closed /\ sink'[d].bytes = sink[d].bytes
          /\ sink'[d].gone = sink[d].gone /\ sink'[d].slow = sink[d].slow
      BY <1>7, <2>3, OwnerFinishEffect
    <3> QED BY <1>3, <2>1, <3>1 DEF Delivered, SinkConsistent
  <2> QED BY <2>2, <2>3
<1>8. CASE OwnerWork(owner.cur)
  <2>1. UNCHANGED <<sending, cpc>> /\ LeaseEffect(owner.cur) /\ SinkEffect(owner.cur)
    BY <1>8 DEF OwnerWork
  <2>2. owner.cur \in Conns /\ lease[owner.cur].at = "owner"
    BY <1>8 DEF OwnerWork, LeaseFollowsOwner, TypeInv
  <2>3. CASE d # owner.cur
    BY <1>3, <2>1, <2>3, DeliveredFrame DEF LeaseEffect, SinkEffect
  <2>4. CASE d = owner.cur
    <3>1. /\ ~sink[d].closed /\ sink'[d].closed = sink[d].closed
          /\ sink[d].gone => sink'[d].gone
          /\ SinkConsistent(sink[d]) => SinkConsistent(sink'[d])
          /\ lost'[d] => lost[d] \/ sink'[d].gone \/ sink[d].closed
          /\ lease'[d].at = "owner" /\ cpc'[d] = cpc[d]
      BY <1>3, <2>1, <2>2, <2>4 DEF LeaseEffect, SinkEffect, Delivered
    <3>2. cpc[d] # "over"
      BY <2>2, <2>4 DEF LeaseFollowsClient
    <3> QED BY <1>3, <3>1, <3>2 DEF Delivered, SinkConsistent
  <2> QED BY <2>3, <2>4
<1>9. CASE \/ \E c \in Conns : PeerLeaves(c)
           \/ OwnerShutdown \/ AcceptStop \/ AcceptExit \/ TurnAges \/ UNCHANGED vars
  <2>1. UNCHANGED <<sink, lost, cpc, lease, sending>>
    BY <1>9 DEF PeerLeaves, OwnerShutdown, AcceptStop, AcceptExit, TurnAges, vars
  <2> QED BY <1>3, <2>1, DeliveredFrame
<1> QED BY <1>4, <1>5, <1>6, <1>7, <1>8, <1>9, RunJobEffect DEF Next, OwnerThread

----------------------------------------------------------------------------
(* The live turn.                                                          *)

\* What TurnWasAccepted says of the job whose turn is live.
Accepted(c) ==
  /\ lease[c].at \notin {"none", "chan"} /\ ~lease[c].shed /\ ~sink[c].slow
  /\ \/ lease[c].outcome = "completed"
     \/ lease[c].at = "settled" /\ lease[c].outcome = "canceled"

\* Every step leaves the live turn to a job whose terminal was accepted.
LEMMA TurnStep ==
  ASSUME TypeInv, LeaseFollowsClient, LeaseFollowsOwner, GoneHoldsNothing,
         TurnIsPast, TurnWasAccepted, [Next]_vars
  PROVE  TurnIsPast' /\ TurnWasAccepted'
<1>0. /\ lease \in [Conns -> LeaseRec] /\ sink \in [Conns -> SinkRec] /\ turn \in TurnRec
      /\ None \notin Conns
  BY ConnsAssumption DEF TypeInv
<1>1. SUFFICES /\ TurnIsPast'
               /\ \A d \in Conns : turn'.live = d => Accepted(d)'
  BY DEF TurnWasAccepted, Accepted
<1>2. \A d \in Conns : turn.live = d => Accepted(d)
  BY DEF TurnWasAccepted, Accepted
<1>3. ASSUME turn'.live \in {turn.live, None}, owner' = owner,
             \A d \in Conns : Accepted(d) => Accepted(d)'
      PROVE  TurnIsPast' /\ \A d \in Conns : turn'.live = d => Accepted(d)'
  <2>1. \A d \in Conns : turn'.live = d => Accepted(d)'
    BY <1>0, <1>2, <1>3
  <2>2. TurnIsPast'
    BY <1>0, <1>3 DEF TurnIsPast, TypeInv
  <2> QED BY <2>1, <2>2
<1>4. ASSUME NEW c \in Conns, ClientThread(c)
      PROVE  TurnIsPast' /\ \A d \in Conns : turn'.live = d => Accepted(d)'
  <2>1. owner' = owner
    BY <1>4 DEF ClientThread, ReadAnswered, ReadShed, ReadJob, EnqueueRefused, Enqueue,
         DrainLook, DrainIdle, DrainTake, DrainSend, Settle, DrainClose
  <2>2. turn'.live = turn.live
    <3>1. turn' = turn \/ \E b : turn' = [turn EXCEPT !.window = b]
      BY <1>4 DEF ClientThread, ReadAnswered, ReadShed, ReadJob, EnqueueRefused, Enqueue,
         DrainLook, DrainIdle, DrainTake, DrainSend, Settle, DrainClose
    <3> QED BY <1>0, <3>1 DEF TurnRec
  <2>3. \A d \in Conns : sink[d].slow \/ ~sink'[d].slow
    <3>1. CASE sink' = sink
      BY <3>1
    <3>2. CASE sink' = [sink EXCEPT ![c] = Cancelled(sink[c])]
      BY <1>0, <3>2 DEF Cancelled, SinkRec
    <3>3. CASE DrainTake(c)
      BY <1>0, <3>3 DEF DrainTake, SinkRec
    <3>4. CASE DrainClose(c)
      BY <1>0, <3>4 DEF DrainClose, NewSink
    <3> QED BY <1>4, <3>1, <3>2, <3>3, <3>4 DEF ClientThread, ReadAnswered, ReadShed, ReadJob,
         EnqueueRefused, Enqueue, DrainLook, DrainIdle, DrainSend, Settle, cancel
  <2>4. CASE lease' = lease
    BY <1>3, <2>1, <2>2, <2>3, <2>4 DEF Accepted
  <2>5. CASE Enqueue(c)
    <3>1. lease[c].at = "none" /\ \A d \in Conns \ {c} : lease'[d] = lease[d]
      BY <2>5, EnqueueEffect DEF LeaseFollowsClient, Enqueue
    <3> QED BY <1>3, <2>1, <2>2, <2>3, <3>1 DEF Accepted
  <2>6. CASE Settle(c)
    <3>1. /\ \A d \in Conns \ {c} : lease'[d] = lease[d]
          /\ lease'[c].at = "settled" /\ lease'[c].shed = lease[c].shed
          /\ lease'[c].outcome \in {"canceled", lease[c].outcome}
      BY <2>6, SettleEffect
    <3> QED BY <1>3, <2>1, <2>2, <2>3, <3>1 DEF Accepted
  <2> QED BY <1>4, <2>4, <2>5, <2>6 DEF ClientThread, ReadAnswered, ReadShed, ReadJob,
         EnqueueRefused, DrainLook, DrainIdle, DrainTake, DrainSend, DrainClose
<1>5. CASE OwnerRecv
  <2>1. 1 \in 1..Len(chan) /\ UNCHANGED <<sink, turn>>
    BY <1>5 DEF OwnerRecv, TypeInv
  <2>2. /\ chan[1] \in Conns /\ lease[chan[1]].at = "chan"
        /\ \A d \in Conns \ {chan[1]} : lease'[d] = lease[d]
        /\ owner'.cur = chan[1]
    BY <1>5, <2>1, OwnerRecvEffect DEF LeaseFollowsOwner
  <2>3. turn.live # chan[1]
    BY <1>2, <2>2 DEF Accepted
  <2>4. TurnIsPast'
    BY <2>1, <2>2, <2>3 DEF TurnIsPast
  <2>5. \A d \in Conns : turn'.live = d => Accepted(d)'
    BY <1>2, <2>1, <2>2, <2>3 DEF Accepted
  <2> QED BY <2>4, <2>5
<1>6. CASE OwnerFinish
  <2>1. turn' = turn /\ owner'.pc = "recv"
    BY <1>6, OwnerFinishEffect DEF OwnerFinish
  <2>2. /\ owner.cur \in Conns
        /\ \A d \in Conns \ {owner.cur} : lease'[d] = lease[d] /\ sink'[d] = sink[d]
        /\ lease'[owner.cur].at = "done" /\ sink'[owner.cur].slow = sink[owner.cur].slow
        /\ ~sink[owner.cur].slow => /\ lease'[owner.cur].outcome = lease[owner.cur].outcome
                                   /\ lease'[owner.cur].shed = lease[owner.cur].shed
    BY <1>6, OwnerFinishEffect
  <2>5. lease[owner.cur].at = "owner"
    BY <1>6 DEF OwnerFinish, LeaseFollowsOwner
  <2>3. \A d \in Conns : turn'.live = d => Accepted(d)'
    BY <1>2, <2>1, <2>2, <2>5 DEF Accepted
  <2>4. TurnIsPast'
    BY <2>1 DEF TurnIsPast
  <2> QED BY <2>3, <2>4
<1>7. CASE OwnerWork(owner.cur) /\ turn'.live \in {turn.live, None}
  <2>1. /\ owner.cur \in Conns /\ turn.live # owner.cur /\ owner'.cur = owner.cur
        /\ \A d \in Conns \ {owner.cur} : lease'[d] = lease[d] /\ sink'[d] = sink[d]
    BY <1>7 DEF OwnerWork, LeaseEffect, SinkEffect, TypeInv, TurnIsPast
  <2>2. turn'.live # owner.cur
    BY <1>0, <1>7, <2>1
  <2>3. TurnIsPast'
    BY <2>1, <2>2 DEF TurnIsPast
  <2>4. \A d \in Conns : turn'.live = d => Accepted(d)'
    BY <1>0, <1>2, <1>7, <2>1, <2>2 DEF Accepted
  <2> QED BY <2>3, <2>4
<1>8. CASE OwnerWork(owner.cur) /\ OwnerToolCommit
  <2> DEFINE c == owner.cur
  <2>1. c \in Conns /\ lease[c].at = "owner" /\ lease'[c].at = lease[c].at
    BY <1>8 DEF OwnerWork, LeaseEffect, TypeInv, LeaseFollowsOwner
  <2>2. turn'.live = c /\ ~sink[c].gone /\ Outcome("completed", FALSE) /\ Busy
    BY <1>8 DEF OwnerToolCommit, Cur, Busy
  <2>3. ~sink[c].slow
    BY <2>1, <2>2 DEF GoneHoldsNothing
  <2>4. ~sink'[c].slow
    BY <1>0, <1>8, <2>1, <2>3 DEF OwnerToolCommit, Cur, SinkRec
  <2>5. /\ lease' = [lease EXCEPT ![c] = [lease[c] EXCEPT !.outcome = "completed", !.shed = FALSE]]
        /\ owner'.pc = "finish"
    BY <2>2, OutcomeType DEF Outcomes
  <2>6. lease'[c].outcome = "completed" /\ ~lease'[c].shed
    BY <1>0, <2>1, <2>5 DEF LeaseRec
  <2>7. TurnIsPast'
    BY <2>5 DEF TurnIsPast
  <2>8. \A d \in Conns : turn'.live = d => Accepted(d)'
    BY <2>1, <2>2, <2>4, <2>6 DEF Accepted
  <2> QED BY <2>7, <2>8
<1>9. CASE \/ \E c \in Conns : Accept(c) \/ PeerLeaves(c)
           \/ AcceptStop \/ AcceptExit \/ TurnAges \/ UNCHANGED vars
  <2>1. UNCHANGED <<sink, lease, owner>>
    BY <1>9 DEF Accept, PeerLeaves, AcceptStop, AcceptExit, TurnAges, vars
  <2>2. turn' = turn \/ TurnAges
    BY <1>9 DEF Accept, PeerLeaves, AcceptStop, AcceptExit, vars
  <2>3. turn'.live \in {turn.live, None}
    BY <1>0, <2>2 DEF TurnAges, TurnRec
  <2> QED BY <1>3, <2>1, <2>3 DEF Accepted
<1>10. CASE OwnerShutdown
  <2>1. UNCHANGED <<sink, lease, turn>>
    BY <1>10 DEF OwnerShutdown
  <2>2. owner'.pc = "halted"
    BY <1>10 DEF OwnerShutdown, Goto, TypeInv, OwnerRec
  <2> QED BY <1>2, <2>1, <2>2 DEF Accepted, TurnIsPast
<1> QED BY <1>4, <1>5, <1>6, <1>7, <1>8, <1>9, <1>10, RunJobEffect DEF Next, OwnerThread

----------------------------------------------------------------------------
(* The theorems.                                                           *)

LEMMA JobsInit == Init => JobsInv
<1> SUFFICES ASSUME Init PROVE JobsInv
  OBVIOUS
<1>1. TypeInv
  <2>1. NoJob \in JobRec
    BY LimitsAssumption DEF NoJob, JobRec
  <2>2. NoLease \in LeaseRec
    BY DEF NoLease, LeaseRec, Places, Outcomes
  <2>3. NewSink \in SinkRec
    BY DEF NewSink, SinkRec
  <2>4. job \in [Conns -> JobRec] /\ lease \in [Conns -> LeaseRec] /\ sink \in [Conns -> SinkRec]
    BY <2>1, <2>2, <2>3 DEF Init
  <2>5. admit \in AdmitRec
    BY DEF Init, AdmitRec
  <2>6. runtime \in RuntimeRec
    BY DEF Init, RuntimeRec
  <2>7. owner \in OwnerRec /\ owner.pc = "recv"
    BY DEF Init, OwnerRec, OwnerPCs
  <2>8. turn \in TurnRec
    BY DEF Init, TurnRec
  <2>9. /\ apc \in {"accept", "exiting", "exited"}
        /\ cpc \in [Conns -> ClientPCs] /\ peer \in [Conns -> BOOLEAN]
        /\ sending \in [Conns -> Nat] /\ lost \in [Conns -> BOOLEAN]
        /\ chan \in Seq(Conns)
    BY DEF Init, ClientPCs
  <2> QED BY <2>4, <2>5, <2>6, <2>7, <2>8, <2>9 DEF TypeInv
<1>2. LeaseFollowsClient /\ LeaseFollowsOwner
  BY DEF Init, LeaseFollowsClient, LeaseFollowsOwner, NoLease
<1>3. /\ Queued = {} /\ Running = {} /\ Begun = {} /\ Pending = {}
      /\ Settled("completed") = {} /\ Settled("failed") = {} /\ Settled("canceled") = {}
  BY DEF Init, Queued, Running, Begun, Pending, Settled, LeasesAt, NoLease, Places
<1>4. Counts /\ QueueBounded
  <2>1. /\ admit.queued = 0 /\ admit.clients = 0
        /\ runtime.started = 0 /\ runtime.inflight = 0 /\ runtime.completed = 0
        /\ runtime.failed = 0 /\ runtime.canceled = 0
    BY DEF Init
  <2>2. Cardinality({}) = 0
    BY FS_EmptySet
  <2>3. QueueAccounted /\ ClientsAccounted
    BY <1>3, <2>1, <2>2 DEF QueueAccounted, ClientsAccounted, Queued, Running
  <2>4. OutcomesAccounted
    BY <1>3, <2>1, <2>2 DEF OutcomesAccounted, Begun, Pending
  <2>5. QueueBounded
    BY <2>1, LimitsAssumption DEF QueueBounded
  <2> QED BY <2>3, <2>4, <2>5 DEF Counts
<1>5. GoneHoldsNothing /\ SinkStates /\ CompletedDelivered
  BY DEF Init, GoneHoldsNothing, SinkStates, CompletedDelivered, NewSink, NoLease, Settled, LeasesAt
<1>6. TurnIsPast /\ TurnWasAccepted
  BY ConnsAssumption DEF Init, TurnIsPast, TurnWasAccepted
<1> QED BY <1>1, <1>2, <1>4, <1>5, <1>6 DEF JobsInv

\* JobsInv is an invariant of the server, for any set of connections and
\* any limits.
THEOREM JobsInvariant == Spec => []JobsInv
<1>1. JobsInv /\ [Next]_vars => JobsInv'
  <2> SUFFICES ASSUME JobsInv, [Next]_vars PROVE JobsInv'
    OBVIOUS
  <2>1. TypeInv /\ TypeInv'
    BY TypeStep DEF JobsInv
  <2>2. LeaseFollowsClient' /\ LeaseFollowsOwner'
    BY PlaceStep DEF JobsInv
  <2>3. Counts' /\ QueueBounded'
    BY <2>1, CountsStep DEF JobsInv
  <2>4. GoneHoldsNothing' /\ SinkStates' /\ CompletedDelivered'
    BY DeliveryStep DEF JobsInv, Delivery
  <2>5. TurnIsPast' /\ TurnWasAccepted'
    BY TurnStep DEF JobsInv
  <2> QED BY <2>1, <2>2, <2>3, <2>4, <2>5 DEF JobsInv
<1> QED BY <1>1, JobsInit, PTL DEF Spec

\* The server's state is well typed; in particular the connection and
\* in-flight counters, which the code decrements with saturation, never
\* need it.
THEOREM TypesHold == Spec => []TypeOK
<1>1. JobsInv => TypeOK
  <2> SUFFICES ASSUME JobsInv PROVE TypeOK
    OBVIOUS
  <2>1. TypeInv /\ Counts
    BY DEF JobsInv
  <2>2. ASSUME NEW S \in SUBSET Conns PROVE Cardinality(S) \in Nat
    BY ConnsAssumption, FS_Subset, FS_CardinalityType
  <2>3. /\ Queued \in SUBSET Conns /\ Running \in SUBSET Conns
        /\ Begun \in SUBSET Conns /\ Pending \in SUBSET Conns
        /\ Settled("completed") \in SUBSET Conns /\ Settled("failed") \in SUBSET Conns
        /\ Settled("canceled") \in SUBSET Conns
    BY DEF Queued, Running, Begun, Pending, Settled, LeasesAt
  <2>4. admit.queued \in Nat /\ admit.clients \in Nat
    BY <2>1, <2>2, <2>3 DEF Counts, QueueAccounted, ClientsAccounted, Queued, Running
  <2>5. /\ runtime.started \in Nat /\ runtime.inflight \in Nat /\ runtime.completed \in Nat
        /\ runtime.failed \in Nat /\ runtime.canceled \in Nat
    BY <2>1, <2>2, <2>3 DEF Counts, OutcomesAccounted, Begun, Pending
  <2>6. admit \in [stopping : BOOLEAN, queued : Nat, inflight_body_bytes : Int, clients : Nat]
    BY <2>1, <2>4 DEF TypeInv, AdmitRec
  <2>7. runtime \in [started : Nat, inflight : Nat, completed : Nat, failed : Nat,
                     canceled : Nat, out_backlog : Int]
    <3>1. runtime \in RuntimeRec
      BY <2>1 DEF TypeInv
    <3> QED BY <2>5, <3>1 DEF RuntimeRec
  <2> QED BY <2>1, <2>6, <2>7 DEF TypeOK, TypeInv, JobRec, LeaseRec, SinkRec, OwnerRec, TurnRec
<1> QED BY <1>1, JobsInvariant, PTL

\* The admission counters are exact: the queue depth is the number of jobs
\* holding a slot, the connection count the number of client threads, and
\* the queue never exceeds its limit, whatever the pre-parse check let by.
THEOREM AdmissionExact == Spec => []AdmissionAccounted
<1>1. JobsInv => AdmissionAccounted
  BY DEF JobsInv, Counts, AdmissionAccounted
<1> QED BY <1>1, JobsInvariant, PTL

\* Every admitted request is in flight or counted once under its outcome.
THEOREM OutcomesExact == Spec => []OutcomesAccounted
<1>1. JobsInv => OutcomesAccounted
  BY DEF JobsInv, Counts
<1> QED BY <1>1, JobsInvariant, PTL

\* A request counted as completed was delivered to its socket in full, and
\* a sink given up stays empty.
THEOREM OutputIsSettled == Spec => []OutputSettled
<1>1. JobsInv => OutputSettled
  BY DEF JobsInv, OutputSettled
<1> QED BY <1>1, JobsInvariant, PTL

\* Only a request whose terminal was accepted leaves a live turn behind.
THEOREM LiveTurnAccepted == Spec => []TurnWasAccepted
<1>1. JobsInv => TurnWasAccepted
  BY DEF JobsInv
<1> QED BY <1>1, JobsInvariant, PTL

\* The shutdown checkpoint runs after everything was given back.
THEOREM ShutdownIsQuiet == Spec => []HaltedIsQuiet
<1>1. JobsInv => HaltedIsQuiet
  <2> SUFFICES ASSUME JobsInv, owner.pc = "halted" PROVE HaltedIsQuiet
    BY DEF HaltedIsQuiet
  <2>1. chan = <<>> /\ \A c \in Conns : cpc[c] \in {"new", "over"}
    BY DEF JobsInv, LeaseFollowsOwner, Disconnected
  <2>2. \A c \in Conns : /\ lease[c].at \in {"none", "settled"} /\ lease[c].pin = None
                         /\ ~lease[c].queued
    BY <2>1 DEF JobsInv, LeaseFollowsClient
  <2>3. Queued = {} /\ Running = {} /\ Pending = {}
    BY <2>1, <2>2 DEF Queued, Running, Pending, LeasesAt
  <2>4. admit.queued = 0 /\ admit.clients = 0 /\ runtime.inflight = 0
    BY <2>3, FS_EmptySet DEF JobsInv, Counts, QueueAccounted, ClientsAccounted, OutcomesAccounted,
       Queued, Running, Pending
  <2> QED BY <2>1, <2>2, <2>4 DEF HaltedIsQuiet
<1> QED BY <1>1, JobsInvariant, PTL

----------------------------------------------------------------------------
(* Sums.  The bodies of the live leases and the output of the sinks are      *)
(* added up as sets of units.                                               *)

\* The first b[c] units of each c in S.
Units(S, b) == UNION {{c} \X (1..b[c]) : c \in S}

LEMMA SliceCount ==
  ASSUME NEW t, NEW k \in Nat PROVE IsFiniteSet({t} \X (1..k)) /\ Cardinality({t} \X (1..k)) = k
<1>1. IsFiniteSet({t}) /\ Cardinality({t}) = 1
  BY FS_Singleton
<1>2. IsFiniteSet(1..k) /\ Cardinality(1..k) = k
  BY FS_Interval
<1>3. IsFiniteSet({t} \X (1..k)) /\ Cardinality({t} \X (1..k)) = Cardinality({t}) * Cardinality(1..k)
  BY <1>1, <1>2, FS_Product
<1> QED BY <1>1, <1>2, <1>3

LEMMA UnitsFinite ==
  ASSUME NEW S \in SUBSET Conns, NEW b \in [Conns -> Nat]
  PROVE  IsFiniteSet(Units(S, b)) /\ Cardinality(Units(S, b)) \in Nat
<1> DEFINE f == [t \in S |-> {t} \X (1..b[t])]
           F == {{t} \X (1..b[t]) : t \in S}
<1>1. f \in Surjection(S, F)
  BY DEF Surjection
<1>2. IsFiniteSet(S)
  BY ConnsAssumption, FS_Subset
<1>3. IsFiniteSet(F)
  <2> HIDE DEF f, F
  <2> QED BY <1>1, <1>2, FS_Surjection
<1>4. ASSUME NEW T \in F PROVE IsFiniteSet(T)
  <2>1. PICK t \in S : T = {t} \X (1..b[t])
    OBVIOUS
  <2>2. b[t] \in Nat
    OBVIOUS
  <2> QED BY <2>1, <2>2, SliceCount
<1> HIDE DEF F
<1>5. IsFiniteSet(UNION F)
  BY <1>3, <1>4, FS_UNION
<1> QED BY <1>5, FS_CardinalityType DEF Units, F

\* Another connection adds its own.
LEMMA UnitsSplit ==
  ASSUME NEW S \in SUBSET Conns, NEW b \in [Conns -> Nat], NEW c \in Conns \ S
  PROVE  Cardinality(Units(S \cup {c}, b)) = Cardinality(Units(S, b)) + b[c]
<1> DEFINE U == Units(S, b)
           V == {c} \X (1..b[c])
           W == Units(S \cup {c}, b)
<1>1. W = U \cup V
  <2>1. ASSUME NEW y \in W PROVE y \in U \cup V
    <3>1. PICK d \in S \cup {c} : y \in {d} \X (1..b[d])
      BY DEF Units
    <3>2. CASE d = c
      BY <3>1, <3>2
    <3>3. CASE d \in S
      <4>1. y \in U
        BY <3>1, <3>3 DEF Units
      <4> QED BY <4>1
    <3> QED BY <3>2, <3>3
  <2>2. ASSUME NEW y \in U PROVE y \in W
    BY DEF Units
  <2>3. ASSUME NEW y \in V PROVE y \in W
    BY DEF Units
  <2> HIDE DEF U, V, W
  <2> QED BY <2>1, <2>2, <2>3
<1>2. U \cap V = {}
  <2> SUFFICES ASSUME NEW y \in U, y \in V PROVE FALSE
    OBVIOUS
  <2>1. PICK d \in S : y \in {d} \X (1..b[d])
    BY DEF Units
  <2>2. d # c
    OBVIOUS
  <2> QED BY <2>1, <2>2
<1>3. IsFiniteSet(U) /\ Cardinality(U) \in Nat
  BY UnitsFinite
<1>4. b[c] \in Nat /\ IsFiniteSet(V) /\ Cardinality(V) = b[c]
  BY SliceCount
<1> HIDE DEF U, V, W
<1>5. Cardinality(W) = Cardinality(U) + Cardinality(V) - Cardinality(U \cap V)
  BY <1>1, <1>3, <1>4, FS_Union
<1>6. Cardinality(U \cap V) = 0
  BY <1>2, FS_EmptySet
<1>7. Cardinality(W) = Cardinality(U) + b[c]
  BY <1>3, <1>4, <1>5, <1>6
<1> QED BY <1>7 DEF U, W

\* A sink that is emptied takes its units along, one that is written to adds
\* one.
LEMMA UnitsEmptied ==
  ASSUME NEW b \in [Conns -> Nat], NEW a \in [Conns -> Nat], NEW c \in Conns,
         a[c] = 0, \A d \in Conns \ {c} : a[d] = b[d]
  PROVE  /\ Units(Conns, a) \subseteq Units(Conns, b)
         /\ Cardinality(Units(Conns, a)) = Cardinality(Units(Conns, b)) - b[c]
<1> DEFINE S == Conns \ {c}
<1>1. Units(Conns, a) = Units(S, b)
  <2>1. ASSUME NEW y \in Units(Conns, a) PROVE y \in Units(S, b)
    <3>1. PICK d \in Conns : y \in {d} \X (1..a[d])
      BY DEF Units
    <3>2. d # c
      BY <3>1
    <3>3. d \in S /\ y \in {d} \X (1..b[d])
      BY <3>1, <3>2
    <3> QED BY <3>3 DEF Units
  <2>2. ASSUME NEW y \in Units(S, b) PROVE y \in Units(Conns, a)
    <3>1. PICK d \in S : y \in {d} \X (1..b[d])
      BY DEF Units
    <3>2. d \in Conns /\ y \in {d} \X (1..a[d])
      BY <3>1
    <3> QED BY <3>2 DEF Units
  <2> QED BY <2>1, <2>2
<1>2. S \in SUBSET Conns /\ c \in Conns \ S /\ S \cup {c} = Conns
  OBVIOUS
<1>3. Units(S, b) \subseteq Units(Conns, b)
  BY DEF Units
<1> HIDE DEF S
<1>4. Cardinality(Units(S \cup {c}, b)) = Cardinality(Units(S, b)) + b[c]
  BY <1>2, UnitsSplit
<1>5. Cardinality(Units(S, b)) \in Nat /\ b[c] \in Nat
  BY <1>2, UnitsFinite
<1> DEFINE m == Cardinality(Units(S, b))
           n == Cardinality(Units(Conns, b))
<1>6. n = m + b[c] /\ m \in Nat
  BY <1>2, <1>4, <1>5
<1>7. m = n - b[c]
  <2> HIDE DEF m, n
  <2> QED BY <1>5, <1>6
<1> QED BY <1>1, <1>3, <1>7

LEMMA UnitsGrown ==
  ASSUME NEW b \in [Conns -> Nat], NEW a \in [Conns -> Nat], NEW c \in Conns,
         a[c] = b[c] + 1, \A d \in Conns \ {c} : a[d] = b[d]
  PROVE  /\ Units(Conns, a) = Units(Conns, b) \cup {<<c, a[c]>>}
         /\ Cardinality(Units(Conns, a)) = Cardinality(Units(Conns, b)) + 1
<1> DEFINE U == Units(Conns, b)
           y == <<c, a[c]>>
<1>0. b[c] \in Nat /\ a[c] \in Nat
  OBVIOUS
<1>1. ASSUME NEW z \in Units(Conns, a) PROVE z \in U \cup {y}
  <2>1. PICK d \in Conns : z \in {d} \X (1..a[d])
    BY DEF Units
  <2>2. CASE d # c
    <3>1. z \in {d} \X (1..b[d])
      BY <2>1, <2>2
    <3>2. z \in U
      BY <3>1 DEF Units
    <3> QED BY <3>2
  <2>3. CASE d = c
    <3>1. PICK j \in 1..a[c] : z = <<c, j>>
      BY <2>1, <2>3
    <3>2. CASE j = a[c]
      BY <3>1, <3>2
    <3>3. CASE j # a[c]
      <4>1. j \in 1..b[c]
        BY <1>0, <3>3
      <4>2. z \in {c} \X (1..b[c])
        BY <3>1, <4>1
      <4>3. z \in U
        BY <4>2 DEF Units
      <4> QED BY <4>3
    <3> QED BY <3>2, <3>3
  <2> QED BY <2>2, <2>3
<1>2. ASSUME NEW z \in U PROVE z \in Units(Conns, a)
  <2>1. PICK d \in Conns : z \in {d} \X (1..b[d])
    BY DEF Units
  <2>2. \A j \in 1..b[d] : j \in 1..a[d]
    BY <1>0
  <2>3. z \in {d} \X (1..a[d])
    BY <2>1, <2>2
  <2> QED BY <2>3 DEF Units
<1>3. y \in Units(Conns, a)
  <2>1. y \in {c} \X (1..a[c])
    BY <1>0
  <2> QED BY <2>1 DEF Units
<1>4. y \notin U
  <2> SUFFICES ASSUME y \in U PROVE FALSE
    OBVIOUS
  <2>1. PICK d \in Conns : y \in {d} \X (1..b[d])
    BY DEF Units
  <2>2. a[c] \in 1..b[c]
    BY <2>1
  <2> QED BY <1>0, <2>2
<1>5. IsFiniteSet(U) /\ Cardinality(U) \in Nat
  BY UnitsFinite
<1> HIDE DEF U, y
<1>6. Units(Conns, a) = U \cup {y}
  BY <1>1, <1>2, <1>3
<1>7. Cardinality(U \cup {y}) = Cardinality(U) + 1
  BY <1>4, <1>5, FS_AddElement
<1> QED BY <1>6, <1>7 DEF U, y

----------------------------------------------------------------------------
(* The body budget.                                                        *)

Bodies == [c \in Conns |-> job[c].body]

LEMMA BodySet == BodyUnits = Units(Pending, Bodies) /\ BodyUnits' = Units(Pending', Bodies')
<1>1. Pending \subseteq Conns /\ Pending' \subseteq Conns
  BY DEF Pending, LeasesAt
<1>2. (\A c \in Pending : Bodies[c] = job[c].body) /\ (\A c \in Pending' : Bodies'[c] = job'[c].body)
  BY <1>1 DEF Bodies
<1>3. BodyUnits = UNION {{c} \X (1..job[c].body) : c \in Pending} /\ BodyUnits' = UNION {{c} \X (1..job'[c].body) : c \in Pending'}
  BY DEF BodyUnits, Pending
<1> QED BY <1>2, <1>3 DEF Units

LEMMA BodyTypes ==
  ASSUME TypeInv, TypeInv'
  PROVE  /\ Bodies \in [Conns -> Nat] /\ Bodies' \in [Conns -> Nat]
         /\ Pending \in SUBSET Conns /\ Pending' \in SUBSET Conns
         /\ \A c \in Conns : job[c].body \in Nat /\ Bodies[c] = job[c].body /\ Bodies'[c] = job'[c].body
         /\ admit.inflight_body_bytes \in Int /\ admit'.inflight_body_bytes \in Int
BY FieldTypes DEF TypeInv, Bodies, Pending, LeasesAt

\* Steps that neither admit nor settle.
LEMMA BodyFrame ==
  ASSUME TypeInv, TypeInv', BodyAccounted, admit'.inflight_body_bytes = admit.inflight_body_bytes,
         \A c \in Conns : /\ lease'[c].at \in {"none", "settled"} <=> lease[c].at \in {"none", "settled"}
                          /\ lease[c].at \notin {"none", "settled"} => job'[c].body = job[c].body
  PROVE  BodyAccounted'
<1>1. \A c \in Conns : lease[c].at \in Places /\ lease'[c].at \in Places
  BY FieldTypes DEF TypeInv
<1>2. Pending' = Pending
  BY <1>1 DEF Pending, LeasesAt
<1>3. \A c \in Pending : job'[c].body = job[c].body
  BY DEF Pending, LeasesAt
<1>4. BodyUnits' = BodyUnits
  <2>1. BodyUnits = UNION {{c} \X (1..job[c].body) : c \in Pending} /\ BodyUnits' = UNION {{c} \X (1..job'[c].body) : c \in Pending'}
    BY DEF BodyUnits, Pending
  <2> QED BY <1>2, <1>3, <2>1
<1> QED BY <1>4 DEF BodyAccounted

\* The budget is checked and taken under one lock.
LEMMA BodyEnqueue ==
  ASSUME TypeInv, TypeInv', BodyAccounted, LeaseFollowsClient, NEW c \in Conns, Enqueue(c)
  PROVE  BodyAccounted'
<1>1. /\ \A d \in Conns \ {c} : lease'[d] = lease[d]
      /\ lease'[c].at = "chan"
  BY EnqueueEffect
<1>2. lease[c].at = "none" /\ job' = job
  BY DEF LeaseFollowsClient, Enqueue
<1>3. admit'.inflight_body_bytes = admit.inflight_body_bytes + job[c].body
  <2>1. admit \in AdmitRec
    BY DEF TypeInv
  <2>2. admit' = [admit EXCEPT !.queued = admit.queued + 1,
                       !.inflight_body_bytes = admit.inflight_body_bytes + job[c].body]
    BY DEF Enqueue
  <2> QED BY <2>1, <2>2 DEF AdmitRec
<1>4. ~OverBytes(job[c].body)
  BY DEF Enqueue, enqueue
<1>5. Pending' = Pending \cup {c} /\ c \notin Pending
  BY <1>1, <1>2 DEF Pending, LeasesAt, Places
<1>6. Bodies' = Bodies
  BY <1>2 DEF Bodies
<1>7. Cardinality(Units(Pending \cup {c}, Bodies)) = Cardinality(Units(Pending, Bodies)) + Bodies[c]
  BY <1>5, BodyTypes, UnitsSplit
<1>8. Cardinality(BodyUnits') = Cardinality(BodyUnits) + job[c].body
  BY <1>5, <1>6, <1>7, BodySet, BodyTypes
<1>9. admit'.inflight_body_bytes = Cardinality(BodyUnits')
  BY <1>3, <1>8 DEF BodyAccounted
<1>10. MaxQueueBytes > 0 => admit'.inflight_body_bytes <= MaxQueueBytes
  BY <1>3, <1>4, BodyTypes, LimitsAssumption DEF OverBytes
<1> QED BY <1>9, <1>10 DEF BodyAccounted

\* A lease that is dropped gives its body back.
LEMMA BodySettle ==
  ASSUME TypeInv, TypeInv', BodyAccounted, NEW c \in Conns, Settle(c)
  PROVE  BodyAccounted'
<1>1. /\ \A d \in Conns \ {c} : lease'[d] = lease[d]
      /\ lease'[c].at = "settled" /\ LeaseDrop(c, lease'[c].outcome)
  BY SettleEffect
<1>2. lease[c].at = "done" /\ job' = job
  BY DEF Settle
<1>3. admit'.inflight_body_bytes = admit.inflight_body_bytes - job[c].body
  <2> DEFINE q == IF lease[c].queued /\ admit.queued > 0 THEN admit.queued - 1 ELSE admit.queued
             n == admit.inflight_body_bytes - job[c].body
  <2>1. admit \in AdmitRec
    BY DEF TypeInv
  <2>2. admit' = [admit EXCEPT !.queued = q, !.inflight_body_bytes = n]
    BY <1>1 DEF LeaseDrop
  <2> HIDE DEF q, n
  <2>3. admit'.inflight_body_bytes = n
    BY <2>1, <2>2 DEF AdmitRec
  <2> QED BY <2>3 DEF n
<1>4. Pending' \cup {c} = Pending /\ c \notin Pending'
  BY <1>1, <1>2 DEF Pending, LeasesAt, Places
<1>5. Bodies' = Bodies
  BY <1>2 DEF Bodies
<1> DEFINE S == Pending'
           b == Bodies
<1>6. S \in SUBSET Conns /\ b \in [Conns -> Nat] /\ c \in Conns \ S
  BY <1>4, BodyTypes
<1>7. Cardinality(Units(S \cup {c}, b)) = Cardinality(Units(S, b)) + b[c] /\ Cardinality(Units(S, b)) \in Nat
  <2> HIDE DEF S, b
  <2> QED BY <1>6, UnitsSplit, UnitsFinite
<1>8. Cardinality(BodyUnits) = Cardinality(BodyUnits') + job[c].body /\ Cardinality(BodyUnits') \in Nat
  BY <1>4, <1>5, <1>7, BodySet, BodyTypes
<1> DEFINE n == Cardinality(BodyUnits)
           m == Cardinality(BodyUnits')
           i == admit.inflight_body_bytes
           j == admit'.inflight_body_bytes
           k == job[c].body
<1>9. /\ n = m + k /\ m \in Nat /\ k \in Nat /\ i = n /\ j = i - k /\ (MaxQueueBytes > 0 => i <= MaxQueueBytes)
      /\ MaxQueueBytes \in Nat
  BY <1>3, <1>8, BodyTypes, LimitsAssumption DEF BodyAccounted
<1>10. j = m /\ (MaxQueueBytes > 0 => j <= MaxQueueBytes)
  <2> HIDE DEF n, m, i, j, k
  <2> QED BY <1>9
<1> QED BY <1>10 DEF BodyAccounted

\* Every step keeps the body budget exact.
LEMMA BodyStep ==
  ASSUME TypeInv, TypeInv', BodyAccounted, LeaseFollowsClient, LeaseFollowsOwner, [Next]_vars
  PROVE  BodyAccounted'
<1>0. admit \in AdmitRec /\ job \in [Conns -> JobRec]
  BY DEF TypeInv
<1>1. ASSUME admit' \in {admit, [admit EXCEPT !.clients = admit.clients - 1], [admit EXCEPT !.clients = admit.clients + 1],
                         [admit EXCEPT !.stopping = TRUE]}
      PROVE  admit'.inflight_body_bytes = admit.inflight_body_bytes
  BY <1>0, <1>1 DEF AdmitRec
<1>2. ASSUME NEW c \in Conns, Accept(c) PROVE BodyAccounted'
  <2>1. lease' = lease /\ job' = job
    BY <1>2 DEF Accept
  <2>2. admit' = admit \/ admit' = [admit EXCEPT !.clients = admit.clients + 1]
    BY <1>2 DEF Accept
  <2> QED BY <1>1, <2>1, <2>2, BodyFrame
<1>3. ASSUME NEW c \in Conns, ClientThread(c) PROVE BodyAccounted'
  <2>1. ASSUME admit' = admit \/ ClientOver(c), lease' = lease, job' = job PROVE BodyAccounted'
    <3>1. admit'.inflight_body_bytes = admit.inflight_body_bytes
      BY <1>1, <2>1 DEF ClientOver
    <3> QED BY <2>1, <3>1, BodyFrame
  <2>2. CASE \/ ReadAnswered(c) \/ (\E n \in BodySizes : ReadShed(c, n)) \/ EnqueueRefused(c)
             \/ DrainLook(c) \/ DrainIdle(c) \/ DrainTake(c) \/ DrainSend(c)
    BY <2>1, <2>2 DEF ReadAnswered, ReadShed, EnqueueRefused, DrainLook, DrainIdle, DrainTake, DrainSend
  <2>3. ASSUME lease' = lease, admit'.inflight_body_bytes = admit.inflight_body_bytes,
               lease[c].at \in {"none", "settled"}, NEW j, job' = [job EXCEPT ![c] = j]
        PROVE  BodyAccounted'
    <3>1. \A d \in Conns : d # c => job'[d] = job[d]
      BY <1>0, <2>3
    <3> QED BY <2>3, <3>1, BodyFrame
  <2>4. ASSUME NEW n \in BodySizes, NEW kind \in Requests, NEW f \in Conns \cup {None}, ReadJob(c, n, kind, f)
        PROVE  BodyAccounted'
    <3>1. lease[c].at = "none" /\ lease' = lease /\ admit' = admit
      BY <2>4 DEF ReadJob, LeaseFollowsClient
    <3>2. job' = [job EXCEPT ![c] = [body |-> n, kind |-> kind, follow |-> f]]
      BY <2>4 DEF ReadJob
    <3> QED BY <2>3, <3>1, <3>2
  <2>5. CASE DrainClose(c)
    <3>1. lease[c].at = "settled" /\ lease' = lease
      BY <2>5 DEF DrainClose, LeaseFollowsClient
    <3>2. admit'.inflight_body_bytes = admit.inflight_body_bytes
      BY <1>1, <2>5 DEF DrainClose, ClientOver
    <3>3. job' = [job EXCEPT ![c] = NoJob]
      BY <2>5 DEF DrainClose
    <3> QED BY <2>3, <3>1, <3>2, <3>3
  <2>6. CASE Enqueue(c)
    BY <2>6, BodyEnqueue
  <2>7. CASE Settle(c)
    BY <2>7, BodySettle
  <2> QED BY <1>3, <2>2, <2>4, <2>5, <2>6, <2>7 DEF ClientThread
<1>4. CASE OwnerRecv
  <2>1. /\ chan[1] \in Conns /\ lease[chan[1]].at = "chan" /\ lease'[chan[1]].at = "owner"
        /\ \A d \in Conns \ {chan[1]} : lease'[d] = lease[d]
    <3>1. 1 \in 1..Len(chan)
      BY <1>4 DEF OwnerRecv, TypeInv
    <3> QED BY <1>4, <3>1, OwnerRecvEffect DEF LeaseFollowsOwner
  <2>2. admit'.inflight_body_bytes = admit.inflight_body_bytes /\ job' = job
    <3> DEFINE q == IF admit.queued > 0 THEN admit.queued - 1 ELSE admit.queued
    <3>1. admit' = [admit EXCEPT !.queued = q] /\ job' = job
      BY <1>4 DEF OwnerRecv
    <3> HIDE DEF q
    <3> QED BY <1>0, <3>1 DEF AdmitRec
  <2>3. \A d \in Conns : lease'[d].at \in {"none", "settled"} <=> lease[d].at \in {"none", "settled"}
    BY <2>1
  <2> QED BY <2>2, <2>3, BodyFrame
<1>5. CASE RunJob
  <2>1. job' = job
    BY <1>5 DEF RunJob, OwnerSkipGone, OwnerShedAge, OwnerBegin, OwnerHold, OwnerRefuse, OwnerResize, OwnerGenerate,
       OwnerChunk, OwnerFlushGone, OwnerError, OwnerPlainEnd, OwnerToolFull, OwnerToolGone, OwnerToolCommit, OwnerFinish
  <2>2. CASE OwnerFinish
    <3>1. /\ owner.cur \in Conns /\ lease[owner.cur].at = "owner"
          /\ \A d \in Conns \ {owner.cur} : lease'[d] = lease[d]
          /\ lease'[owner.cur].at = "done" /\ admit' = admit
      BY <2>2, OwnerFinishEffect DEF LeaseFollowsOwner, OwnerFinish
    <3>2. \A d \in Conns : lease'[d].at \in {"none", "settled"} <=> lease[d].at \in {"none", "settled"}
      BY <3>1
    <3> QED BY <2>1, <3>1, <3>2, BodyFrame
  <2>3. CASE OwnerWork(owner.cur)
    <3>1. admit' = admit /\ \A d \in Conns : lease'[d].at = lease[d].at
      BY <2>3 DEF OwnerWork, LeaseEffect
    <3> QED BY <2>1, <3>1, BodyFrame
  <2> QED BY <1>5, <2>2, <2>3, RunJobEffect
<1>6. CASE \/ \E c \in Conns : PeerLeaves(c)
           \/ OwnerShutdown \/ AcceptStop \/ AcceptExit \/ TurnAges \/ UNCHANGED vars
  <2>1. admit' = admit \/ admit' = [admit EXCEPT !.stopping = TRUE]
    BY <1>6 DEF PeerLeaves, OwnerShutdown, AcceptStop, AcceptExit, TurnAges, vars
  <2>2. lease' = lease /\ job' = job
    BY <1>6 DEF PeerLeaves, OwnerShutdown, AcceptStop, AcceptExit, TurnAges, vars
  <2> QED BY <1>1, <2>1, <2>2, BodyFrame
<1> QED BY <1>2, <1>3, <1>4, <1>5, <1>6 DEF Next, OwnerThread

\* The body budget in use is the sum of the bodies of the live leases, for
\* any bodies, and never exceeds its limit: what the check at the enqueue
\* (admit.rs) takes, the lease gives back once.
THEOREM BodyExact == Spec => []BodyAccounted
<1>1. Init => BodyAccounted
  <2> SUFFICES ASSUME Init PROVE BodyAccounted
    OBVIOUS
  <2>1. Pending = {}
    BY DEF Init, Pending, LeasesAt, NoLease
  <2>2. BodyUnits = {}
    BY <2>1 DEF BodyUnits, Pending
  <2>3. Cardinality(BodyUnits) = 0
    BY <2>2, FS_EmptySet
  <2> QED BY <2>3, LimitsAssumption DEF Init, BodyAccounted
<1>2. JobsInv /\ JobsInv' /\ BodyAccounted /\ [Next]_vars => BodyAccounted'
  BY BodyStep DEF JobsInv
<1> QED BY <1>1, <1>2, JobsInvariant, PTL DEF Spec

----------------------------------------------------------------------------
(* The aggregate backlog.                                                  *)

Buffered == [c \in Conns |-> sink[c].bytes]

\* The units a sink may hold without being the one to evict.
Small == Conns \X (1..Slack)

\* The backlog counts what the sinks hold, and what lies beyond the size
\* below which no sink is evicted is within the cap.
Charged ==
  /\ runtime.out_backlog = Cardinality(OutUnits)
  /\ AggCap > 0 => Cardinality(OutUnits \ Small) <= AggCap

\* Nothing is buffered before a job is queued or after its thread ends.
IdleEmpty == \A c \in Conns : cpc[c] \in {"new", "read", "enqueue", "over"} => sink[c].bytes = 0

BacklogInv == Charged /\ IdleEmpty

\* What a step may do to sink c: leave what it holds, give it all back, or
\* buffer one more unit when that is within the cap or below the size.
SinkMove(c) ==
  /\ \A d \in Conns \ {c} : sink'[d].bytes = sink[d].bytes
  /\ \/ sink'[c].bytes = sink[c].bytes /\ runtime'.out_backlog = runtime.out_backlog
     \/ /\ sink'[c].bytes = 0
        /\ runtime'.out_backlog = runtime.out_backlog - sink[c].bytes
     \/ /\ sink'[c].bytes = sink[c].bytes + 1
        /\ runtime'.out_backlog = runtime.out_backlog + 1
        /\ AggCap > 0 => runtime.out_backlog + 1 <= AggCap \/ sink[c].bytes + 1 < EvictMin

LEMMA OutSet == OutUnits = Units(Conns, Buffered) /\ OutUnits' = Units(Conns, Buffered')
<1>1. (\A c \in Conns : Buffered[c] = sink[c].bytes) /\ (\A c \in Conns : Buffered'[c] = sink'[c].bytes)
  BY DEF Buffered
<1>2. OutUnits = UNION {{c} \X (1..sink[c].bytes) : c \in Conns} /\ OutUnits' = UNION {{c} \X (1..sink'[c].bytes) : c \in Conns}
  BY DEF OutUnits
<1> QED BY <1>1, <1>2 DEF Units

LEMMA OutTypes ==
  ASSUME TypeInv, TypeInv'
  PROVE  /\ Buffered \in [Conns -> Nat] /\ Buffered' \in [Conns -> Nat]
         /\ \A c \in Conns : /\ sink[c].bytes \in Nat /\ sink'[c].bytes \in Nat
                             /\ Buffered[c] = sink[c].bytes /\ Buffered'[c] = sink'[c].bytes
         /\ runtime.out_backlog \in Int /\ runtime'.out_backlog \in Int
         /\ IsFiniteSet(OutUnits) /\ IsFiniteSet(OutUnits')
<1>1. /\ Buffered \in [Conns -> Nat] /\ Buffered' \in [Conns -> Nat]
      /\ \A c \in Conns : /\ sink[c].bytes \in Nat /\ sink'[c].bytes \in Nat
                          /\ Buffered[c] = sink[c].bytes /\ Buffered'[c] = sink'[c].bytes
      /\ runtime.out_backlog \in Int /\ runtime'.out_backlog \in Int
  BY FieldTypes DEF TypeInv, Buffered
<1> DEFINE a == Buffered
           b == Buffered'
<1>2. IsFiniteSet(Units(Conns, a)) /\ IsFiniteSet(Units(Conns, b))
  <2>1. a \in [Conns -> Nat] /\ b \in [Conns -> Nat]
    BY <1>1
  <2> HIDE DEF a, b
  <2> QED BY <2>1, UnitsFinite
<1> QED BY <1>1, <1>2, OutSet

LEMMA Beyond ==
  ASSUME NEW U, NEW V, NEW S, IsFiniteSet(U), V \subseteq U
  PROVE  /\ Cardinality(V \ S) \in Nat /\ Cardinality(U \ S) \in Nat /\ Cardinality(U) \in Nat
         /\ Cardinality(V \ S) <= Cardinality(U \ S)
         /\ Cardinality(U \ S) <= Cardinality(U)
<1>1. IsFiniteSet(U \ S) /\ Cardinality(U \ S) <= Cardinality(U)
  BY FS_Subset
<1>2. IsFiniteSet(V \ S) /\ Cardinality(V \ S) <= Cardinality(U \ S)
  <2>1. V \ S \subseteq U \ S
    OBVIOUS
  <2> QED BY <1>1, <2>1, FS_Subset
<1> QED BY <1>1, <1>2, FS_CardinalityType

LEMMA ChargedFrame ==
  ASSUME Charged, runtime'.out_backlog = runtime.out_backlog,
         \A c \in Conns : sink'[c].bytes = sink[c].bytes
  PROVE  Charged'
<1>1. Buffered' = Buffered
  BY DEF Buffered
<1>2. OutUnits' = OutUnits
  BY <1>1, OutSet
<1> QED BY <1>2 DEF Charged, Small, Slack

\* The backlog follows the sink that moves.
LEMMA ChargedStep ==
  ASSUME TypeInv, TypeInv', Charged, NEW c \in Conns, SinkMove(c)
  PROVE  Charged'
<1> DEFINE a == Buffered'
           b == Buffered
           U == OutUnits
           W == OutUnits'
<1>0. /\ a \in [Conns -> Nat] /\ b \in [Conns -> Nat] /\ \A d \in Conns \ {c} : a[d] = b[d]
      /\ U = Units(Conns, b) /\ W = Units(Conns, a) /\ IsFiniteSet(U) /\ IsFiniteSet(W)
      /\ a[c] = sink'[c].bytes /\ b[c] = sink[c].bytes /\ a[c] \in Nat /\ b[c] \in Nat
  BY OutTypes, OutSet DEF SinkMove
<1>1. CASE sink'[c].bytes = sink[c].bytes /\ runtime'.out_backlog = runtime.out_backlog
  BY <1>1, ChargedFrame DEF SinkMove
<1>2. CASE sink'[c].bytes = 0 /\ runtime'.out_backlog = runtime.out_backlog - sink[c].bytes
  <2>1. a[c] = 0
    BY <1>0, <1>2
  <2>2. W \subseteq U /\ Cardinality(W) = Cardinality(U) - b[c]
    <3> HIDE DEF a, b, U, W
    <3> QED BY <1>0, <2>1, UnitsEmptied
  <2>3. runtime'.out_backlog = Cardinality(W)
    BY <1>0, <1>2, <2>2 DEF Charged
  <2> DEFINE m == Cardinality(W \ Small)
             n == Cardinality(U \ Small)
  <2>4. m \in Nat /\ n \in Nat /\ m <= n /\ (AggCap > 0 => n <= AggCap) /\ AggCap \in Nat
    BY <1>0, <2>2, Beyond, LimitsAssumption DEF Charged
  <2>5. AggCap > 0 => m <= AggCap
    <3> HIDE DEF m, n
    <3> QED BY <2>4
  <2> QED BY <2>3, <2>5 DEF Charged, Small, Slack
<1>3. CASE /\ sink'[c].bytes = sink[c].bytes + 1
           /\ runtime'.out_backlog = runtime.out_backlog + 1
           /\ AggCap > 0 => runtime.out_backlog + 1 <= AggCap \/ sink[c].bytes + 1 < EvictMin
  <2>1. a[c] = b[c] + 1
    BY <1>0, <1>3
  <2>2. W = U \cup {<<c, a[c]>>} /\ Cardinality(W) = Cardinality(U) + 1
    <3> HIDE DEF a, b, U, W
    <3> QED BY <1>0, <2>1, UnitsGrown
  <2>3. runtime'.out_backlog = Cardinality(W)
    BY <1>0, <1>3, <2>2 DEF Charged
  <2>4. ASSUME AggCap > 0 PROVE Cardinality(W \ Small) <= AggCap
    <3>1. CASE runtime.out_backlog + 1 <= AggCap
      <4> DEFINE m == Cardinality(W \ Small)
                 n == Cardinality(W)
      <4>1. m \in Nat /\ n \in Nat /\ m <= n
        BY <1>0, Beyond
      <4>2. n <= AggCap /\ AggCap \in Nat
        BY <1>3, <2>3, <3>1, LimitsAssumption
      <4>3. m <= AggCap
        <5> HIDE DEF m, n
        <5> QED BY <4>1, <4>2
      <4> QED BY <4>3
    <3>2. CASE sink[c].bytes + 1 < EvictMin
      <4>1. a[c] \in 1..Slack
        BY <1>0, <2>1, <3>2, LimitsAssumption DEF Slack
      <4>2. <<c, a[c]>> \in Small
        BY <4>1 DEF Small
      <4>3. W \ Small = U \ Small
        <5> HIDE DEF a, U, W
        <5> QED BY <2>2, <4>2
      <4> QED BY <2>4, <4>3 DEF Charged
    <3> QED BY <1>3, <2>4, <3>1, <3>2
  <2> QED BY <2>3, <2>4 DEF Charged, Small, Slack
<1> QED BY <1>1, <1>2, <1>3 DEF SinkMove

\* What a record update of the backlog does to the backlog.
LEMMA BacklogSet ==
  ASSUME TypeInv, NEW n, runtime' = [runtime EXCEPT !.out_backlog = n]
  PROVE  runtime'.out_backlog = n
BY DEF TypeInv, RuntimeRec

\* A sink given up, or taken from, gives all its units back.
LEMMA EmptiedMove ==
  ASSUME TypeInv, NEW c \in Conns, NEW s, sink' = [sink EXCEPT ![c] = s], s.bytes = 0,
         runtime' = [runtime EXCEPT !.out_backlog = runtime.out_backlog - sink[c].bytes]
  PROVE  SinkMove(c)
<1>1. runtime'.out_backlog = runtime.out_backlog - sink[c].bytes
  BY BacklogSet
<1>2. sink'[c] = s /\ \A d \in Conns \ {c} : sink'[d] = sink[d]
  BY DEF TypeInv
<1> QED BY <1>1, <1>2 DEF SinkMove

LEMMA EmptySinks ==
  ASSUME TypeInv, NEW c \in Conns
  PROVE  Cancelled(sink[c]).bytes = 0 /\ Evicted(sink[c]).bytes = 0
         /\ [Evicted(sink[c]) EXCEPT !.started = TRUE].bytes = 0
<1>1. sink[c] \in SinkRec
  BY DEF TypeInv
<1> QED BY <1>1 DEF SinkRec, Cancelled, Evicted

LEMMA CancelMove ==
  ASSUME TypeInv, NEW c \in Conns, NEW n, cancel(c, n)
  PROVE  SinkMove(c)
<1>1. /\ sink' = [sink EXCEPT ![c] = Cancelled(sink[c])]
      /\ runtime' = [runtime EXCEPT !.out_backlog = runtime.out_backlog - sink[c].bytes]
  BY DEF cancel
<1> DEFINE s == Cancelled(sink[c])
<1>2. s.bytes = 0
  BY EmptySinks
<1> HIDE DEF s
<1> QED BY <1>1, <1>2, EmptiedMove DEF s

\* One more unit, where the code has checked that it fits.
LEMMA GrownMove ==
  ASSUME TypeInv, NEW c \in Conns,
         sink' = [sink EXCEPT ![c] = [sink[c] EXCEPT !.bytes = sink[c].bytes + 1, !.started = TRUE]],
         runtime' = [runtime EXCEPT !.out_backlog = runtime.out_backlog + 1],
         AggCap > 0 => runtime.out_backlog + 1 <= AggCap \/ sink[c].bytes + 1 < EvictMin
  PROVE  SinkMove(c)
<1>1. runtime'.out_backlog = runtime.out_backlog + 1
  BY BacklogSet
<1>2. sink[c] \in SinkRec /\ \A d \in Conns \ {c} : sink'[d] = sink[d]
  BY DEF TypeInv
<1>3. sink'[c] = [sink[c] EXCEPT !.bytes = sink[c].bytes + 1, !.started = TRUE]
  BY DEF TypeInv
<1>4. sink'[c].bytes = sink[c].bytes + 1
  BY <1>2, <1>3 DEF SinkRec
<1> QED BY <1>1, <1>2, <1>4 DEF SinkMove

LEMMA SameMove ==
  ASSUME NEW c \in Conns, UNCHANGED <<sink, runtime>>
  PROVE  SinkMove(c)
BY DEF SinkMove

\* A write buffers a unit only when it does not overflow.
LEMMA WriteMove ==
  ASSUME TypeInv, NEW c \in Conns, NEW ok \in BOOLEAN, Write(c, ok)
  PROVE  SinkMove(c)
<1>1. CASE Refused(c)
  <2>1. UNCHANGED <<sink, runtime>>
    BY <1>1, Zenon DEF Write
  <2> QED BY <2>1, SameMove
<1>2. CASE ~Refused(c) /\ Overflows(c)
  <2> DEFINE s == [Evicted(sink[c]) EXCEPT !.started = TRUE]
  <2>1. /\ sink' = [sink EXCEPT ![c] = s]
        /\ runtime' = [runtime EXCEPT !.out_backlog = runtime.out_backlog - sink[c].bytes]
    BY <1>2, Zenon DEF Write
  <2>2. s.bytes = 0
    BY EmptySinks
  <2> HIDE DEF s
  <2> QED BY <2>1, <2>2, EmptiedMove
<1>3. CASE ~Refused(c) /\ ~Overflows(c)
  <2>1. /\ sink' = [sink EXCEPT ![c].bytes = @ + 1, ![c].started = TRUE]
        /\ runtime' = [runtime EXCEPT !.out_backlog = runtime.out_backlog + 1]
    BY <1>3, Zenon DEF Write
  <2>2. sink' = [sink EXCEPT ![c] = [sink[c] EXCEPT !.bytes = sink[c].bytes + 1, !.started = TRUE]]
    BY <2>1 DEF TypeInv
  <2>3. AggCap > 0 => runtime.out_backlog + 1 <= AggCap \/ sink[c].bytes + 1 < EvictMin
    <3>1. runtime.out_backlog \in Int /\ sink[c].bytes \in Nat
      BY FieldTypes DEF TypeInv
    <3> QED BY <1>3, <3>1, LimitsAssumption DEF Overflows
  <2> QED BY <2>1, <2>2, <2>3, GrownMove
<1> QED BY <1>1, <1>2, <1>3

\* Every step of the owner moves the sink of its job.
LEMMA RunJobMove ==
  ASSUME TypeInv, RunJob
  PROVE  owner.cur \in Conns /\ SinkMove(owner.cur)
<1> DEFINE c == owner.cur
<1>0. c \in Conns
  BY DEF RunJob, TypeInv, OwnerSkipGone, OwnerShedAge, OwnerBegin, OwnerHold, OwnerRefuse, OwnerResize, OwnerGenerate,
     OwnerChunk, OwnerFlushGone, OwnerError, OwnerPlainEnd, OwnerToolFull, OwnerToolGone, OwnerToolCommit, OwnerFinish
<1>1. CASE \/ OwnerShedAge \/ OwnerHold \/ OwnerRefuse \/ OwnerChunk \/ OwnerError
           \/ \E failed \in BOOLEAN : OwnerPlainEnd(failed)
  <2>1. \E ok \in BOOLEAN : Write(c, ok)
    BY <1>1 DEF OwnerShedAge, OwnerHold, OwnerRefuse, OwnerChunk, OwnerError, OwnerPlainEnd, Cur
  <2> QED BY <1>0, <2>1, WriteMove
<1>2. CASE OwnerBegin \/ OwnerResize \/ OwnerGenerate
  BY <1>0, <1>2, SameMove DEF OwnerBegin, OwnerResize, OwnerGenerate
<1>3. CASE OwnerSkipGone \/ OwnerFlushGone
  BY <1>0, <1>3, SameMove, CancelMove DEF OwnerSkipGone, OwnerFlushGone, Cur
<1>4. CASE OwnerToolFull \/ OwnerToolGone
  <2>1. /\ \/ sink' = [sink EXCEPT ![c] = Evicted(sink[c])]
           \/ sink' = [sink EXCEPT ![c] = Cancelled(sink[c])]
        /\ runtime' = [runtime EXCEPT !.out_backlog = runtime.out_backlog - sink[c].bytes]
    BY <1>4 DEF OwnerToolFull, OwnerToolGone, Cur
  <2> DEFINE s == Evicted(sink[c])
             t == Cancelled(sink[c])
  <2>2. s.bytes = 0 /\ t.bytes = 0
    BY <1>0, EmptySinks
  <2> HIDE DEF s, t
  <2>3. CASE sink' = [sink EXCEPT ![c] = s]
    BY <1>0, <2>1, <2>2, <2>3, EmptiedMove
  <2>4. CASE sink' = [sink EXCEPT ![c] = t]
    BY <1>0, <2>1, <2>2, <2>4, EmptiedMove
  <2> QED BY <2>1, <2>3, <2>4 DEF s, t
<1>5. CASE OwnerToolCommit
  <2>1. /\ sink' = [sink EXCEPT ![c].bytes = @ + 1, ![c].started = TRUE]
        /\ runtime' = [runtime EXCEPT !.out_backlog = runtime.out_backlog + 1]
        /\ ~TerminalFull(c)
    BY <1>5 DEF OwnerToolCommit, Cur
  <2>2. sink' = [sink EXCEPT ![c] = [sink[c] EXCEPT !.bytes = sink[c].bytes + 1, !.started = TRUE]]
    BY <1>0, <2>1 DEF TypeInv
  <2>3. AggCap > 0 => runtime.out_backlog + 1 <= AggCap
    <3>1. runtime.out_backlog \in Int
      BY FieldTypes DEF TypeInv
    <3> QED BY <2>1, <3>1, LimitsAssumption DEF TerminalFull
  <2> QED BY <1>0, <2>1, <2>2, <2>3, GrownMove
<1>6. CASE OwnerFinish
  BY <1>0, <1>6, OwnerFinishEffect DEF SinkMove, OwnerFinish
<1> QED BY <1>0, <1>1, <1>2, <1>3, <1>4, <1>5, <1>6 DEF RunJob

\* Every step keeps the backlog exact.
LEMMA BacklogStep ==
  ASSUME TypeInv, TypeInv', LeaseFollowsClient, LeaseFollowsOwner, BacklogInv, [Next]_vars
  PROVE  BacklogInv'
<1>0. /\ cpc \in [Conns -> ClientPCs] /\ sink \in [Conns -> SinkRec] /\ Charged /\ IdleEmpty
      /\ runtime \in RuntimeRec
  BY DEF TypeInv, BacklogInv
\* Client threads that leave the sinks alone.
<1>1. ASSUME UNCHANGED sink, runtime'.out_backlog = runtime.out_backlog, NEW c \in Conns, NEW to,
             cpc' = [cpc EXCEPT ![c] = to],
             to \in {"read", "enqueue", "over"} => cpc[c] \in {"new", "read", "enqueue"}, to # "new"
      PROVE  BacklogInv'
  <2>1. Charged'
    BY <1>0, <1>1, ChargedFrame
  <2>2. IdleEmpty'
    BY <1>0, <1>1 DEF IdleEmpty
  <2> QED BY <2>1, <2>2 DEF BacklogInv
\* Steps that move one sink, of a job under way or to be emptied.
<1>2. ASSUME NEW c \in Conns, SinkMove(c), \A d \in Conns \ {c} : cpc'[d] = cpc[d],
             cpc'[c] \in {"new", "read", "enqueue", "over"} => sink'[c].bytes = 0
      PROVE  BacklogInv'
  <2>1. Charged'
    BY <1>0, <1>2, ChargedStep
  <2>2. IdleEmpty'
    BY <1>0, <1>2 DEF IdleEmpty, SinkMove
  <2> QED BY <2>1, <2>2 DEF BacklogInv
<1>3. ASSUME UNCHANGED <<sink, cpc>>, runtime'.out_backlog = runtime.out_backlog PROVE BacklogInv'
  <2>1. Charged'
    BY <1>0, <1>3, ChargedFrame
  <2>2. IdleEmpty'
    BY <1>0, <1>3 DEF IdleEmpty
  <2> QED BY <2>1, <2>2 DEF BacklogInv
<1>4. ASSUME NEW c \in Conns, Accept(c) PROVE BacklogInv'
  BY <1>1, <1>4 DEF Accept
<1>5. ASSUME NEW c \in Conns, ClientThread(c) PROVE BacklogInv'
  <2>1. CASE ReadAnswered(c) \/ (\E n \in BodySizes : ReadShed(c, n)) \/ EnqueueRefused(c)
    BY <1>1, <2>1 DEF ReadAnswered, ReadShed, EnqueueRefused, ClientOver
  <2>2. CASE \E n \in BodySizes, kind \in Requests, f \in Conns \cup {None} : ReadJob(c, n, kind, f)
    BY <1>1, <2>2 DEF ReadJob
  <2>3. CASE Enqueue(c)
    <3>1. runtime' = [runtime EXCEPT !.started = runtime.started + 1, !.inflight = runtime.inflight + 1]
          /\ sink' = sink /\ cpc' = [cpc EXCEPT ![c] = "drain"]
      BY <2>3 DEF Enqueue
    <3>2. runtime'.out_backlog = runtime.out_backlog
      BY <1>0, <3>1 DEF RuntimeRec
    <3> QED BY <1>1, <3>1, <3>2
  <2>4. CASE DrainLook(c)
    <3>1. \E to \in {"take", "await", "idle", "beat"} : cpc' = [cpc EXCEPT ![c] = to]
      BY <2>4 DEF DrainLook
    <3> QED BY <1>1, <2>4, <3>1 DEF DrainLook
  <2>5. CASE DrainIdle(c) \/ DrainTake(c) \/ DrainSend(c)
    <3>1. \E to \in {"await", "drain", "send"} : cpc' = [cpc EXCEPT ![c] = to]
      BY <2>5 DEF DrainIdle, DrainTake, DrainSend
    <3>2. cpc'[c] \notin {"new", "read", "enqueue", "over"} /\ \A d \in Conns \ {c} : cpc'[d] = cpc[d]
      BY <1>0, <3>1
    <3>3. SinkMove(c)
      <4>1. CASE DrainTake(c)
        <5>1. /\ sink' = [sink EXCEPT ![c].bytes = 0]
              /\ runtime' = [runtime EXCEPT !.out_backlog = runtime.out_backlog - sink[c].bytes]
          BY <4>1 DEF DrainTake
        <5> DEFINE s == [sink[c] EXCEPT !.bytes = 0]
        <5>2. sink' = [sink EXCEPT ![c] = s] /\ s.bytes = 0
          BY <1>0, <5>1 DEF SinkRec
        <5> HIDE DEF s
        <5> QED BY <5>1, <5>2, EmptiedMove
      <4>2. CASE \E n \in {0, sending[c]} : cancel(c, n)
        BY <4>2, CancelMove
      <4> QED BY <2>5, <4>1, <4>2, SameMove DEF DrainIdle, DrainSend
    <3> QED BY <1>2, <3>2, <3>3
  <2>6. CASE Settle(c)
    <3>1. sink' = sink /\ cpc' = [cpc EXCEPT ![c] = "close"]
      BY <2>6 DEF Settle
    <3>2. runtime'.out_backlog = runtime.out_backlog
      <4>1. LeaseDrop(c, lease'[c].outcome)
        BY <2>6, SettleEffect
      <4> DEFINE o == lease'[c].outcome
                 x == runtime.completed + (IF o = "completed" THEN 1 ELSE 0)
                 y == runtime.failed + (IF o = "failed" THEN 1 ELSE 0)
                 z == runtime.canceled + (IF o = "canceled" THEN 1 ELSE 0)
      <4>2. runtime' = [runtime EXCEPT !.inflight = runtime.inflight - 1, !.completed = x, !.failed = y, !.canceled = z]
        BY <4>1 DEF LeaseDrop
      <4> HIDE DEF x, y, z
      <4> QED BY <1>0, <4>2 DEF RuntimeRec
    <3> QED BY <1>1, <3>1, <3>2
  <2>7. CASE DrainClose(c)
    <3> DEFINE s == [NewSink EXCEPT !.gone = TRUE, !.closed = TRUE]
    <3>1. /\ sink' = [sink EXCEPT ![c] = s]
          /\ runtime' = [runtime EXCEPT !.out_backlog = runtime.out_backlog - sink[c].bytes]
          /\ cpc' = [cpc EXCEPT ![c] = "over"]
      BY <2>7 DEF DrainClose, ClientOver
    <3>2. s.bytes = 0
      BY DEF NewSink
    <3> HIDE DEF s
    <3>3. SinkMove(c)
      BY <3>1, <3>2, EmptiedMove
    <3>4. sink'[c].bytes = 0 /\ \A d \in Conns \ {c} : cpc'[d] = cpc[d]
      BY <1>0, <3>1, <3>2
    <3> QED BY <1>2, <3>3, <3>4
  <2> QED BY <1>5, <2>1, <2>2, <2>3, <2>4, <2>5, <2>6, <2>7 DEF ClientThread
<1>6. CASE RunJob
  <2>1. owner.cur \in Conns /\ SinkMove(owner.cur)
    BY <1>6, RunJobMove
  <2>2. owner.pc \in {"begin", "serial", "generate", "finish"} /\ cpc' = cpc
    BY <1>6 DEF RunJob, OwnerSkipGone, OwnerShedAge, OwnerBegin, OwnerHold, OwnerRefuse, OwnerResize, OwnerGenerate,
       OwnerChunk, OwnerFlushGone, OwnerError, OwnerPlainEnd, OwnerToolFull, OwnerToolGone, OwnerToolCommit, OwnerFinish
  <2>3. lease[owner.cur].at = "owner"
    BY <2>2 DEF LeaseFollowsOwner
  <2>4. cpc[owner.cur] \notin {"new", "read", "enqueue", "over"}
    BY <2>1, <2>3 DEF LeaseFollowsClient
  <2> QED BY <1>2, <2>1, <2>2, <2>4
<1>7. CASE \/ \E c \in Conns : PeerLeaves(c)
           \/ OwnerRecv \/ OwnerShutdown \/ AcceptStop \/ AcceptExit \/ TurnAges \/ UNCHANGED vars
  BY <1>3, <1>7 DEF PeerLeaves, OwnerRecv, OwnerShutdown, AcceptStop, AcceptExit, TurnAges, vars
<1> QED BY <1>4, <1>5, <1>6, <1>7 DEF Next, OwnerThread

\* The aggregate cap bounds what the sinks hold together: beyond it there is
\* at most what each connection may hold without being evicted.
LEMMA BacklogBound ==
  ASSUME TypeInv, Charged, AggCap > 0
  PROVE  runtime.out_backlog <= AggCap + Cardinality(Conns) * Slack
<1> DEFINE b == Buffered
           U == OutUnits
           V == U \ Small
           W == U \cap Small
<1>1. U = Units(Conns, b) /\ b \in [Conns -> Nat]
  BY OutSet, FieldTypes DEF TypeInv, Buffered
<1>2. IsFiniteSet(U)
  <2> HIDE DEF b, U
  <2> QED BY <1>1, UnitsFinite
<1>3. Slack \in Nat
  BY LimitsAssumption DEF Slack
<1>4. IsFiniteSet(Small) /\ Cardinality(Small) = Cardinality(Conns) * Slack
  <2> DEFINE T == 1..Slack
  <2>1. IsFiniteSet(T) /\ Cardinality(T) = Slack
    BY <1>3, FS_Interval
  <2>2. IsFiniteSet(Conns)
    BY ConnsAssumption
  <2>3. IsFiniteSet(Conns \X T) /\ Cardinality(Conns \X T) = Cardinality(Conns) * Cardinality(T)
    <3> HIDE DEF T
    <3> QED BY <2>1, <2>2, FS_Product
  <2> QED BY <2>1, <2>3 DEF Small
<1>5. IsFiniteSet(V) /\ IsFiniteSet(W) /\ Cardinality(W) <= Cardinality(Small)
  <2>1. IsFiniteSet(V)
    BY <1>2, FS_Subset
  <2>2. W \subseteq Small
    OBVIOUS
  <2> HIDE DEF V, W
  <2> QED BY <1>4, <2>1, <2>2, FS_Subset
<1>6. Cardinality(U) = Cardinality(V) + Cardinality(W) - Cardinality(V \cap W)
  <2>1. U = V \cup W
    OBVIOUS
  <2> HIDE DEF U, V, W
  <2> QED BY <1>5, <2>1, FS_Union
<1>7. Cardinality(V \cap W) = 0
  <2>1. V \cap W = {}
    OBVIOUS
  <2> QED BY <2>1, FS_EmptySet
<1> DEFINE n == Cardinality(U)
           v == Cardinality(V)
           w == Cardinality(W)
           s == Cardinality(Small)
<1>8. v \in Nat /\ w \in Nat /\ s \in Nat /\ n = v + w - 0 /\ w <= s /\ v <= AggCap /\ AggCap \in Nat
  BY <1>4, <1>5, <1>6, <1>7, FS_CardinalityType, LimitsAssumption DEF Charged
<1>9. n <= AggCap + s
  <2> HIDE DEF n, v, w, s
  <2> QED BY <1>8
<1> QED BY <1>4, <1>9 DEF Charged

\* The aggregate backlog is the sum of what the sinks hold, whatever the
\* writers, the drains and the evictions do in whatever order; it passes the
\* cap by no more than what each connection may hold below the eviction
\* size; and a server that has halted holds none (serve.rs JobSink, take,
\* cancel and commit_tool_terminal).
THEOREM BacklogExact == Spec => []BacklogAccounted
<1>1. Init => BacklogInv
  <2> SUFFICES ASSUME Init PROVE BacklogInv
    OBVIOUS
  <2>1. \A c \in Conns : sink[c].bytes = 0
    BY DEF Init, NewSink
  <2>2. OutUnits = {}
    BY <2>1 DEF OutUnits
  <2>3. Cardinality(OutUnits) = 0 /\ Cardinality(OutUnits \ Small) = 0
    BY <2>2, FS_EmptySet
  <2> QED BY <2>1, <2>3, LimitsAssumption DEF Init, BacklogInv, Charged, IdleEmpty
<1>2. JobsInv /\ JobsInv' /\ BacklogInv /\ [Next]_vars => BacklogInv'
  BY BacklogStep DEF JobsInv
<1>3. JobsInv /\ BacklogInv => BacklogAccounted
  <2> SUFFICES ASSUME JobsInv, BacklogInv PROVE BacklogAccounted
    OBVIOUS
  <2>1. owner.pc = "halted" => Cardinality(OutUnits) = 0
    <3> SUFFICES ASSUME owner.pc = "halted" PROVE Cardinality(OutUnits) = 0
      OBVIOUS
    <3>1. \A c \in Conns : cpc[c] \in {"new", "over"}
      BY DEF JobsInv, LeaseFollowsOwner, Disconnected
    <3>2. \A c \in Conns : sink[c].bytes = 0
      BY <3>1 DEF BacklogInv, IdleEmpty
    <3>3. OutUnits = {}
      BY <3>2 DEF OutUnits
    <3> QED BY <3>3, FS_EmptySet
  <2>2. AggCap > 0 => runtime.out_backlog <= AggCap + Cardinality(Conns) * Slack
    BY BacklogBound DEF JobsInv, BacklogInv
  <2> QED BY <2>1, <2>2 DEF BacklogAccounted, BacklogInv, Charged
<1> QED BY <1>1, <1>2, <1>3, JobsInvariant, PTL DEF Spec
=============================================================================
