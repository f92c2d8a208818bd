--------------------------- MODULE DistWorkerProofs ---------------------------
(***************************************************************************)
(* A work connection of a worker, proved for any number of requests, any   *)
(* prefetch depth and any forward window: the evaluation and the relay     *)
(* thread, which both answer upstream, never contradict each other, and    *)
(* neither outlives the receive thread that owns what they use.            *)
(***************************************************************************)
EXTENDS DistWorker, SequenceTheorems, TLAPS

-----------------------------------------------------------------------------
(* The inductive invariant. *)

Reply == [id : Ids, ok : BOOLEAN]
Result == [id : Ids, valid : BOOLEAN]

Increasing(s) == \A j, k \in 1..Len(s) : j < k => s[j] < s[k]

\* The requests that are read and not yet evaluated come in the order they were
\* read: the one in evaluation, those in the queue, the one to be enqueued.
Chain(rd, ej, q, rj) ==
  /\ Increasing(q) /\ ej <= rd /\ rj <= rd
  /\ \A k \in 1..Len(q) : q[k] <= rd /\ ej < q[k] /\ (rj # None => q[k] < rj)
  /\ ej # None /\ rj # None => ej < rj

\* The requests that come before all of them.
Done(rd, ej, q, rj) ==
  {x \in Ids : /\ x <= rd /\ (ej # None => x < ej) /\ (rj # None => x < rj)
               /\ \A k \in 1..Len(q) : x < q[k]}

\* The request that is tracked and not yet sent: the relay may refuse it already.
Sending(e) == IF e.pc = "send" THEN {e.job} ELSE {}

\* What may have been answered; only an error may be about a request in hand.
Answered(D, S) == {o \in Reply : o.id \in D \/ (o.id \in S /\ ~o.ok)}

\* Where the requests that left the evaluation may be.
Travel(D, S, out, pending, frames, results) ==
  /\ out \in Seq(Answered(D, S)) /\ pending \in Seq(D \cup S) /\ Increasing(pending)
  /\ frames \in Seq(D) /\ results \in Seq({m \in Result : m.id \in D})

\* The requests nothing has been said about, after all that had a result.
Unanswered(out) ==
  {p \in Ids : \A k \in 1..Len(out) : out[k].id # p /\ (out[k].ok => out[k].id < p)}

\* OneVerdict, of a sequence of answers.
Verdicts(out) ==
  \A j, k \in 1..Len(out) :
    /\ out[j].ok /\ j # k => out[k].id # out[j].id
    /\ out[j].ok /\ out[k].ok /\ j < k => out[j].id < out[k].id

\* Who holds a request, who has a forwarder, and who may still be running.
Lives(rc, ev, fw, rl) ==
  /\ ev.pc \in {"pop", "gone"} <=> ev.job = None
  /\ rc.pc = "enqueue" <=> rc.job # None
  /\ fw.exists <=> rl # "none"
  /\ ev.pc \in {"forward", "send"} => fw.exists
  /\ ~fw.exists => fw.pending = <<>>
  /\ rc.pc \in {"destroy", "joinRelay", "gone"} => ev.pc = "gone"
  /\ rc.pc = "gone" => rl \in {"none", "gone"}

\* The relay has not answered for what is pending yet.
Serving == {"start", "read"}

WorkerInv ==
  /\ TypeOK
  /\ Chain(up.read, eval.job, jobs.q, recv.job)
  /\ Travel(Done(up.read, eval.job, jobs.q, recv.job), Sending(eval), up.out, fwd.pending, down.frames, down.results)
  /\ relay \in Serving => fwd.pending \in Seq(Unanswered(up.out))
  /\ Verdicts(up.out)
  /\ Lives(recv, eval, fwd, relay)

-----------------------------------------------------------------------------
(* Sequences. *)

LEMMA IdFacts == /\ Requests \in Nat /\ Depth \in Nat /\ Forward \in Nat /\ None = 0
                 /\ \A x \in Ids : x \in Nat /\ x > 0 /\ x # None
BY BoundsPositive DEF Ids, None

\* A sequence is over whatever its elements are in.
LEMMA SeqIn ==
  ASSUME NEW S, NEW T, NEW s \in Seq(S), \A k \in 1..Len(s) : s[k] \in T
  PROVE  s \in Seq(T)
<1>1. Len(s) \in Nat /\ s \in [1..Len(s) -> S]
  BY LenProperties
<1>2. s \in [1..Len(s) -> T]
  BY <1>1
<1> QED BY <1>1, <1>2

LEMMA SeqMono ==
  ASSUME NEW S, NEW T, S \subseteq T, NEW s \in Seq(S)
  PROVE  s \in Seq(T)
<1>1. \A k \in 1..Len(s) : s[k] \in T
  BY ElementOfSeq
<1> QED BY <1>1, SeqIn

LEMMA TailFacts ==
  ASSUME NEW S, NEW s \in Seq(S), s # <<>>
  PROVE  /\ Tail(s) \in Seq(S) /\ Head(s) \in S /\ Head(s) = s[1] /\ Len(s) \in Nat /\ Len(s) > 0
         /\ Len(Tail(s)) = Len(s) - 1 /\ \A k \in 1..Len(s) - 1 : Tail(s)[k] = s[k + 1] /\ k + 1 \in 1..Len(s)
<1>1. Len(s) \in Nat /\ Len(s) > 0
  BY EmptySeq, LenProperties
<1>2. Tail(s) \in Seq(S) /\ Head(s) \in S /\ Head(s) = s[1] /\ Len(Tail(s)) = Len(s) - 1
  BY HeadTailProperties
<1>3. \A k \in 1..Len(s) - 1 : Tail(s)[k] = s[k + 1]
  BY <1>2, HeadTailProperties
<1>4. \A n \in Nat : \A k \in 1..n - 1 : k + 1 \in 1..n
  OBVIOUS
<1> QED BY <1>1, <1>2, <1>3, <1>4

LEMMA AppendFacts ==
  ASSUME NEW S, NEW s \in Seq(S), NEW x \in S
  PROVE  /\ Append(s, x) \in Seq(S) /\ Len(s) \in Nat /\ Len(Append(s, x)) = Len(s) + 1
         /\ \A k \in 1..Len(s) : Append(s, x)[k] = s[k] /\ Append(s, x)[Len(s) + 1] = x
         /\ \A k \in 1..Len(s) + 1 : k \in 1..Len(s) \/ k = Len(s) + 1
<1>1. Len(s) \in Nat
  BY LenProperties
<1>2. \A n \in Nat : \A k \in 1..n + 1 : k \in 1..n \/ k = n + 1
  OBVIOUS
<1> QED BY <1>1, <1>2, AppendProperties

LEMMA IncreasingTail ==
  ASSUME NEW S \in SUBSET Nat, NEW s \in Seq(S), s # <<>>, Increasing(s)
  PROVE  Increasing(Tail(s)) /\ \A k \in 1..Len(Tail(s)) : Head(s) < Tail(s)[k]
<1>1. /\ Len(Tail(s)) = Len(s) - 1 /\ Head(s) = s[1] /\ Len(s) \in Nat /\ Len(s) > 0
      /\ \A k \in 1..Len(s) - 1 : Tail(s)[k] = s[k + 1] /\ k + 1 \in 1..Len(s)
  BY TailFacts
<1>2. \A j, k \in 1..Len(s) - 1 : j < k => j + 1 < k + 1
  BY <1>1
<1>3. 1 \in 1..Len(s) /\ \A k \in 1..Len(s) - 1 : 1 < k + 1
  BY <1>1
<1>4. Increasing(Tail(s))
  BY <1>1, <1>2 DEF Increasing
<1> QED BY <1>1, <1>3, <1>4 DEF Increasing

LEMMA IncreasingAppend ==
  ASSUME NEW S \in SUBSET Nat, NEW s \in Seq(S), NEW x \in S, Increasing(s), \A k \in 1..Len(s) : s[k] < x
  PROVE  Increasing(Append(s, x))
<1>1. /\ Len(s) \in Nat /\ Len(Append(s, x)) = Len(s) + 1 /\ Append(s, x)[Len(s) + 1] = x
      /\ \A k \in 1..Len(s) : Append(s, x)[k] = s[k]
      /\ \A k \in 1..Len(s) + 1 : k \in 1..Len(s) \/ k = Len(s) + 1
  BY AppendProperties, AppendFacts
<1> DEFINE a == Append(s, x)
<1>2. ASSUME NEW j \in 1..Len(s) + 1, NEW k \in 1..Len(s) + 1, j < k
      PROVE  a[j] < a[k]
  <2>1. j \in 1..Len(s)
    BY <1>1, <1>2
  <2>2. CASE k \in 1..Len(s)
    BY <1>1, <1>2, <2>1, <2>2 DEF Increasing
  <2>3. CASE k = Len(s) + 1
    BY <1>1, <2>1, <2>3
  <2> QED BY <1>1, <2>2, <2>3
<1> QED BY <1>1, <1>2 DEF Increasing

\* Taking one element out.
LEMMA RemovedAt ==
  ASSUME NEW S, NEW s \in Seq(S), NEW i \in 1..Len(s)
  PROVE  /\ RemoveAt(s, i) \in Seq(S) /\ Len(s) \in Nat /\ Len(RemoveAt(s, i)) = Len(s) - 1
         /\ \A k \in 1..Len(s) - 1 : RemoveAt(s, i)[k] = IF k < i THEN s[k] ELSE s[k + 1]
<1> DEFINE a == SubSeq(s, 1, i - 1)
           b == SubSeq(s, i + 1, Len(s))
<1>1. Len(s) \in Nat /\ i \in Nat /\ i >= 1 /\ i <= Len(s) /\ \A k \in 1..Len(s) : s[k] \in S
  BY LenProperties, ElementOfSeq
<1>2. /\ a \in Seq(S) /\ Len(a) = (IF 1 <= i - 1 THEN i - 1 - 1 + 1 ELSE 0)
      /\ \A k \in 1..i - 1 - 1 + 1 : a[k] = s[1 + k - 1]
  <2>1. \A k \in 1..i - 1 : s[k] \in S
    BY <1>1
  <2> QED BY <1>1, <2>1, SubSeqProperties
<1>3. /\ b \in Seq(S) /\ Len(b) = (IF i + 1 <= Len(s) THEN Len(s) - (i + 1) + 1 ELSE 0)
      /\ \A k \in 1..Len(s) - (i + 1) + 1 : b[k] = s[i + 1 + k - 1]
  <2>1. \A k \in i + 1..Len(s) : s[k] \in S
    BY <1>1
  <2> QED BY <1>1, <2>1, SubSeqProperties
<1>4. Len(a) = i - 1 /\ Len(b) = Len(s) - i
  BY <1>1, <1>2, <1>3
<1>5. \A k \in 1..i - 1 : a[k] = s[k]
  <2>1. i - 1 - 1 + 1 = i - 1 /\ \A k \in 1..i - 1 : 1 + k - 1 = k
    BY <1>1
  <2> QED BY <1>2, <2>1
<1>6. \A k \in 1..Len(s) - i : b[k] = s[i + k]
  <2>1. Len(s) - (i + 1) + 1 = Len(s) - i /\ \A k \in 1..Len(s) - i : i + 1 + k - 1 = i + k
    BY <1>1
  <2> QED BY <1>3, <2>1
<1>7. RemoveAt(s, i) = a \o b
  BY DEF RemoveAt
<1>8. a \in Seq(S) /\ b \in Seq(S)
  BY <1>2, <1>3
<1> HIDE DEF a, b
<1>9. /\ a \o b \in Seq(S) /\ Len(a \o b) = Len(a) + Len(b)
      /\ \A k \in 1..Len(a) + Len(b) : (a \o b)[k] = IF k <= Len(a) THEN a[k] ELSE b[k - Len(a)]
  BY <1>8, ConcatProperties
<1>10. Len(a) + Len(b) = Len(s) - 1
  BY <1>1, <1>4
<1>11. ASSUME NEW k \in 1..Len(s) - 1 PROVE (a \o b)[k] = IF k < i THEN s[k] ELSE s[k + 1]
  <2>1. CASE k < i
    <3>1. k <= Len(a) /\ k \in 1..i - 1
      BY <1>1, <1>4, <2>1
    <3> QED BY <3>1, <2>1, <1>5, <1>9, <1>10
  <2>2. CASE ~(k < i)
    <3>1. ~(k <= Len(a)) /\ k - Len(a) \in 1..Len(s) - i /\ i + (k - Len(a)) = k + 1
      BY <1>1, <1>4, <2>2
    <3>2. (a \o b)[k] = b[k - Len(a)]
      BY <3>1, <1>9, <1>10
    <3>3. b[k - Len(a)] = s[i + (k - Len(a))]
      BY <3>1, <1>6
    <3> QED BY <2>2, <3>1, <3>2, <3>3
  <2> QED BY <2>1, <2>2
<1> QED BY <1>1, <1>7, <1>9, <1>10, <1>11

\* A request that is untracked is gone, the others stay in their order.
LEMMA UntrackedFacts ==
  ASSUME NEW S \in SUBSET Nat, NEW s \in Seq(S), NEW x \in Nat, Increasing(s)
  PROVE  /\ Untracked(s, x) \in Seq(S) /\ Increasing(Untracked(s, x)) /\ Len(Untracked(s, x)) <= Len(s)
         /\ \A k \in 1..Len(Untracked(s, x)) : Untracked(s, x)[k] # x /\ \E j \in 1..Len(s) : Untracked(s, x)[k] = s[j]
<1>1. Len(s) \in Nat
  BY LenProperties
<1>2. CASE ~\E k \in 1..Len(s) : s[k] = x
  BY <1>1, <1>2 DEF Untracked
<1>3. CASE \E k \in 1..Len(s) : s[k] = x
  <2> DEFINE i == CHOOSE k \in 1..Len(s) : s[k] = x /\ \A j \in 1..k-1 : s[j] # x
             r == RemoveAt(s, i)
  <2>1. \E k \in 1..Len(s) : s[k] = x /\ \A j \in 1..k-1 : s[j] # x
    <3>1. PICK k \in 1..Len(s) : s[k] = x
      BY <1>3
    <3>2. \A j \in 1..k-1 : j \in 1..Len(s) /\ j < k
      BY <1>1
    <3>3. \A j \in 1..Len(s) : s[j] \in Nat
      BY ElementOfSeq
    <3>4. \A j \in 1..k-1 : s[j] < s[k]
      BY <3>2 DEF Increasing
    <3>5. \A j \in 1..k-1 : s[j] # x
      BY <3>1, <3>2, <3>3, <3>4
    <3> QED BY <3>1, <3>5
  <2>2. i \in 1..Len(s) /\ s[i] = x
    BY <2>1
  <2>3. Untracked(s, x) = r
    BY <1>3 DEF Untracked
  <2> HIDE DEF i
  <2>4. /\ r \in Seq(S) /\ Len(r) = Len(s) - 1
        /\ \A k \in 1..Len(s) - 1 : r[k] = IF k < i THEN s[k] ELSE s[k + 1]
    BY <2>2, RemovedAt
  <2> HIDE DEF r
  <2> DEFINE at(k) == IF k < i THEN k ELSE k + 1
  <2>5. \A k \in 1..Len(s) - 1 : at(k) \in 1..Len(s) /\ at(k) # i
    BY <1>1, <2>2
  <2>6. \A j, k \in 1..Len(s) - 1 : j < k => at(j) < at(k)
    BY <1>1, <2>2
  <2>7. \A k \in 1..Len(s) - 1 : r[k] = s[at(k)]
    BY <2>4
  <2> HIDE DEF at
  <2>8. Increasing(r)
    BY <2>4, <2>5, <2>6, <2>7 DEF Increasing
  <2>9. \A j \in 1..Len(s) : j # i => s[j] # s[i]
    <3> SUFFICES ASSUME NEW j \in 1..Len(s), j # i PROVE s[j] # s[i]
      OBVIOUS
    <3>1. j < i \/ i < j
      BY <1>1, <2>2
    <3>2. s[j] \in Nat /\ s[i] \in Nat
      BY <2>2, ElementOfSeq
    <3>3. s[j] < s[i] \/ s[i] < s[j]
      BY <3>1, <2>2 DEF Increasing
    <3> QED BY <3>2, <3>3
  <2>10. \A k \in 1..Len(r) : r[k] # x /\ \E j \in 1..Len(s) : r[k] = s[j]
    BY <2>2, <2>4, <2>5, <2>7, <2>9
  <2>11. Len(r) <= Len(s)
    BY <1>1, <2>4
  <2> QED BY <2>3, <2>4, <2>8, <2>10, <2>11
<1> QED BY <1>2, <1>3

-----------------------------------------------------------------------------
(* The order of the requests. *)

LEMMA DoneIds == \A rd, ej, q, rj : Done(rd, ej, q, rj) \subseteq Ids
BY DEF Done

LEMMA ChainRead ==
  ASSUME NEW rd \in Nat, NEW ej \in Nat, NEW q \in Seq(Ids), Chain(rd, ej, q, None)
  PROVE  Chain(rd + 1, ej, q, rd + 1) /\ Done(rd, ej, q, None) \subseteq Done(rd + 1, ej, q, rd + 1)
<1>1. rd + 1 # None /\ rd + 1 \in Nat /\ rd + 1 <= rd + 1 /\ ej <= rd + 1 /\ ej < rd + 1
  BY IdFacts DEF Chain
<1>2. \A k \in 1..Len(q) : q[k] \in Nat /\ q[k] <= rd /\ ej < q[k]
  BY ElementOfSeq, IdFacts DEF Chain
<1>3. \A k \in 1..Len(q) : q[k] <= rd + 1 /\ ej < q[k] /\ q[k] < rd + 1
  BY <1>2
<1>4. Chain(rd + 1, ej, q, rd + 1)
  BY <1>1, <1>3 DEF Chain
<1>5. \A x \in Ids : x <= rd => x <= rd + 1 /\ x < rd + 1
  BY IdFacts
<1> QED BY <1>4, <1>5 DEF Done

LEMMA ChainEnqueue ==
  ASSUME NEW rd \in Nat, NEW ej \in Nat, NEW q \in Seq(Ids), NEW rj \in Ids, Chain(rd, ej, q, rj)
  PROVE  Chain(rd, ej, Append(q, rj), None) /\ Done(rd, ej, q, rj) \subseteq Done(rd, ej, Append(q, rj), None)
<1> DEFINE a == Append(q, rj)
<1>1. Ids \in SUBSET Nat /\ rj # None /\ rj \in Nat /\ None = 0
  BY IdFacts
<1>2. /\ Increasing(q) /\ ej <= rd /\ rj <= rd /\ \A k \in 1..Len(q) : q[k] <= rd /\ ej < q[k] /\ q[k] < rj
      /\ (ej # None => ej < rj)
  BY <1>1 DEF Chain
<1>3. ej < rj
  BY <1>1, <1>2, IdFacts
<1>4. Increasing(a)
  BY <1>1, <1>2, IncreasingAppend
<1>5. /\ Len(a) = Len(q) + 1 /\ \A k \in 1..Len(q) + 1 : k \in 1..Len(q) \/ k = Len(q) + 1
      /\ \A k \in 1..Len(q) : a[k] = q[k]
      /\ a[Len(q) + 1] = rj
  BY AppendFacts, AppendProperties
<1> HIDE DEF a
<1>6. \A k \in 1..Len(a) : a[k] <= rd /\ ej < a[k]
  BY <1>2, <1>3, <1>5
<1>7. Chain(rd, ej, a, None)
  BY <1>1, <1>2, <1>4, <1>6 DEF Chain
<1>8. \A x \in Done(rd, ej, q, rj) : x \in Done(rd, ej, a, None)
  BY <1>1, <1>5 DEF Done
<1> QED BY <1>7, <1>8 DEF a

LEMMA ChainDrop ==
  ASSUME NEW rd \in Nat, NEW ej \in Nat, NEW q \in Seq(Ids), NEW rj \in Nat, Chain(rd, ej, q, rj)
  PROVE  /\ Chain(rd, ej, q, None) /\ Done(rd, ej, q, rj) \subseteq Done(rd, ej, q, None)
         /\ Chain(rd, ej, <<>>, rj) /\ Done(rd, ej, q, rj) \subseteq Done(rd, ej, <<>>, rj)
<1>1. Len(<<>>) = 0 /\ \A k : ~(k \in 1..0)
  OBVIOUS
<1>2. Increasing(<<>>)
  BY <1>1 DEF Increasing
<1>3. None = 0 /\ None <= rd
  BY IdFacts
<1>4. Chain(rd, ej, q, None) /\ Done(rd, ej, q, rj) \subseteq Done(rd, ej, q, None)
  BY <1>3 DEF Chain, Done
<1>5. Chain(rd, ej, <<>>, rj) /\ Done(rd, ej, q, rj) \subseteq Done(rd, ej, <<>>, rj)
  BY <1>1, <1>2 DEF Chain, Done
<1> QED BY <1>4, <1>5

LEMMA ChainPop ==
  ASSUME NEW rd \in Nat, NEW q \in Seq(Ids), NEW rj \in Nat, Chain(rd, None, q, rj), q # <<>>
  PROVE  /\ Chain(rd, Head(q), Tail(q), rj)
         /\ Done(rd, None, q, rj) \subseteq Done(rd, Head(q), Tail(q), rj)
<1>1. Ids \in SUBSET Nat
  BY IdFacts
<1>2. Increasing(q) /\ rj <= rd /\ \A k \in 1..Len(q) : q[k] <= rd /\ (rj # None => q[k] < rj)
  BY DEF Chain
<1>3. Increasing(Tail(q)) /\ \A k \in 1..Len(Tail(q)) : Head(q) < Tail(q)[k]
  BY <1>1, <1>2, IncreasingTail
<1>4. /\ Len(Tail(q)) = Len(q) - 1 /\ Head(q) = q[1] /\ Len(q) \in Nat /\ Len(q) > 0
      /\ \A k \in 1..Len(q) - 1 : Tail(q)[k] = q[k + 1] /\ k + 1 \in 1..Len(q)
  BY TailFacts
<1>5. 1 \in 1..Len(q)
  BY <1>4
<1>6. Chain(rd, Head(q), Tail(q), rj)
  BY <1>2, <1>3, <1>4, <1>5 DEF Chain
<1>7. \A x \in Done(rd, None, q, rj) : x \in Done(rd, Head(q), Tail(q), rj)
  BY <1>4, <1>5 DEF Done
<1> QED BY <1>6, <1>7

\* The evaluation is through with its request.
LEMMA ChainFinish ==
  ASSUME NEW rd \in Nat, NEW ej \in Ids, NEW q \in Seq(Ids), NEW rj \in Nat, Chain(rd, ej, q, rj)
  PROVE  /\ Chain(rd, None, q, rj) /\ Done(rd, ej, q, rj) \subseteq Done(rd, None, q, rj) /\ ej \in Done(rd, None, q, rj)
         /\ Chain(rd, None, <<>>, rj) /\ Done(rd, ej, q, rj) \subseteq Done(rd, None, <<>>, rj) /\ ej \in Done(rd, None, <<>>, rj)
<1>1. None = 0 /\ ej # None /\ ej \in Nat /\ ej > 0 /\ None <= rd
  BY IdFacts
<1>2. \A k \in 1..Len(q) : q[k] \in Nat /\ q[k] > 0 /\ ej < q[k]
  BY ElementOfSeq, IdFacts DEF Chain
<1>3. Chain(rd, None, q, rj)
  BY <1>1, <1>2 DEF Chain
<1>4. Done(rd, ej, q, rj) \subseteq Done(rd, None, q, rj)
  BY DEF Done
<1>5. ej \in Done(rd, None, q, rj)
  BY <1>1 DEF Done, Chain
<1>6. None \in Nat
  BY <1>1
<1>7. Chain(rd, None, <<>>, rj) /\ Done(rd, None, q, rj) \subseteq Done(rd, None, <<>>, rj)
  BY <1>3, <1>6, ChainDrop
<1> QED BY <1>3, <1>4, <1>5, <1>7

-----------------------------------------------------------------------------
(* The answers. *)

LEMMA TravelMono ==
  ASSUME NEW D, NEW S, NEW D2, NEW S2, D \subseteq D2, S \subseteq D2 \cup S2,
         NEW out, NEW pend, NEW fr, NEW re, Travel(D, S, out, pend, fr, re)
  PROVE  Travel(D2, S2, out, pend, fr, re)
<1>1. Answered(D, S) \subseteq Answered(D2, S2)
  BY DEF Answered
<1>2. D \cup S \subseteq D2 \cup S2 /\ {m \in Result : m.id \in D} \subseteq {m \in Result : m.id \in D2}
  OBVIOUS
<1>3. out \in Seq(Answered(D2, S2))
  BY <1>1, SeqMono DEF Travel
<1>4. pend \in Seq(D2 \cup S2)
  BY <1>2, SeqMono DEF Travel
<1>5. fr \in Seq(D2)
  BY SeqMono DEF Travel
<1>6. re \in Seq({m \in Result : m.id \in D2})
  BY <1>2, SeqMono DEF Travel
<1> QED BY <1>3, <1>4, <1>5, <1>6 DEF Travel

\* An error is sent, or could not be, about a request that has no result.
LEMMA SaidError ==
  ASSUME NEW D \in SUBSET Ids, NEW S \in SUBSET Ids, NEW out, NEW pend, NEW fr, NEW re, Travel(D, S, out, pend, fr, re),
         Verdicts(out), NEW id \in D \cup S, \A k \in 1..Len(out) : out[k].ok => out[k].id # id,
         NEW out2, out2 = out \/ out2 = Append(out, [id |-> id, ok |-> FALSE])
  PROVE  Travel(D, S, out2, pend, fr, re) /\ Verdicts(out2)
<1> DEFINE o == [id |-> id, ok |-> FALSE]
<1>1. CASE out2 = out
  BY <1>1
<1>2. CASE out2 = Append(out, o)
  <2>1. o \in Answered(D, S) /\ o.id = id /\ o.ok = FALSE
    BY DEF Answered, Reply
  <2>2. out \in Seq(Answered(D, S))
    BY DEF Travel
  <2> HIDE DEF o
  <2>3. /\ out2 \in Seq(Answered(D, S)) /\ Len(out) \in Nat /\ Len(out2) = Len(out) + 1 /\ out2[Len(out) + 1] = o
        /\ \A k \in 1..Len(out) : out2[k] = out[k]
        /\ \A k \in 1..Len(out) + 1 : k \in 1..Len(out) \/ k = Len(out) + 1
    BY <1>2, <2>1, <2>2, AppendFacts, AppendProperties
  <2>4. Travel(D, S, out2, pend, fr, re)
    BY <2>3 DEF Travel
  <2>5. Verdicts(out2)
    BY <2>1, <2>3 DEF Verdicts
  <2> QED BY <2>4, <2>5
<1> QED BY <1>1, <1>2 DEF o

\* A result is passed on, or could not be, for a request nothing was said about.
LEMMA SaidResult ==
  ASSUME NEW D \in SUBSET Ids, NEW S \in SUBSET Ids, NEW out, NEW pend, NEW fr, NEW re, Travel(D, S, out, pend, fr, re),
         Verdicts(out), NEW id \in D, id \in Unanswered(out),
         NEW out2, out2 = out \/ out2 = Append(out, [id |-> id, ok |-> TRUE])
  PROVE  Travel(D, S, out2, pend, fr, re) /\ Verdicts(out2)
<1> DEFINE o == [id |-> id, ok |-> TRUE]
<1>1. CASE out2 = out
  BY <1>1
<1>2. CASE out2 = Append(out, o)
  <2>1. o \in Answered(D, S) /\ o.id = id /\ o.ok = TRUE
    BY DEF Answered, Reply
  <2>2. out \in Seq(Answered(D, S))
    BY DEF Travel
  <2> HIDE DEF o
  <2>3. /\ out2 \in Seq(Answered(D, S)) /\ Len(out) \in Nat /\ Len(out2) = Len(out) + 1 /\ out2[Len(out) + 1] = o
        /\ \A k \in 1..Len(out) : out2[k] = out[k]
        /\ \A k \in 1..Len(out) + 1 : k \in 1..Len(out) \/ k = Len(out) + 1
    BY <1>2, <2>1, <2>2, AppendFacts, AppendProperties
  <2>4. Travel(D, S, out2, pend, fr, re)
    BY <2>3 DEF Travel
  <2>5. \A k \in 1..Len(out) : out[k].id # id /\ (out[k].ok => out[k].id < id)
    BY DEF Unanswered
  <2>6. Verdicts(out2)
    <3> SUFFICES ASSUME NEW j \in 1..Len(out) + 1, NEW k \in 1..Len(out) + 1
                 PROVE  /\ out2[j].ok /\ j # k => out2[k].id # out2[j].id
                        /\ out2[j].ok /\ out2[k].ok /\ j < k => out2[j].id < out2[k].id
      BY <2>3 DEF Verdicts
    <3>1. CASE j \in 1..Len(out) /\ k \in 1..Len(out)
      BY <3>1, <2>3 DEF Verdicts
    <3>2. CASE j \in 1..Len(out) /\ k = Len(out) + 1
      BY <3>2, <2>1, <2>3, <2>5
    <3>3. CASE j = Len(out) + 1 /\ k \in 1..Len(out)
      <4>1. ~(j < k)
        BY <3>3, <2>3
      <4> QED BY <4>1, <3>3, <2>1, <2>3, <2>5
    <3>4. CASE j = Len(out) + 1 /\ k = Len(out) + 1
      BY <3>4, <2>3
    <3> QED BY <2>3, <3>1, <3>2, <3>3, <3>4
  <2> QED BY <2>4, <2>6
<1> QED BY <1>1, <1>2 DEF o

-----------------------------------------------------------------------------
(* Steps. *)

Relays == {"none", "start", "read", "close", "gone"}
Waits == [Sleepers -> CondVars \cup {"awake"}]

LEMMA Types ==
  ASSUME WorkerInv
  PROVE  /\ up \in UpRec /\ jobs \in JobsRec /\ recv \in RecvRec /\ eval \in EvalRec /\ fwd \in FwdRec /\ relay \in Relays
         /\ down \in DownRec /\ asleep \in Waits /\ Len(jobs.q) <= Depth /\ Len(fwd.pending) <= Forward
BY DEF WorkerInv, TypeOK, Relays, Waits

LEMMA Fields ==
  ASSUME WorkerInv
  PROVE  /\ up.read \in Nat /\ up.sent \in Nat /\ up.read <= Requests /\ up.out \in Seq(Reply)
         /\ jobs.q \in Seq(Ids) /\ recv.job \in Nat /\ eval.job \in Nat /\ fwd.pending \in Seq(Ids)
         /\ down.frames \in Seq(Ids) /\ down.results \in Seq(Result) /\ Len(jobs.q) \in Nat /\ Len(fwd.pending) \in Nat
         /\ (recv.job # None => recv.job \in Ids) /\ (eval.job # None => eval.job \in Ids)
<1>1. up.read \in 0..Requests /\ up.sent \in 0..Requests /\ up.out \in Seq(Reply)
  BY Types DEF UpRec, Reply
<1>2. jobs.q \in Seq(Ids) /\ fwd.pending \in Seq(Ids)
  BY Types DEF JobsRec, FwdRec
<1>3. recv.job \in Ids \cup {None} /\ eval.job \in Ids \cup {None}
  BY Types DEF RecvRec, EvalRec
<1>4. down.frames \in Seq(Ids) /\ down.results \in Seq(Result)
  BY Types DEF DownRec, Result
<1> QED BY <1>1, <1>2, <1>3, <1>4, IdFacts, LenProperties

LEMMA Step ==
  ASSUME up' \in UpRec, jobs' \in JobsRec, recv' \in RecvRec, eval' \in EvalRec, fwd' \in FwdRec, relay' \in Relays,
         down' \in DownRec, asleep' \in Waits, Len(jobs'.q) <= Depth, Len(fwd'.pending) <= Forward,
         NEW D, D = Done(up'.read, eval'.job, jobs'.q, recv'.job), Chain(up'.read, eval'.job, jobs'.q, recv'.job),
         Travel(D, Sending(eval'), up'.out, fwd'.pending, down'.frames, down'.results),
         relay' \in Serving => fwd'.pending \in Seq(Unanswered(up'.out)),
         Verdicts(up'.out), Lives(recv', eval', fwd', relay')
  PROVE  WorkerInv'
<1>1. TypeOK'
  BY DEF TypeOK, Relays, Waits
<1>2. Chain(up.read, eval.job, jobs.q, recv.job)'
  BY DEF Chain, Increasing
<1>3. Travel(Done(up.read, eval.job, jobs.q, recv.job), Sending(eval), up.out, fwd.pending, down.frames, down.results)'
  BY DEF Travel, Done, Sending, Answered, Increasing
<1>4. (relay \in Serving => fwd.pending \in Seq(Unanswered(up.out)))'
  BY DEF Unanswered
<1>5. Verdicts(up.out)' /\ Lives(recv, eval, fwd, relay)'
  BY DEF Verdicts, Lives
<1> QED BY <1>1, <1>2, <1>3, <1>4, <1>5 DEF WorkerInv

\* A step that moves requests towards the evaluation and says nothing.
LEMMA QueueStep ==
  ASSUME WorkerInv, up' \in UpRec, jobs' \in JobsRec, recv' \in RecvRec, eval' \in EvalRec, fwd' \in FwdRec, relay' \in Relays,
         down' \in DownRec, asleep' \in Waits, Len(jobs'.q) <= Depth,
         up'.out = up.out, fwd'.pending = fwd.pending, down'.frames = down.frames, down'.results = down.results,
         NEW D2, D2 = Done(up'.read, eval'.job, jobs'.q, recv'.job), Chain(up'.read, eval'.job, jobs'.q, recv'.job),
         Done(up.read, eval.job, jobs.q, recv.job) \subseteq D2, Sending(eval) \subseteq D2 \cup Sending(eval'),
         relay' \in Serving => relay \in Serving \/ fwd.pending = <<>>, Lives(recv', eval', fwd', relay')
  PROVE  WorkerInv'
<1>1. Travel(Done(up.read, eval.job, jobs.q, recv.job), Sending(eval), up.out, fwd.pending, down.frames, down.results)
  BY DEF WorkerInv
<1>2. Travel(D2, Sending(eval'), up.out, fwd.pending, down.frames, down.results)
  BY <1>1, TravelMono
<1>3. Travel(D2, Sending(eval'), up'.out, fwd'.pending, down'.frames, down'.results)
  BY <1>2
<1>4. Len(fwd'.pending) <= Forward
  BY Types
<1>5. Verdicts(up'.out)
  BY DEF WorkerInv
<1>6. relay' \in Serving => fwd'.pending \in Seq(Unanswered(up'.out))
  <2>1. \A S : <<>> \in Seq(S)
    OBVIOUS
  <2> QED BY <2>1 DEF WorkerInv
<1> QED BY <1>3, <1>4, <1>5, <1>6, Step

\* A step that leaves the requests where they are.
LEMMA QuietStep ==
  ASSUME WorkerInv, up' \in UpRec, jobs' \in JobsRec, recv' \in RecvRec, eval' \in EvalRec, fwd' \in FwdRec, relay' \in Relays,
         down' \in DownRec, asleep' \in Waits,
         up'.out = up.out, fwd'.pending = fwd.pending, down'.frames = down.frames, down'.results = down.results,
         up'.read = up.read, eval'.job = eval.job, jobs'.q = jobs.q, recv'.job = recv.job,
         eval'.pc = "send" <=> eval.pc = "send",
         relay' \in Serving => relay \in Serving \/ fwd.pending = <<>>, Lives(recv', eval', fwd', relay')
  PROVE  WorkerInv'
<1> DEFINE D2 == Done(up'.read, eval'.job, jobs'.q, recv'.job)
<1>1. Done(up.read, eval.job, jobs.q, recv.job) \subseteq D2
  OBVIOUS
<1>2. Chain(up'.read, eval'.job, jobs'.q, recv'.job)
  BY DEF WorkerInv
<1>3. Sending(eval) \subseteq D2 \cup Sending(eval')
  BY DEF Sending
<1>4. Len(jobs'.q) <= Depth
  BY Types
<1> HIDE DEF D2
<1>5. D2 = Done(up'.read, eval'.job, jobs'.q, recv'.job)
  BY DEF D2
<1> QED BY <1>1, <1>2, <1>3, <1>4, <1>5, QueueStep

LEMMA Signalled == ASSUME WorkerInv, NEW cvs, Signal(cvs) PROVE asleep' \in Waits
BY Types DEF Signal, Waits

LEMMA Slept == ASSUME WorkerInv, NEW t \in Sleepers, NEW cv \in CondVars, Sleep(t, cv) PROVE asleep' \in Waits
BY Types DEF Sleep, Waits

LEMMA Living == ASSUME WorkerInv PROVE Lives(recv, eval, fwd, relay) /\ Chain(up.read, eval.job, jobs.q, recv.job)
BY DEF WorkerInv

-----------------------------------------------------------------------------
(* The receive thread. *)

LEMMA ReadFrameInv == ASSUME WorkerInv, ReadFrame PROVE WorkerInv'
<1>1. /\ recv.pc = "read" /\ up.read < up.sent /\ up' = [up EXCEPT !.read = up.read + 1]
      /\ recv' = [recv EXCEPT !.pc = "enqueue", !.job = up.read + 1]
      /\ UNCHANGED <<jobs, eval, fwd, relay, down, asleep>>
  BY DEF ReadFrame
<1>2. up \in UpRec /\ recv \in RecvRec
  BY Types
<1>3. up.read + 1 \in Ids /\ up.read + 1 \in 0..Requests
  <2>1. up.read \in 0..Requests /\ up.sent \in 0..Requests
    BY <1>2 DEF UpRec
  <2> QED BY <1>1, <2>1, IdFacts DEF Ids
<1>4. up' \in UpRec /\ up'.read = up.read + 1 /\ up'.out = up.out
  BY <1>1, <1>2, <1>3 DEF UpRec
<1>5. recv' \in RecvRec /\ recv'.pc = "enqueue" /\ recv'.job = up.read + 1
  BY <1>1, <1>2, <1>3 DEF RecvRec
<1>6. recv.job = None
  BY <1>1, Living DEF Lives
<1>7. /\ Chain(up.read + 1, eval.job, jobs.q, up.read + 1)
      /\ Done(up.read, eval.job, jobs.q, None) \subseteq Done(up.read + 1, eval.job, jobs.q, up.read + 1)
  BY <1>6, Living, Fields, ChainRead
<1>8. Lives(recv', eval', fwd', relay')
  BY <1>1, <1>3, <1>5, Living, IdFacts DEF Lives
<1> DEFINE D2 == Done(up'.read, eval'.job, jobs'.q, recv'.job)
<1>9. Done(up.read, eval.job, jobs.q, recv.job) \subseteq D2 /\ Chain(up'.read, eval'.job, jobs'.q, recv'.job)
  BY <1>1, <1>4, <1>5, <1>6, <1>7
<1>10. Sending(eval) \subseteq D2 \cup Sending(eval')
  BY <1>1
<1>11. /\ jobs' \in JobsRec /\ eval' \in EvalRec /\ fwd' \in FwdRec /\ relay' \in Relays /\ down' \in DownRec /\ asleep' \in Waits
       /\ Len(jobs'.q) <= Depth
  BY <1>1, Types
<1>12. fwd'.pending = fwd.pending /\ down'.frames = down.frames /\ down'.results = down.results /\ relay' = relay
  BY <1>1
<1>13. D2 = Done(up'.read, eval'.job, jobs'.q, recv'.job)
  OBVIOUS
<1> HIDE DEF D2
<1> QED BY <1>4, <1>5, <1>8, <1>9, <1>10, <1>11, <1>12, <1>13, QueueStep

\* The receive thread moves on without a request in hand.
LEMMA RecvMoves ==
  ASSUME WorkerInv, NEW pc \in {"close", "joinEval", "destroy", "joinRelay"}, NEW rc \in {0, 1},
         recv' = [recv EXCEPT !.pc = pc, !.rc = rc], recv.pc # "enqueue",
         pc \in {"destroy", "joinRelay"} => eval.pc = "gone",
         UNCHANGED <<up, jobs, eval, relay, down>>, asleep' \in Waits, fwd' \in FwdRec,
         fwd'.exists = fwd.exists, fwd'.pending = fwd.pending
  PROVE  WorkerInv'
<1>1. recv \in RecvRec
  BY Types
<1>2. recv' \in RecvRec /\ recv'.pc = pc /\ recv'.job = recv.job
  BY <1>1 DEF RecvRec
<1>3. Lives(recv', eval', fwd', relay')
  BY <1>2, Living DEF Lives
<1>4. up' \in UpRec /\ jobs' \in JobsRec /\ eval' \in EvalRec /\ relay' \in Relays /\ down' \in DownRec
  BY Types
<1>5. /\ up'.out = up.out /\ down'.frames = down.frames /\ down'.results = down.results /\ up'.read = up.read
      /\ eval'.job = eval.job /\ eval'.pc = eval.pc /\ jobs'.q = jobs.q /\ relay' = relay
  OBVIOUS
<1> QED BY <1>2, <1>3, <1>4, <1>5, QuietStep

LEMMA RecvEndsInv == ASSUME WorkerInv, ReadEnds \/ ReadFails \/ JoinEval PROVE WorkerInv'
<1>1. UNCHANGED <<up, jobs, eval, relay, down, fwd, asleep>>
  BY DEF ReadEnds, ReadFails, JoinEval
<1>2. recv \in RecvRec /\ recv.rc \in {0, 1}
  BY Types DEF RecvRec
<1>3. \E pc \in {"close", "destroy"} : \E rc \in {0, 1} :
         /\ recv' = [recv EXCEPT !.pc = pc, !.rc = rc] /\ recv.pc # "enqueue" /\ (pc = "destroy" => eval.pc = "gone")
  <2>1. CASE ReadEnds
    <3>1. recv' = [recv EXCEPT !.pc = "close", !.rc = recv.rc] /\ recv.pc = "read"
      BY <2>1, <1>2 DEF ReadEnds, RecvRec
    <3> QED BY <3>1, <1>2
  <2>2. CASE ReadFails
    <3>1. recv' = [recv EXCEPT !.pc = "close", !.rc = 1] /\ recv.pc = "read"
      BY <2>2 DEF ReadFails
    <3> QED BY <3>1
  <2>3. CASE JoinEval
    <3>1. recv' = [recv EXCEPT !.pc = "destroy", !.rc = recv.rc] /\ recv.pc = "joinEval" /\ eval.pc = "gone"
      BY <2>3, <1>2 DEF JoinEval, RecvRec
    <3> QED BY <3>1, <1>2
  <2> QED BY <2>1, <2>2, <2>3
<1>4. asleep' \in Waits /\ fwd' \in FwdRec /\ fwd'.exists = fwd.exists /\ fwd'.pending = fwd.pending
  BY <1>1, Types
<1> QED BY <1>1, <1>3, <1>4, RecvMoves

LEMMA DestroyInv == ASSUME WorkerInv, Destroy PROVE WorkerInv'
<1>1. /\ recv.pc = "destroy" /\ recv' = [recv EXCEPT !.pc = "joinRelay"] /\ fwd' = [fwd EXCEPT !.closing = TRUE, !.open = FALSE]
      /\ UNCHANGED <<up, jobs, eval, relay, down>>
  BY DEF Destroy
<1>2. recv \in RecvRec /\ recv.rc \in {0, 1} /\ fwd \in FwdRec
  BY Types DEF RecvRec
<1>3. recv' = [recv EXCEPT !.pc = "joinRelay", !.rc = recv.rc]
  BY <1>1, <1>2 DEF RecvRec
<1>4. fwd' \in FwdRec /\ fwd'.exists = fwd.exists /\ fwd'.pending = fwd.pending
  BY <1>1, <1>2 DEF FwdRec
<1>5. asleep' \in Waits
  BY Signalled DEF Destroy
<1>6. eval.pc = "gone"
  BY <1>1, Living DEF Lives
<1> QED BY <1>1, <1>2, <1>3, <1>4, <1>5, <1>6, RecvMoves

\* The queue or the request in the receive thread's hand changes.
LEMMA RecvQueue ==
  ASSUME WorkerInv, UNCHANGED <<up, eval, fwd, relay, down>>, jobs' \in JobsRec, recv' \in RecvRec, asleep' \in Waits,
         Len(jobs'.q) <= Depth, Chain(up.read, eval.job, jobs'.q, recv'.job),
         Done(up.read, eval.job, jobs.q, recv.job) \subseteq Done(up.read, eval.job, jobs'.q, recv'.job),
         recv'.pc = "enqueue" <=> recv'.job # None, recv'.pc \in {"read", "enqueue", "close", "joinEval"}
  PROVE  WorkerInv'
<1> DEFINE D2 == Done(up'.read, eval'.job, jobs'.q, recv'.job)
<1>1. D2 = Done(up'.read, eval'.job, jobs'.q, recv'.job) /\ Done(up.read, eval.job, jobs.q, recv.job) \subseteq D2
  OBVIOUS
<1>2. Sending(eval) \subseteq D2 \cup Sending(eval')
  OBVIOUS
<1> HIDE DEF D2
<1>3. Lives(recv', eval', fwd', relay')
  BY Living DEF Lives
<1>4. up' \in UpRec /\ eval' \in EvalRec /\ fwd' \in FwdRec /\ relay' \in Relays /\ down' \in DownRec
  BY Types
<1>5. Chain(up'.read, eval'.job, jobs'.q, recv'.job)
  OBVIOUS
<1>6. up'.out = up.out /\ fwd'.pending = fwd.pending /\ down'.frames = down.frames /\ down'.results = down.results /\ relay' = relay
  OBVIOUS
<1> QED BY <1>1, <1>2, <1>3, <1>4, <1>5, <1>6, QueueStep

LEMMA EnqueueInv == ASSUME WorkerInv, Enqueue PROVE WorkerInv'
<1>1. recv.pc = "enqueue" /\ UNCHANGED <<up, eval, fwd, relay, down>>
  BY DEF Enqueue
<1>2. recv \in RecvRec /\ jobs \in JobsRec /\ asleep \in Waits /\ Len(jobs.q) <= Depth
  BY Types
<1>3. recv.job # None /\ Chain(up.read, eval.job, jobs.q, recv.job)
  BY <1>1, Living DEF Lives
<1>4. recv.job \in Ids /\ recv.job \in Nat /\ up.read \in Nat /\ eval.job \in Nat /\ jobs.q \in Seq(Ids) /\ Len(jobs.q) \in Nat
  BY <1>3, Fields
<1>5. CASE jobs.closed \/ jobs.canceled
  <2>1. recv' = [recv EXCEPT !.pc = "close", !.job = None, !.rc = 1] /\ jobs' = jobs /\ asleep' = asleep
    BY <1>5 DEF Enqueue
  <2>2. recv' \in RecvRec /\ recv'.pc = "close" /\ recv'.job = None
    BY <2>1, <1>2 DEF RecvRec
  <2>3. Chain(up.read, eval.job, jobs.q, None) /\ Done(up.read, eval.job, jobs.q, recv.job) \subseteq Done(up.read, eval.job, jobs.q, None)
    BY <1>3, <1>4, ChainDrop
  <2> QED BY <1>1, <1>2, <2>1, <2>2, <2>3, RecvQueue
<1>6. CASE ~(jobs.closed \/ jobs.canceled) /\ Len(jobs.q) >= Depth
  <2>1. jobs' = jobs /\ recv' = recv /\ Sleep("recv", "not_full")
    BY <1>6 DEF Enqueue
  <2>2. asleep' \in Waits
    BY <2>1, Slept DEF Sleepers, CondVars
  <2> QED BY <1>1, <1>2, <1>3, <2>1, <2>2, RecvQueue
<1>7. CASE ~(jobs.closed \/ jobs.canceled) /\ ~(Len(jobs.q) >= Depth)
  <2>1. /\ jobs' = [jobs EXCEPT !.q = Append(jobs.q, recv.job)] /\ recv' = [recv EXCEPT !.pc = "read", !.job = None]
        /\ Signal({"not_empty"})
    BY <1>7 DEF Enqueue
  <2>2. asleep' \in Waits
    BY <2>1, Signalled
  <2>3. recv' \in RecvRec /\ recv'.pc = "read" /\ recv'.job = None
    BY <2>1, <1>2 DEF RecvRec
  <2>4. Append(jobs.q, recv.job) \in Seq(Ids) /\ Len(Append(jobs.q, recv.job)) = Len(jobs.q) + 1
    BY <1>4, AppendProperties
  <2>5. jobs' \in JobsRec /\ jobs'.q = Append(jobs.q, recv.job)
    BY <2>1, <2>4, <1>2 DEF JobsRec
  <2>6. Len(jobs'.q) <= Depth
    BY <2>4, <2>5, <1>4, <1>7, IdFacts
  <2>7. Chain(up.read, eval.job, jobs'.q, None) /\ Done(up.read, eval.job, jobs.q, recv.job) \subseteq Done(up.read, eval.job, jobs'.q, None)
    BY <1>3, <1>4, <2>5, ChainEnqueue
  <2> QED BY <1>1, <2>2, <2>3, <2>5, <2>6, <2>7, RecvQueue
<1> QED BY <1>5, <1>6, <1>7

LEMMA CloseJobsInv == ASSUME WorkerInv, CloseJobs PROVE WorkerInv'
<1> DEFINE q == IF recv.rc = 0 THEN jobs.q ELSE <<>>
<1>1. /\ recv.pc = "close" /\ UNCHANGED <<up, eval, fwd, relay, down>> /\ recv' = [recv EXCEPT !.pc = "joinEval"]
      /\ jobs' = [q |-> q, closed |-> TRUE, canceled |-> jobs.canceled \/ recv.rc # 0]
  BY DEF CloseJobs
<1>2. asleep' \in Waits
  BY Signalled DEF CloseJobs
<1>3. recv \in RecvRec /\ jobs \in JobsRec /\ Len(jobs.q) <= Depth
  BY Types
<1>4. recv' \in RecvRec /\ recv'.pc = "joinEval" /\ recv'.job = recv.job
  BY <1>1, <1>3 DEF RecvRec
<1>5. recv.job = None /\ Chain(up.read, eval.job, jobs.q, recv.job)
  BY <1>1, Living DEF Lives
<1>6. up.read \in Nat /\ eval.job \in Nat /\ jobs.q \in Seq(Ids) /\ recv.job \in Nat
  BY Fields
<1>7. /\ q \in Seq(Ids) /\ Len(q) <= Depth /\ Chain(up.read, eval.job, q, recv.job)
      /\ Done(up.read, eval.job, jobs.q, recv.job) \subseteq Done(up.read, eval.job, q, recv.job)
  <2>1. CASE recv.rc = 0
    BY <2>1, <1>3, <1>5, <1>6
  <2>2. CASE recv.rc # 0
    <3>1. q = <<>> /\ <<>> \in Seq(Ids) /\ Len(<<>>) = 0 /\ 0 <= Depth
      BY <2>2, IdFacts
    <3>2. /\ Chain(up.read, eval.job, <<>>, recv.job)
          /\ Done(up.read, eval.job, jobs.q, recv.job) \subseteq Done(up.read, eval.job, <<>>, recv.job)
      BY <1>5, <1>6, ChainDrop
    <3> QED BY <3>1, <3>2
  <2> QED BY <2>1, <2>2
<1> HIDE DEF q
<1>8. jobs' \in JobsRec /\ jobs'.q = q
  BY <1>1, <1>7 DEF JobsRec
<1> QED BY <1>1, <1>2, <1>4, <1>5, <1>7, <1>8, RecvQueue

LEMMA JoinRelayInv == ASSUME WorkerInv, JoinRelay PROVE WorkerInv'
<1> DEFINE D == Done(up.read, eval.job, jobs.q, recv.job)
<1>1. /\ recv.pc = "joinRelay" /\ relay \in {"none", "gone"} /\ recv' = [recv EXCEPT !.pc = "gone"]
      /\ fwd' = [fwd EXCEPT !.pending = <<>>] /\ up' = [up EXCEPT !.open = FALSE] /\ UNCHANGED <<jobs, eval, relay, down, asleep>>
  BY DEF JoinRelay
<1>2. recv \in RecvRec /\ fwd \in FwdRec /\ up \in UpRec
  BY Types
<1>3. recv' \in RecvRec /\ recv'.pc = "gone" /\ recv'.job = recv.job
  BY <1>1, <1>2 DEF RecvRec
<1>4. fwd' \in FwdRec /\ fwd'.pending = <<>> /\ fwd'.exists = fwd.exists
  <2>1. fwd' = [fwd EXCEPT !.pending = <<>>] /\ <<>> \in Seq(Ids)
    BY <1>1
  <2> QED BY <2>1, <1>2 DEF FwdRec
<1>5. up' \in UpRec /\ up'.read = up.read /\ up'.out = up.out
  BY <1>1, <1>2 DEF UpRec
<1>6. Lives(recv', eval', fwd', relay')
  BY <1>1, <1>3, <1>4, Living DEF Lives
<1>7. Len(<<>>) = 0 /\ 0 <= Forward /\ (\A S : <<>> \in Seq(S)) /\ Increasing(<<>>)
  BY IdFacts DEF Increasing
<1>8. Travel(D, Sending(eval), up.out, fwd.pending, down.frames, down.results) /\ Verdicts(up.out)
  BY DEF WorkerInv
<1> HIDE DEF D
<1>9. Travel(D, Sending(eval), up.out, <<>>, down.frames, down.results)
  BY <1>7, <1>8 DEF Travel
<1>10. /\ Travel(D, Sending(eval'), up'.out, fwd'.pending, down'.frames, down'.results) /\ Verdicts(up'.out)
       /\ Len(fwd'.pending) <= Forward /\ fwd'.pending \in Seq(Unanswered(up'.out))
  BY <1>1, <1>4, <1>5, <1>7, <1>8, <1>9
<1>11. D = Done(up'.read, eval'.job, jobs'.q, recv'.job) /\ Chain(up'.read, eval'.job, jobs'.q, recv'.job)
  BY <1>1, <1>3, <1>5, Living DEF D
<1>12. jobs' \in JobsRec /\ eval' \in EvalRec /\ relay' \in Relays /\ down' \in DownRec /\ asleep' \in Waits /\ Len(jobs'.q) <= Depth
  BY <1>1, Types
<1> QED BY <1>3, <1>4, <1>5, <1>6, <1>10, <1>11, <1>12, Step

-----------------------------------------------------------------------------
(* The evaluation thread. *)

LEMMA PopInv == ASSUME WorkerInv, Pop PROVE WorkerInv'
<1>1. eval.pc = "pop" /\ UNCHANGED <<up, recv, fwd, relay, down>>
  BY DEF Pop
<1>2. up' \in UpRec /\ recv' \in RecvRec /\ fwd' \in FwdRec /\ relay' \in Relays /\ down' \in DownRec
  BY <1>1, Types
<1>3. /\ up'.out = up.out /\ fwd'.pending = fwd.pending /\ down'.frames = down.frames /\ down'.results = down.results
      /\ up'.read = up.read /\ recv'.job = recv.job /\ relay' = relay
  BY <1>1
<1>4. eval \in EvalRec /\ jobs \in JobsRec /\ asleep \in Waits /\ eval.job = None
  BY <1>1, Types, Living DEF Lives
<1>5. CASE jobs.canceled \/ (jobs.q = <<>> /\ jobs.closed)
  <2>1. eval' = [pc |-> "gone", job |-> None] /\ jobs' = jobs /\ asleep' = asleep
    BY <1>5 DEF Pop
  <2>2. eval' \in EvalRec /\ eval'.pc = "gone" /\ eval'.job = None
    BY <2>1 DEF EvalRec
  <2>3. Lives(recv', eval', fwd', relay')
    BY <1>1, <2>2, Living DEF Lives
  <2>4. (eval'.pc = "send" <=> eval.pc = "send") /\ eval'.job = eval.job
    BY <1>1, <1>4, <2>2
  <2> QED BY <1>2, <1>3, <1>4, <2>1, <2>2, <2>3, <2>4, QuietStep
<1>6. CASE ~(jobs.canceled \/ (jobs.q = <<>> /\ jobs.closed)) /\ jobs.q = <<>>
  <2>1. eval' = eval /\ jobs' = jobs /\ Sleep("eval", "not_empty")
    BY <1>6 DEF Pop
  <2>2. asleep' \in Waits
    BY <2>1, Slept DEF Sleepers, CondVars
  <2>3. Lives(recv', eval', fwd', relay')
    BY <1>1, <2>1, Living DEF Lives
  <2> QED BY <1>2, <1>3, <1>4, <2>1, <2>2, <2>3, QuietStep
<1>7. CASE ~(jobs.canceled \/ (jobs.q = <<>> /\ jobs.closed)) /\ jobs.q # <<>>
  <2>1. eval' = [pc |-> "work", job |-> Head(jobs.q)] /\ jobs' = [jobs EXCEPT !.q = Tail(jobs.q)] /\ Signal({"not_full"})
    BY <1>7 DEF Pop
  <2>2. asleep' \in Waits
    BY <2>1, Signalled
  <2>3. jobs.q \in Seq(Ids) /\ up.read \in Nat /\ recv.job \in Nat /\ Len(jobs.q) <= Depth
    BY Types, Fields
  <2>4. Head(jobs.q) \in Ids /\ Tail(jobs.q) \in Seq(Ids) /\ Len(Tail(jobs.q)) = Len(jobs.q) - 1 /\ Len(jobs.q) \in Nat
    BY <1>7, <2>3, TailFacts
  <2>5. jobs' \in JobsRec /\ jobs'.q = Tail(jobs.q)
    BY <2>1, <2>4, <1>4 DEF JobsRec
  <2>6. Len(jobs'.q) <= Depth
    BY <2>3, <2>4, <2>5, IdFacts
  <2>7. eval' \in EvalRec /\ eval'.pc = "work" /\ eval'.job = Head(jobs.q) /\ eval'.job # None
    BY <2>1, <2>4, IdFacts DEF EvalRec
  <2>8. /\ Chain(up.read, Head(jobs.q), Tail(jobs.q), recv.job)
        /\ Done(up.read, None, jobs.q, recv.job) \subseteq Done(up.read, Head(jobs.q), Tail(jobs.q), recv.job)
    BY <1>4, <1>7, <2>3, Living, ChainPop
  <2> DEFINE D2 == Done(up'.read, eval'.job, jobs'.q, recv'.job)
  <2>9. Done(up.read, eval.job, jobs.q, recv.job) \subseteq D2 /\ Chain(up'.read, eval'.job, jobs'.q, recv'.job)
    BY <1>3, <1>4, <2>5, <2>7, <2>8
  <2>10. Sending(eval) \subseteq D2 \cup Sending(eval')
    BY <1>1 DEF Sending
  <2>11. Lives(recv', eval', fwd', relay')
    BY <1>1, <2>7, Living DEF Lives
  <2>12. D2 = Done(up'.read, eval'.job, jobs'.q, recv'.job)
    OBVIOUS
  <2> HIDE DEF D2
  <2> QED BY <1>2, <1>3, <2>2, <2>5, <2>6, <2>7, <2>9, <2>10, <2>11, <2>12, QueueStep
<1> QED BY <1>5, <1>6, <1>7

LEMMA WorkDoneInv == ASSUME WorkerInv, WorkDone PROVE WorkerInv'
<1>1. eval.pc = "work" /\ eval' = [eval EXCEPT !.pc = "forward"] /\ UNCHANGED <<up, jobs, recv, asleep>>
  BY DEF WorkDone
<1>2. eval \in EvalRec /\ fwd \in FwdRec /\ down \in DownRec
  BY Types
<1>3. eval' \in EvalRec /\ eval'.pc = "forward" /\ eval'.job = eval.job
  BY <1>1, <1>2 DEF EvalRec
<1>4. up' \in UpRec /\ jobs' \in JobsRec /\ recv' \in RecvRec /\ asleep' \in Waits
  BY <1>1, Types
<1>5. up'.out = up.out /\ up'.read = up.read /\ jobs'.q = jobs.q /\ recv'.job = recv.job /\ (eval'.pc = "send" <=> eval.pc = "send")
  BY <1>1, <1>3
<1>6. /\ fwd' \in FwdRec /\ down' \in DownRec /\ relay' \in Relays /\ fwd'.exists /\ fwd'.pending = fwd.pending
      /\ down'.frames = down.frames /\ down'.results = down.results /\ relay' # "none"
      /\ (relay' \in Serving => relay \in Serving \/ fwd.pending = <<>>)
  <2>1. CASE fwd.exists
    <3>1. fwd' = fwd /\ down' = down /\ relay' = relay
      BY <2>1 DEF WorkDone
    <3> QED BY <2>1, <3>1, Types, Living DEF Lives
  <2>2. CASE ~fwd.exists
    <3>1. fwd' = [fwd EXCEPT !.exists = TRUE, !.open = TRUE] /\ relay' = "start" /\ down' = [down EXCEPT !.alive = TRUE]
      BY <2>2 DEF WorkDone
    <3>2. fwd' \in FwdRec /\ fwd'.exists /\ fwd'.pending = fwd.pending
      BY <3>1, <1>2 DEF FwdRec
    <3>3. down' \in DownRec /\ down'.frames = down.frames /\ down'.results = down.results
      BY <3>1, <1>2 DEF DownRec
    <3>4. fwd.pending = <<>>
      BY <2>2, Living DEF Lives
    <3> QED BY <3>1, <3>2, <3>3, <3>4 DEF Relays
  <2> QED BY <2>1, <2>2
<1>7. Lives(recv', eval', fwd', relay')
  BY <1>1, <1>3, <1>6, Living DEF Lives
<1> QED BY <1>3, <1>4, <1>5, <1>6, <1>7, QuietStep

LEMMA SentFacts ==
  ASSUME NEW u \in UpRec, NEW id \in Ids, NEW ok \in BOOLEAN
  PROVE  /\ Sent(u, id, ok) \in UpRec /\ Sent(u, id, ok).read = u.read
         /\ Sent(u, id, ok).out = u.out \/ Sent(u, id, ok).out = Append(u.out, [id |-> id, ok |-> ok])
<1> DEFINE o == [id |-> id, ok |-> ok]
<1>1. o \in [id : Ids, ok : BOOLEAN]
  OBVIOUS
<1> HIDE DEF o
<1>2. Append(u.out, o) \in Seq([id : Ids, ok : BOOLEAN])
  BY <1>1, AppendProperties DEF UpRec
<1>3. CASE u.open /\ u.peer /\ ~u.torn
  <2>1. Sent(u, id, ok) = [u EXCEPT !.out = Append(u.out, o)]
    BY <1>3 DEF Sent, o
  <2> QED BY <2>1, <1>2 DEF UpRec, o
<1>4. CASE ~(u.open /\ u.peer /\ ~u.torn)
  BY <1>4 DEF Sent
<1> QED BY <1>3, <1>4

\* An answer about another request, a result about an earlier one, leaves a
\* request unanswered.
LEMMA StillUnanswered ==
  ASSUME NEW out \in Seq(Reply), NEW id \in Ids, NEW ok \in BOOLEAN, NEW out2, out2 = out \/ out2 = Append(out, [id |-> id, ok |-> ok]),
         NEW s \in Seq(Unanswered(out)), \A k \in 1..Len(s) : s[k] # id /\ (ok => id < s[k])
  PROVE  s \in Seq(Unanswered(out2))
<1> DEFINE o == [id |-> id, ok |-> ok]
<1>1. o \in Reply /\ o.id = id /\ o.ok = ok
  BY DEF Reply
<1>2. out2 = out \/ out2 = Append(out, o)
  OBVIOUS
<1> HIDE DEF o
<1>3. /\ Len(out) \in Nat /\ Len(Append(out, o)) = Len(out) + 1 /\ Append(out, o)[Len(out) + 1] = o
      /\ \A k \in 1..Len(out) : Append(out, o)[k] = out[k]
      /\ \A k \in 1..Len(out) + 1 : k \in 1..Len(out) \/ k = Len(out) + 1
  BY <1>1, AppendFacts, AppendProperties
<1>4. \A p \in Unanswered(out) : p # id /\ (ok => id < p) => p \in Unanswered(out2)
  BY <1>1, <1>2, <1>3 DEF Unanswered
<1>5. \A k \in 1..Len(s) : s[k] \in Unanswered(out2)
  BY <1>4, ElementOfSeq
<1> QED BY <1>5, SeqIn

LEMMA StillAfterError ==
  ASSUME NEW out \in Seq(Reply), NEW id \in Ids, NEW out2, out2 = out \/ out2 = Append(out, [id |-> id, ok |-> FALSE]),
         NEW s \in Seq(Unanswered(out)), \A k \in 1..Len(s) : s[k] # id
  PROVE  s \in Seq(Unanswered(out2))
BY StillUnanswered

LEMMA ShutFacts ==
  ASSUME NEW u \in UpRec
  PROVE  [u EXCEPT !.open = FALSE] \in UpRec /\ [u EXCEPT !.open = FALSE].read = u.read /\ [u EXCEPT !.open = FALSE].out = u.out
BY DEF UpRec

\* What travels is behind the request in evaluation, but for that request
\* itself while it is sent.
LEMMA InHand ==
  ASSUME WorkerInv, eval.job # None
  PROVE  /\ \A k \in 1..Len(up.out) : up.out[k].ok => up.out[k].id # eval.job
         /\ eval.pc # "send" => /\ \A k \in 1..Len(up.out) : up.out[k].id < eval.job
                                /\ \A k \in 1..Len(fwd.pending) : fwd.pending[k] < eval.job
<1> DEFINE D == Done(up.read, eval.job, jobs.q, recv.job)
<1>1. up.out \in Seq(Answered(D, Sending(eval))) /\ fwd.pending \in Seq(D \cup Sending(eval))
  BY DEF WorkerInv, Travel
<1>2. \A x \in D : x < eval.job /\ x \in Ids
  BY DEF Done
<1>3. \A x \in D : x # eval.job
  BY <1>2, IdFacts, Fields
<1> HIDE DEF D
<1>4. \A k \in 1..Len(up.out) : up.out[k] \in Answered(D, Sending(eval))
  BY <1>1, ElementOfSeq
<1>5. \A k \in 1..Len(fwd.pending) : fwd.pending[k] \in D \cup Sending(eval)
  BY <1>1, ElementOfSeq
<1>6. \A k \in 1..Len(up.out) : up.out[k].ok => up.out[k].id # eval.job
  BY <1>3, <1>4 DEF Answered
<1>7. ASSUME eval.pc # "send"
      PROVE  /\ \A k \in 1..Len(up.out) : up.out[k].id < eval.job
             /\ \A k \in 1..Len(fwd.pending) : fwd.pending[k] < eval.job
  <2>1. Sending(eval) = {}
    BY <1>7 DEF Sending
  <2> QED BY <2>1, <1>2, <1>4, <1>5 DEF Answered
<1> QED BY <1>6, <1>7

\* The evaluation is through with its request, whose place is now behind.
LEMMA Finished ==
  ASSUME WorkerInv, eval.job # None, NEW q, q = jobs.q \/ q = <<>>, NEW D2, D2 = Done(up.read, None, q, recv.job)
  PROVE  /\ Chain(up.read, None, q, recv.job) /\ eval.job \in D2 /\ D2 \in SUBSET Ids
         /\ Travel(D2, {}, up.out, fwd.pending, down.frames, down.results)
<1>1. up.read \in Nat /\ eval.job \in Ids /\ jobs.q \in Seq(Ids) /\ recv.job \in Nat
  BY Fields
<1>2. /\ Chain(up.read, None, q, recv.job) /\ eval.job \in D2 /\ Done(up.read, eval.job, jobs.q, recv.job) \subseteq D2
  BY <1>1, Living, ChainFinish
<1>3. D2 \in SUBSET Ids
  BY DoneIds
<1>4. Sending(eval) \subseteq D2 \cup {}
  BY <1>2 DEF Sending
<1>5. Travel(Done(up.read, eval.job, jobs.q, recv.job), Sending(eval), up.out, fwd.pending, down.frames, down.results)
  BY DEF WorkerInv
<1>6. Travel(D2, {}, up.out, fwd.pending, down.frames, down.results)
  BY <1>2, <1>4, <1>5, TravelMono
<1> QED BY <1>2, <1>3, <1>6

\* What the evaluation thread does after an error: it goes on, or it cancels.
LEMMA GoesOn ==
  ASSUME WorkerInv,
         \/ eval' = [pc |-> "pop", job |-> None] /\ UNCHANGED <<jobs, asleep>>
         \/ /\ eval' = [pc |-> "gone", job |-> None]
            /\ jobs' = [q |-> <<>>, closed |-> TRUE, canceled |-> TRUE]
            /\ Signal({"not_empty", "not_full"})
  PROVE  /\ eval' \in EvalRec /\ eval'.pc \in {"pop", "gone"} /\ eval'.job = None /\ jobs' \in JobsRec /\ asleep' \in Waits
         /\ (jobs'.q = jobs.q \/ jobs'.q = <<>>) /\ Len(jobs'.q) <= Depth /\ Sending(eval') = {}
<1>1. eval' \in EvalRec /\ eval'.pc \in {"pop", "gone"} /\ eval'.job = None
  BY DEF EvalRec
<1>2. Sending(eval') = {}
  BY <1>1 DEF Sending
<1>3. asleep' \in Waits
  BY Types, Signalled
<1>4. jobs' = jobs \/ jobs' = [q |-> <<>>, closed |-> TRUE, canceled |-> TRUE]
  OBVIOUS
<1>5. CASE jobs' = jobs
  BY <1>1, <1>2, <1>3, <1>5, Types
<1>6. CASE jobs' = [q |-> <<>>, closed |-> TRUE, canceled |-> TRUE]
  <2>1. jobs'.q = <<>> /\ Len(<<>>) = 0 /\ 0 <= Depth /\ jobs' \in JobsRec
    BY <1>6, IdFacts DEF JobsRec
  <2> QED BY <2>1, <1>1, <1>2, <1>3
<1> QED BY <1>4, <1>5, <1>6

LEMMA RefuseInv ==
  ASSUME WorkerInv, eval.pc \in {"work", "forward"}, Refuse(up), UNCHANGED <<recv, fwd, relay, down>>
  PROVE  WorkerInv'
<1>1. up \in UpRec /\ eval.job # None /\ eval.job \in Ids
  BY Types, Living, Fields DEF Lives
<1>2. /\ eval' \in EvalRec /\ eval'.pc \in {"pop", "gone"} /\ eval'.job = None /\ jobs' \in JobsRec /\ asleep' \in Waits
      /\ (jobs'.q = jobs.q \/ jobs'.q = <<>>) /\ Len(jobs'.q) <= Depth /\ Sending(eval') = {}
  BY GoesOn DEF Refuse
<1>3. up' = Sent(up, eval.job, FALSE) \/ up' = [up EXCEPT !.open = FALSE]
  BY DEF Refuse
<1>4. up' \in UpRec /\ up'.read = up.read /\ (up'.out = up.out \/ up'.out = Append(up.out, [id |-> eval.job, ok |-> FALSE]))
  BY <1>1, <1>3, SentFacts, ShutFacts
<1> DEFINE D2 == Done(up.read, None, jobs'.q, recv.job)
<1>5. /\ Chain(up.read, None, jobs'.q, recv.job) /\ eval.job \in D2 /\ D2 \in SUBSET Ids
      /\ Travel(D2, {}, up.out, fwd.pending, down.frames, down.results)
  BY <1>1, <1>2, Finished
<1>6. D2 = Done(up'.read, eval'.job, jobs'.q, recv'.job) /\ Chain(up'.read, eval'.job, jobs'.q, recv'.job)
  BY <1>2, <1>4, <1>5
<1> HIDE DEF D2
<1>7. /\ \A k \in 1..Len(up.out) : up.out[k].ok => up.out[k].id # eval.job
      /\ \A k \in 1..Len(fwd.pending) : fwd.pending[k] < eval.job
  BY <1>1, InHand
<1>8. Verdicts(up.out) /\ (relay \in Serving => fwd.pending \in Seq(Unanswered(up.out))) /\ {} \in SUBSET Ids /\ eval.job \in D2 \cup {}
  BY <1>5 DEF WorkerInv
<1>9. Travel(D2, {}, up'.out, fwd.pending, down.frames, down.results) /\ Verdicts(up'.out)
  <2> DEFINE o2 == up'.out
             none == {}
  <2>1. o2 = up.out \/ o2 = Append(up.out, [id |-> eval.job, ok |-> FALSE])
    BY <1>4
  <2>2. /\ none \in SUBSET Ids /\ eval.job \in D2 \cup none /\ D2 \in SUBSET Ids
        /\ Travel(D2, none, up.out, fwd.pending, down.frames, down.results)
    BY <1>5, <1>8
  <2> HIDE DEF o2, none
  <2>3. Verdicts(up.out) /\ \A k \in 1..Len(up.out) : up.out[k].ok => up.out[k].id # eval.job
    BY <1>7, <1>8
  <2>4. Travel(D2, none, o2, fwd.pending, down.frames, down.results) /\ Verdicts(o2)
    BY <2>1, <2>2, <2>3, SaidError
  <2> QED BY <2>4 DEF o2, none
<1>10. relay \in Serving => fwd.pending \in Seq(Unanswered(up'.out))
  <2> SUFFICES ASSUME relay \in Serving PROVE fwd.pending \in Seq(Unanswered(up'.out))
    OBVIOUS
  <2>1. \A k \in 1..Len(fwd.pending) : fwd.pending[k] \in Ids
    BY Fields, ElementOfSeq
  <2>2. \A x \in Ids : x < eval.job => x # eval.job
    BY <1>1, IdFacts
  <2> DEFINE s == fwd.pending
             out == up.out
             out2 == up'.out
             id == eval.job
  <2>3. s \in Seq(Unanswered(out))
    BY <1>8
  <2>4. \A k \in 1..Len(s) : s[k] # id
    BY <1>7, <2>1, <2>2
  <2>5. out \in Seq(Reply) /\ id \in Ids
    BY <1>1, Fields
  <2>6. out2 = out \/ out2 = Append(out, [id |-> id, ok |-> FALSE])
    BY <1>4
  <2> HIDE DEF s, out, out2, id
  <2>7. s \in Seq(Unanswered(out2))
    BY ONLY <2>3, <2>4, <2>5, <2>6, StillAfterError
  <2> QED BY <2>7 DEF s, out2
<1>11. Lives(recv', eval', fwd', relay')
  BY <1>2, Living DEF Lives
<1>12. /\ recv' \in RecvRec /\ fwd' \in FwdRec /\ relay' \in Relays /\ down' \in DownRec /\ Len(fwd'.pending) <= Forward
  BY Types
<1>13. /\ Travel(D2, Sending(eval'), up'.out, fwd'.pending, down'.frames, down'.results)
       /\ (relay' \in Serving => fwd'.pending \in Seq(Unanswered(up'.out)))
  BY <1>2, <1>9, <1>10
<1> QED BY <1>2, <1>4, <1>6, <1>9, <1>11, <1>12, <1>13, Step

LEMMA TrackInv == ASSUME WorkerInv, Track PROVE WorkerInv'
<1>1. eval.pc = "forward" /\ UNCHANGED <<recv, relay, down>>
  BY DEF Track
<1>2. eval.job # None /\ fwd.exists /\ eval \in EvalRec /\ fwd \in FwdRec
  BY <1>1, Living, Types DEF Lives
<1>3. CASE Refuse(up) /\ UNCHANGED fwd
  BY <1>1, <1>3, RefuseInv
<1>4. CASE Sleep("eval", "queue_not_full") /\ UNCHANGED <<up, jobs, eval, fwd>>
  <2>1. asleep' \in Waits
    BY <1>4, Slept DEF Sleepers, CondVars
  <2>2. Lives(recv', eval', fwd', relay')
    BY <1>1, <1>4, Living DEF Lives
  <2>3. up' \in UpRec /\ jobs' \in JobsRec /\ recv' \in RecvRec /\ eval' \in EvalRec /\ fwd' \in FwdRec /\ relay' \in Relays /\ down' \in DownRec
    BY <1>1, <1>4, Types
  <2> QED BY <1>1, <1>4, <2>1, <2>2, <2>3, QuietStep
<1>5. CASE /\ ~fwd.closing /\ Len(fwd.pending) < Forward /\ fwd' = [fwd EXCEPT !.pending = Append(fwd.pending, eval.job)]
           /\ eval' = [eval EXCEPT !.pc = "send"] /\ UNCHANGED <<up, jobs, asleep>>
  <2> DEFINE D == Done(up.read, eval.job, jobs.q, recv.job)
             p == Append(fwd.pending, eval.job)
  <2>1. eval.job \in Ids /\ fwd.pending \in Seq(Ids) /\ Len(fwd.pending) \in Nat /\ up.out \in Seq(Reply)
    BY <1>2, Fields
  <2>2. p \in Seq(Ids) /\ Len(p) = Len(fwd.pending) + 1
    BY <2>1, AppendProperties
  <2>3. /\ \A k \in 1..Len(up.out) : up.out[k].id < eval.job
        /\ \A k \in 1..Len(fwd.pending) : fwd.pending[k] < eval.job
    BY <1>1, <1>2, InHand
  <2>4. fwd' \in FwdRec /\ fwd'.pending = p /\ fwd'.exists = fwd.exists
    <3> HIDE DEF p
    <3>1. fwd' = [fwd EXCEPT !.pending = p]
      BY <1>5 DEF p
    <3> QED BY <3>1, <1>2, <2>2 DEF FwdRec
  <2>5. eval' \in EvalRec /\ eval'.pc = "send" /\ eval'.job = eval.job
    BY <1>2, <1>5 DEF EvalRec
  <2>6. Len(p) <= Forward
    BY <1>5, <2>1, <2>2, IdFacts
  <2>7. Sending(eval) = {} /\ Sending(eval') = {eval.job}
    BY <1>1, <2>5 DEF Sending
  <2>8. Travel(D, {}, up.out, fwd.pending, down.frames, down.results)
    BY <2>7 DEF WorkerInv
  <2> HIDE DEF D
  <2>9. Travel(D, {eval.job}, up.out, fwd.pending, down.frames, down.results)
    BY <2>8, TravelMono
  <2>10. p \in Seq(D \cup {eval.job}) /\ Increasing(p)
    <3>1. fwd.pending \in Seq(D \cup {eval.job}) /\ Increasing(fwd.pending)
      BY <2>9 DEF Travel
    <3>2. Ids \in SUBSET Nat
      BY IdFacts
    <3> QED BY <2>1, <2>3, <3>1, <3>2, AppendProperties, IncreasingAppend
  <2>11. Travel(D, {eval.job}, up.out, p, down.frames, down.results)
    BY <2>9, <2>10 DEF Travel
  <2>12. relay \in Serving => p \in Seq(Unanswered(up.out))
    <3> SUFFICES ASSUME relay \in Serving PROVE p \in Seq(Unanswered(up.out))
      OBVIOUS
    <3>1. fwd.pending \in Seq(Unanswered(up.out))
      BY DEF WorkerInv
    <3>2. \A k \in 1..Len(up.out) : up.out[k].id \in Nat
      <4>1. \A k \in 1..Len(up.out) : up.out[k] \in Reply
        BY <2>1, ElementOfSeq
      <4> QED BY <4>1, IdFacts DEF Reply
    <3>3. eval.job \in Nat
      BY <2>1, IdFacts
    <3>4. \A k \in 1..Len(up.out) : up.out[k].id # eval.job
      BY <2>3, <3>2, <3>3
    <3>5. eval.job \in Unanswered(up.out)
      BY <2>1, <2>3, <3>4 DEF Unanswered
    <3> QED BY <3>1, <3>5, AppendProperties
  <2> HIDE DEF p
  <2>13. Lives(recv', eval', fwd', relay')
    BY <1>1, <1>2, <2>4, <2>5, Living DEF Lives
  <2>14. /\ up' \in UpRec /\ jobs' \in JobsRec /\ recv' \in RecvRec /\ relay' \in Relays /\ down' \in DownRec /\ asleep' \in Waits
         /\ Len(jobs'.q) <= Depth /\ Len(fwd'.pending) <= Forward
    BY <1>1, <1>5, <2>4, <2>6, Types
  <2>15. D = Done(up'.read, eval'.job, jobs'.q, recv'.job) /\ Chain(up'.read, eval'.job, jobs'.q, recv'.job)
    BY <1>1, <1>5, <2>5, Living DEF D
  <2>16. /\ Travel(D, Sending(eval'), up'.out, fwd'.pending, down'.frames, down'.results)
         /\ (relay' \in Serving => fwd'.pending \in Seq(Unanswered(up'.out)))
    BY <1>1, <1>5, <2>4, <2>7, <2>11, <2>12
  <2>17. Verdicts(up'.out)
    BY <1>5 DEF WorkerInv
  <2> QED BY <2>4, <2>5, <2>13, <2>14, <2>15, <2>16, <2>17, Step
<1> QED BY <1>3, <1>4, <1>5 DEF Track

LEMMA SendDownInv == ASSUME WorkerInv, SendDown PROVE WorkerInv'
<1>1. /\ eval.pc = "send" /\ down' = [down EXCEPT !.frames = Append(down.frames, eval.job)] /\ eval' = [pc |-> "pop", job |-> None]
      /\ UNCHANGED <<up, jobs, recv, fwd, relay, asleep>>
  BY DEF SendDown
<1>2. eval.job # None /\ eval.job \in Ids /\ down.frames \in Seq(Ids) /\ down \in DownRec
  BY <1>1, Living, Fields, Types DEF Lives
<1> DEFINE D2 == Done(up.read, None, jobs.q, recv.job)
           fr == Append(down.frames, eval.job)
<1>3. /\ Chain(up.read, None, jobs.q, recv.job) /\ eval.job \in D2
      /\ Travel(D2, {}, up.out, fwd.pending, down.frames, down.results)
  BY <1>2, Finished
<1>4. eval' \in EvalRec /\ eval'.pc = "pop" /\ eval'.job = None /\ Sending(eval') = {}
  BY <1>1 DEF EvalRec, Sending
<1>5. D2 = Done(up'.read, eval'.job, jobs'.q, recv'.job) /\ Chain(up'.read, eval'.job, jobs'.q, recv'.job)
  BY <1>1, <1>3, <1>4
<1> HIDE DEF D2
<1>6. fr \in Seq(Ids) /\ fr \in Seq(D2)
  BY <1>2, <1>3, AppendProperties DEF Travel
<1> HIDE DEF fr
<1>7. down' \in DownRec /\ down'.frames = fr /\ down'.results = down.results
  <2>1. down' = [down EXCEPT !.frames = fr]
    BY <1>1 DEF fr
  <2> QED BY <2>1, <1>2, <1>6 DEF DownRec
<1>8. Travel(D2, {}, up.out, fwd.pending, fr, down.results)
  BY <1>3, <1>6 DEF Travel
<1>9. Lives(recv', eval', fwd', relay')
  BY <1>1, <1>4, Living DEF Lives
<1>10. /\ up' \in UpRec /\ jobs' \in JobsRec /\ recv' \in RecvRec /\ fwd' \in FwdRec /\ relay' \in Relays /\ asleep' \in Waits
       /\ Len(jobs'.q) <= Depth /\ Len(fwd'.pending) <= Forward
  BY <1>1, Types
<1>11. Travel(D2, Sending(eval'), up'.out, fwd'.pending, down'.frames, down'.results)
  BY <1>1, <1>4, <1>7, <1>8
<1>12. Verdicts(up'.out) /\ (relay' \in Serving => fwd'.pending \in Seq(Unanswered(up'.out)))
  BY <1>1 DEF WorkerInv
<1> QED BY <1>4, <1>5, <1>7, <1>9, <1>10, <1>11, <1>12, Step

LEMMA SendDownFailsInv == ASSUME WorkerInv, SendDownFails PROVE WorkerInv'
<1> DEFINE p == Untracked(fwd.pending, eval.job)
<1>1. /\ eval.pc = "send" /\ fwd' = [fwd EXCEPT !.pending = p, !.open = FALSE]
      /\ up' = [Sent(up, eval.job, FALSE) EXCEPT !.open = FALSE] /\ UNCHANGED <<recv, relay, down>>
  BY DEF SendDownFails
<1>2. eval.job # None /\ eval.job \in Ids /\ eval.job \in Nat /\ fwd \in FwdRec /\ up \in UpRec /\ fwd.pending \in Seq(Ids) /\ up.out \in Seq(Reply)
      /\ Len(fwd.pending) \in Nat /\ Len(fwd.pending) <= Forward
  BY <1>1, Living, Fields, Types DEF Lives
<1>3. /\ eval' \in EvalRec /\ eval'.pc \in {"pop", "gone"} /\ eval'.job = None /\ jobs' \in JobsRec /\ asleep' \in Waits
      /\ (jobs'.q = jobs.q \/ jobs'.q = <<>>) /\ Len(jobs'.q) <= Depth /\ Sending(eval') = {}
  BY GoesOn DEF SendDownFails
<1>4. up' \in UpRec /\ up'.read = up.read /\ (up'.out = up.out \/ up'.out = Append(up.out, [id |-> eval.job, ok |-> FALSE]))
  <2> DEFINE u == Sent(up, eval.job, FALSE)
  <2>1. u \in UpRec /\ u.read = up.read /\ (u.out = up.out \/ u.out = Append(up.out, [id |-> eval.job, ok |-> FALSE]))
    BY <1>2, SentFacts
  <2>2. up' = [u EXCEPT !.open = FALSE]
    BY <1>1
  <2> HIDE DEF u
  <2> QED BY <2>1, <2>2, ShutFacts
<1> DEFINE D2 == Done(up.read, None, jobs'.q, recv.job)
           none == {}
           o2 == up'.out
<1>5. /\ Chain(up.read, None, jobs'.q, recv.job) /\ eval.job \in D2 /\ D2 \in SUBSET Ids
      /\ Travel(D2, {}, up.out, fwd.pending, down.frames, down.results)
  BY <1>2, <1>3, Finished
<1>6. D2 = Done(up'.read, eval'.job, jobs'.q, recv'.job) /\ Chain(up'.read, eval'.job, jobs'.q, recv'.job)
  BY <1>1, <1>3, <1>4, <1>5
<1> HIDE DEF D2
<1>7. Verdicts(up.out) /\ \A k \in 1..Len(up.out) : up.out[k].ok => up.out[k].id # eval.job
  BY <1>2, InHand DEF WorkerInv
<1>8. /\ none \in SUBSET Ids /\ eval.job \in D2 \cup none /\ D2 \in SUBSET Ids
      /\ Travel(D2, none, up.out, fwd.pending, down.frames, down.results)
  BY <1>5
<1>9. o2 = up.out \/ o2 = Append(up.out, [id |-> eval.job, ok |-> FALSE])
  BY <1>4
<1> HIDE DEF o2, none
<1>10. Travel(D2, none, o2, fwd.pending, down.frames, down.results) /\ Verdicts(o2)
  BY <1>7, <1>8, <1>9, SaidError
<1>11. Ids \in SUBSET Nat /\ Increasing(fwd.pending) /\ fwd.pending \in Seq(D2 \cup none) /\ D2 \cup none \in SUBSET Nat
  BY <1>8, IdFacts DEF Travel
<1>12. /\ p \in Seq(Ids) /\ Increasing(p) /\ Len(p) <= Len(fwd.pending)
       /\ \A k \in 1..Len(p) : p[k] # eval.job /\ \E j \in 1..Len(fwd.pending) : p[k] = fwd.pending[j]
  <2> DEFINE s == fwd.pending
             id == eval.job
             ps == Untracked(s, id)
  <2>1. Ids \in SUBSET Nat /\ Increasing(s) /\ s \in Seq(Ids) /\ id \in Nat
    BY <1>2, <1>11
  <2>2. p = ps
    OBVIOUS
  <2> HIDE DEF s, id, p
  <2>3. /\ ps \in Seq(Ids) /\ Increasing(ps) /\ Len(ps) <= Len(s)
        /\ \A k \in 1..Len(ps) : ps[k] # id /\ \E j \in 1..Len(s) : ps[k] = s[j]
    BY ONLY <2>1, UntrackedFacts
  <2> QED BY <2>2, <2>3 DEF s, id
<1>13. p \in Seq(D2 \cup none)
  BY <1>2, <1>11, UntrackedFacts
<1> HIDE DEF p
<1>14. Travel(D2, none, o2, p, down.frames, down.results)
  BY <1>10, <1>12, <1>13 DEF Travel
<1>15. relay \in Serving => p \in Seq(Unanswered(o2))
  <2> SUFFICES ASSUME relay \in Serving PROVE p \in Seq(Unanswered(o2))
    OBVIOUS
  <2>1. fwd.pending \in Seq(Unanswered(up.out))
    BY DEF WorkerInv
  <2>2. \A k \in 1..Len(fwd.pending) : fwd.pending[k] \in Unanswered(up.out)
    BY <2>1, ElementOfSeq
  <2>3. \A k \in 1..Len(p) : p[k] \in Unanswered(up.out)
    BY <1>12, <2>2
  <2>4. p \in Seq(Unanswered(up.out))
    BY <1>12, <2>3, SeqIn
  <2>5. \A k \in 1..Len(p) : p[k] # eval.job
    BY <1>12
  <2>6. up.out \in Seq(Reply) /\ eval.job \in Ids
    BY <1>2, Fields
  <2> DEFINE out == up.out
             id == eval.job
  <2>7. /\ out \in Seq(Reply) /\ id \in Ids /\ p \in Seq(Unanswered(out)) /\ \A k \in 1..Len(p) : p[k] # id
        /\ (o2 = out \/ o2 = Append(out, [id |-> id, ok |-> FALSE]))
    BY <1>9, <2>4, <2>5, <2>6
  <2> HIDE DEF out, id
  <2> QED BY ONLY <2>7, StillAfterError
<1>16. fwd' \in FwdRec /\ fwd'.pending = p /\ fwd'.exists = fwd.exists
  <2>1. fwd' = [fwd EXCEPT !.pending = p, !.open = FALSE] /\ fwd \in FwdRec /\ p \in Seq(Ids)
    BY <1>1, <1>2, <1>12
  <2> QED BY <2>1 DEF FwdRec
<1>17. Len(p) <= Forward
  <2>1. Len(p) \in Nat
    BY <1>12, LenProperties
  <2> QED BY <2>1, <1>2, <1>12, IdFacts
<1>18. Lives(recv', eval', fwd', relay')
  BY <1>1, <1>3, <1>16, Living DEF Lives
<1>19. recv' \in RecvRec /\ relay' \in Relays /\ down' \in DownRec
  BY <1>1, Types
<1>20. /\ Travel(D2, Sending(eval'), up'.out, fwd'.pending, down'.frames, down'.results) /\ Verdicts(up'.out)
       /\ (relay' \in Serving => fwd'.pending \in Seq(Unanswered(up'.out))) /\ Len(fwd'.pending) <= Forward
  BY <1>1, <1>3, <1>10, <1>14, <1>15, <1>16, <1>17 DEF o2, none
<1> QED BY <1>3, <1>4, <1>6, <1>16, <1>18, <1>19, <1>20, Step

-----------------------------------------------------------------------------
(* The relay thread and the neighbours. *)

\* The next worker has read or answered, or the relay has seen that it is gone.
LEMMA DownStep ==
  ASSUME WorkerInv, UNCHANGED <<up, jobs, recv, eval, fwd, asleep>>, relay' = relay \/ (relay = "read" /\ relay' = "close"),
         down' \in DownRec, NEW D, D = Done(up.read, eval.job, jobs.q, recv.job),
         down'.frames \in Seq(D), down'.results \in Seq({m \in Result : m.id \in D})
  PROVE  WorkerInv'
<1>1. Travel(D, Sending(eval), up.out, fwd.pending, down.frames, down.results)
  BY DEF WorkerInv
<1>2. Travel(D, Sending(eval), up.out, fwd.pending, down'.frames, down'.results)
  BY <1>1 DEF Travel
<1>3. D = Done(up'.read, eval'.job, jobs'.q, recv'.job) /\ Chain(up'.read, eval'.job, jobs'.q, recv'.job)
  BY Living
<1>4. Lives(recv', eval', fwd', relay')
  BY Living DEF Lives
<1>5. /\ up' \in UpRec /\ jobs' \in JobsRec /\ recv' \in RecvRec /\ eval' \in EvalRec /\ fwd' \in FwdRec /\ relay' \in Relays
      /\ asleep' \in Waits /\ Len(jobs'.q) <= Depth /\ Len(fwd'.pending) <= Forward
  BY Types DEF Relays
<1>6. Travel(D, Sending(eval'), up'.out, fwd'.pending, down'.frames, down'.results)
  BY <1>2
<1>7. Verdicts(up'.out) /\ (relay' \in Serving => fwd'.pending \in Seq(Unanswered(up'.out)))
  BY DEF WorkerInv, Serving
<1> QED BY <1>3, <1>4, <1>5, <1>6, <1>7, Step

LEMMA Below ==
  ASSUME WorkerInv, NEW D, D = Done(up.read, eval.job, jobs.q, recv.job)
  PROVE  /\ Travel(D, Sending(eval), up.out, fwd.pending, down.frames, down.results)
         /\ down.frames \in Seq(D) /\ down.results \in Seq({m \in Result : m.id \in D}) /\ D \in SUBSET Ids
         /\ Sending(eval) \in SUBSET Ids
<1>1. Travel(D, Sending(eval), up.out, fwd.pending, down.frames, down.results)
  BY DEF WorkerInv
<1>2. D \in SUBSET Ids
  BY DoneIds
<1>3. eval.pc = "send" => eval.job \in Ids
  BY Living, Fields DEF Lives
<1>4. Sending(eval) \in SUBSET Ids
  BY <1>3 DEF Sending
<1> QED BY <1>1, <1>2, <1>4 DEF Travel

LEMMA ResultRead ==
  ASSUME WorkerInv, down.results # <<>>, down' = [down EXCEPT !.results = Tail(down.results)],
         NEW D, D = Done(up.read, eval.job, jobs.q, recv.job)
  PROVE  /\ down' \in DownRec /\ down'.frames = down.frames /\ down'.frames \in Seq(D)
         /\ down'.results \in Seq({m \in Result : m.id \in D}) /\ Head(down.results).id \in D
<1> DEFINE R == {m \in Result : m.id \in D}
<1>1. down.frames \in Seq(D) /\ down.results \in Seq(R)
  BY Below
<1>2. \A m \in R : m.id \in D
  OBVIOUS
<1>3. R \subseteq Result
  OBVIOUS
<1> HIDE DEF R
<1>4. Tail(down.results) \in Seq(R) /\ Head(down.results) \in R
  BY <1>1, HeadTailProperties
<1>5. Tail(down.results) \in Seq(Result)
  BY <1>3, <1>4, SeqMono
<1>6. down \in DownRec
  BY Types
<1>7. down' \in DownRec /\ down'.frames = down.frames /\ down'.results = Tail(down.results)
  BY <1>5, <1>6 DEF DownRec, Result
<1> QED BY <1>1, <1>2, <1>4, <1>7 DEF R

\* The relay takes the oldest pending request off and may say something.
LEMMA RelaySays ==
  ASSUME WorkerInv, relay = "read", fwd.pending # <<>>, PopPending, UNCHANGED <<jobs, recv, eval>>, up' \in UpRec, up'.read = up.read,
         down' \in DownRec, NEW D, D = Done(up.read, eval.job, jobs.q, recv.job), down'.frames \in Seq(D),
         down'.results \in Seq({m \in Result : m.id \in D}),
         Travel(D, Sending(eval), up'.out, fwd.pending, down.frames, down.results), Verdicts(up'.out),
         relay' \in {"read", "close"}, relay' \in Serving => Tail(fwd.pending) \in Seq(Unanswered(up'.out))
  PROVE  WorkerInv'
<1> DEFINE p == Tail(fwd.pending)
<1>1. fwd' = [fwd EXCEPT !.pending = p] /\ asleep' \in Waits
  BY Signalled DEF PopPending
<1>2. fwd.pending \in Seq(Ids) /\ Len(fwd.pending) \in Nat /\ Len(fwd.pending) <= Forward /\ fwd \in FwdRec
  BY Fields, Types
<1>3. fwd.pending \in Seq(D \cup Sending(eval)) /\ Increasing(fwd.pending) /\ Ids \in SUBSET Nat
  BY IdFacts DEF Travel
<1>4. p \in Seq(Ids) /\ Len(p) = Len(fwd.pending) - 1 /\ p \in Seq(D \cup Sending(eval))
  BY <1>2, <1>3, TailFacts
<1>5. Increasing(p)
  BY <1>2, <1>3, IncreasingTail
<1> HIDE DEF p
<1>6. fwd' \in FwdRec /\ fwd'.pending = p /\ fwd'.exists = fwd.exists
  <2>1. fwd' = [fwd EXCEPT !.pending = p] /\ fwd \in FwdRec /\ p \in Seq(Ids)
    BY <1>1, <1>2, <1>4
  <2> QED BY <2>1 DEF FwdRec
<1>7. Len(p) <= Forward
  BY <1>2, <1>4, IdFacts
<1>8. Travel(D, Sending(eval), up'.out, p, down'.frames, down'.results)
  BY <1>4, <1>5 DEF Travel
<1>9. Travel(D, Sending(eval'), up'.out, fwd'.pending, down'.frames, down'.results)
  BY <1>6, <1>8
<1>10. D = Done(up'.read, eval'.job, jobs'.q, recv'.job) /\ Chain(up'.read, eval'.job, jobs'.q, recv'.job)
  BY Living
<1>11. fwd.exists /\ recv.pc # "gone"
  BY Living DEF Lives
<1>12. Lives(recv', eval', fwd', relay')
  BY <1>6, <1>11, Living DEF Lives
<1>13. /\ jobs' \in JobsRec /\ recv' \in RecvRec /\ eval' \in EvalRec /\ relay' \in Relays /\ Len(jobs'.q) <= Depth
  BY Types DEF Relays
<1>14. Len(fwd'.pending) <= Forward /\ (relay' \in Serving => fwd'.pending \in Seq(Unanswered(up'.out)))
  BY <1>6, <1>7 DEF p
<1> QED BY <1>1, <1>6, <1>9, <1>10, <1>12, <1>13, <1>14, Step

\* What the relay knows of the oldest pending request.
LEMMA Oldest ==
  ASSUME WorkerInv, relay = "read", fwd.pending # <<>>, NEW D, D = Done(up.read, eval.job, jobs.q, recv.job)
  PROVE  /\ Head(fwd.pending) \in Unanswered(up.out) /\ Head(fwd.pending) \in D \cup Sending(eval) /\ Head(fwd.pending) \in Ids
         /\ Tail(fwd.pending) \in Seq(Unanswered(up.out))
         /\ \A k \in 1..Len(Tail(fwd.pending)) : Head(fwd.pending) < Tail(fwd.pending)[k] /\ Tail(fwd.pending)[k] # Head(fwd.pending)
<1>1. fwd.pending \in Seq(Unanswered(up.out)) /\ fwd.pending \in Seq(D \cup Sending(eval)) /\ Increasing(fwd.pending)
  BY Below DEF WorkerInv, Travel, Serving
<1>2. fwd.pending \in Seq(Ids) /\ Ids \in SUBSET Nat
  BY Fields, IdFacts
<1>3. Head(fwd.pending) \in Unanswered(up.out) /\ Tail(fwd.pending) \in Seq(Unanswered(up.out))
  BY <1>1, HeadTailProperties
<1>4. Head(fwd.pending) \in D \cup Sending(eval)
  BY <1>1, HeadTailProperties
<1>5. Head(fwd.pending) \in Ids /\ Tail(fwd.pending) \in Seq(Ids)
  BY <1>2, HeadTailProperties
<1>6. \A k \in 1..Len(Tail(fwd.pending)) : Head(fwd.pending) < Tail(fwd.pending)[k]
  BY <1>1, <1>2, IncreasingTail
<1>7. \A k \in 1..Len(Tail(fwd.pending)) : Tail(fwd.pending)[k] \in Ids
  BY <1>5, ElementOfSeq
<1>8. \A x, y \in Ids : x < y => y # x
  BY IdFacts
<1>9. \A k \in 1..Len(Tail(fwd.pending)) : Tail(fwd.pending)[k] # Head(fwd.pending)
  BY <1>5, <1>6, <1>7, <1>8
<1> QED BY <1>3, <1>4, <1>5, <1>6, <1>9

LEMMA RelayResultInv == ASSUME WorkerInv, RelayResult PROVE WorkerInv'
<1> DEFINE D == Done(up.read, eval.job, jobs.q, recv.job)
           id == Head(fwd.pending)
           o2 == up'.out
<1>1. /\ relay = "read" /\ down.results # <<>> /\ fwd.pending # <<>> /\ Head(down.results).id = id /\ PopPending
      /\ up' = Sent(up, id, TRUE) /\ down' = [down EXCEPT !.results = Tail(down.results)] /\ relay' \in {"read", "close"}
      /\ UNCHANGED <<jobs, recv, eval>>
  BY DEF RelayResult, Fits
<1>2. /\ down' \in DownRec /\ down'.frames \in Seq(D) /\ down'.results \in Seq({m \in Result : m.id \in D}) /\ id \in D
  BY <1>1, ResultRead
<1>3. /\ id \in Unanswered(up.out) /\ id \in Ids /\ Tail(fwd.pending) \in Seq(Unanswered(up.out))
      /\ \A k \in 1..Len(Tail(fwd.pending)) : id < Tail(fwd.pending)[k] /\ Tail(fwd.pending)[k] # id
  BY <1>1, Oldest
<1>4. up' \in UpRec /\ up'.read = up.read /\ (o2 = up.out \/ o2 = Append(up.out, [id |-> id, ok |-> TRUE]))
  <2>1. up \in UpRec
    BY Types
  <2> HIDE DEF id
  <2> QED BY <1>1, <1>3, <2>1, SentFacts
<1>5. /\ Travel(D, Sending(eval), up.out, fwd.pending, down.frames, down.results) /\ D \in SUBSET Ids /\ Sending(eval) \in SUBSET Ids
      /\ Verdicts(up.out) /\ up.out \in Seq(Reply)
  BY Below, Fields DEF WorkerInv
<1>6. D = Done(up.read, eval.job, jobs.q, recv.job)
  OBVIOUS
<1> HIDE DEF D, id, o2
<1>7. Travel(D, Sending(eval), o2, fwd.pending, down.frames, down.results) /\ Verdicts(o2)
  <2>1. o2 = up.out \/ o2 = Append(up.out, [id |-> id, ok |-> TRUE])
    BY <1>4
  <2>2. id \in D /\ id \in Unanswered(up.out)
    BY <1>2, <1>3
  <2> QED BY <1>5, <2>1, <2>2, SaidResult
<1>8. Tail(fwd.pending) \in Seq(Unanswered(o2))
  <2> DEFINE t == Tail(fwd.pending)
             yes == TRUE
  <2>1. (o2 = up.out \/ o2 = Append(up.out, [id |-> id, ok |-> yes])) /\ yes \in BOOLEAN
    BY <1>4
  <2>2. up.out \in Seq(Reply) /\ id \in Ids
    BY <1>3, <1>5
  <2>3. t \in Seq(Unanswered(up.out)) /\ \A k \in 1..Len(t) : t[k] # id /\ (yes => id < t[k])
    BY <1>3
  <2> HIDE DEF t, yes
  <2>4. t \in Seq(Unanswered(o2))
    BY <2>1, <2>2, <2>3, StillUnanswered
  <2> QED BY <2>4 DEF t
<1>9. /\ Travel(D, Sending(eval), up'.out, fwd.pending, down.frames, down.results) /\ Verdicts(up'.out)
      /\ Tail(fwd.pending) \in Seq(Unanswered(up'.out))
  BY <1>7, <1>8 DEF o2
<1> QED BY <1>1, <1>2, <1>4, <1>6, <1>9, RelaySays

LEMMA RelayTruncatedInv == ASSUME WorkerInv, RelayTruncated PROVE WorkerInv'
<1> DEFINE D == Done(up.read, eval.job, jobs.q, recv.job)
<1>1. /\ relay = "read" /\ down.results # <<>> /\ fwd.pending # <<>> /\ PopPending
      /\ up' = [up EXCEPT !.torn = TRUE] /\ down' = [down EXCEPT !.results = Tail(down.results)] /\ relay' = "close"
      /\ UNCHANGED <<jobs, recv, eval>>
  BY DEF RelayTruncated
<1>2. /\ down' \in DownRec /\ down'.frames \in Seq(D) /\ down'.results \in Seq({m \in Result : m.id \in D})
  BY <1>1, ResultRead
<1>3. up \in UpRec
  BY Types
<1>4. up' \in UpRec /\ up'.read = up.read /\ up'.out = up.out
  BY <1>1, <1>3 DEF UpRec
<1>5. Travel(D, Sending(eval), up'.out, fwd.pending, down.frames, down.results) /\ Verdicts(up'.out)
  BY <1>4 DEF WorkerInv
<1>6. D = Done(up.read, eval.job, jobs.q, recv.job)
  OBVIOUS
<1> HIDE DEF D
<1> QED BY <1>1, <1>2, <1>4, <1>5, <1>6, RelaySays DEF Serving

\* The relay stops and tells the oldest request, if there is one.
LEMMA RelayStops ==
  ASSUME WorkerInv, relay = "read", fwd.pending # <<>>, PopPending, up' = Sent(up, Head(fwd.pending), FALSE), relay' = "close",
         UNCHANGED <<jobs, recv, eval>>, down' \in DownRec, NEW D, D = Done(up.read, eval.job, jobs.q, recv.job),
         down'.frames \in Seq(D), down'.results \in Seq({m \in Result : m.id \in D})
  PROVE  WorkerInv'
<1> DEFINE id == Head(fwd.pending)
           o2 == up'.out
<1>1. id \in Unanswered(up.out) /\ id \in D \cup Sending(eval) /\ id \in Ids /\ up \in UpRec
  BY Oldest, Types
<1>2. up' \in UpRec /\ up'.read = up.read /\ (o2 = up.out \/ o2 = Append(up.out, [id |-> id, ok |-> FALSE]))
  <2>1. up' = Sent(up, id, FALSE)
    OBVIOUS
  <2> HIDE DEF id
  <2> QED BY <1>1, <2>1, SentFacts
<1>3. /\ Travel(D, Sending(eval), up.out, fwd.pending, down.frames, down.results) /\ D \in SUBSET Ids /\ Sending(eval) \in SUBSET Ids
      /\ Verdicts(up.out)
  BY Below DEF WorkerInv
<1>4. \A k \in 1..Len(up.out) : up.out[k].ok => up.out[k].id # id
  BY <1>1 DEF Unanswered
<1> HIDE DEF id, o2
<1>5. Travel(D, Sending(eval), o2, fwd.pending, down.frames, down.results) /\ Verdicts(o2)
  <2>1. o2 = up.out \/ o2 = Append(up.out, [id |-> id, ok |-> FALSE])
    BY <1>2
  <2>2. id \in D \cup Sending(eval)
    BY <1>1
  <2> QED BY <1>3, <1>4, <2>1, <2>2, SaidError
<1>6. Travel(D, Sending(eval), up'.out, fwd.pending, down.frames, down.results) /\ Verdicts(up'.out)
  BY <1>5 DEF o2
<1> QED BY <1>2, <1>6, RelaySays DEF Serving

LEMMA RelayInvalidInv == ASSUME WorkerInv, RelayInvalid PROVE WorkerInv'
<1> DEFINE D == Done(up.read, eval.job, jobs.q, recv.job)
<1>1. /\ relay = "read" /\ down.results # <<>> /\ down' = [down EXCEPT !.results = Tail(down.results)] /\ relay' = "close"
      /\ UNCHANGED <<jobs, recv, eval>>
      /\ IF fwd.pending = <<>> THEN UNCHANGED <<fwd, up, asleep>>
         ELSE PopPending /\ up' = Sent(up, Head(fwd.pending), FALSE)
  BY DEF RelayInvalid
<1>2. /\ down' \in DownRec /\ down'.frames \in Seq(D) /\ down'.results \in Seq({m \in Result : m.id \in D})
  BY <1>1, ResultRead
<1>3. D = Done(up.read, eval.job, jobs.q, recv.job)
  OBVIOUS
<1> HIDE DEF D
<1>4. CASE fwd.pending = <<>>
  BY <1>1, <1>2, <1>3, <1>4, DownStep
<1>5. CASE fwd.pending # <<>>
  BY <1>1, <1>2, <1>3, <1>5, RelayStops
<1> QED BY <1>4, <1>5

LEMMA RelayEndsInv == ASSUME WorkerInv, RelayEnds PROVE WorkerInv'
<1> DEFINE D == Done(up.read, eval.job, jobs.q, recv.job)
<1>1. /\ relay = "read" /\ relay' = "close" /\ UNCHANGED <<jobs, recv, eval, down>>
      /\ IF fwd.pending = <<>> THEN UNCHANGED <<fwd, up, asleep>>
         ELSE PopPending /\ up' = Sent(up, Head(fwd.pending), FALSE)
  BY DEF RelayEnds
<1>2. D = Done(up.read, eval.job, jobs.q, recv.job)
  OBVIOUS
<1> HIDE DEF D
<1>3. down.frames \in Seq(D) /\ down.results \in Seq({m \in Result : m.id \in D}) /\ down \in DownRec
  BY <1>2, Below, Types
<1>4. /\ down' \in DownRec /\ down'.frames \in Seq(D) /\ down'.results \in Seq({m \in Result : m.id \in D})
  BY <1>1, <1>3
<1>5. CASE fwd.pending = <<>>
  BY <1>1, <1>2, <1>4, <1>5, DownStep
<1>6. CASE fwd.pending # <<>>
  BY <1>1, <1>2, <1>4, <1>6, RelayStops
<1> QED BY <1>5, <1>6

LEMMA RelayBeginsInv == ASSUME WorkerInv, RelayStarts \/ RelayStarves PROVE WorkerInv'
<1>1. /\ relay = "start" /\ relay' \in {"read", "gone"} /\ (up' = up \/ up' = [up EXCEPT !.open = FALSE])
      /\ UNCHANGED <<jobs, recv, eval, fwd, down, asleep>>
  BY DEF RelayStarts, RelayStarves
<1>2. up' \in UpRec /\ up'.out = up.out /\ up'.read = up.read
  BY <1>1, Types, ShutFacts
<1>3. /\ jobs' \in JobsRec /\ recv' \in RecvRec /\ eval' \in EvalRec /\ fwd' \in FwdRec /\ relay' \in Relays
      /\ down' \in DownRec /\ asleep' \in Waits
  BY <1>1, Types DEF Relays
<1>4. Lives(recv', eval', fwd', relay')
  BY <1>1, Living DEF Lives
<1> QED BY <1>1, <1>2, <1>3, <1>4, QuietStep DEF Serving

LEMMA RelayClosesInv == ASSUME WorkerInv, RelayCloses PROVE WorkerInv'
<1>1. /\ relay = "close" /\ fwd' = [fwd EXCEPT !.closing = TRUE] /\ up' = [up EXCEPT !.open = FALSE] /\ relay' = "gone"
      /\ UNCHANGED <<jobs, recv, eval, down>>
  BY DEF RelayCloses
<1>2. asleep' \in Waits
  BY Signalled DEF RelayCloses
<1>3. fwd \in FwdRec /\ up \in UpRec
  BY Types
<1>4. fwd' \in FwdRec /\ fwd'.pending = fwd.pending /\ fwd'.exists = fwd.exists
  BY <1>1, <1>3 DEF FwdRec
<1>5. up' \in UpRec /\ up'.out = up.out /\ up'.read = up.read
  BY <1>1, <1>3, ShutFacts
<1>6. jobs' \in JobsRec /\ recv' \in RecvRec /\ eval' \in EvalRec /\ down' \in DownRec /\ relay' \in Relays
  BY <1>1, Types DEF Relays
<1>7. Lives(recv', eval', fwd', relay')
  BY <1>1, <1>4, Living DEF Lives
<1> QED BY <1>1, <1>2, <1>4, <1>5, <1>6, <1>7, QuietStep DEF Serving

LEMMA UpstreamInv == ASSUME WorkerInv, UpstreamSends \/ UpstreamLeaves PROVE WorkerInv'
<1>1. UNCHANGED <<jobs, recv, eval, fwd, relay, down, asleep>>
  BY DEF UpstreamSends, UpstreamLeaves
<1>2. up \in UpRec
  BY Types
<1>3. up' \in UpRec /\ up'.out = up.out /\ up'.read = up.read
  <2>1. CASE UpstreamSends
    <3>1. up' = [up EXCEPT !.sent = up.sent + 1] /\ up.sent < Requests
      BY <2>1 DEF UpstreamSends
    <3>2. up.sent + 1 \in 0..Requests
      BY <3>1, <1>2, IdFacts DEF UpRec
    <3> QED BY <3>1, <3>2, <1>2 DEF UpRec
  <2>2. CASE UpstreamLeaves
    BY <2>2, <1>2 DEF UpstreamLeaves, UpRec
  <2> QED BY <2>1, <2>2
<1>4. /\ jobs' \in JobsRec /\ recv' \in RecvRec /\ eval' \in EvalRec /\ fwd' \in FwdRec /\ relay' \in Relays /\ down' \in DownRec
      /\ asleep' \in Waits
  BY <1>1, Types
<1>5. Lives(recv', eval', fwd', relay')
  BY <1>1, Living
<1> QED BY <1>1, <1>3, <1>4, <1>5, QuietStep

LEMMA DownAnswersInv == ASSUME WorkerInv, NEW valid \in BOOLEAN, DownAnswers(valid) PROVE WorkerInv'
<1> DEFINE D == Done(up.read, eval.job, jobs.q, recv.job)
           R == {x \in Result : x.id \in D}
           m == [id |-> Head(down.frames), valid |-> valid]
<1>1. /\ down.frames # <<>> /\ down' = [down EXCEPT !.frames = Tail(down.frames), !.results = Append(down.results, m)]
      /\ UNCHANGED <<up, jobs, recv, eval, fwd, relay, asleep>>
  BY DEF DownAnswers
<1>2. down.frames \in Seq(D) /\ down.results \in Seq(R) /\ D \in SUBSET Ids /\ down \in DownRec
  BY Below, Types
<1>3. D = Done(up.read, eval.job, jobs.q, recv.job)
  OBVIOUS
<1> HIDE DEF D
<1>4. Tail(down.frames) \in Seq(D) /\ Head(down.frames) \in D
  BY <1>1, <1>2, HeadTailProperties
<1>5. m \in R /\ R \subseteq Result
  BY <1>2, <1>4 DEF Result
<1> HIDE DEF m, R
<1>6. Append(down.results, m) \in Seq(R)
  BY <1>2, <1>5, AppendProperties
<1>7. Append(down.results, m) \in Seq(Result) /\ Tail(down.frames) \in Seq(Ids)
  BY <1>2, <1>4, <1>5, <1>6, SeqMono
<1>8. down' \in DownRec /\ down'.frames = Tail(down.frames) /\ down'.results = Append(down.results, m)
  <2>1. down' = [down EXCEPT !.frames = Tail(down.frames), !.results = Append(down.results, m)]
    BY <1>1
  <2> QED BY <2>1, <1>2, <1>7 DEF DownRec, Result
<1>9. down'.frames \in Seq(D) /\ down'.results \in Seq({x \in Result : x.id \in D})
  BY <1>4, <1>6, <1>8 DEF R
<1> QED BY <1>1, <1>3, <1>8, <1>9, DownStep

LEMMA DownOvertakesInv == ASSUME WorkerInv, DownOvertakes PROVE WorkerInv'
<1> DEFINE D == Done(up.read, eval.job, jobs.q, recv.job)
           R == {x \in Result : x.id \in D}
           m == [id |-> down.frames[2], valid |-> TRUE]
           fr == <<Head(down.frames)>> \o Tail(Tail(down.frames))
<1>1. /\ Len(down.frames) > 1 /\ down' = [down EXCEPT !.frames = fr, !.results = Append(down.results, m)]
      /\ UNCHANGED <<up, jobs, recv, eval, fwd, relay, asleep>>
  BY DEF DownOvertakes
<1>2. down.frames \in Seq(D) /\ down.results \in Seq(R) /\ D \in SUBSET Ids /\ down \in DownRec
  BY Below, Types
<1>3. D = Done(up.read, eval.job, jobs.q, recv.job)
  OBVIOUS
<1> HIDE DEF D
<1>4. Len(down.frames) \in Nat /\ 2 \in 1..Len(down.frames) /\ down.frames # <<>>
  BY <1>1, <1>2, LenProperties
<1>5. down.frames[2] \in D /\ Head(down.frames) \in D /\ Tail(down.frames) \in Seq(D) /\ Len(Tail(down.frames)) = Len(down.frames) - 1
  BY <1>2, <1>4, ElementOfSeq, HeadTailProperties
<1>6. Tail(down.frames) # <<>>
  <2>1. Len(Tail(down.frames)) > 0
    BY <1>1, <1>4, <1>5
  <2>2. Len(<<>>) = 0
    OBVIOUS
  <2> QED BY <2>1, <2>2
<1>7. Tail(Tail(down.frames)) \in Seq(D)
  <2> DEFINE t == Tail(down.frames)
  <2>1. t \in Seq(D) /\ t # <<>>
    BY <1>5, <1>6
  <2> HIDE DEF t
  <2>2. Tail(t) \in Seq(D)
    BY <2>1, HeadTailProperties
  <2> QED BY <2>2 DEF t
<1>8. fr \in Seq(D)
  <2>1. <<Head(down.frames)>> \in Seq(D)
    BY <1>5
  <2> QED BY <2>1, <1>7, ConcatProperties
<1>9. m \in R /\ R \subseteq Result
  BY <1>2, <1>5 DEF Result
<1> HIDE DEF m, R, fr
<1>10. Append(down.results, m) \in Seq(R)
  BY <1>2, <1>9, AppendProperties
<1>11. Append(down.results, m) \in Seq(Result) /\ fr \in Seq(Ids)
  BY <1>2, <1>8, <1>9, <1>10, SeqMono
<1>12. down' \in DownRec /\ down'.frames = fr /\ down'.results = Append(down.results, m)
  <2>1. down' = [down EXCEPT !.frames = fr, !.results = Append(down.results, m)]
    BY <1>1
  <2> QED BY <2>1, <1>2, <1>11 DEF DownRec, Result
<1>13. down'.frames \in Seq(D) /\ down'.results \in Seq({x \in Result : x.id \in D})
  BY <1>8, <1>10, <1>12 DEF R
<1> QED BY <1>1, <1>3, <1>12, <1>13, DownStep

LEMMA DownLeavesInv == ASSUME WorkerInv, DownLeaves PROVE WorkerInv'
<1> DEFINE D == Done(up.read, eval.job, jobs.q, recv.job)
<1>1. down' = [down EXCEPT !.alive = FALSE] /\ UNCHANGED <<up, jobs, recv, eval, fwd, relay, asleep>>
  BY DEF DownLeaves
<1>2. down.frames \in Seq(D) /\ down.results \in Seq({x \in Result : x.id \in D}) /\ down \in DownRec
  BY Below, Types
<1>3. down' \in DownRec /\ down'.frames = down.frames /\ down'.results = down.results
  BY <1>1, <1>2 DEF DownRec
<1>4. D = Done(up.read, eval.job, jobs.q, recv.job)
  OBVIOUS
<1> HIDE DEF D
<1> QED BY <1>1, <1>2, <1>3, <1>4, DownStep

-----------------------------------------------------------------------------
(* The theorems. *)

LEMMA InitInv == ASSUME Init PROVE WorkerInv
<1>1. 0 \in 0..Requests /\ None = 0 /\ 0 <= Depth /\ 0 <= Forward /\ Len(<<>>) = 0 /\ \A S : <<>> \in Seq(S)
  BY IdFacts
<1>2. up \in UpRec /\ up.read = 0 /\ up.out = <<>>
  BY <1>1 DEF Init, UpRec
<1>3. jobs \in JobsRec /\ jobs.q = <<>>
  BY <1>1 DEF Init, JobsRec
<1>4. recv \in RecvRec /\ recv.job = 0 /\ recv.pc = "read" /\ eval \in EvalRec /\ eval.job = 0 /\ eval.pc = "pop"
  BY <1>1 DEF Init, RecvRec, EvalRec
<1>5. fwd \in FwdRec /\ fwd.pending = <<>> /\ fwd.exists = FALSE /\ relay = "none"
  BY <1>1 DEF Init, FwdRec
<1>6. down \in DownRec /\ down.frames = <<>> /\ down.results = <<>>
  BY <1>1 DEF Init, DownRec
<1>7. asleep \in [Sleepers -> CondVars \cup {"awake"}]
  BY DEF Init
<1>8. TypeOK
  BY <1>1, <1>2, <1>3, <1>4, <1>5, <1>6, <1>7 DEF TypeOK
<1>9. Increasing(<<>>) /\ Verdicts(<<>>)
  BY <1>1 DEF Increasing, Verdicts
<1>10. Chain(0, 0, <<>>, 0)
  BY <1>1, <1>9 DEF Chain
<1>11. \A D, S : Travel(D, S, <<>>, <<>>, <<>>, <<>>)
  BY <1>1, <1>9 DEF Travel
<1>12. Lives(recv, eval, fwd, relay)
  BY <1>1, <1>4, <1>5 DEF Lives
<1> QED BY <1>2, <1>3, <1>4, <1>5, <1>6, <1>8, <1>9, <1>10, <1>11, <1>12 DEF WorkerInv

LEMMA NextInv == ASSUME WorkerInv, [Next]_vars PROVE WorkerInv'
<1>1. CASE Recv \/ ReadFails
  BY <1>1, ReadFrameInv, RecvEndsInv, EnqueueInv, CloseJobsInv, DestroyInv, JoinRelayInv DEF Recv
<1>2. CASE Eval
  <2>1. CASE WorkRefused \/ ConnectFails
    BY <2>1, RefuseInv DEF WorkRefused, ConnectFails
  <2> QED BY <1>2, <2>1, PopInv, WorkDoneInv, TrackInv, SendDownInv, SendDownFailsInv DEF Eval
<1>3. CASE Relay
  BY <1>3, RelayBeginsInv, RelayResultInv, RelayTruncatedInv, RelayInvalidInv, RelayEndsInv, RelayClosesInv DEF Relay
<1>4. CASE Neighbours
  BY <1>4, UpstreamInv, DownAnswersInv, DownOvertakesInv, DownLeavesInv DEF Neighbours
<1>5. CASE UNCHANGED vars
  <2>1. Lives(recv', eval', fwd', relay')
    BY <1>5, Living DEF vars
  <2>2. /\ up' \in UpRec /\ jobs' \in JobsRec /\ recv' \in RecvRec /\ eval' \in EvalRec /\ fwd' \in FwdRec /\ relay' \in Relays
        /\ down' \in DownRec /\ asleep' \in Waits
    BY <1>5, Types DEF vars
  <2> QED BY <1>5, <2>1, <2>2, QuietStep DEF vars
<1> QED BY <1>1, <1>2, <1>3, <1>4, <1>5 DEF Next

\* The inductive invariant: what is on its way to the evaluation is in the order
\* it was read, what left it is behind, and the relay has said nothing about
\* what is pending (dist_worker_read_loop_prefetch and its two threads).
THEOREM WorkerInvariant == Spec => []WorkerInv
<1>1. Init => WorkerInv
  BY InitInv
<1>2. WorkerInv /\ [Next]_vars => WorkerInv'
  BY NextInv
<1> QED BY <1>1, <1>2, PTL DEF Spec

\* Two threads answer upstream and a third owns what they use: no request has
\* two results or a result and an error, results keep the order of the
\* requests, and no thread outlives the receive thread, for any number of
\* requests, any prefetch depth and any forward window.
THEOREM AnswersSoundHolds == Spec => []AnswersSound
<1>1. WorkerInv => AnswersSound
  <2> SUFFICES ASSUME WorkerInv PROVE AnswersSound
    OBVIOUS
  <2>1. TypeOK /\ EndsClean
    BY DEF WorkerInv, Lives, EndsClean
  <2>2. DOMAIN up.out = 1..Len(up.out)
    BY Fields, LenProperties
  <2>3. OneVerdict
    BY <2>2 DEF WorkerInv, Verdicts, OneVerdict
  <2> QED BY <2>1, <2>3 DEF AnswersSound
<1> QED BY <1>1, WorkerInvariant, PTL
=============================================================================
