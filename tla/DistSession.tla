----------------------------- MODULE DistSession -----------------------------
(***************************************************************************)
(* A distributed session (ds4_dist_session_sync and _eval) on a route of   *)
(* two workers, with what can happen under it: workers that leave, come    *)
(* back or clear their sessions, evaluations and resets that fail, sockets *)
(* that break or time out, and frames of an abandoned connection that the  *)
(* second worker still evaluates.  Every node keeps a token timeline for   *)
(* its layers; requests carry the hash of the prefix they were built on.   *)
(* The hash is modelled by the token sequence itself (no collisions).      *)
(*                                                                         *)
(* A connection epoch is one control connection of the first worker, which *)
(* also carries the work, together with the data connection the first      *)
(* worker opens to the second on its behalf.                               *)
(***************************************************************************)
EXTENDS Naturals, Sequences, SequencesExt

CONSTANTS
  Prompts,     \* token sequences a caller may sync to
  Tokens,      \* tokens a caller may decode
  MaxLen,      \* bound on a timeline
  MaxCalls,    \* bound on the calls of the session
  MaxEpoch,    \* bound on the control connections of the first worker
  MaxFaults,   \* bound on the failures
  Window       \* flow window of a pipelined prefill

ASSUME PromptsFit == \A p \in Prompts : p \in Seq(Tokens) /\ Len(p) \in 1..MaxLen
ASSUME WindowFits == Window \in Nat /\ Window > 0
ASSUME BoundsNat == {MaxLen, MaxCalls, MaxEpoch, MaxFaults} \subseteq Nat

Workers == {1, 2}
Epochs == 1..MaxEpoch
Timelines == {s \in Seq(Tokens) : Len(s) <= MaxLen}
NoRoute == 0

VARIABLES
  owner,    \* the coordinator's ds4_session: timeline, validity, logits
  call,     \* the running sync or eval, or the last one's result
  plan,     \* the session's route plan: ready, epoch of its first hop, generation
  reg,      \* the worker registry: generation, first worker's epoch, second's presence
  link,     \* [Epochs -> the epoch's connection and its frames]
  worker,   \* [Workers -> its session for this coordinator]
  serving,  \* the first worker's epoch and its next one; is the second connected
  faults    \* failures so far

vars == <<owner, call, plan, reg, link, worker, serving, faults>>

\* logits: the timelines the logits were computed from, one per node.
NoLogits == <<>>
Fresh == [toks |-> <<>>, valid |-> FALSE, hash |-> <<>>, hashValid |-> FALSE]
Quiet == [up |-> FALSE, frames |-> [w \in Workers |-> <<>>], replies |-> <<>>]

OwnerRec == [toks : Timelines, valid : BOOLEAN, logits : {NoLogits} \cup [1..3 -> Timelines]]
CallRec == [pc : {"idle", "span", "failed", "reroute"}, target : Timelines,
            from : 0..MaxLen, pos : 0..MaxLen, acked : 0..MaxLen, piped : BOOLEAN, replay : BOOLEAN,
            run : Nat, rc : 0..2, ret : 0..1, how : {"none", "same", "route", "evaluated", "failed"},
            clean : BOOLEAN, calls : Nat]
PlanRec == [ready : BOOLEAN, epoch : Epochs \cup {NoRoute}, gen : Nat]
RegRec == [gen : Nat, first : Epochs \cup {NoRoute}, second : BOOLEAN]
Frame == [run : Nat, pos : Nat, pre : Timelines, tok : Tokens, reset : BOOLEAN, made : Seq(Timelines)]
Result == [run : Nat, pos : Nat, ok : BOOLEAN, hash : Timelines, made : Seq(Timelines)]
LinkRec == [up : BOOLEAN, frames : [Workers -> Seq(Frame)], replies : Seq(Result)]
Session == [toks : Timelines, valid : BOOLEAN, hash : Timelines, hashValid : BOOLEAN]
ServingRec == [first : Epochs \cup {NoRoute}, next : Nat, second : BOOLEAN]

TypeOK ==
  /\ owner \in OwnerRec /\ call \in CallRec /\ plan \in PlanRec /\ reg \in RegRec
  /\ link \in [Epochs -> LinkRec] /\ worker \in [Workers -> Session]
  /\ serving \in ServingRec /\ faults \in Nat

Init ==
  /\ owner = [toks |-> <<>>, valid |-> FALSE, logits |-> NoLogits]
  /\ call = [pc |-> "idle", target |-> <<>>, from |-> 0, pos |-> 0, acked |-> 0, piped |-> FALSE,
             replay |-> FALSE, run |-> 0, rc |-> 0, ret |-> 1, how |-> "none",
             clean |-> TRUE, calls |-> 0]
  /\ plan = [ready |-> FALSE, epoch |-> NoRoute, gen |-> 0]
  /\ reg = [gen |-> 1, first |-> NoRoute, second |-> FALSE]
  /\ link = [e \in Epochs |-> Quiet]
  /\ worker = [w \in Workers |-> Fresh]
  /\ serving = [first |-> NoRoute, next |-> 1, second |-> FALSE]
  /\ faults = 0

Fault == faults < MaxFaults /\ faults' = faults + 1

-----------------------------------------------------------------------------
(* The route. *)

RouteExists == reg.first # NoRoute /\ reg.second

PlanCurrent == plan.ready /\ plan.gen = reg.gen

NoPlan == [ready |-> FALSE, epoch |-> NoRoute, gen |-> 0]
NewPlan == [ready |-> TRUE, epoch |-> reg.first, gen |-> reg.gen]

-----------------------------------------------------------------------------
(* A span: the suffix of the target that has to be evaluated. *)

\* More than one chunk of one token is left: the prefill is pipelined.
Piped(from, target) == Len(target) - from > 1

BeginSpan(c, from, replay) ==
  [c EXCEPT !.pc = "span", !.from = from, !.pos = from, !.acked = from,
            !.piped = Piped(from, c.target), !.replay = replay, !.run = @ + 1, !.rc = 0]

\* clean: no call has failed since the timeline was last evaluated or dropped.
Return(c, ret, how) ==
  [c EXCEPT !.pc = "idle", !.ret = ret, !.how = how, !.from = 0, !.pos = 0, !.acked = 0,
            !.piped = FALSE, !.replay = FALSE, !.rc = 0,
            !.clean = IF how \in {"same", "route"} THEN @ ELSE ret = 0]

\* The span starts by resetting the timelines: it starts at position 0.
Resets == call.from = 0

Failed(rc) == call' = [call EXCEPT !.pc = "failed", !.rc = rc]

\* A pipelined prefill that fails shuts its connection down.
Abandon(l) == IF call.piped THEN [l EXCEPT ![plan.epoch].up = FALSE] ELSE l

-----------------------------------------------------------------------------
(* The calls. *)

\* Mutant: an equal length is taken for an equal prompt.
Extends_length(p) == owner.valid /\ Len(owner.toks) <= Len(p)

Extends(p) == owner.valid /\ IsPrefix(owner.toks, p)

\* ds4_dist_session_sync up to the first evaluation.
CallSync(p) ==
  /\ call.pc = "idle" /\ call.calls < MaxCalls
  /\ LET c == [call EXCEPT !.target = p, !.calls = @ + 1]
     IN  IF ~PlanCurrent /\ ~RouteExists
         THEN plan' = NoPlan /\ call' = Return(c, 1, "route")
         ELSE /\ plan' = IF PlanCurrent THEN plan ELSE NewPlan
              /\ call' = IF Extends(p) /\ Len(owner.toks) = Len(p)
                         THEN Return(c, 0, "same")
                         ELSE BeginSpan(c, IF Extends(p) THEN Len(owner.toks) ELSE 0, FALSE)
  /\ UNCHANGED <<owner, reg, link, worker, serving, faults>>

\* ds4_dist_session_eval: one more token of the current timeline.
CallEval(t) ==
  /\ call.pc = "idle" /\ call.calls < MaxCalls
  /\ owner.valid /\ Len(owner.toks) \in 1..MaxLen-1
  /\ LET c == [call EXCEPT !.target = Append(owner.toks, t), !.calls = @ + 1]
     IN  IF ~PlanCurrent /\ ~RouteExists
         THEN plan' = NoPlan /\ call' = Return(c, 1, "route")
         ELSE /\ plan' = IF PlanCurrent THEN plan ELSE NewPlan
              /\ call' = BeginSpan(c, Len(owner.toks), FALSE)
  /\ UNCHANGED <<owner, reg, link, worker, serving, faults>>

\* The host gives the timeline up.
Invalidate ==
  /\ call.pc = "idle" /\ owner.valid /\ call.calls < MaxCalls
  /\ owner' = [owner EXCEPT !.toks = <<>>, !.valid = FALSE]
  /\ call' = [call EXCEPT !.how = "none", !.ret = 1, !.clean = TRUE, !.calls = @ + 1]
  /\ UNCHANGED <<plan, reg, link, worker, serving, faults>>

-----------------------------------------------------------------------------
(* Evaluating a span. *)

\* A serial span waits for each result, a pipelined one for its window.
MayAdvance ==
  /\ call.pc = "span" /\ call.pos < Len(call.target)
  /\ call.pos < call.acked + (IF call.piped THEN Window ELSE 1)

\* ds4_session_layer_slice_reset before the first chunk.
OwnerReset == IF Resets /\ call.pos = 0 THEN [owner EXCEPT !.toks = <<>>, !.valid = FALSE]
                                        ELSE owner

\* slice_check_timeline.
InStep(s, pos) == IF s.valid THEN Len(s.toks) = pos ELSE pos = 0

\* The local layers of the next token: its timeline is committed, then the
\* frame goes out with the hash of the prefix.
EvalLocal ==
  /\ MayAdvance
  /\ LET t    == call.target[call.pos + 1]
         toks == Append(OwnerReset.toks, t)
         pre  == IF call.piped THEN SubSeq(call.target, 1, call.pos) ELSE OwnerReset.toks
         f    == [run |-> call.run, pos |-> call.pos, pre |-> pre, tok |-> t,
                  reset |-> Resets /\ call.pos = 0, made |-> <<toks>>]
     IN  /\ owner' = [owner EXCEPT !.toks = toks, !.valid = TRUE]
         /\ link' = IF link[plan.epoch].up
                    THEN [link EXCEPT ![plan.epoch].frames[1] = Append(@, f)]
                    ELSE link
         /\ call' = [call EXCEPT !.pos = @ + 1]
  /\ UNCHANGED <<plan, reg, worker, serving, faults>>

\* The reset or the local layers fail; the timeline is no longer valid.
EvalLocalFails ==
  /\ MayAdvance /\ Fault
  /\ owner' = [OwnerReset EXCEPT !.valid = FALSE]
  /\ link' = Abandon(link)
  /\ Failed(1)
  /\ UNCHANGED <<plan, reg, worker, serving>>

\* The reader of a pipelined prefill listens from the start.
Reading == call.pc = "span" /\ (call.piped \/ call.acked < call.pos)

\* The hash of the prefix with the chunk, from the prompt or the local timeline.
Expected == IF call.piped THEN SubSeq(call.target, 1, call.acked + 1) ELSE owner.toks

\* What dist_recv_result_alloc and its caller make of a result.
Verdict(m) ==
  IF m.run # call.run \/ m.pos # call.acked THEN 1
  ELSE IF ~m.ok THEN 2
  ELSE IF m.hash # Expected THEN 1 ELSE 0

\* The expected result arrives; the last one brings the logits.
RecvResult ==
  LET l == link[plan.epoch]
      m == Head(l.replies)
      last == call.acked + 1 = Len(call.target)
  IN  /\ Reading /\ l.replies # <<>> /\ Verdict(m) = 0
      /\ link' = [link EXCEPT ![plan.epoch].replies = Tail(@)]
      /\ owner' = IF last THEN [owner EXCEPT !.logits = m.made] ELSE owner
      /\ call' = IF last THEN Return(call, 0, "evaluated") ELSE [call EXCEPT !.acked = @ + 1]
      /\ plan' = IF last THEN [plan EXCEPT !.ready = TRUE] ELSE plan
      /\ UNCHANGED <<reg, worker, serving, faults>>

\* The last result is a hidden state and the local output head fails on it.
HeadFails ==
  LET l == link[plan.epoch]
  IN  /\ Reading /\ l.replies # <<>> /\ Verdict(Head(l.replies)) = 0
      /\ call.acked + 1 = Len(call.target) /\ Fault
      /\ link' = [link EXCEPT ![plan.epoch].replies = Tail(@)]
      /\ Failed(1)
      /\ UNCHANGED <<owner, plan, reg, worker, serving>>

RecvRejected ==
  LET l == link[plan.epoch]
  IN  /\ Reading /\ l.replies # <<>> /\ Verdict(Head(l.replies)) # 0
      /\ link' = Abandon([link EXCEPT ![plan.epoch].replies = Tail(@)])
      /\ Failed(Verdict(Head(l.replies)))
      /\ UNCHANGED <<owner, plan, reg, worker, serving, faults>>

\* Mutant: the receive has no timeout.
RecvFails_patient ==
  /\ Reading /\ link[plan.epoch].replies = <<>> /\ ~link[plan.epoch].up
  /\ Failed(1)
  /\ UNCHANGED <<owner, link, plan, reg, worker, serving, faults>>

\* The connection is gone, or the socket's timeout runs out before the answer.
RecvFails ==
  /\ Reading /\ link[plan.epoch].replies = <<>>
  /\ link' = Abandon(link)
  /\ Failed(1)
  /\ UNCHANGED <<owner, plan, reg, worker, serving, faults>>

-----------------------------------------------------------------------------
(* Recovery: dist_coordinator_rebuild_from_transcript, once per call. *)

\* The replay failed as well: the call fails and the plan is dropped.
GiveUp ==
  /\ call.pc = "failed" /\ call.replay
  /\ plan' = [plan EXCEPT !.ready = FALSE, !.gen = 0]
  /\ call' = Return(call, 1, "failed")
  /\ UNCHANGED <<owner, reg, link, worker, serving, faults>>

\* A worker refused: its connection is good, replay on the same route.
ReplayInPlace ==
  /\ call.pc = "failed" /\ ~call.replay /\ call.rc = 2
  /\ call' = BeginSpan(call, 0, TRUE)
  /\ UNCHANGED <<owner, plan, reg, link, worker, serving, faults>>

\* The workers of the route are forgotten and their connections closed.
ForgetRoute ==
  /\ call.pc = "failed" /\ ~call.replay /\ call.rc = 1
  /\ reg' = [gen |-> IF reg.first # NoRoute \/ reg.second THEN reg.gen + 1 ELSE reg.gen,
             first |-> NoRoute, second |-> FALSE]
  /\ link' = [e \in Epochs |-> IF e \in {plan.epoch, reg.first}
                               THEN [link[e] EXCEPT !.up = FALSE] ELSE link[e]]
  /\ plan' = NoPlan
  /\ call' = [call EXCEPT !.pc = "reroute"]
  /\ UNCHANGED <<owner, worker, serving, faults>>

\* A route among the workers registered by now, and the replay; or failure.
Reroute ==
  /\ call.pc = "reroute"
  /\ IF RouteExists
     THEN plan' = NewPlan /\ call' = BeginSpan(call, 0, TRUE)
     ELSE plan' = NoPlan /\ call' = Return(call, 1, "failed")
  /\ UNCHANGED <<owner, reg, link, worker, serving, faults>>

Coordinator ==
  \/ EvalLocal \/ EvalLocalFails \/ RecvResult \/ HeadFails \/ RecvRejected \/ RecvFails
  \/ GiveUp \/ ReplayInPlace \/ ForgetRoute \/ Reroute

-----------------------------------------------------------------------------
(* A worker evaluates a frame: dist_worker_process_work_payload. *)

Reply(l, f, ok) ==
  IF l.up THEN [l EXCEPT !.replies = Append(@, [run |-> f.run, pos |-> f.pos, ok |-> ok,
                                  hash |-> Append(f.pre, f.tok), made |-> f.made])]
          ELSE l

\* The session after a reset, or with its hash recomputed from its timeline.
Prepared(s, f) ==
  IF f.reset THEN [Fresh EXCEPT !.hashValid = TRUE]
  ELSE IF s.hashValid THEN s ELSE [s EXCEPT !.hash = s.toks, !.hashValid = TRUE]

\* Mutant: the hash of the prefix is not compared.
Accepts_unhashed(s, f) == InStep(s, f.pos)

Accepts(s, f) == s.hash = f.pre /\ InStep(s, f.pos)

\* A failed evaluation always forgets the hash, also when only the timeline
\* check refused.
Refused(s, f) == IF s.hash = f.pre THEN [s EXCEPT !.hashValid = FALSE] ELSE s

\* Mutant: a frame forwarded or answered leaves the hash of the session as it was.
Evaluated_stale(s, f) ==
  [s EXCEPT !.toks = Append(@, f.tok), !.valid = TRUE, !.hashValid = TRUE]

Evaluated(s, f) ==
  [toks |-> Append(s.toks, f.tok), valid |-> TRUE, hash |-> Append(f.pre, f.tok),
   hashValid |-> TRUE]

\* The frame is evaluated and passed on, or the last worker answers.
Work(e, w) ==
  LET q == link[e].frames[w]
      f == Head(q)
      s == Prepared(worker[w], f)
      g == [f EXCEPT !.made = Append(@, Evaluated(s, f).toks)]
      l == [link[e] EXCEPT !.frames[w] = Tail(@)]
  IN  /\ q # <<>> /\ Accepts(s, f)
      /\ worker' = [worker EXCEPT ![w] = Evaluated(s, f)]
      /\ link' = [link EXCEPT ![e] = IF w = 1 THEN [l EXCEPT !.frames[2] = Append(@, g)]
                                              ELSE Reply(l, g, TRUE)]
      /\ UNCHANGED <<owner, call, plan, reg, serving, faults>>

\* The frame does not fit the worker's timeline.
WorkRefused(e, w) ==
  LET q == link[e].frames[w]
      f == Head(q)
      s == Prepared(worker[w], f)
  IN  /\ q # <<>> /\ ~Accepts(s, f)
      /\ worker' = [worker EXCEPT ![w] = Refused(s, f)]
      /\ link' = [link EXCEPT ![e] = Reply([link[e] EXCEPT !.frames[w] = Tail(@)], f, FALSE)]
      /\ UNCHANGED <<owner, call, plan, reg, serving, faults>>

EvalBroken(s) == [s EXCEPT !.valid = FALSE, !.hashValid = FALSE]

\* The evaluation fails, or the reset does (which leaves the hash as it was),
\* or memory is short before either.
WorkFails(e, w) ==
  LET q == link[e].frames[w]
      f == Head(q)
      s == Prepared(worker[w], f)
  IN  /\ q # <<>> /\ Fault
      /\ \/ /\ Accepts(s, f)
            /\ worker' = [worker EXCEPT ![w] = EvalBroken(s)]
         \/ /\ f.reset
            /\ worker' = [worker EXCEPT ![w].toks = <<>>, ![w].valid = FALSE]
         \/ UNCHANGED worker
      /\ link' = [link EXCEPT ![e] = Reply([link[e] EXCEPT !.frames[w] = Tail(@)], f, FALSE)]
      /\ UNCHANGED <<owner, call, plan, reg, serving>>

\* The frame is evaluated, but the next worker cannot be reached: an error
\* goes back and the connection ends.
ForwardFails(e) ==
  LET q == link[e].frames[1]
      f == Head(q)
      s == Prepared(worker[1], f)
      l == [link[e] EXCEPT !.frames[1] = Tail(@)]
  IN  /\ q # <<>> /\ Accepts(s, f) /\ Fault
      /\ worker' = [worker EXCEPT ![1] = Evaluated(s, f)]
      /\ link' = [link EXCEPT ![e] = [Reply(l, f, FALSE) EXCEPT !.up = FALSE]]
      /\ UNCHANGED <<owner, call, plan, reg, serving>>

-----------------------------------------------------------------------------
(* Workers and connections come and go. *)

\* The first worker connects and is registered in place of an older entry.
FirstConnects ==
  /\ serving.first = NoRoute /\ serving.next \in Epochs
  /\ serving' = [serving EXCEPT !.first = serving.next, !.next = @ + 1]
  /\ link' = [link EXCEPT ![serving.next].up = TRUE]
  /\ reg' = [reg EXCEPT !.first = serving.next, !.gen = @ + 1]
  /\ UNCHANGED <<owner, call, plan, worker, faults>>

\* A connection breaks or a node's socket times out.
LinkBreaks(e) ==
  /\ link[e].up /\ Fault
  /\ link' = [link EXCEPT ![e].up = FALSE]
  /\ UNCHANGED <<owner, call, plan, reg, worker, serving>>

\* The first worker's read loop has ended: its sessions are cleared.
FirstLeaves ==
  /\ serving.first # NoRoute /\ ~link[serving.first].up
  /\ worker' = [worker EXCEPT ![1] = Fresh]
  /\ link' = [link EXCEPT ![serving.first].frames[1] = <<>>]
  /\ serving' = [serving EXCEPT !.first = NoRoute]
  /\ UNCHANGED <<owner, call, plan, reg, faults>>

SecondConnects ==
  /\ ~serving.second
  /\ serving' = [serving EXCEPT !.second = TRUE]
  /\ reg' = [reg EXCEPT !.second = TRUE, !.gen = @ + 1]
  /\ UNCHANGED <<owner, call, plan, link, worker, faults>>

\* The second worker's control connection ends, closed by the coordinator or
\* for lack of traffic; its sessions are cleared, its data connections go on.
SecondLeaves ==
  /\ serving.second
  /\ IF reg.second THEN Fault ELSE UNCHANGED faults
  /\ worker' = [worker EXCEPT ![2] = Fresh]
  /\ serving' = [serving EXCEPT !.second = FALSE]
  /\ UNCHANGED <<owner, call, plan, reg, link>>

\* A client thread of the coordinator notices that its connection is gone.
Unregister ==
  /\ \/ /\ reg.first # NoRoute /\ ~link[reg.first].up
        /\ reg' = [reg EXCEPT !.first = NoRoute, !.gen = @ + 1]
     \/ /\ reg.second /\ ~serving.second
        /\ reg' = [reg EXCEPT !.second = FALSE, !.gen = @ + 1]
  /\ UNCHANGED <<owner, call, plan, link, worker, serving, faults>>

\* The data connection of an abandoned epoch ends with frames unread.
DropStale(e) ==
  /\ ~link[e].up /\ link[e].frames[2] # <<>>
  /\ link' = [link EXCEPT ![e].frames[2] = <<>>]
  /\ UNCHANGED <<owner, call, plan, reg, worker, serving, faults>>

Route ==
  \/ FirstConnects \/ FirstLeaves \/ Unregister \/ SecondConnects \/ SecondLeaves
  \/ \E e \in Epochs : \/ LinkBreaks(e) \/ DropStale(e) \/ ForwardFails(e)
                       \/ \E w \in Workers : Work(e, w) \/ WorkRefused(e, w) \/ WorkFails(e, w)

Caller == Invalidate \/ (\E p \in Prompts : CallSync(p)) \/ (\E t \in Tokens : CallEval(t))

Next == Caller \/ Coordinator \/ Route

\* The calling thread runs; every receive has a timeout, so nothing is asked
\* of the workers.
Spec == Init /\ [][Next]_vars /\ WF_vars(Coordinator)

-----------------------------------------------------------------------------
(* Properties. *)

All3(x) == <<x, x, x>>

\* The coordinator never trips over its own timeline check: whatever failed
\* before, a span starts where the local timeline ends or resets it, goes over
\* a route, and is never ahead of what it sent.
OwnerInStep ==
  /\ call.acked <= call.pos /\ call.pos <= Len(call.target)
  /\ call.pc = "span" => plan.epoch \in Epochs
  /\ MayAdvance => InStep(OwnerReset, call.pos)

\* A worker's hash, when it is trusted, is the hash of its timeline.
HashTellsTimeline ==
  \A w \in Workers : worker[w].hashValid /\ worker[w].valid => worker[w].hash = worker[w].toks

\* No frame or result, of any connection, stands for another timeline than the
\* one its hash names: every node that touched it held exactly that prefix.
ResultsExact ==
  \A e \in Epochs :
    /\ \A w \in Workers : \A i \in DOMAIN link[e].frames[w] :
         LET f == link[e].frames[w][i]
         IN  f.made = [k \in 1..w |-> Append(f.pre, f.tok)]
    /\ \A i \in DOMAIN link[e].replies :
         LET m == link[e].replies[i] IN m.ok => m.made = All3(m.hash)

\* A call that evaluated and succeeded leaves the timeline at its target and
\* logits computed from that timeline on every node, whatever was lost,
\* cleared, replayed or late in between.
EvaluatedExact ==
  call.pc = "idle" /\ call.ret = 0 /\ call.how = "evaluated" =>
    owner.valid /\ owner.toks = call.target /\ owner.logits = All3(call.target)

\* A sync that finds the timeline already there returns the timeline's logits,
\* as long as no call has failed since the timeline was evaluated.
SameIsFresh ==
  call.pc = "idle" /\ call.how = "same" /\ call.clean => owner.logits = All3(call.target)

\* "Synchronize the live session to a full prompt token prefix": after a sync
\* that succeeds, the session's logits are the prompt's.
SyncLogits ==
  call.pc = "idle" /\ call.ret = 0 => owner.logits = All3(call.target)

\* A plan that would be used again without looking names the workers that are
\* registered now.
PlanIsCurrent == PlanCurrent => plan.epoch = reg.first /\ RouteExists

\* Every call returns.
CallReturns == (call.pc # "idle") ~> (call.pc = "idle")

\* Every node's bookkeeping agrees with what it holds: the owner's slice with
\* its timeline, a worker's hash with its tokens, the plan with the registry.
NodesInStep == TypeOK /\ OwnerInStep /\ HashTellsTimeline /\ PlanIsCurrent

\* Answers are exact on the wire and at the caller: a result that is accepted
\* was computed from the timeline it names, and so are the call's logits.
AnswersExact == ResultsExact /\ EvaluatedExact
=============================================================================
