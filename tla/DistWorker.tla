----------------------------- MODULE DistWorker -----------------------------
(***************************************************************************)
(* One work connection of a worker in the middle of a route                *)
(* (ds4_distributed.c, dist_worker_read_loop_prefetch).  The receive       *)
(* thread queues frames, the evaluation thread evaluates them and forwards *)
(* them to the next worker, and the relay thread passes the next worker's  *)
(* results back.  Evaluation and relay both write to the upstream socket   *)
(* and both may shut it down.  "asleep" says who waits on which condition  *)
(* variable.  Requests are numbered 1, 2, ... in the order they are sent.  *)
(***************************************************************************)
EXTENDS Integers, Sequences, SequencesExt

CONSTANTS
  Requests,   \* bound on the requests of the connection
  Depth,      \* prefetch depth: jobs queued
  Forward     \* forward window: requests pending downstream

ASSUME BoundsPositive == Requests \in Nat /\ Depth \in Nat \ {0} /\ Forward \in Nat \ {0}

VARIABLES
  up,       \* the upstream connection: open here, peer alive, a reply cut off in the
            \* middle, frames sent and read, whole replies out
  jobs,     \* ds4_dist_worker_job_queue: queue, closed, canceled
  recv,     \* the receive thread: pc, frame in hand, loop_rc
  eval,     \* the evaluation thread: pc, request in hand
  fwd,      \* the forwarder: exists, open, pending, closing
  relay,    \* the relay thread: pc
  down,     \* the next worker: alive, frames it has, results it sent
  asleep    \* [thread -> the condition variable it waits on, or "awake"]

vars == <<up, jobs, recv, eval, fwd, relay, down, asleep>>

Ids == 1..Requests
None == 0
Sleepers == {"recv", "eval"}
CondVars == {"not_full", "not_empty", "queue_not_full"}

UpRec == [open : BOOLEAN, peer : BOOLEAN, torn : BOOLEAN, sent : 0..Requests, read : 0..Requests,
          out : Seq([id : Ids, ok : BOOLEAN])]
JobsRec == [q : Seq(Ids), closed : BOOLEAN, canceled : BOOLEAN]
RecvRec == [pc : {"read", "enqueue", "close", "joinEval", "destroy", "joinRelay", "gone"},
            job : Ids \cup {None}, rc : {0, 1}]
EvalRec == [pc : {"pop", "work", "forward", "send", "gone"}, job : Ids \cup {None}]
FwdRec == [exists : BOOLEAN, open : BOOLEAN, pending : Seq(Ids), closing : BOOLEAN]
DownRec == [alive : BOOLEAN, frames : Seq(Ids), results : Seq([id : Ids, valid : BOOLEAN])]

TypeOK ==
  /\ up \in UpRec /\ jobs \in JobsRec /\ recv \in RecvRec /\ eval \in EvalRec /\ fwd \in FwdRec
  /\ relay \in {"none", "start", "read", "close", "gone"} /\ down \in DownRec
  /\ asleep \in [Sleepers -> CondVars \cup {"awake"}]
  /\ Len(jobs.q) <= Depth /\ Len(fwd.pending) <= Forward

Init ==
  /\ up = [open |-> TRUE, peer |-> TRUE, torn |-> FALSE, sent |-> 0, read |-> 0, out |-> <<>>]
  /\ jobs = [q |-> <<>>, closed |-> FALSE, canceled |-> FALSE]
  /\ recv = [pc |-> "read", job |-> None, rc |-> 0]
  /\ eval = [pc |-> "pop", job |-> None]
  /\ fwd = [exists |-> FALSE, open |-> FALSE, pending |-> <<>>, closing |-> FALSE]
  /\ relay = "none"
  /\ down = [alive |-> FALSE, frames |-> <<>>, results |-> <<>>]
  /\ asleep = [t \in Sleepers |-> "awake"]

Awake(t) == asleep[t] = "awake"
Sleep(t, cv) == asleep' = [asleep EXCEPT ![t] = cv]
Signal(cvs) == asleep' = [t \in Sleepers |-> IF asleep[t] \in cvs THEN "awake" ELSE asleep[t]]

\* A frame can be written upstream: neither end has closed.
Writable == up.open /\ up.peer

\* Writing one result or error upstream; a failed write changes nothing here,
\* and what follows a reply that was cut off cannot be told from its payload.
Sent(u, id, ok) ==
  IF u.open /\ u.peer /\ ~u.torn THEN [u EXCEPT !.out = Append(@, [id |-> id, ok |-> ok])] ELSE u

-----------------------------------------------------------------------------
(* The receive thread. *)

\* The next frame has been read whole.
ReadFrame ==
  /\ recv.pc = "read" /\ up.read < up.sent
  /\ up' = [up EXCEPT !.read = @ + 1]
  /\ recv' = [recv EXCEPT !.pc = "enqueue", !.job = up.read + 1]
  /\ UNCHANGED <<jobs, eval, fwd, relay, down, asleep>>

\* End of stream.
ReadEnds ==
  /\ recv.pc = "read" /\ ~Writable /\ (up.read = up.sent \/ ~up.peer)
  /\ recv' = [recv EXCEPT !.pc = "close"]
  /\ UNCHANGED <<up, jobs, eval, fwd, relay, down, asleep>>

\* A malformed frame, or a socket timeout.
ReadFails ==
  /\ recv.pc = "read"
  /\ recv' = [recv EXCEPT !.pc = "close", !.rc = 1]
  /\ UNCHANGED <<up, jobs, eval, fwd, relay, down, asleep>>

\* job_queue_enqueue.
Enqueue ==
  /\ recv.pc = "enqueue" /\ Awake("recv")
  /\ IF jobs.closed \/ jobs.canceled
     THEN recv' = [recv EXCEPT !.pc = "close", !.job = None, !.rc = 1] /\ UNCHANGED <<jobs, asleep>>
     ELSE IF Len(jobs.q) >= Depth
     THEN Sleep("recv", "not_full") /\ UNCHANGED <<jobs, recv>>
     ELSE /\ jobs' = [jobs EXCEPT !.q = Append(@, recv.job)]
          /\ recv' = [recv EXCEPT !.pc = "read", !.job = None]
          /\ Signal({"not_empty"})
  /\ UNCHANGED <<up, eval, fwd, relay, down>>

\* job_queue_finish leaves the queued jobs to be evaluated; _cancel drops them.
CloseJobs ==
  /\ recv.pc = "close"
  /\ jobs' = [q |-> IF recv.rc = 0 THEN jobs.q ELSE <<>>, closed |-> TRUE,
              canceled |-> jobs.canceled \/ recv.rc # 0]
  /\ recv' = [recv EXCEPT !.pc = "joinEval"]
  /\ Signal({"not_empty", "not_full"})
  /\ UNCHANGED <<up, eval, fwd, relay, down>>

JoinEval ==
  /\ recv.pc = "joinEval" /\ eval.pc = "gone"
  /\ recv' = [recv EXCEPT !.pc = "destroy"]
  /\ UNCHANGED <<up, jobs, eval, fwd, relay, down, asleep>>

\* upstream_destroy closes the pending queue and the forwarder's socket.
Destroy ==
  /\ recv.pc = "destroy"
  /\ recv' = [recv EXCEPT !.pc = "joinRelay"]
  /\ fwd' = [fwd EXCEPT !.closing = TRUE, !.open = FALSE]
  /\ Signal({"queue_not_full"})
  /\ UNCHANGED <<up, jobs, eval, relay, down>>

\* The relay is joined, what is pending is dropped, and the socket is closed.
JoinRelay ==
  /\ recv.pc = "joinRelay" /\ relay \in {"none", "gone"}
  /\ recv' = [recv EXCEPT !.pc = "gone"]
  /\ fwd' = [fwd EXCEPT !.pending = <<>>]
  /\ up' = [up EXCEPT !.open = FALSE]
  /\ UNCHANGED <<jobs, eval, relay, down, asleep>>

Recv == ReadFrame \/ ReadEnds \/ Enqueue \/ CloseJobs \/ JoinEval \/ Destroy \/ JoinRelay

-----------------------------------------------------------------------------
(* The evaluation thread. *)

\* job_queue_pop.
Pop ==
  /\ eval.pc = "pop" /\ Awake("eval")
  /\ IF jobs.canceled \/ (jobs.q = <<>> /\ jobs.closed)
     THEN eval' = [pc |-> "gone", job |-> None] /\ UNCHANGED <<jobs, asleep>>
     ELSE IF jobs.q = <<>>
     THEN Sleep("eval", "not_empty") /\ UNCHANGED <<jobs, eval>>
     ELSE /\ eval' = [pc |-> "work", job |-> Head(jobs.q)]
          /\ jobs' = [jobs EXCEPT !.q = Tail(@)]
          /\ Signal({"not_full"})
  /\ UNCHANGED <<up, recv, fwd, relay, down>>

\* An error goes upstream.  If it can be written the thread goes on with the
\* next job, otherwise it cancels the queue and shuts the connection down.
Refuse(u) ==
  /\ up' = IF Writable THEN Sent(u, eval.job, FALSE) ELSE [u EXCEPT !.open = FALSE]
  /\ IF Writable
     THEN eval' = [pc |-> "pop", job |-> None] /\ UNCHANGED <<jobs, asleep>>
     ELSE /\ eval' = [pc |-> "gone", job |-> None]
          /\ jobs' = [q |-> <<>>, closed |-> TRUE, canceled |-> TRUE]
          /\ Signal({"not_empty", "not_full"})

\* A bad frame, a failed evaluation or a prefix that does not match.
WorkRefused ==
  /\ eval.pc = "work"
  /\ Refuse(up)
  /\ UNCHANGED <<recv, fwd, relay, down>>

\* The layers are evaluated; the forwarder and its relay exist or are created.
WorkDone ==
  /\ eval.pc = "work"
  /\ eval' = [eval EXCEPT !.pc = "forward"]
  /\ IF fwd.exists THEN UNCHANGED <<fwd, relay, down>>
     ELSE /\ fwd' = [fwd EXCEPT !.exists = TRUE, !.open = TRUE]
          /\ relay' = "start"
          /\ down' = [down EXCEPT !.alive = TRUE]
  /\ UNCHANGED <<up, jobs, recv, asleep>>

\* The next worker cannot be reached.
ConnectFails ==
  /\ eval.pc = "work" /\ ~fwd.exists
  /\ Refuse(up)
  /\ UNCHANGED <<recv, fwd, relay, down>>

\* forwarder_enqueue_request: wait for room, or fail because the relay left
\* or there is no memory for the entry.
Track ==
  /\ eval.pc = "forward" /\ Awake("eval")
  /\ \/ /\ fwd.closing \/ Len(fwd.pending) < Forward
        /\ Refuse(up) /\ UNCHANGED fwd
     \/ /\ ~fwd.closing /\ Len(fwd.pending) >= Forward
        /\ Sleep("eval", "queue_not_full") /\ UNCHANGED <<up, jobs, eval, fwd>>
     \/ /\ ~fwd.closing /\ Len(fwd.pending) < Forward
        /\ fwd' = [fwd EXCEPT !.pending = Append(@, eval.job)]
        /\ eval' = [eval EXCEPT !.pc = "send"]
        /\ UNCHANGED <<up, jobs, asleep>>
  /\ UNCHANGED <<recv, relay, down>>

SendDown ==
  /\ eval.pc = "send" /\ fwd.open /\ down.alive
  /\ down' = [down EXCEPT !.frames = Append(@, eval.job)]
  /\ eval' = [pc |-> "pop", job |-> None]
  /\ UNCHANGED <<up, jobs, recv, fwd, relay, asleep>>

\* dist_worker_forwarder_remove_request: the first entry of the request, if any.
Untracked(s, id) ==
  IF \E k \in 1..Len(s) : s[k] = id
  THEN RemoveAt(s, CHOOSE k \in 1..Len(s) : s[k] = id /\ \A j \in 1..k-1 : s[j] # id)
  ELSE s

\* The frame cannot be written, or not in time: the request is untracked (the relay may have
\* answered for it already), an error goes up and both sockets are shut down.
SendDownFails ==
  /\ eval.pc = "send"
  /\ fwd' = [fwd EXCEPT !.pending = Untracked(@, eval.job), !.open = FALSE]
  /\ up' = [Sent(up, eval.job, FALSE) EXCEPT !.open = FALSE]
  /\ IF Writable
     THEN eval' = [pc |-> "pop", job |-> None] /\ UNCHANGED <<jobs, asleep>>
     ELSE /\ eval' = [pc |-> "gone", job |-> None]
          /\ jobs' = [q |-> <<>>, closed |-> TRUE, canceled |-> TRUE]
          /\ Signal({"not_empty", "not_full"})
  /\ UNCHANGED <<recv, relay, down>>

Eval == Pop \/ WorkRefused \/ WorkDone \/ ConnectFails \/ Track \/ SendDown \/ SendDownFails

-----------------------------------------------------------------------------
(* The relay thread. *)

RelayStarts ==
  /\ relay = "start"
  /\ relay' = "read"
  /\ UNCHANGED <<up, jobs, recv, eval, fwd, down, asleep>>

\* No memory for its buffer: the thread shuts the upstream connection down
\* and returns without closing the pending queue.
RelayStarves ==
  /\ relay = "start"
  /\ up' = [up EXCEPT !.open = FALSE]
  /\ relay' = "gone"
  /\ UNCHANGED <<jobs, recv, eval, fwd, down, asleep>>

PopPending == fwd' = [fwd EXCEPT !.pending = Tail(@)] /\ Signal({"queue_not_full"})

\* Mutant: the result is passed on without looking at its request id.
Fits_any(m) == m.valid

Fits(m) == m.valid /\ m.id = Head(fwd.pending)

\* The next worker's result for the oldest pending request goes upstream.
RelayResult ==
  /\ relay = "read" /\ down.results # <<>> /\ fwd.pending # <<>> /\ Fits(Head(down.results))
  /\ PopPending
  /\ up' = Sent(up, Head(down.results).id, TRUE)
  /\ down' = [down EXCEPT !.results = Tail(@)]
  /\ relay' = IF Writable THEN "read" ELSE "close"
  /\ UNCHANGED <<jobs, recv, eval>>

\* The result is passed on while it comes in; its source ends or stalls first.
RelayTruncated ==
  /\ relay = "read" /\ down.results # <<>> /\ fwd.pending # <<>> /\ Fits(Head(down.results))
  /\ PopPending
  /\ up' = [up EXCEPT !.torn = TRUE]
  /\ down' = [down EXCEPT !.results = Tail(@)]
  /\ relay' = "close"
  /\ UNCHANGED <<jobs, recv, eval>>

\* An invalid result, a wrong request id, or one that nobody waits for.
RelayInvalid ==
  /\ relay = "read" /\ down.results # <<>>
  /\ fwd.pending = <<>> \/ ~Fits(Head(down.results))
  /\ IF fwd.pending = <<>> THEN UNCHANGED <<fwd, up, asleep>>
     ELSE PopPending /\ up' = Sent(up, Head(fwd.pending), FALSE)
  /\ down' = [down EXCEPT !.results = Tail(@)]
  /\ relay' = "close"
  /\ UNCHANGED <<jobs, recv, eval>>

\* The connection ends or nothing comes in time: the oldest request is told.
RelayEnds ==
  /\ relay = "read"
  /\ down.results = <<>> \/ ~down.alive
  /\ IF fwd.pending = <<>> THEN UNCHANGED <<fwd, up, asleep>>
     ELSE PopPending /\ up' = Sent(up, Head(fwd.pending), FALSE)
  /\ relay' = "close"
  /\ UNCHANGED <<jobs, recv, eval, down>>

\* Mutant: the other pending requests are left without a word.
RelayCloses_silent ==
  /\ relay = "close"
  /\ fwd' = [fwd EXCEPT !.closing = TRUE]
  /\ Signal({"queue_not_full"})
  /\ relay' = "gone"
  /\ UNCHANGED <<up, jobs, recv, eval, down>>

\* Mutant: a thread that waits for room in the pending queue is not woken.
RelayCloses_deaf ==
  /\ relay = "close"
  /\ fwd' = [fwd EXCEPT !.closing = TRUE]
  /\ up' = [up EXCEPT !.open = FALSE]
  /\ relay' = "gone"
  /\ UNCHANGED <<jobs, recv, eval, down, asleep>>

\* The pending queue is closed and the upstream connection shut down.
RelayCloses ==
  /\ relay = "close"
  /\ fwd' = [fwd EXCEPT !.closing = TRUE]
  /\ Signal({"queue_not_full"})
  /\ up' = [up EXCEPT !.open = FALSE]
  /\ relay' = "gone"
  /\ UNCHANGED <<jobs, recv, eval, down>>

Relay == RelayStarts \/ RelayStarves
         \/ RelayResult \/ RelayTruncated \/ RelayInvalid \/ RelayEnds \/ RelayCloses

-----------------------------------------------------------------------------
(* The two neighbours. *)

UpstreamSends ==
  /\ Writable /\ up.sent < Requests
  /\ up' = [up EXCEPT !.sent = @ + 1]
  /\ UNCHANGED <<jobs, recv, eval, fwd, relay, down, asleep>>

UpstreamLeaves ==
  /\ up.peer
  /\ up' = [up EXCEPT !.peer = FALSE]
  /\ UNCHANGED <<jobs, recv, eval, fwd, relay, down, asleep>>

\* A result (its status is the next worker's affair), or a malformed one.
DownAnswers(valid) ==
  /\ fwd.open /\ down.alive /\ down.frames # <<>>
  /\ down' = [down EXCEPT !.frames = Tail(@),
                !.results = Append(@, [id |-> Head(down.frames), valid |-> valid])]
  /\ UNCHANGED <<up, jobs, recv, eval, fwd, relay, asleep>>

\* The next worker's own refusal of a later frame overtakes earlier results.
DownOvertakes ==
  /\ fwd.open /\ down.alive /\ Len(down.frames) > 1
  /\ down' = [down EXCEPT !.frames = <<Head(@)>> \o Tail(Tail(@)),
                !.results = Append(@, [id |-> down.frames[2], valid |-> TRUE])]
  /\ UNCHANGED <<up, jobs, recv, eval, fwd, relay, asleep>>

DownLeaves ==
  /\ down.alive
  /\ down' = [down EXCEPT !.alive = FALSE]
  /\ UNCHANGED <<up, jobs, recv, eval, fwd, relay, asleep>>

Neighbours == \/ UpstreamSends \/ UpstreamLeaves \/ DownOvertakes \/ DownLeaves
              \/ \E valid \in BOOLEAN : DownAnswers(valid)

Next == Recv \/ ReadFails \/ Eval \/ Relay \/ Neighbours

\* The three threads run, and the relay's socket has a receive timeout, so
\* nothing is asked of the neighbours.  The receive thread's own timeout is
\* possible, but nothing may depend on it.
Spec == Init /\ [][Next]_vars /\ WF_vars(Recv) /\ WF_vars(Eval) /\ WF_vars(Relay)

-----------------------------------------------------------------------------
(* Properties. *)

Answers(i) == {k \in DOMAIN up.out : up.out[k].id = i}

\* No request is answered twice with a result, or with a result and an error,
\* although two threads answer; results keep the order of the requests.
OneVerdict ==
  \A j, k \in DOMAIN up.out :
    /\ up.out[j].ok /\ j # k => up.out[k].id # up.out[j].id
    /\ up.out[j].ok /\ up.out[k].ok /\ j < k => up.out[j].id < up.out[k].id

\* When the receive thread returns, nobody else uses the connection's objects,
\* which live on its stack.
EndsClean == recv.pc = "gone" => eval.pc = "gone" /\ relay \in {"none", "gone"}

\* A request the worker has read is answered, or the connection ends: the
\* coordinator never waits for an answer that nobody will send.
AnsweredOrEnded == \A i \in Ids : (up.read >= i) ~> (Answers(i) # {} \/ ~Writable)

\* The evaluation thread waits for room that a relay without memory, which left
\* the pending queue open behind it, will never make.
Abandoned == relay = "gone" /\ ~fwd.closing /\ asleep["eval"] = "queue_not_full"

\* When the connection has ended the receive loop ends too, so that the worker
\* reconnects: no thread waits for another that has stopped, with the one
\* exception the code has, a full pending queue behind a relay that could not
\* allocate its buffer.
LoopEnds == ~Writable ~> (recv.pc = "gone" \/ Abandoned)

\* Two threads answer upstream and a third owns what they use; they neither
\* contradict each other nor outlive it.
AnswersSound == TypeOK /\ OneVerdict /\ EndsClean
=============================================================================
