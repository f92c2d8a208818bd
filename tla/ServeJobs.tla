------------------------------ MODULE ServeJobs ------------------------------
(***************************************************************************)
(* The life of a request in ds4-server (crates/ds4-server/src/serve.rs and *)
(* admit.rs): an accept thread, one client thread per connection, and the  *)
(* single inference owner.  A client thread reads and parses the request,  *)
(* queues a job and drains the job's output sink to its socket; the owner  *)
(* takes jobs in FIFO order, runs them on the serial session and hands the *)
(* job's lease back over the job's done channel.  The client may go away   *)
(* and the server may be told to stop at any moment.                       *)
(*                                                                         *)
(* A connection carries one request, so jobs, leases, sinks and client     *)
(* threads are all indexed by the connection.  Each action is the code run *)
(* under one acquisition of the sink and/or server mutex.  Sizes are in    *)
(* units: a streamed chunk, an error answer and a terminal are one unit.   *)
(* The continuation registry appears as the live serial turn, the pins the *)
(* leases hold on it and whether its hold window is still open; its own    *)
(* module is ContRegistry.                                                 *)
(***************************************************************************)
EXTENDS Integers, Sequences, FiniteSets

CONSTANTS
  Conns,            \* connections that may arrive
  Requests,         \* kinds of request, among "fresh", "replay" and "live"
  BodySizes,        \* request body sizes
  MaxClients, MaxQueue, MaxQueueBytes,   \* admission limits, 0 = unlimited
  JobCap,           \* JOB_SINK_CAP_BYTES
  AggCap, EvictMin, \* out_agg_cap_bytes (0 = off), out_agg_evict_min_bytes
  QueueAgeLimit,    \* TRUE when max_queue_age_s > 0
  DisconnectAbort,  \* flush() probes the socket
  MaxChunks,        \* bound: chunks a generation streams before its terminal
  None              \* no connection

ASSUME ConnsAssumption == IsFiniteSet(Conns) /\ None \notin Conns
ASSUME LimitsAssumption ==
  /\ {MaxClients, MaxQueue, MaxQueueBytes, JobCap, AggCap, EvictMin, MaxChunks} \subseteq Nat
  /\ BodySizes \subseteq Nat
  /\ "fresh" \in Requests /\ Requests \subseteq {"fresh", "replay", "live"}
  /\ {QueueAgeLimit, DisconnectAbort} \subseteq BOOLEAN

VARIABLES
  apc,      \* accept thread: "accept", "exiting", "exited"
  cpc,      \* client threads
  peer,     \* the remote end of each connection is still there
  admit,    \* AdmitState: stopping, queued, inflight_body_bytes, clients
  runtime,  \* request counters and out_backlog_bytes
  job,      \* what the request asks: body size, kind, whose turn it follows
  lease,    \* JobLease: where it is, queued flag, settlement, pin
  sink,     \* SinkBuffer of each job
  sending,  \* units the drain took and is writing to the socket
  lost,     \* response units were dropped before reaching the socket
  chan,     \* the jobs channel
  owner,    \* the inference owner: program counter, current job, budget
  turn      \* the registry: live serial turn, hold window, serial session

vars == <<apc, cpc, peer, admit, runtime, job, lease, sink, sending, lost,
          chan, owner, turn>>

Outcomes == {"completed", "failed", "canceled", "shed"}

NoJob   == [body |-> 0, kind |-> "fresh", follow |-> None]
NoLease == [at |-> "none", queued |-> FALSE, outcome |-> "canceled",
            shed |-> FALSE, pin |-> None]
NewSink == [bytes |-> 0, gone |-> FALSE, slow |-> FALSE, closed |-> FALSE,
            started |-> FALSE]

Init ==
  /\ apc = "accept"
  /\ cpc = [c \in Conns |-> "new"]
  /\ peer = [c \in Conns |-> TRUE]
  /\ admit = [stopping |-> FALSE, queued |-> 0, inflight_body_bytes |-> 0, clients |-> 0]
  /\ runtime = [started |-> 0, inflight |-> 0, completed |-> 0, failed |-> 0,
                canceled |-> 0, out_backlog |-> 0]
  /\ job = [c \in Conns |-> NoJob]
  /\ lease = [c \in Conns |-> NoLease]
  /\ sink = [c \in Conns |-> NewSink]
  /\ sending = [c \in Conns |-> 0]
  /\ lost = [c \in Conns |-> FALSE]
  /\ chan = <<>>
  /\ owner = [pc |-> "recv", cur |-> None, budget |-> 0]
  /\ turn = [live |-> None, window |-> FALSE, session |-> None]

----------------------------------------------------------------------------
(* Admission.                                                              *)

\* Mutant: the connection slot is given back twice.
ClientOver_twice(c) == /\ cpc' = [cpc EXCEPT ![c] = "over"]
                       /\ peer' = [peer EXCEPT ![c] = FALSE]
                       /\ admit' = [admit EXCEPT !.clients = @ - 2]

\* A client thread ends: its socket, its ClientLease and its sender are
\* dropped.
ClientOver(c) == /\ cpc' = [cpc EXCEPT ![c] = "over"]
                 /\ peer' = [peer EXCEPT ![c] = FALSE]
                 /\ admit' = [admit EXCEPT !.clients = @ - 1]

Accept(c) ==
  /\ apc = "accept" /\ cpc[c] = "new"
  /\ IF MaxClients > 0 /\ admit.clients >= MaxClients
     THEN /\ cpc' = [cpc EXCEPT ![c] = "over"]
          /\ UNCHANGED admit
     ELSE /\ cpc' = [cpc EXCEPT ![c] = "read"]
          /\ admit' = [admit EXCEPT !.clients = @ + 1]
  /\ UNCHANGED <<apc, peer, runtime, job, lease, sink, sending, lost, chan, owner, turn>>

OverDepth    == MaxQueue > 0 /\ admit.queued >= MaxQueue
OverBytes(n) == MaxQueueBytes > 0 /\ admit.inflight_body_bytes + n > MaxQueueBytes

\* The cheap bounds checked before the body is parsed.
preparse_shed(n) ==
  (MaxClients > 0 /\ admit.clients > MaxClients) \/ OverDepth \/ OverBytes(n)

\* prepare_client: read and parse.  Unusable input, and requests that are
\* not inference, are answered by the client thread itself.
ReadAnswered(c) ==
  /\ cpc[c] = "read"
  /\ ClientOver(c)
  /\ UNCHANGED <<apc, runtime, job, lease, sink, sending, lost, chan, owner, turn>>

ReadShed(c, n) ==
  /\ cpc[c] = "read" /\ preparse_shed(n)
  /\ ClientOver(c)
  /\ UNCHANGED <<apc, runtime, job, lease, sink, sending, lost, chan, owner, turn>>

\* A follow-up presents the call ids of the turn of connection f: with the
\* whole history ("replay"), or only the tool results ("live").
ReadJob(c, n, kind, f) ==
  /\ cpc[c] = "read" /\ ~preparse_shed(n)
  /\ (kind = "fresh") <=> (f = None)
  /\ f # c
  /\ job' = [job EXCEPT ![c] = [body |-> n, kind |-> kind, follow |-> f]]
  /\ cpc' = [cpc EXCEPT ![c] = "enqueue"]
  /\ UNCHANGED <<apc, peer, admit, runtime, lease, sink, sending, lost, chan, owner, turn>>

\* Mutant: the depth was already checked before parsing.
enqueue_trusting(n) == IF admit.stopping THEN "stopping"
                       ELSE IF OverBytes(n) THEN "shed" ELSE "ok"

enqueue(n) == IF admit.stopping THEN "stopping"
              ELSE IF OverDepth \/ OverBytes(n) THEN "shed" ELSE "ok"

\* Mutant: a refused client thread goes back and tries again.
EnqueueRefused_retry(c) ==
  /\ cpc[c] = "enqueue" /\ enqueue(job[c].body) # "ok"
  /\ UNCHANGED vars

\* The authoritative bounds, under the server mutex.
EnqueueRefused(c) ==
  /\ cpc[c] = "enqueue" /\ enqueue(job[c].body) # "ok"
  /\ ClientOver(c)
  /\ UNCHANGED <<apc, runtime, job, lease, sink, sending, lost, chan, owner, turn>>

\* Admitted: counters, continuation pin, lease, sink and channel, all under
\* the server mutex.
Enqueue(c) ==
  LET pin == IF job[c].follow # None /\ turn.live = job[c].follow
             THEN turn.live ELSE None
  IN  /\ cpc[c] = "enqueue" /\ enqueue(job[c].body) = "ok"
      /\ admit' = [admit EXCEPT !.queued = @ + 1, !.inflight_body_bytes = @ + job[c].body]
      /\ runtime' = [runtime EXCEPT !.started = @ + 1, !.inflight = @ + 1]
      /\ lease' = [lease EXCEPT ![c] = [NoLease EXCEPT !.at = "chan", !.queued = TRUE,
                                                       !.pin = pin]]
      /\ turn' = [turn EXCEPT !.window = @ \/ pin # None]
      /\ chan' = Append(chan, c)
      /\ cpc' = [cpc EXCEPT ![c] = "drain"]
      /\ UNCHANGED <<apc, peer, job, sink, sending, lost, owner>>

----------------------------------------------------------------------------
(* The output sink.  Every change holds the sink's mutex, and the server's *)
(* for the aggregate backlog.                                              *)

\* What remains of a sink whose client is given up, as gone or as a slow
\* reader: nothing buffered.
Cancelled(s) == [s EXCEPT !.bytes = 0, !.gone = TRUE]
Evicted(s)   == [s EXCEPT !.bytes = 0, !.gone = TRUE, !.slow = TRUE]

\* SinkState::cancel, with more units (in flight to the socket) lost too.
cancel(c, inflight) ==
  /\ sink' = [sink EXCEPT ![c] = Cancelled(@)]
  /\ runtime' = [runtime EXCEPT !.out_backlog = @ - sink[c].bytes]
  /\ lost' = [lost EXCEPT ![c] = @ \/ sink[c].bytes + inflight > 0]

Refused(c) == sink[c].gone \/ sink[c].closed

\* Would one more unit overflow this sink, or make it the one to evict when
\* all sinks together are over the aggregate cap?
Overflows(c) ==
  \/ sink[c].bytes + 1 > JobCap
  \/ /\ AggCap > 0 /\ runtime.out_backlog + 1 > AggCap
     /\ sink[c].bytes + 1 >= EvictMin

\* Mutant: evicting a slow reader keeps its bytes charged.
Write_norefund(c, ok) ==
  \/ /\ Refused(c) /\ ~ok
     /\ lost' = [lost EXCEPT ![c] = TRUE]
     /\ UNCHANGED <<sink, runtime>>
  \/ /\ ~Refused(c) /\ Overflows(c) /\ ~ok
     /\ sink' = [sink EXCEPT ![c] = [Evicted(@) EXCEPT !.started = TRUE]]
     /\ lost' = [lost EXCEPT ![c] = TRUE]
     /\ UNCHANGED runtime
  \/ /\ ~Refused(c) /\ ~Overflows(c) /\ ok
     /\ sink' = [sink EXCEPT ![c].bytes = @ + 1, ![c].started = TRUE]
     /\ runtime' = [runtime EXCEPT !.out_backlog = @ + 1]
     /\ UNCHANGED lost

\* JobSink::write of one unit.  Its three results: refused because the sink
\* is gone, evicted as a slow reader, or buffered.  ok tells the caller.
Write(c, ok) ==
  \/ /\ Refused(c) /\ ~ok
     /\ lost' = [lost EXCEPT ![c] = TRUE]
     /\ UNCHANGED <<sink, runtime>>
  \/ /\ ~Refused(c) /\ Overflows(c) /\ ~ok
     /\ sink' = [sink EXCEPT ![c] = [Evicted(@) EXCEPT !.started = TRUE]]
     /\ runtime' = [runtime EXCEPT !.out_backlog = @ - sink[c].bytes]
     /\ lost' = [lost EXCEPT ![c] = TRUE]
  \/ /\ ~Refused(c) /\ ~Overflows(c) /\ ok
     /\ sink' = [sink EXCEPT ![c].bytes = @ + 1, ![c].started = TRUE]
     /\ runtime' = [runtime EXCEPT !.out_backlog = @ + 1]
     /\ UNCHANGED lost

----------------------------------------------------------------------------
(* The client thread while the job runs: drain_job.                        *)

\* Mutant: the drain leaves only when the sink is gone.
DrainLook_noclose(c) ==
  /\ cpc[c] = "drain"
  /\ cpc' = [cpc EXCEPT ![c] = IF sink[c].bytes > 0 THEN "take"
                               ELSE IF sink[c].gone THEN "await" ELSE "idle"]
  /\ UNCHANGED <<apc, peer, admit, runtime, job, lease, sink, sending, lost, chan, owner, turn>>

\* Look at the buffer, then release its lock.  An empty open buffer is
\* waited on; after the interval a started stream is due a heartbeat.
DrainLook(c) ==
  /\ cpc[c] = "drain"
  /\ \/ sink[c].bytes > 0 /\ cpc' = [cpc EXCEPT ![c] = "take"]
     \/ /\ sink[c].bytes = 0 /\ (sink[c].closed \/ sink[c].gone)
        /\ cpc' = [cpc EXCEPT ![c] = "await"]
     \/ /\ sink[c].bytes = 0 /\ ~sink[c].closed /\ ~sink[c].gone
        /\ \E next \in IF sink[c].started THEN {"idle", "beat"} ELSE {"idle"} :
             cpc' = [cpc EXCEPT ![c] = next]
  /\ UNCHANGED <<apc, peer, admit, runtime, job, lease, sink, sending, lost, chan, owner, turn>>

\* Nothing to send: probe the socket, and keep a stream alive with a
\* heartbeat when one is due.  A dead peer or a failed heartbeat gives the
\* client up, with whatever was buffered since the look.
DrainIdle(c) ==
  /\ cpc[c] \in {"idle", "beat"}
  /\ \/ /\ ~peer[c] \/ cpc[c] = "beat"
        /\ cancel(c, 0)
        /\ cpc' = [cpc EXCEPT ![c] = "await"]
     \/ /\ peer[c]
        /\ cpc' = [cpc EXCEPT ![c] = "drain"]
        /\ UNCHANGED <<sink, runtime, lost>>
  /\ UNCHANGED <<apc, peer, admit, job, lease, sending, chan, owner, turn>>

\* SinkState::take.
DrainTake(c) ==
  /\ cpc[c] = "take"
  /\ sending' = [sending EXCEPT ![c] = sink[c].bytes]
  /\ sink' = [sink EXCEPT ![c].bytes = 0]
  /\ runtime' = [runtime EXCEPT !.out_backlog = @ - sink[c].bytes]
  /\ cpc' = [cpc EXCEPT ![c] = "send"]
  /\ UNCHANGED <<apc, peer, admit, job, lease, lost, chan, owner, turn>>

\* The socket takes the units, or the send fails or stalls (sending nothing
\* cannot fail).
DrainSend(c) ==
  /\ cpc[c] = "send"
  /\ sending' = [sending EXCEPT ![c] = 0]
  /\ \/ /\ cpc' = [cpc EXCEPT ![c] = "drain"]
        /\ UNCHANGED <<sink, runtime, lost>>
     \/ /\ sending[c] > 0
        /\ cancel(c, sending[c])
        /\ cpc' = [cpc EXCEPT ![c] = "await"]
  /\ UNCHANGED <<apc, peer, admit, job, lease, chan, owner, turn>>

\* Mutant: the outcome the owner saw is counted, not the final one.
LeaseDrop_early(c, o) ==
  LET bump(f) == IF lease[c].outcome = f THEN 1 ELSE 0
  IN  /\ lease' = [lease EXCEPT ![c].at = "settled", ![c].queued = FALSE,
                                ![c].pin = None, ![c].outcome = o]
      /\ admit' = [admit EXCEPT !.inflight_body_bytes = @ - job[c].body]
      /\ runtime' = [runtime EXCEPT !.inflight = @ - 1,
                       !.completed = @ + bump("completed"),
                       !.failed    = @ + bump("failed"),
                       !.canceled  = @ + bump("canceled")]

\* Mutant: the body budget of a canceled request is never given back.
LeaseDrop_keepbody(c, o) ==
  /\ lease' = [lease EXCEPT ![c].at = "settled", ![c].queued = FALSE,
                            ![c].pin = None, ![c].outcome = o]
  /\ admit' = [admit EXCEPT !.inflight_body_bytes = IF o = "canceled" THEN @ ELSE @ - job[c].body]
  /\ runtime' = [runtime EXCEPT !.inflight = @ - 1]

\* JobLease::drop: give back the queue slot if it still holds one, the pin
\* and the body budget, and count the outcome once.
LeaseDrop(c, o) ==
  LET bump(f) == IF o = f THEN 1 ELSE 0
  IN  /\ lease' = [lease EXCEPT ![c].at = "settled", ![c].queued = FALSE,
                                ![c].pin = None, ![c].outcome = o]
      /\ admit' = [admit EXCEPT
                     !.queued = IF lease[c].queued /\ @ > 0 THEN @ - 1 ELSE @,
                     !.inflight_body_bytes = @ - job[c].body]
      /\ runtime' = [runtime EXCEPT !.inflight = @ - 1,
                       !.completed = @ + bump("completed"),
                       !.failed    = @ + bump("failed"),
                       !.canceled  = @ + bump("canceled")]

\* Mutant: the settlement ignores that the client is gone.
Settle_blind(c) ==
  /\ cpc[c] = "await" /\ lease[c].at = "done"
  /\ LeaseDrop(c, lease[c].outcome)
  /\ cpc' = [cpc EXCEPT ![c] = "close"]
  /\ UNCHANGED <<apc, peer, job, sink, sending, lost, chan, owner, turn>>

\* done.recv() returns the lease the owner sent back; a client that is gone
\* by then was not served, and the lease is dropped.
Settle(c) ==
  LET o == lease[c].outcome
  IN  /\ cpc[c] = "await" /\ lease[c].at = "done"
      /\ LeaseDrop(c, IF sink[c].gone /\ o = "completed" THEN "canceled" ELSE o)
      /\ cpc' = [cpc EXCEPT ![c] = "close"]
      /\ UNCHANGED <<apc, peer, job, sink, sending, lost, chan, owner, turn>>

\* JobDrain::drop cancels the sink, the thread ends, and the sink is freed.
DrainClose(c) ==
  /\ cpc[c] = "close"
  /\ runtime' = [runtime EXCEPT !.out_backlog = @ - sink[c].bytes]
  /\ sink' = [sink EXCEPT ![c] = [NewSink EXCEPT !.gone = TRUE, !.closed = TRUE]]
  /\ lost' = [lost EXCEPT ![c] = FALSE]
  /\ job' = [job EXCEPT ![c] = NoJob]
  /\ ClientOver(c)
  /\ UNCHANGED <<apc, lease, sending, chan, owner, turn>>

----------------------------------------------------------------------------
(* The inference owner: owner_loop, run_owner_job, run_serial.             *)

Cur == owner.cur
Goto(pc) == owner' = [owner EXCEPT !.pc = pc]

\* Finish the current job with this outcome.
Outcome(o, shed) ==
  /\ lease' = [lease EXCEPT ![Cur].outcome = o, ![Cur].shed = shed]
  /\ Goto("finish")

\* Receive the oldest job and unlink it from the queue count.
OwnerRecv ==
  /\ owner.pc = "recv" /\ chan # <<>>
  /\ owner' = [owner EXCEPT !.pc = "begin", !.cur = Head(chan)]
  /\ chan' = Tail(chan)
  /\ lease' = [lease EXCEPT ![Head(chan)].at = "owner", ![Head(chan)].queued = FALSE]
  /\ admit' = [admit EXCEPT !.queued = IF @ > 0 THEN @ - 1 ELSE @]
  /\ UNCHANGED <<apc, cpc, peer, runtime, job, sink, sending, lost, turn>>

\* The client left while the job was queued.
OwnerSkipGone ==
  /\ owner.pc = "begin"
  /\ \/ sink[Cur].gone /\ UNCHANGED <<sink, runtime, lost>>
     \/ ~sink[Cur].gone /\ ~peer[Cur] /\ cancel(Cur, 0)
  /\ Outcome("canceled", FALSE)
  /\ UNCHANGED <<apc, cpc, peer, admit, job, sending, chan, turn>>

\* The job waited too long.
OwnerShedAge ==
  /\ QueueAgeLimit
  /\ owner.pc = "begin" /\ ~sink[Cur].gone /\ peer[Cur]
  /\ \E ok \in BOOLEAN : Write(Cur, ok)
  /\ Outcome("shed", TRUE)
  /\ UNCHANGED <<apc, cpc, peer, admit, job, sending, chan, turn>>

OwnerBegin ==
  /\ owner.pc = "begin" /\ ~sink[Cur].gone /\ peer[Cur]
  /\ Goto("serial")
  /\ UNCHANGED <<apc, cpc, peer, admit, runtime, job, lease, sink, sending, lost, chan, turn>>

\* serial_hold: the frontier is reserved for another conversation.
Held(c) == turn.live # None /\ turn.window /\ job[c].follow # turn.live
\* resolve_serial: the session still ends where the live turn left it.
Resolved(c) == job[c].follow # None /\ turn.live = job[c].follow
               /\ turn.session = turn.live

OwnerHold ==
  /\ owner.pc = "serial" /\ Held(Cur)
  /\ \E ok \in BOOLEAN : Write(Cur, ok)
  /\ Outcome("shed", TRUE)
  /\ UNCHANGED <<apc, cpc, peer, admit, job, sending, chan, turn>>

\* 409 for a follow-up whose state is gone, and 503 when the session cannot
\* be fitted in memory: both answers settle by whether they were written.
OwnerRefuse ==
  /\ owner.pc = "serial" /\ ~Held(Cur)
  /\ \E ok \in BOOLEAN :
       /\ Write(Cur, ok)
       /\ Outcome(IF ok THEN "completed" ELSE "canceled", FALSE)
  /\ UNCHANGED <<apc, cpc, peer, admit, job, sending, chan, turn>>

\* ensure_serial_session_fit recreated the session at another size: what it
\* held, and the live turn, are gone.  A live frame is never resized.
OwnerResize ==
  /\ owner.pc = "serial" /\ ~Held(Cur) /\ job[Cur].kind # "live"
  /\ turn.live # None \/ turn.session # None
  /\ turn' = [turn EXCEPT !.live = None, !.session = None]
  /\ UNCHANGED <<apc, cpc, peer, admit, runtime, job, lease, sink, sending, lost, chan, owner>>

\* Start generating: the session leaves whatever it held.
OwnerGenerate ==
  /\ owner.pc = "serial" /\ ~Held(Cur)
  /\ job[Cur].kind = "live" => Resolved(Cur)
  /\ owner' = [owner EXCEPT !.pc = "generate", !.budget = MaxChunks]
  /\ turn' = [turn EXCEPT !.session = None]
  /\ UNCHANGED <<apc, cpc, peer, admit, runtime, job, lease, sink, sending, lost, chan>>

\* Stream one chunk; a failed write ends the generation as canceled.
OwnerChunk ==
  /\ owner.pc = "generate" /\ owner.budget > 0
  /\ \E ok \in BOOLEAN :
       /\ Write(Cur, ok)
       /\ IF ok THEN /\ owner' = [owner EXCEPT !.budget = @ - 1]
                     /\ UNCHANGED lease
          ELSE Outcome("canceled", FALSE)
  /\ UNCHANGED <<apc, cpc, peer, admit, job, sending, chan, turn>>

\* JobSink::flush between chunks notices that the client is gone.
OwnerFlushGone ==
  /\ owner.pc = "generate"
  /\ \/ sink[Cur].gone /\ UNCHANGED <<sink, runtime, lost>>
     \/ DisconnectAbort /\ ~sink[Cur].gone /\ ~peer[Cur] /\ cancel(Cur, 0)
  /\ Outcome("canceled", FALSE)
  /\ UNCHANGED <<apc, cpc, peer, admit, job, sending, chan, turn>>

\* A bad prompt or an engine error is answered as well as it can be; the
\* registry is left as it is.
OwnerError ==
  /\ \/ owner.pc = "generate"
     \/ owner.pc = "serial" /\ ~Held(Cur) /\ (job[Cur].kind = "live" => Resolved(Cur))
  /\ \E ok \in BOOLEAN : Write(Cur, ok)
  /\ Outcome("failed", FALSE)
  /\ UNCHANGED <<apc, cpc, peer, admit, job, sending, chan, turn>>

\* A turn without tool calls supersedes the live one and writes its
\* terminal; a "finish: error" terminal counts as failed.
OwnerPlainEnd(failed) ==
  /\ owner.pc = "generate"
  /\ turn' = [turn EXCEPT !.live = None]
  /\ \E ok \in BOOLEAN :
       /\ Write(Cur, ok)
       /\ Outcome(IF ~ok THEN "canceled" ELSE IF failed THEN "failed" ELSE "completed", FALSE)
  /\ UNCHANGED <<apc, cpc, peer, admit, job, sending, chan>>

\* commit_tool_terminal: publish the turn and append its terminal in one
\* critical section, or do neither.  Even a sink with room is full when the
\* memory for the terminal cannot be reserved.
TerminalFull(c) == \/ sink[c].bytes + 1 > JobCap
                   \/ AggCap > 0 /\ runtime.out_backlog + 1 > AggCap

OwnerToolFull ==
  /\ owner.pc = "generate"
  /\ sink' = [sink EXCEPT ![Cur] = Evicted(@)]
  /\ runtime' = [runtime EXCEPT !.out_backlog = @ - sink[Cur].bytes]
  /\ lost' = [lost EXCEPT ![Cur] = TRUE]
  /\ Outcome("shed", TRUE)
  /\ UNCHANGED <<apc, cpc, peer, admit, job, sending, chan, turn>>

\* Mutant: the turn of a client found gone stays published.
OwnerToolGone_keep ==
  /\ owner.pc = "generate" /\ ~TerminalFull(Cur)
  /\ sink[Cur].gone \/ ~peer[Cur]
  /\ sink' = [sink EXCEPT ![Cur] = Cancelled(@)]
  /\ runtime' = [runtime EXCEPT !.out_backlog = @ - sink[Cur].bytes]
  /\ lost' = [lost EXCEPT ![Cur] = TRUE]
  /\ turn' = [live |-> Cur, window |-> TRUE, session |-> Cur]
  /\ Outcome("canceled", FALSE)
  /\ UNCHANGED <<apc, cpc, peer, admit, job, sending, chan>>

OwnerToolGone ==
  /\ owner.pc = "generate" /\ ~TerminalFull(Cur)
  /\ sink[Cur].gone \/ ~peer[Cur]
  /\ sink' = [sink EXCEPT ![Cur] = Cancelled(@)]
  /\ runtime' = [runtime EXCEPT !.out_backlog = @ - sink[Cur].bytes]
  /\ lost' = [lost EXCEPT ![Cur] = TRUE]
  /\ turn' = [turn EXCEPT !.live = None]
  /\ Outcome("canceled", FALSE)
  /\ UNCHANGED <<apc, cpc, peer, admit, job, sending, chan>>

OwnerToolCommit ==
  /\ owner.pc = "generate" /\ ~TerminalFull(Cur)
  /\ ~sink[Cur].gone /\ peer[Cur]
  /\ sink' = [sink EXCEPT ![Cur].bytes = @ + 1, ![Cur].started = TRUE]
  /\ runtime' = [runtime EXCEPT !.out_backlog = @ + 1]
  /\ turn' = [live |-> Cur, window |-> TRUE, session |-> Cur]
  /\ Outcome("completed", FALSE)
  /\ UNCHANGED <<apc, cpc, peer, admit, job, sending, lost, chan>>

\* slow_reader(), close the sink, send the lease over the done channel.
OwnerFinish ==
  /\ owner.pc = "finish"
  /\ sink' = [sink EXCEPT ![Cur].closed = TRUE]
  /\ lease' = [lease EXCEPT ![Cur].at = "done",
                 ![Cur].shed = @ \/ sink[Cur].slow,
                 ![Cur].outcome = IF sink[Cur].slow /\ @ \notin {"failed", "shed"}
                                  THEN "canceled" ELSE @]
  /\ owner' = [owner EXCEPT !.pc = "recv", !.cur = None, !.budget = 0]
  /\ UNCHANGED <<apc, cpc, peer, admit, runtime, job, sending, lost, chan, turn>>

----------------------------------------------------------------------------
(* Stopping.                                                               *)

\* The accept thread leaves its loop, then bars the queue.
AcceptStop ==
  /\ apc = "accept"
  /\ apc' = "exiting"
  /\ UNCHANGED <<cpc, peer, admit, runtime, job, lease, sink, sending, lost, chan, owner, turn>>

AcceptExit ==
  /\ apc = "exiting"
  /\ apc' = "exited"
  /\ admit' = [admit EXCEPT !.stopping = TRUE]
  /\ UNCHANGED <<cpc, peer, runtime, job, lease, sink, sending, lost, chan, owner, turn>>

\* Mutant: client threads hold no sender.
Disconnected_accept == chan = <<>> /\ apc = "exited"

\* The channel is empty and every sender (the accept thread's, and each
\* client thread's clone) is gone.
Disconnected == chan = <<>> /\ apc = "exited" /\ \A c \in Conns : cpc[c] \in {"new", "over"}

\* shutdown_owner: checkpoint the serial session, after the last job.
OwnerShutdown ==
  /\ owner.pc = "recv" /\ Disconnected
  /\ Goto("halted")
  /\ UNCHANGED <<apc, cpc, peer, admit, runtime, job, lease, sink, sending, lost, chan, turn>>

----------------------------------------------------------------------------
(* The environment.                                                        *)

PeerLeaves(c) ==
  /\ peer[c] /\ cpc[c] \notin {"new", "over"}
  /\ peer' = [peer EXCEPT ![c] = FALSE]
  /\ UNCHANGED <<apc, cpc, admit, runtime, job, lease, sink, sending, lost, chan, owner, turn>>

\* Time passes: the hold window and the pin deadline close, or the live
\* turn outlives its TTL and the next query demotes it.
TurnAges ==
  /\ turn.live # None
  /\ \/ turn.window /\ turn' = [turn EXCEPT !.window = FALSE]
     \/ turn' = [turn EXCEPT !.live = None, !.window = FALSE]
  /\ UNCHANGED <<apc, cpc, peer, admit, runtime, job, lease, sink, sending, lost, chan, owner>>

ClientThread(c) ==
  \/ ReadAnswered(c)
  \/ \E n \in BodySizes : ReadShed(c, n)
  \/ \E n \in BodySizes, kind \in Requests, f \in Conns \cup {None} : ReadJob(c, n, kind, f)
  \/ EnqueueRefused(c) \/ Enqueue(c)
  \/ DrainLook(c) \/ DrainIdle(c) \/ DrainTake(c) \/ DrainSend(c)
  \/ Settle(c) \/ DrainClose(c)

RunJob ==
  \/ OwnerSkipGone \/ OwnerShedAge \/ OwnerBegin
  \/ OwnerHold \/ OwnerRefuse \/ OwnerResize \/ OwnerGenerate
  \/ OwnerChunk \/ OwnerFlushGone \/ OwnerError
  \/ \E failed \in BOOLEAN : OwnerPlainEnd(failed)
  \/ OwnerToolFull \/ OwnerToolGone \/ OwnerToolCommit
  \/ OwnerFinish

OwnerThread == OwnerRecv \/ RunJob \/ OwnerShutdown

Next ==
  \/ \E c \in Conns : Accept(c) \/ ClientThread(c) \/ PeerLeaves(c)
  \/ OwnerThread
  \/ AcceptStop \/ AcceptExit
  \/ TurnAges

Spec == Init /\ [][Next]_vars

\* Every thread keeps running: the owner never waits for a client, socket
\* reads, sends and the drain's condition wait all time out.
Fairness ==
  /\ WF_vars(OwnerThread)
  /\ WF_vars(AcceptExit)
  /\ \A c \in Conns : WF_vars(ClientThread(c))

FairSpec == Spec /\ Fairness

----------------------------------------------------------------------------
(* Properties.                                                             *)

ClientPCs == {"new", "read", "enqueue", "drain", "idle", "beat", "take", "send",
              "await", "close", "over"}
OwnerPCs  == {"recv", "begin", "serial", "generate", "finish", "halted"}
Places    == {"none", "chan", "owner", "done", "settled"}

\* The types of the server's state.
TypeOK ==
  /\ apc \in {"accept", "exiting", "exited"}
  /\ cpc \in [Conns -> ClientPCs]
  /\ peer \in [Conns -> BOOLEAN]
  /\ admit \in [stopping : BOOLEAN, queued : Nat, inflight_body_bytes : Int, clients : Nat]
  /\ runtime \in [started : Nat, inflight : Nat, completed : Nat, failed : Nat,
                  canceled : Nat, out_backlog : Int]
  /\ job \in [Conns -> [body : Nat, kind : Requests, follow : Conns \cup {None}]]
  /\ lease \in [Conns -> [at : Places, queued : BOOLEAN, outcome : Outcomes,
                          shed : BOOLEAN, pin : Conns \cup {None}]]
  /\ sink \in [Conns -> [bytes : Nat, gone : BOOLEAN, slow : BOOLEAN,
                         closed : BOOLEAN, started : BOOLEAN]]
  /\ sending \in [Conns -> Nat] /\ lost \in [Conns -> BOOLEAN]
  /\ chan \in Seq(Conns)
  /\ owner \in [pc : OwnerPCs, cur : Conns \cup {None}, budget : Nat]
  /\ turn \in [live : Conns \cup {None}, window : BOOLEAN, session : Conns \cup {None}]

LeasesAt(P) == {c \in Conns : lease[c].at \in P}
Settled(o)  == {c \in LeasesAt({"settled"}) : lease[c].outcome = o}

\* The queue depth admission compares with its limit is exactly the number
\* of jobs whose lease still holds a queue slot: no path of a job, through
\* dequeue, disconnect or shedding, gives its slot back twice or never.
QueueAccounted == admit.queued = Cardinality({c \in Conns : lease[c].queued})

\* The connection count is the number of client threads.
ClientsAccounted == admit.clients = Cardinality({c \in Conns : cpc[c] \notin {"new", "over"}})

\* Every admitted request is in flight or has been counted once under the
\* outcome its lease ended with (a shed one under none of the three).
OutcomesAccounted ==
  /\ runtime.started   = Cardinality(LeasesAt(Places \ {"none"}))
  /\ runtime.inflight  = Cardinality(LeasesAt(Places \ {"none", "settled"}))
  /\ runtime.completed = Cardinality(Settled("completed"))
  /\ runtime.failed    = Cardinality(Settled("failed"))
  /\ runtime.canceled  = Cardinality(Settled("canceled"))

\* Amounts are added up by counting units: the bodies of the live leases, and
\* what the sinks hold.
BodyUnits == UNION {{c} \X (1..job[c].body) : c \in LeasesAt(Places \ {"none", "settled"})}
OutUnits  == UNION {{c} \X (1..sink[c].bytes) : c \in Conns}

\* The body budget in use is the sum of the bodies of the live leases, so
\* it returns to zero, and it never exceeds its limit.
BodyAccounted ==
  /\ admit.inflight_body_bytes = Cardinality(BodyUnits)
  /\ MaxQueueBytes > 0 => admit.inflight_body_bytes <= MaxQueueBytes

\* The aggregate backlog is the sum of what the sinks hold.  Small writers
\* may push it over the aggregate cap, but only below the eviction size
\* each, so the excess is bounded by the number of connections; and after
\* the shutdown nothing is left charged.
Slack == IF EvictMin > 0 THEN EvictMin - 1 ELSE 0
BacklogAccounted ==
  /\ runtime.out_backlog = Cardinality(OutUnits)
  /\ AggCap > 0 => runtime.out_backlog <= AggCap + Cardinality(Conns) * Slack
  /\ owner.pc = "halted" => runtime.out_backlog = 0

\* The authoritative check under the mutex keeps the queue within its limit
\* even though the pre-parse check is stale by the time of the enqueue.
QueueBounded == MaxQueue > 0 => admit.queued <= MaxQueue

\* Admission is exact: slots taken at admission come back on every path, and
\* the queue stays within its limit.
AdmissionAccounted == QueueAccounted /\ ClientsAccounted /\ QueueBounded

\* A request is counted as completed (its thread about to close) only if
\* everything written for it went to the socket: a client that disappears
\* or is evicted, even after the owner finished, makes it a cancellation.
CompletedDelivered ==
  \A c \in Settled("completed") : cpc[c] = "close" => ~lost[c] /\ sending[c] = 0 /\ sink[c].bytes = 0

\* A sink given up holds no bytes and never will: nothing of a client that
\* left stays charged to the aggregate backlog.
GoneHoldsNothing == \A c \in Conns : sink[c].slow \/ sink[c].gone =>
                                       sink[c].gone /\ sink[c].bytes = 0

\* What a client is owed is settled once and for all: delivered in full by
\* a completed request, and given back by one that is abandoned.
OutputSettled == CompletedDelivered /\ GoneHoldsNothing

\* The live turn is one whose terminal was accepted for its client: a shed,
\* failed or slow request, or one whose client was gone at the commit, never
\* leaves a frontier reserved behind it.  A client may still leave after its
\* terminal was accepted; the client thread then settles the completed
\* request as canceled, and its turn stays.
TurnWasAccepted ==
  \A c \in Conns : turn.live = c =>
    /\ lease[c].at \notin {"none", "chan"} /\ ~lease[c].shed /\ ~sink[c].slow
    /\ \/ lease[c].outcome = "completed"
       \/ lease[c].at = "settled" /\ lease[c].outcome = "canceled"

\* Shutdown checkpoints only after the last job: when the owner has halted
\* no client thread can still queue a job, and every lease, pin, queue slot
\* and connection slot has been given back.
HaltedIsQuiet ==
  owner.pc = "halted" =>
    /\ chan = <<>> /\ admit.queued = 0 /\ admit.clients = 0
    /\ runtime.inflight = 0
    /\ \A c \in Conns : /\ cpc[c] \in {"new", "over"}
                        /\ lease[c].at \in {"none", "settled"} /\ lease[c].pin = None

\* Whatever the clients do (never read, disconnect, stall), every queued
\* job is eventually settled.
JobsSettle == \A c \in Conns : lease[c].at = "chan" ~> lease[c].at = "settled"

\* Once told to stop, the server drains its jobs and reaches the shutdown
\* checkpoint.
StopHalts == apc = "exiting" ~> owner.pc = "halted"

=============================================================================
