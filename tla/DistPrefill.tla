----------------------------- MODULE DistPrefill -----------------------------
(***************************************************************************)
(* One pipelined prefill of the distributed coordinator (ds4_distributed.c,*)
(* dist_coordinator_prefill_prompt_pipelined).  The calling thread (main)  *)
(* evaluates its own layers chunk by chunk into a ring of send slots, a    *)
(* sender thread writes the slots to the first worker, and a reader thread *)
(* takes the results.  The three meet in two mutexes and three condition   *)
(* variables; "asleep" says who is inside pthread_cond_wait, so a signal   *)
(* the code forgets is a thread that never wakes.  The worker may refuse a *)
(* chunk, answer nonsense, say nothing until a socket timeout, or go away. *)
(***************************************************************************)
EXTENDS Naturals, Sequences

CONSTANTS
  Chunks,    \* chunk_count of the call
  Slots,     \* sender.slot_count, the send depth
  Window,    \* flow_window
  WireCap,   \* frames the route holds before a write blocks
  Relayed    \* the first worker forwards to another one

ASSUME ChunksMany  == Chunks \in Nat /\ Chunks > 1
ASSUME SlotsFit    == Slots \in 1..Chunks
ASSUME WindowFits  == Window \in 1..Chunks
ASSUME WireCapFits == WireCap \in Nat /\ WireCap > 0
ASSUME RelayedBool == Relayed \in BOOLEAN

VARIABLES
  main,      \* the calling thread: pc, chunks its session holds, submitted, reported
  ring,      \* the sender's slots: contents, head, tail, queued, stop, finished
  sender,    \* the sender thread: pc, rc
  reader,    \* the reader thread: pc, results taken, rc, progress
  conn,      \* the connection; written: frames ever sent, good: chunks evaluated
  asleep,    \* [thread -> the condition variable it waits on, or "awake"]
  faults     \* what has gone wrong so far (history)

vars == <<main, ring, sender, reader, conn, asleep, faults>>

Pending == 3 \* no return code yet
Torn == 0    \* contents of a slot that is being written
Threads == {"main", "sender"}   \* those that wait on a condition variable
Verdicts == {"ok", "refused", "bad"}
Faults == {"setup", "local", "head", "timeout", "closed", "overtook"} \cup (Verdicts \ {"ok"})
MainPcs == {"start", "window", "acquire", "eval", "enqueue", "finish", "joinSender",
            "drain", "joinReader", "abort", "returned"}

MainRec == [pc : MainPcs, local : 0..Chunks, submitted : 0..Chunks, reported : 0..Chunks,
            rc : {0, 1}, ret : {0, 1, 2, Pending}]
RingRec == [buf : [0..Slots-1 -> 0..Chunks], head : 0..Slots-1, tail : 0..Slots-1,
            queued : 0..Slots, stop : BOOLEAN, producerDone : BOOLEAN]
SenderRec == [pc : {"none", "wait", "send", "gone"}, rc : {0, 1}]
ReaderRec == [pc : {"none", "recv", "gone"}, i : 0..Chunks, rc : 0..2, completed : 0..Chunks, done : BOOLEAN]
Reply == [id : 0..Chunks, verdict : Verdicts]
ConnRec == [up : BOOLEAN, peer : BOOLEAN, written : Seq(0..Chunks), good : SUBSET (0..Chunks),
            wire : Seq(0..Chunks), replies : Seq(Reply)]
Waits == {"awake", "can_enqueue", "can_dequeue", "progress_cv"}

TypeOK ==
  /\ main \in MainRec /\ ring \in RingRec /\ sender \in SenderRec /\ reader \in ReaderRec
  /\ conn \in ConnRec /\ asleep \in [Threads -> Waits] /\ faults \subseteq Faults

Init ==
  /\ main = [pc |-> "start", local |-> 0, submitted |-> 0, reported |-> 0, rc |-> 0, ret |-> Pending]
  /\ ring = [buf |-> [s \in 0..Slots-1 |-> Torn], head |-> 0, tail |-> 0, queued |-> 0,
             stop |-> FALSE, producerDone |-> FALSE]
  /\ sender = [pc |-> "none", rc |-> 0]
  /\ reader = [pc |-> "none", i |-> 0, rc |-> 0, completed |-> 0, done |-> FALSE]
  /\ conn = [up |-> TRUE, peer |-> TRUE, written |-> <<>>, good |-> {}, wire |-> <<>>,
             replies |-> <<>>]
  /\ asleep = [t \in Threads |-> "awake"]
  /\ faults = {}

-----------------------------------------------------------------------------
(* Condition variables and the connection. *)

Awake(t) == asleep[t] = "awake"

Sleep(t, cv) == asleep' = [asleep EXCEPT ![t] = cv]

\* pthread_cond_signal or _broadcast: each variable has at most one waiter.
Signal(cvs) == asleep' = [t \in Threads |-> IF asleep[t] \in cvs THEN "awake" ELSE asleep[t]]

\* shutdown(fd, SHUT_RDWR): what has already arrived can still be read.
Shutdown == conn' = [conn EXCEPT !.up = FALSE]

-----------------------------------------------------------------------------
(* The calling thread. *)

\* Both threads start.
Start ==
  /\ main.pc = "start"
  /\ main' = [main EXCEPT !.pc = "window"]
  /\ sender' = [sender EXCEPT !.pc = "wait"]
  /\ reader' = [reader EXCEPT !.pc = "recv"]
  /\ UNCHANGED <<ring, conn, asleep, faults>>

\* Memory or the reader thread is refused: nothing runs yet.
StartFails ==
  /\ main.pc = "start"
  /\ main' = [main EXCEPT !.pc = "returned", !.ret = 1]
  /\ faults' = faults \cup {"setup"}
  /\ UNCHANGED <<ring, sender, reader, conn, asleep>>

\* Only the sender thread is refused: the reader is cancelled and awaited.
StartHalf ==
  /\ main.pc = "start"
  /\ main' = [main EXCEPT !.pc = "abort"]
  /\ reader' = [reader EXCEPT !.pc = "recv"]
  /\ ring' = [ring EXCEPT !.stop = TRUE, !.producerDone = TRUE]
  /\ Shutdown
  /\ faults' = faults \cup {"setup"}
  /\ UNCHANGED <<sender, asleep>>

Abort ==
  /\ main.pc = "abort" /\ reader.pc = "gone"
  /\ main' = [main EXCEPT !.pc = "returned", !.ret = 1]
  /\ UNCHANGED <<ring, sender, reader, conn, asleep, faults>>

HasRoom == main.submitted < reader.completed + Window

\* wait_flow_window, and what it reports of the reader's progress.
WaitFlowWindow ==
  /\ main.pc = "window" /\ Awake("main")
  /\ main' = [main EXCEPT !.reported = reader.completed,
                !.pc = IF reader.done THEN "finish" ELSE IF HasRoom THEN "acquire" ELSE "window",
                !.rc = IF reader.done THEN 1 ELSE 0]
  /\ IF reader.done \/ HasRoom THEN UNCHANGED asleep ELSE Sleep("main", "progress_cv")
  /\ UNCHANGED <<ring, sender, reader, conn, faults>>

\* acquire_slot; from here on the local evaluation writes into the slot.
AcquireSlot ==
  /\ main.pc = "acquire" /\ Awake("main")
  /\ \/ /\ ~ring.stop /\ ring.queued = Slots
        /\ Sleep("main", "can_enqueue") /\ UNCHANGED <<main, ring>>
     \/ /\ ring.stop \/ sender.rc # 0
        /\ main' = [main EXCEPT !.pc = "finish", !.rc = 1]
        /\ UNCHANGED <<ring, asleep>>
     \/ /\ ~ring.stop /\ ring.queued # Slots /\ sender.rc = 0
        /\ main' = [main EXCEPT !.pc = "eval"]
        /\ ring' = [ring EXCEPT !.buf[ring.tail] = Torn]
        /\ UNCHANGED asleep
  /\ UNCHANGED <<sender, reader, conn, faults>>

\* The reset of the first chunk and the local layers of this one succeed.
EvalLocal ==
  /\ main.pc = "eval"
  /\ main' = [main EXCEPT !.pc = "enqueue", !.local = @ + 1]
  /\ ring' = [ring EXCEPT !.buf[ring.tail] = main.submitted + 1]
  /\ UNCHANGED <<sender, reader, conn, asleep, faults>>

EvalLocalFails ==
  /\ main.pc = "eval"
  /\ main' = [main EXCEPT !.pc = "finish", !.rc = 1]
  /\ faults' = faults \cup {"local"}
  /\ UNCHANGED <<ring, sender, reader, conn, asleep>>

\* enqueue_slot, the progress report and the loop's counters.
EnqueueSlot ==
  /\ main.pc = "enqueue"
  /\ IF ring.stop \/ sender.rc # 0
     THEN /\ main' = [main EXCEPT !.pc = "finish", !.rc = 1]
          /\ UNCHANGED <<ring, asleep>>
     ELSE /\ main' = [main EXCEPT !.submitted = @ + 1, !.reported = reader.completed,
                        !.pc = IF main.submitted + 1 = Chunks THEN "finish" ELSE "window"]
          /\ ring' = [ring EXCEPT !.tail = (@ + 1) % Slots, !.queued = @ + 1]
          /\ Signal({"can_dequeue"})
  /\ UNCHANGED <<sender, reader, conn, faults>>

\* sender_finish, or sender_cancel after a failure.
Finish ==
  /\ main.pc = "finish"
  /\ main' = [main EXCEPT !.pc = "joinSender"]
  /\ ring' = [ring EXCEPT !.producerDone = TRUE, !.stop = @ \/ main.rc # 0]
  /\ IF main.rc = 0
     THEN Signal({"can_dequeue"}) /\ UNCHANGED conn
     ELSE Signal({"can_enqueue", "can_dequeue"}) /\ Shutdown
  /\ UNCHANGED <<sender, reader, faults>>

\* Mutant: the last results are not reported before the reader is joined.
JoinSender_undrained ==
  /\ main.pc = "joinSender" /\ sender.pc = "gone"
  /\ main' = [main EXCEPT !.rc = IF main.rc # 0 \/ sender.rc # 0 THEN 1 ELSE 0,
                !.pc = "joinReader"]
  /\ IF main'.rc # 0 THEN Shutdown ELSE UNCHANGED conn
  /\ UNCHANGED <<ring, sender, reader, asleep, faults>>

\* The sender is joined; its failure is the call's.
JoinSender ==
  /\ main.pc = "joinSender" /\ sender.pc = "gone"
  /\ LET failed == main.rc # 0 \/ sender.rc # 0
     IN  /\ main' = [main EXCEPT !.rc = IF failed THEN 1 ELSE 0,
                       !.pc = IF failed THEN "joinReader" ELSE "drain"]
         /\ IF failed THEN Shutdown ELSE UNCHANGED conn
  /\ UNCHANGED <<ring, sender, reader, asleep, faults>>

\* Mutant: the wait is for every chunk, not for what the reader completed.
Drain_all ==
  /\ main.pc = "drain" /\ Awake("main")
  /\ IF reader.completed <= main.reported /\ ~reader.done
     THEN Sleep("main", "progress_cv") /\ UNCHANGED main
     ELSE /\ main' = [main EXCEPT !.reported = reader.completed,
                        !.pc = IF reader.done /\ reader.completed = Chunks
                               THEN "joinReader" ELSE "drain"]
          /\ UNCHANGED asleep
  /\ UNCHANGED <<ring, sender, reader, conn, faults>>

\* wait_emit_progress until the reader is done and all is reported.
Drain ==
  /\ main.pc = "drain" /\ Awake("main")
  /\ IF reader.completed <= main.reported /\ ~reader.done
     THEN Sleep("main", "progress_cv") /\ UNCHANGED main
     ELSE /\ main' = [main EXCEPT !.reported = reader.completed,
                        !.pc = IF reader.done THEN "joinReader" ELSE "drain"]
          /\ UNCHANGED asleep
  /\ UNCHANGED <<ring, sender, reader, conn, faults>>

\* The reader is joined and its failure comes first; a final hidden state
\* still has to pass the local output head.
Return ==
  /\ main.pc = "joinReader" /\ reader.pc = "gone"
  /\ \E head \in {0, 1} :
       /\ head = 1 => reader.rc = 0 /\ main.rc = 0
       /\ main' = [main EXCEPT !.pc = "returned",
                     !.ret = IF reader.rc # 0 THEN reader.rc
                             ELSE IF main.rc # 0 THEN 1 ELSE head]
       /\ faults' = faults \cup (IF head = 1 THEN {"head"} ELSE {})
  /\ UNCHANGED <<ring, sender, reader, conn, asleep>>

Main == \/ Start \/ StartFails \/ StartHalf \/ Abort
        \/ WaitFlowWindow \/ AcquireSlot \/ EvalLocal \/ EvalLocalFails \/ EnqueueSlot
        \/ Finish \/ JoinSender \/ Drain \/ Return

-----------------------------------------------------------------------------
(* The sender thread. *)

\* sender_main up to the unlock: the slot is only chosen here.
PickSlot ==
  /\ sender.pc = "wait" /\ Awake("sender")
  /\ LET empty == ring.queued = 0
     IN  \/ /\ ~ring.stop /\ empty /\ ~ring.producerDone
            /\ Sleep("sender", "can_dequeue") /\ UNCHANGED sender
         \/ /\ ring.stop \/ (empty /\ ring.producerDone)
            /\ sender' = [sender EXCEPT !.pc = "gone"] /\ UNCHANGED asleep
         \/ /\ ~ring.stop /\ ~empty
            /\ sender' = [sender EXCEPT !.pc = "send"] /\ UNCHANGED asleep
  /\ UNCHANGED <<main, ring, reader, conn, faults>>

\* Mutant: the slot is released before its frame is written.
SendSlot_released ==
  /\ sender.pc = "send" /\ conn.up /\ conn.peer /\ Len(conn.wire) < WireCap
  /\ conn' = [conn EXCEPT !.wire = Append(@, ring.buf[(ring.head + 1) % Slots]),
                          !.written = Append(@, ring.buf[(ring.head + 1) % Slots])]
  /\ ring' = [ring EXCEPT !.head = (@ + 1) % Slots, !.queued = @ - 1]
  /\ sender' = [sender EXCEPT !.pc = "wait"]
  /\ Signal({"can_enqueue"})
  /\ UNCHANGED <<main, reader, faults>>

\* The frame is written from the slot without the lock, then the slot freed.
SendSlot ==
  /\ sender.pc = "send" /\ conn.up /\ Len(conn.wire) < WireCap
  /\ conn' = [conn EXCEPT !.wire = Append(@, ring.buf[ring.head]),
                          !.written = Append(@, ring.buf[ring.head])]
  /\ ring' = [ring EXCEPT !.head = (@ + 1) % Slots, !.queued = @ - 1]
  /\ sender' = [sender EXCEPT !.pc = "wait"]
  /\ Signal({"can_enqueue"})
  /\ UNCHANGED <<main, reader, faults>>

\* The write fails or times out: the sender stops the producer, and the
\* shutdown ends the reader's wait.
SendFails ==
  /\ sender.pc = "send"
  /\ \/ ~(conn.up /\ conn.peer) /\ UNCHANGED faults
     \/ conn.up /\ Len(conn.wire) = WireCap /\ faults' = faults \cup {"timeout"}
  /\ sender' = [pc |-> "gone", rc |-> 1]
  /\ ring' = [ring EXCEPT !.stop = TRUE]
  /\ Signal({"can_enqueue", "can_dequeue"})
  /\ Shutdown
  /\ UNCHANGED <<main, reader>>

Sender == PickSlot \/ SendSlot \/ SendFails

-----------------------------------------------------------------------------
(* The reader thread. *)

\* Mutant: progress is signalled before the result is checked.
Stop_counted(rc, rest) ==
  /\ reader' = [reader EXCEPT !.pc = "gone", !.rc = rc, !.done = TRUE, !.completed = reader.i + 1]
  /\ conn' = [conn EXCEPT !.up = FALSE, !.replies = rest]
  /\ Signal({"progress_cv"})

\* The reader gives up at chunk i: its code, the shutdown, the progress flag.
Stop(rc, rest) ==
  /\ reader' = [reader EXCEPT !.pc = "gone", !.rc = rc, !.done = TRUE]
  /\ conn' = [conn EXCEPT !.up = FALSE, !.replies = rest]
  /\ Signal({"progress_cv"})

\* dist_recv_result_alloc, and the reader's checks on hash and kind.
RecvRc(m) ==
  IF m.id # reader.i + 1 \/ m.verdict = "bad" THEN 1
  ELSE IF m.verdict = "refused" THEN 2 ELSE 0

\* The next chunk's result, accepted.
RecvResult ==
  /\ reader.pc = "recv" /\ conn.replies # <<>> /\ RecvRc(Head(conn.replies)) = 0
  /\ LET last == reader.i + 1 = Chunks
     IN  reader' = [reader EXCEPT !.i = @ + 1, !.completed = reader.i + 1,
                      !.done = last, !.pc = IF last THEN "gone" ELSE "recv"]
  /\ conn' = [conn EXCEPT !.replies = Tail(@)]
  /\ Signal({"progress_cv"})
  /\ UNCHANGED <<main, ring, sender, faults>>

\* A refusal or a result that fails a check.
RecvRejected ==
  /\ reader.pc = "recv" /\ conn.replies # <<>> /\ RecvRc(Head(conn.replies)) # 0
  /\ Stop(RecvRc(Head(conn.replies)), Tail(conn.replies))
  /\ UNCHANGED <<main, ring, sender, faults>>

\* The connection ends (a reset by the peer may discard what had arrived), or
\* nothing comes within the socket's timeout, sent or not.
RecvFails ==
  /\ reader.pc = "recv"
  /\ \/ ~conn.peer /\ UNCHANGED faults
     \/ ~conn.up /\ conn.replies = <<>> /\ UNCHANGED faults
     \/ conn.up /\ conn.replies = <<>> /\ faults' = faults \cup {"timeout"}
  /\ Stop(1, conn.replies)
  /\ UNCHANGED <<main, ring, sender>>

Reader == RecvResult \/ RecvRejected \/ RecvFails

-----------------------------------------------------------------------------
(* The route: results come back in order, but the first worker's refusal of  *)
(* a later chunk overtakes the results of chunks that are further down.      *)

Answer(v) ==
  /\ conn.up /\ conn.peer /\ conn.wire # <<>>
  /\ conn' = [conn EXCEPT !.wire = Tail(@),
                !.replies = Append(@, [id |-> Head(conn.wire), verdict |-> v]),
                !.good = IF v = "ok" THEN @ \cup {Head(conn.wire)} ELSE @]
  /\ faults' = faults \cup ({v} \ {"ok"})
  /\ UNCHANGED <<main, ring, sender, reader, asleep>>

Refuse(j) ==
  /\ conn.up /\ conn.peer /\ (j > 1 => Relayed)
  /\ conn' = [conn EXCEPT !.wire = SubSeq(@, 1, j - 1) \o SubSeq(@, j + 1, Len(@)),
                !.replies = Append(@, [id |-> conn.wire[j], verdict |-> "refused"])]
  /\ faults' = faults \cup {"refused"} \cup (IF j > 1 THEN {"overtook"} ELSE {})
  /\ UNCHANGED <<main, ring, sender, reader, asleep>>

PeerClose ==
  /\ conn.up /\ conn.peer
  /\ conn' = [conn EXCEPT !.peer = FALSE]
  /\ faults' = faults \cup {"closed"}
  /\ UNCHANGED <<main, ring, sender, reader, asleep>>

Worker == \/ PeerClose
          \/ \E v \in {"ok", "bad"} : Answer(v)
          \/ \E j \in 1..Len(conn.wire) : Refuse(j)

Returned == main.pc = "returned" /\ UNCHANGED vars

Next == Main \/ Sender \/ Reader \/ Worker \/ Returned

\* The threads run and a local evaluation ends.  Nothing is asked of the
\* worker: every socket has a send and a receive timeout.
Spec == Init /\ [][Next]_vars /\ WF_vars(Main) /\ WF_vars(Sender) /\ WF_vars(Reader)

-----------------------------------------------------------------------------
(* Properties. *)

\* The chunks queued, on the wire and answered but unread never exceed the
\* flow window, however the three threads interleave.
InFlightBounded ==
  ring.queued + Len(conn.wire) + Len(conn.replies) <= Window

\* The frames written are the chunks in order and whole: the sender reads its
\* slot without the lock, yet the producer never writes one that is not sent.
FramesInOrder == \A k \in 1..Len(conn.written) : conn.written[k] = k

\* A chunk reported as ingested has been evaluated by the worker: the caller
\* may keep the reported frontier whatever fails afterwards.
ReportedDurable == \A k \in 1..main.reported : k \in conn.good

\* Success means that every chunk was evaluated, and nothing was refused.
SuccessComplete ==
  main.ret = 0 => /\ conn.good = 1..Chunks /\ main.reported = Chunks /\ main.local = Chunks
                  /\ faults \subseteq {"closed"}

\* The code that chooses the recovery names the fault: workers that only
\* refused a chunk are kept (2), and they are dropped (1) only after something
\* else went wrong, although the shutdown that follows a refusal also makes the
\* sender and the producer fail.  A refusal that overtakes a result counts as
\* something else: its request id is not the expected one.
FaultNamed ==
  /\ main.ret = 2 => "refused" \in faults
  /\ main.ret = 1 => faults \ {"refused"} # {}

\* When the call returns, both threads have left its stack, and a connection
\* that is still open has no frame of this call in either direction.
ReturnsClean ==
  main.pc = "returned" =>
    /\ sender.pc \in {"none", "gone"} /\ reader.pc \in {"none", "gone"}
    /\ conn.up => conn.wire = <<>> /\ conn.replies = <<>>

\* The call always returns: no failure of any party leaves a thread waiting.
Returns == <>(main.pc = "returned")

\* The prefill is an evaluation of a span in chunks (SpanEval).
Span == INSTANCE SpanEval WITH
  local <- main.local, acked <- reader.completed, reported <- main.reported,
  outcome <- IF main.pc # "returned" THEN "running" ELSE IF main.ret = 0 THEN "ok" ELSE "failed"

\* The three threads together implement that contract, its liveness included.
ImplementsSpan == Span!SpanSpec

\* The transfer itself: at most the window is in flight, and what was written
\* are whole frames in the order of the chunks, however the slots are reused.
TransferSound == TypeOK /\ InFlightBounded /\ FramesInOrder

\* What the caller is told is true: progress covers only chunks whose results
\* were accepted, success means all of them, a failure names a fault that
\* happened, and no thread outlives the call.
VerdictHonest == ReportedDurable /\ SuccessComplete /\ FaultNamed /\ ReturnsClean
=============================================================================
