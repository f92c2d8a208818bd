-------------------------- MODULE DistPrefillProofs --------------------------
(***************************************************************************)
(* The pipelined prefill, proved for any number of chunks, slots, any flow *)
(* window and any capacity of the route: the transfer is sound, what the   *)
(* caller is told is true, and every step is a step of SpanEval.           *)
(***************************************************************************)
EXTENDS DistPrefill, SequenceTheorems, TLAPS

-----------------------------------------------------------------------------
(* The inductive invariant. *)

W == Len(conn.written)

\* Where the j-th queued slot is.
SlotOf(h, j) == IF h + j < Slots THEN h + j ELSE h + j - Slots
Slot(j) == SlotOf(ring.head, j)

\* The queued slots hold the chunks after the last one written, in order, and
\* the slot the producer fills is not among them.
RingInv ==
  /\ main.submitted = ring.queued + W
  /\ ring.tail = Slot(ring.queued)
  /\ \A j \in 0..Slots-1 : j < ring.queued => ring.buf[Slot(j)] = W + 1 + j
  /\ main.pc \in {"eval", "enqueue"} => ring.queued < Slots
  /\ main.pc = "enqueue" => ring.buf[ring.tail] = main.submitted + 1
  /\ sender.pc = "send" => ring.queued > 0

\* The producer is never more than the window ahead of the results, and every
\* frame written is on the wire, answered, or was taken by the reader.
FlowInv ==
  /\ reader.completed = reader.i
  /\ main.submitted <= reader.i + Window
  /\ main.pc \in {"acquire", "eval", "enqueue"} => main.submitted < reader.i + Window
  /\ main.pc \in {"start", "window", "acquire", "eval", "enqueue"} => main.submitted < Chunks
  /\ Len(conn.wire) + Len(conn.replies) + reader.i <= W
  /\ reader.rc = 0 => W = Len(conn.wire) + Len(conn.replies) + reader.i

\* The calling thread's own chunks and its return code.
MainInv ==
  /\ main.pc \in {"start", "window", "acquire", "eval", "abort"} => main.local = main.submitted
  /\ main.pc = "enqueue" => main.local = main.submitted + 1
  /\ main.submitted <= main.local
  /\ main.pc \in {"start", "window", "acquire", "eval", "enqueue", "drain", "abort"} => main.rc = 0
  /\ main.pc \in {"finish", "joinSender", "drain", "joinReader"} /\ main.rc = 0 =>
       main.submitted = Chunks /\ main.local = Chunks
  /\ main.pc # "returned" <=> main.ret = Pending
  /\ main.reported <= reader.i

\* Frames on the wire are distinct, in order and not yet evaluated.
WireInv ==
  /\ \A j \in 1..Len(conn.wire) : conn.wire[j] \in 1..W /\ conn.wire[j] \notin conn.good
  /\ \A j, k \in 1..Len(conn.wire) : j < k => conn.wire[j] < conn.wire[k]
  /\ conn.good \subseteq 1..W

\* A result that is accepted is of an evaluated chunk, and any other names a
\* fault.  Without an overtaking refusal, results are in the order of chunks.
ReplyInv ==
  /\ \A k \in 1..reader.i : k \in conn.good
  /\ \A j \in 1..Len(conn.replies) :
       IF conn.replies[j].verdict = "ok" THEN conn.replies[j].id \in conn.good
       ELSE conn.replies[j].verdict \in faults
  /\ "overtook" \notin faults /\ reader.pc # "gone" =>
       /\ \A j \in 1..Len(conn.replies) : conn.replies[j].id = reader.i + j
       /\ \A j \in 1..Len(conn.wire) : conn.wire[j] = reader.i + Len(conn.replies) + j

\* A chunk that was not evaluated well is lost for good.
LostInv ==
  faults \cap {"refused", "bad", "overtook"} # {} =>
    \E k \in 1..W : k \notin conn.good /\ \A j \in 1..Len(conn.wire) : conn.wire[j] # k

\* Which threads there are, and what they have left behind.
ThreadInv ==
  /\ reader.done <=> reader.pc = "gone"
  /\ reader.pc # "gone" => reader.rc = 0 /\ reader.i < Chunks
  /\ reader.pc = "gone" /\ reader.rc = 0 => reader.i = Chunks
  /\ reader.pc = "gone" /\ conn.up => reader.rc = 0
  /\ reader.pc = "none" => main.pc \in {"start", "returned"} /\ main.submitted = 0
  /\ sender.rc # 0 => sender.pc = "gone"
  /\ main.pc \in {"start", "abort"} => sender.pc = "none"
  /\ main.pc \in {"drain", "joinReader"} => sender.pc = "gone"
  /\ main.pc \in {"drain", "joinReader"} /\ main.rc = 0 => sender.rc = 0
  /\ main.pc = "joinReader" /\ main.rc = 0 => reader.done /\ main.reported = reader.i
  /\ main.pc = "start" => reader.pc = "none"
  /\ main.pc = "returned" => sender.pc \in {"none", "gone"} /\ reader.pc \in {"none", "gone"}

Broken == ~conn.up \/ sender.rc # 0 \/ ring.stop \/ main.rc # 0
Real == faults \ {"refused"} # {}

\* Whatever stopped a thread is on record, unless it was a refusal the reader
\* knows of.
FaultInv ==
  /\ ~conn.peer => "closed" \in faults
  /\ Broken /\ reader.rc # 2 => Real
  /\ reader.rc = 1 => Real
  /\ reader.rc = 2 => "refused" \in faults
  /\ main.pc = "abort" => "setup" \in faults
  /\ "setup" \in faults => main.pc \in {"abort", "returned"} /\ main.ret # 0
  /\ "local" \in faults => main.rc = 1
  /\ "head" \in faults => main.pc = "returned"
  /\ "timeout" \in faults => reader.rc # 0 \/ sender.rc # 0

PrefillInv ==
  /\ TypeOK /\ FramesInOrder
  /\ RingInv /\ FlowInv /\ MainInv /\ WireInv /\ ReplyInv /\ LostInv /\ ThreadInv /\ FaultInv
  /\ SuccessComplete /\ FaultNamed

-----------------------------------------------------------------------------
(* Constants, types and the ring. *)

LEMMA Params ==
  /\ Chunks \in Nat /\ Chunks > 1 /\ Slots \in Nat /\ Slots > 0 /\ Slots <= Chunks
  /\ Window \in Nat /\ Window > 0 /\ WireCap \in Nat /\ WireCap > 0
BY ChunksMany, SlotsFit, WindowFits, WireCapFits

LEMMA SumBound ==
  ASSUME NEW a \in Nat, NEW b \in Nat, NEW c \in Nat, NEW d \in Nat, a + b + c <= d
  PROVE  c <= d /\ a + b <= d - c
OBVIOUS

LEMMA TakeOne ==
  ASSUME NEW a \in Nat, NEW b \in Nat, NEW c \in Nat
  PROVE  /\ a + (b - 1) + (c + 1) = a + b + c
         /\ \A d \in Nat : a + b + c <= d => a + (b - 1) + c <= d
         /\ (a + 1) + b + c = (a + b + c) + 1
         /\ (a - 1) + (b + 1) + c = a + b + c
OBVIOUS

\* The ring's step.
LEMMA NextSlot ==
  \A x \in 0..Slots-1 : (x + 1) % Slots = IF x + 1 = Slots THEN 0 ELSE x + 1
BY Params

\* The queued slots are distinct from the one after them; enqueueing and
\* dequeueing shift the ring.
LEMMA SlotFree ==
  ASSUME NEW h \in 0..Slots-1, NEW q \in 0..Slots, NEW j \in 0..Slots-1, j < q
  PROVE  SlotOf(h, j) \in 0..Slots-1 /\ (q # Slots => SlotOf(h, j) # SlotOf(h, q))
BY Params DEF SlotOf

LEMMA SlotAfter ==
  ASSUME NEW h \in 0..Slots-1, NEW q \in 0..Slots-1
  PROVE  SlotOf(h, q) \in 0..Slots-1 /\ SlotOf(h, q + 1) = (SlotOf(h, q) + 1) % Slots
<1>1. SlotOf(h, q) \in 0..Slots-1
  BY Params DEF SlotOf
<1>2. SlotOf(h, q + 1) = IF SlotOf(h, q) + 1 = Slots THEN 0 ELSE SlotOf(h, q) + 1
  BY Params DEF SlotOf
<1> QED BY <1>1, <1>2, NextSlot

LEMMA SlotShift ==
  ASSUME NEW h \in 0..Slots-1, NEW q \in 0..Slots-1
  PROVE  (h + 1) % Slots \in 0..Slots-1 /\ SlotOf((h + 1) % Slots, q) = SlotOf(h, q + 1)
BY Params, NextSlot DEF SlotOf

LEMMA StepTypes ==
  ASSUME NEW h \in 0..Slots-1, NEW q \in 0..Slots
  PROVE  /\ (h + 1) % Slots \in 0..Slots-1
         /\ (q < Slots => q + 1 \in 0..Slots) /\ (q > 0 => q - 1 \in 0..Slots)
BY Params, NextSlot

LEMMA SlotFirst == \A h \in 0..Slots-1 : SlotOf(h, 0) = h
BY Params DEF SlotOf

\* The fields of typed records.
LEMMA MainTypes ==
  ASSUME TypeOK
  PROVE  /\ main \in MainRec /\ main.pc \in MainPcs /\ main.local \in 0..Chunks /\ main.submitted \in 0..Chunks
         /\ main.reported \in 0..Chunks /\ main.rc \in {0, 1} /\ main.ret \in {0, 1, 2, 3}
BY DEF TypeOK, MainRec, Pending

LEMMA RingTypes ==
  ASSUME TypeOK
  PROVE  /\ ring \in RingRec /\ ring.buf \in [0..Slots-1 -> 0..Chunks] /\ ring.head \in 0..Slots-1
         /\ ring.tail \in 0..Slots-1 /\ ring.queued \in 0..Slots
         /\ ring.stop \in BOOLEAN /\ ring.producerDone \in BOOLEAN
BY DEF TypeOK, RingRec

LEMMA SenderTypes ==
  ASSUME TypeOK
  PROVE  sender \in SenderRec /\ sender.pc \in {"none", "wait", "send", "gone"} /\ sender.rc \in {0, 1}
BY DEF TypeOK, SenderRec

LEMMA ReaderTypes ==
  ASSUME TypeOK
  PROVE  /\ reader \in ReaderRec /\ reader.pc \in {"none", "recv", "gone"} /\ reader.i \in 0..Chunks
         /\ reader.rc \in {0, 1, 2} /\ reader.completed \in 0..Chunks /\ reader.done \in BOOLEAN
BY DEF TypeOK, ReaderRec

LEMMA ConnTypes ==
  ASSUME TypeOK
  PROVE  /\ conn \in ConnRec /\ conn.up \in BOOLEAN /\ conn.peer \in BOOLEAN
         /\ conn.good \subseteq 0..Chunks /\ conn.written \in Seq(0..Chunks)
         /\ conn.wire \in Seq(0..Chunks) /\ conn.replies \in Seq(Reply)
         /\ Len(conn.written) \in Nat /\ Len(conn.wire) \in Nat /\ Len(conn.replies) \in Nat
<1>1. conn \in ConnRec
  BY DEF TypeOK
<1>2. conn.written \in Seq(0..Chunks) /\ conn.wire \in Seq(0..Chunks) /\ conn.replies \in Seq(Reply)
  BY <1>1 DEF ConnRec
<1>3. Len(conn.written) \in Nat /\ Len(conn.wire) \in Nat /\ Len(conn.replies) \in Nat
  BY <1>2, LenProperties
<1> QED BY <1>1, <1>2, <1>3 DEF ConnRec

-----------------------------------------------------------------------------
(* Every action preserves the invariant. *)
LEMMA StartInv == ASSUME PrefillInv, Start PROVE PrefillInv'
<1>1. /\ main' = [main EXCEPT !.pc = "window"]
      /\ sender' = [sender EXCEPT !.pc = "wait"]
      /\ reader' = [reader EXCEPT !.pc = "recv"]
      /\ UNCHANGED <<ring, conn, asleep, faults>>
      /\ main.pc = "start"
  BY DEF Start
<1>2. main' \in MainRec
  BY <1>1, MainTypes DEF PrefillInv, MainRec, MainPcs, Pending
<1>3. /\ main'.pc = "window" /\ main'.local = main.local /\ main'.submitted = main.submitted
      /\ main'.reported = main.reported /\ main'.rc = main.rc /\ main'.ret = main.ret
  BY <1>1, MainTypes DEF PrefillInv, MainRec
<1>4. sender' \in SenderRec
  BY <1>1, SenderTypes DEF PrefillInv, SenderRec
<1>5. sender'.pc = "wait" /\ sender'.rc = sender.rc
  BY <1>1, SenderTypes DEF PrefillInv, SenderRec
<1>6. reader' \in ReaderRec
  BY <1>1, ReaderTypes DEF PrefillInv, ReaderRec
<1>7. /\ reader'.pc = "recv" /\ reader'.i = reader.i /\ reader'.rc = reader.rc
      /\ reader'.completed = reader.completed /\ reader'.done = reader.done
  BY <1>1, ReaderTypes DEF PrefillInv, ReaderRec
<1>8. TypeOK'
  BY <1>1, <1>2, <1>4, <1>6 DEF PrefillInv, TypeOK
<1>9. FramesInOrder'
  BY <1>1 DEF PrefillInv, FramesInOrder
<1>10. WireInv'
  BY <1>1 DEF PrefillInv, WireInv, W
<1>11. ReplyInv'
  BY <1>1, <1>7 DEF PrefillInv, ReplyInv, ThreadInv
<1>12. LostInv'
  BY <1>1 DEF PrefillInv, LostInv, W
<1>13. RingInv'
  BY <1>1, <1>3, <1>5, Params, MainTypes, RingTypes, ConnTypes DEF PrefillInv, RingInv, W, Slot
<1>14. FlowInv'
  BY <1>1, <1>3, <1>7, MainTypes, ReaderTypes, ConnTypes DEF PrefillInv, FlowInv, W
<1>15. MainInv'
  BY <1>1, <1>3, <1>7, MainTypes, ReaderTypes DEF PrefillInv, MainInv, Pending
<1>16. ThreadInv'
  BY <1>1, <1>3, <1>7, <1>5, MainTypes, ReaderTypes DEF PrefillInv, ThreadInv
<1>17. FaultInv'
  BY <1>1, <1>3, <1>5, <1>7 DEF PrefillInv, FaultInv, Broken, Real, ThreadInv, MainInv, Pending
<1>18. SuccessComplete'
  BY <1>1, <1>3 DEF PrefillInv, SuccessComplete, MainInv, Pending
<1>19. FaultNamed'
  BY <1>1, <1>3 DEF PrefillInv, FaultNamed, MainInv, Pending
<1> QED BY <1>8, <1>9, <1>10, <1>11, <1>12, <1>13, <1>14, <1>15, <1>16, <1>17, <1>18, <1>19 DEF PrefillInv

LEMMA StartFailsInv == ASSUME PrefillInv, StartFails PROVE PrefillInv'
<1>1. /\ main' = [main EXCEPT !.pc = "returned", !.ret = 1]
      /\ faults' = faults \cup {"setup"}
      /\ UNCHANGED <<ring, sender, reader, conn, asleep>>
      /\ main.pc = "start"
  BY DEF StartFails
<1>2. main' \in MainRec
  BY <1>1, MainTypes DEF PrefillInv, MainRec, MainPcs, Pending
<1>3. /\ main'.pc = "returned" /\ main'.local = main.local /\ main'.submitted = main.submitted
      /\ main'.reported = main.reported /\ main'.rc = main.rc /\ main'.ret = 1
  BY <1>1, MainTypes DEF PrefillInv, MainRec
<1>4. TypeOK'
  BY <1>1, <1>2 DEF PrefillInv, TypeOK, Faults, Verdicts
<1>5. FramesInOrder'
  BY <1>1 DEF PrefillInv, FramesInOrder
<1>6. WireInv'
  BY <1>1 DEF PrefillInv, WireInv, W
<1>7. ReplyInv'
  BY <1>1 DEF PrefillInv, ReplyInv
<1>8. LostInv'
  BY <1>1 DEF PrefillInv, LostInv, W
<1>9. RingInv'
  BY <1>1, <1>3, Params, MainTypes, RingTypes, ConnTypes DEF PrefillInv, RingInv, W, Slot
<1>10. FlowInv'
  BY <1>1, <1>3, MainTypes, ReaderTypes, ConnTypes DEF PrefillInv, FlowInv, W
<1>11. MainInv'
  BY <1>1, <1>3, MainTypes, ReaderTypes DEF PrefillInv, MainInv, Pending
<1>12. ThreadInv'
  BY <1>1, <1>3, MainTypes, ReaderTypes DEF PrefillInv, ThreadInv
<1>13. FaultInv'
  BY <1>1, <1>3 DEF PrefillInv, FaultInv, Broken, Real
<1>14. SuccessComplete'
  BY <1>1, <1>3 DEF PrefillInv, SuccessComplete
<1>15. FaultNamed'
  BY <1>1, <1>3 DEF PrefillInv, FaultNamed
<1> QED BY <1>4, <1>5, <1>6, <1>7, <1>8, <1>9, <1>10, <1>11, <1>12, <1>13, <1>14, <1>15 DEF PrefillInv

LEMMA StartHalfInv == ASSUME PrefillInv, StartHalf PROVE PrefillInv'
<1>1. /\ main' = [main EXCEPT !.pc = "abort"]
      /\ ring' = [ring EXCEPT !.stop = TRUE, !.producerDone = TRUE]
      /\ reader' = [reader EXCEPT !.pc = "recv"]
      /\ conn' = [conn EXCEPT !.up = FALSE]
      /\ faults' = faults \cup {"setup"}
      /\ UNCHANGED <<sender, asleep>>
      /\ main.pc = "start"
  BY DEF StartHalf, Shutdown
<1>2. main' \in MainRec
  BY <1>1, MainTypes DEF PrefillInv, MainRec, MainPcs, Pending
<1>3. /\ main'.pc = "abort" /\ main'.local = main.local /\ main'.submitted = main.submitted
      /\ main'.reported = main.reported /\ main'.rc = main.rc /\ main'.ret = main.ret
  BY <1>1, MainTypes DEF PrefillInv, MainRec
<1>4. ring' \in RingRec
  BY <1>1, RingTypes DEF PrefillInv, RingRec
<1>5. /\ ring'.buf = ring.buf /\ ring'.head = ring.head /\ ring'.tail = ring.tail
      /\ ring'.queued = ring.queued /\ ring'.stop = TRUE /\ ring'.producerDone = TRUE
  BY <1>1, RingTypes DEF PrefillInv, RingRec
<1>6. reader' \in ReaderRec
  BY <1>1, ReaderTypes DEF PrefillInv, ReaderRec
<1>7. /\ reader'.pc = "recv" /\ reader'.i = reader.i /\ reader'.rc = reader.rc
      /\ reader'.completed = reader.completed /\ reader'.done = reader.done
  BY <1>1, ReaderTypes DEF PrefillInv, ReaderRec
<1>8. conn' \in ConnRec
  BY <1>1, ConnTypes DEF PrefillInv, ConnRec, Reply, Verdicts
<1>9. /\ conn'.up = FALSE /\ conn'.peer = conn.peer /\ conn'.written = conn.written
      /\ conn'.good = conn.good /\ conn'.wire = conn.wire /\ conn'.replies = conn.replies
  BY <1>1, ConnTypes DEF PrefillInv, ConnRec
<1>10. TypeOK'
  BY <1>1, <1>2, <1>4, <1>6, <1>8 DEF PrefillInv, TypeOK, Faults, Verdicts
<1>11. FramesInOrder'
  BY <1>1, <1>9 DEF PrefillInv, FramesInOrder
<1>12. WireInv'
  BY <1>1, <1>9 DEF PrefillInv, WireInv, W
<1>13. ReplyInv'
  BY <1>1, <1>9, <1>7 DEF PrefillInv, ReplyInv, ThreadInv
<1>14. LostInv'
  BY <1>1, <1>9 DEF PrefillInv, LostInv, W
<1>15. RingInv'
  BY <1>1, <1>3, <1>5, <1>9, Params, MainTypes, RingTypes, ConnTypes DEF PrefillInv, RingInv, W, Slot
<1>16. FlowInv'
  BY <1>1, <1>3, <1>7, <1>9, MainTypes, ReaderTypes, ConnTypes DEF PrefillInv, FlowInv, W
<1>17. MainInv'
  BY <1>1, <1>3, <1>7, MainTypes, ReaderTypes DEF PrefillInv, MainInv, Pending
<1>18. ThreadInv'
  BY <1>1, <1>3, <1>7, <1>9, MainTypes, ReaderTypes DEF PrefillInv, ThreadInv
<1>19. FaultInv'
  BY <1>1, <1>3, <1>5, <1>7, <1>9, MainTypes DEF PrefillInv, FaultInv, Broken, Real, ThreadInv, MainInv, Pending
<1>20. SuccessComplete'
  BY <1>1, <1>3, <1>9 DEF PrefillInv, SuccessComplete, MainInv, Pending
<1>21. FaultNamed'
  BY <1>1, <1>3 DEF PrefillInv, FaultNamed, MainInv, Pending
<1> QED BY <1>10, <1>11, <1>12, <1>13, <1>14, <1>15, <1>16, <1>17, <1>18, <1>19, <1>20, <1>21 DEF PrefillInv

LEMMA AbortInv == ASSUME PrefillInv, Abort PROVE PrefillInv'
<1>1. /\ main' = [main EXCEPT !.pc = "returned", !.ret = 1]
      /\ UNCHANGED <<ring, sender, reader, conn, asleep, faults>>
      /\ main.pc = "abort" /\ reader.pc = "gone"
  BY DEF Abort
<1>2. main' \in MainRec
  BY <1>1, MainTypes DEF PrefillInv, MainRec, MainPcs, Pending
<1>3. /\ main'.pc = "returned" /\ main'.local = main.local /\ main'.submitted = main.submitted
      /\ main'.reported = main.reported /\ main'.rc = main.rc /\ main'.ret = 1
  BY <1>1, MainTypes DEF PrefillInv, MainRec
<1>4. TypeOK'
  BY <1>1, <1>2 DEF PrefillInv, TypeOK
<1>5. FramesInOrder'
  BY <1>1 DEF PrefillInv, FramesInOrder
<1>6. WireInv'
  BY <1>1 DEF PrefillInv, WireInv, W
<1>7. ReplyInv'
  BY <1>1 DEF PrefillInv, ReplyInv
<1>8. LostInv'
  BY <1>1 DEF PrefillInv, LostInv, W
<1>9. RingInv'
  BY <1>1, <1>3, Params, MainTypes, RingTypes, ConnTypes DEF PrefillInv, RingInv, W, Slot
<1>10. FlowInv'
  BY <1>1, <1>3, MainTypes, ReaderTypes, ConnTypes DEF PrefillInv, FlowInv, W
<1>11. MainInv'
  BY <1>1, <1>3, MainTypes, ReaderTypes DEF PrefillInv, MainInv, Pending
<1>12. ThreadInv'
  BY <1>1, <1>3, MainTypes, ReaderTypes DEF PrefillInv, ThreadInv
<1>13. FaultInv'
  BY <1>1, <1>3 DEF PrefillInv, FaultInv, Broken, Real
<1>14. SuccessComplete'
  BY <1>1, <1>3 DEF PrefillInv, SuccessComplete
<1>15. FaultNamed'
  BY <1>1, <1>3 DEF PrefillInv, FaultNamed, FaultInv
<1> QED BY <1>4, <1>5, <1>6, <1>7, <1>8, <1>9, <1>10, <1>11, <1>12, <1>13, <1>14, <1>15 DEF PrefillInv

LEMMA WaitFlowWindowInv == ASSUME PrefillInv, WaitFlowWindow PROVE PrefillInv'
<1>1. CASE reader.done
  <2>1. /\ main' = [main EXCEPT !.reported = reader.completed, !.pc = "finish", !.rc = 1]
        /\ UNCHANGED <<ring, sender, reader, conn, asleep, faults>>
        /\ main.pc = "window"
    BY <1>1 DEF WaitFlowWindow, HasRoom
  <2>2. main' \in MainRec
    BY <2>1, <1>1, MainTypes, ReaderTypes DEF PrefillInv, MainRec, MainPcs, Pending
  <2>3. /\ main'.pc = "finish" /\ main'.local = main.local /\ main'.submitted = main.submitted
        /\ main'.reported = reader.completed /\ main'.rc = 1 /\ main'.ret = main.ret
    BY <2>1, MainTypes DEF PrefillInv, MainRec
  <2>4. TypeOK'
    BY <2>1, <2>2 DEF PrefillInv, TypeOK
  <2>5. FramesInOrder'
    BY <2>1, <1>1 DEF PrefillInv, FramesInOrder
  <2>6. WireInv'
    BY <2>1, <1>1 DEF PrefillInv, WireInv, W
  <2>7. ReplyInv'
    BY <2>1, <1>1 DEF PrefillInv, ReplyInv
  <2>8. LostInv'
    BY <2>1, <1>1 DEF PrefillInv, LostInv, W
  <2>9. RingInv'
    BY <2>1, <1>1, <2>3, Params, MainTypes, RingTypes, ConnTypes DEF PrefillInv, RingInv, W, Slot
  <2>10. FlowInv'
    BY <2>1, <1>1, <2>3, MainTypes, ReaderTypes, ConnTypes DEF PrefillInv, FlowInv, W
  <2>11. MainInv'
    BY <2>1, <1>1, <2>3, MainTypes, ReaderTypes DEF PrefillInv, MainInv, Pending, FlowInv
  <2>12. ThreadInv'
    BY <2>1, <1>1, <2>3, MainTypes, ReaderTypes DEF PrefillInv, ThreadInv
  <2>13. FaultInv'
    <3>1. ASSUME reader.rc = 0 PROVE FALSE
      <4>1. reader.i = Chunks /\ main.submitted < Chunks
        BY <3>1, <2>1, <1>1 DEF PrefillInv, ThreadInv, FlowInv
      <4>2. main.submitted = ring.queued + W /\ Len(conn.wire) + Len(conn.replies) + reader.i <= W
        BY DEF PrefillInv, RingInv, FlowInv
      <4>3. /\ ring.queued \in Nat /\ W \in Nat /\ Len(conn.wire) \in Nat /\ Len(conn.replies) \in Nat
            /\ main.submitted \in Nat /\ Chunks \in Nat
        BY RingTypes, ConnTypes, MainTypes, Params DEF PrefillInv, W
      <4>4. Len(conn.wire) + Len(conn.replies) + Chunks <= W
        BY <4>1, <4>2
      <4>5. Chunks <= W
        BY <4>3, <4>4, SumBound
      <4>6. W <= main.submitted
        BY <4>2, <4>3
      <4> QED BY <4>1, <4>3, <4>5, <4>6
    <3> QED BY <2>1, <2>3, <3>1, MainTypes, ReaderTypes DEF PrefillInv, FaultInv, Broken, Real, MainInv, Pending
  <2>14. SuccessComplete'
    BY <2>1, <1>1, <2>3 DEF PrefillInv, SuccessComplete, MainInv, Pending
  <2>15. FaultNamed'
    BY <2>1, <1>1, <2>3 DEF PrefillInv, FaultNamed, MainInv, Pending
  <2> QED BY <2>4, <2>5, <2>6, <2>7, <2>8, <2>9, <2>10, <2>11, <2>12, <2>13, <2>14, <2>15 DEF PrefillInv
<1>2. CASE ~reader.done /\ HasRoom
  <2>1. /\ main' = [main EXCEPT !.reported = reader.completed, !.pc = "acquire", !.rc = 0]
        /\ UNCHANGED <<ring, sender, reader, conn, asleep, faults>>
        /\ main.pc = "window"
    BY <1>2 DEF WaitFlowWindow, HasRoom
  <2>2. main' \in MainRec
    BY <2>1, <1>2, MainTypes, ReaderTypes DEF PrefillInv, MainRec, MainPcs, Pending
  <2>3. /\ main'.pc = "acquire" /\ main'.local = main.local /\ main'.submitted = main.submitted
        /\ main'.reported = reader.completed /\ main'.rc = 0 /\ main'.ret = main.ret
    BY <2>1, MainTypes DEF PrefillInv, MainRec
  <2>4. TypeOK'
    BY <2>1, <2>2 DEF PrefillInv, TypeOK
  <2>5. FramesInOrder'
    BY <2>1, <1>2 DEF PrefillInv, FramesInOrder
  <2>6. WireInv'
    BY <2>1, <1>2 DEF PrefillInv, WireInv, W
  <2>7. ReplyInv'
    BY <2>1, <1>2 DEF PrefillInv, ReplyInv
  <2>8. LostInv'
    BY <2>1, <1>2 DEF PrefillInv, LostInv, W
  <2>9. RingInv'
    BY <2>1, <1>2, <2>3, Params, MainTypes, RingTypes, ConnTypes DEF PrefillInv, RingInv, W, Slot
  <2>10. FlowInv'
    BY <2>1, <1>2, <2>3, MainTypes, ReaderTypes, ConnTypes DEF PrefillInv, FlowInv, W, HasRoom
  <2>11. MainInv'
    BY <2>1, <1>2, <2>3, MainTypes, ReaderTypes DEF PrefillInv, MainInv, Pending, FlowInv
  <2>12. ThreadInv'
    BY <2>1, <1>2, <2>3, MainTypes, ReaderTypes DEF PrefillInv, ThreadInv
  <2>13. FaultInv'
    BY <2>1, <1>2, <2>3, MainTypes DEF PrefillInv, FaultInv, Broken, Real, MainInv, Pending
  <2>14. SuccessComplete'
    BY <2>1, <1>2, <2>3 DEF PrefillInv, SuccessComplete, MainInv, Pending
  <2>15. FaultNamed'
    BY <2>1, <1>2, <2>3 DEF PrefillInv, FaultNamed, MainInv, Pending
  <2> QED BY <2>4, <2>5, <2>6, <2>7, <2>8, <2>9, <2>10, <2>11, <2>12, <2>13, <2>14, <2>15 DEF PrefillInv
<1>3. CASE ~reader.done /\ ~HasRoom
  <2>1. /\ main' = [main EXCEPT !.reported = reader.completed, !.pc = "window", !.rc = 0]
        /\ UNCHANGED <<ring, sender, reader, conn, faults>>
        /\ main.pc = "window"
    BY <1>3 DEF WaitFlowWindow, HasRoom
  <2>2. main' \in MainRec
    BY <2>1, <1>3, MainTypes, ReaderTypes DEF PrefillInv, MainRec, MainPcs, Pending
  <2>3. /\ main'.pc = "window" /\ main'.local = main.local /\ main'.submitted = main.submitted
        /\ main'.reported = reader.completed /\ main'.rc = 0 /\ main'.ret = main.ret
    BY <2>1, MainTypes DEF PrefillInv, MainRec
  <2>4. asleep' \in [Threads -> Waits]
    BY <1>3 DEF PrefillInv, TypeOK, WaitFlowWindow, HasRoom, Sleep, Waits, Threads
  <2>5. TypeOK'
    BY <2>1, <2>2, <2>4 DEF PrefillInv, TypeOK
  <2>6. FramesInOrder'
    BY <2>1, <1>3 DEF PrefillInv, FramesInOrder
  <2>7. WireInv'
    BY <2>1, <1>3 DEF PrefillInv, WireInv, W
  <2>8. ReplyInv'
    BY <2>1, <1>3 DEF PrefillInv, ReplyInv
  <2>9. LostInv'
    BY <2>1, <1>3 DEF PrefillInv, LostInv, W
  <2>10. RingInv'
    BY <2>1, <1>3, <2>3, Params, MainTypes, RingTypes, ConnTypes DEF PrefillInv, RingInv, W, Slot
  <2>11. FlowInv'
    BY <2>1, <1>3, <2>3, MainTypes, ReaderTypes, ConnTypes DEF PrefillInv, FlowInv, W
  <2>12. MainInv'
    BY <2>1, <1>3, <2>3, MainTypes, ReaderTypes DEF PrefillInv, MainInv, Pending, FlowInv
  <2>13. ThreadInv'
    BY <2>1, <1>3, <2>3, MainTypes, ReaderTypes DEF PrefillInv, ThreadInv
  <2>14. FaultInv'
    BY <2>1, <1>3, <2>3, MainTypes DEF PrefillInv, FaultInv, Broken, Real, MainInv, Pending
  <2>15. SuccessComplete'
    BY <2>1, <1>3, <2>3 DEF PrefillInv, SuccessComplete, MainInv, Pending
  <2>16. FaultNamed'
    BY <2>1, <1>3, <2>3 DEF PrefillInv, FaultNamed, MainInv, Pending
  <2> QED BY <2>5, <2>6, <2>7, <2>8, <2>9, <2>10, <2>11, <2>12, <2>13, <2>14, <2>15, <2>16 DEF PrefillInv
<1> QED BY <1>1, <1>2, <1>3 DEF WaitFlowWindow

LEMMA AcquireSlotInv == ASSUME PrefillInv, AcquireSlot PROVE PrefillInv'
<1>1. CASE ~ring.stop /\ ring.queued = Slots /\ Sleep("main", "can_enqueue") /\ UNCHANGED <<main, ring>>
  <2>1. /\ UNCHANGED <<main, ring, sender, reader, conn, faults>>
        /\ main.pc = "acquire"
    BY <1>1 DEF AcquireSlot
  <2>2. asleep' \in [Threads -> Waits]
    BY <1>1 DEF PrefillInv, TypeOK, Sleep, Waits, Threads
  <2>3. TypeOK'
    BY <2>1, <2>2 DEF PrefillInv, TypeOK
  <2>4. FramesInOrder'
    BY <2>1, <1>1 DEF PrefillInv, FramesInOrder
  <2>5. WireInv'
    BY <2>1, <1>1 DEF PrefillInv, WireInv, W
  <2>6. ReplyInv'
    BY <2>1, <1>1 DEF PrefillInv, ReplyInv
  <2>7. LostInv'
    BY <2>1, <1>1 DEF PrefillInv, LostInv, W
  <2>8. RingInv'
    BY <2>1, <1>1, Params, MainTypes, RingTypes, ConnTypes DEF PrefillInv, RingInv, W, Slot
  <2>9. FlowInv'
    BY <2>1, <1>1, MainTypes, ReaderTypes, ConnTypes DEF PrefillInv, FlowInv, W
  <2>10. MainInv'
    BY <2>1, <1>1, MainTypes, ReaderTypes DEF PrefillInv, MainInv, Pending
  <2>11. ThreadInv'
    BY <2>1, <1>1, MainTypes, ReaderTypes DEF PrefillInv, ThreadInv
  <2>12. FaultInv'
    BY <2>1, <1>1 DEF PrefillInv, FaultInv, Broken, Real
  <2>13. SuccessComplete'
    BY <2>1, <1>1 DEF PrefillInv, SuccessComplete
  <2>14. FaultNamed'
    BY <2>1, <1>1 DEF PrefillInv, FaultNamed
  <2> QED BY <2>3, <2>4, <2>5, <2>6, <2>7, <2>8, <2>9, <2>10, <2>11, <2>12, <2>13, <2>14 DEF PrefillInv
<1>2. CASE (ring.stop \/ sender.rc # 0) /\ main' = [main EXCEPT !.pc = "finish", !.rc = 1] /\ UNCHANGED <<ring, asleep>>
  <2>1. /\ main' = [main EXCEPT !.pc = "finish", !.rc = 1]
        /\ UNCHANGED <<ring, sender, reader, conn, asleep, faults>>
        /\ main.pc = "acquire"
    BY <1>2 DEF AcquireSlot
  <2>2. main' \in MainRec
    BY <2>1, MainTypes DEF PrefillInv, MainRec, MainPcs, Pending
  <2>3. /\ main'.pc = "finish" /\ main'.local = main.local /\ main'.submitted = main.submitted
        /\ main'.reported = main.reported /\ main'.rc = 1 /\ main'.ret = main.ret
    BY <2>1, MainTypes DEF PrefillInv, MainRec
  <2>4. TypeOK'
    BY <2>1, <2>2 DEF PrefillInv, TypeOK
  <2>5. FramesInOrder'
    BY <2>1, <1>2 DEF PrefillInv, FramesInOrder
  <2>6. WireInv'
    BY <2>1, <1>2 DEF PrefillInv, WireInv, W
  <2>7. ReplyInv'
    BY <2>1, <1>2 DEF PrefillInv, ReplyInv
  <2>8. LostInv'
    BY <2>1, <1>2 DEF PrefillInv, LostInv, W
  <2>9. RingInv'
    BY <2>1, <1>2, <2>3, Params, MainTypes, RingTypes, ConnTypes DEF PrefillInv, RingInv, W, Slot
  <2>10. FlowInv'
    BY <2>1, <1>2, <2>3, MainTypes, ReaderTypes, ConnTypes DEF PrefillInv, FlowInv, W
  <2>11. MainInv'
    BY <2>1, <1>2, <2>3, MainTypes, ReaderTypes DEF PrefillInv, MainInv, Pending
  <2>12. ThreadInv'
    BY <2>1, <1>2, <2>3, MainTypes, ReaderTypes DEF PrefillInv, ThreadInv
  <2>13. FaultInv'
    BY <2>1, <1>2, <2>3 DEF PrefillInv, FaultInv, Broken, Real, MainInv, Pending
  <2>14. SuccessComplete'
    BY <2>1, <1>2, <2>3 DEF PrefillInv, SuccessComplete, MainInv, Pending
  <2>15. FaultNamed'
    BY <2>1, <1>2, <2>3 DEF PrefillInv, FaultNamed, MainInv, Pending
  <2> QED BY <2>4, <2>5, <2>6, <2>7, <2>8, <2>9, <2>10, <2>11, <2>12, <2>13, <2>14, <2>15 DEF PrefillInv
<1>3. CASE ~ring.stop /\ ring.queued # Slots /\ sender.rc = 0 /\ main' = [main EXCEPT !.pc = "eval"]
            /\ ring' = [ring EXCEPT !.buf[ring.tail] = Torn] /\ UNCHANGED asleep
  <2>1. /\ main' = [main EXCEPT !.pc = "eval"]
        /\ ring' = [ring EXCEPT !.buf = [ring.buf EXCEPT ![ring.tail] = 0]]
        /\ UNCHANGED <<sender, reader, conn, asleep, faults>>
        /\ main.pc = "acquire"
    BY <1>3 DEF AcquireSlot, Torn
  <2>2. main' \in MainRec
    BY <2>1, MainTypes DEF PrefillInv, MainRec, MainPcs, Pending
  <2>3. /\ main'.pc = "eval" /\ main'.local = main.local /\ main'.submitted = main.submitted
        /\ main'.reported = main.reported /\ main'.rc = main.rc /\ main'.ret = main.ret
    BY <2>1, MainTypes DEF PrefillInv, MainRec
  <2>4. [ring.buf EXCEPT ![ring.tail] = 0] \in [0..Slots-1 -> 0..Chunks]
    BY RingTypes, Params DEF PrefillInv
  <2>5. ring' \in RingRec
    BY <2>1, <2>4, RingTypes DEF PrefillInv, RingRec
  <2>6. /\ ring'.buf = ([ring.buf EXCEPT ![ring.tail] = 0]) /\ ring'.head = ring.head /\ ring'.tail = ring.tail
        /\ ring'.queued = ring.queued /\ ring'.stop = ring.stop /\ ring'.producerDone = ring.producerDone
    BY <2>1, RingTypes DEF PrefillInv, RingRec
  <2>7. TypeOK'
    BY <2>1, <2>2, <2>5 DEF PrefillInv, TypeOK
  <2>8. FramesInOrder'
    BY <2>1, <1>3 DEF PrefillInv, FramesInOrder
  <2>9. WireInv'
    BY <2>1, <1>3 DEF PrefillInv, WireInv, W
  <2>10. ReplyInv'
    BY <2>1, <1>3 DEF PrefillInv, ReplyInv
  <2>11. LostInv'
    BY <2>1, <1>3 DEF PrefillInv, LostInv, W
  <2>12. RingInv'
    <3>1. ring.head \in 0..Slots-1 /\ ring.queued \in 0..Slots /\ ring.queued # Slots /\ ring.tail = SlotOf(ring.head, ring.queued)
      BY <2>1, <1>3, RingTypes, Params DEF PrefillInv, RingInv, Slot
    <3>2. \A j \in 0..Slots-1 : j < ring.queued => SlotOf(ring.head, j) \in 0..Slots-1 /\ SlotOf(ring.head, j) # ring.tail
      BY <3>1, SlotFree
    <3>3. \A j \in 0..Slots-1 : j < ring.queued => ring'.buf[SlotOf(ring.head, j)] = ring.buf[SlotOf(ring.head, j)]
      BY <3>2, <2>6, RingTypes DEF PrefillInv
    <3>4. ring'.buf[ring.tail] = 0
      BY <2>6, RingTypes DEF PrefillInv
    <3>5. ring.queued < Slots
      BY <3>1, Params
    <3> QED BY <2>1, <2>3, <2>6, <3>1, <3>3, <3>4, <3>5 DEF PrefillInv, RingInv, W, Slot
  <2>13. FlowInv'
    BY <2>1, <1>3, <2>3, MainTypes, ReaderTypes, ConnTypes DEF PrefillInv, FlowInv, W
  <2>14. MainInv'
    BY <2>1, <1>3, <2>3, MainTypes, ReaderTypes DEF PrefillInv, MainInv, Pending
  <2>15. ThreadInv'
    BY <2>1, <1>3, <2>3, MainTypes, ReaderTypes DEF PrefillInv, ThreadInv
  <2>16. FaultInv'
    BY <2>1, <1>3, <2>3, <2>6 DEF PrefillInv, FaultInv, Broken, Real, MainInv, Pending
  <2>17. SuccessComplete'
    BY <2>1, <1>3, <2>3 DEF PrefillInv, SuccessComplete, MainInv, Pending
  <2>18. FaultNamed'
    BY <2>1, <1>3, <2>3 DEF PrefillInv, FaultNamed, MainInv, Pending
  <2> QED BY <2>7, <2>8, <2>9, <2>10, <2>11, <2>12, <2>13, <2>14, <2>15, <2>16, <2>17, <2>18 DEF PrefillInv
<1> QED BY <1>1, <1>2, <1>3 DEF AcquireSlot

LEMMA EvalLocalInv == ASSUME PrefillInv, EvalLocal PROVE PrefillInv'
<1>1. /\ main' = [main EXCEPT !.pc = "enqueue", !.local = main.local + 1]
      /\ ring' = [ring EXCEPT !.buf = [ring.buf EXCEPT ![ring.tail] = main.submitted + 1]]
      /\ UNCHANGED <<sender, reader, conn, asleep, faults>>
      /\ main.pc = "eval"
  BY DEF EvalLocal
<1>2. main.submitted + 1 \in 0..Chunks /\ main.local = main.submitted /\ ring.queued < Slots
  BY <1>1, MainTypes, Params DEF PrefillInv, MainInv, FlowInv, RingInv
<1>3. main' \in MainRec
  BY <1>1, <1>2, MainTypes DEF PrefillInv, MainRec, MainPcs, Pending
<1>4. /\ main'.pc = "enqueue" /\ main'.local = main.local + 1 /\ main'.submitted = main.submitted
      /\ main'.reported = main.reported /\ main'.rc = main.rc /\ main'.ret = main.ret
  BY <1>1, MainTypes DEF PrefillInv, MainRec
<1>5. [ring.buf EXCEPT ![ring.tail] = main.submitted + 1] \in [0..Slots-1 -> 0..Chunks]
  BY <1>1, <1>2, RingTypes DEF PrefillInv
<1>6. ring' \in RingRec
  BY <1>1, <1>5, RingTypes DEF PrefillInv, RingRec
<1>7. /\ ring'.buf = ([ring.buf EXCEPT ![ring.tail] = main.submitted + 1]) /\ ring'.head = ring.head /\ ring'.tail = ring.tail
      /\ ring'.queued = ring.queued /\ ring'.stop = ring.stop /\ ring'.producerDone = ring.producerDone
  BY <1>1, RingTypes DEF PrefillInv, RingRec
<1>8. TypeOK'
  BY <1>1, <1>3, <1>6 DEF PrefillInv, TypeOK
<1>9. FramesInOrder'
  BY <1>1, <1>2 DEF PrefillInv, FramesInOrder
<1>10. WireInv'
  BY <1>1, <1>2 DEF PrefillInv, WireInv, W
<1>11. ReplyInv'
  BY <1>1, <1>2 DEF PrefillInv, ReplyInv
<1>12. LostInv'
  BY <1>1, <1>2 DEF PrefillInv, LostInv, W
<1>13. RingInv'
  <2>1. ring.head \in 0..Slots-1 /\ ring.queued \in 0..Slots /\ ring.queued # Slots /\ ring.tail = SlotOf(ring.head, ring.queued)
    BY <1>1, <1>2, RingTypes, Params DEF PrefillInv, RingInv, Slot
  <2>2. \A j \in 0..Slots-1 : j < ring.queued => SlotOf(ring.head, j) \in 0..Slots-1 /\ SlotOf(ring.head, j) # ring.tail
    BY <2>1, SlotFree
  <2>3. \A j \in 0..Slots-1 : j < ring.queued => ring'.buf[SlotOf(ring.head, j)] = ring.buf[SlotOf(ring.head, j)]
    BY <2>2, <1>7, RingTypes DEF PrefillInv
  <2>4. ring'.buf[ring.tail] = main.submitted + 1
    BY <1>7, RingTypes DEF PrefillInv
  <2>5. ring.queued < Slots
    BY <2>1, Params
  <2> QED BY <1>1, <1>4, <1>7, <2>1, <2>3, <2>4, <2>5 DEF PrefillInv, RingInv, W, Slot
<1>14. FlowInv'
  BY <1>1, <1>2, <1>4, MainTypes, ReaderTypes, ConnTypes DEF PrefillInv, FlowInv, W
<1>15. MainInv'
  BY <1>1, <1>2, <1>4, MainTypes, ReaderTypes DEF PrefillInv, MainInv, Pending
<1>16. ThreadInv'
  BY <1>1, <1>2, <1>4, MainTypes, ReaderTypes DEF PrefillInv, ThreadInv
<1>17. FaultInv'
  BY <1>1, <1>2, <1>4, <1>7 DEF PrefillInv, FaultInv, Broken, Real, MainInv, Pending
<1>18. SuccessComplete'
  BY <1>1, <1>2, <1>4 DEF PrefillInv, SuccessComplete, MainInv, Pending
<1>19. FaultNamed'
  BY <1>1, <1>2, <1>4 DEF PrefillInv, FaultNamed, MainInv, Pending
<1> QED BY <1>8, <1>9, <1>10, <1>11, <1>12, <1>13, <1>14, <1>15, <1>16, <1>17, <1>18, <1>19 DEF PrefillInv

LEMMA EvalLocalFailsInv == ASSUME PrefillInv, EvalLocalFails PROVE PrefillInv'
<1>1. /\ main' = [main EXCEPT !.pc = "finish", !.rc = 1]
      /\ faults' = faults \cup {"local"}
      /\ UNCHANGED <<ring, sender, reader, conn, asleep>>
      /\ main.pc = "eval"
  BY DEF EvalLocalFails
<1>2. main' \in MainRec
  BY <1>1, MainTypes DEF PrefillInv, MainRec, MainPcs, Pending
<1>3. /\ main'.pc = "finish" /\ main'.local = main.local /\ main'.submitted = main.submitted
      /\ main'.reported = main.reported /\ main'.rc = 1 /\ main'.ret = main.ret
  BY <1>1, MainTypes DEF PrefillInv, MainRec
<1>4. TypeOK'
  BY <1>1, <1>2 DEF PrefillInv, TypeOK, Faults, Verdicts
<1>5. FramesInOrder'
  BY <1>1 DEF PrefillInv, FramesInOrder
<1>6. WireInv'
  BY <1>1 DEF PrefillInv, WireInv, W
<1>7. ReplyInv'
  BY <1>1 DEF PrefillInv, ReplyInv
<1>8. LostInv'
  BY <1>1 DEF PrefillInv, LostInv, W
<1>9. RingInv'
  BY <1>1, <1>3, Params, MainTypes, RingTypes, ConnTypes DEF PrefillInv, RingInv, W, Slot
<1>10. FlowInv'
  BY <1>1, <1>3, MainTypes, ReaderTypes, ConnTypes DEF PrefillInv, FlowInv, W
<1>11. MainInv'
  BY <1>1, <1>3, MainTypes, ReaderTypes DEF PrefillInv, MainInv, Pending
<1>12. ThreadInv'
  BY <1>1, <1>3, MainTypes, ReaderTypes DEF PrefillInv, ThreadInv
<1>13. FaultInv'
  BY <1>1, <1>3 DEF PrefillInv, FaultInv, Broken, Real, MainInv, Pending
<1>14. SuccessComplete'
  BY <1>1, <1>3 DEF PrefillInv, SuccessComplete, MainInv, Pending
<1>15. FaultNamed'
  BY <1>1, <1>3 DEF PrefillInv, FaultNamed, MainInv, Pending
<1> QED BY <1>4, <1>5, <1>6, <1>7, <1>8, <1>9, <1>10, <1>11, <1>12, <1>13, <1>14, <1>15 DEF PrefillInv

LEMMA EnqueueSlotInv == ASSUME PrefillInv, EnqueueSlot PROVE PrefillInv'
<1>1. CASE ring.stop \/ sender.rc # 0
  <2>1. /\ main' = [main EXCEPT !.pc = "finish", !.rc = 1]
        /\ UNCHANGED <<ring, sender, reader, conn, asleep, faults>>
        /\ main.pc = "enqueue"
    BY <1>1 DEF EnqueueSlot
  <2>2. main' \in MainRec
    BY <2>1, MainTypes DEF PrefillInv, MainRec, MainPcs, Pending
  <2>3. /\ main'.pc = "finish" /\ main'.local = main.local /\ main'.submitted = main.submitted
        /\ main'.reported = main.reported /\ main'.rc = 1 /\ main'.ret = main.ret
    BY <2>1, MainTypes DEF PrefillInv, MainRec
  <2>4. TypeOK'
    BY <2>1, <2>2 DEF PrefillInv, TypeOK
  <2>5. FramesInOrder'
    BY <2>1, <1>1 DEF PrefillInv, FramesInOrder
  <2>6. WireInv'
    BY <2>1, <1>1 DEF PrefillInv, WireInv, W
  <2>7. ReplyInv'
    BY <2>1, <1>1 DEF PrefillInv, ReplyInv
  <2>8. LostInv'
    BY <2>1, <1>1 DEF PrefillInv, LostInv, W
  <2>9. RingInv'
    BY <2>1, <1>1, <2>3, Params, MainTypes, RingTypes, ConnTypes DEF PrefillInv, RingInv, W, Slot
  <2>10. FlowInv'
    BY <2>1, <1>1, <2>3, MainTypes, ReaderTypes, ConnTypes DEF PrefillInv, FlowInv, W
  <2>11. MainInv'
    BY <2>1, <1>1, <2>3, MainTypes, ReaderTypes DEF PrefillInv, MainInv, Pending
  <2>12. ThreadInv'
    BY <2>1, <1>1, <2>3, MainTypes, ReaderTypes DEF PrefillInv, ThreadInv
  <2>13. FaultInv'
    BY <2>1, <1>1, <2>3 DEF PrefillInv, FaultInv, Broken, Real, MainInv, Pending
  <2>14. SuccessComplete'
    BY <2>1, <1>1, <2>3 DEF PrefillInv, SuccessComplete, MainInv, Pending
  <2>15. FaultNamed'
    BY <2>1, <1>1, <2>3 DEF PrefillInv, FaultNamed, MainInv, Pending
  <2> QED BY <2>4, <2>5, <2>6, <2>7, <2>8, <2>9, <2>10, <2>11, <2>12, <2>13, <2>14, <2>15 DEF PrefillInv
<1>2. CASE ~(ring.stop \/ sender.rc # 0) /\ main.submitted + 1 = Chunks
  <2>1. /\ main' = [main EXCEPT !.submitted = main.submitted + 1, !.reported = reader.completed, !.pc = "finish"]
        /\ ring' = [ring EXCEPT !.tail = (ring.tail + 1) % Slots, !.queued = ring.queued + 1]
        /\ UNCHANGED <<sender, reader, conn, faults>>
        /\ main.pc = "enqueue"
    BY <1>2 DEF EnqueueSlot
  <2>2. ring.queued < Slots /\ main.submitted < Chunks /\ main.submitted + 1 \in 0..Chunks
    BY <2>1, Params, MainTypes DEF PrefillInv, FlowInv, RingInv
  <2>3. (ring.tail + 1) % Slots = IF ring.tail + 1 = Slots THEN 0 ELSE ring.tail + 1
    BY NextSlot, RingTypes DEF PrefillInv
  <2>4. main' \in MainRec
    BY <2>1, <1>2, <2>2, <2>3, MainTypes, ReaderTypes DEF PrefillInv, MainRec, MainPcs, Pending
  <2>5. /\ main'.pc = "finish" /\ main'.local = main.local /\ main'.submitted = main.submitted + 1
        /\ main'.reported = reader.completed /\ main'.rc = main.rc /\ main'.ret = main.ret
    BY <2>1, MainTypes DEF PrefillInv, MainRec
  <2>6. (ring.tail + 1) % Slots \in 0..Slots-1 /\ ring.queued + 1 \in 0..Slots
    BY <2>2, StepTypes, RingTypes DEF PrefillInv
  <2>7. ring' \in RingRec
    BY <2>1, <2>6, RingTypes DEF PrefillInv, RingRec
  <2>8. /\ ring'.buf = ring.buf /\ ring'.head = ring.head /\ ring'.tail = (ring.tail + 1) % Slots
        /\ ring'.queued = ring.queued + 1 /\ ring'.stop = ring.stop /\ ring'.producerDone = ring.producerDone
    BY <2>1, RingTypes DEF PrefillInv, RingRec
  <2>9. asleep' \in [Threads -> Waits]
    BY <1>2 DEF PrefillInv, TypeOK, EnqueueSlot, Signal, Waits, Threads
  <2>10. TypeOK'
    BY <2>1, <2>4, <2>7, <2>9 DEF PrefillInv, TypeOK
  <2>11. FramesInOrder'
    BY <2>1, <1>2, <2>2, <2>3 DEF PrefillInv, FramesInOrder
  <2>12. WireInv'
    BY <2>1, <1>2, <2>2, <2>3 DEF PrefillInv, WireInv, W
  <2>13. ReplyInv'
    BY <2>1, <1>2, <2>2, <2>3 DEF PrefillInv, ReplyInv
  <2>14. LostInv'
    BY <2>1, <1>2, <2>2, <2>3 DEF PrefillInv, LostInv, W
  <2>15. RingInv'
    <3>1. /\ ring.head \in 0..Slots-1 /\ ring.queued \in 0..Slots-1 /\ ring.tail = SlotOf(ring.head, ring.queued)
          /\ W \in Nat /\ main.submitted = ring.queued + W
      BY <2>2, RingTypes, ConnTypes, Params DEF PrefillInv, RingInv, Slot, W
    <3>2. SlotOf(ring.head, ring.queued + 1) = (ring.tail + 1) % Slots
      BY <3>1, SlotAfter
    <3>3. ring.buf[SlotOf(ring.head, ring.queued)] = W + 1 + ring.queued
      BY <2>1, <3>1 DEF PrefillInv, RingInv
    <3>4. ASSUME NEW j \in 0..Slots-1, j < ring.queued + 1
          PROVE  ring.buf[SlotOf(ring.head, j)] = W + 1 + j
      <4>1. CASE j = ring.queued
        BY <4>1, <3>3
      <4>2. CASE j < ring.queued
        BY <4>2 DEF PrefillInv, RingInv, Slot
      <4> QED BY <3>1, <3>4, <4>1, <4>2
    <3>5. main.submitted + 1 = (ring.queued + 1) + W
      BY <3>1
    <3>6. W' = W /\ sender'.pc = sender.pc /\ ring.queued + 1 > 0
      BY <2>1, <3>1 DEF W
    <3> QED BY <2>1, <2>5, <2>8, <3>2, <3>4, <3>5, <3>6 DEF RingInv, Slot
  <2>16. FlowInv'
    <3>1. main.submitted < reader.i + Window /\ main.submitted < Chunks /\ main.submitted \in Nat /\ reader.i \in Nat
      BY <2>1, MainTypes, ReaderTypes DEF PrefillInv, FlowInv
    <3>2. main.submitted + 1 <= reader.i + Window /\ (main.submitted + 1 # Chunks => main.submitted + 1 < Chunks)
      BY <3>1, Params
    <3> QED BY <2>1, <1>2, <2>5, <3>2 DEF PrefillInv, FlowInv, W
  <2>17. MainInv'
    BY <2>1, <1>2, <2>2, <2>3, <2>5, MainTypes, ReaderTypes DEF PrefillInv, MainInv, Pending, FlowInv
  <2>18. ThreadInv'
    BY <2>1, <1>2, <2>2, <2>3, <2>5, MainTypes, ReaderTypes DEF PrefillInv, ThreadInv
  <2>19. FaultInv'
    BY <2>1, <1>2, <2>2, <2>3, <2>5, <2>8 DEF PrefillInv, FaultInv, Broken, Real, MainInv, Pending
  <2>20. SuccessComplete'
    BY <2>1, <1>2, <2>2, <2>3, <2>5 DEF PrefillInv, SuccessComplete, MainInv, Pending
  <2>21. FaultNamed'
    BY <2>1, <1>2, <2>2, <2>3, <2>5 DEF PrefillInv, FaultNamed, MainInv, Pending
  <2> QED BY <2>10, <2>11, <2>12, <2>13, <2>14, <2>15, <2>16, <2>17, <2>18, <2>19, <2>20, <2>21 DEF PrefillInv
<1>3. CASE ~(ring.stop \/ sender.rc # 0) /\ main.submitted + 1 # Chunks
  <2>1. /\ main' = [main EXCEPT !.submitted = main.submitted + 1, !.reported = reader.completed, !.pc = "window"]
        /\ ring' = [ring EXCEPT !.tail = (ring.tail + 1) % Slots, !.queued = ring.queued + 1]
        /\ UNCHANGED <<sender, reader, conn, faults>>
        /\ main.pc = "enqueue"
    BY <1>3 DEF EnqueueSlot
  <2>2. ring.queued < Slots /\ main.submitted < Chunks /\ main.submitted + 1 \in 0..Chunks
    BY <2>1, Params, MainTypes DEF PrefillInv, FlowInv, RingInv
  <2>3. (ring.tail + 1) % Slots = IF ring.tail + 1 = Slots THEN 0 ELSE ring.tail + 1
    BY NextSlot, RingTypes DEF PrefillInv
  <2>4. main' \in MainRec
    BY <2>1, <1>3, <2>2, <2>3, MainTypes, ReaderTypes DEF PrefillInv, MainRec, MainPcs, Pending
  <2>5. /\ main'.pc = "window" /\ main'.local = main.local /\ main'.submitted = main.submitted + 1
        /\ main'.reported = reader.completed /\ main'.rc = main.rc /\ main'.ret = main.ret
    BY <2>1, MainTypes DEF PrefillInv, MainRec
  <2>6. (ring.tail + 1) % Slots \in 0..Slots-1 /\ ring.queued + 1 \in 0..Slots
    BY <2>2, StepTypes, RingTypes DEF PrefillInv
  <2>7. ring' \in RingRec
    BY <2>1, <2>6, RingTypes DEF PrefillInv, RingRec
  <2>8. /\ ring'.buf = ring.buf /\ ring'.head = ring.head /\ ring'.tail = (ring.tail + 1) % Slots
        /\ ring'.queued = ring.queued + 1 /\ ring'.stop = ring.stop /\ ring'.producerDone = ring.producerDone
    BY <2>1, RingTypes DEF PrefillInv, RingRec
  <2>9. asleep' \in [Threads -> Waits]
    BY <1>3 DEF PrefillInv, TypeOK, EnqueueSlot, Signal, Waits, Threads
  <2>10. TypeOK'
    BY <2>1, <2>4, <2>7, <2>9 DEF PrefillInv, TypeOK
  <2>11. FramesInOrder'
    BY <2>1, <1>3, <2>2, <2>3 DEF PrefillInv, FramesInOrder
  <2>12. WireInv'
    BY <2>1, <1>3, <2>2, <2>3 DEF PrefillInv, WireInv, W
  <2>13. ReplyInv'
    BY <2>1, <1>3, <2>2, <2>3 DEF PrefillInv, ReplyInv
  <2>14. LostInv'
    BY <2>1, <1>3, <2>2, <2>3 DEF PrefillInv, LostInv, W
  <2>15. RingInv'
    <3>1. /\ ring.head \in 0..Slots-1 /\ ring.queued \in 0..Slots-1 /\ ring.tail = SlotOf(ring.head, ring.queued)
          /\ W \in Nat /\ main.submitted = ring.queued + W
      BY <2>2, RingTypes, ConnTypes, Params DEF PrefillInv, RingInv, Slot, W
    <3>2. SlotOf(ring.head, ring.queued + 1) = (ring.tail + 1) % Slots
      BY <3>1, SlotAfter
    <3>3. ring.buf[SlotOf(ring.head, ring.queued)] = W + 1 + ring.queued
      BY <2>1, <3>1 DEF PrefillInv, RingInv
    <3>4. ASSUME NEW j \in 0..Slots-1, j < ring.queued + 1
          PROVE  ring.buf[SlotOf(ring.head, j)] = W + 1 + j
      <4>1. CASE j = ring.queued
        BY <4>1, <3>3
      <4>2. CASE j < ring.queued
        BY <4>2 DEF PrefillInv, RingInv, Slot
      <4> QED BY <3>1, <3>4, <4>1, <4>2
    <3>5. main.submitted + 1 = (ring.queued + 1) + W
      BY <3>1
    <3>6. W' = W /\ sender'.pc = sender.pc /\ ring.queued + 1 > 0
      BY <2>1, <3>1 DEF W
    <3> QED BY <2>1, <2>5, <2>8, <3>2, <3>4, <3>5, <3>6 DEF RingInv, Slot
  <2>16. FlowInv'
    <3>1. main.submitted < reader.i + Window /\ main.submitted < Chunks /\ main.submitted \in Nat /\ reader.i \in Nat
      BY <2>1, MainTypes, ReaderTypes DEF PrefillInv, FlowInv
    <3>2. main.submitted + 1 <= reader.i + Window /\ (main.submitted + 1 # Chunks => main.submitted + 1 < Chunks)
      BY <3>1, Params
    <3> QED BY <2>1, <1>3, <2>5, <3>2 DEF PrefillInv, FlowInv, W
  <2>17. MainInv'
    BY <2>1, <1>3, <2>2, <2>3, <2>5, MainTypes, ReaderTypes DEF PrefillInv, MainInv, Pending, FlowInv
  <2>18. ThreadInv'
    BY <2>1, <1>3, <2>2, <2>3, <2>5, MainTypes, ReaderTypes DEF PrefillInv, ThreadInv
  <2>19. FaultInv'
    BY <2>1, <1>3, <2>2, <2>3, <2>5, <2>8 DEF PrefillInv, FaultInv, Broken, Real, MainInv, Pending
  <2>20. SuccessComplete'
    BY <2>1, <1>3, <2>2, <2>3, <2>5 DEF PrefillInv, SuccessComplete, MainInv, Pending
  <2>21. FaultNamed'
    BY <2>1, <1>3, <2>2, <2>3, <2>5 DEF PrefillInv, FaultNamed, MainInv, Pending
  <2> QED BY <2>10, <2>11, <2>12, <2>13, <2>14, <2>15, <2>16, <2>17, <2>18, <2>19, <2>20, <2>21 DEF PrefillInv
<1> QED BY <1>1, <1>2, <1>3 DEF EnqueueSlot

LEMMA FinishInv == ASSUME PrefillInv, Finish PROVE PrefillInv'
<1>1. CASE main.rc = 0
  <2>1. /\ main' = [main EXCEPT !.pc = "joinSender"]
        /\ ring' = [ring EXCEPT !.producerDone = TRUE, !.stop = (ring.stop \/ main.rc # 0)]
        /\ UNCHANGED <<sender, reader, conn, faults>>
        /\ main.pc = "finish"
    BY <1>1, RingTypes DEF Finish
  <2>2. main' \in MainRec
    BY <2>1, MainTypes DEF PrefillInv, MainRec, MainPcs, Pending
  <2>3. /\ main'.pc = "joinSender" /\ main'.local = main.local /\ main'.submitted = main.submitted
        /\ main'.reported = main.reported /\ main'.rc = main.rc /\ main'.ret = main.ret
    BY <2>1, MainTypes DEF PrefillInv, MainRec
  <2>4. ring' \in RingRec
    BY <2>1, RingTypes DEF PrefillInv, RingRec
  <2>5. /\ ring'.buf = ring.buf /\ ring'.head = ring.head /\ ring'.tail = ring.tail
        /\ ring'.queued = ring.queued /\ ring'.stop = ((ring.stop \/ main.rc # 0)) /\ ring'.producerDone = TRUE
    BY <2>1, RingTypes DEF PrefillInv, RingRec
  <2>6. asleep' \in [Threads -> Waits]
    BY <1>1 DEF PrefillInv, TypeOK, Finish, Signal, Waits, Threads
  <2>7. TypeOK'
    BY <2>1, <2>2, <2>4, <2>6 DEF PrefillInv, TypeOK
  <2>8. FramesInOrder'
    BY <2>1, <1>1 DEF PrefillInv, FramesInOrder
  <2>9. WireInv'
    BY <2>1, <1>1 DEF PrefillInv, WireInv, W
  <2>10. ReplyInv'
    BY <2>1, <1>1 DEF PrefillInv, ReplyInv
  <2>11. LostInv'
    BY <2>1, <1>1 DEF PrefillInv, LostInv, W
  <2>12. RingInv'
    BY <2>1, <1>1, <2>3, <2>5, Params, MainTypes, RingTypes, ConnTypes DEF PrefillInv, RingInv, W, Slot
  <2>13. FlowInv'
    BY <2>1, <1>1, <2>3, MainTypes, ReaderTypes, ConnTypes DEF PrefillInv, FlowInv, W
  <2>14. MainInv'
    BY <2>1, <1>1, <2>3, MainTypes, ReaderTypes DEF PrefillInv, MainInv, Pending
  <2>15. ThreadInv'
    BY <2>1, <1>1, <2>3, MainTypes, ReaderTypes DEF PrefillInv, ThreadInv
  <2>16. FaultInv'
    BY <2>1, <1>1, <2>3, <2>5 DEF PrefillInv, FaultInv, Broken, Real, MainInv, Pending
  <2>17. SuccessComplete'
    BY <2>1, <1>1, <2>3 DEF PrefillInv, SuccessComplete, MainInv, Pending
  <2>18. FaultNamed'
    BY <2>1, <1>1, <2>3 DEF PrefillInv, FaultNamed, MainInv, Pending
  <2> QED BY <2>7, <2>8, <2>9, <2>10, <2>11, <2>12, <2>13, <2>14, <2>15, <2>16, <2>17, <2>18 DEF PrefillInv
<1>2. CASE main.rc # 0
  <2>1. /\ main' = [main EXCEPT !.pc = "joinSender"]
        /\ ring' = [ring EXCEPT !.producerDone = TRUE, !.stop = TRUE]
        /\ conn' = [conn EXCEPT !.up = FALSE]
        /\ UNCHANGED <<sender, reader, faults>>
        /\ main.pc = "finish"
    BY <1>2 DEF Finish, Shutdown
  <2>2. main' \in MainRec
    BY <2>1, MainTypes DEF PrefillInv, MainRec, MainPcs, Pending
  <2>3. /\ main'.pc = "joinSender" /\ main'.local = main.local /\ main'.submitted = main.submitted
        /\ main'.reported = main.reported /\ main'.rc = main.rc /\ main'.ret = main.ret
    BY <2>1, MainTypes DEF PrefillInv, MainRec
  <2>4. ring' \in RingRec
    BY <2>1, RingTypes DEF PrefillInv, RingRec
  <2>5. /\ ring'.buf = ring.buf /\ ring'.head = ring.head /\ ring'.tail = ring.tail
        /\ ring'.queued = ring.queued /\ ring'.stop = TRUE /\ ring'.producerDone = TRUE
    BY <2>1, RingTypes DEF PrefillInv, RingRec
  <2>6. conn' \in ConnRec
    BY <2>1, ConnTypes DEF PrefillInv, ConnRec, Reply, Verdicts
  <2>7. /\ conn'.up = FALSE /\ conn'.peer = conn.peer /\ conn'.written = conn.written
        /\ conn'.good = conn.good /\ conn'.wire = conn.wire /\ conn'.replies = conn.replies
    BY <2>1, ConnTypes DEF PrefillInv, ConnRec
  <2>8. asleep' \in [Threads -> Waits]
    BY <1>2 DEF PrefillInv, TypeOK, Finish, Signal, Waits, Threads
  <2>9. TypeOK'
    BY <2>1, <2>2, <2>4, <2>6, <2>8 DEF PrefillInv, TypeOK
  <2>10. FramesInOrder'
    BY <2>1, <1>2, <2>7 DEF PrefillInv, FramesInOrder
  <2>11. WireInv'
    BY <2>1, <1>2, <2>7 DEF PrefillInv, WireInv, W
  <2>12. ReplyInv'
    BY <2>1, <1>2, <2>7 DEF PrefillInv, ReplyInv
  <2>13. LostInv'
    BY <2>1, <1>2, <2>7 DEF PrefillInv, LostInv, W
  <2>14. RingInv'
    BY <2>1, <1>2, <2>3, <2>5, <2>7, Params, MainTypes, RingTypes, ConnTypes DEF PrefillInv, RingInv, W, Slot
  <2>15. FlowInv'
    BY <2>1, <1>2, <2>3, <2>7, MainTypes, ReaderTypes, ConnTypes DEF PrefillInv, FlowInv, W
  <2>16. MainInv'
    BY <2>1, <1>2, <2>3, MainTypes, ReaderTypes DEF PrefillInv, MainInv, Pending
  <2>17. ThreadInv'
    BY <2>1, <1>2, <2>3, <2>7, MainTypes, ReaderTypes DEF PrefillInv, ThreadInv
  <2>18. FaultInv'
    BY <2>1, <1>2, <2>3, <2>5, <2>7 DEF PrefillInv, FaultInv, Broken, Real, MainInv, Pending
  <2>19. SuccessComplete'
    BY <2>1, <1>2, <2>3, <2>7 DEF PrefillInv, SuccessComplete, MainInv, Pending
  <2>20. FaultNamed'
    BY <2>1, <1>2, <2>3 DEF PrefillInv, FaultNamed, MainInv, Pending
  <2> QED BY <2>9, <2>10, <2>11, <2>12, <2>13, <2>14, <2>15, <2>16, <2>17, <2>18, <2>19, <2>20 DEF PrefillInv
<1> QED BY <1>1, <1>2 DEF Finish

LEMMA JoinSenderInv == ASSUME PrefillInv, JoinSender PROVE PrefillInv'
<1>1. CASE main.rc # 0 \/ sender.rc # 0
  <2>1. /\ main' = [main EXCEPT !.rc = 1, !.pc = "joinReader"]
        /\ conn' = [conn EXCEPT !.up = FALSE]
        /\ UNCHANGED <<ring, sender, reader, asleep, faults>>
        /\ main.pc = "joinSender" /\ sender.pc = "gone"
    BY <1>1 DEF JoinSender, Shutdown
  <2>2. main' \in MainRec
    BY <2>1, MainTypes DEF PrefillInv, MainRec, MainPcs, Pending
  <2>3. /\ main'.pc = "joinReader" /\ main'.local = main.local /\ main'.submitted = main.submitted
        /\ main'.reported = main.reported /\ main'.rc = 1 /\ main'.ret = main.ret
    BY <2>1, MainTypes DEF PrefillInv, MainRec
  <2>4. conn' \in ConnRec
    BY <2>1, ConnTypes DEF PrefillInv, ConnRec, Reply, Verdicts
  <2>5. /\ conn'.up = FALSE /\ conn'.peer = conn.peer /\ conn'.written = conn.written
        /\ conn'.good = conn.good /\ conn'.wire = conn.wire /\ conn'.replies = conn.replies
    BY <2>1, ConnTypes DEF PrefillInv, ConnRec
  <2>6. TypeOK'
    BY <2>1, <2>2, <2>4 DEF PrefillInv, TypeOK
  <2>7. FramesInOrder'
    BY <2>1, <1>1, <2>5 DEF PrefillInv, FramesInOrder
  <2>8. WireInv'
    BY <2>1, <1>1, <2>5 DEF PrefillInv, WireInv, W
  <2>9. ReplyInv'
    BY <2>1, <1>1, <2>5 DEF PrefillInv, ReplyInv
  <2>10. LostInv'
    BY <2>1, <1>1, <2>5 DEF PrefillInv, LostInv, W
  <2>11. RingInv'
    BY <2>1, <1>1, <2>3, <2>5, Params, MainTypes, RingTypes, ConnTypes DEF PrefillInv, RingInv, W, Slot
  <2>12. FlowInv'
    BY <2>1, <1>1, <2>3, <2>5, MainTypes, ReaderTypes, ConnTypes DEF PrefillInv, FlowInv, W
  <2>13. MainInv'
    BY <2>1, <1>1, <2>3, MainTypes, ReaderTypes DEF PrefillInv, MainInv, Pending
  <2>14. ThreadInv'
    BY <2>1, <1>1, <2>3, <2>5, MainTypes, ReaderTypes DEF PrefillInv, ThreadInv
  <2>15. FaultInv'
    BY <2>1, <1>1, <2>3, <2>5 DEF PrefillInv, FaultInv, Broken, Real, MainInv, Pending
  <2>16. SuccessComplete'
    BY <2>1, <1>1, <2>3, <2>5 DEF PrefillInv, SuccessComplete, MainInv, Pending
  <2>17. FaultNamed'
    BY <2>1, <1>1, <2>3 DEF PrefillInv, FaultNamed, MainInv, Pending
  <2> QED BY <2>6, <2>7, <2>8, <2>9, <2>10, <2>11, <2>12, <2>13, <2>14, <2>15, <2>16, <2>17 DEF PrefillInv
<1>2. CASE ~(main.rc # 0 \/ sender.rc # 0)
  <2>1. /\ main' = [main EXCEPT !.rc = 0, !.pc = "drain"]
        /\ UNCHANGED <<ring, sender, reader, conn, asleep, faults>>
        /\ main.pc = "joinSender" /\ sender.pc = "gone"
    BY <1>2 DEF JoinSender
  <2>2. main' \in MainRec
    BY <2>1, MainTypes DEF PrefillInv, MainRec, MainPcs, Pending
  <2>3. /\ main'.pc = "drain" /\ main'.local = main.local /\ main'.submitted = main.submitted
        /\ main'.reported = main.reported /\ main'.rc = 0 /\ main'.ret = main.ret
    BY <2>1, MainTypes DEF PrefillInv, MainRec
  <2>4. TypeOK'
    BY <2>1, <2>2 DEF PrefillInv, TypeOK
  <2>5. FramesInOrder'
    BY <2>1, <1>2 DEF PrefillInv, FramesInOrder
  <2>6. WireInv'
    BY <2>1, <1>2 DEF PrefillInv, WireInv, W
  <2>7. ReplyInv'
    BY <2>1, <1>2 DEF PrefillInv, ReplyInv
  <2>8. LostInv'
    BY <2>1, <1>2 DEF PrefillInv, LostInv, W
  <2>9. RingInv'
    BY <2>1, <1>2, <2>3, Params, MainTypes, RingTypes, ConnTypes DEF PrefillInv, RingInv, W, Slot
  <2>10. FlowInv'
    BY <2>1, <1>2, <2>3, MainTypes, ReaderTypes, ConnTypes DEF PrefillInv, FlowInv, W
  <2>11. MainInv'
    BY <2>1, <1>2, <2>3, MainTypes, ReaderTypes DEF PrefillInv, MainInv, Pending
  <2>12. ThreadInv'
    BY <2>1, <1>2, <2>3, MainTypes, ReaderTypes DEF PrefillInv, ThreadInv
  <2>13. FaultInv'
    BY <2>1, <1>2, <2>3 DEF PrefillInv, FaultInv, Broken, Real, MainInv, Pending
  <2>14. SuccessComplete'
    BY <2>1, <1>2, <2>3 DEF PrefillInv, SuccessComplete, MainInv, Pending
  <2>15. FaultNamed'
    BY <2>1, <1>2, <2>3 DEF PrefillInv, FaultNamed, MainInv, Pending
  <2> QED BY <2>4, <2>5, <2>6, <2>7, <2>8, <2>9, <2>10, <2>11, <2>12, <2>13, <2>14, <2>15 DEF PrefillInv
<1> QED BY <1>1, <1>2 DEF JoinSender

LEMMA DrainInv == ASSUME PrefillInv, Drain PROVE PrefillInv'
<1>1. CASE reader.completed <= main.reported /\ ~reader.done
  <2>1. /\ UNCHANGED <<main, ring, sender, reader, conn, faults>>
        /\ main.pc = "drain"
    BY <1>1 DEF Drain
  <2>2. asleep' \in [Threads -> Waits]
    BY <1>1 DEF PrefillInv, TypeOK, Drain, Sleep, Waits, Threads
  <2>3. TypeOK'
    BY <2>1, <2>2 DEF PrefillInv, TypeOK
  <2>4. FramesInOrder'
    BY <2>1, <1>1 DEF PrefillInv, FramesInOrder
  <2>5. WireInv'
    BY <2>1, <1>1 DEF PrefillInv, WireInv, W
  <2>6. ReplyInv'
    BY <2>1, <1>1 DEF PrefillInv, ReplyInv
  <2>7. LostInv'
    BY <2>1, <1>1 DEF PrefillInv, LostInv, W
  <2>8. RingInv'
    BY <2>1, <1>1, Params, MainTypes, RingTypes, ConnTypes DEF PrefillInv, RingInv, W, Slot
  <2>9. FlowInv'
    BY <2>1, <1>1, MainTypes, ReaderTypes, ConnTypes DEF PrefillInv, FlowInv, W
  <2>10. MainInv'
    BY <2>1, <1>1, MainTypes, ReaderTypes DEF PrefillInv, MainInv, Pending
  <2>11. ThreadInv'
    BY <2>1, <1>1, MainTypes, ReaderTypes DEF PrefillInv, ThreadInv
  <2>12. FaultInv'
    BY <2>1, <1>1 DEF PrefillInv, FaultInv, Broken, Real
  <2>13. SuccessComplete'
    BY <2>1, <1>1 DEF PrefillInv, SuccessComplete
  <2>14. FaultNamed'
    BY <2>1, <1>1 DEF PrefillInv, FaultNamed
  <2> QED BY <2>3, <2>4, <2>5, <2>6, <2>7, <2>8, <2>9, <2>10, <2>11, <2>12, <2>13, <2>14 DEF PrefillInv
<1>2. CASE reader.done
  <2>1. /\ main' = [main EXCEPT !.reported = reader.completed, !.pc = "joinReader"]
        /\ UNCHANGED <<ring, sender, reader, conn, asleep, faults>>
        /\ main.pc = "drain"
    BY <1>2 DEF Drain
  <2>2. main' \in MainRec
    BY <2>1, <1>2, MainTypes, ReaderTypes DEF PrefillInv, MainRec, MainPcs, Pending
  <2>3. /\ main'.pc = "joinReader" /\ main'.local = main.local /\ main'.submitted = main.submitted
        /\ main'.reported = reader.completed /\ main'.rc = main.rc /\ main'.ret = main.ret
    BY <2>1, MainTypes DEF PrefillInv, MainRec
  <2>4. TypeOK'
    BY <2>1, <2>2 DEF PrefillInv, TypeOK
  <2>5. FramesInOrder'
    BY <2>1, <1>2 DEF PrefillInv, FramesInOrder
  <2>6. WireInv'
    BY <2>1, <1>2 DEF PrefillInv, WireInv, W
  <2>7. ReplyInv'
    BY <2>1, <1>2 DEF PrefillInv, ReplyInv
  <2>8. LostInv'
    BY <2>1, <1>2 DEF PrefillInv, LostInv, W
  <2>9. RingInv'
    BY <2>1, <1>2, <2>3, Params, MainTypes, RingTypes, ConnTypes DEF PrefillInv, RingInv, W, Slot
  <2>10. FlowInv'
    BY <2>1, <1>2, <2>3, MainTypes, ReaderTypes, ConnTypes DEF PrefillInv, FlowInv, W
  <2>11. MainInv'
    BY <2>1, <1>2, <2>3, MainTypes, ReaderTypes DEF PrefillInv, MainInv, Pending, FlowInv
  <2>12. ThreadInv'
    BY <2>1, <1>2, <2>3, MainTypes, ReaderTypes DEF PrefillInv, ThreadInv, FlowInv, MainInv
  <2>13. FaultInv'
    BY <2>1, <1>2, <2>3 DEF PrefillInv, FaultInv, Broken, Real, MainInv, Pending
  <2>14. SuccessComplete'
    BY <2>1, <1>2, <2>3 DEF PrefillInv, SuccessComplete, MainInv, Pending
  <2>15. FaultNamed'
    BY <2>1, <1>2, <2>3 DEF PrefillInv, FaultNamed, MainInv, Pending
  <2> QED BY <2>4, <2>5, <2>6, <2>7, <2>8, <2>9, <2>10, <2>11, <2>12, <2>13, <2>14, <2>15 DEF PrefillInv
<1>3. CASE ~(reader.completed <= main.reported) /\ ~reader.done
  <2>1. /\ main' = [main EXCEPT !.reported = reader.completed, !.pc = "drain"]
        /\ UNCHANGED <<ring, sender, reader, conn, asleep, faults>>
        /\ main.pc = "drain"
    BY <1>3 DEF Drain
  <2>2. main' \in MainRec
    BY <2>1, <1>3, MainTypes, ReaderTypes DEF PrefillInv, MainRec, MainPcs, Pending
  <2>3. /\ main'.pc = "drain" /\ main'.local = main.local /\ main'.submitted = main.submitted
        /\ main'.reported = reader.completed /\ main'.rc = main.rc /\ main'.ret = main.ret
    BY <2>1, MainTypes DEF PrefillInv, MainRec
  <2>4. TypeOK'
    BY <2>1, <2>2 DEF PrefillInv, TypeOK
  <2>5. FramesInOrder'
    BY <2>1, <1>3 DEF PrefillInv, FramesInOrder
  <2>6. WireInv'
    BY <2>1, <1>3 DEF PrefillInv, WireInv, W
  <2>7. ReplyInv'
    BY <2>1, <1>3 DEF PrefillInv, ReplyInv
  <2>8. LostInv'
    BY <2>1, <1>3 DEF PrefillInv, LostInv, W
  <2>9. RingInv'
    BY <2>1, <1>3, <2>3, Params, MainTypes, RingTypes, ConnTypes DEF PrefillInv, RingInv, W, Slot
  <2>10. FlowInv'
    BY <2>1, <1>3, <2>3, MainTypes, ReaderTypes, ConnTypes DEF PrefillInv, FlowInv, W
  <2>11. MainInv'
    BY <2>1, <1>3, <2>3, MainTypes, ReaderTypes DEF PrefillInv, MainInv, Pending, FlowInv
  <2>12. ThreadInv'
    BY <2>1, <1>3, <2>3, MainTypes, ReaderTypes DEF PrefillInv, ThreadInv, FlowInv, MainInv
  <2>13. FaultInv'
    BY <2>1, <1>3, <2>3 DEF PrefillInv, FaultInv, Broken, Real, MainInv, Pending
  <2>14. SuccessComplete'
    BY <2>1, <1>3, <2>3 DEF PrefillInv, SuccessComplete, MainInv, Pending
  <2>15. FaultNamed'
    BY <2>1, <1>3, <2>3 DEF PrefillInv, FaultNamed, MainInv, Pending
  <2> QED BY <2>4, <2>5, <2>6, <2>7, <2>8, <2>9, <2>10, <2>11, <2>12, <2>13, <2>14, <2>15 DEF PrefillInv
<1> QED BY <1>1, <1>2, <1>3 DEF Drain

LEMMA PickSlotInv == ASSUME PrefillInv, PickSlot PROVE PrefillInv'
<1>1. CASE Sleep("sender", "can_dequeue") /\ UNCHANGED sender
  <2>1. /\ UNCHANGED <<main, ring, sender, reader, conn, faults>>
        /\ sender.pc = "wait"
    BY <1>1 DEF PickSlot
  <2>2. asleep' \in [Threads -> Waits]
    BY <1>1 DEF PrefillInv, TypeOK, Sleep, Waits, Threads
  <2>3. TypeOK'
    BY <2>1, <2>2 DEF PrefillInv, TypeOK
  <2>4. FramesInOrder'
    BY <2>1, <1>1 DEF PrefillInv, FramesInOrder
  <2>5. WireInv'
    BY <2>1, <1>1 DEF PrefillInv, WireInv, W
  <2>6. ReplyInv'
    BY <2>1, <1>1 DEF PrefillInv, ReplyInv
  <2>7. LostInv'
    BY <2>1, <1>1 DEF PrefillInv, LostInv, W
  <2>8. RingInv'
    BY <2>1, <1>1, Params, MainTypes, RingTypes, ConnTypes DEF PrefillInv, RingInv, W, Slot
  <2>9. FlowInv'
    BY <2>1, <1>1, MainTypes, ReaderTypes, ConnTypes DEF PrefillInv, FlowInv, W
  <2>10. MainInv'
    BY <2>1, <1>1, MainTypes, ReaderTypes DEF PrefillInv, MainInv, Pending
  <2>11. ThreadInv'
    BY <2>1, <1>1, MainTypes, ReaderTypes DEF PrefillInv, ThreadInv
  <2>12. FaultInv'
    BY <2>1, <1>1 DEF PrefillInv, FaultInv, Broken, Real
  <2>13. SuccessComplete'
    BY <2>1, <1>1 DEF PrefillInv, SuccessComplete
  <2>14. FaultNamed'
    BY <2>1, <1>1 DEF PrefillInv, FaultNamed
  <2> QED BY <2>3, <2>4, <2>5, <2>6, <2>7, <2>8, <2>9, <2>10, <2>11, <2>12, <2>13, <2>14 DEF PrefillInv
<1>2. CASE sender' = [sender EXCEPT !.pc = "gone"] /\ UNCHANGED asleep
  <2>1. /\ sender' = [sender EXCEPT !.pc = "gone"]
        /\ UNCHANGED <<main, ring, reader, conn, asleep, faults>>
        /\ sender.pc = "wait"
    BY <1>2 DEF PickSlot
  <2>2. sender' \in SenderRec
    BY <2>1, SenderTypes DEF PrefillInv, SenderRec
  <2>3. sender'.pc = "gone" /\ sender'.rc = sender.rc
    BY <2>1, SenderTypes DEF PrefillInv, SenderRec
  <2>4. TypeOK'
    BY <2>1, <2>2 DEF PrefillInv, TypeOK
  <2>5. FramesInOrder'
    BY <2>1, <1>2 DEF PrefillInv, FramesInOrder
  <2>6. WireInv'
    BY <2>1, <1>2 DEF PrefillInv, WireInv, W
  <2>7. ReplyInv'
    BY <2>1, <1>2 DEF PrefillInv, ReplyInv
  <2>8. LostInv'
    BY <2>1, <1>2 DEF PrefillInv, LostInv, W
  <2>9. RingInv'
    BY <2>1, <1>2, <2>3, Params, MainTypes, RingTypes, ConnTypes DEF PrefillInv, RingInv, W, Slot
  <2>10. FlowInv'
    BY <2>1, <1>2, MainTypes, ReaderTypes, ConnTypes DEF PrefillInv, FlowInv, W
  <2>11. MainInv'
    BY <2>1, <1>2, MainTypes, ReaderTypes DEF PrefillInv, MainInv, Pending
  <2>12. ThreadInv'
    BY <2>1, <1>2, <2>3, MainTypes, ReaderTypes DEF PrefillInv, ThreadInv
  <2>13. FaultInv'
    BY <2>1, <1>2, <2>3 DEF PrefillInv, FaultInv, Broken, Real
  <2>14. SuccessComplete'
    BY <2>1, <1>2 DEF PrefillInv, SuccessComplete
  <2>15. FaultNamed'
    BY <2>1, <1>2 DEF PrefillInv, FaultNamed
  <2> QED BY <2>4, <2>5, <2>6, <2>7, <2>8, <2>9, <2>10, <2>11, <2>12, <2>13, <2>14, <2>15 DEF PrefillInv
<1>3. CASE ring.queued # 0 /\ sender' = [sender EXCEPT !.pc = "send"] /\ UNCHANGED asleep
  <2>1. /\ sender' = [sender EXCEPT !.pc = "send"]
        /\ UNCHANGED <<main, ring, reader, conn, asleep, faults>>
        /\ sender.pc = "wait"
    BY <1>3 DEF PickSlot
  <2>2. sender' \in SenderRec
    BY <2>1, SenderTypes DEF PrefillInv, SenderRec
  <2>3. sender'.pc = "send" /\ sender'.rc = sender.rc
    BY <2>1, SenderTypes DEF PrefillInv, SenderRec
  <2>4. TypeOK'
    BY <2>1, <2>2 DEF PrefillInv, TypeOK
  <2>5. FramesInOrder'
    BY <2>1, <1>3 DEF PrefillInv, FramesInOrder
  <2>6. WireInv'
    BY <2>1, <1>3 DEF PrefillInv, WireInv, W
  <2>7. ReplyInv'
    BY <2>1, <1>3 DEF PrefillInv, ReplyInv
  <2>8. LostInv'
    BY <2>1, <1>3 DEF PrefillInv, LostInv, W
  <2>9. RingInv'
    <3>1. ring.queued > 0
      BY <1>3, RingTypes DEF PrefillInv
    <3> QED BY <2>1, <2>3, <3>1 DEF PrefillInv, RingInv, W, Slot
  <2>10. FlowInv'
    BY <2>1, <1>3, MainTypes, ReaderTypes, ConnTypes DEF PrefillInv, FlowInv, W
  <2>11. MainInv'
    BY <2>1, <1>3, MainTypes, ReaderTypes DEF PrefillInv, MainInv, Pending
  <2>12. ThreadInv'
    BY <2>1, <1>3, <2>3, MainTypes, ReaderTypes DEF PrefillInv, ThreadInv
  <2>13. FaultInv'
    BY <2>1, <1>3, <2>3 DEF PrefillInv, FaultInv, Broken, Real
  <2>14. SuccessComplete'
    BY <2>1, <1>3 DEF PrefillInv, SuccessComplete
  <2>15. FaultNamed'
    BY <2>1, <1>3 DEF PrefillInv, FaultNamed
  <2> QED BY <2>4, <2>5, <2>6, <2>7, <2>8, <2>9, <2>10, <2>11, <2>12, <2>13, <2>14, <2>15 DEF PrefillInv
<1> QED BY <1>1, <1>2, <1>3 DEF PickSlot

LEMMA SendFailsInv == ASSUME PrefillInv, SendFails PROVE PrefillInv'
<1>1. /\ ring' = [ring EXCEPT !.stop = TRUE]
      /\ sender' = [pc |-> "gone", rc |-> 1]
      /\ conn' = [conn EXCEPT !.up = FALSE]
      /\ UNCHANGED <<main, reader>>
      /\ sender.pc = "send"
  BY DEF SendFails, Shutdown
<1>2. \/ ~(conn.up /\ conn.peer) /\ faults' = faults
      \/ faults' = faults \cup {"timeout"}
  BY DEF SendFails
<1>3. ring' \in RingRec
  BY <1>1, <1>2, RingTypes DEF PrefillInv, RingRec
<1>4. /\ ring'.buf = ring.buf /\ ring'.head = ring.head /\ ring'.tail = ring.tail
      /\ ring'.queued = ring.queued /\ ring'.stop = TRUE /\ ring'.producerDone = ring.producerDone
  BY <1>1, RingTypes DEF PrefillInv, RingRec
<1>5. sender' \in SenderRec
  BY <1>1, <1>2, SenderTypes DEF PrefillInv, SenderRec
<1>6. sender'.pc = "gone" /\ sender'.rc = 1
  BY <1>1, SenderTypes DEF PrefillInv, SenderRec
<1>7. conn' \in ConnRec
  BY <1>1, <1>2, ConnTypes DEF PrefillInv, ConnRec, Reply, Verdicts
<1>8. /\ conn'.up = FALSE /\ conn'.peer = conn.peer /\ conn'.written = conn.written
      /\ conn'.good = conn.good /\ conn'.wire = conn.wire /\ conn'.replies = conn.replies
  BY <1>1, ConnTypes DEF PrefillInv, ConnRec
<1>9. asleep' \in [Threads -> Waits]
  BY DEF PrefillInv, TypeOK, SendFails, Signal, Waits, Threads
<1>10. TypeOK'
  BY <1>1, <1>3, <1>5, <1>7, <1>9, <1>2 DEF PrefillInv, TypeOK, Faults, Verdicts
<1>11. FramesInOrder'
  BY <1>1, <1>2, <1>8 DEF PrefillInv, FramesInOrder
<1>12. WireInv'
  BY <1>1, <1>2, <1>8 DEF PrefillInv, WireInv, W
<1>13. ReplyInv'
  BY <1>1, <1>2, <1>8 DEF PrefillInv, ReplyInv
<1>14. LostInv'
  BY <1>1, <1>2, <1>8 DEF PrefillInv, LostInv, W
<1>15. RingInv'
  <2> QED BY <1>1, <1>4, <1>6, <1>8 DEF PrefillInv, RingInv, W, Slot, SlotOf
<1>16. FlowInv'
  BY <1>1, <1>2, <1>8, MainTypes, ReaderTypes, ConnTypes DEF PrefillInv, FlowInv, W
<1>17. MainInv'
  BY <1>1, <1>2, MainTypes, ReaderTypes DEF PrefillInv, MainInv, Pending
<1>18. ThreadInv'
  BY <1>1, <1>2, <1>6, <1>8, MainTypes, ReaderTypes DEF PrefillInv, ThreadInv
<1>19. FaultInv'
  BY <1>1, <1>2, <1>4, <1>6, <1>8 DEF PrefillInv, FaultInv, Broken, Real
<1>20. SuccessComplete'
  BY <1>1, <1>2, <1>8 DEF PrefillInv, SuccessComplete, ThreadInv, MainInv, Pending
<1>21. FaultNamed'
  BY <1>1, <1>2 DEF PrefillInv, FaultNamed
<1> QED BY <1>10, <1>11, <1>12, <1>13, <1>14, <1>15, <1>16, <1>17, <1>18, <1>19, <1>20, <1>21 DEF PrefillInv

LEMMA RecvFailsInv == ASSUME PrefillInv, RecvFails PROVE PrefillInv'
<1>1. /\ reader' = [reader EXCEPT !.pc = "gone", !.rc = 1, !.done = TRUE]
      /\ conn' = [conn EXCEPT !.up = FALSE]
      /\ UNCHANGED <<main, ring, sender>>
      /\ reader.pc = "recv"
  BY ConnTypes DEF RecvFails, Stop
<1>2. \/ (~conn.peer \/ ~conn.up) /\ faults' = faults
      \/ faults' = faults \cup {"timeout"}
  BY DEF RecvFails
<1>3. 1 \in 0..2
  OBVIOUS
<1>4. reader' \in ReaderRec
  BY <1>1, <1>3, ReaderTypes DEF PrefillInv, ReaderRec
<1>5. /\ reader'.pc = "gone" /\ reader'.i = reader.i /\ reader'.rc = 1
      /\ reader'.completed = reader.completed /\ reader'.done = TRUE
  BY <1>1, ReaderTypes DEF PrefillInv, ReaderRec
<1>6. conn' \in ConnRec
  BY <1>1, <1>2, ConnTypes DEF PrefillInv, ConnRec, Reply, Verdicts
<1>7. /\ conn'.up = FALSE /\ conn'.peer = conn.peer /\ conn'.written = conn.written
      /\ conn'.good = conn.good /\ conn'.wire = conn.wire /\ conn'.replies = conn.replies
  BY <1>1, ConnTypes DEF PrefillInv, ConnRec
<1>8. asleep' \in [Threads -> Waits]
  BY DEF PrefillInv, TypeOK, RecvFails, Stop, Signal, Waits, Threads
<1>9. TypeOK'
  BY <1>1, <1>4, <1>6, <1>8, <1>2 DEF PrefillInv, TypeOK, Faults, Verdicts
<1>10. FramesInOrder'
  BY <1>1, <1>2, <1>7 DEF PrefillInv, FramesInOrder
<1>11. WireInv'
  BY <1>1, <1>2, <1>7 DEF PrefillInv, WireInv, W
<1>12. ReplyInv'
  BY <1>1, <1>2, <1>7, <1>5 DEF PrefillInv, ReplyInv
<1>13. LostInv'
  BY <1>1, <1>2, <1>7 DEF PrefillInv, LostInv, W
<1>14. RingInv'
  BY <1>1, <1>2, <1>7, Params, MainTypes, RingTypes, ConnTypes DEF PrefillInv, RingInv, W, Slot
<1>15. FlowInv'
  BY <1>1, <1>2, <1>5, <1>7, MainTypes, ReaderTypes, ConnTypes DEF PrefillInv, FlowInv, W
<1>16. MainInv'
  BY <1>1, <1>2, <1>5, MainTypes, ReaderTypes DEF PrefillInv, MainInv, Pending
<1>17. ThreadInv'
  BY <1>1, <1>2, <1>5, <1>7, MainTypes, ReaderTypes DEF PrefillInv, ThreadInv, MainInv
<1>18. FaultInv'
  <2>1. reader.rc = 0
    BY <1>1 DEF PrefillInv, ThreadInv
  <2>2. faults \subseteq faults' /\ (faults \ {"refused"} # {} \/ "timeout" \in faults')
    BY <1>2, <2>1 DEF PrefillInv, FaultInv, Broken, Real
  <2> QED BY <1>1, <1>2, <1>5, <1>7, <2>1, <2>2 DEF PrefillInv, FaultInv, Broken, Real
<1>19. SuccessComplete'
  BY <1>1, <1>2, <1>7 DEF PrefillInv, SuccessComplete, ThreadInv, MainInv, Pending
<1>20. FaultNamed'
  BY <1>1, <1>2 DEF PrefillInv, FaultNamed
<1> QED BY <1>9, <1>10, <1>11, <1>12, <1>13, <1>14, <1>15, <1>16, <1>17, <1>18, <1>19, <1>20 DEF PrefillInv

LEMMA PeerCloseInv == ASSUME PrefillInv, PeerClose PROVE PrefillInv'
<1>1. /\ conn' = [conn EXCEPT !.peer = FALSE]
      /\ faults' = faults \cup {"closed"}
      /\ UNCHANGED <<main, ring, sender, reader, asleep>>
  BY DEF PeerClose
<1>2. conn' \in ConnRec
  BY <1>1, ConnTypes DEF PrefillInv, ConnRec, Reply, Verdicts
<1>3. /\ conn'.up = conn.up /\ conn'.peer = FALSE /\ conn'.written = conn.written
      /\ conn'.good = conn.good /\ conn'.wire = conn.wire /\ conn'.replies = conn.replies
  BY <1>1, ConnTypes DEF PrefillInv, ConnRec
<1>4. TypeOK'
  BY <1>1, <1>2 DEF PrefillInv, TypeOK, Faults, Verdicts
<1>5. FramesInOrder'
  BY <1>1, <1>3 DEF PrefillInv, FramesInOrder
<1>6. WireInv'
  BY <1>1, <1>3 DEF PrefillInv, WireInv, W
<1>7. ReplyInv'
  BY <1>1, <1>3 DEF PrefillInv, ReplyInv
<1>8. LostInv'
  BY <1>1, <1>3 DEF PrefillInv, LostInv, W
<1>9. RingInv'
  BY <1>1, <1>3, Params, MainTypes, RingTypes, ConnTypes DEF PrefillInv, RingInv, W, Slot
<1>10. FlowInv'
  BY <1>1, <1>3, MainTypes, ReaderTypes, ConnTypes DEF PrefillInv, FlowInv, W
<1>11. MainInv'
  BY <1>1, MainTypes, ReaderTypes DEF PrefillInv, MainInv, Pending
<1>12. ThreadInv'
  BY <1>1, <1>3, MainTypes, ReaderTypes DEF PrefillInv, ThreadInv
<1>13. FaultInv'
  BY <1>1, <1>3 DEF PrefillInv, FaultInv, Broken, Real
<1>14. SuccessComplete'
  BY <1>1, <1>3 DEF PrefillInv, SuccessComplete
<1>15. FaultNamed'
  BY <1>1 DEF PrefillInv, FaultNamed
<1> QED BY <1>4, <1>5, <1>6, <1>7, <1>8, <1>9, <1>10, <1>11, <1>12, <1>13, <1>14, <1>15 DEF PrefillInv

\* No more frames are written than there are chunks.
LEMMA WithinSpan ==
  ASSUME TypeOK, RingInv
  PROVE  W \in Nat /\ W <= main.submitted /\ W <= Chunks /\ main.submitted = ring.queued + W
<1>1. W \in Nat /\ ring.queued \in Nat /\ main.submitted \in 0..Chunks /\ main.submitted = ring.queued + W
  BY ConnTypes, RingTypes, MainTypes, Params DEF RingInv, W
<1>2. W <= main.submitted
  BY <1>1
<1> QED BY <1>1, <1>2, Params

LEMMA ReturnInv == ASSUME PrefillInv, Return PROVE PrefillInv'
<1>0. PICK head \in {0, 1} :
        /\ head = 1 => reader.rc = 0 /\ main.rc = 0
        /\ main' = [main EXCEPT !.pc = "returned",
                     !.ret = IF reader.rc # 0 THEN reader.rc ELSE IF main.rc # 0 THEN 1 ELSE head]
        /\ faults' = faults \cup (IF head = 1 THEN {"head"} ELSE {})
  BY DEF Return
<1>1. CASE reader.rc # 0
  <2>1. /\ main' = [main EXCEPT !.pc = "returned", !.ret = reader.rc]
        /\ UNCHANGED <<ring, sender, reader, conn, asleep, faults>>
        /\ main.pc = "joinReader" /\ reader.pc = "gone"
    BY <1>1, <1>0 DEF Return
  <2>2. reader.rc \in {0, 1, 2, 3}
    BY ReaderTypes DEF PrefillInv
  <2>3. main' \in MainRec
    BY <2>1, <2>2, MainTypes DEF PrefillInv, MainRec, MainPcs, Pending
  <2>4. /\ main'.pc = "returned" /\ main'.local = main.local /\ main'.submitted = main.submitted
        /\ main'.reported = main.reported /\ main'.rc = main.rc /\ main'.ret = reader.rc
    BY <2>1, MainTypes DEF PrefillInv, MainRec
  <2>5. TypeOK'
    BY <2>1, <2>3 DEF PrefillInv, TypeOK
  <2>6. FramesInOrder'
    BY <2>1, <1>1 DEF PrefillInv, FramesInOrder
  <2>7. WireInv'
    BY <2>1, <1>1 DEF PrefillInv, WireInv, W
  <2>8. ReplyInv'
    BY <2>1, <1>1 DEF PrefillInv, ReplyInv
  <2>9. LostInv'
    BY <2>1, <1>1 DEF PrefillInv, LostInv, W
  <2>10. RingInv'
    BY <2>1, <1>1, <2>4, Params, MainTypes, RingTypes, ConnTypes DEF PrefillInv, RingInv, W, Slot
  <2>11. FlowInv'
    BY <2>1, <1>1, <2>4, MainTypes, ReaderTypes, ConnTypes DEF PrefillInv, FlowInv, W
  <2>12. MainInv'
    BY <2>1, <1>1, <2>4, MainTypes, ReaderTypes DEF PrefillInv, MainInv, Pending, Pending
  <2>13. ThreadInv'
    BY <2>1, <1>1, <2>4, MainTypes, ReaderTypes DEF PrefillInv, ThreadInv
  <2>14. FaultInv'
    BY <2>1, <1>1, <2>4 DEF PrefillInv, FaultInv, Broken, Real, ThreadInv
  <2>15. SuccessComplete'
    BY <2>1, <1>1, <2>4 DEF PrefillInv, SuccessComplete
  <2>16. FaultNamed'
    BY <2>1, <1>1, <2>4 DEF PrefillInv, FaultNamed, FaultInv, Real
  <2> QED BY <2>5, <2>6, <2>7, <2>8, <2>9, <2>10, <2>11, <2>12, <2>13, <2>14, <2>15, <2>16 DEF PrefillInv
<1>2. CASE reader.rc = 0 /\ main.rc # 0
  <2>1. /\ main' = [main EXCEPT !.pc = "returned", !.ret = 1]
        /\ UNCHANGED <<ring, sender, reader, conn, asleep, faults>>
        /\ main.pc = "joinReader" /\ reader.pc = "gone"
    BY <1>2, <1>0 DEF Return
  <2>2. main' \in MainRec
    BY <2>1, MainTypes DEF PrefillInv, MainRec, MainPcs, Pending
  <2>3. /\ main'.pc = "returned" /\ main'.local = main.local /\ main'.submitted = main.submitted
        /\ main'.reported = main.reported /\ main'.rc = main.rc /\ main'.ret = 1
    BY <2>1, MainTypes DEF PrefillInv, MainRec
  <2>4. TypeOK'
    BY <2>1, <2>2 DEF PrefillInv, TypeOK
  <2>5. FramesInOrder'
    BY <2>1, <1>2 DEF PrefillInv, FramesInOrder
  <2>6. WireInv'
    BY <2>1, <1>2 DEF PrefillInv, WireInv, W
  <2>7. ReplyInv'
    BY <2>1, <1>2 DEF PrefillInv, ReplyInv
  <2>8. LostInv'
    BY <2>1, <1>2 DEF PrefillInv, LostInv, W
  <2>9. RingInv'
    BY <2>1, <1>2, <2>3, Params, MainTypes, RingTypes, ConnTypes DEF PrefillInv, RingInv, W, Slot
  <2>10. FlowInv'
    BY <2>1, <1>2, <2>3, MainTypes, ReaderTypes, ConnTypes DEF PrefillInv, FlowInv, W
  <2>11. MainInv'
    BY <2>1, <1>2, <2>3, MainTypes, ReaderTypes DEF PrefillInv, MainInv, Pending
  <2>12. ThreadInv'
    BY <2>1, <1>2, <2>3, MainTypes, ReaderTypes DEF PrefillInv, ThreadInv
  <2>13. FaultInv'
    BY <2>1, <1>2, <2>3 DEF PrefillInv, FaultInv, Broken, Real
  <2>14. SuccessComplete'
    BY <2>1, <1>2, <2>3 DEF PrefillInv, SuccessComplete
  <2>15. FaultNamed'
    BY <2>1, <1>2, <2>3 DEF PrefillInv, FaultNamed, FaultInv, Broken, Real
  <2> QED BY <2>4, <2>5, <2>6, <2>7, <2>8, <2>9, <2>10, <2>11, <2>12, <2>13, <2>14, <2>15 DEF PrefillInv
<1>3. CASE reader.rc = 0 /\ main.rc = 0 /\ head = 0
  <2>1. /\ main' = [main EXCEPT !.pc = "returned", !.ret = 0]
        /\ UNCHANGED <<ring, sender, reader, conn, asleep, faults>>
        /\ main.pc = "joinReader" /\ reader.pc = "gone"
    BY <1>3, <1>0 DEF Return
  <2>2. main' \in MainRec
    BY <2>1, MainTypes DEF PrefillInv, MainRec, MainPcs, Pending
  <2>3. /\ main'.pc = "returned" /\ main'.local = main.local /\ main'.submitted = main.submitted
        /\ main'.reported = main.reported /\ main'.rc = main.rc /\ main'.ret = 0
    BY <2>1, MainTypes DEF PrefillInv, MainRec
  <2>4. TypeOK'
    BY <2>1, <2>2 DEF PrefillInv, TypeOK
  <2>5. FramesInOrder'
    BY <2>1, <1>3 DEF PrefillInv, FramesInOrder
  <2>6. WireInv'
    BY <2>1, <1>3 DEF PrefillInv, WireInv, W
  <2>7. ReplyInv'
    BY <2>1, <1>3 DEF PrefillInv, ReplyInv
  <2>8. LostInv'
    BY <2>1, <1>3 DEF PrefillInv, LostInv, W
  <2>9. RingInv'
    BY <2>1, <1>3, <2>3, Params, MainTypes, RingTypes, ConnTypes DEF PrefillInv, RingInv, W, Slot
  <2>10. FlowInv'
    BY <2>1, <1>3, <2>3, MainTypes, ReaderTypes, ConnTypes DEF PrefillInv, FlowInv, W
  <2>11. MainInv'
    BY <2>1, <1>3, <2>3, MainTypes, ReaderTypes DEF PrefillInv, MainInv, Pending
  <2>12. ThreadInv'
    BY <2>1, <1>3, <2>3, MainTypes, ReaderTypes DEF PrefillInv, ThreadInv
  <2>13. FaultInv'
    BY <2>1, <1>3, <2>3 DEF PrefillInv, FaultInv, Broken, Real
  <2>14. SuccessComplete'
    <3>1. reader.i = Chunks /\ main.reported = Chunks /\ main.local = Chunks
      BY <2>1, <1>3 DEF PrefillInv, ThreadInv, MainInv
    <3>2. W <= Chunks /\ W \in Nat
      BY WithinSpan DEF PrefillInv
    <3>a. 1..W \subseteq 1..Chunks
      BY <3>2, Params
    <3>b. 1..Chunks \subseteq conn.good /\ conn.good \subseteq 1..W
      BY <3>1 DEF PrefillInv, ReplyInv, WireInv
    <3>3. conn.good = 1..Chunks
      BY <3>a, <3>b
    <3>4. faults \cap {"refused", "bad", "overtook"} = {}
      BY <3>2, <3>3, Params DEF PrefillInv, LostInv
    <3>5. faults \cap {"setup", "local", "head", "timeout"} = {}
      BY <2>1, <1>3 DEF PrefillInv, FaultInv, ThreadInv, MainInv
    <3>6. faults \subseteq {"closed"}
      BY <3>4, <3>5 DEF PrefillInv, TypeOK, Faults, Verdicts
    <3> QED BY <2>1, <2>3, <3>1, <3>3, <3>6 DEF SuccessComplete
  <2>15. FaultNamed'
    BY <2>1, <1>3, <2>3 DEF PrefillInv, FaultNamed
  <2> QED BY <2>4, <2>5, <2>6, <2>7, <2>8, <2>9, <2>10, <2>11, <2>12, <2>13, <2>14, <2>15 DEF PrefillInv
<1>4. CASE reader.rc = 0 /\ main.rc = 0 /\ head = 1
  <2>1. /\ main' = [main EXCEPT !.pc = "returned", !.ret = 1]
        /\ faults' = faults \cup {"head"}
        /\ UNCHANGED <<ring, sender, reader, conn, asleep>>
        /\ main.pc = "joinReader" /\ reader.pc = "gone"
    BY <1>4, <1>0 DEF Return
  <2>2. main' \in MainRec
    BY <2>1, MainTypes DEF PrefillInv, MainRec, MainPcs, Pending
  <2>3. /\ main'.pc = "returned" /\ main'.local = main.local /\ main'.submitted = main.submitted
        /\ main'.reported = main.reported /\ main'.rc = main.rc /\ main'.ret = 1
    BY <2>1, MainTypes DEF PrefillInv, MainRec
  <2>4. TypeOK'
    BY <2>1, <2>2, <1>4 DEF PrefillInv, TypeOK, Faults, Verdicts
  <2>5. FramesInOrder'
    BY <2>1, <1>4 DEF PrefillInv, FramesInOrder
  <2>6. WireInv'
    BY <2>1, <1>4 DEF PrefillInv, WireInv, W
  <2>7. ReplyInv'
    BY <2>1, <1>4 DEF PrefillInv, ReplyInv
  <2>8. LostInv'
    BY <2>1, <1>4 DEF PrefillInv, LostInv, W
  <2>9. RingInv'
    BY <2>1, <1>4, <2>3, Params, MainTypes, RingTypes, ConnTypes DEF PrefillInv, RingInv, W, Slot
  <2>10. FlowInv'
    BY <2>1, <1>4, <2>3, MainTypes, ReaderTypes, ConnTypes DEF PrefillInv, FlowInv, W
  <2>11. MainInv'
    BY <2>1, <1>4, <2>3, MainTypes, ReaderTypes DEF PrefillInv, MainInv, Pending
  <2>12. ThreadInv'
    BY <2>1, <1>4, <2>3, MainTypes, ReaderTypes DEF PrefillInv, ThreadInv
  <2>13. FaultInv'
    BY <2>1, <1>4, <2>3 DEF PrefillInv, FaultInv, Broken, Real
  <2>14. SuccessComplete'
    BY <2>1, <1>4, <2>3 DEF PrefillInv, SuccessComplete
  <2>15. FaultNamed'
    BY <2>1, <1>4, <2>3 DEF PrefillInv, FaultNamed
  <2> QED BY <2>4, <2>5, <2>6, <2>7, <2>8, <2>9, <2>10, <2>11, <2>12, <2>13, <2>14, <2>15 DEF PrefillInv
<1> QED BY <1>0, <1>1, <1>2, <1>3, <1>4, MainTypes, ReaderTypes DEF PrefillInv

LEMMA RecvRejectedInv == ASSUME PrefillInv, RecvRejected PROVE PrefillInv'
<1>1. /\ reader' = [reader EXCEPT !.pc = "gone", !.rc = RecvRc(Head(conn.replies)), !.done = TRUE]
      /\ conn' = [conn EXCEPT !.up = FALSE, !.replies = Tail(conn.replies)]
      /\ UNCHANGED <<main, ring, sender, faults>>
      /\ reader.pc = "recv"
  BY DEF RecvRejected, Stop
<1>2. /\ conn.replies \in Seq(Reply) /\ conn.replies # <<>> /\ Len(conn.replies) \in Nat /\ Len(conn.replies) > 0
      /\ Head(conn.replies) = conn.replies[1] /\ 1 \in 1..Len(conn.replies)
  BY ConnTypes, EmptySeq DEF PrefillInv, RecvRejected
<1>3. /\ Head(conn.replies) \in Reply /\ Tail(conn.replies) \in Seq(Reply)
      /\ Len(Tail(conn.replies)) = Len(conn.replies) - 1
      /\ \A j \in 1..Len(Tail(conn.replies)) : Tail(conn.replies)[j] = conn.replies[j + 1] /\ j + 1 \in 1..Len(conn.replies)
  BY <1>2, HeadTailProperties
<1>4. RecvRc(Head(conn.replies)) \in {1, 2}
  BY DEF RecvRejected, RecvRc
<1>5. RecvRc(Head(conn.replies)) \in 0..2
  BY <1>4
<1>6. reader' \in ReaderRec
  BY <1>1, <1>5, ReaderTypes DEF PrefillInv, ReaderRec
<1>7. /\ reader'.pc = "gone" /\ reader'.i = reader.i /\ reader'.rc = RecvRc(Head(conn.replies))
      /\ reader'.completed = reader.completed /\ reader'.done = TRUE
  BY <1>1, ReaderTypes DEF PrefillInv, ReaderRec
<1>8. conn' \in ConnRec
  BY <1>1, <1>2, <1>3, <1>4, ConnTypes DEF PrefillInv, ConnRec, Reply, Verdicts
<1>9. /\ conn'.up = FALSE /\ conn'.peer = conn.peer /\ conn'.written = conn.written
      /\ conn'.good = conn.good /\ conn'.wire = conn.wire /\ conn'.replies = Tail(conn.replies)
  BY <1>1, ConnTypes DEF PrefillInv, ConnRec
<1>10. asleep' \in [Threads -> Waits]
  BY DEF PrefillInv, TypeOK, RecvRejected, Stop, Signal, Waits, Threads
<1>11. TypeOK'
  BY <1>1, <1>6, <1>8, <1>10 DEF PrefillInv, TypeOK
<1>12. FramesInOrder'
  BY <1>1, <1>2, <1>3, <1>4, <1>9 DEF PrefillInv, FramesInOrder
<1>13. WireInv'
  BY <1>1, <1>2, <1>3, <1>4, <1>9 DEF PrefillInv, WireInv, W
<1>14. ReplyInv'
  <2>1. \A j \in 1..Len(Tail(conn.replies)) : Tail(conn.replies)[j] = conn.replies[j + 1] /\ j + 1 \in 1..Len(conn.replies)
    BY <1>3
  <2> QED BY <1>1, <1>7, <1>9, <2>1 DEF PrefillInv, ReplyInv
<1>15. LostInv'
  BY <1>1, <1>2, <1>3, <1>4, <1>9 DEF PrefillInv, LostInv, W
<1>16. RingInv'
  BY <1>1, <1>2, <1>3, <1>4, <1>9, Params, MainTypes, RingTypes, ConnTypes DEF PrefillInv, RingInv, W, Slot
<1>17. FlowInv'
  <2>a. Len(conn.wire) + Len(conn.replies) + reader.i <= W
    BY DEF PrefillInv, FlowInv
  <2>1. /\ Len(conn.wire) \in Nat /\ Len(conn.replies) \in Nat /\ W \in Nat /\ reader.i \in Nat
    BY ConnTypes, ReaderTypes DEF PrefillInv, W
  <2>2. Len(conn.wire) + (Len(conn.replies) - 1) + reader.i <= W
    BY <2>1, <2>a, TakeOne
  <2>3. Len(conn'.wire) + Len(conn'.replies) + reader'.i <= W'
    BY <1>3, <1>7, <1>9, <2>2 DEF W
  <2>4. reader'.rc # 0 /\ reader'.i = reader.i /\ reader'.completed = reader.completed /\ main' = main
    BY <1>1, <1>4, <1>7
  <2> QED BY <2>3, <2>4 DEF PrefillInv, FlowInv
<1>18. MainInv'
  BY <1>1, <1>2, <1>3, <1>4, <1>7, MainTypes, ReaderTypes DEF PrefillInv, MainInv, Pending
<1>19. ThreadInv'
  BY <1>1, <1>2, <1>3, <1>4, <1>7, <1>9, MainTypes, ReaderTypes DEF PrefillInv, ThreadInv, MainInv
<1>20. FaultInv'
  <2>1. RecvRc(Head(conn.replies)) = 2 => "refused" \in faults
    BY <1>2 DEF PrefillInv, ReplyInv, RecvRc
  <2>2. RecvRc(Head(conn.replies)) = 1 => faults \ {"refused"} # {}
    <3>1. CASE Head(conn.replies).verdict = "bad"
      BY <1>2, <3>1 DEF PrefillInv, ReplyInv
    <3>2. CASE Head(conn.replies).id # reader.i + 1
      BY <1>1, <1>2, <3>2 DEF PrefillInv, ReplyInv
    <3> QED BY <3>1, <3>2 DEF RecvRc
  <2> QED BY <1>1, <1>4, <1>7, <1>9, <2>1, <2>2 DEF PrefillInv, FaultInv, Broken, Real
<1>21. SuccessComplete'
  BY <1>1, <1>2, <1>3, <1>4, <1>9 DEF PrefillInv, SuccessComplete, ThreadInv, MainInv, Pending
<1>22. FaultNamed'
  BY <1>1, <1>2, <1>3, <1>4 DEF PrefillInv, FaultNamed
<1> QED BY <1>11, <1>12, <1>13, <1>14, <1>15, <1>16, <1>17, <1>18, <1>19, <1>20, <1>21, <1>22 DEF PrefillInv

LEMMA RecvResultInv == ASSUME PrefillInv, RecvResult PROVE PrefillInv'
<1>0. /\ conn.replies \in Seq(Reply) /\ conn.replies # <<>> /\ Len(conn.replies) \in Nat /\ Len(conn.replies) > 0
      /\ Head(conn.replies) = conn.replies[1] /\ 1 \in 1..Len(conn.replies)
  BY ConnTypes, EmptySeq DEF PrefillInv, RecvResult
<1>1. /\ Head(conn.replies) \in Reply /\ Tail(conn.replies) \in Seq(Reply)
      /\ Len(Tail(conn.replies)) = Len(conn.replies) - 1
      /\ \A j \in 1..Len(Tail(conn.replies)) : Tail(conn.replies)[j] = conn.replies[j + 1] /\ j + 1 \in 1..Len(conn.replies)
  BY <1>0, HeadTailProperties
<1>2. Head(conn.replies).id = reader.i + 1 /\ Head(conn.replies).verdict = "ok" /\ reader.pc = "recv"
  BY <1>1 DEF RecvResult, RecvRc, Reply, Verdicts
<1>3. reader.i + 1 \in conn.good /\ reader.i \in 0..Chunks /\ reader.i + 1 \in 0..Chunks /\ reader.i < Chunks /\ reader.rc = 0
  BY <1>0, <1>2, ReaderTypes, Params DEF PrefillInv, ReplyInv, ThreadInv
<1>4. CASE reader.i + 1 = Chunks
  <2>1. /\ reader' = [reader EXCEPT !.i = reader.i + 1, !.completed = reader.i + 1, !.done = TRUE, !.pc = "gone"]
        /\ conn' = [conn EXCEPT !.replies = Tail(conn.replies)]
        /\ UNCHANGED <<main, ring, sender, faults>>
    BY <1>4, ReaderTypes DEF RecvResult
  <2>2. reader.i + 1 \in 0..Chunks
    BY <1>3
  <2>3. reader' \in ReaderRec
    BY <2>1, <2>2, ReaderTypes DEF PrefillInv, ReaderRec
  <2>4. /\ reader'.pc = "gone" /\ reader'.i = reader.i + 1 /\ reader'.rc = reader.rc
        /\ reader'.completed = reader.i + 1 /\ reader'.done = TRUE
    BY <2>1, ReaderTypes DEF PrefillInv, ReaderRec
  <2>5. Tail(conn.replies) \in Seq(Reply)
    BY <1>1
  <2>6. conn' \in ConnRec
    BY <2>1, <2>5, ConnTypes DEF PrefillInv, ConnRec, Reply, Verdicts
  <2>7. /\ conn'.up = conn.up /\ conn'.peer = conn.peer /\ conn'.written = conn.written
        /\ conn'.good = conn.good /\ conn'.wire = conn.wire /\ conn'.replies = Tail(conn.replies)
    BY <2>1, ConnTypes DEF PrefillInv, ConnRec
  <2>8. asleep' \in [Threads -> Waits]
    BY <1>4 DEF PrefillInv, TypeOK, RecvResult, Signal, Waits, Threads
  <2>9. TypeOK'
    BY <2>1, <2>3, <2>6, <2>8 DEF PrefillInv, TypeOK
  <2>10. FramesInOrder'
    BY <2>1, <1>4, <2>7 DEF PrefillInv, FramesInOrder
  <2>11. WireInv'
    BY <2>1, <1>4, <2>7 DEF PrefillInv, WireInv, W
  <2>12. ReplyInv'
    <3>1. \A k \in 1..reader.i + 1 : k \in conn.good
      BY <1>3 DEF PrefillInv, ReplyInv
    <3>2. \A j \in 1..Len(Tail(conn.replies)) : Tail(conn.replies)[j] = conn.replies[j + 1] /\ j + 1 \in 1..Len(conn.replies)
      BY <1>1
    <3>3. ASSUME "overtook" \notin faults, reader'.pc # "gone"
          PROVE  /\ \A j \in 1..Len(Tail(conn.replies)) : Tail(conn.replies)[j].id = (reader.i + 1) + j
                 /\ \A j \in 1..Len(conn.wire) : conn.wire[j] = (reader.i + 1) + Len(Tail(conn.replies)) + j
      <4>1. /\ \A j \in 1..Len(conn.replies) : conn.replies[j].id = reader.i + j
            /\ \A j \in 1..Len(conn.wire) : conn.wire[j] = reader.i + Len(conn.replies) + j
        BY <3>3, <1>2 DEF PrefillInv, ReplyInv
      <4>2. \A j \in 1..Len(Tail(conn.replies)) : Tail(conn.replies)[j].id = (reader.i + 1) + j
        BY <4>1, <3>2, <1>3, ConnTypes
      <4>3. reader.i \in Nat /\ Len(conn.replies) \in Nat /\ Len(Tail(conn.replies)) = Len(conn.replies) - 1
        BY <1>0, <1>1, <1>3
      <4>4. \A j \in Nat : reader.i + Len(conn.replies) + j = (reader.i + 1) + Len(Tail(conn.replies)) + j
        BY <4>3
      <4> QED BY <4>1, <4>2, <4>4
    <3> QED BY <2>1, <2>4, <2>7, <3>1, <3>2, <3>3 DEF PrefillInv, ReplyInv
  <2>13. LostInv'
    BY <2>1, <1>4, <2>7 DEF PrefillInv, LostInv, W
  <2>14. RingInv'
    BY <2>1, <1>4, <2>7, Params, MainTypes, RingTypes, ConnTypes DEF PrefillInv, RingInv, W, Slot
  <2>15. FlowInv'
    <3>1. /\ Len(conn.wire) \in Nat /\ W \in Nat /\ reader.i \in Nat /\ main.submitted \in Nat /\ Len(conn.replies) \in Nat
      BY ConnTypes, ReaderTypes, MainTypes DEF PrefillInv, W
    <3>2. Len(conn.wire) + (Len(conn.replies) - 1) + (reader.i + 1) = Len(conn.wire) + Len(conn.replies) + reader.i
      <4>1. \A a, b, c \in Nat : a + (b - 1) + (c + 1) = a + b + c
        BY TakeOne
      <4> QED BY <4>1, <3>1, Zenon
    <3>3. main.submitted <= reader.i + Window => main.submitted <= (reader.i + 1) + Window
      BY <3>1, Params
    <3>4. main.submitted < reader.i + Window => main.submitted < (reader.i + 1) + Window
      BY <3>1, Params
    <3> QED BY <2>1, <1>1, <1>3, <2>4, <2>7, <3>2, <3>3, <3>4 DEF PrefillInv, FlowInv, W
  <2>16. MainInv'
    BY <2>1, <1>4, <2>4, MainTypes, ReaderTypes, <1>3 DEF PrefillInv, MainInv, Pending
  <2>17. ThreadInv'
    <3>1. reader.i + 1 < Chunks \/ reader.i + 1 = Chunks
      BY <1>3, Params
    <3> QED BY <2>1, <1>4, <2>4, <2>7, <1>2, <1>3, <3>1 DEF PrefillInv, ThreadInv, MainInv
  <2>18. FaultInv'
    BY <2>1, <1>4, <2>4, <2>7, <1>3 DEF PrefillInv, FaultInv, Broken, Real
  <2>19. SuccessComplete'
    BY <2>1, <1>4, <2>7 DEF PrefillInv, SuccessComplete
  <2>20. FaultNamed'
    BY <2>1, <1>4 DEF PrefillInv, FaultNamed
  <2> QED BY <2>9, <2>10, <2>11, <2>12, <2>13, <2>14, <2>15, <2>16, <2>17, <2>18, <2>19, <2>20 DEF PrefillInv
<1>5. CASE reader.i + 1 # Chunks
  <2>1. /\ reader' = [reader EXCEPT !.i = reader.i + 1, !.completed = reader.i + 1, !.done = FALSE, !.pc = "recv"]
        /\ conn' = [conn EXCEPT !.replies = Tail(conn.replies)]
        /\ UNCHANGED <<main, ring, sender, faults>>
    BY <1>5, ReaderTypes DEF RecvResult
  <2>2. reader.i + 1 \in 0..Chunks
    BY <1>3
  <2>3. reader' \in ReaderRec
    BY <2>1, <2>2, ReaderTypes DEF PrefillInv, ReaderRec
  <2>4. /\ reader'.pc = "recv" /\ reader'.i = reader.i + 1 /\ reader'.rc = reader.rc
        /\ reader'.completed = reader.i + 1 /\ reader'.done = FALSE
    BY <2>1, ReaderTypes DEF PrefillInv, ReaderRec
  <2>5. Tail(conn.replies) \in Seq(Reply)
    BY <1>1
  <2>6. conn' \in ConnRec
    BY <2>1, <2>5, ConnTypes DEF PrefillInv, ConnRec, Reply, Verdicts
  <2>7. /\ conn'.up = conn.up /\ conn'.peer = conn.peer /\ conn'.written = conn.written
        /\ conn'.good = conn.good /\ conn'.wire = conn.wire /\ conn'.replies = Tail(conn.replies)
    BY <2>1, ConnTypes DEF PrefillInv, ConnRec
  <2>8. asleep' \in [Threads -> Waits]
    BY <1>5 DEF PrefillInv, TypeOK, RecvResult, Signal, Waits, Threads
  <2>9. TypeOK'
    BY <2>1, <2>3, <2>6, <2>8 DEF PrefillInv, TypeOK
  <2>10. FramesInOrder'
    BY <2>1, <1>5, <2>7 DEF PrefillInv, FramesInOrder
  <2>11. WireInv'
    BY <2>1, <1>5, <2>7 DEF PrefillInv, WireInv, W
  <2>12. ReplyInv'
    <3>1. \A k \in 1..reader.i + 1 : k \in conn.good
      BY <1>3 DEF PrefillInv, ReplyInv
    <3>2. \A j \in 1..Len(Tail(conn.replies)) : Tail(conn.replies)[j] = conn.replies[j + 1] /\ j + 1 \in 1..Len(conn.replies)
      BY <1>1
    <3>3. ASSUME "overtook" \notin faults, reader'.pc # "gone"
          PROVE  /\ \A j \in 1..Len(Tail(conn.replies)) : Tail(conn.replies)[j].id = (reader.i + 1) + j
                 /\ \A j \in 1..Len(conn.wire) : conn.wire[j] = (reader.i + 1) + Len(Tail(conn.replies)) + j
      <4>1. /\ \A j \in 1..Len(conn.replies) : conn.replies[j].id = reader.i + j
            /\ \A j \in 1..Len(conn.wire) : conn.wire[j] = reader.i + Len(conn.replies) + j
        BY <3>3, <1>2 DEF PrefillInv, ReplyInv
      <4>2. \A j \in 1..Len(Tail(conn.replies)) : Tail(conn.replies)[j].id = (reader.i + 1) + j
        BY <4>1, <3>2, <1>3, ConnTypes
      <4>3. reader.i \in Nat /\ Len(conn.replies) \in Nat /\ Len(Tail(conn.replies)) = Len(conn.replies) - 1
        BY <1>0, <1>1, <1>3
      <4>4. \A j \in Nat : reader.i + Len(conn.replies) + j = (reader.i + 1) + Len(Tail(conn.replies)) + j
        BY <4>3
      <4> QED BY <4>1, <4>2, <4>4
    <3> QED BY <2>1, <2>4, <2>7, <3>1, <3>2, <3>3 DEF PrefillInv, ReplyInv
  <2>13. LostInv'
    BY <2>1, <1>5, <2>7 DEF PrefillInv, LostInv, W
  <2>14. RingInv'
    BY <2>1, <1>5, <2>7, Params, MainTypes, RingTypes, ConnTypes DEF PrefillInv, RingInv, W, Slot
  <2>15. FlowInv'
    <3>1. /\ Len(conn.wire) \in Nat /\ W \in Nat /\ reader.i \in Nat /\ main.submitted \in Nat /\ Len(conn.replies) \in Nat
      BY ConnTypes, ReaderTypes, MainTypes DEF PrefillInv, W
    <3>2. Len(conn.wire) + (Len(conn.replies) - 1) + (reader.i + 1) = Len(conn.wire) + Len(conn.replies) + reader.i
      <4>1. \A a, b, c \in Nat : a + (b - 1) + (c + 1) = a + b + c
        BY TakeOne
      <4> QED BY <4>1, <3>1, Zenon
    <3>3. main.submitted <= reader.i + Window => main.submitted <= (reader.i + 1) + Window
      BY <3>1, Params
    <3>4. main.submitted < reader.i + Window => main.submitted < (reader.i + 1) + Window
      BY <3>1, Params
    <3> QED BY <2>1, <1>1, <1>3, <2>4, <2>7, <3>2, <3>3, <3>4 DEF PrefillInv, FlowInv, W
  <2>16. MainInv'
    BY <2>1, <1>5, <2>4, MainTypes, ReaderTypes, <1>3 DEF PrefillInv, MainInv, Pending
  <2>17. ThreadInv'
    <3>1. reader.i + 1 < Chunks \/ reader.i + 1 = Chunks
      BY <1>3, Params
    <3> QED BY <2>1, <1>5, <2>4, <2>7, <1>2, <1>3, <3>1 DEF PrefillInv, ThreadInv, MainInv
  <2>18. FaultInv'
    BY <2>1, <1>5, <2>4, <2>7, <1>3 DEF PrefillInv, FaultInv, Broken, Real
  <2>19. SuccessComplete'
    BY <2>1, <1>5, <2>7 DEF PrefillInv, SuccessComplete
  <2>20. FaultNamed'
    BY <2>1, <1>5 DEF PrefillInv, FaultNamed
  <2> QED BY <2>9, <2>10, <2>11, <2>12, <2>13, <2>14, <2>15, <2>16, <2>17, <2>18, <2>19, <2>20 DEF PrefillInv
<1> QED BY <1>4, <1>5
LEMMA SendSlotInv == ASSUME PrefillInv, SendSlot PROVE PrefillInv'
<1>a. ring.head \in 0..Slots-1 /\ ring.queued \in 0..Slots /\ ring.queued > 0 /\ sender.pc = "send"
  BY RingTypes DEF PrefillInv, RingInv, SendSlot
<1>b. W \in Nat /\ main.submitted = ring.queued + W /\ main.submitted \in 0..Chunks
  BY WithinSpan, MainTypes DEF PrefillInv
<1>c. W + 1 \in 0..Chunks /\ W + 1 \in 1..W + 1
  BY <1>a, <1>b, Params
<1>d. ring.buf[ring.head] = W + 1
  <2>1. ring.buf[Slot(0)] = W + 1 + 0
    BY <1>a, Params DEF PrefillInv, RingInv
  <2> QED BY <1>a, <1>b, <2>1, SlotFirst DEF Slot
<1>e. /\ conn.wire \in Seq(0..Chunks) /\ conn.written \in Seq(0..Chunks)
      /\ Len(conn.wire) \in Nat /\ Len(conn.written) \in Nat /\ Len(conn.replies) \in Nat
  BY ConnTypes DEF PrefillInv
<1>f. /\ Append(conn.wire, W + 1) \in Seq(0..Chunks) /\ Len(Append(conn.wire, W + 1)) = Len(conn.wire) + 1
      /\ \A j \in 1..Len(conn.wire) : Append(conn.wire, W + 1)[j] = conn.wire[j]
      /\ Append(conn.wire, W + 1)[Len(conn.wire) + 1] = W + 1
  BY <1>c, <1>e, AppendProperties
<1>g. /\ Append(conn.written, W + 1) \in Seq(0..Chunks) /\ Len(Append(conn.written, W + 1)) = W + 1
      /\ \A j \in 1..Len(conn.written) : Append(conn.written, W + 1)[j] = conn.written[j]
      /\ Append(conn.written, W + 1)[W + 1] = W + 1
  BY <1>c, <1>e, AppendProperties DEF W
<1>1. /\ ring' = [ring EXCEPT !.head = (ring.head + 1) % Slots, !.queued = ring.queued - 1]
      /\ sender' = [sender EXCEPT !.pc = "wait"]
      /\ conn' = [conn EXCEPT !.wire = Append(conn.wire, W + 1), !.written = Append(conn.written, W + 1)]
      /\ UNCHANGED <<main, reader, faults>>
  BY <1>d DEF SendSlot
<1>2. (ring.head + 1) % Slots \in 0..Slots-1 /\ ring.queued - 1 \in 0..Slots
  BY <1>a, StepTypes
<1>3. ring' \in RingRec
  BY <1>1, <1>2, RingTypes DEF PrefillInv, RingRec
<1>4. /\ ring'.buf = ring.buf /\ ring'.head = (ring.head + 1) % Slots /\ ring'.tail = ring.tail
      /\ ring'.queued = ring.queued - 1 /\ ring'.stop = ring.stop /\ ring'.producerDone = ring.producerDone
  BY <1>1, RingTypes DEF PrefillInv, RingRec
<1>5. sender' \in SenderRec
  BY <1>1, SenderTypes DEF PrefillInv, SenderRec
<1>6. sender'.pc = "wait" /\ sender'.rc = sender.rc
  BY <1>1, SenderTypes DEF PrefillInv, SenderRec
<1>7. Append(conn.wire, W + 1) \in Seq(0..Chunks) /\ Append(conn.written, W + 1) \in Seq(0..Chunks)
  BY <1>f, <1>g
<1>8. conn' \in ConnRec
  BY <1>1, <1>7, ConnTypes DEF PrefillInv, ConnRec, Reply, Verdicts
<1>9. /\ conn'.up = conn.up /\ conn'.peer = conn.peer /\ conn'.written = Append(conn.written, W + 1)
      /\ conn'.good = conn.good /\ conn'.wire = Append(conn.wire, W + 1) /\ conn'.replies = conn.replies
  BY <1>1, ConnTypes DEF PrefillInv, ConnRec
<1>10. asleep' \in [Threads -> Waits]
  BY DEF PrefillInv, TypeOK, SendSlot, Signal, Waits, Threads
<1>11. TypeOK'
  BY <1>1, <1>3, <1>5, <1>8, <1>10 DEF PrefillInv, TypeOK
<1>12. FramesInOrder'
  <2>1. \A j \in 1..W + 1 : j \in 1..W \/ j = W + 1
    BY <1>b
  <2> QED BY <1>9, <1>g, <2>1 DEF PrefillInv, FramesInOrder, W
<1>13. WireInv'
  <2>1. W' = W + 1
    BY <1>9, <1>g DEF W
  <2>2. \A j \in 1..Len(conn.wire) + 1 : j \in 1..Len(conn.wire) \/ j = Len(conn.wire) + 1
    BY <1>e
  <2>3. ASSUME NEW j \in 1..Len(conn'.wire)
        PROVE  conn'.wire[j] \in 1..W' /\ conn'.wire[j] \notin conn'.good
    <3>1. CASE j \in 1..Len(conn.wire)
      <4>1. conn'.wire[j] = conn.wire[j] /\ conn.wire[j] \in 1..W /\ conn.wire[j] \notin conn.good
        BY <3>1, <1>9, <1>f DEF PrefillInv, WireInv
      <4> QED BY <4>1, <2>1, <1>b, <1>9
    <3>2. CASE j = Len(conn.wire) + 1
      <4>1. conn'.wire[j] = W + 1 /\ W + 1 \notin 1..W
        BY <3>2, <1>9, <1>f, <1>b
      <4> QED BY <4>1, <2>1, <1>c, <1>9 DEF PrefillInv, WireInv
    <3> QED BY <2>2, <2>3, <3>1, <3>2, <1>9, <1>f
  <2>4. ASSUME NEW j \in 1..Len(conn'.wire), NEW k \in 1..Len(conn'.wire), j < k
        PROVE  conn'.wire[j] < conn'.wire[k]
    <3>1. j \in 1..Len(conn.wire) /\ conn'.wire[j] = conn.wire[j]
      BY <2>4, <1>9, <1>e, <1>f
    <3>2. CASE k \in 1..Len(conn.wire)
      BY <2>4, <3>1, <3>2, <1>9, <1>f DEF PrefillInv, WireInv
    <3>3. CASE k = Len(conn.wire) + 1
      <4>1. conn'.wire[k] = W + 1 /\ conn.wire[j] \in 1..W
        BY <3>1, <3>3, <1>9, <1>f DEF PrefillInv, WireInv
      <4> QED BY <3>1, <4>1, <1>b
    <3> QED BY <2>2, <3>2, <3>3, <1>9, <1>f
  <2>5. conn'.good \subseteq 1..W'
    BY <1>9, <2>1, <1>b DEF PrefillInv, WireInv
  <2> QED BY <2>3, <2>4, <2>5 DEF WireInv
<1>14. ReplyInv'
  <2>1. ASSUME "overtook" \notin faults, reader.pc # "gone", NEW j \in 1..Len(conn'.wire)
        PROVE  conn'.wire[j] = reader.i + Len(conn.replies) + j
    <3>1. CASE j \in 1..Len(conn.wire)
      BY <2>1, <3>1, <1>9, <1>f DEF PrefillInv, ReplyInv
    <3>2. CASE j = Len(conn.wire) + 1
      <4>1. W = Len(conn.wire) + Len(conn.replies) + reader.i
        BY <2>1 DEF PrefillInv, ThreadInv, FlowInv
      <4>2. \A a, b, c \in Nat : (a + b + c) + 1 = c + b + (a + 1)
        OBVIOUS
      <4>4. reader.i \in Nat
        BY ReaderTypes DEF PrefillInv
      <4>3. W + 1 = reader.i + Len(conn.replies) + (Len(conn.wire) + 1)
        BY <4>1, <4>2, <1>e, <4>4, Zenon
      <4> QED BY <3>2, <4>3, <1>9, <1>f
    <3>3. j \in 1..Len(conn.wire) \/ j = Len(conn.wire) + 1
      BY <2>1, <1>9, <1>e, <1>f
    <3> QED BY <3>1, <3>2, <3>3
  <2> QED BY <1>1, <1>9, <2>1 DEF PrefillInv, ReplyInv
<1>15. LostInv'
  <2>1. ASSUME faults \cap {"refused", "bad", "overtook"} # {}
        PROVE  \E k \in 1..W' : k \notin conn'.good /\ \A j \in 1..Len(conn'.wire) : conn'.wire[j] # k
    <3>1. PICK k \in 1..W : k \notin conn.good /\ \A j \in 1..Len(conn.wire) : conn.wire[j] # k
      BY <2>1 DEF PrefillInv, LostInv
    <3>2. k \in 1..W + 1 /\ k # W + 1
      BY <1>b
    <3>3. \A j \in 1..Len(conn.wire) + 1 : j \in 1..Len(conn.wire) \/ j = Len(conn.wire) + 1
      BY <1>e
    <3>4. \A j \in 1..Len(conn.wire) + 1 : Append(conn.wire, W + 1)[j] # k
      BY <3>1, <3>2, <3>3, <1>f
    <3> QED BY <3>1, <3>2, <3>4, <1>9, <1>f, <1>g DEF W
  <2> QED BY <1>1, <2>1 DEF LostInv
<1>16. RingInv'
  <2>1. W' = W + 1 /\ ring.queued - 1 \in 0..Slots-1 /\ ring.queued \in Nat
    BY <1>9, <1>a, <1>g, Params DEF W
  <2>2. main.submitted = (ring.queued - 1) + (W + 1)
    BY <1>a, <1>b
  <2>3. SlotOf((ring.head + 1) % Slots, ring.queued - 1) = SlotOf(ring.head, ring.queued)
    <3>1. (ring.queued - 1) + 1 = ring.queued
      BY <2>1
    <3> QED BY <1>a, <2>1, <3>1, SlotShift
  <2>4. ASSUME NEW j \in 0..Slots-1, j < ring.queued - 1
        PROVE  ring.buf[SlotOf((ring.head + 1) % Slots, j)] = (W + 1) + 1 + j
    <3>1. j + 1 \in 0..Slots-1 /\ j + 1 < ring.queued
      BY <2>4, <1>a, Params
    <3>2. ring.buf[SlotOf(ring.head, j + 1)] = W + 1 + (j + 1)
      BY <3>1 DEF PrefillInv, RingInv, Slot
    <3>3. W + 1 + (j + 1) = (W + 1) + 1 + j
      BY <1>b
    <3> QED BY <1>a, <3>2, <3>3, SlotShift
  <2>5. main.pc \in {"eval", "enqueue"} => ring.queued - 1 < Slots
    BY <2>1, Params
  <2>6. ring.tail = SlotOf(ring.head, ring.queued) /\ (main.pc = "enqueue" => ring.buf[ring.tail] = main.submitted + 1)
    BY DEF PrefillInv, RingInv, Slot
  <2> QED BY <1>1, <1>4, <1>6, <2>1, <2>2, <2>3, <2>4, <2>5, <2>6 DEF RingInv, Slot
<1>17. FlowInv'
  <2>1. reader.i \in Nat
    BY ReaderTypes DEF PrefillInv
  <2>2. (Len(conn.wire) + 1) + Len(conn.replies) + reader.i = (Len(conn.wire) + Len(conn.replies) + reader.i) + 1
    <3>1. \A a, b, c \in Nat : (a + 1) + b + c = (a + b + c) + 1
      OBVIOUS
    <3> QED BY <3>1, <2>1, <1>e, Zenon
  <2>3. /\ Len(conn.wire) + Len(conn.replies) + reader.i <= W => (Len(conn.wire) + 1) + Len(conn.replies) + reader.i <= W + 1
        /\ W = Len(conn.wire) + Len(conn.replies) + reader.i => W + 1 = (Len(conn.wire) + 1) + Len(conn.replies) + reader.i
    <3>1. \A s, w \in Nat : s <= w => s + 1 <= w + 1
      OBVIOUS
    <3>2. Len(conn.wire) + Len(conn.replies) + reader.i \in Nat
      <4>1. \A a, b, c \in Nat : a + b + c \in Nat
        OBVIOUS
      <4> QED BY <4>1, <2>1, <1>e, Zenon
    <3>3. Len(conn.wire) + Len(conn.replies) + reader.i <= W => (Len(conn.wire) + Len(conn.replies) + reader.i) + 1 <= W + 1
      BY <3>1, <3>2, <1>b, Zenon
    <3> QED BY <2>2, <3>3, Zenon
  <2>4. W' = W + 1 /\ Len(conn'.wire) = Len(conn.wire) + 1 /\ Len(conn'.replies) = Len(conn.replies)
    BY <1>9, <1>f, <1>g DEF W
  <2> QED BY <1>1, <2>3, <2>4 DEF PrefillInv, FlowInv
<1>18. MainInv'
  BY <1>1, MainTypes, ReaderTypes DEF PrefillInv, MainInv, Pending
<1>19. ThreadInv'
  BY <1>1, <1>6, <1>9, MainTypes, ReaderTypes, <1>a DEF PrefillInv, ThreadInv
<1>20. FaultInv'
  BY <1>1, <1>4, <1>6, <1>9 DEF PrefillInv, FaultInv, Broken, Real
<1>21. SuccessComplete'
  BY <1>1, <1>9 DEF PrefillInv, SuccessComplete
<1>22. FaultNamed'
  BY <1>1 DEF PrefillInv, FaultNamed
<1> QED BY <1>11, <1>12, <1>13, <1>14, <1>15, <1>16, <1>17, <1>18, <1>19, <1>20, <1>21, <1>22 DEF PrefillInv
\* The worker takes the frame at place p of the wire and answers it.
LEMMA TakeFrame ==
  ASSUME PrefillInv, NEW p \in 1..Len(conn.wire), NEW v \in Verdicts,
         NEW nw \in Seq(0..Chunks), NEW nr, NEW ng,
         Len(nw) = Len(conn.wire) - 1,
         \A m \in 1..Len(nw) : nw[m] = IF m < p THEN conn.wire[m] ELSE conn.wire[m + 1],
         nr = Append(conn.replies, [id |-> conn.wire[p], verdict |-> v]),
         ng = IF v = "ok" THEN conn.good \cup {conn.wire[p]} ELSE conn.good,
         conn' = [conn EXCEPT !.wire = nw, !.replies = nr, !.good = ng],
         faults \subseteq faults', faults' \subseteq faults \cup {"refused", "bad", "overtook"},
         v # "ok" => v \in faults', v = "ok" => faults' = faults, p > 1 => "overtook" \in faults',
         UNCHANGED <<main, ring, sender, reader, asleep>>
  PROVE  PrefillInv'
<1>a. /\ conn.wire \in Seq(0..Chunks) /\ conn.replies \in Seq(Reply) /\ Len(conn.wire) \in Nat /\ Len(nw) \in Nat
      /\ Len(conn.replies) \in Nat /\ W \in Nat /\ W <= Chunks /\ reader.i \in Nat
  BY ConnTypes, ReaderTypes, WithinSpan, LenProperties DEF PrefillInv
<1>b. conn.wire[p] \in 1..W /\ conn.wire[p] \in 1..Chunks /\ conn.wire[p] \in 0..Chunks /\ conn.wire[p] \notin conn.good
  <2>1. conn.wire[p] \in 1..W /\ conn.wire[p] \notin conn.good
    BY DEF PrefillInv, WireInv
  <2> QED BY <2>1, <1>a, Params
<1>c. [id |-> conn.wire[p], verdict |-> v] \in Reply
  BY <1>b DEF Reply
<1>d. /\ nr \in Seq(Reply) /\ Len(nr) = Len(conn.replies) + 1 /\ \A j \in 1..Len(conn.replies) : nr[j] = conn.replies[j]
      /\ nr[Len(conn.replies) + 1] = [id |-> conn.wire[p], verdict |-> v]
  BY <1>a, <1>c, AppendProperties
<1>e. \A j \in 1..Len(nr) : j \in 1..Len(conn.replies) \/ j = Len(conn.replies) + 1
  BY <1>a, <1>d
<1>f. \A m \in 1..Len(nw) : /\ m \in 1..Len(conn.wire) /\ m + 1 \in 1..Len(conn.wire)
                            /\ m \in Nat /\ (m < p \/ (m >= p /\ m + 1 > p)) /\ p \in Nat
  BY <1>a
<1>g. ASSUME NEW m \in 1..Len(nw)
      PROVE  \E l \in 1..Len(conn.wire) : nw[m] = conn.wire[l] /\ l # p /\ l = IF m < p THEN m ELSE m + 1
  BY <1>f
<1>h. \A m \in 1..Len(nw) : nw[m] \in 1..W /\ nw[m] \notin conn.good /\ nw[m] # conn.wire[p]
  <2>1. \A l \in 1..Len(conn.wire) : l # p => conn.wire[l] # conn.wire[p] /\ conn.wire[l] \in 1..W /\ conn.wire[l] \notin conn.good
    <3>1. ASSUME NEW l \in 1..Len(conn.wire), l # p PROVE conn.wire[l] # conn.wire[p] /\ conn.wire[l] \in 1..W /\ conn.wire[l] \notin conn.good
      <4>1. l < p \/ p < l
        BY <3>1, <1>a
      <4>2. conn.wire[l] < conn.wire[p] \/ conn.wire[p] < conn.wire[l]
        BY <4>1 DEF PrefillInv, WireInv
      <4>3. conn.wire[l] \in 1..W /\ conn.wire[l] \notin conn.good
        BY DEF PrefillInv, WireInv
      <4> QED BY <4>2, <4>3, <1>b
    <3> QED BY <3>1
  <2> QED BY <1>g, <2>1
<1>i. main.ret # 0
  BY <1>b DEF PrefillInv, SuccessComplete
<1>j. ng \subseteq 1..W /\ conn.good \subseteq ng /\ (v = "ok" => conn.wire[p] \in ng) /\ \A k \in ng : k \in conn.good \/ k = conn.wire[p]
  BY <1>b DEF PrefillInv, WireInv
<1>k. ng \subseteq 0..Chunks
  <2>1. 1..W \subseteq 0..Chunks
    BY <1>a, Params
  <2> QED BY <2>1, <1>j
<1>1. /\ conn' = [conn EXCEPT !.wire = nw, !.replies = nr, !.good = ng]
      /\ UNCHANGED <<main, ring, sender, reader, asleep>>
  OBVIOUS
<1>2. nw \in Seq(0..Chunks) /\ nr \in Seq(Reply) /\ ng \subseteq 0..Chunks
  BY <1>d, <1>k
<1>3. conn' \in ConnRec
  BY <1>1, <1>2, ConnTypes DEF PrefillInv, ConnRec, Reply, Verdicts
<1>4. /\ conn'.up = conn.up /\ conn'.peer = conn.peer /\ conn'.written = conn.written
      /\ conn'.good = ng /\ conn'.wire = nw /\ conn'.replies = nr
  BY <1>1, ConnTypes DEF PrefillInv, ConnRec
<1>5. TypeOK'
  BY <1>1, <1>3 DEF PrefillInv, TypeOK, Faults, Verdicts
<1>6. FramesInOrder'
  BY <1>1, <1>4 DEF PrefillInv, FramesInOrder
<1>7. WireInv'
  <2>1. ASSUME NEW j \in 1..Len(nw), NEW k \in 1..Len(nw), j < k
        PROVE  nw[j] < nw[k]
    <3>1. PICK l \in 1..Len(conn.wire) : nw[j] = conn.wire[l] /\ l = IF j < p THEN j ELSE j + 1
      BY <1>g
    <3>2. PICK m \in 1..Len(conn.wire) : nw[k] = conn.wire[m] /\ m = IF k < p THEN k ELSE k + 1
      BY <1>g
    <3>3. l < m
      BY <3>1, <3>2, <2>1, <1>f
    <3> QED BY <3>1, <3>2, <3>3 DEF PrefillInv, WireInv
  <2>2. \A m \in 1..Len(nw) : nw[m] \in 1..W /\ nw[m] \notin ng
    BY <1>h, <1>j
  <2> QED BY <1>4, <2>1, <2>2, <1>j DEF WireInv, W
<1>8. ReplyInv'
  <2>1. \A k \in 1..reader.i : k \in ng
    BY <1>j DEF PrefillInv, ReplyInv
  <2>2. ASSUME NEW j \in 1..Len(nr)
        PROVE  IF nr[j].verdict = "ok" THEN nr[j].id \in ng ELSE nr[j].verdict \in faults'
    <3>1. CASE j \in 1..Len(conn.replies)
      <4>1. nr[j] = conn.replies[j]
        BY <3>1, <1>d
      <4>2. IF conn.replies[j].verdict = "ok" THEN conn.replies[j].id \in conn.good ELSE conn.replies[j].verdict \in faults
        BY <3>1 DEF PrefillInv, ReplyInv
      <4> QED BY <4>1, <4>2, <1>j
    <3>2. CASE j = Len(conn.replies) + 1
      BY <3>2, <1>d, <1>j
    <3> QED BY <1>e, <3>1, <3>2
  <2>3. ASSUME "overtook" \notin faults', reader.pc # "gone"
        PROVE  /\ \A j \in 1..Len(nr) : nr[j].id = reader.i + j
               /\ \A j \in 1..Len(nw) : nw[j] = reader.i + Len(nr) + j
    <3>1. "overtook" \notin faults /\ p = 1
      BY <2>3, <1>a
    <3>2. /\ \A j \in 1..Len(conn.replies) : conn.replies[j].id = reader.i + j
          /\ \A j \in 1..Len(conn.wire) : conn.wire[j] = reader.i + Len(conn.replies) + j
      BY <2>3, <3>1 DEF PrefillInv, ReplyInv
    <3>3. conn.wire[p] = reader.i + (Len(conn.replies) + 1)
      <4>1. \A a, b \in Nat : a + b + 1 = a + (b + 1)
        OBVIOUS
      <4>2. reader.i + Len(conn.replies) + 1 = reader.i + (Len(conn.replies) + 1)
        BY <4>1, <1>a, Zenon
      <4>3. conn.wire[1] = reader.i + Len(conn.replies) + 1
        BY <3>1, <3>2, Zenon
      <4> QED BY <3>1, <4>2, <4>3
    <3>4. \A j \in 1..Len(nr) : nr[j].id = reader.i + j
      BY <3>2, <3>3, <1>d, <1>e
    <3>5. ASSUME NEW j \in 1..Len(nw)
          PROVE  nw[j] = reader.i + Len(nr) + j
      <4>1. nw[j] = conn.wire[j + 1] /\ j + 1 \in 1..Len(conn.wire) /\ j \in Nat
        BY <3>1, <1>f
      <4>2. nw[j] = reader.i + Len(conn.replies) + (j + 1)
        BY <4>1, <3>2
      <4>3. \A a, b, c \in Nat : a + b + (c + 1) = a + (b + 1) + c
        OBVIOUS
      <4>4. reader.i + Len(conn.replies) + (j + 1) = reader.i + (Len(conn.replies) + 1) + j
        BY <4>1, <4>3, <1>a, Zenon
      <4> QED BY <4>2, <4>4, <1>d, Zenon
    <3> QED BY <3>4, <3>5
  <2> QED BY <1>1, <1>4, <2>1, <2>2, <2>3 DEF ReplyInv
<1>9. LostInv'
  <2>1. CASE v # "ok"
    <3>1. conn.wire[p] \in 1..W /\ conn.wire[p] \notin ng /\ \A j \in 1..Len(nw) : nw[j] # conn.wire[p]
      BY <2>1, <1>b, <1>h
    <3> QED BY <1>4, <3>1 DEF LostInv, W
  <2>2. CASE v = "ok"
    <3>1. ASSUME faults' \cap {"refused", "bad", "overtook"} # {}
          PROVE  \E k \in 1..W : k \notin ng /\ \A j \in 1..Len(nw) : nw[j] # k
      <4>1. PICK k \in 1..W : k \notin conn.good /\ \A j \in 1..Len(conn.wire) : conn.wire[j] # k
        BY <2>2, <3>1 DEF PrefillInv, LostInv
      <4> QED BY <4>1, <1>g, <1>j
    <3> QED BY <1>4, <3>1 DEF LostInv, W
  <2> QED BY <2>1, <2>2
<1>10. RingInv'
  BY <1>1, <1>4, Params, MainTypes, RingTypes, ConnTypes DEF PrefillInv, RingInv, W, Slot
<1>11. FlowInv'
  <2>1. (Len(conn.wire) - 1) + (Len(conn.replies) + 1) + reader.i = Len(conn.wire) + Len(conn.replies) + reader.i
    <3>1. \A a, b, c \in Nat : (a - 1) + (b + 1) + c = a + b + c
      OBVIOUS
    <3> QED BY <3>1, <1>a, Zenon
  <2>2. Len(conn'.wire) + Len(conn'.replies) + reader.i = Len(conn.wire) + Len(conn.replies) + reader.i
    BY <1>4, <1>d, <2>1
  <2> QED BY <1>1, <1>4, <2>2 DEF PrefillInv, FlowInv, W
<1>12. MainInv'
  BY <1>1, MainTypes, ReaderTypes DEF PrefillInv, MainInv, Pending
<1>13. ThreadInv'
  BY <1>1, <1>4, MainTypes, ReaderTypes DEF PrefillInv, ThreadInv
<1>14. FaultInv'
  BY <1>1, <1>4 DEF PrefillInv, FaultInv, Broken, Real
<1>15. SuccessComplete'
  BY <1>1, <1>4, <1>i DEF PrefillInv, SuccessComplete
<1>16. FaultNamed'
  BY <1>1 DEF PrefillInv, FaultNamed
<1> QED BY <1>5, <1>6, <1>7, <1>8, <1>9, <1>10, <1>11, <1>12, <1>13, <1>14, <1>15, <1>16 DEF PrefillInv

LEMMA AnswerInv == ASSUME PrefillInv, NEW v \in {"ok", "bad"}, Answer(v) PROVE PrefillInv'
<1>1. conn.wire \in Seq(0..Chunks) /\ conn.wire # <<>> /\ conn.wire[1] = Head(conn.wire)
  BY ConnTypes DEF PrefillInv, Answer
<1>2. /\ Tail(conn.wire) \in Seq(0..Chunks) /\ Len(Tail(conn.wire)) = Len(conn.wire) - 1
      /\ \A i \in 1..Len(Tail(conn.wire)) : Tail(conn.wire)[i] = conn.wire[i + 1]
  BY <1>1, HeadTailProperties
<1>3. 1 \in 1..Len(conn.wire) /\ Len(Tail(conn.wire)) \in Nat
  BY <1>1, <1>2, EmptySeq, LenProperties
<1>4. \A m \in 1..Len(Tail(conn.wire)) : Tail(conn.wire)[m] = IF m < 1 THEN conn.wire[m] ELSE conn.wire[m + 1]
  BY <1>2, <1>3
<1> DEFINE nr == Append(conn.replies, [id |-> conn.wire[1], verdict |-> v])
           ng == IF v = "ok" THEN conn.good \cup {conn.wire[1]} ELSE conn.good
<1>5. conn' = [conn EXCEPT !.wire = Tail(conn.wire), !.replies = nr, !.good = ng]
  BY <1>1 DEF Answer
<1>6. /\ faults \subseteq faults' /\ faults' \subseteq faults \cup {"refused", "bad", "overtook"}
      /\ (v # "ok" => v \in faults') /\ (v = "ok" => faults' = faults) /\ ~(1 > 1) /\ v \in Verdicts
  BY DEF Answer, Verdicts
<1>7. UNCHANGED <<main, ring, sender, reader, asleep>>
  BY DEF Answer
<1> QED BY <1>2, <1>3, <1>4, <1>5, <1>6, <1>7, TakeFrame

LEMMA RefuseInv == ASSUME PrefillInv, NEW p \in 1..Len(conn.wire), Refuse(p) PROVE PrefillInv'
<1> DEFINE a == SubSeq(conn.wire, 1, p - 1)
           b == SubSeq(conn.wire, p + 1, Len(conn.wire))
           nr == Append(conn.replies, [id |-> conn.wire[p], verdict |-> "refused"])
           n == Len(conn.wire)
<1>1. conn.wire \in Seq(0..Chunks) /\ n \in Nat /\ p \in 1..n /\ p - 1 \in Nat /\ p + 1 \in Nat
  BY ConnTypes DEF PrefillInv
<1>2. (\A i \in 1..p - 1 : conn.wire[i] \in 0..Chunks) /\ (\A i \in p + 1..n : conn.wire[i] \in 0..Chunks)
  <2>1. \A i \in 1..n : conn.wire[i] \in 0..Chunks
    BY <1>1, ElementOfSeq
  <2>2. (\A i \in 1..p - 1 : i \in 1..n) /\ (\A i \in p + 1..n : i \in 1..n)
    BY <1>1
  <2> QED BY <2>1, <2>2
<1>3. /\ a \in Seq(0..Chunks) /\ Len(a) = p - 1 /\ \A i \in 1..p - 1 : a[i] = conn.wire[i]
  <2>1. /\ a \in Seq(0..Chunks) /\ Len(a) = (IF 1 <= p - 1 THEN (p - 1) - 1 + 1 ELSE 0)
        /\ \A i \in 1..(p - 1) - 1 + 1 : a[i] = conn.wire[1 + i - 1]
    BY <1>1, <1>2, SubSeqProperties
  <2> HIDE DEF a
  <2>2. \A i \in 1..p - 1 : i \in 1..(p - 1) - 1 + 1 /\ 1 + i - 1 = i
    BY <1>1
  <2>3. Len(a) = p - 1
    BY <2>1, <1>1
  <2> QED BY <2>1, <2>2, <2>3
<1>4. /\ b \in Seq(0..Chunks) /\ Len(b) = n - p /\ \A i \in 1..n - p : b[i] = conn.wire[p + i]
  <2>1. /\ b \in Seq(0..Chunks) /\ Len(b) = (IF p + 1 <= n THEN n - (p + 1) + 1 ELSE 0)
        /\ \A i \in 1..n - (p + 1) + 1 : b[i] = conn.wire[(p + 1) + i - 1]
    BY <1>1, <1>2, SubSeqProperties
  <2> HIDE DEF b
  <2>2. \A i \in 1..n - p : i \in 1..n - (p + 1) + 1 /\ (p + 1) + i - 1 = p + i
    BY <1>1
  <2>3. Len(b) = n - p
    BY <2>1, <1>1
  <2> QED BY <2>1, <2>2, <2>3
<1> HIDE DEF a, b
<1>5. /\ a \o b \in Seq(0..Chunks) /\ Len(a \o b) = n - 1
      /\ \A m \in 1..n - 1 : (a \o b)[m] = IF m <= p - 1 THEN a[m] ELSE b[m - (p - 1)]
  <2>1. /\ a \o b \in Seq(0..Chunks) /\ Len(a \o b) = Len(a) + Len(b)
        /\ \A m \in 1..Len(a) + Len(b) : (a \o b)[m] = IF m <= Len(a) THEN a[m] ELSE b[m - Len(a)]
    BY <1>3, <1>4, ConcatProperties
  <2>2. (p - 1) + (n - p) = n - 1
    BY <1>1
  <2>3. Len(a) + Len(b) = n - 1
    BY <1>3, <1>4, <2>2, Zenon
  <2> QED BY <2>1, <2>3, <1>3
<1>6. ASSUME NEW m \in 1..n - 1
      PROVE  (a \o b)[m] = IF m < p THEN conn.wire[m] ELSE conn.wire[m + 1]
  <2>1. CASE m < p
    <3>1. m \in 1..p - 1 /\ m <= p - 1
      BY <2>1, <1>1
    <3> QED BY <2>1, <3>1, <1>3, <1>5
  <2>2. CASE ~(m < p)
    <3>1. ~(m <= p - 1) /\ m - (p - 1) \in 1..n - p /\ p + (m - (p - 1)) = m + 1
      BY <2>2, <1>1
    <3>2. b[m - (p - 1)] = conn.wire[p + (m - (p - 1))]
      BY <3>1, <1>4
    <3> QED BY <2>2, <3>1, <3>2, <1>5
  <2> QED BY <2>1, <2>2
<1>7. conn' = [conn EXCEPT !.wire = a \o b, !.replies = nr, !.good = conn.good]
  BY ConnTypes DEF Refuse, a, b, PrefillInv, ConnRec
<1>8. /\ faults \subseteq faults' /\ faults' \subseteq faults \cup {"refused", "bad", "overtook"}
      /\ "refused" \in faults' /\ (p > 1 => "overtook" \in faults') /\ "refused" \in Verdicts
  BY DEF Refuse, Verdicts
<1>9. UNCHANGED <<main, ring, sender, reader, asleep>>
  BY DEF Refuse
<1>10. /\ Len(a \o b) = Len(conn.wire) - 1
       /\ \A m \in 1..Len(a \o b) : (a \o b)[m] = IF m < p THEN conn.wire[m] ELSE conn.wire[m + 1]
  BY <1>5, <1>6
<1>11. conn.good = IF "refused" = "ok" THEN conn.good \cup {conn.wire[p]} ELSE conn.good
  OBVIOUS
<1> QED BY <1>5, <1>7, <1>8, <1>9, <1>10, <1>11, TakeFrame

-----------------------------------------------------------------------------
(* The theorems. *)

LEMMA InitInv == Init => PrefillInv
<1> SUFFICES ASSUME Init PROVE PrefillInv
  OBVIOUS
<1>0. /\ main.pc = "start" /\ main.local = 0 /\ main.submitted = 0 /\ main.reported = 0 /\ main.rc = 0 /\ main.ret = 3
      /\ ring.head = 0 /\ ring.tail = 0 /\ ring.queued = 0 /\ ring.stop = FALSE
      /\ sender.pc = "none" /\ sender.rc = 0 /\ reader.pc = "none" /\ reader.i = 0 /\ reader.rc = 0
      /\ reader.completed = 0 /\ reader.done = FALSE
      /\ conn.up = TRUE /\ conn.peer = TRUE /\ conn.written = <<>> /\ conn.good = {} /\ conn.wire = <<>>
      /\ conn.replies = <<>> /\ faults = {}
  BY DEF Init, Pending
<1>1. Len(conn.written) = 0 /\ Len(conn.wire) = 0 /\ Len(conn.replies) = 0
  BY <1>0, EmptySeq
<1>2. TypeOK
  <2>1. main \in MainRec /\ sender \in SenderRec /\ reader \in ReaderRec
    BY Params DEF Init, MainRec, SenderRec, ReaderRec, MainPcs, Pending
  <2>2. [s \in 0..Slots-1 |-> 0] \in [0..Slots-1 -> 0..Chunks] /\ 0 \in 0..Slots-1 /\ 0 \in 0..Slots
    BY Params
  <2>3. ring \in RingRec
    BY <2>2 DEF Init, RingRec, Torn
  <2>4. <<>> \in Seq(0..Chunks) /\ <<>> \in Seq(Reply)
    BY EmptySeq
  <2>5. conn \in ConnRec
    BY <2>4 DEF Init, ConnRec
  <2>6. asleep \in [Threads -> Waits] /\ faults \subseteq Faults
    BY DEF Init, Threads, Waits
  <2> QED BY <2>1, <2>3, <2>5, <2>6 DEF TypeOK
<1>3. FramesInOrder /\ WireInv /\ ReplyInv /\ LostInv
  BY <1>0, <1>1 DEF FramesInOrder, WireInv, ReplyInv, LostInv, W
<1>4. RingInv
  BY <1>0, <1>1, Params DEF RingInv, W, Slot, SlotOf
<1>5. FlowInv /\ MainInv /\ ThreadInv
  BY <1>0, <1>1, Params DEF FlowInv, MainInv, ThreadInv, W, Pending
<1>6. FaultInv /\ SuccessComplete /\ FaultNamed
  BY <1>0 DEF FaultInv, SuccessComplete, FaultNamed, Broken, Real
<1> QED BY <1>2, <1>3, <1>4, <1>5, <1>6 DEF PrefillInv

\* A step that changes no variable.
LEMMA StutterInv == ASSUME PrefillInv, UNCHANGED vars PROVE PrefillInv'
<1>1. /\ UNCHANGED <<main, ring, sender, reader, conn, asleep, faults>>
  BY DEF vars
<1>2. TypeOK' /\ FramesInOrder' /\ RingInv' /\ FlowInv' /\ MainInv'
  BY <1>1 DEF PrefillInv, TypeOK, FramesInOrder, RingInv, FlowInv, MainInv, W, Slot
<1>3. WireInv' /\ ReplyInv' /\ LostInv' /\ ThreadInv'
  BY <1>1 DEF PrefillInv, WireInv, ReplyInv, LostInv, ThreadInv, W
<1>4. FaultInv' /\ SuccessComplete' /\ FaultNamed'
  BY <1>1 DEF PrefillInv, FaultInv, SuccessComplete, FaultNamed, Broken, Real
<1> QED BY <1>2, <1>3, <1>4 DEF PrefillInv

LEMMA NextInv == ASSUME PrefillInv, [Next]_vars PROVE PrefillInv'
<1>1. CASE Main
  BY <1>1, StartInv, StartFailsInv, StartHalfInv, AbortInv, WaitFlowWindowInv, AcquireSlotInv, EvalLocalInv,
     EvalLocalFailsInv, EnqueueSlotInv, FinishInv, JoinSenderInv, DrainInv, ReturnInv DEF Main
<1>2. CASE Sender
  BY <1>2, PickSlotInv, SendSlotInv, SendFailsInv DEF Sender
<1>3. CASE Reader
  BY <1>3, RecvResultInv, RecvRejectedInv, RecvFailsInv DEF Reader
<1>4. CASE Worker
  BY <1>4, PeerCloseInv, AnswerInv, RefuseInv DEF Worker
<1>5. CASE Returned \/ UNCHANGED vars
  BY <1>5, StutterInv DEF Returned
<1> QED BY <1>1, <1>2, <1>3, <1>4, <1>5 DEF Next

\* Every reachable state of the pipelined prefill satisfies the invariant: what
\* the ring holds, what is in flight, and why each thread stopped.
THEOREM PrefillInvariant == Spec => []PrefillInv
BY InitInv, NextInv, PTL DEF Spec

\* What the invariant says of the transfer.
LEMMA TransferFromInv == PrefillInv => TransferSound
<1> SUFFICES ASSUME PrefillInv PROVE TransferSound
  OBVIOUS
<1>0. Len(conn.wire) \in Nat /\ Len(conn.replies) \in Nat /\ ring.queued \in Nat
  BY RingTypes, ConnTypes DEF PrefillInv
<1>4. ring.queued + Len(conn.wire) + Len(conn.replies) = ring.queued + (Len(conn.wire) + Len(conn.replies))
  <2>1. \A a, b, c \in Nat : a + b + c = a + (b + c)
    OBVIOUS
  <2> QED BY <1>0, <2>1, Zenon
<1> DEFINE t == Len(conn.wire) + Len(conn.replies)
<1>5. t \in Nat
  <2>1. \A a, b \in Nat : a + b \in Nat
    OBVIOUS
  <2> QED BY <1>0, <2>1, Zenon
<1>2. t + reader.i <= W /\ main.submitted <= reader.i + Window /\ main.submitted = ring.queued + W
  BY DEF PrefillInv, FlowInv, RingInv
<1> HIDE DEF t
<1>1. reader.i \in Nat /\ W \in Nat /\ main.submitted \in Nat
  BY WithinSpan, ReaderTypes, MainTypes DEF PrefillInv
<1>3. ring.queued + t <= Window
  BY <1>0, <1>1, <1>2, <1>5, Params
<1>6. ring.queued + Len(conn.wire) + Len(conn.replies) <= Window
  BY <1>3, <1>4 DEF t
<1> QED BY <1>6 DEF TransferSound, InFlightBounded, PrefillInv

\* The transfer is sound for any chunk count, send depth, window and capacity
\* of the route: never more than flow_window chunks are queued, on the wire or
\* unread, and the frames are the chunks, whole and in order, although the
\* sender reads its slot without the lock.
THEOREM TransferSoundHolds == Spec => []TransferSound
BY PrefillInvariant, TransferFromInv, PTL

LEMMA VerdictFromInv == PrefillInv => VerdictHonest
<1> SUFFICES ASSUME PrefillInv PROVE VerdictHonest
  OBVIOUS
<1>1. ReportedDurable
  <2>1. \A k \in 1..main.reported : k \in 1..reader.i
    BY MainTypes, ReaderTypes DEF PrefillInv, MainInv
  <2> QED BY <2>1 DEF PrefillInv, ReplyInv, ReportedDurable
<1>2. ASSUME main.pc = "returned", conn.up
      PROVE  conn.wire = <<>> /\ conn.replies = <<>>
  <2>1. reader.rc = 0 /\ (reader.i = Chunks \/ reader.pc = "none")
    BY <1>2, ReaderTypes DEF PrefillInv, ThreadInv
  <2>2. W <= reader.i /\ W \in Nat /\ reader.i \in Nat
    BY <2>1, WithinSpan, ReaderTypes, MainTypes, Params DEF PrefillInv, ThreadInv
  <2>3. W = Len(conn.wire) + Len(conn.replies) + reader.i
    BY <2>1 DEF PrefillInv, FlowInv
  <2>4. \A a, b, c, d \in Nat : d <= c /\ d = a + b + c => a = 0 /\ b = 0
    OBVIOUS
  <2>5. Len(conn.wire) \in Nat /\ Len(conn.replies) \in Nat
    BY ConnTypes DEF PrefillInv
  <2>6. Len(conn.wire) = 0 /\ Len(conn.replies) = 0
    BY <2>2, <2>3, <2>4, <2>5, Zenon
  <2> QED BY <2>6, ConnTypes, EmptySeq DEF PrefillInv
<1>3. ReturnsClean
  BY <1>2 DEF PrefillInv, ThreadInv, ReturnsClean
<1> QED BY <1>1, <1>3 DEF VerdictHonest, PrefillInv

\* What the caller is told is true, whatever fails and in whatever order the
\* threads notice it: reported progress was evaluated, success means all of it,
\* code 2 means a refusal, code 1 something else, and a connection that is kept
\* carries no frame of this call.
THEOREM VerdictHonestHolds == Spec => []VerdictHonest
BY PrefillInvariant, VerdictFromInv, PTL

-----------------------------------------------------------------------------
(* The prefill implements SpanEval, step by step.  (The contract's fairness  *)
(* is left to model checking.)                                               *)

\* Nothing the contract sees has changed.
LEMMA SpanStutter ==
  ASSUME main'.local = main.local, main'.reported = main.reported, main'.ret = main.ret,
         main'.pc # "returned" <=> main.pc # "returned", reader'.completed = reader.completed
  PROVE  [Span!SpanNext]_(Span!svars)
BY DEF Span!SpanNext, Span!svars

\* Progress is reported, or there is none.
LEMMA SpanReport ==
  ASSUME PrefillInv, main.pc # "returned", main'.pc # "returned", main'.local = main.local,
         main'.reported = reader.completed, reader'.completed = reader.completed
  PROVE  [Span!SpanNext]_(Span!svars)
<1>1. main.reported < reader.completed \/ main.reported = reader.completed
  BY MainTypes, ReaderTypes DEF PrefillInv, FlowInv, MainInv
<1>2. CASE main.reported < reader.completed
  BY <1>2 DEF Span!SpanNext, Span!Report
<1>3. CASE main.reported = reader.completed
  BY <1>3 DEF Span!svars
<1> QED BY <1>1, <1>2, <1>3

\* The call ends with a failure.
LEMMA SpanFail ==
  ASSUME main.pc # "returned", main'.pc = "returned", main'.ret # 0, main'.local = main.local,
         main'.reported = main.reported, reader'.completed = reader.completed
  PROVE  [Span!SpanNext]_(Span!svars)
BY DEF Span!SpanNext, Span!Fail

LEMMA MainSteps ==
  ASSUME PrefillInv, Main PROVE [Span!SpanNext]_(Span!svars)
<1>0. main \in MainRec
  BY DEF PrefillInv, TypeOK
<1>1. CASE Start \/ StartHalf
  BY <1>0, <1>1, SpanStutter DEF Start, StartHalf, MainRec, PrefillInv, TypeOK, ReaderRec
<1>2. CASE StartFails \/ Abort
  <2>1. /\ main.pc # "returned" /\ main'.pc = "returned" /\ main'.ret = 1 /\ main'.local = main.local
        /\ main'.reported = main.reported /\ reader' = reader
    BY <1>0, <1>2 DEF StartFails, Abort, MainRec
  <2>2. main'.ret # 0
    BY <2>1
  <2> QED BY <2>1, <2>2, SpanFail
<1>3. CASE WaitFlowWindow
  <2>1. /\ main.pc # "returned" /\ main'.pc # "returned" /\ main'.local = main.local
        /\ main'.reported = reader.completed /\ reader' = reader
    BY <1>0, <1>3 DEF WaitFlowWindow, MainRec
  <2> QED BY <2>1, SpanReport
<1>4. CASE AcquireSlot \/ EvalLocalFails
  BY <1>0, <1>4, SpanStutter DEF AcquireSlot, EvalLocalFails, MainRec
<1>5. CASE EvalLocal
  <2>1. /\ main.pc = "eval" /\ main'.pc = "enqueue" /\ main'.local = main.local + 1 /\ main'.reported = main.reported
        /\ reader' = reader
    BY <1>0, <1>5 DEF EvalLocal, MainRec
  <2>2. main.local < Chunks
    BY <2>1 DEF PrefillInv, MainInv, FlowInv
  <2> QED BY <2>1, <2>2 DEF Span!SpanNext, Span!EvalChunk
<1>6. CASE EnqueueSlot
  <2>1. CASE ring.stop \/ sender.rc # 0
    BY <1>0, <1>6, <2>1, SpanStutter DEF EnqueueSlot, MainRec
  <2>2. CASE ~(ring.stop \/ sender.rc # 0)
    <3>1. /\ main.pc # "returned" /\ main'.pc # "returned" /\ main'.local = main.local
          /\ main'.reported = reader.completed /\ reader' = reader
      BY <1>0, <1>6, <2>2 DEF EnqueueSlot, MainRec
    <3> QED BY <3>1, SpanReport
  <2> QED BY <2>1, <2>2
<1>7. CASE Finish \/ JoinSender
  <2>1. /\ main'.local = main.local /\ main'.reported = main.reported /\ main'.ret = main.ret
        /\ main.pc # "returned" /\ main'.pc # "returned" /\ reader' = reader
    BY <1>0, <1>7 DEF Finish, JoinSender, MainRec
  <2> QED BY <2>1, SpanStutter
<1>8. CASE Drain
  <2>1. CASE UNCHANGED main
    BY <1>8, <2>1, SpanStutter DEF Drain
  <2>2. CASE ~UNCHANGED main
    <3>1. /\ main.pc # "returned" /\ main'.pc # "returned" /\ main'.local = main.local
          /\ main'.reported = reader.completed /\ reader' = reader
      BY <1>0, <1>8, <2>2 DEF Drain, MainRec
    <3> QED BY <3>1, SpanReport
  <2> QED BY <2>1, <2>2
<1>9. CASE Return
  <2>1. /\ main.pc = "joinReader" /\ main'.pc = "returned" /\ main'.local = main.local
        /\ main'.reported = main.reported /\ reader' = reader /\ reader.pc = "gone"
        /\ main'.ret = 0 => reader.rc = 0 /\ main.rc = 0
    BY <1>0, <1>9 DEF Return, MainRec
  <2>2. CASE main'.ret # 0
    BY <2>1, <2>2, SpanFail
  <2>3. CASE main'.ret = 0
    <3>1. reader.i = Chunks /\ main.reported = reader.i /\ reader.completed = reader.i
      BY <2>1, <2>3 DEF PrefillInv, ThreadInv, FlowInv
    <3> QED BY <2>1, <2>3, <3>1 DEF Span!SpanNext, Span!Succeed
  <2> QED BY <2>2, <2>3
<1> QED BY <1>1, <1>2, <1>3, <1>4, <1>5, <1>6, <1>7, <1>8, <1>9 DEF Main, PrefillInv

LEMMA OtherSteps ==
  ASSUME PrefillInv, Sender \/ Reader \/ Worker \/ UNCHANGED vars PROVE [Span!SpanNext]_(Span!svars)
<1>0. reader \in ReaderRec
  BY DEF PrefillInv, TypeOK
<1>1. CASE RecvResult
  <2>1. /\ main' = main /\ reader'.completed = reader.i + 1 /\ reader.completed = reader.i /\ reader.pc = "recv"
        /\ conn.replies # <<>>
    BY <1>0, <1>1 DEF RecvResult, ReaderRec, PrefillInv, FlowInv
  <2>2. main.pc # "returned"
    BY <2>1 DEF PrefillInv, ThreadInv
  <2>3. /\ Len(conn.wire) \in Nat /\ Len(conn.replies) \in Nat /\ Len(conn.replies) > 0 /\ reader.i \in Nat
        /\ W \in Nat /\ main.local \in Nat /\ main.submitted \in Nat
    BY <2>1, ConnTypes, ReaderTypes, MainTypes, EmptySeq, WithinSpan DEF PrefillInv
  <2>4. Len(conn.wire) + Len(conn.replies) + reader.i <= W
    BY DEF PrefillInv, FlowInv
  <2>5. \A a, b, c, d \in Nat : b > 0 /\ a + b + c <= d => c < d
    OBVIOUS
  <2>6. reader.i < W
    BY <2>3, <2>4, <2>5, Zenon
  <2>7. W <= main.submitted /\ main.submitted <= main.local
    BY WithinSpan DEF PrefillInv, MainInv
  <2>8. reader.completed < main.local
    BY <2>1, <2>3, <2>6, <2>7
  <2> QED BY <2>1, <2>2, <2>8 DEF Span!SpanNext, Span!Acknowledge
<1>2. CASE PickSlot \/ SendSlot \/ SendFails \/ Worker \/ UNCHANGED vars
  BY <1>2, SpanStutter DEF PickSlot, SendSlot, SendFails, Worker, PeerClose, Answer, Refuse, vars
<1>3. CASE RecvRejected \/ RecvFails
  BY <1>0, <1>3, SpanStutter DEF RecvRejected, RecvFails, Stop, ReaderRec
<1> QED BY <1>1, <1>2, <1>3 DEF Sender, Reader

\* Every behaviour of the three threads starts as SpanEval starts and takes only
\* its steps: the local evaluation runs ahead, results are acknowledged in
\* order, only acknowledged chunks are reported, and the call succeeds only
\* when all three agree.
THEOREM PrefillImplementsSpan == Spec => Span!SpanInit /\ [][Span!SpanNext]_(Span!svars)
<1>1. Init => Span!SpanInit
  BY DEF Init, Span!SpanInit, Pending
<1>2. PrefillInv /\ [Next]_vars => [Span!SpanNext]_(Span!svars)
  BY MainSteps, OtherSteps DEF Next, Returned
<1> QED BY <1>1, <1>2, PrefillInvariant, PTL DEF Spec
=============================================================================
