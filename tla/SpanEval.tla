------------------------------ MODULE SpanEval ------------------------------
(***************************************************************************)
(* What a distributed session relies on when it evaluates a span of tokens *)
(* in chunks, pipelined (DistPrefill) or not.  The coordinator's own KV    *)
(* runs ahead of what the workers acknowledged; only acknowledged chunks   *)
(* are reported; success means all three agree.  After a failure the local *)
(* KV may hold any number of chunks the workers never evaluated.           *)
(***************************************************************************)
EXTENDS Naturals

CONSTANT Chunks

VARIABLES
  local,      \* chunks in the coordinator's own session
  acked,      \* chunks the workers acknowledged
  reported,   \* chunks reported to the caller
  outcome     \* "running", "ok" or "failed"

svars == <<local, acked, reported, outcome>>

SpanInit == local = 0 /\ acked = 0 /\ reported = 0 /\ outcome = "running"

EvalChunk ==
  /\ outcome = "running" /\ local < Chunks
  /\ local' = local + 1
  /\ UNCHANGED <<acked, reported, outcome>>

Acknowledge ==
  /\ outcome = "running" /\ acked < local
  /\ acked' = acked + 1
  /\ UNCHANGED <<local, reported, outcome>>

Report ==
  /\ outcome = "running" /\ reported < acked
  /\ reported' = acked
  /\ UNCHANGED <<local, acked, outcome>>

Succeed ==
  /\ outcome = "running" /\ acked = Chunks /\ reported = Chunks
  /\ outcome' = "ok"
  /\ UNCHANGED <<local, acked, reported>>

Fail ==
  /\ outcome = "running"
  /\ outcome' = "failed"
  /\ UNCHANGED <<local, acked, reported>>

SpanNext == EvalChunk \/ Acknowledge \/ Report \/ Succeed \/ Fail

SpanSpec == SpanInit /\ [][SpanNext]_svars /\ WF_svars(SpanNext)
=============================================================================
