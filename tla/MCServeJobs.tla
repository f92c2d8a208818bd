----------------------------- MODULE MCServeJobs -----------------------------
(* Small instances of the job life cycle for TLC. *)
EXTENDS ServeJobs, TLC

\* Connections are interchangeable.
ConnSymmetry == Permutations(Conns)
=============================================================================
