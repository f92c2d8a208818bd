--------------------------- MODULE MCContRegistry ---------------------------
(* Small instances of the continuation registry for TLC.                   *)
EXTENDS ContRegistry, TLC

CONSTANTS a, b

\* Every turn republishes the same id.
OneIdList == {<<a>>}

\* Two ids, so that a turn can republish one of them alone or in a pair.
PairIdLists == {<<a>>, <<b, a>>}

\* Leases are only ever compared with one another.
LeaseSymmetry == Permutations(Leases)
=============================================================================
