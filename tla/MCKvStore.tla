----------------------------- MODULE MCKvStore -----------------------------
(* Two processes of different context sizes on a text and its extension, *)
(* which do not fit the budget together.                                 *)
EXTENDS KvStore

MCCtx == [p \in {1, 2} |-> p]
MCTexts == {<<1>>, <<1, 2>>}
=============================================================================
