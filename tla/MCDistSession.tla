--------------------------- MODULE MCDistSession ---------------------------
(* A small instance of DistSession: a prompt of two tokens and two of one, one of them its prefix. *)
EXTENDS DistSession

MCPrompts == {<<1, 2>>, <<2>>, <<1>>}
=============================================================================
