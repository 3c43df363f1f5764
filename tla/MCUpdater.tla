------------------------------ MODULE MCUpdater ------------------------------
(* Downloads as model values: which slot a call takes makes no difference. *)
EXTENDS Updater

CONSTANTS d1, d2, d3

Interchangeable == Permutations(Slots)
=============================================================================
