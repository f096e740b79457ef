--------------------------- MODULE MCTrampolineR ---------------------------
(* TrampolineR, and Callback on top of it, for TLC.                        *)
EXTENDS Callback_proofs, TLC

Symmetry == Permutations(Threads)

(* The data words of a callback: the client's function and its data.       *)
MCDatas == {<<"function", "data">>}
=============================================================================
