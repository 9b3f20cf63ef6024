-------------------------- MODULE MCInferenceQueue --------------------------
(* Small instances of InferenceQueue. *)
EXTENDS InferenceQueue, TLC

CONSTANTS c1, c2, c3, c4, g1, g2, g3

MCChat == {c1, c2, c3, c4}
MCNoChat == {}
MCGenerate == {g1, g2}
MCThreeGenerate == {g1, g2, g3}
MCSymmetry == Permutations(MCChat) \cup Permutations(MCGenerate)
=============================================================================
