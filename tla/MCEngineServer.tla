---------------------------- MODULE MCEngineServer ----------------------------
(* Small instances of EngineServer. *)
EXTENDS EngineServer, TLC

CONSTANTS m1, m2, m3, c1, c2, c3, g1, g2, e1

MCModels == {m1, m2}
MCModels3 == {m1, m2, m3}
MCChat == {c1, c2}
MCChat3 == {c1, c2, c3}
MCGenerate == {g1}
MCGenerate2 == {g1, g2}
MCEmbed == {e1}
MCSymmetry ==
    Permutations(MCModels3) \cup Permutations(MCChat) \cup Permutations(MCGenerate2)
=============================================================================
