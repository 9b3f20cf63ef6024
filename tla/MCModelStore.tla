----------------------------- MODULE MCModelStore -----------------------------
(* Small instances of ModelStore. *)
EXTENDS ModelStore

CONSTANTS plain, slashed, dashed, f1, a1, c1

MCNames == {plain, slashed}
MCDir == [n \in MCNames |-> IF n = slashed THEN dashed ELSE n]
\* A repository with two .litertlm files and one of another kind between them,
\* and one without any.
MCSiblings ==
    [n \in MCNames |-> IF n = slashed THEN <<"other", "litertlm", "bin", "litertlm">>
                                     ELSE <<"other">>]
MCModelfiles == {f1}
MCApiPulls == {a1}
MCCliPulls == {c1}
=============================================================================
