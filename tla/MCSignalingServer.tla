-------------------------- MODULE MCSignalingServer --------------------------
(* Small instances of SignalingServer. *)
EXTENDS SignalingServer, TLC

CONSTANTS s1, s2, s3, s4, n1, n2, r1, r2, r3

MCConns == {s1, s2, s3}
MCConns4 == {s1, s2, s3, s4}
MCNames == {n1, n2}
MCRooms == {r1, r2}
MCRooms3 == {r1, r2, r3}
MCSymmetry ==
    Permutations(MCConns4) \cup Permutations(MCNames) \cup Permutations(MCRooms3)
=============================================================================
