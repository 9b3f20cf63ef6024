----------------------------- MODULE MCInferStreams -----------------------------
(* Small instances of InferStreams. *)
EXTENDS InferStreams

CONSTANTS p1, p2, j1

MCPython == {p1}
MCPython2 == {p1, p2}
MCJs == {j1}
=============================================================================
