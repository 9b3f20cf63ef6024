------------------------------ MODULE MCConnector ------------------------------
(* Small instances of Connector. *)
EXTENDS Connector

CONSTANTS r1, r2

MCRooms == {r1, r2}
MCFirst == {r1}
MCSecond == {r2}
=============================================================================
