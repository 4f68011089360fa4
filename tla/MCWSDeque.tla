----------------------------- MODULE MCWSDeque -----------------------------
(* The work-stealing deque for TLC.                                        *)
EXTENDS WSDeque, TLC

CONSTANTS p1, p2

MCThieves == {p1, p2}
============================================================================
