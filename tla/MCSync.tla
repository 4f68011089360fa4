------------------------------- MODULE MCSync -------------------------------
(* Sync for TLC.                                                           *)
EXTENDS Sync

CONSTANTS p1, marker
============================================================================
