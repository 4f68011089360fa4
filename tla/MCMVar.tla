------------------------------- MODULE MCMVar -------------------------------
(* MVars for TLC: two capabilities, three threads.                         *)
EXTENDS MVar

CONSTANTS c1, c2, t1, t2, t3, v0, v1

MCHome == [t \in Threads |-> IF t = t1 THEN c1 ELSE c2]
============================================================================
