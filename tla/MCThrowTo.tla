----------------------------- MODULE MCThrowTo -----------------------------
(* ThrowTo on two capabilities: t1 on one, t2 and t3 on the other.  Every thread throws; *)
(* t1 and t2 handle exceptions and block, t2 masks them, t3 migrates, and dies.          *)
EXTENDS ThrowTo, TLC

CONSTANTS c1, c2, t1, t2, t3

MCStart == [t \in Threads |-> IF t = t1 THEN c1 ELSE c2]

MCDoes == [t \in Threads |->
             CASE t = t1 -> {"throw", "catch", "BlockedOnBlackHole"}
               [] t = t2 -> {"throw", "catch", "mask", "uninterruptible", "BlockedOnMVar",
                             "BlockedOnCCall"}
               [] t = t3 -> {"throw", "kill_self", "push", "migrate", "finish"}]
============================================================================
