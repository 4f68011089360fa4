---------------------------- MODULE MCBlackHole ----------------------------
(* BlackHole on two capabilities: t1 on one, t2 and t3 on the other.                     *)
EXTENDS BlackHole, TLC

CONSTANTS c1, c2, t1, t2, t3

MCStart == [t \in Threads |-> IF t = t1 THEN c1 ELSE c2]

\* Thunk 2 evaluates thunk 1.
MCNeeds == << <<>>, <<1>> >>
MCWants == [t \in Threads |-> IF t = t3 THEN <<1>> ELSE <<2>>]
============================================================================
