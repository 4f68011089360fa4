------------------------------- MODULE MCSTM -------------------------------
(* The STM for TLC: two threads with different programs, two TVars, two    *)
(* values.                                                                 *)
EXTENDS STM

CONSTANTS t1, t2, x, y, v0, v1

Does(r, w, how) == [reads |-> r, writes |-> w, ends |-> how]

Both == {x, y}

TwoThreads == {t1, t2}
TwoValues == {v0, v1}

\* A thread that reads both TVars and writes x, and commits, waits for a change or is
\* killed; and one that reads x and writes either or both: it can put a value back, and
\* the two can each read what the other one writes.
ReadWrite == [t \in TwoThreads |->
                IF t = t1 THEN Does(Both, {x}, {"commit", "wait", "throw"})
                ELSE Does({x}, Both, {"commit"})]

\* A thread that waits for a change or is killed, and one that makes changes.
WaitWake == [t \in TwoThreads |->
               IF t = t1 THEN Does(Both, {}, {"wait", "throw"})
               ELSE Does({}, Both, {"commit", "throw"})]
============================================================================
