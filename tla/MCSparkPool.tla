---------------------------- MODULE MCSparkPool ----------------------------
(* The spark pools for TLC: one heap closure, one static one.              *)
EXTENDS SparkPool

CONSTANTS heap1, static1

MCClosures == {heap1, static1}
MCStatic == {static1}

\* What of a state the properties and the later behaviour depend on: the slots
\* outside a pool's window, the multiples of Size in its indices and how the
\* counters add up to the same balance do not matter.
View ==
    <<[c \in Caps |-> <<pool[c].top % Size, pool[c].bottom - pool[c].top, Sparks(pool[c])>>],
      Total("created") - (Total("converted") + Total("gcd") + Total("fizzled")),
      evaluated, pc, victim, spark, retry, calls>>
============================================================================
