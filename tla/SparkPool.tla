----------------------------- MODULE SparkPool -----------------------------
(***************************************************************************)
(* The spark pools of the capabilities (rts/Sparks.c, findSpark of         *)
(* rts/Capability.c): creating sparks with `par', turning them into work,  *)
(* stealing them from other capabilities, and pruning them after a garbage *)
(* collection, with the counters the RTS keeps about all of this.          *)
(*                                                                         *)
(* A pool is the work-stealing deque.  WSDeque.tla shows that its          *)
(* operations are atomic, so a push or a steal is one step here, and a     *)
(* steal may come back empty-handed; but pruneSparkQueue works on the      *)
(* deque's indices and array directly, so those are kept.                  *)
(***************************************************************************)
EXTENDS Integers, Sequences, SequencesExt, FiniteSetsExt

CONSTANTS
    NCaps,          \* number of capabilities, numbered from 0
    Size,           \* size of a pool's array, a power of two
    Closures,       \* closures that programs spark
    Static,         \* those of them that are static closures (CAFs)
    NoClosure,      \* NULL
    MaxSparks,      \* bound: calls of newSpark
    FullPoolAtGC    \* may a collection find a pool filled to the last slot?

ASSUME SparkPoolAssumption ==
    /\ NCaps \in Nat \ {0}
    /\ Size \in Nat \ {0}
    /\ Static \subseteq Closures
    /\ NoClosure \notin Closures
    /\ MaxSparks \in Nat
    /\ FullPoolAtGC \in BOOLEAN

Caps == 0..(NCaps - 1)

VARIABLES
    pool,       \* cap -> the deque: [top, bottom, elements]
    stats,      \* cap -> the SparkCounters
    evaluated,  \* closures that are values by now
    pc,         \* cap -> where its owner is in findSpark
    victim,     \* cap -> i, the capability findSpark is looking at
    spark,      \* cap -> the spark findSpark has just obtained
    retry,      \* cap -> the retry flag of findSpark
    calls       \* number of calls of newSpark so far

vars == <<pool, stats, evaluated, pc, victim, spark, retry, calls>>
find == <<pc, victim, spark, retry>>

\* sparkPoolSize, looksEmpty, and the sparks in a pool, oldest first
SparkPoolSize(q) == IF q.bottom > q.top THEN q.bottom - q.top ELSE 0

EmptySparkPool(q) == SparkPoolSize(q) = 0

Sparks(q) == [k \in 1..SparkPoolSize(q) |-> q.elements[(q.top + k - 1) % Size]]

\* fizzledSpark: the closure is a value, evaluating it is pointless
Fizzled(p) == p \in evaluated

Init ==
    /\ pool = [c \in Caps |-> [top |-> 0, bottom |-> 0,
                               elements |-> [i \in 0..(Size - 1) |-> NoClosure]]]
    /\ stats = [c \in Caps |-> [created |-> 0, dud |-> 0, overflowed |-> 0,
                                converted |-> 0, gcd |-> 0, fizzled |-> 0]]
    /\ evaluated = {}
    /\ pc = [c \in Caps |-> "idle"]
    /\ victim = [c \in Caps |-> 0]
    /\ spark = [c \in Caps |-> NoClosure]
    /\ retry = [c \in Caps |-> FALSE]
    /\ calls = 0

----------------------------------------------------------------------------
(* Mutators                                                                *)

\* Some thread evaluates a closure; a spark for it is useless from now on.
Evaluate(p) ==
    /\ p \notin evaluated
    /\ evaluated' = evaluated \cup {p}
    /\ UNCHANGED <<pool, stats, find, calls>>

Count(c, counter) == stats' = [stats EXCEPT ![c][counter] = @ + 1]

\* newSpark with pushWSDeque
NewSpark(c, p) ==
    LET q == pool[c]
        full == q.bottom - q.top > Size - 1
    IN  /\ pc[c] = "idle"
        /\ calls < MaxSparks
        /\ calls' = calls + 1
        /\ \/ /\ Fizzled(p)
              /\ Count(c, "dud")
              /\ UNCHANGED pool
           \/ /\ ~Fizzled(p) /\ full
              /\ Count(c, "overflowed")
              /\ UNCHANGED pool
           \/ /\ ~Fizzled(p) /\ ~full
              /\ pool' = [pool EXCEPT ![c].elements[q.bottom % Size] = p,
                                      ![c].bottom = @ + 1]
              /\ Count(c, "created")
        /\ UNCHANGED <<evaluated, find>>

----------------------------------------------------------------------------
(* findSpark, called by the owner of capability c when it has nothing else *)
(* to do                                                                   *)

\* findSpark returns; its locals are gone
FindReturns(c) ==
    /\ pc' = [pc EXCEPT ![c] = "idle"]
    /\ victim' = [victim EXCEPT ![c] = 0]
    /\ retry' = [retry EXCEPT ![c] = FALSE]

\* first try to get a spark from our own pool
FindStart(c) ==
    /\ pc[c] = "idle"
    /\ pc' = [pc EXCEPT ![c] = "steal"]
    /\ victim' = [victim EXCEPT ![c] = c]
    /\ retry' = [retry EXCEPT ![c] = FALSE]
    /\ UNCHANGED <<pool, stats, evaluated, spark, calls>>

\* tryStealSpark on the victim's pool
TrySteal(c) ==
    LET q == pool[victim[c]]
    IN  /\ pc[c] = "steal"
        /\ ~EmptySparkPool(q)
        /\ spark' = [spark EXCEPT ![c] = q.elements[q.top % Size]]
        /\ pool' = [pool EXCEPT ![victim[c]].top = @ + 1]
        /\ pc' = [pc EXCEPT ![c] = "judge"]
        /\ UNCHANGED <<stats, evaluated, victim, retry, calls>>

\* ... or NULL: the pool was empty, or another thief got in the way
MissSteal(c) ==
    /\ pc[c] = "steal"
    /\ pc' = [pc EXCEPT ![c] = "missed"]
    /\ UNCHANGED <<pool, stats, evaluated, victim, spark, retry, calls>>

JudgeUncounted(c) ==    \* mutant: a stolen fizzled spark is not counted
    /\ pc[c] = "judge"
    /\ IF Fizzled(spark[c])
       THEN pc' = [pc EXCEPT ![c] = "steal"] /\ UNCHANGED <<stats, victim, retry>>
       ELSE Count(c, "converted") /\ FindReturns(c)
    /\ spark' = [spark EXCEPT ![c] = NoClosure]
    /\ UNCHANGED <<pool, evaluated, calls>>

\* A fizzled spark is counted and the same pool is tried again; any other is
\* the one findSpark returns.
Judge(c) ==
    /\ pc[c] = "judge"
    /\ IF Fizzled(spark[c])
       THEN /\ Count(c, "fizzled")
            /\ pc' = [pc EXCEPT ![c] = "steal"]
            /\ UNCHANGED <<victim, retry>>
       ELSE /\ Count(c, "converted")
            /\ FindReturns(c)
    /\ spark' = [spark EXCEPT ![c] = NoClosure]
    /\ UNCHANGED <<pool, evaluated, calls>>

\* the first capability from i on that is not c itself
NextVictim(c, i) == IF i = c THEN i + 1 ELSE i

\* The pool that gave nothing does not look empty: there was a conflict, come
\* back later.  Then the others, from capability 0 on; with a single
\* capability findSpark gives up.
Missed(c) ==
    LET again == retry[c] \/ ~EmptySparkPool(pool[victim[c]])
        next  == NextVictim(c, IF victim[c] = c THEN 0 ELSE victim[c] + 1)
    IN  /\ pc[c] = "missed"
        /\ IF NCaps = 1
           THEN FindReturns(c)
           ELSE /\ retry' = [retry EXCEPT ![c] = again]
                /\ victim' = [victim EXCEPT ![c] = next]
                /\ pc' = [pc EXCEPT ![c] = "visit"]
        /\ UNCHANGED <<pool, stats, evaluated, spark, calls>>

\* emptySparkPoolCap(robbed): nothing to steal here; else try.
Visit(c) ==
    /\ pc[c] = "visit"
    /\ victim[c] < NCaps
    /\ IF EmptySparkPool(pool[victim[c]])
       THEN /\ victim' = [victim EXCEPT ![c] = NextVictim(c, @ + 1)]
            /\ UNCHANGED pc
       ELSE /\ pc' = [pc EXCEPT ![c] = "steal"]
            /\ UNCHANGED victim
    /\ UNCHANGED <<pool, stats, evaluated, spark, retry, calls>>

\* while (retry)
SweepDone(c) ==
    /\ pc[c] = "visit"
    /\ victim[c] >= NCaps
    /\ IF retry[c]
       THEN /\ pc' = [pc EXCEPT ![c] = "steal"]
            /\ victim' = [victim EXCEPT ![c] = c]
            /\ retry' = [retry EXCEPT ![c] = FALSE]
       ELSE FindReturns(c)
    /\ UNCHANGED <<pool, stats, evaluated, spark, calls>>

----------------------------------------------------------------------------
(* pruneSparkQueue, after a collection, with every capability stopped      *)

\* What the collector has found out about a spark: keep it, or count it out.
\* `alive' are the heap closures that survived; a static closure is kept as
\* long as it is a thunk (THUNK_STATIC).
Verdict(p, alive) ==
    IF p \in Static
    THEN IF Fizzled(p) THEN "fizzled" ELSE "keep"
    ELSE IF p \notin alive THEN "gcd"
         ELSE IF Fizzled(p) THEN "fizzled" ELSE "keep"

\* The loop over the pool.  It runs from index currInd up to oldBotInd,
\* wrapping around at the end of the array, and moves what is kept to the
\* slots from oldBotInd on.
PruneLoop(q, alive) ==
    LET currInd   == q.top % Size
        oldBotInd == q.bottom % Size
        rounds    == (oldBotInd - currInd + Size) % Size    \* while (currInd != oldBotInd)
        step(acc, k) ==
            LET p == acc.elements[(currInd + k) % Size]
                v == Verdict(p, alive)
            IN  IF v = "keep"
                THEN [acc EXCEPT !.elements[acc.botInd] = p,
                                 !.botInd = (@ + 1) % Size]
                ELSE [acc EXCEPT ![v] = @ + 1]
    IN  FoldLeft(step,
                 [elements |-> q.elements, botInd |-> oldBotInd, fizzled |-> 0, gcd |-> 0],
                 [k \in 1..rounds |-> k - 1])

\* top and bottom are first reset modulo the size, and after the loop the
\* kept sparks are those from oldBotInd to botInd.
Reset(q) ==
    LET t == IF q.top > q.bottom THEN q.bottom ELSE q.top
    IN  [q EXCEPT !.bottom = @ - (t - (t % Size)), !.top = t % Size]

PrunedNoWrap(q, alive) ==      \* mutant: bottom is not corrected for wrap-around
    LET old    == Reset(q)
        done   == PruneLoop(old, alive)
    IN  [top |-> old.bottom % Size, bottom |-> done.botInd, elements |-> done.elements]

Pruned(q, alive) ==
    LET old    == Reset(q)
        done   == PruneLoop(old, alive)
        oldBot == old.bottom % Size
    IN  [top      |-> oldBot,
         bottom   |-> IF oldBot <= done.botInd THEN done.botInd ELSE done.botInd + Size,
         elements |-> done.elements]

AllStopped == \A c \in Caps : pc[c] = "idle"

IsFull(q) == q.bottom - q.top = Size

\* A garbage collection that keeps the heap closures `alive'.
CollectGarbage(alive) ==
    /\ AllStopped
    /\ FullPoolAtGC \/ \A c \in Caps : ~IsFull(pool[c])
    /\ pool' = [c \in Caps |-> Pruned(pool[c], alive)]
    /\ stats' = [c \in Caps |->
                   LET done == PruneLoop(Reset(pool[c]), alive)
                   IN  [stats[c] EXCEPT !.fizzled = @ + done.fizzled, !.gcd = @ + done.gcd]]
    /\ UNCHANGED <<evaluated, find, calls>>

\* scheduleDoGC when the program is being interrupted: drop all sparks.
DiscardSparks ==
    /\ AllStopped
    /\ stats' = [c \in Caps |-> [stats[c] EXCEPT !.gcd = @ + SparkPoolSize(pool[c])]]
    /\ pool' = [c \in Caps |-> [pool[c] EXCEPT !.top = pool[c].bottom]]
    /\ UNCHANGED <<evaluated, find, calls>>

----------------------------------------------------------------------------
FindStep(c) ==
    \/ TrySteal(c) \/ MissSteal(c) \/ Judge(c)
    \/ Missed(c) \/ Visit(c) \/ SweepDone(c)

Next ==
    \/ \E p \in Closures : Evaluate(p)
    \/ \E c \in Caps : FindStart(c) \/ FindStep(c)
    \/ \E c \in Caps, p \in Closures : NewSpark(c, p)
    \/ \E alive \in SUBSET (Closures \ Static) : CollectGarbage(alive)
    \/ DiscardSparks

Spec == Init /\ [][Next]_vars

----------------------------------------------------------------------------
(* Properties                                                              *)

Counters == {"created", "dud", "overflowed", "converted", "gcd", "fizzled"}

Total(counter) == MapThenSumSet(LAMBDA c : stats[c][counter], Caps)

Remaining == MapThenSumSet(LAMBDA c : SparkPoolSize(pool[c]), Caps)

\* checkSparkCountInvariant: "created = converted + remaining + gcd + fizzled",
\* asserted whenever all capabilities are stopped (scheduleDoGC,
\* shutdownCapabilities): no spark disappears without being counted and none is
\* counted twice, however creation, stealing and pruning interleave.
SparkCountInvariant ==
    AllStopped =>
        Total("created") = Total("converted") + Remaining + Total("gcd") + Total("fizzled")

\* The sparks of s that are worth keeping, in their order
Worthwhile(s, alive) ==
    LET keep(kept, p) == IF Verdict(p, alive) = "keep" THEN Append(kept, p) ELSE kept
    IN  FoldLeft(keep, <<>>, s)

\* After a collection a pool holds exactly the sparks still worth running, in
\* the order they had, although pruneSparkQueue moves them around inside the
\* same circular array.
PruneKeepsWorthwhile ==
    [][\A alive \in SUBSET (Closures \ Static) :
         CollectGarbage(alive) =>
           \A c \in Caps :
             ~IsFull(pool[c]) => Sparks(pool'[c]) = Worthwhile(Sparks(pool[c]), alive)]_vars
============================================================================
