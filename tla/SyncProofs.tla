----------------------------- MODULE SyncProofs -----------------------------
(* The mark thread misses nothing, for any number of capabilities and of   *)
(* threads that call rts_pause.                                            *)
EXTENDS Sync, TLAPS

\* Where a task owns the whole world: between the end of acquireAllCapabilities and
\* the beginning of releaseAllCapabilities
Owns == {"signal", "collect", "start_mark", "flush", "final_mark", "finish", "paused"}

\* Where a task that runs Haskell code, or has come from it, owns its capability
Home == {"run", "request", "read_type", "give_way", "release"}

World ==
    /\ DOMAIN owner = Caps /\ pc = [t \in Tasks |-> pc[t]]
    /\ \A t \in Tasks : pc[t] \in Owns => \A c \in Caps : owner[c] = t
    /\ \A c \in Caps : pc[c] \in Home => owner[c] = c
    /\ \A c \in Caps : pc[c] \notin {"lock", "test", "sleep"}

SleepersAsleep == \A t \in sleepers : t \in Others /\ pc[t] = "asleep"

\* The concurrent mark, and all that follows until the final mark is through or out of
\* budget
Marking == {"mark", "request", "read_type", "lock", "test", "sleep", "asleep", "acquire",
            "signal", "flush", "final_mark", "finish"}

Barrier ==
    /\ pc[Marker] \in Marking \cup {"release", "sweep", "start"}
    /\ pc[Marker] # "start" => mark_running
    /\ pc[Marker] \in Marking \/ (pc[Marker] = "start" /\ mark_running) => barrier

Flushed ==
    /\ pc[Marker] \in {"final_mark", "finish"} => upd_rem_set = {}
    /\ pc[Marker] = "finish" => ~block_list

OneMark == \A c \in Caps : pc[c] = "start_mark" => ~mark_running

IInv == World /\ SleepersAsleep /\ Barrier /\ Flushed /\ OneMark

----------------------------------------------------------------------------
LEMMA Distinct ==
    /\ Marker \in Tasks /\ Marker \in Others /\ Marker \notin Caps /\ Marker \notin Pausers
    /\ Caps \subseteq Tasks /\ Others \subseteq Tasks /\ Pausers \subseteq Tasks
    /\ Caps \cap Others = {} /\ Caps \cap Pausers = {}
    /\ NoTask \notin Tasks
BY SyncAssumption DEF Tasks, Others

\* Nobody disturbs who owns the world as long as he takes only what is free, gives up
\* only what is his, and goes where his capabilities allow.
LEMMA WorldKeeps ==
    ASSUME World, NEW t \in Tasks, NEW l,
           pc' = [pc EXCEPT ![t] = l],
           DOMAIN owner' = Caps,
           \A c \in Caps : owner'[c] # owner[c] => owner[c] \in {NoTask, t},
           l \in Owns => \A c \in Caps : owner'[c] = t,
           t \in Caps => (l \in Home => owner'[t] = t) /\ l \notin {"lock", "test", "sleep"}
    PROVE  World'
<1>1. /\ pc' = [u \in Tasks |-> pc'[u]]
      /\ \A u \in Tasks : pc'[u] = IF u = t THEN l ELSE pc[u]
  BY DEF World
<1>2. ASSUME NEW u \in Tasks, pc'[u] \in Owns, NEW c \in Caps PROVE owner'[c] = u
  <2>1. CASE u = t  BY <1>1, <1>2, <2>1
  <2>2. CASE u # t
    <3>1. owner[c] = u  BY <1>1, <1>2, <2>2 DEF World
    <3> QED  BY <3>1, <2>2, Distinct
  <2> QED  BY <2>1, <2>2
<1>3. ASSUME NEW c \in Caps, pc'[c] \in Home PROVE owner'[c] = c
  <2>1. CASE c = t  BY <1>1, <1>3, <2>1
  <2>2. CASE c # t
    <3>1. owner[c] = c  BY <1>1, <1>3, <2>2, Distinct DEF World
    <3> QED  BY <3>1, <2>2, Distinct
  <2> QED  BY <2>1, <2>2
<1>4. \A c \in Caps : pc'[c] \notin {"lock", "test", "sleep"}
  BY <1>1, Distinct DEF World
<1> QED  BY <1>1, <1>2, <1>3, <1>4 DEF World

\* What the mark thread relies on stays as long as nobody touches it.
LEMMA MarkingKeeps ==
    ASSUME IInv, NEW t \in Tasks, NEW l,
           pc' = [pc EXCEPT ![t] = l],
           UNCHANGED <<sleepers, mark_running, barrier, upd_rem_set, block_list>>,
           pc[t] # "asleep",
           t \in Caps /\ l = "start_mark" => ~mark_running,
           t = Marker => /\ l \in Marking \cup {"release", "sweep"}
                         /\ l \notin {"final_mark", "finish"}
                         /\ mark_running
                         /\ l \in Marking => barrier
    PROVE  (SleepersAsleep /\ Barrier /\ Flushed /\ OneMark)'
<1>1. \A u \in Tasks : pc'[u] = IF u = t THEN l ELSE pc[u]
  BY DEF IInv, World
<1>2. SleepersAsleep'  BY <1>1, Distinct DEF IInv, SleepersAsleep
<1>3. Barrier'
  <2>1. CASE t = Marker  BY <1>1, <2>1 DEF Barrier
  <2>2. CASE t # Marker  BY <1>1, <2>2, Distinct DEF IInv, Barrier
  <2> QED  BY <2>1, <2>2
<1>4. Flushed'
  <2>1. CASE t = Marker  BY <1>1, <2>1 DEF Flushed
  <2>2. CASE t # Marker  BY <1>1, <2>2, Distinct DEF IInv, Flushed
  <2> QED  BY <2>1, <2>2
<1>5. OneMark'  BY <1>1, Distinct DEF IInv, OneMark
<1> QED  BY <1>2, <1>3, <1>4, <1>5

\* Most steps are of this kind.
LEMMA StepKeeps ==
    ASSUME IInv, NEW t \in Tasks, NEW l,
           pc' = [pc EXCEPT ![t] = l],
           DOMAIN owner' = Caps,
           \A c \in Caps : owner'[c] # owner[c] => owner[c] \in {NoTask, t},
           l \in Owns => \A c \in Caps : owner'[c] = t,
           t \in Caps => (l \in Home => owner'[t] = t) /\ l \notin {"lock", "test", "sleep"},
           UNCHANGED <<sleepers, mark_running, barrier, upd_rem_set, block_list>>,
           pc[t] # "asleep",
           t \in Caps /\ l = "start_mark" => ~mark_running,
           t = Marker => /\ l \in Marking \cup {"release", "sweep"}
                         /\ l \notin {"final_mark", "finish"}
                         /\ mark_running
                         /\ l \in Marking => barrier
    PROVE  IInv'
BY WorldKeeps, MarkingKeeps DEF IInv

----------------------------------------------------------------------------
(* The actions                                                             *)

LEMMA SuspendKeeps == ASSUME IInv, NEW c \in Caps, Suspend(c) PROVE IInv'
<1>1. pc' = [pc EXCEPT ![c] = "ccall"]
  BY DEF Suspend, Goto
<1>2. /\ pc[c] = "run"
      /\ owner' = [owner EXCEPT ![c] = NoTask]
      /\ UNCHANGED <<sleepers, mark_running, barrier, upd_rem_set, block_list>>
  BY DEF Suspend, waits, marking
<1>3. owner[c] = c  BY <1>2 DEF IInv, World, Home
<1> QED  BY <1>1, <1>2, <1>3, StepKeeps, Distinct DEF IInv, World, Barrier, Owns, Home, Marking

LEMMA ResumeKeeps == ASSUME IInv, NEW c \in Caps, Resume(c) PROVE IInv'
<1>1. pc' = [pc EXCEPT ![c] = "run"]
  BY DEF Resume, Goto
<1>2. /\ pc[c] = "ccall"
      /\ owner[c] = NoTask /\ owner' = [owner EXCEPT ![c] = c]
      /\ UNCHANGED <<sleepers, mark_running, barrier, upd_rem_set, block_list>>
  BY DEF Resume, waits, marking
<1> QED  BY <1>1, <1>2, StepKeeps, Distinct DEF IInv, World, Barrier, Owns, Home, Marking

LEMMA YieldKeeps == ASSUME IInv, NEW c \in Caps, Yield(c) PROVE IInv'
<1>1. pc' = [pc EXCEPT ![c] = "yielded"]
  BY DEF Yield, Goto
<1>2. /\ pc[c] = "run"
      /\ owner' = [owner EXCEPT ![c] = NoTask]
      /\ UNCHANGED <<sleepers, mark_running, barrier, upd_rem_set, block_list>>
  BY DEF Yield, waits, marking
<1>3. owner[c] = c  BY <1>2 DEF IInv, World, Home
<1> QED  BY <1>1, <1>2, <1>3, StepKeeps, Distinct DEF IInv, World, Barrier, Owns, Home, Marking

LEMMA ReturnKeeps == ASSUME IInv, NEW c \in Caps, Return(c) PROVE IInv'
<1>1. pc' = [pc EXCEPT ![c] = "run"]
  BY DEF Return, Goto
<1>2. /\ pc[c] = "yielded"
      /\ owner[c] = NoTask /\ owner' = [owner EXCEPT ![c] = c]
      /\ UNCHANGED <<sleepers, mark_running, barrier, upd_rem_set, block_list>>
  BY DEF Return, waits, marking
<1> QED  BY <1>1, <1>2, StepKeeps, Distinct DEF IInv, World, Barrier, Owns, Home, Marking

LEMMA StopKeeps == ASSUME IInv, NEW c \in Caps, NEW ty, Stop(c, ty) PROVE IInv'
<1>1. pc' = [pc EXCEPT ![c] = "request"]
  BY DEF Stop, Goto
<1>2. /\ pc[c] = "run"
      /\ UNCHANGED <<owner, sleepers, mark_running, barrier, upd_rem_set, block_list>>
  BY DEF Stop, waits, marking
<1> QED  BY <1>1, <1>2, StepKeeps, Distinct DEF IInv, World, Barrier, Owns, Home, Marking

LEMMA RequestKeeps == ASSUME IInv, NEW t \in Tasks, Request(t) PROVE IInv'
<1>1. PICK l \in {"acquire", "read_type"} : pc' = [pc EXCEPT ![t] = l]
  BY DEF Request, Goto
<1>2. /\ pc[t] = "request"
      /\ UNCHANGED <<owner, sleepers, mark_running, barrier, upd_rem_set, block_list>>
  BY DEF Request, waits, marking
<1> QED  BY <1>1, <1>2, StepKeeps, Distinct DEF IInv, World, Barrier, Owns, Home, Marking

LEMMA ReadTypeKeeps == ASSUME IInv, NEW t \in Tasks, ReadType(t) PROVE IInv'
<1>1. pc' = [pc EXCEPT ![t] = IF t \in Caps THEN "give_way" ELSE "lock"]
  BY DEF ReadType, Goto
<1>2. /\ pc[t] = "read_type"
      /\ UNCHANGED <<owner, sleepers, mark_running, barrier, upd_rem_set, block_list>>
  BY DEF ReadType, waits, marking
<1>3. CASE t \in Caps
  <2>1. pc' = [pc EXCEPT ![t] = "give_way"]  BY <1>1, <1>3
  <2>2. owner[t] = t  BY <1>2, <1>3 DEF IInv, World, Home
  <2> QED  BY <1>2, <1>3, <2>1, <2>2, StepKeeps, Distinct DEF IInv, World, Owns
<1>4. CASE t \notin Caps
  <2>1. pc' = [pc EXCEPT ![t] = "lock"]  BY <1>1, <1>4
  <2>2. t = Marker => mark_running /\ barrier
    BY <1>2 DEF IInv, Barrier, Marking
  <2> QED
    BY <1>2, <1>4, <2>1, <2>2, StepKeeps, Distinct DEF IInv, World, Owns, Marking
<1> QED  BY <1>3, <1>4

LEMMA GiveWayKeeps == ASSUME IInv, NEW c \in Caps, GiveWay(c) PROVE IInv'
<1>1. pc' = [pc EXCEPT ![c] = "given"]
  BY DEF GiveWay, Goto
<1>2. /\ pc[c] = "give_way"
      /\ owner' = [owner EXCEPT ![c] = NoTask]
      /\ UNCHANGED <<sleepers, mark_running, barrier, upd_rem_set, block_list>>
  BY DEF GiveWay, waits, marking
<1>3. owner[c] = c  BY <1>2 DEF IInv, World, Home
<1> QED  BY <1>1, <1>2, <1>3, StepKeeps, Distinct DEF IInv, World, Barrier, Owns, Home, Marking

LEMMA GivenKeeps == ASSUME IInv, NEW c \in Caps, Given(c) PROVE IInv'
<1>1. PICK l \in {"run", "request"} : pc' = [pc EXCEPT ![c] = l]
  BY DEF Given, Goto
<1>2. /\ pc[c] = "given"
      /\ owner[c] = NoTask /\ owner' = [owner EXCEPT ![c] = c]
      /\ UNCHANGED <<sleepers, mark_running, barrier, upd_rem_set, block_list>>
  BY DEF Given, waits, marking
<1> QED  BY <1>1, <1>2, StepKeeps, Distinct DEF IInv, World, Barrier, Owns, Home, Marking

LEMMA LockKeeps == ASSUME IInv, NEW t \in Tasks, Lock(t) PROVE IInv'
<1>1. pc' = [pc EXCEPT ![t] = "test"]
  BY DEF Lock, Goto
<1>2. /\ pc[t] = "lock"
      /\ UNCHANGED <<owner, sleepers, mark_running, barrier, upd_rem_set, block_list>>
  BY DEF Lock, waits, marking
<1> QED  BY <1>1, <1>2, StepKeeps, Distinct DEF IInv, World, Barrier, Owns, Home, Marking

LEMMA TestKeeps == ASSUME IInv, NEW t \in Tasks, Test(t) PROVE IInv'
<1>1. PICK l \in {"request", "sleep"} : pc' = [pc EXCEPT ![t] = l]
  BY DEF Test, Goto
<1>2. /\ pc[t] = "test"
      /\ UNCHANGED <<owner, sleepers, mark_running, barrier, upd_rem_set, block_list>>
  BY DEF Test, waits, marking
<1> QED  BY <1>1, <1>2, StepKeeps, Distinct DEF IInv, World, Barrier, Owns, Home, Marking

LEMMA SleepKeeps == ASSUME IInv, NEW t \in Tasks, Sleep(t) PROVE IInv'
<1>1. pc[t] = "sleep" /\ pc' = [pc EXCEPT ![t] = "asleep"] /\ sleepers' = sleepers \cup {t}
  BY DEF Sleep, Goto
<1>2. UNCHANGED <<owner, mark_running, barrier, upd_rem_set, block_list>>
  BY DEF Sleep, marking
<1>3. World'  BY <1>1, <1>2, WorldKeeps, Distinct DEF IInv, World, Owns, Home
<1>4. SleepersAsleep'
  <2>1. t \in Others  BY <1>1 DEF IInv, World, Tasks
  <2> QED  BY <1>1, <2>1, Distinct DEF IInv, World, SleepersAsleep
<1>5. (Barrier /\ Flushed /\ OneMark)'
  BY <1>1, <1>2, Distinct DEF IInv, World, Barrier, Marking, Flushed, OneMark
<1> QED  BY <1>3, <1>4, <1>5 DEF IInv

LEMMA AcquireKeeps == ASSUME IInv, NEW t \in Tasks, Acquire(t) PROVE IInv'
<1>1. pc[t] = "acquire" /\ pc' = [pc EXCEPT ![t] = "acquire"]
  BY DEF Acquire, IInv, World
<1>2. PICK c \in Caps : owner[c] = NoTask /\ owner' = [owner EXCEPT ![c] = t]
  BY DEF Acquire, Missing
<1>3. UNCHANGED <<sleepers, mark_running, barrier, upd_rem_set, block_list>>
  BY DEF Acquire, waits, marking
<1> QED  BY <1>1, <1>2, <1>3, StepKeeps, Distinct DEF IInv, World, Barrier, Owns, Home, Marking

LEMMA ClearKeeps == ASSUME IInv, NEW t \in Tasks, Clear(t) PROVE IInv'
<1>1. pc' = [pc EXCEPT ![t] = "signal"] /\ \A c \in Caps : owner[c] = t
  BY DEF Clear, Goto, Missing
<1>2. /\ pc[t] = "acquire"
      /\ UNCHANGED <<owner, sleepers, mark_running, barrier, upd_rem_set, block_list>>
  BY DEF Clear, waits, marking
<1> QED  BY <1>1, <1>2, StepKeeps, Distinct DEF IInv, World, Barrier, Owns, Home, Marking

LEMMA SignalKeeps == ASSUME IInv, NEW t \in Tasks, Signal(t) PROVE IInv'
<1>1. /\ pc[t] = "signal"
      /\ UNCHANGED <<owner, mark_running, barrier, upd_rem_set, block_list>>
  BY DEF Signal, marking
<1>2. /\ Stopped(t) \in {"flush", "paused", "release", "collect"}
      /\ Stopped(t) = "flush" => t = Marker
      /\ t = Marker => Stopped(t) = "flush"
  BY Distinct DEF Stopped
<1>3. \A c \in Caps : owner[c] = t  BY <1>1 DEF IInv, World, Owns
<1>4. CASE sleepers = {} /\ sleepers' = sleepers /\ pc' = [pc EXCEPT ![t] = Stopped(t)]
  BY <1>1, <1>2, <1>3, <1>4, StepKeeps, Distinct DEF IInv, World, Barrier, Owns, Home, Marking
<1>5. ASSUME NEW s \in sleepers, sleepers' = sleepers \ {s},
             pc' = [pc EXCEPT ![t] = Stopped(t), ![s] = "lock"]
      PROVE  IInv'
  <2>1. s \in Others /\ s \in Tasks /\ s \notin Caps /\ pc[s] = "asleep" /\ s # t
    BY <1>1, Distinct DEF IInv, SleepersAsleep
  <2>2. \A u \in Tasks : pc'[u] = IF u = s THEN "lock" ELSE IF u = t THEN Stopped(t) ELSE pc[u]
    BY <1>5, <2>1 DEF IInv, World
  <2>3. World'
    <3>1. pc' = [u \in Tasks |-> pc'[u]]  BY <1>5 DEF IInv, World
    <3>2. ASSUME NEW u \in Tasks, pc'[u] \in Owns, NEW c \in Caps PROVE owner'[c] = u
      BY <1>1, <1>3, <2>2, <3>2 DEF IInv, World, Owns
    <3>3. \A c \in Caps : pc'[c] \in Home => owner'[c] = c
      BY <1>1, <1>3, <2>1, <2>2, Distinct DEF IInv, World, Home
    <3>4. \A c \in Caps : pc'[c] \notin {"lock", "test", "sleep"}
      BY <1>2, <2>1, <2>2, Distinct DEF IInv, World
    <3> QED  BY <1>1, <3>1, <3>2, <3>3, <3>4 DEF IInv, World
  <2>4. SleepersAsleep'  BY <1>1, <1>5, <2>1, <2>2, Distinct DEF IInv, SleepersAsleep
  <2>5. Barrier'  BY <1>1, <1>2, <2>1, <2>2, Distinct DEF IInv, Barrier, Marking
  <2>6. Flushed'  BY <1>1, <1>2, <2>1, <2>2, Distinct DEF IInv, Flushed
  <2>7. OneMark'  BY <1>1, <1>2, <2>1, <2>2, Distinct DEF IInv, OneMark
  <2> QED  BY <2>3, <2>4, <2>5, <2>6, <2>7 DEF IInv
<1> QED  BY <1>4, <1>5 DEF Signal, Goto

LEMMA ReleaseAllKeeps == ASSUME IInv, NEW t \in Tasks, ReleaseAll(t) PROVE IInv'
<1>1. pc[t] = "release" /\ UNCHANGED <<sleepers, mark_running, barrier, upd_rem_set, block_list>>
  BY DEF ReleaseAll, waits, marking
<1>2. /\ DOMAIN owner = Caps
      /\ t \in Caps => owner[t] = t
      /\ t = Marker => mark_running
  BY <1>1 DEF IInv, World, Home, Barrier
<1>3. CASE pc' = [pc EXCEPT ![t] = Released(t)] /\ owner' = owner
  <2>1. /\ Released(t) \in {"run", "resumed", "mark", "sweep"}
        /\ t = Marker => /\ Released(t) \in {"mark", "sweep"}
                         /\ Released(t) = "mark" => barrier
    BY Distinct DEF Released
  <2> QED  BY <1>1, <1>2, <1>3, <2>1, StepKeeps, Distinct DEF Owns, Home, Marking
<1>4. ASSUME NEW c \in Caps, owner[c] = t, c # t, owner' = [owner EXCEPT ![c] = NoTask], pc' = pc
      PROVE  IInv'
  <2>1. pc' = [pc EXCEPT ![t] = "release"]  BY <1>1, <1>4 DEF IInv, World
  <2> QED  BY <1>1, <1>2, <1>4, <2>1, StepKeeps, Distinct DEF Owns, Home, Marking
<1> QED  BY <1>3, <1>4 DEF ReleaseAll, Goto

LEMMA MutateKeeps == ASSUME IInv, NEW c \in Caps, Mutate(c) PROVE IInv'
<1>1. /\ pc[c] = "run" /\ owner[c] = c /\ c # Marker
      /\ UNCHANGED <<owner, pc, sleepers, mark_running, barrier>>
  BY Distinct DEF Mutate, waits, IInv, World, Home
<1>2. pc[Marker] \notin {"final_mark", "finish"}
  BY <1>1, Distinct DEF IInv, World, Owns
<1>3. World'  BY <1>1 DEF IInv, World
<1> QED  BY <1>1, <1>2, <1>3 DEF IInv, SleepersAsleep, Barrier, Flushed, OneMark

LEMMA CollectKeeps == ASSUME IInv, NEW c \in Caps, Collect(c) PROVE IInv'
<1>1. PICK l \in {"release", "start_mark"} :
        pc' = [pc EXCEPT ![c] = l] /\ (l = "start_mark" => ~mark_running)
  BY DEF Collect, Goto
<1>2. /\ pc[c] = "collect"
      /\ UNCHANGED <<owner, sleepers, mark_running, barrier, upd_rem_set, block_list>>
  BY DEF Collect, waits, marking
<1>3. \A d \in Caps : owner[d] = c  BY <1>2, Distinct DEF IInv, World, Owns
<1> QED  BY <1>1, <1>2, <1>3, StepKeeps, Distinct DEF IInv, World, Home

\* Nobody else is in the same place, as he would own the world too.
LEMMA StartMarkKeeps == ASSUME IInv, NEW c \in Caps, StartMark(c) PROVE IInv'
<1>1. /\ pc[c] = "start_mark" /\ pc' = [pc EXCEPT ![c] = "release"]
      /\ mark_running' = TRUE /\ barrier' = TRUE
      /\ UNCHANGED <<owner, sleepers, upd_rem_set, block_list>>
  BY DEF StartMark, Goto, waits
<1>2. \A d \in Caps : owner[d] = c  BY <1>1, Distinct DEF IInv, World, Owns
<1>3. ~mark_running /\ pc[Marker] = "start"  BY <1>1 DEF IInv, OneMark, Barrier
<1>4. \A u \in Tasks : pc'[u] = IF u = c THEN "release" ELSE pc[u]  BY <1>1 DEF IInv, World
<1>5. World'  BY <1>1, <1>2, WorldKeeps, Distinct DEF IInv, World, Owns, Home
<1>6. SleepersAsleep'  BY <1>1, <1>4, Distinct DEF IInv, SleepersAsleep
<1>7. (Barrier /\ Flushed)'  BY <1>1, <1>3, <1>4, Distinct DEF Barrier, Flushed, Marking
<1>8. OneMark'
  <2>1. ASSUME NEW d \in Caps, pc'[d] = "start_mark" PROVE FALSE
    <3>1. d # c /\ pc[d] = "start_mark"  BY <1>4, <2>1, Distinct
    <3>2. owner[c] = d  BY <3>1, Distinct DEF IInv, World, Owns
    <3> QED  BY <1>2, <3>1, <3>2
  <2> QED  BY <2>1 DEF OneMark
<1> QED  BY <1>5, <1>6, <1>7, <1>8 DEF IInv

LEMMA WakeMarkerKeeps == ASSUME IInv, WakeMarker PROVE IInv'
<1>1. pc' = [pc EXCEPT ![Marker] = "mark"]
  BY DEF WakeMarker, Goto
<1>2. /\ pc[Marker] = "start" /\ mark_running
      /\ UNCHANGED <<owner, sleepers, mark_running, barrier, upd_rem_set, block_list>>
  BY DEF WakeMarker, waits, marking
<1> QED  BY <1>1, <1>2, StepKeeps, Distinct DEF IInv, World, Barrier, Owns, Home, Marking

LEMMA OutOfBudgetKeeps == ASSUME IInv, OutOfBudget PROVE IInv'
<1>1. pc' = [pc EXCEPT ![Marker] = "release"]
  BY DEF OutOfBudget, Goto
<1>2. /\ pc[Marker] = "final_mark"
      /\ UNCHANGED <<owner, sleepers, mark_running, barrier, upd_rem_set, block_list>>
  BY DEF OutOfBudget, waits, marking
<1> QED  BY <1>1, <1>2, StepKeeps, Distinct DEF IInv, World, Barrier, Owns, Home, Marking

\* What the mark thread does by itself, when it keeps all the capabilities it has
LEMMA MarkerKeeps ==
    ASSUME IInv, NEW l, pc' = [pc EXCEPT ![Marker] = l],
           UNCHANGED <<owner, sleepers>>,
           pc[Marker] # "asleep", l # "lock",
           l \in Owns => pc[Marker] \in Owns,
           Barrier', Flushed',
           mark_running' => mark_running
    PROVE  IInv'
<1>1. \A u \in Tasks : pc'[u] = IF u = Marker THEN l ELSE pc[u]  BY DEF IInv, World
<1>2. World'  BY WorldKeeps, Distinct DEF IInv, World
<1>3. SleepersAsleep'  BY <1>1, Distinct DEF IInv, SleepersAsleep
<1>4. OneMark'  BY <1>1, Distinct DEF IInv, OneMark
<1> QED  BY <1>2, <1>3, <1>4 DEF IInv

LEMMA MarkKeeps == ASSUME IInv, Mark PROVE IInv'
<1>1. /\ pc[Marker] = "mark" /\ pc' = [pc EXCEPT ![Marker] = "request"]
      /\ block_list' = FALSE
      /\ UNCHANGED <<owner, sleepers, mark_running, barrier, upd_rem_set>>
  BY DEF Mark, Goto, waits
<1>2. pc'[Marker] = "request"  BY <1>1, Distinct DEF IInv, World
<1>3. (Barrier /\ Flushed)'  BY <1>1, <1>2 DEF IInv, Barrier, Flushed, Marking
<1> QED  BY <1>1, <1>3, MarkerKeeps DEF Owns

LEMMA FlushKeeps == ASSUME IInv, Flush PROVE IInv'
<1>1. /\ pc[Marker] = "flush" /\ pc' = [pc EXCEPT ![Marker] = "final_mark"]
      /\ upd_rem_set' = {}
      /\ UNCHANGED <<owner, sleepers, mark_running, barrier>>
  BY DEF Flush, Goto, waits
<1>2. pc'[Marker] = "final_mark"  BY <1>1, Distinct DEF IInv, World
<1>3. (Barrier /\ Flushed)'  BY <1>1, <1>2 DEF IInv, Barrier, Flushed, Marking
<1> QED  BY <1>1, <1>3, MarkerKeeps DEF Owns

LEMMA FinalMarkKeeps == ASSUME IInv, FinalMark PROVE IInv'
<1>1. /\ pc[Marker] = "final_mark" /\ pc' = [pc EXCEPT ![Marker] = "finish"]
      /\ block_list' = FALSE
      /\ UNCHANGED <<owner, sleepers, mark_running, barrier, upd_rem_set>>
  BY DEF FinalMark, Goto, waits
<1>2. pc'[Marker] = "finish"  BY <1>1, Distinct DEF IInv, World
<1>3. (Barrier /\ Flushed)'  BY <1>1, <1>2 DEF IInv, Barrier, Flushed, Marking
<1> QED  BY <1>1, <1>3, MarkerKeeps DEF Owns

LEMMA FinishFlushKeeps == ASSUME IInv, FinishFlush PROVE IInv'
<1>1. /\ pc[Marker] = "finish" /\ pc' = [pc EXCEPT ![Marker] = "release"]
      /\ barrier' = FALSE /\ upd_rem_set' = {} /\ block_list' = FALSE
      /\ UNCHANGED <<owner, sleepers, mark_running>>
  BY DEF FinishFlush, Goto, waits
<1>2. pc'[Marker] = "release"  BY <1>1, Distinct DEF IInv, World
<1>3. (Barrier /\ Flushed)'  BY <1>1, <1>2 DEF IInv, Barrier, Flushed, Marking
<1> QED  BY <1>1, <1>3, MarkerKeeps DEF Owns

LEMMA EndMarkKeeps == ASSUME IInv, EndMark PROVE IInv'
<1>1. /\ pc[Marker] = "sweep" /\ pc' = [pc EXCEPT ![Marker] = "start"]
      /\ mark_running' = FALSE
      /\ UNCHANGED <<owner, sleepers, barrier, upd_rem_set, block_list>>
  BY DEF EndMark, Goto, waits
<1>2. pc'[Marker] = "start"  BY <1>1, Distinct DEF IInv, World
<1>3. (Barrier /\ Flushed)'  BY <1>1, <1>2 DEF IInv, Barrier, Flushed, Marking
<1> QED  BY <1>1, <1>3, MarkerKeeps DEF Owns

LEMMA BlockMarkKeeps == ASSUME IInv, NEW p \in Pausers, BlockMark(p) PROVE IInv'
<1>1. pc' = [pc EXCEPT ![p] = "request"]
  BY DEF BlockMark, Goto
<1>2. /\ pc[p] = "out"
      /\ UNCHANGED <<owner, sleepers, mark_running, barrier, upd_rem_set, block_list>>
  BY DEF BlockMark, waits, marking
<1> QED  BY <1>1, <1>2, StepKeeps, Distinct DEF IInv, World, Barrier, Owns, Home, Marking

LEMMA RtsResumeKeeps == ASSUME IInv, NEW p \in Pausers, RtsResume(p) PROVE IInv'
<1>1. pc' = [pc EXCEPT ![p] = "release"]
  BY DEF RtsResume, Goto
<1>2. /\ pc[p] = "paused"
      /\ UNCHANGED <<owner, sleepers, mark_running, barrier, upd_rem_set, block_list>>
  BY DEF RtsResume, waits, marking
<1> QED  BY <1>1, <1>2, StepKeeps, Distinct DEF IInv, World, Barrier, Owns, Home, Marking

LEMMA UnblockMarkKeeps == ASSUME IInv, NEW p \in Pausers, UnblockMark(p) PROVE IInv'
<1>1. pc' = [pc EXCEPT ![p] = "out"]
  BY DEF UnblockMark, Goto
<1>2. /\ pc[p] = "resumed"
      /\ UNCHANGED <<owner, sleepers, mark_running, barrier, upd_rem_set, block_list>>
  BY DEF UnblockMark, waits, marking
<1> QED  BY <1>1, <1>2, StepKeeps, Distinct DEF IInv, World, Barrier, Owns, Home, Marking

----------------------------------------------------------------------------
(* The theorem                                                             *)

LEMMA InitHolds == Init => IInv
<1> SUFFICES ASSUME Init PROVE IInv  OBVIOUS
<1>1. /\ \A c \in Caps : pc[c] = "run" /\ owner[c] = c
      /\ pc[Marker] = "start"
      /\ \A p \in Pausers : pc[p] = "out"
  BY Distinct DEF Init
<1>2. DOMAIN owner = Caps /\ pc = [t \in Tasks |-> pc[t]]  BY DEF Init
<1>3. \A t \in Tasks : pc[t] \in {"run", "start", "out"}  BY <1>1 DEF Tasks, Others
<1>4. World  BY <1>1, <1>2, <1>3 DEF World, Owns, Home
<1> QED
  BY <1>1, <1>4 DEF Init, IInv, SleepersAsleep, Barrier, Flushed, OneMark, Marking

LEMMA StepOfTaskKeeps == ASSUME IInv, NEW t \in Tasks, Step(t) PROVE IInv'
BY RequestKeeps, ReadTypeKeeps, LockKeeps, TestKeeps, SleepKeeps, AcquireKeeps, ClearKeeps,
   SignalKeeps, ReleaseAllKeeps DEF Step

LEMMA NextKeeps == IInv /\ [Next]_vars => IInv'
<1> SUFFICES ASSUME IInv, [Next]_vars PROVE IInv'  OBVIOUS
<1>1. CASE \E c \in Caps : CapStep(c)
  BY <1>1, StepOfTaskKeeps, YieldKeeps, ReturnKeeps, GiveWayKeeps, GivenKeeps, CollectKeeps,
     StartMarkKeeps, Distinct DEF CapStep
<1>2. CASE \E c \in Caps : \/ Mutate(c) \/ Suspend(c) \/ Resume(c)
                           \/ \E ty \in {"minor", "major", "other"} : Stop(c, ty)
  BY <1>2, MutateKeeps, SuspendKeeps, ResumeKeeps, StopKeeps
<1>3. CASE MarkerStep \/ OutOfBudget
  BY <1>3, StepOfTaskKeeps, WakeMarkerKeeps, MarkKeeps, FlushKeeps, FinalMarkKeeps,
     FinishFlushKeeps, EndMarkKeeps, OutOfBudgetKeeps, Distinct DEF MarkerStep
<1>4. CASE \E p \in Pausers : PauserStep(p) \/ BlockMark(p)
  BY <1>4, StepOfTaskKeeps, RtsResumeKeeps, UnblockMarkKeeps, BlockMarkKeeps, Distinct
     DEF PauserStep
<1>5. CASE UNCHANGED vars
  BY <1>5 DEF vars, waits, marking, IInv, World, SleepersAsleep, Barrier, Flushed, OneMark
<1> QED  BY <1>1, <1>2, <1>3, <1>4, <1>5 DEF Next

\* The inductive invariant: who owns the world, who owns his capability, where the mark
\* thread is when marking runs and the write barrier is on (requestSync,
\* acquireAllCapabilities, nonmovingMark_).
THEOREM Invariance == Spec => []IInv
BY InitHolds, NextKeeps, PTL DEF Spec

\* No overwritten pointer escapes the mark thread, and only one marking goes on at a
\* time, for any number of capabilities and threads that call rts_pause
\* (nonmovingBeginFlush, nonmovingFinishFlush, nonmovingStartConcurrentMark).
THEOREM NothingMissed == Spec => []MarkMissesNothing
<1>1. IInv => MarkMissesNothing
  BY DEF IInv, MarkMissesNothing, Barrier, Flushed, OneMark
<1> QED  BY <1>1, Invariance, PTL

----------------------------------------------------------------------------
(* The PendingSync that is read                                            *)

\* pending_sync points to the one task that is in acquireAllCapabilities, and it is
\* what those who are about to read sync->type have found.
Pending ==
    /\ pending_sync \in Tasks \cup {NoTask} /\ DOMAIN sync = Tasks
    /\ \A t \in Tasks : pc[t] = "acquire" <=> pending_sync = t
    /\ \A c \in Caps : pc[c] = "read_type" => pending_sync = sync[c] /\ pending_sync # NoTask

SInv == IInv /\ Pending

\* Nothing changes for those who read as long as nobody begins or ends a sync.
LEMMA OthersKeepPending ==
    ASSUME SInv, NEW t \in Tasks, NEW l,
           pc' = [pc EXCEPT ![t] = l],
           pc[t] # "acquire", l \notin {"acquire", "read_type"},
           UNCHANGED <<pending_sync, sync>>
    PROVE  Pending'
<1>1. \A u \in Tasks : pc'[u] = IF u = t THEN l ELSE pc[u]  BY DEF SInv, IInv, World
<1> QED  BY <1>1, Distinct DEF SInv, Pending

LEMMA RequestKeepsPending == ASSUME SInv, NEW t \in Tasks, Request(t) PROVE Pending'
<1>1. /\ pc[t] = "request"
      /\ \/ /\ pending_sync = NoTask /\ pending_sync' = t /\ sync' = sync
            /\ pc' = [pc EXCEPT ![t] = "acquire"]
         \/ /\ pending_sync # NoTask /\ pending_sync' = pending_sync
            /\ sync' = [sync EXCEPT ![t] = pending_sync]
            /\ pc' = [pc EXCEPT ![t] = "read_type"]
  BY DEF Request, Goto
<1>2. pc = [u \in Tasks |-> pc[u]]  BY DEF SInv, IInv, World
<1> QED  BY <1>1, <1>2, Distinct DEF SInv, Pending

LEMMA ReadTypeKeepsPending == ASSUME SInv, NEW t \in Tasks, ReadType(t) PROVE Pending'
<1>1. /\ pc[t] = "read_type" /\ pending_sync' = pending_sync
      /\ sync' = [sync EXCEPT ![t] = NoTask]
      /\ pc' = [pc EXCEPT ![t] = IF t \in Caps THEN "give_way" ELSE "lock"]
  BY DEF ReadType, Goto
<1>2. pc = [u \in Tasks |-> pc[u]]  BY DEF SInv, IInv, World
<1> QED  BY <1>1, <1>2, Distinct DEF SInv, Pending

\* Who clears pending_sync has all capabilities, and who reads the type has one.
LEMMA ClearKeepsPending == ASSUME SInv, NEW t \in Tasks, Clear(t) PROVE Pending'
<1>1. /\ pc[t] = "acquire" /\ pc' = [pc EXCEPT ![t] = "signal"]
      /\ pending_sync' = NoTask /\ sync' = sync
      /\ \A c \in Caps : owner[c] = t
  BY DEF Clear, Goto, Missing
<1>2. ASSUME NEW c \in Caps PROVE pc[c] # "read_type"
  <2>1. CASE c = t  BY <1>1, <2>1
  <2>2. CASE c # t  BY <1>1, <2>2 DEF SInv, IInv, World, Home
  <2> QED  BY <2>1, <2>2
<1>3. \A u \in Tasks : pc'[u] = IF u = t THEN "signal" ELSE pc[u]
  BY <1>1 DEF SInv, IInv, World
<1>4. \A u \in Tasks : pc'[u] # "acquire"  BY <1>1, <1>3 DEF SInv, Pending
<1>5. \A c \in Caps : pc'[c] # "read_type"  BY <1>2, <1>3, Distinct
<1> QED  BY <1>1, <1>4, <1>5, Distinct DEF SInv, Pending

LEMMA SignalKeepsPending == ASSUME SInv, NEW t \in Tasks, Signal(t) PROVE Pending'
<1>1. pc[t] = "signal" /\ UNCHANGED <<pending_sync, sync>>  BY DEF Signal, request
<1>2. Stopped(t) \in {"flush", "paused", "release", "collect"}  BY DEF Stopped
<1>3. CASE pc' = [pc EXCEPT ![t] = Stopped(t)]
  BY <1>1, <1>2, <1>3, OthersKeepPending
<1>4. ASSUME NEW s \in sleepers, pc' = [pc EXCEPT ![t] = Stopped(t), ![s] = "lock"]
      PROVE  Pending'
  <2>1. s \in Tasks /\ pc[s] = "asleep"  BY Distinct DEF SInv, IInv, SleepersAsleep
  <2>2. \A u \in Tasks : pc'[u] = IF u = s THEN "lock" ELSE IF u = t THEN Stopped(t) ELSE pc[u]
    BY <1>4, <2>1 DEF SInv, IInv, World
  <2> QED  BY <1>1, <1>2, <2>1, <2>2, Distinct DEF SInv, Pending
<1> QED  BY <1>3, <1>4 DEF Signal, Goto

LEMMA StepKeepsPending == ASSUME SInv, NEW t \in Tasks, Step(t) PROVE Pending'
<1>1. CASE Lock(t) \/ Test(t) \/ Sleep(t)
  BY <1>1, OthersKeepPending DEF Lock, Test, Sleep, Goto, request
<1>2. CASE Acquire(t)
  BY <1>2 DEF Acquire, request, SInv, Pending
<1>3. CASE ReleaseAll(t)
  <2>1. Released(t) \in {"run", "resumed", "mark", "sweep"}  BY DEF Released
  <2>2. CASE pc' = pc  BY <1>3, <2>2 DEF ReleaseAll, SInv, Pending
  <2>3. CASE pc' = [pc EXCEPT ![t] = Released(t)]
    BY <1>3, <2>1, <2>3, OthersKeepPending DEF ReleaseAll
  <2> QED  BY <1>3, <2>2, <2>3 DEF ReleaseAll, Goto
<1> QED
  BY <1>1, <1>2, <1>3, RequestKeepsPending, ReadTypeKeepsPending, ClearKeepsPending,
     SignalKeepsPending DEF Step

LEMMA StopKeepsPending == ASSUME SInv, NEW c \in Caps, NEW ty, Stop(c, ty) PROVE Pending'
<1>1. /\ pc[c] = "run" /\ pc' = [pc EXCEPT ![c] = "request"]
      /\ UNCHANGED <<pending_sync, sync>>
  BY DEF Stop, Goto
<1>2. c \in Tasks /\ pc[c] # "acquire" /\ "request" \notin {"acquire", "read_type"}
  BY <1>1, Distinct
<1> QED  BY <1>1, <1>2, OthersKeepPending

LEMMA NextKeepsPending == SInv /\ [Next]_vars => Pending'
<1> SUFFICES ASSUME SInv, [Next]_vars PROVE Pending'  OBVIOUS
<1>1. CASE \E t \in Tasks : Step(t)  BY <1>1, StepKeepsPending
<1>2. ASSUME NEW c \in Caps, Yield(c) \/ Return(c) \/ GiveWay(c) \/ Suspend(c) \/ Resume(c)
      PROVE  Pending'
  BY <1>2, OthersKeepPending, Distinct DEF Yield, Return, GiveWay, Suspend, Resume, Goto, request
<1>3. ASSUME NEW c \in Caps, Collect(c) \/ StartMark(c) PROVE Pending'
  BY <1>3, OthersKeepPending, Distinct DEF Collect, StartMark, Goto, request
<1>4. ASSUME NEW c \in Caps, Given(c) PROVE Pending'
  BY <1>4, OthersKeepPending, Distinct DEF Given, Goto
<1>5. ASSUME NEW c \in Caps, Mutate(c) PROVE Pending'
  BY <1>5 DEF Mutate, request, SInv, Pending
<1>6. CASE WakeMarker \/ Mark \/ Flush \/ FinalMark
  BY <1>6, OthersKeepPending, Distinct DEF WakeMarker, Mark, Flush, FinalMark, Goto, request
<1>7. CASE FinishFlush \/ EndMark \/ OutOfBudget
  BY <1>7, OthersKeepPending, Distinct DEF FinishFlush, EndMark, OutOfBudget, Goto, request
<1>8. ASSUME NEW p \in Pausers, RtsResume(p) \/ UnblockMark(p) \/ BlockMark(p) PROVE Pending'
  BY <1>8, OthersKeepPending, Distinct DEF RtsResume, UnblockMark, BlockMark, Goto, request
<1>9. CASE UNCHANGED vars  BY <1>9 DEF vars, request, SInv, Pending
<1> QED
  BY <1>1, <1>2, <1>3, <1>4, <1>5, <1>6, <1>7, <1>8, <1>9, StopKeepsPending,
     Distinct DEF Next, CapStep, MarkerStep, PauserStep

\* A task with a capability that reads the type of another one's PendingSync reads it
\* before that one can return from stopAllCapabilities (requestSync), for any number of
\* capabilities and threads.
THEOREM TypeIsThere == Spec => []SyncValid
<1>1. Init => SInv
  <2> SUFFICES ASSUME Init PROVE Pending  BY InitHolds DEF SInv
  <2>1. \A t \in Tasks : pc[t] \in {"run", "start", "out"}  BY DEF Init, Tasks, Others
  <2> QED  BY <2>1, Distinct DEF Init, Pending
<1>2. SInv /\ [Next]_vars => SInv'  BY NextKeeps, NextKeepsPending DEF SInv
<1>3. SInv => SyncValid
  <2> SUFFICES ASSUME SInv, NEW c \in Caps, pc[c] = "read_type"
               PROVE  pending_sync = sync[c] /\ pc[sync[c]] = "acquire"
    BY DEF SyncValid
  <2> QED  BY Distinct DEF SInv, Pending
<1> QED  BY <1>1, <1>2, <1>3, PTL DEF Spec

=============================================================================
