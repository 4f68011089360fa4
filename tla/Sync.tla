-------------------------------- MODULE Sync --------------------------------
(***************************************************************************)
(* Stopping the world, by tasks that have a capability (scheduleDoGC,      *)
(* stopAllCapabilities) and by tasks that have none (rts_pause, the mark   *)
(* thread of the non-moving collector): requestSync and                    *)
(* acquireAllCapabilities of rts/Schedule.c, rts_pause and rts_resume of   *)
(* rts/RtsAPI.c, and the protocol between collections, the mark thread and *)
(* the update remembered sets (rts/sm/NonMoving.c, NonMovingMark.c).       *)
(*                                                                         *)
(* How a capability is handed over is the business of Capability.tla: here *)
(* a free one is taken by somebody who waits for it.  Capability c has one *)
(* task of its own, also called c, that runs Haskell code on it.           *)
(***************************************************************************)
EXTENDS Naturals

CONSTANTS
    NCaps,
    Pausers,            \* OS threads that call rts_pause
    Marker,             \* the mark thread
    NoTask,
    UseNonmoving,       \* the collector is the non-moving one
    MajorWhilePausing   \* whether collections are major while somebody pauses

Caps == 1..NCaps
Others == Pausers \cup {Marker}
Tasks == Caps \cup Others

ASSUME SyncAssumption ==
    /\ NCaps \in Nat \ {0}
    /\ NoTask \notin Tasks /\ Marker \notin Pausers
    /\ Caps \cap Others = {}
    /\ UseNonmoving \in BOOLEAN /\ MajorWhilePausing \in BOOLEAN

VARIABLES
    owner,          \* cap -> running_task
    pending_sync,   \* the task whose PendingSync it points to, or NoTask
    pc,
    type,           \* task -> the type of its PendingSync
    sync,           \* task -> the local variable sync of requestSync
    prev,           \* cap -> its prev_sync_type
    mutex,          \* who holds sync_finished_mutex
    sleepers,       \* who waits for sync_finished_cond
    coll_lock,      \* who holds concurrent_coll_lock
    mark_running,   \* concurrent_worker_state is CONCURRENT_WORKER_RUNNING
    barrier,        \* nonmoving_write_barrier_enabled
    upd_rem_set,    \* the capabilities whose update remembered set is not empty
    block_list      \* whether upd_rem_set_block_list has anything not marked yet

request == <<pending_sync, type, sync, prev>>
waits == <<mutex, sleepers>>
marking == <<coll_lock, mark_running, barrier, upd_rem_set, block_list>>
vars == <<owner, pc, request, waits, marking>>

Init ==
    /\ owner = [c \in Caps |-> c]
    /\ pending_sync = NoTask
    /\ pc = [t \in Tasks |-> IF t \in Caps THEN "run" ELSE IF t = Marker THEN "start" ELSE "out"]
    /\ type = [t \in Tasks |-> "other"]
    /\ sync = [t \in Tasks |-> NoTask]
    /\ prev = [c \in Caps |-> "other"]
    /\ mutex = NoTask /\ sleepers = {}
    /\ coll_lock = NoTask
    /\ mark_running = FALSE /\ barrier = FALSE
    /\ upd_rem_set = {} /\ block_list = FALSE

Goto(t, l) == pc' = [pc EXCEPT ![t] = l]

----------------------------------------------------------------------------
(* Running Haskell code                                                    *)

\* The write barrier: what is overwritten goes to the update remembered set, whose
\* blocks move to upd_rem_set_block_list when they are full.
Mutate(c) ==
    /\ pc[c] = "run" /\ barrier
    /\ upd_rem_set' = upd_rem_set \cup {c}
    /\ block_list' \in {block_list, block_list \/ c \in upd_rem_set}
    /\ UNCHANGED <<owner, pc, request, waits, coll_lock, mark_running, barrier>>

\* A safe foreign call gives up the capability, ...
Suspend(c) ==
    /\ pc[c] = "run"
    /\ owner' = [owner EXCEPT ![c] = NoTask]
    /\ Goto(c, "ccall")
    /\ UNCHANGED <<request, waits, marking>>

\* ... and takes it back when it is free, whether a sync is pending or not.
Resume(c) ==
    /\ pc[c] = "ccall" /\ owner[c] = NoTask
    /\ owner' = [owner EXCEPT ![c] = c]
    /\ Goto(c, "run")
    /\ UNCHANGED <<request, waits, marking>>

\* The scheduler yields to a sync; the capability comes back when there is none.
Yield(c) ==
    /\ pc[c] = "run" /\ pending_sync # NoTask
    /\ owner' = [owner EXCEPT ![c] = NoTask]
    /\ Goto(c, "yielded")
    /\ UNCHANGED <<request, waits, marking>>

Return(c) ==
    /\ pc[c] = "yielded" /\ owner[c] = NoTask /\ pending_sync = NoTask
    /\ owner' = [owner EXCEPT ![c] = c]
    /\ Goto(c, "run")
    /\ UNCHANGED <<request, waits, marking>>

\* rts_pause has got as far as to lock concurrent_coll_lock.
Pausing == coll_lock \in Pausers

\* A collection, or something else for which the world has to stop (forkProcess,
\* setNumCapabilities, flushEventLog)
Stop(c, ty) ==
    /\ pc[c] = "run"
    /\ ty = "major" => MajorWhilePausing \/ ~Pausing
    /\ type' = [type EXCEPT ![c] = ty]
    /\ Goto(c, "request")
    /\ UNCHANGED <<owner, pending_sync, sync, prev, waits, marking>>

----------------------------------------------------------------------------
(* requestSync                                                             *)

\* (mutant: the capability is given up before sync->type is read)
RequestYields(t) ==
    /\ pc[t] = "request"
    /\ IF pending_sync = NoTask
       THEN /\ pending_sync' = t
            /\ Goto(t, "acquire")
            /\ UNCHANGED <<owner, sync>>
       ELSE /\ sync' = [sync EXCEPT ![t] = pending_sync]
            /\ owner' = [c \in Caps |-> IF c = t THEN NoTask ELSE owner[c]]
            /\ Goto(t, "read_type")
            /\ UNCHANGED pending_sync
    /\ UNCHANGED <<type, prev, waits, marking>>

\* The compare-and-swap on pending_sync
Request(t) ==
    /\ pc[t] = "request"
    /\ IF pending_sync = NoTask
       THEN /\ pending_sync' = t
            /\ Goto(t, "acquire")
            /\ UNCHANGED sync
       ELSE /\ sync' = [sync EXCEPT ![t] = pending_sync]
            /\ Goto(t, "read_type")
            /\ UNCHANGED pending_sync
    /\ UNCHANGED <<owner, type, prev, waits, marking>>

\* *prev_sync_type = sync->type, which only tasks with a capability use
ReadType(t) ==
    /\ pc[t] = "read_type"
    /\ prev' = IF t \in Caps THEN [prev EXCEPT ![t] = type[sync[t]]] ELSE prev
    /\ sync' = [sync EXCEPT ![t] = NoTask]
    /\ Goto(t, IF t \in Caps THEN "give_way" ELSE "lock")
    /\ UNCHANGED <<owner, pending_sync, type, waits, marking>>

\* A task with a capability lets the other one have it, ...
GiveWay(c) ==
    /\ pc[c] = "give_way"
    /\ owner' = [owner EXCEPT ![c] = NoTask]
    /\ Goto(c, "given")
    /\ UNCHANGED <<request, waits, marking>>

\* ... and when it is back and no sync is pending it goes on: it takes its own
\* collection for done if the other sync was one, or tries again.
Given(c) ==
    /\ pc[c] = "given" /\ owner[c] = NoTask /\ pending_sync = NoTask
    /\ owner' = [owner EXCEPT ![c] = c]
    /\ IF type[c] # "other" /\ prev[c] # "other"
       THEN Goto(c, "run") /\ type' = [type EXCEPT ![c] = "other"]
       ELSE Goto(c, "request") /\ UNCHANGED type
    /\ prev' = [prev EXCEPT ![c] = "other"]
    /\ UNCHANGED <<pending_sync, sync, waits, marking>>

\* A task without one sleeps: ACQUIRE_LOCK, ...
Lock(t) ==
    /\ pc[t] = "lock" /\ mutex = NoTask
    /\ mutex' = t
    /\ Goto(t, "test")
    /\ UNCHANGED <<owner, request, sleepers, marking>>

\* ... while (pending_sync), ...
Test(t) ==
    /\ pc[t] = "test"
    /\ IF pending_sync = NoTask
       THEN mutex' = NoTask /\ Goto(t, "request")
       ELSE Goto(t, "sleep") /\ UNCHANGED mutex
    /\ UNCHANGED <<owner, request, sleepers, marking>>

\* ... waitCondition.
Sleep(t) ==
    /\ pc[t] = "sleep"
    /\ mutex' = NoTask
    /\ sleepers' = sleepers \cup {t}
    /\ Goto(t, "asleep")
    /\ UNCHANGED <<owner, request, marking>>

----------------------------------------------------------------------------
(* acquireAllCapabilities, releaseAllCapabilities                          *)

Missing(t) == {c \in Caps : owner[c] # t}

\* One capability after the other
Acquire(t) ==
    /\ pc[t] = "acquire"
    /\ \E c \in Missing(t) :
          /\ \A d \in Missing(t) : c <= d
          /\ owner[c] = NoTask
          /\ owner' = [owner EXCEPT ![c] = t]
    /\ UNCHANGED <<pc, request, waits, marking>>

\* RELAXED_STORE(&pending_sync, 0), without sync_finished_mutex
Clear(t) ==
    /\ pc[t] = "acquire" /\ Missing(t) = {}
    /\ pending_sync' = NoTask
    /\ Goto(t, "signal")
    /\ UNCHANGED <<owner, type, sync, prev, waits, marking>>

\* What comes next: a collection; the pause; the flush of the remembered sets
Stopped(t) ==
    IF t = Marker THEN "flush"
    ELSE IF t \in Pausers THEN "paused"
    ELSE IF type[t] = "other" THEN "release"
    ELSE "collect"

\* (mutant: nobody is told)
SignalNobody(t) ==
    /\ pc[t] = "signal"
    /\ Goto(t, Stopped(t))
    /\ UNCHANGED <<owner, request, waits, marking>>

\* signalCondition(&sync_finished_cond): one sleeper goes for the mutex.
Signal(t) ==
    /\ pc[t] = "signal"
    /\ IF sleepers = {}
       THEN Goto(t, Stopped(t)) /\ UNCHANGED sleepers
       ELSE \E s \in sleepers :
                /\ sleepers' = sleepers \ {s}
                /\ pc' = [pc EXCEPT ![t] = Stopped(t), ![s] = "lock"]
    /\ UNCHANGED <<owner, request, mutex, marking>>

\* Where a task goes when it has released the capabilities
Released(t) ==
    IF t \in Caps THEN "run"
    ELSE IF t \in Pausers THEN "resumed"
    ELSE IF barrier THEN "mark"         \* out of budget
    ELSE "sweep"

\* A task with a capability keeps its own.
ReleaseAll(t) ==
    /\ pc[t] = "release"
    /\ LET mine == {c \in Caps : owner[c] = t /\ c # t}
       IN  IF mine = {}
           THEN /\ Goto(t, Released(t))
                /\ type' = [type EXCEPT ![t] = "other"]
                /\ UNCHANGED owner
           ELSE /\ \E c \in mine : /\ \A d \in mine : c <= d
                                   /\ owner' = [owner EXCEPT ![c] = NoTask]
                /\ UNCHANGED <<pc, type>>
    /\ UNCHANGED <<pending_sync, sync, prev, waits, marking>>

----------------------------------------------------------------------------
(* Collections and the mark thread                                         *)

\* GarbageCollect asks whether marking is under way (nonmovingConcurrentMarkIsRunning):
\* if so, or if it is not major, it is a collection that stops here.
Collect(c) ==
    /\ pc[c] = "collect"
    /\ IF UseNonmoving /\ type[c] = "major"
       THEN /\ coll_lock = NoTask
            /\ Goto(c, IF mark_running THEN "release" ELSE "start_mark")
       ELSE Goto(c, "release")
    /\ UNCHANGED <<owner, request, waits, marking>>

\* nonmovingStartConcurrentMark, at the end of the collection
StartMark(c) ==
    /\ pc[c] = "start_mark" /\ coll_lock = NoTask
    /\ mark_running' = TRUE
    /\ barrier' = TRUE
    /\ Goto(c, "release")
    /\ UNCHANGED <<owner, request, waits, coll_lock, upd_rem_set, block_list>>

\* The mark thread wakes up and marks.
WakeMarker ==
    /\ pc[Marker] = "start" /\ mark_running /\ coll_lock = NoTask
    /\ Goto(Marker, "mark")
    /\ UNCHANGED <<owner, request, waits, marking>>

\* nonmovingMark_, to the end of the concurrent phase; then it stops the world.
Mark ==
    /\ pc[Marker] = "mark"
    /\ block_list' = FALSE
    /\ Goto(Marker, "request")
    /\ UNCHANGED <<owner, request, waits, coll_lock, mark_running, barrier, upd_rem_set>>

\* (mutant: the first capability is left out)
FlushFewer ==
    /\ pc[Marker] = "flush"
    /\ block_list' = (block_list \/ upd_rem_set # {})
    /\ upd_rem_set' = upd_rem_set \cap {1}
    /\ Goto(Marker, "final_mark")
    /\ UNCHANGED <<owner, request, waits, coll_lock, mark_running, barrier>>

\* nonmovingBeginFlush: the remembered sets of all capabilities are flushed.
Flush ==
    /\ pc[Marker] = "flush"
    /\ block_list' = (block_list \/ upd_rem_set # {})
    /\ upd_rem_set' = {}
    /\ Goto(Marker, "final_mark")
    /\ UNCHANGED <<owner, request, waits, coll_lock, mark_running, barrier>>

\* The final mark either runs out of budget, lets go of the capabilities and goes
\* on marking concurrently, ...
OutOfBudget ==
    /\ pc[Marker] = "final_mark"
    /\ Goto(Marker, "release")
    /\ UNCHANGED <<owner, request, waits, marking>>

\* ... or finishes.
FinalMark ==
    /\ pc[Marker] = "final_mark"
    /\ block_list' = FALSE
    /\ Goto(Marker, "finish")
    /\ UNCHANGED <<owner, request, waits, coll_lock, mark_running, barrier, upd_rem_set>>

\* nonmovingFinishFlush; resurrectThreads may have filled the sets again.
FinishFlush ==
    /\ pc[Marker] = "finish"
    /\ barrier' = FALSE
    /\ upd_rem_set' = {} /\ block_list' = FALSE
    /\ Goto(Marker, "release")
    /\ UNCHANGED <<owner, request, waits, coll_lock, mark_running>>

\* After the sweep: those who wait for the end of marking are told, and the mark
\* thread waits for the next one.
EndMark ==
    /\ pc[Marker] = "sweep" /\ coll_lock = NoTask
    /\ mark_running' = FALSE
    /\ Goto(Marker, "start")
    /\ UNCHANGED <<owner, request, waits, coll_lock, barrier, upd_rem_set, block_list>>

----------------------------------------------------------------------------
(* rts_pause and rts_resume                                                *)

\* nonmovingBlockConcurrentMark(true) waits for the end of marking and keeps the
\* lock.
BlockMark(p) ==
    /\ pc[p] = "out"
    /\ IF UseNonmoving
       THEN coll_lock = NoTask /\ ~mark_running /\ coll_lock' = p
       ELSE UNCHANGED coll_lock
    /\ MajorWhilePausing \/ \A c \in Caps : type[c] # "major"
    /\ Goto(p, "request")
    /\ UNCHANGED <<owner, request, waits, mark_running, barrier, upd_rem_set, block_list>>

RtsResume(p) ==
    /\ pc[p] = "paused"
    /\ Goto(p, "release")
    /\ UNCHANGED <<owner, request, waits, marking>>

\* nonmovingUnblockConcurrentMark
UnblockMark(p) ==
    /\ pc[p] = "resumed"
    /\ coll_lock' = IF UseNonmoving THEN NoTask ELSE coll_lock
    /\ Goto(p, "out")
    /\ UNCHANGED <<owner, request, waits, mark_running, barrier, upd_rem_set, block_list>>

----------------------------------------------------------------------------
Step(t) ==
    \/ Request(t) \/ ReadType(t) \/ Lock(t) \/ Test(t) \/ Sleep(t)
    \/ Acquire(t) \/ Clear(t) \/ Signal(t) \/ ReleaseAll(t)

CapStep(c) ==
    \/ Step(c) \/ Yield(c) \/ Return(c) \/ GiveWay(c) \/ Given(c)
    \/ Collect(c) \/ StartMark(c)

MarkerStep ==
    \/ Step(Marker) \/ WakeMarker \/ Mark \/ Flush \/ FinalMark \/ FinishFlush \/ EndMark

PauserStep(p) == Step(p) \/ RtsResume(p) \/ UnblockMark(p)

Next ==
    \/ \E c \in Caps :
          \/ CapStep(c) \/ Mutate(c) \/ Suspend(c) \/ Resume(c)
          \/ \E ty \in {"minor", "major", "other"} : Stop(c, ty)
    \/ MarkerStep \/ OutOfBudget
    \/ \E p \in Pausers : PauserStep(p) \/ BlockMark(p)

Spec == Init /\ [][Next]_vars

\* Every OS thread goes on with what it does in the RTS, and who has paused resumes.
\* A capability that is released goes to the task that waits in returning_tasks, and
\* a mutex to whoever wants it, before others can take them again and again.
Fairness ==
    /\ \A c \in Caps : WF_vars(CapStep(c)) /\ SF_vars(Acquire(c) \/ Collect(c) \/ StartMark(c))
    /\ WF_vars(MarkerStep) /\ SF_vars(Acquire(Marker))
    /\ \A p \in Pausers : WF_vars(PauserStep(p)) /\ SF_vars(Acquire(p))

FairSpec == Spec /\ Fairness

----------------------------------------------------------------------------
(* Properties                                                              *)

\* "sync is valid until we have called yieldCapability()": the PendingSync that a task
\* with a capability reads is on the stack of a task that is still in
\* acquireAllCapabilities, as it lacks that capability.
SyncValid ==
    \A c \in Caps :
        pc[c] = "read_type" => pending_sync = sync[c] /\ pc[sync[c]] = "acquire"

\* No overwritten pointer escapes the mark thread: whenever it marks or waits for the
\* world to stop the write barrier is on, and when the final mark is done all
\* remembered sets have been flushed and marked, although a thread can come back from a
\* foreign call while the world is being stopped.  Only one marking goes on at a time.
MarkMissesNothing ==
    /\ mark_running /\ pc[Marker] \notin {"release", "sweep", "start"} => barrier
    /\ pc[Marker] = "finish" => upd_rem_set = {} /\ ~block_list
    /\ \A c \in Caps : pc[c] = "start_mark" => ~mark_running

\* Whoever has set pending_sync gets all capabilities; and a task that sleeps because
\* another one stops the world is woken, if not by that one (the signal can come before
\* it sleeps) then by the next.
StopReturns ==
    /\ \A t \in Tasks : pc[t] = "acquire" ~> pc[t] = "signal"
    /\ \A t \in Others :
          []<>(\E u \in Tasks : pc[u] = "signal") => (pc[t] = "asleep" ~> pc[t] # "asleep")

\* rts_pause, once it has asked for the world to stop, gets it stopped.
PauseReturns == \A p \in Pausers : pc[p] = "acquire" ~> pc[p] = "paused"
============================================================================
