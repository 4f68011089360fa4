---------------------------- MODULE Capability ----------------------------
(***************************************************************************)
(* Who runs Haskell code: Tasks (OS threads) passing Capabilities to each  *)
(* other in the threaded RTS (rts/Capability.c, the loop of rts/Schedule.c *)
(* and the stop-the-world synchronisation of a sequential collection).     *)
(*                                                                         *)
(* A task is a worker, made and ended by the RTS, or an outside OS thread  *)
(* that calls in, which has a bound Haskell thread while it is inside; the *)
(* bound thread goes by the name of its task.  What cap->lock protects is  *)
(* one action: the lock is taken at its beginning and released at its end. *)
(* Signalling a task makes its wakeup flag TRUE and stays with it          *)
(* (giveCapabilityToTask), and a condition variable may wake its waiter    *)
(* for no reason.                                                          *)
(*                                                                         *)
(* Haskell threads do what they like: run, block, call C, fork, collect.   *)
(***************************************************************************)
EXTENDS Naturals, Sequences, SequencesExt, FiniteSetsExt

CONSTANTS
    NCaps,              \* number of capabilities, numbered from 0
    Workers,            \* Tasks the RTS can make
    Callers,            \* OS threads from outside, with their bound threads
    Unbound,            \* Haskell threads that are not bound
    Pinned,             \* those of them that have TSO_LOCKED set
    MaxSpareWorkers,    \* MAX_SPARE_WORKERS
    Does,               \* what the program does: some of the Features
    NoTask, NoThread

Features == {"fork", "block", "ccall", "collect", "perform_gc", "migrate"}

ASSUME CapabilityAssumption ==
    /\ NCaps \in Nat \ {0}
    /\ Pinned \subseteq Unbound
    /\ MaxSpareWorkers \in Nat
    /\ Does \subseteq Features
    /\ Workers \cap Callers = {}
    /\ Unbound \cap (Workers \cup Callers) = {}
    /\ NoTask \notin Workers \cup Callers
    /\ NoThread \notin Callers \cup Unbound

Caps == 0..(NCaps - 1)
Tasks == Workers \cup Callers
Threads == Callers \cup Unbound

VARIABLES
    running,    \* cap -> running_task
    returning,  \* cap -> returning_tasks
    spare,      \* cap -> spare_workers, the next one to wake first
    runq,       \* cap -> the run queue
    inbox,      \* cap -> threads it has been sent a MSG_TRY_WAKEUP for
    home,       \* thread -> tso->cap
    blocked,    \* threads that are blocked
    live,       \* threads that exist
    sync,       \* the task behind pending_sync
    tcap,       \* task -> task->cap
    wakeup,     \* task -> task->wakeup
    pc,         \* task -> where it is
    cap,        \* task -> the capability it works on, when it holds one
    seen,       \* task -> the task->cap it has read after waking up
    then,       \* task -> where it goes on with the capability it waits for
    thr,        \* task -> the thread it runs, or has a foreign call out for
    looked,     \* task -> capabilities schedulePushWork has looked at
    grabbed     \* task -> capabilities it has got hold of to share threads with

queues == <<returning, spare, runq, inbox>>
threads == <<home, blocked, live>>
push == <<looked, grabbed>>
vars == <<running, queues, threads, sync, tcap, wakeup, pc, cap, seen, then, thr, push>>

\* isBoundTask
IsBound(t) == t \in Callers /\ t \in live

\* initCapability; each capability starts with a worker (startWorkerTasks).
Init ==
    \E w \in [Caps -> Workers] :
        /\ \A c, d \in Caps : w[c] = w[d] => c = d
        /\ running = w
        /\ pc = [t \in Tasks |-> IF t \in Callers THEN "out"
                                 ELSE IF \E c \in Caps : w[c] = t THEN "loop" ELSE "dead"]
        /\ cap = [t \in Tasks |-> IF \E c \in Caps : w[c] = t
                                  THEN CHOOSE c \in Caps : w[c] = t ELSE 0]
        /\ tcap = cap
        /\ returning = [c \in Caps |-> <<>>]
        /\ spare = [c \in Caps |-> <<>>]
        /\ runq = [c \in Caps |-> <<>>]
        /\ inbox = [c \in Caps |-> <<>>]
        /\ home = [h \in Threads |-> 0]
        /\ blocked = {} /\ live = {}
        /\ sync = NoTask
        /\ wakeup = [t \in Tasks |-> FALSE]
        /\ seen = [t \in Tasks |-> 0]
        /\ then = [t \in Tasks |-> "loop"]
        /\ thr = [t \in Tasks |-> NoThread]
        /\ looked = [t \in Tasks |-> 0]
        /\ grabbed = [t \in Tasks |-> <<>>]

Goto(t, p) == [pc EXCEPT ![t] = p]

\* The elements of a queue that are in S, in their order.
Keep(q, S) ==
    LET kept[i \in 0..Len(q)] ==
            IF i = 0 THEN <<>>
            ELSE IF q[i] \in S THEN Append(kept[i - 1], q[i])
            ELSE kept[i - 1]
    IN  kept[Len(q)]

----------------------------------------------------------------------------
(* releaseCapability_                                                      *)

Give(t) == [how |-> "give", task |-> t]
LeaveFree == [how |-> "free", task |-> NoTask]
StartWorker == [how |-> "start", task |-> NoTask]

\* (mutant: the inbox is not looked at)
WorkNotMail(always_wakeup, q, ib) == always_wakeup \/ q # <<>>

\* Is there anything for a worker to do?
Work(always_wakeup, q, ib) == always_wakeup \/ q # <<>> \/ ib # <<>>

\* (mutant: a pending sync is looked at before the returning tasks)
SuccessorSyncFirst(always_wakeup, ret, sp, q, ib) ==
    IF sync # NoTask THEN LeaveFree
    ELSE IF ret # <<>> THEN Give(Head(ret))
    ELSE IF q # <<>> /\ Head(q) \in Callers THEN Give(Head(q))
    ELSE IF sp = <<>> THEN StartWorker
    ELSE IF Work(always_wakeup, q, ib) THEN Give(Head(sp)) ELSE LeaveFree

\* Who gets a capability whose queues are ret, sp, q and ib.
Successor(always_wakeup, ret, sp, q, ib) ==
    IF ret # <<>> THEN Give(Head(ret))
    ELSE IF sync # NoTask THEN LeaveFree
    ELSE IF q # <<>> /\ Head(q) \in Callers THEN Give(Head(q))
    ELSE IF sp = <<>> THEN StartWorker
    ELSE IF Work(always_wakeup, q, ib) THEN Give(Head(sp)) ELSE LeaveFree

\* releaseCapability_(c, always_wakeup), where the caller makes the queues of c
\* sp, q and ib first, puts `late' on returning_tasks afterwards, and changes pc
\* to pcs and task->cap to tcaps.  A new worker is made with the capability in
\* its hands (startWorkerTask).
Release(c, always_wakeup, sp, q, ib, late, pcs, tcaps) ==
    LET s == Successor(always_wakeup, returning[c], sp, q, ib)
    IN  /\ returning' = [returning EXCEPT ![c] = @ \o late]
        /\ spare' = [spare EXCEPT ![c] = sp]
        /\ runq' = [runq EXCEPT ![c] = q]
        /\ inbox' = [inbox EXCEPT ![c] = ib]
        /\ wakeup' = IF s.how = "give" THEN [wakeup EXCEPT ![s.task] = TRUE] ELSE wakeup
        /\ \/ /\ s.how # "start"
              /\ running' = [running EXCEPT ![c] = NoTask]
              /\ pc' = pcs /\ tcap' = tcaps
              /\ UNCHANGED cap
           \/ /\ s.how = "start"
              /\ \E w \in {w \in Workers : pcs[w] = "dead"} :
                    /\ running' = [running EXCEPT ![c] = w]
                    /\ pc' = [pcs EXCEPT ![w] = "loop"]
                    /\ tcap' = [tcaps EXCEPT ![w] = c]
                    /\ cap' = [cap EXCEPT ![w] = c]

\* ... when the queues stay as they are
ReleasePlain(c, pcs, tcaps) ==
    Release(c, FALSE, spare[c], runq[c], inbox[c], <<>>, pcs, tcaps)

----------------------------------------------------------------------------
(* Waiting for a capability                                                *)

\* waitForCapability(c), to go on at p: grab it if it is free, else queue.
WaitForCapability(t, c, p) ==
    /\ tcap' = [tcap EXCEPT ![t] = c]
    /\ \/ /\ running[c] = NoTask
          /\ running' = [running EXCEPT ![c] = t]
          /\ cap' = [cap EXCEPT ![t] = IF p = "acquire" THEN @ ELSE c]
          /\ pc' = Goto(t, p)
          /\ UNCHANGED <<returning, then>>
       \/ /\ running[c] # NoTask
          /\ returning' = [returning EXCEPT ![c] = Append(@, t)]
          /\ pc' = Goto(t, "ret_sleep")
          /\ then' = [then EXCEPT ![t] = p]
          /\ UNCHANGED <<running, cap>>
    /\ UNCHANGED <<spare, runq, inbox, sync, wakeup, seen, push>>

\* waitForReturnCapability and waitForWorkerCapability: woken by a signal (or
\* by nothing), the task reads task->cap, ...
Awake(t) ==
    /\ seen' = [seen EXCEPT ![t] = tcap[t]]
    /\ wakeup' = [wakeup EXCEPT ![t] = FALSE]
    /\ pc' = Goto(t, IF pc[t] = "sleep" THEN "woken" ELSE "ret_woken")
    /\ UNCHANGED <<running, queues, threads, sync, tcap, cap, then, thr, push>>

WakeUp(t) == pc[t] \in {"sleep", "ret_sleep"} /\ wakeup[t] /\ Awake(t)

SpuriousWakeUp(t) == pc[t] \in {"sleep", "ret_sleep"} /\ ~wakeup[t] /\ Awake(t)

\* ... takes the lock of that capability and, if it is free but another task's
\* turn, wakes that one instead (giveCapabilityToTask).
PassOn(c, queue) ==
    IF running[c] = NoTask THEN [wakeup EXCEPT ![Head(queue)] = TRUE] ELSE wakeup

\* (mutant: the signal is taken for the capability)
FirstInLineSurely(t, c) == TRUE

FirstInLine(t, c) == running[c] = NoTask /\ Head(returning[c]) = t

TakeReturning(t) ==
    LET c == seen[t]
    IN  /\ pc[t] = "ret_woken"
        /\ IF FirstInLine(t, c)
           THEN /\ running' = [running EXCEPT ![c] = t]
                /\ returning' = [returning EXCEPT ![c] = Tail(@)]
                /\ cap' = [cap EXCEPT ![t] = IF then[t] = "acquire" THEN @ ELSE c]
                /\ pc' = Goto(t, then[t])
                /\ then' = [then EXCEPT ![t] = "loop"]
                /\ UNCHANGED wakeup
           ELSE /\ pc' = Goto(t, "ret_sleep")
                /\ wakeup' = PassOn(c, returning[c])
                /\ UNCHANGED <<running, returning, cap, then>>
        /\ seen' = [seen EXCEPT ![t] = 0]
        /\ UNCHANGED <<spare, runq, inbox, threads, sync, tcap, thr, push>>

\* (mutant: task->cap is not read again under the lock)
FreeForAnyone(t, c) == running[c] = NoTask

\* The thread of a bound task, and the task with it, may have been pushed to
\* another capability since it read task->cap.
FreeFor(t, c) == running[c] = NoTask /\ tcap[t] = c

\* (mutant: a worker stays on the queue when it goes back to work)
SpareStill(t, c) == spare

SpareWithout(t, c) == IF IsBound(t) THEN spare ELSE [spare EXCEPT ![c] = Tail(@)]

TakeWorker(t) ==
    LET c == seen[t]
    IN  /\ pc[t] = "woken"
        /\ IF FreeFor(t, c) /\ (IsBound(t) \/ Head(spare[c]) = t)
           THEN /\ running' = [running EXCEPT ![c] = t]
                /\ spare' = SpareWithout(t, c)
                /\ cap' = [cap EXCEPT ![t] = c]
                /\ pc' = Goto(t, then[t])
                /\ then' = [then EXCEPT ![t] = "loop"]
                /\ UNCHANGED wakeup
           ELSE /\ pc' = Goto(t, "sleep")
                /\ wakeup' = IF FreeFor(t, c) THEN PassOn(c, spare[c]) ELSE wakeup
                /\ UNCHANGED <<running, spare, cap, then>>
        /\ seen' = [seen EXCEPT ![t] = 0]
        /\ UNCHANGED <<returning, runq, inbox, threads, sync, tcap, thr, push>>

----------------------------------------------------------------------------
(* yieldCapability                                                         *)

\* Give up the capability, to go on at p when it is back: the flag first, ...
YieldCapability(t, p) ==
    /\ wakeup' = [wakeup EXCEPT ![t] = FALSE]
    /\ then' = [then EXCEPT ![t] = p]
    /\ pc' = Goto(t, "yield_lock")
    /\ UNCHANGED <<running, queues, threads, sync, tcap, cap, seen, thr, push>>

\* enqueueWorker: there are spare workers enough
Crowded(c) == Len(spare[c]) >= MaxSpareWorkers

\* ... then, under the lock, a worker joins the spare ones or, if there are
\* enough, ends; a task that is neither a worker nor bound queues up again.
YieldRelease(t) ==
    LET c == cap[t]
    IN  /\ pc[t] = "yield_lock"
        /\ \/ /\ t \in Workers /\ ~Crowded(c)
              /\ Release(c, FALSE, <<t>> \o spare[c], runq[c], inbox[c], <<>>,
                         Goto(t, "sleep"), tcap)
           \/ /\ t \in Workers /\ Crowded(c)
              /\ ReleasePlain(c, Goto(t, "dead"), tcap)
           \/ /\ IsBound(t)
              /\ ReleasePlain(c, Goto(t, "sleep"), tcap)
           \/ /\ t \in Callers /\ ~IsBound(t)
              /\ Release(c, FALSE, spare[c], runq[c], inbox[c], <<t>>,
                         Goto(t, "ret_sleep"), tcap)
        /\ UNCHANGED <<threads, sync, seen, then, thr, push>>

----------------------------------------------------------------------------
(* schedule(), by a task t that holds cap[t]                               *)

\* scheduleProcessInbox: a thread that was blocked goes on the run queue.
ProcessInbox(t) ==
    LET c == cap[t]
        woken == Keep(inbox[c], blocked)
    IN  /\ pc[t] = "loop"
        /\ runq' = [runq EXCEPT ![c] = @ \o woken]
        /\ blocked' = blocked \ ToSet(woken)
        /\ inbox' = [inbox EXCEPT ![c] = <<>>]
        /\ pc' = Goto(t, "push")
        /\ UNCHANGED <<running, returning, spare, home, live, sync, tcap, wakeup, cap,
                        seen, then, thr, push>>

\* ... but the messages stay if somebody else has the lock just now.
InboxBusy(t) ==
    /\ pc[t] = "loop"
    /\ inbox[cap[t]] # <<>>
    /\ pc' = Goto(t, "push")
    /\ UNCHANGED <<running, queues, threads, sync, tcap, wakeup, cap, seen, then, thr, push>>

\* shouldYieldCapability
ShouldYield(t) ==
    LET c == cap[t]
    IN  \/ sync # NoTask
        \/ returning[c] # <<>>
        \/ /\ runq[c] # <<>>
           /\ IF IsBound(t) THEN Head(runq[c]) # t ELSE Head(runq[c]) \in Callers

\* scheduleYield: go on if there is something to do, else sleep.
ScheduleYield(t) ==
    LET c == cap[t]
    IN  /\ pc[t] = "yield"
        /\ \/ /\ ~ShouldYield(t) /\ (runq[c] # <<>> \/ inbox[c] # <<>>)
              /\ pc' = Goto(t, "pick")
              /\ UNCHANGED <<running, queues, threads, sync, tcap, wakeup, cap, seen,
                              then, thr, push>>
           \/ /\ ShouldYield(t) \/ (runq[c] = <<>> /\ inbox[c] = <<>>)
              /\ YieldCapability(t, "yielded")

\* Back from yieldCapability: again, as long as somebody else should have it.
Yielded(t) ==
    /\ pc[t] = "yielded"
    /\ \/ ShouldYield(t) /\ YieldCapability(t, "yielded")
       \/ /\ ~ShouldYield(t)
          /\ pc' = Goto(t, "pick")
          /\ UNCHANGED <<running, queues, threads, sync, tcap, wakeup, cap, seen, then,
                          thr, push>>

\* popRunQueue, and run the thread if this task may run it.
Pick(t) ==
    LET c == cap[t]
        mayRun == runq[c] # <<>> /\ (IF IsBound(t) THEN Head(runq[c]) = t
                                     ELSE Head(runq[c]) \in Unbound)
    IN  /\ pc[t] = "pick"
        /\ IF mayRun
           THEN /\ thr' = [thr EXCEPT ![t] = Head(runq[c])]
                /\ runq' = [runq EXCEPT ![c] = Tail(@)]
                /\ pc' = Goto(t, "run")
           ELSE /\ pc' = Goto(t, "loop")
                /\ UNCHANGED <<thr, runq>>
        /\ UNCHANGED <<running, returning, spare, inbox, threads, sync, tcap, wakeup, cap,
                        seen, then, push>>

----------------------------------------------------------------------------
(* schedulePushWork                                                        *)

Wanted(t) ==
    IF "migrate" \in Does /\ Len(runq[cap[t]]) > 0 THEN Len(runq[cap[t]]) - 1 ELSE 0

\* The capability the loop over the others has come to.
Candidate(t) == (cap[t] + looked[t] + 1) % NCaps

Looking(t) == looked[t] < NCaps - 1 /\ Len(grabbed[t]) < Wanted(t)

\* tryGrabCapability fails: the capability, or its lock, is taken.
GrabFails(t) ==
    /\ pc[t] = "push" /\ Looking(t)
    /\ looked' = [looked EXCEPT ![t] = @ + 1]
    /\ UNCHANGED <<running, queues, threads, sync, tcap, wakeup, pc, cap, seen, then,
                    thr, grabbed>>

\* It succeeds; a capability that has work after all is given back.
Grab(t) ==
    LET d == Candidate(t)
    IN  /\ pc[t] = "push" /\ Looking(t)
        /\ running[d] = NoTask
        /\ running' = [running EXCEPT ![d] = t]
        /\ tcap' = [tcap EXCEPT ![t] = d]
        /\ IF runq[d] # <<>> \/ returning[d] # <<>> \/ inbox[d] # <<>>
           THEN pc' = Goto(t, "push_back") /\ UNCHANGED push
           ELSE /\ grabbed' = [grabbed EXCEPT ![t] = Append(@, d)]
                /\ looked' = [looked EXCEPT ![t] = @ + 1]
                /\ UNCHANGED pc
        /\ UNCHANGED <<queues, threads, sync, wakeup, cap, seen, then, thr>>

PushBack(t) ==
    /\ pc[t] = "push_back"
    /\ looked' = [looked EXCEPT ![t] = @ + 1]
    /\ ReleasePlain(Candidate(t), Goto(t, "push"), tcap)
    /\ UNCHANGED <<threads, sync, seen, then, thr, grabbed>>

\* (mutant: the task's own thread may go)
StaysPinned(t, h) == h \in Pinned

Stays(t, h) == h = t \/ h \in Pinned

\* The loop of schedulePushWork comes to the thread h: it stays, or goes, with keep to
\* stay in all.
ShareNext(t, a, h) ==
    IF a.left <= a.keep THEN [a EXCEPT !.rest = Append(@, h)]
    ELSE IF Stays(t, h)
    THEN [a EXCEPT !.rest = Append(@, h), !.keep = IF @ > 0 THEN @ - 1 ELSE 0]
    ELSE [a EXCEPT !.left = @ - 1, !.moved = Append(@, h)]

\* One pass over the run queue: threads go to the grabbed capabilities in turn
\* until keep are left; the task's own thread and pinned ones stay.
Share(t) ==
    LET q == runq[cap[t]]
        n == Len(grabbed[t])
        pass[i \in 0..Len(q)] ==
            IF i = 0 THEN [keep |-> (Len(q) + n) \div (n + 1), left |-> Len(q),
                           rest |-> <<>>, moved |-> <<>>]
            ELSE ShareNext(t, pass[i - 1], q[i])
    IN  pass[Len(q)]

\* Where those that go, go.
Dest(t) ==
    LET moved == Share(t).moved
        index(h) == CHOOSE k \in DOMAIN moved : moved[k] = h
    IN  [h \in ToSet(moved) |-> grabbed[t][((index(h) - 1) % Len(grabbed[t])) + 1]]

\* (mutant: the tasks of bound threads are not told)
TaskCapsStay(dest) == tcap

\* The tasks of bound threads move with them.
TaskCaps(dest) == [u \in Tasks |-> IF u \in DOMAIN dest THEN dest[u] ELSE tcap[u]]

ShareThreads(t) ==
    LET c  == cap[t]
        g  == grabbed[t]
        sh == Share(t)
        dest == Dest(t)
    IN  /\ pc[t] = "push" /\ ~Looking(t)
        /\ IF g = <<>>
           THEN /\ tcap' = [tcap EXCEPT ![t] = c]
                /\ looked' = [looked EXCEPT ![t] = 0]
                /\ pc' = Goto(t, "yield")
                /\ UNCHANGED <<runq, home>>
           ELSE /\ runq' = [d \in Caps |->
                              IF d = c THEN sh.rest
                              ELSE runq[d] \o Keep(sh.moved, {h \in DOMAIN dest : dest[h] = d})]
                /\ home' = [h \in Threads |-> IF h \in DOMAIN dest THEN dest[h] ELSE home[h]]
                /\ tcap' = TaskCaps(dest)
                /\ pc' = Goto(t, "push_release")
                /\ UNCHANGED looked
        /\ UNCHANGED <<running, returning, spare, inbox, blocked, live, sync, wakeup, cap,
                        seen, then, thr, grabbed>>

\* The capabilities are released one by one.
PushRelease(t) ==
    /\ pc[t] = "push_release"
    /\ IF grabbed[t] = <<>>
       THEN /\ tcap' = [tcap EXCEPT ![t] = cap[t]]
            /\ looked' = [looked EXCEPT ![t] = 0]
            /\ pc' = Goto(t, "yield")
            /\ UNCHANGED <<running, queues, wakeup, cap, grabbed>>
       ELSE /\ grabbed' = [grabbed EXCEPT ![t] = Tail(@)]
            /\ ReleasePlain(Head(grabbed[t]), pc, [tcap EXCEPT ![t] = Head(grabbed[t])])
            /\ UNCHANGED looked
    /\ UNCHANGED <<threads, sync, seen, then, thr>>

----------------------------------------------------------------------------
(* The thread runs                                                         *)

\* Its time slice is over.
ThreadYields(t) ==
    /\ pc[t] = "run"
    /\ runq' = [runq EXCEPT ![cap[t]] = Append(@, thr[t])]
    /\ thr' = [thr EXCEPT ![t] = NoThread]
    /\ pc' = Goto(t, "loop")
    /\ UNCHANGED <<running, returning, spare, inbox, threads, sync, tcap, wakeup, cap,
                    seen, then, push>>

ThreadBlocks(t) ==
    /\ pc[t] = "run"
    /\ "block" \in Does
    /\ blocked' = blocked \cup {thr[t]}
    /\ thr' = [thr EXCEPT ![t] = NoThread]
    /\ pc' = Goto(t, "loop")
    /\ UNCHANGED <<running, queues, home, live, sync, tcap, wakeup, cap, seen, then, push>>

\* It wakes up a blocked thread h, tryWakeupThread: with a message if h is
\* another capability's, and that capability is woken up if it is idle.
WakeThread(t, h) ==
    LET c == cap[t]
        d == home[h]
    IN  /\ pc[t] = "run"
        /\ h \in blocked
        /\ \A e \in Caps : h \notin ToSet(inbox[e])     \* one message at a time is enough
        /\ IF d = c
           THEN /\ runq' = [runq EXCEPT ![c] = Append(@, h)]
                /\ blocked' = blocked \ {h}
                /\ UNCHANGED <<running, returning, spare, inbox, tcap, wakeup, pc, cap>>
           ELSE /\ IF running[d] = NoTask
                   THEN Release(d, TRUE, spare[d], runq[d], <<h>> \o inbox[d], <<>>, pc, tcap)
                   ELSE /\ inbox' = [inbox EXCEPT ![d] = <<h>> \o @]
                        /\ UNCHANGED <<running, returning, spare, runq, tcap, wakeup, pc, cap>>
                /\ UNCHANGED blocked
        /\ UNCHANGED <<home, live, sync, seen, then, thr, push>>

Fork(t, h) ==
    /\ pc[t] = "run"
    /\ "fork" \in Does
    /\ h \in Unbound \ live
    /\ live' = live \cup {h}
    /\ home' = [home EXCEPT ![h] = cap[t]]
    /\ runq' = [runq EXCEPT ![cap[t]] = Append(@, h)]
    /\ UNCHANGED <<running, returning, spare, inbox, blocked, sync, tcap, wakeup, pc, cap,
                    seen, then, thr, push>>

\* The thread ends; if it is bound, its task leaves the scheduler.
ThreadFinishes(t) ==
    /\ pc[t] = "run"
    /\ live' = live \ {thr[t]}
    /\ thr' = [thr EXCEPT ![t] = NoThread]
    /\ pc' = Goto(t, IF thr[t] \in Callers THEN "exit" ELSE "loop")
    /\ UNCHANGED <<running, queues, home, blocked, sync, tcap, wakeup, cap, seen, then, push>>

\* suspendThread, before a safe foreign call, and resumeThread after it
SuspendThread(t) ==
    /\ pc[t] = "run"
    /\ "ccall" \in Does
    /\ ReleasePlain(cap[t], Goto(t, "ccall"), tcap)
    /\ UNCHANGED <<threads, sync, seen, then, thr, push>>

ResumeThread(t) ==
    /\ pc[t] = "ccall"
    /\ WaitForCapability(t, cap[t], "run")
    /\ UNCHANGED <<threads, thr>>

----------------------------------------------------------------------------
(* Calls from outside                                                      *)

\* rts_lock; find_capability_for_task may come up with any capability
RtsLock(t, c) ==
    /\ pc[t] = "out"
    /\ WaitForCapability(t, c, "enter")
    /\ UNCHANGED <<threads, thr>>

\* performGC
PerformGC(t, c) ==
    /\ pc[t] = "out"
    /\ "perform_gc" \in Does
    /\ WaitForCapability(t, c, "sync")
    /\ UNCHANGED <<threads, thr>>

\* scheduleWaitThread makes the bound thread
Enter(t) ==
    /\ pc[t] = "enter"
    /\ live' = live \cup {t}
    /\ home' = [home EXCEPT ![t] = cap[t]]
    /\ runq' = [runq EXCEPT ![cap[t]] = Append(@, t)]
    /\ pc' = Goto(t, "loop")
    /\ UNCHANGED <<running, returning, spare, inbox, blocked, sync, tcap, wakeup, cap,
                    seen, then, thr, push>>

\* rts_unlock; the end of performGC
Exit(t) ==
    /\ pc[t] = "exit"
    /\ ReleasePlain(cap[t], Goto(t, "out"), tcap)
    /\ UNCHANGED <<threads, sync, seen, then, thr, push>>

----------------------------------------------------------------------------
(* scheduleDoGC, sequential: requestSync, acquireAllCapabilities,          *)
(* releaseAllCapabilities                                                  *)

\* A thread runs out of heap.
HeapOverflow(t) ==
    /\ pc[t] = "run"
    /\ "collect" \in Does
    /\ runq' = [runq EXCEPT ![cap[t]] = <<thr[t]>> \o @]
    /\ thr' = [thr EXCEPT ![t] = NoThread]
    /\ pc' = Goto(t, "sync")
    /\ UNCHANGED <<running, returning, spare, inbox, threads, sync, tcap, wakeup, cap,
                    seen, then, push>>

AfterGC(t) == IF t \in Workers \/ IsBound(t) THEN "loop" ELSE "exit"

\* requestSync: if another task was first, let it have the capability; its
\* collection will do.
RequestSync(t) ==
    /\ pc[t] = "sync"
    /\ \/ /\ sync = NoTask
          /\ sync' = t
          /\ pc' = Goto(t, "acquire")
          /\ UNCHANGED <<running, queues, threads, tcap, wakeup, cap, seen, then, thr, push>>
       \/ sync # NoTask /\ YieldCapability(t, "sync_wait")

SyncWait(t) ==
    /\ pc[t] = "sync_wait"
    /\ \/ sync # NoTask /\ YieldCapability(t, "sync_wait")
       \/ /\ sync = NoTask
          /\ pc' = Goto(t, AfterGC(t))
          /\ UNCHANGED <<running, queues, threads, sync, tcap, wakeup, cap, seen, then,
                          thr, push>>

\* acquireAllCapabilities, one capability after the other, ...
Missing(t) == {c \in Caps : running[c] # t}

Acquire(t) ==
    /\ pc[t] = "acquire"
    /\ Missing(t) # {}
    /\ WaitForCapability(t, Min(Missing(t)), "acquire")
    /\ UNCHANGED <<threads, thr>>

\* ... collect with all of them, ...
Collect(t) ==
    /\ pc[t] = "acquire"
    /\ Missing(t) = {}
    /\ tcap' = [tcap EXCEPT ![t] = cap[t]]
    /\ sync' = NoTask
    /\ pc' = Goto(t, "release")
    /\ UNCHANGED <<running, queues, threads, wakeup, cap, seen, then, thr, push>>

\* (mutant: task->cap is left at the last capability released)
ReleaseAllForgets(t) ==
    LET others == {c \in Caps : running[c] = t} \ {cap[t]}
    IN  /\ pc[t] = "release"
        /\ IF others = {}
           THEN /\ pc' = Goto(t, AfterGC(t))
                /\ UNCHANGED <<running, queues, tcap, wakeup, cap>>
           ELSE ReleasePlain(Min(others), pc, [tcap EXCEPT ![t] = Min(others)])
        /\ UNCHANGED <<threads, sync, seen, then, thr, push>>

\* (mutant: the capabilities are freed without waking anyone)
ReleaseAllQuietly(t) ==
    /\ pc[t] = "release"
    /\ running' = [c \in Caps |-> IF running[c] = t /\ c # cap[t] THEN NoTask ELSE running[c]]
    /\ tcap' = [tcap EXCEPT ![t] = cap[t]]
    /\ pc' = Goto(t, AfterGC(t))
    /\ UNCHANGED <<queues, threads, sync, wakeup, cap, seen, then, thr, push>>

\* ... and let go of all but the first.
ReleaseAll(t) ==
    LET others == {c \in Caps : running[c] = t} \ {cap[t]}
    IN  /\ pc[t] = "release"
        /\ IF others = {}
           THEN /\ tcap' = [tcap EXCEPT ![t] = cap[t]]
                /\ pc' = Goto(t, AfterGC(t))
                /\ UNCHANGED <<running, queues, wakeup, cap>>
           ELSE ReleasePlain(Min(others), pc, [tcap EXCEPT ![t] = Min(others)])
        /\ UNCHANGED <<threads, sync, seen, then, thr, push>>

----------------------------------------------------------------------------
\* The steps of the RTS itself.
Step(t) ==
    \/ WakeUp(t) \/ TakeReturning(t) \/ TakeWorker(t)
    \/ YieldRelease(t)
    \/ ProcessInbox(t) \/ ScheduleYield(t) \/ Yielded(t) \/ Pick(t)
    \/ Grab(t) \/ GrabFails(t) \/ PushBack(t) \/ ShareThreads(t) \/ PushRelease(t)
    \/ Enter(t) \/ Exit(t)
    \/ RequestSync(t) \/ SyncWait(t) \/ Acquire(t) \/ Collect(t) \/ ReleaseAll(t)

\* A running thread is stopped by the timer at the latest.
Slice(t) ==
    \/ ThreadYields(t) \/ ThreadBlocks(t) \/ ThreadFinishes(t)
    \/ SuspendThread(t) \/ HeapOverflow(t)

Program(t) ==
    \/ Slice(t)
    \/ \E h \in Threads : WakeThread(t, h) \/ Fork(t, h)
    \/ ResumeThread(t)
    \/ \E c \in Caps : RtsLock(t, c) \/ PerformGC(t, c)

Next == \E t \in Tasks : Step(t) \/ Program(t) \/ SpuriousWakeUp(t) \/ InboxBusy(t)

Spec == Init /\ [][Next]_vars

\* Every OS thread that can take a step of the RTS takes it at last, the timer
\* stops every running thread, and a condition variable does not wake its
\* waiter for no reason again and again.  Nobody has to call in, or to return
\* from a foreign call, and nothing says who gets a lock first.
FairSpec ==
    /\ Spec
    /\ \A t \in Tasks : WF_vars(Step(t)) /\ WF_vars(Slice(t))
    /\ <>[][\A t \in Tasks : ~SpuriousWakeUp(t)]_vars

----------------------------------------------------------------------------
(* Properties                                                              *)

\* Where a task works with the capability cap[t], and where with several.
Holding == {"loop", "push", "push_back", "push_release", "yield", "yield_lock", "yielded",
            "pick", "run", "enter", "exit", "sync", "sync_wait", "acquire", "release"}
Sleeping == {"sleep", "woken", "ret_sleep", "ret_woken"}

Acquiring(t) == pc[t] = "acquire" \/ (pc[t] \in {"ret_sleep", "ret_woken"} /\ then[t] = "acquire")

Holds(t) == pc[t] \in Holding \/ Acquiring(t)

\* A capability has one owner: a task that works on a capability is its
\* running_task, and a running_task knows that it is one.  Haskell code on one
\* capability is never run by two OS threads, whoever wakes, barges in, pushes
\* work or collects at the moment.
OneOwner ==
    /\ \A t \in Tasks : Holds(t) => running[cap[t]] = t
    /\ \A c \in Caps : running[c] # NoTask =>
          LET t == running[c]
          IN  /\ Holds(t)
              /\ \/ cap[t] = c
                 \/ Acquiring(t) \/ pc[t] = "release"
                 \/ pc[t] = "push_back" /\ c = Candidate(t)
                 \/ c \in ToSet(grabbed[t])

\* ASSERT_FULL_CAPABILITY_INVARIANTS in schedule(), and before a thread is run
\* "ASSERT(t->cap == cap)" and "ASSERT(t->bound ? t->bound->task->cap == cap : 1)":
\* although others change task->cap and tso->cap when they push work.
RunsAtHome ==
    \A t \in Tasks :
        /\ pc[t] \in {"loop", "yield", "yield_lock", "yielded", "pick", "run", "sync_wait"} =>
              tcap[t] = cap[t]
        /\ pc[t] = "run" => home[thr[t]] = cap[t]
        /\ pc[t] = "run" => thr[t] = t \/ (thr[t] \in Unbound /\ t \in Workers)

\* No Haskell thread is lost or run twice: each is in one place, on a run queue
\* (of its own capability), with a task, or blocked.
ThreadsInOnePlace ==
    \A h \in live :
        LET queued == UNION {{c} \X {i \in DOMAIN runq[c] : runq[c][i] = h} : c \in Caps}
            with   == {t \in Tasks : thr[t] = h}
        IN  /\ Cardinality(queued) + Cardinality(with) + (IF h \in blocked THEN 1 ELSE 0) = 1
            /\ \A p \in queued : home[h] = p[1]
            /\ h \in Callers /\ pc[h] \in Sleeping /\ ~Acquiring(h) => tcap[h] = home[h]

\* A sleeping task can be found by whoever releases the capability it sleeps
\* for: it is in the one queue that belongs to task->cap, once, and nobody
\* else is in a queue.
QueuedWhileAsleep ==
    \A t \in Tasks, c \in Caps :
        LET in(q) == Cardinality({i \in DOMAIN q : q[i] = t})
        IN  /\ in(returning[c]) =
                  IF pc[t] \in {"ret_sleep", "ret_woken"} /\ tcap[t] = c THEN 1 ELSE 0
            /\ in(spare[c]) =
                  IF t \in Workers /\ pc[t] \in {"sleep", "woken"} /\ tcap[t] = c THEN 1 ELSE 0

\* Somebody is on the way to capability c: with a signal that it has not seen
\* yet, awake and not yet at the lock, or about to stop the world.
OnTheWay(c) ==
    \E t \in Tasks :
        \/ pc[t] \in Sleeping /\ wakeup[t] /\ tcap[t] = c
        \/ pc[t] \in {"woken", "ret_woken"} /\ seen[t] = c /\ tcap[t] = c
        \/ sync = t

\* No work is stranded: a capability nobody owns, but for which a task waits, a
\* thread is ready or a message has arrived, is about to be taken by someone.
\* ("we must ensure a Capability never goes idle if the inbox is non-empty")
NothingStranded ==
    \A c \in Caps :
        /\ running[c] = NoTask
        /\ returning[c] # <<>> \/ runq[c] # <<>> \/ inbox[c] # <<>>
        => OnTheWay(c)

\* A request to stop the world is met: the task that has set pending_sync gets
\* every capability and clears it, although other tasks may take a capability
\* it waits for before it is awake.
SyncCompletes == \A t \in Tasks : (sync = t) ~> (sync # t)
============================================================================
