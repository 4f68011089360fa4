----------------------------- MODULE BlackHole -----------------------------
(***************************************************************************)
(* The evaluation of thunks by several threads (rts/Updates.h, Note        *)
(* [Thunks, blackholes, and indirections]): lazy blackholing and the       *)
(* suspension of duplicate work in threadPaused, eager blackholing on      *)
(* entry, the MSG_BLACKHOLE messages and BLOCKING_QUEUEs of those who wait *)
(* for a thunk, the updates that wake them, and the AP_STACKs into which   *)
(* raiseAsync turns a computation that is given up.                        *)
(*                                                                         *)
(* A thunk is claimed and updated with plain stores, to its indirectee and *)
(* then to its info pointer, so that two threads may evaluate it; what     *)
(* must not happen is that nobody does, or that somebody waits for a       *)
(* thread that does not.  Each store to a thunk is a step of its own.      *)
(***************************************************************************)
EXTENDS Naturals, Sequences, FiniteSets

CONSTANTS
    Caps,           \* the capabilities
    Threads,
    Start,          \* thread -> its first capability
    Wants,          \* thread -> the closures it evaluates, one after the other
    Needs,          \* thunk -> the closures its code evaluates
    Eager,          \* the thunks whose code was compiled with -feager-blackholing
    NoThread,
    MaxAPs,         \* bound: AP_STACKs allocated
    MaxMsgs,        \* bound: MSG_BLACKHOLEs in use at the same time
    MaxQueues,      \* bound: BLOCKING_QUEUEs in use at the same time
    MaxEvents       \* bound: ends of time slices, exceptions and migrations

Thunks == DOMAIN Needs          \* 1..n
APs == Len(Needs) + 1 .. Len(Needs) + MaxAPs
Closures == Thunks \cup APs
Msgs == 1..MaxMsgs
Queues == 1..MaxQueues
None == 0

ASSUME BlackHoleAssumption ==
    /\ Start \in [Threads -> Caps]
    /\ NoThread \notin Threads
    /\ Needs \in Seq(Seq(Nat \ {0}))
    /\ \A k \in Thunks : \A i \in DOMAIN Needs[k] : Needs[k][i] \in 1..k - 1
    /\ Wants \in [Threads -> Seq(Thunks)]
    /\ Eager \subseteq Thunks
    /\ {MaxAPs, MaxMsgs, MaxQueues, MaxEvents} \subseteq Nat

VARIABLES
    info,       \* closure -> its info pointer
    ind,        \* closure -> its indirectee
    code,       \* closure -> the closures its code evaluates
    bq,         \* BLOCKING_QUEUE objects: [live, bh, owner, queue]
    msg,        \* MSG_BLACKHOLE objects: [live, tso, bh]
    inbox,      \* cap -> the MSG_BLACKHOLEs in its inbox
    wakeups,    \* cap -> thread -> MSG_TRY_WAKEUPs for it in the inbox
    home,       \* thread -> its capability
    stack,      \* thread -> its frames, the top first: [kind, upd, todo]
    enter,      \* thread -> the closure it is going to enter, or None
    why,        \* thread -> why_blocked, or "Finished"
    block_info, \* thread -> the message it waits for
    running,    \* cap -> the thread that runs or is worked on
    pc,         \* cap -> where it is
    at,         \* cap -> the frame that threadPaused or raiseAsync has got to
    upd,        \* cap -> the update under way: [val, seen], and whether to freeze on
    cur,        \* cap -> the message under way
    events

heap == <<info, ind, code>>
blocking == <<bq, msg, inbox, wakeups>>
thread == <<stack, enter, why, block_info, home>>
cap == <<running, pc, at, upd, cur>>
vars == <<heap, blocking, thread, cap, events>>

\* What an indirectee points to.
Null == [to |-> "null", id |-> None]
Value == [to |-> "value", id |-> None]
TSO(t) == [to |-> "tso", id |-> t]
BQ(q) == [to |-> "bq", id |-> q]
Closure(k) == [to |-> "closure", id |-> k]

NoUpdate == [val |-> Null, seen |-> Null]
Stop(t) == [kind |-> "stop", upd |-> None, todo |-> Wants[t]]

Init ==
    /\ info = [k \in Closures |-> IF k \in Thunks THEN "THUNK" ELSE "unallocated"]
    /\ ind = [k \in Closures |-> Null]
    /\ code = [k \in Closures |-> IF k \in Thunks THEN Needs[k] ELSE <<>>]
    /\ bq = [q \in Queues |-> [live |-> FALSE, bh |-> None, owner |-> NoThread, queue |-> {}]]
    /\ msg = [m \in Msgs |-> [live |-> FALSE, tso |-> NoThread, bh |-> None]]
    /\ inbox = [c \in Caps |-> {}]
    /\ wakeups = [c \in Caps |-> [t \in Threads |-> 0]]
    /\ home = Start
    /\ stack = [t \in Threads |-> <<Stop(t)>>]
    /\ enter = [t \in Threads |-> None]
    /\ why = [t \in Threads |-> "NotBlocked"]
    /\ block_info = [t \in Threads |-> None]
    /\ running = [c \in Caps |-> NoThread]
    /\ pc = [c \in Caps |-> "sched"]
    /\ at = [c \in Caps |-> 1]
    /\ upd = [c \in Caps |-> NoUpdate]
    /\ cur = [c \in Caps |-> None]
    /\ events = 0

Goto(c, l) == pc' = [pc EXCEPT ![c] = l]

----------------------------------------------------------------------------
(* Waking threads up                                                       *)

TryWakeupHere(c, ts) ==             \* mutant: no message to the other capabilities
    /\ why' = [t \in Threads |->
                 IF t \in ts /\ home[t] = c /\ why[t] = "BlockedOnBlackHole"
                 THEN "NotBlocked" ELSE why[t]]
    /\ UNCHANGED wakeups

\* tryWakeupThread on capability c, for each of ts
TryWakeup(c, ts) ==
    /\ why' = [t \in Threads |->
                 IF t \in ts /\ home[t] = c /\ why[t] = "BlockedOnBlackHole"
                 THEN "NotBlocked" ELSE why[t]]
    /\ wakeups' = [d \in Caps |-> [t \in Threads |->
                     wakeups[d][t] + IF t \in ts /\ home[t] # c /\ home[t] = d THEN 1 ELSE 0]]

\* wakeBlockingQueue, for each of qs: the queues become INDs
WakeQueues(c, qs) ==
    /\ TryWakeup(c, {msg[m].tso : m \in {m \in UNION {bq[q].queue : q \in qs} : msg[m].live}})
    /\ bq' = [q \in Queues |-> IF q \in qs THEN [bq[q] EXCEPT !.live = FALSE, !.queue = {}]
                                           ELSE bq[q]]

\* The queues on tso->bq
QueuesOf(t) == {q \in Queues : bq[q].live /\ bq[q].owner = t}

\* checkBlockingQueues wakes those whose closure does not point to them any more.
Orphans(t) ==
    {q \in QueuesOf(t) : info[bq[q].bh] # "BLACKHOLE" \/ ind[bq[q].bh] # BQ(q)}

----------------------------------------------------------------------------
(* Blocking on a black hole                                                *)

Owner(k) == CASE ind[k].to = "tso" -> ind[k].id
              [] ind[k].to = "bq" -> bq[ind[k].id].owner
              [] OTHER -> NoThread

Evaluated(k) == ind[k].to \in {"value", "closure"}

FreeMsgs == {m \in Msgs : /\ \A c \in Caps : m \notin inbox[c] /\ cur[c] # m
                          /\ \A q \in Queues : m \notin bq[q].queue
                          /\ \A t \in Threads : why[t] # "BlockedOnBlackHole" \/ block_info[t] # m}
FreeQueues == {q \in Queues : ~bq[q].live /\ \A k \in Closures : ind[k] # BQ(q)}
First(s) == CHOOSE x \in s : \A y \in s : x <= y

\* messageBlackHole returns 1: the running thread blocks, a message is done with.
StillBlocked(c, m) ==
    /\ cur' = [cur EXCEPT ![c] = None]
    /\ IF running[c] = NoThread
       THEN Goto(c, "sched") /\ UNCHANGED <<why, block_info>>
       ELSE /\ why' = [why EXCEPT ![running[c]] = "BlockedOnBlackHole"]
            /\ block_info' = [block_info EXCEPT ![running[c]] = m]
            /\ Goto(c, "pause")

\* messageBlackHole, about message m of thread t for the black hole k
MessageBlackHole(c, m, t, k) ==
    LET o == Owner(k) IN
    /\ info[k] # "WHITEHOLE" /\ o # NoThread
    /\ \/ /\ home[o] # c
          /\ inbox' = [d \in Caps |-> IF d = home[o] THEN inbox[d] \cup {m} ELSE inbox[d] \ {m}]
          /\ StillBlocked(c, m)
          /\ UNCHANGED bq
       \/ /\ home[o] = c /\ ind[k].to = "bq"
          /\ bq' = [bq EXCEPT ![ind[k].id].queue = @ \cup {m}]
          /\ inbox' = [inbox EXCEPT ![c] = @ \ {m}]
          /\ StillBlocked(c, m)
       \/ /\ home[o] = c /\ ind[k].to = "tso"       \* it needs a new BLOCKING_QUEUE
          /\ FreeQueues # {}
          /\ bq' = [bq EXCEPT ![First(FreeQueues)] =
                      [live |-> TRUE, bh |-> k, owner |-> o, queue |-> {m}]]
          /\ inbox' = [inbox EXCEPT ![c] = @ \ {m}]
          /\ cur' = [cur EXCEPT ![c] = m]
          /\ Goto(c, "queue")
          /\ UNCHANGED <<why, block_info>>
    /\ UNCHANGED wakeups

\* ... and the last thing it does with it: whatever the indirectee is by now, the
\* black hole points to the queue.
StoreQueue(c) ==
    /\ pc[c] = "queue"
    /\ LET q == CHOOSE q \in Queues : bq[q].live /\ cur[c] \in bq[q].queue
       IN  ind' = [ind EXCEPT ![bq[q].bh] = BQ(q)]
    /\ StillBlocked(c, cur[c])
    /\ UNCHANGED <<info, code, blocking, stack, enter, running, at, upd, home, events>>

\* executeMessage, MSG_BLACKHOLE
TakeMessage(c, m) ==
    /\ pc[c] = "sched" /\ m \in inbox[c]
    /\ LET t == msg[m].tso
           k == msg[m].bh
       IN  \/ /\ ~msg[m].live \/ Evaluated(k)
              /\ inbox' = [inbox EXCEPT ![c] = @ \ {m}]
              /\ TryWakeup(c, IF msg[m].live THEN {t} ELSE {})
              /\ UNCHANGED <<bq, block_info, pc, cur>>
           \/ msg[m].live /\ MessageBlackHole(c, m, t, k)
    /\ UNCHANGED <<heap, msg, stack, enter, running, at, upd, home, events>>

----------------------------------------------------------------------------
(* Evaluation                                                              *)

Top(t) == Head(stack[t])

\* The closure that t enters next: one it has been told to enter, or the next that
\* its code needs.
Next1(t) == IF enter[t] # None THEN enter[t]
            ELSE IF Top(t).todo # <<>> THEN Head(Top(t).todo) ELSE None

\* The stack when t has dealt with it
NextDone(t) == IF enter[t] # None THEN stack[t] ELSE [stack[t] EXCEPT ![1].todo = Tail(@)]

\* t is through with it, and its stack has the frames fs on top.
Proceed(t, fs) ==
    /\ enter' = [enter EXCEPT ![t] = None]
    /\ stack' = [stack EXCEPT ![t] = fs \o NextDone(t)]

\* t must come back to it.
Later(t, k) ==
    /\ enter' = [enter EXCEPT ![t] = k]
    /\ stack' = [stack EXCEPT ![t] = NextDone(t)]

\* The code of a thunk pushes an update frame; with eager blackholing, and that of an
\* AP_STACK, it stores the thread and a new info pointer first (Claim).
EnterThunk(c, t, k) ==
    /\ info[k] = "THUNK"
    /\ IF k \in Eager
       THEN /\ Proceed(t, <<[kind |-> "bh", upd |-> k, todo |-> code[k]]>>)
            /\ Goto(c, "claim_ind")
       ELSE /\ Proceed(t, <<[kind |-> "upd", upd |-> k, todo |-> code[k]]>>)
            /\ UNCHANGED pc
    /\ UNCHANGED info

EnterAPStackPlain(c, t, k) ==       \* mutant: not claimed with cmpxchg
    /\ info[k] = "AP_STACK"
    /\ Proceed(t, <<[kind |-> "bh", upd |-> k, todo |-> code[k]]>>)
    /\ Goto(c, "claim_ind")
    /\ UNCHANGED info

EnterAPStack(c, t, k) ==
    /\ info[k] = "AP_STACK"
    /\ info' = [info EXCEPT ![k] = "WHITEHOLE"]
    /\ Proceed(t, <<[kind |-> "bh", upd |-> k, todo |-> code[k]]>>)
    /\ Goto(c, "claim_ind")

EnterIndirection(c, t, k) ==
    /\ info[k] = "BLACKHOLE" /\ Evaluated(k)
    /\ IF ind[k] = Value THEN Proceed(t, <<>>) ELSE Later(t, ind[k].id)
    /\ UNCHANGED <<info, pc>>

\* stg_BLACKHOLE: t sends a message, or queues up.
EnterBlackHole(c, t, k) ==
    /\ info[k] = "BLACKHOLE"
    /\ FreeMsgs # {}
    /\ LET m == First(FreeMsgs) IN
       /\ msg' = [msg EXCEPT ![m] = [live |-> TRUE, tso |-> t, bh |-> k]]
       /\ MessageBlackHole(c, m, t, k)
    /\ at' = [at EXCEPT ![c] = 1]
    /\ Later(t, k)
    /\ UNCHANGED info

Enter(c) ==
    /\ pc[c] = "run"
    /\ LET t == running[c]
           k == Next1(t)
       IN  /\ k # None
           /\ \/ /\ EnterThunk(c, t, k) \/ EnterAPStack(c, t, k) \/ EnterIndirection(c, t, k)
                 /\ UNCHANGED <<blocking, why, block_info, at, cur>>
              \/ EnterBlackHole(c, t, k)
    /\ UNCHANGED <<ind, code, running, upd, home, events>>

\* A thunk is claimed: by its own code, or by threadPaused, which goes on with the next
\* frame.
ClaimIndirectee(c) ==
    /\ pc[c] = "claim_ind"
    /\ ind' = [ind EXCEPT ![stack[running[c]][at[c]].upd] = TSO(running[c])]
    /\ Goto(c, "claim_info")
    /\ UNCHANGED <<info, code, blocking, thread, running, at, upd, cur, events>>

ClaimInfo(c) ==
    /\ pc[c] = "claim_info"
    /\ LET f == stack[running[c]][at[c]] IN
       /\ info' = [info EXCEPT ![f.upd] = "BLACKHOLE"]
       /\ IF f.kind = "marked"
          THEN at' = [at EXCEPT ![c] = @ + 1] /\ Goto(c, "pause")
          ELSE UNCHANGED at /\ Goto(c, "run")
    /\ UNCHANGED <<ind, code, blocking, thread, running, upd, cur, events>>

----------------------------------------------------------------------------
(* Updates                                                                 *)

Pop(t) == Tail(stack[t])

\* updateThunk of a thunk that has been claimed, as those of marked frames have: what is
\* there is looked at, and then overwritten.
UpdateThunk(c, val) ==
    /\ upd' = [upd EXCEPT ![c] = [val |-> val, seen |-> ind[Top(running[c]).upd]]]
    /\ Goto(c, "store_ind")
    /\ UNCHANGED <<ind, blocking, why, stack>>

\* updateWithIndirection, by itself: t looks for no queue.
UpdateWithIndirection(c, val) ==
    /\ ind' = [ind EXCEPT ![Top(running[c]).upd] = val]
    /\ upd' = [upd EXCEPT ![c] = [val |-> val, seen |-> TSO(running[c])]]
    /\ Goto(c, "store_info")
    /\ UNCHANGED <<blocking, why, stack>>

DiscardOnly(c, t) ==                \* mutant: no checkBlockingQueues
    /\ stack' = [stack EXCEPT ![t] = Pop(t)]
    /\ UNCHANGED <<ind, upd, pc, blocking, why>>

\* Somebody else's value is there: it is used, and the queues are looked at.
Discard(c, t) ==
    /\ WakeQueues(c, Orphans(t))
    /\ stack' = [stack EXCEPT ![t] = Pop(t)]
    /\ UNCHANGED <<ind, upd, pc, msg, inbox>>

\* stg_upd_frame, stg_bh_upd_frame and stg_marked_upd_frame
Return(c) ==
    /\ pc[c] = "run"
    /\ LET t == running[c]
           f == Top(t)
       IN  /\ Next1(t) = None
           /\ \/ f.kind = "upd" /\ UpdateWithIndirection(c, Value)
              \/ f.kind \in {"bh", "marked"} /\ ind[f.upd] = Value /\ Discard(c, t)
              \/ f.kind \in {"bh", "marked"} /\ ind[f.upd] # Value /\ UpdateThunk(c, Value)
    /\ UNCHANGED <<info, code, enter, block_info, running, at, cur, home, events>>

StoreIndirectee(c) ==
    /\ pc[c] = "store_ind"
    /\ ind' = [ind EXCEPT ![Top(running[c]).upd] = upd[c].val]
    /\ Goto(c, "store_info")
    /\ UNCHANGED <<info, code, blocking, thread, running, at, upd, cur, events>>

ToWakeOwn(t, seen) ==               \* mutant: no queue but the one seen
    IF seen.to = "bq" /\ seen.id \in QueuesOf(t) THEN {seen.id} ELSE {}

\* The queues to wake after an update that overwrote seen
ToWake(t, seen) == CASE seen = TSO(t) -> {}
                     [] seen.to = "bq" /\ seen.id \in QueuesOf(t) -> {seen.id}
                     [] OTHER -> Orphans(t)

StoreInfo(c) ==
    /\ pc[c] = "store_info"
    /\ LET t == running[c] IN
       /\ info' = [info EXCEPT ![Top(t).upd] = "BLACKHOLE"]
       /\ WakeQueues(c, ToWake(t, upd[c].seen))
       /\ stack' = [stack EXCEPT ![t] = Pop(t)]
       /\ IF upd[c].val = Value
          THEN Goto(c, "run") /\ UNCHANGED <<enter, at>>
          ELSE /\ enter' = [enter EXCEPT ![t] = upd[c].val.id]
               /\ at' = [at EXCEPT ![c] = @ - 1]
               /\ Goto(c, "freeze")
    /\ upd' = [upd EXCEPT ![c] = NoUpdate]
    /\ UNCHANGED <<ind, code, msg, inbox, block_info, running, cur, home, events>>

----------------------------------------------------------------------------
(* threadPaused and raiseAsync                                             *)

\* The end of the time slice
Yield(c) ==
    /\ pc[c] = "run" /\ events < MaxEvents
    /\ events' = events + 1
    /\ Goto(c, "pause")
    /\ UNCHANGED <<heap, blocking, thread, running, at, upd, cur>>

LeaveThread(c) ==
    /\ running' = [running EXCEPT ![c] = NoThread]
    /\ at' = [at EXCEPT ![c] = 1]
    /\ Goto(c, "sched")

MarkFrame(c, t) == stack' = [stack EXCEPT ![t][at[c]].kind = "marked"]

IsNotOwner(t, k) == FALSE           \* mutant: work on any black hole is suspended

\* threadPausedBlackHoleOwner
IsOwner(t, k) == Owner(k) = t

\* threadPaused comes to the next update frame.  Work on a thunk that another thread
\* has claimed is suspended, a thunk that nobody has claimed is claimed.
PauseFrame(c) ==
    /\ pc[c] = "pause"
    /\ LET t == running[c]
           f == stack[t][at[c]]
           k == f.upd
       IN  \/ /\ f.kind \in {"stop", "marked"}
              /\ LeaveThread(c)
              /\ UNCHANGED <<info, stack>>
           \/ /\ f.kind \in {"upd", "bh"}
              /\ info[k] = "WHITEHOLE" \/ (info[k] = "BLACKHOLE" /\ ~IsOwner(t, k))
              /\ Goto(c, "freeze")
              /\ UNCHANGED <<info, stack, running, at>>
           \/ /\ f.kind \in {"upd", "bh"}
              /\ info[k] = "BLACKHOLE" /\ IsOwner(t, k)
              /\ MarkFrame(c, t)
              /\ at' = [at EXCEPT ![c] = @ + 1]
              /\ UNCHANGED <<info, running, pc>>
           \/ /\ f.kind = "upd"
              /\ info[k] = "THUNK"
              /\ info' = [info EXCEPT ![k] = "WHITEHOLE"]
              /\ MarkFrame(c, t)
              /\ Goto(c, "claim_ind")
              /\ UNCHANGED <<running, at>>
    /\ UNCHANGED <<ind, code, blocking, enter, why, block_info, upd, cur, home, events>>

FreeAPs == {k \in APs : info[k] = "unallocated"}

\* raiseAsync: the stack down to the next update frame becomes an AP_STACK, with
\* which the frame's thunk is updated.
Freeze(c) ==
    /\ pc[c] = "freeze" /\ at[c] > 1
    /\ FreeAPs # {}
    /\ LET t == running[c]
           a == First(FreeAPs)
       IN  /\ info' = [info EXCEPT ![a] = "AP_STACK"]
           /\ code' = [code EXCEPT ![a] =
                         (IF enter[t] = None THEN <<>> ELSE <<enter[t]>>) \o Top(t).todo]
           /\ UpdateThunk(c, Closure(a))
    /\ UNCHANGED <<enter, block_info, running, at, cur, home, events>>

\* It has come to the end, and the thread is no longer blocked.  threadPaused drops
\* the frame, and has the thread enter the black hole instead; an exception handler
\* goes on with what the thread does next.
Frozen(c) ==
    /\ pc[c] = "freeze" /\ at[c] = 1
    /\ LET t == running[c]
           f == Top(t)
       IN  /\ why' = [why EXCEPT ![t] = "NotBlocked"]
           /\ IF f.kind = "stop"
              THEN /\ enter' = [enter EXCEPT ![t] = None]
                   /\ LeaveThread(c)
                   /\ UNCHANGED stack
              ELSE /\ enter' = [enter EXCEPT ![t] = f.upd]
                   /\ stack' = [stack EXCEPT ![t] = Pop(t)]
                   /\ Goto(c, "pause")
                   /\ UNCHANGED <<running, at>>
    /\ UNCHANGED <<heap, blocking, block_info, upd, cur, home, events>>

\* throwToMsg for a thread of capability c that does not run; the message of one
\* blocked on a black hole is revoked.
Raise(c, t) ==
    /\ pc[c] = "sched" /\ home[t] = c
    /\ events < MaxEvents
    /\ events' = events + 1
    /\ \/ why[t] = "NotBlocked" /\ UNCHANGED msg
       \/ /\ why[t] = "BlockedOnBlackHole"
          /\ msg' = [msg EXCEPT ![block_info[t]].live = FALSE]
    /\ running' = [running EXCEPT ![c] = t]
    /\ at' = [at EXCEPT ![c] = Len(stack[t])]
    /\ Goto(c, "freeze")
    /\ UNCHANGED <<heap, bq, inbox, wakeups, thread, upd, cur>>

----------------------------------------------------------------------------
(* The scheduler                                                           *)

DispatchAny(c) ==                   \* mutant: also a thread of another capability
    /\ pc[c] = "sched" /\ inbox[c] = {}
    /\ \E t \in Threads : why[t] = "NotBlocked" /\ running' = [running EXCEPT ![c] = t]
    /\ Goto(c, "run")
    /\ UNCHANGED <<heap, blocking, thread, at, upd, cur, events>>

\* The messages come first; then a thread is taken from the run queue.
Dispatch(c) ==
    /\ pc[c] = "sched" /\ inbox[c] = {}
    /\ \E t \in Threads : /\ home[t] = c /\ why[t] = "NotBlocked"
                          /\ running' = [running EXCEPT ![c] = t]
    /\ Goto(c, "run")
    /\ UNCHANGED <<heap, blocking, thread, at, upd, cur, events>>

\* executeMessage, MSG_TRY_WAKEUP: for a thread that has left it is sent on.
DeliverWakeup(c, t) ==
    /\ pc[c] = "sched" /\ wakeups[c][t] > 0
    /\ why' = [why EXCEPT ![t] = IF home[t] = c /\ @ = "BlockedOnBlackHole"
                                THEN "NotBlocked" ELSE @]
    /\ wakeups' = [d \in Caps |-> [wakeups[d] EXCEPT ![t] =
                     @ + (IF d = home[t] /\ d # c THEN 1 ELSE 0) - (IF d = c THEN 1 ELSE 0)]]
    /\ UNCHANGED <<heap, bq, msg, inbox, stack, enter, block_info, home, cap, events>>

\* schedulePushWork: t goes to an idle capability, and its queues with it.
Migrate(c, d, t) ==
    /\ events < MaxEvents
    /\ events' = events + 1
    /\ pc[c] = "sched" /\ pc[d] = "sched" /\ d # c
    /\ home[t] = c /\ why[t] = "NotBlocked"
    /\ home' = [home EXCEPT ![t] = d]
    /\ UNCHANGED <<heap, blocking, stack, enter, why, block_info, cap>>

Finish(c) ==
    /\ pc[c] = "run"
    /\ LET t == running[c] IN
       /\ Top(t).kind = "stop" /\ Next1(t) = None
       /\ why' = [why EXCEPT ![t] = "Finished"]
    /\ LeaveThread(c)
    /\ UNCHANGED <<heap, blocking, stack, enter, block_info, upd, cur, home, events>>

\* What capability c does by itself
CapStep(c) ==
    \/ Enter(c) \/ ClaimIndirectee(c) \/ ClaimInfo(c)
    \/ Return(c) \/ StoreIndirectee(c) \/ StoreInfo(c)
    \/ PauseFrame(c) \/ Freeze(c) \/ Frozen(c)
    \/ StoreQueue(c) \/ Dispatch(c) \/ Finish(c)
    \/ \E m \in Msgs : TakeMessage(c, m)
    \/ \E t \in Threads : DeliverWakeup(c, t)

Next ==
    \E c \in Caps :
        \/ CapStep(c)
        \/ Yield(c)
        \/ \E t \in Threads : Raise(c, t)
        \/ \E d \in Caps, t \in Threads : Migrate(c, d, t)

Spec == Init /\ [][Next]_vars

\* A capability runs on an OS thread, which the system schedules.
FairSpec == Spec /\ \A c \in Caps : WF_vars(CapStep(c))

----------------------------------------------------------------------------
(* Properties                                                              *)

Pointers == {Null, Value} \cup {TSO(t) : t \in Threads} \cup {BQ(q) : q \in Queues}
                \cup {Closure(k) : k \in Closures}

Frames == [kind : {"stop", "upd", "bh", "marked"}, upd : Closures \cup {None},
           todo : Seq(Closures)]

TypeOK ==
    /\ info \in [Closures -> {"unallocated", "THUNK", "AP_STACK", "WHITEHOLE", "BLACKHOLE"}]
    /\ ind \in [Closures -> Pointers]
    /\ code \in [Closures -> Seq(Closures)]
    /\ bq \in [Queues -> [live : BOOLEAN, bh : Closures \cup {None},
                          owner : Threads \cup {NoThread}, queue : SUBSET Msgs]]
    /\ msg \in [Msgs -> [live : BOOLEAN, tso : Threads \cup {NoThread},
                         bh : Closures \cup {None}]]
    /\ inbox \in [Caps -> SUBSET Msgs]
    /\ wakeups \in [Caps -> [Threads -> Nat]]
    /\ home \in [Threads -> Caps]
    /\ \A t \in Threads : \A i \in DOMAIN stack[t] : stack[t][i] \in Frames
    /\ \A t \in Threads : \A i \in DOMAIN stack[t] : (stack[t][i].kind = "stop") = (i = Len(stack[t]))
    /\ enter \in [Threads -> Closures \cup {None}]
    /\ why \in [Threads -> {"NotBlocked", "BlockedOnBlackHole", "Finished"}]
    /\ block_info \in [Threads -> Msgs \cup {None}]
    /\ running \in [Caps -> Threads \cup {NoThread}]
    /\ \A c \in Caps : /\ running[c] # NoThread => home[running[c]] = c /\ at[c] \in DOMAIN stack[running[c]]
                       /\ pc[c] \notin {"sched", "queue"} => running[c] # NoThread
    /\ cur \in [Caps -> Msgs \cup {None}]

Evaluates(t, k) == \E i \in DOMAIN stack[t] : stack[t][i].upd = k

\* A black hole without a value names, itself or through its queue, a thread that has
\* an update frame for it: whoever waits does not wait for a computation that has been
\* suspended, thrown away, or finished (Note [suspend duplicate work], #5226).
OwnerEvaluates ==
    \A k \in Closures :
        info[k] = "BLACKHOLE" /\ ~Evaluated(k) =>
            /\ ind[k].to = "bq" => bq[ind[k].id].live
            /\ Owner(k) \in Threads /\ Evaluates(Owner(k), k)

\* Every queue on tso->bq with somebody in it belongs to a thread that will look at it,
\* also when the thunk no longer points to it: only the return to a frame that
\* threadPaused has marked, or that of an eager black hole, looks for queues.
OrphansFound ==
    \A q \in Queues :
        bq[q].live => \E i \in DOMAIN stack[bq[q].owner] :
                         LET f == stack[bq[q].owner][i]
                         IN  f.upd = bq[q].bh /\ f.kind = "marked"

\* The stack that an AP_STACK holds is resumed by one thread only (Note [AP_STACKs must
\* be eagerly blackholed]).
APStackOnce ==
    \A k \in APs :
        LET frames == UNION {{t} \X {i \in DOMAIN stack[t] : stack[t][i].upd = k} :
                                t \in Threads}
        IN  Cardinality(frames) <= 1

\* Nobody waits for ever: every thread gets all the values it wants.
Finishes == \A t \in Threads : <>(why[t] = "Finished")
============================================================================
