------------------------------ MODULE ThrowTo ------------------------------
(***************************************************************************)
(* Asynchronous exceptions between threads of several capabilities         *)
(* (rts/RaiseAsync.c, rts/Exception.cmm): killThread#, the MessageThrowTo  *)
(* objects that travel between capabilities and wait on the target's       *)
(* blocked_exceptions, masking, the points at which a thread receives what *)
(* is waiting for it, and the revocation of a throw when its source is     *)
(* itself hit by an exception.                                             *)
(*                                                                         *)
(* A message is locked by turning its header into a WHITEHOLE.  It is      *)
(* created locked and stays so until its source has left the processor,    *)
(* and again while it is executed; these locks last for several steps.     *)
(* Where the code locks a message, looks at it and unlocks it without      *)
(* waiting for anything in between, the model does so in one step, which   *)
(* is enabled when the lock can be taken.                                  *)
(***************************************************************************)
EXTENDS Naturals, Sequences

CONSTANTS
    Caps,           \* the capabilities
    Threads,
    Start,          \* thread -> the capability it is created on
    NoThread,
    Does,           \* thread -> what it does
    MaxThrows,      \* bound: calls of killThread# that create a message
    MaxMigrations   \* bound: how often a thread changes its capability

ASSUME ThrowToAssumption ==
    /\ Start \in [Threads -> Caps]
    /\ NoThread \notin Threads
    /\ Does \in [Threads -> SUBSET {"throw", "kill_self", "catch", "mask", "uninterruptible",
                                     "BlockedOnMVar", "BlockedOnBlackHole", "BlockedOnCCall",
                                     "push", "migrate", "finish"}]
    /\ MaxThrows \in Nat /\ MaxMigrations \in Nat

VARIABLES
    home,       \* thread -> cap, the capability that owns it
    why,        \* thread -> why_blocked
    block_info, \* thread -> the message it waits for, if it is BlockedOnMsgThrowTo
    mask,       \* thread -> flags: TSO_BLOCKEX and TSO_INTERRUPTIBLE
    what_next,  \* thread -> "RunGHC", "Dead" (complete or killed), "Finished" (and dealt with)
    blocked_exceptions,     \* thread -> the messages that wait for it, the head first
    info,       \* message -> its header
    source, target,
    inbox,      \* cap -> the MessageThrowTos in its inbox
    wakeups,    \* cap -> thread -> how many MSG_TRY_WAKEUPs for it are in the inbox
    running,    \* cap -> the thread it runs
    pc,         \* cap -> where it is
    msg,        \* cap -> the message its throwToMsg is about
    migrations, \* changes of capability so far
    raised      \* history: message -> how often its exception has been raised

thread == <<home, why, block_info, mask, what_next, blocked_exceptions>>
message == <<info, source, target, raised>>
mail == <<inbox, wakeups>>
cap == <<running, pc, msg>>
vars == <<thread, message, mail, cap, migrations>>

\* A message is a number for its address: throwToMsg compares addresses.
Messages == 1..MaxThrows
None == 0

Init ==
    /\ home = Start
    /\ why = [t \in Threads |-> "NotBlocked"]
    /\ block_info = [t \in Threads |-> None]
    /\ mask = [t \in Threads |-> "unmasked"]
    /\ what_next = [t \in Threads |-> "RunGHC"]
    /\ blocked_exceptions = [t \in Threads |-> <<>>]
    /\ info = [m \in Messages |-> "unallocated"]
    /\ source = [m \in Messages |-> NoThread]
    /\ target = [m \in Messages |-> NoThread]
    /\ inbox = [c \in Caps |-> {}]
    /\ wakeups = [c \in Caps |-> [t \in Threads |-> 0]]
    /\ running = [c \in Caps |-> NoThread]
    /\ pc = [c \in Caps |-> "sched"]
    /\ msg = [c \in Caps |-> None]
    /\ migrations = 0
    /\ raised = [m \in Messages |-> 0]

----------------------------------------------------------------------------
(* Waking threads up                                                       *)

\* What tryWakeupThread finds in a thread that it may wake: its operation is done.
\* w and i are the why_blocked and the headers at that time.  (BlockedOnMVar
\* belongs to MVar.tla; here such a thread is woken by Unblock.)
Wakeable(t, w, i) ==
    \/ w[t] \in {"BlockedOnBlackHole", "ThreadMigrating"}
    \/ w[t] = "BlockedOnMsgThrowTo" /\ i[block_info[t]] = "NULL"

\* It locks the message the thread waits for, and spins until it gets the lock.
Inspectable(t, w, i) ==
    w[t] = "BlockedOnMsgThrowTo" => i[block_info[t]] # "WHITEHOLE"

TryWakeupHere(c, ts, w, i) ==   \* mutant: the owner is not told
    /\ why' = [t \in Threads |->
                 IF t \in ts /\ home[t] = c /\ Wakeable(t, w, i) THEN "NotBlocked" ELSE w[t]]
    /\ UNCHANGED wakeups

\* tryWakeupThread on capability c, for each of ts: done at once if c owns the
\* thread, else a message to the owner.
TryWakeup(c, ts, w, i) ==
    LET local == {t \in ts : home[t] = c}
    IN  /\ \A t \in local : Inspectable(t, w, i)
        /\ why' = [t \in Threads |->
                     IF t \in local /\ Wakeable(t, w, i) THEN "NotBlocked" ELSE w[t]]
        /\ wakeups' = [d \in Caps |-> [t \in Threads |->
                         wakeups[d][t] + IF t \in ts /\ home[t] = d /\ d # c THEN 1 ELSE 0]]

----------------------------------------------------------------------------
(* Raising exceptions                                                      *)

Interruptible == {"BlockedOnMVar", "BlockedOnMsgThrowTo"}

\* raiseAsync finds a handler and masks exceptions while it runs, or it kills
\* the thread.  k is its mask, w why it is blocked.
RaiseAsync(t, k, w) ==
    \/ /\ "catch" \in Does[t]
       /\ mask' = [mask EXCEPT ![t] = IF k = "masked" THEN "masked" ELSE "interruptible"]
       /\ UNCHANGED what_next
    \/ /\ mask' = [mask EXCEPT ![t] = k]
       /\ what_next' = [what_next EXCEPT ![t] = "Dead"]
       /\ "BlockedOnCCall" \notin {why[t], w[t]}    \* a handler surrounds foreign calls

RevokedNever(t, w, i) == i     \* mutant: the thread's own throwTo stays in force

\* The throwTo in which t, about to be hit by an exception, is blocked is revoked.
Revoked(t, w, i) ==
    IF w[t] = "BlockedOnMsgThrowTo" THEN [i EXCEPT ![block_info[t]] = "NULL"] ELSE i

\* A suspended thread stays suspended, any other is on the run queue afterwards.
Unblocked(t, w) ==
    IF w[t] = "BlockedOnCCall" THEN w ELSE [w EXCEPT ![t] = "NotBlocked"]

\* The thread t receives exceptions, with mask k.
Receives(t, k, w) == k = "unmasked" \/ (k = "interruptible" /\ w[t] \in Interruptible)

\* maybePerformBlockedException: the first message that has not been revoked is
\* performed and its source woken; those before it are dropped.
MaybePerform(c, t, k, w, i) ==
    LET q    == blocked_exceptions[t]
        live == {n \in DOMAIN q : i[q[n]] # "NULL"}
        n    == CHOOSE n \in live : \A o \in live : n <= o
        done == [Revoked(t, w, i) EXCEPT ![q[n]] = "NULL"]
    IN  IF Receives(t, k, w) /\ live # {}
        THEN /\ i[q[n]] # "WHITEHOLE"
             /\ blocked_exceptions' = [blocked_exceptions EXCEPT ![t] = SubSeq(q, n + 1, Len(q))]
             /\ RaiseAsync(t, k, w)
             /\ raised' = [raised EXCEPT ![q[n]] = @ + 1]
             /\ info' = done
             /\ TryWakeup(c, {source[q[n]]}, Unblocked(t, w), done)
        ELSE /\ blocked_exceptions' = IF Receives(t, k, w)
                                      THEN [blocked_exceptions EXCEPT ![t] = <<>>]
                                      ELSE blocked_exceptions
             /\ mask' = [mask EXCEPT ![t] = k]
             /\ info' = i
             /\ why' = w
             /\ UNCHANGED <<what_next, raised, wakeups>>

----------------------------------------------------------------------------
(* killThread# and executeMessage: throwToMsg about msg[c]                 *)

\* killThread# of another thread: throwTo allocates the message, locked, and any
\* free address may be the one it gets.
Throw(c) ==
    /\ pc[c] = "run" /\ "throw" \in Does[running[c]]
    /\ \E m \in Messages, t \in Threads \ {running[c]} :
          /\ info[m] = "unallocated"
          /\ info' = [info EXCEPT ![m] = "WHITEHOLE"]
          /\ source' = [source EXCEPT ![m] = running[c]]
          /\ target' = [target EXCEPT ![m] = t]
          /\ msg' = [msg EXCEPT ![c] = m]
    /\ pc' = [pc EXCEPT ![c] = "throw"]
    /\ UNCHANGED <<thread, raised, mail, running, migrations>>

\* killThread# of the thread itself: killMyself asks for no mask.
ThrowToMyself(c) ==
    /\ pc[c] = "run" /\ "kill_self" \in Does[running[c]]
    /\ LET t == running[c] IN RaiseAsync(t, mask[t], why)
    /\ pc' = [pc EXCEPT ![c] = IF what_next'[running[c]] = "Dead" THEN "finish" ELSE "run"]
    /\ UNCHANGED <<home, why, block_info, blocked_exceptions, message, mail, running, msg,
                   migrations>>

\* executeMessage takes a MSG_THROWTO from the inbox and locks it; it may have
\* been revoked.
TakeMessage(c, m) ==
    /\ pc[c] = "sched"
    /\ m \in inbox[c]
    /\ info[m] # "WHITEHOLE"
    /\ inbox' = [inbox EXCEPT ![c] = @ \ {m}]
    /\ IF info[m] = "NULL"
       THEN UNCHANGED <<info, pc, msg>>
       ELSE /\ info' = [info EXCEPT ![m] = "WHITEHOLE"]
            /\ pc' = [pc EXCEPT ![c] = "message"]
            /\ msg' = [msg EXCEPT ![c] = m]
    /\ UNCHANGED <<thread, source, target, raised, wakeups, running, migrations>>

\* THROWTO_SUCCESS: killThread# returns, executeMessage wakes the source.
\* w and i are what raising the exception has made of why and info.
Success(c, w, i) ==
    LET m == msg[c] IN
    /\ msg' = [msg EXCEPT ![c] = None]
    /\ \/ /\ pc[c] = "throw"
          /\ info' = [i EXCEPT ![m] = "THROWTO"]
          /\ why' = w
          /\ pc' = [pc EXCEPT ![c] = "run"]
          /\ UNCHANGED wakeups
       \/ /\ pc[c] = "message"
          /\ info' = [i EXCEPT ![m] = "NULL"]
          /\ TryWakeup(c, {source[m]}, w, [i EXCEPT ![m] = "NULL"])
          /\ pc' = [pc EXCEPT ![c] = "sched"]

\* THROWTO_BLOCKED: killThread# blocks, and keeps the lock; executeMessage unlocks.
Blocked(c) ==
    LET m == msg[c] IN
    /\ msg' = [msg EXCEPT ![c] = None]
    /\ \/ /\ pc[c] = "throw"
          /\ why' = [why EXCEPT ![source[m]] = "BlockedOnMsgThrowTo"]
          /\ block_info' = [block_info EXCEPT ![source[m]] = m]
          /\ pc' = [pc EXCEPT ![c] = "blocking"]
          /\ UNCHANGED info
       \/ /\ pc[c] = "message"
          /\ info' = [info EXCEPT ![m] = "THROWTO"]
          /\ pc' = [pc EXCEPT ![c] = "sched"]
          /\ UNCHANGED <<why, block_info>>

TargetDead(c, t) ==
    /\ what_next[t] # "RunGHC"
    /\ Success(c, why, info)
    /\ UNCHANGED <<block_info, mask, what_next, blocked_exceptions, raised, inbox>>

\* throwToSendMsg
Send(c, d) ==
    /\ inbox' = [inbox EXCEPT ![d] = @ \cup {msg[c]}]
    /\ Blocked(c)
    /\ UNCHANGED <<mask, what_next, blocked_exceptions, raised, wakeups>>

TargetElsewhere(c, t) ==
    /\ what_next[t] = "RunGHC" /\ home[t] # c
    /\ Send(c, home[t])

Local(c, t) == what_next[t] = "RunGHC" /\ home[t] = c

WaitsForThrow(t, header) ==
    why[t] = "BlockedOnMsgThrowTo" /\ info[block_info[t]] = header

\* t cannot receive the exception now.
Masked(t) ==
    \/ why[t] \in {"NotBlocked", "BlockedOnBlackHole"} /\ mask[t] # "unmasked"
    \/ why[t] = "BlockedOnMVar" /\ mask[t] = "masked"
    \/ WaitsForThrow(t, "THROWTO") /\ mask[t] = "masked"
    \/ why[t] = "BlockedOnCCall"

WaitAlone(t, m) == blocked_exceptions' = [blocked_exceptions EXCEPT ![t] = <<m>>] \* mutant

\* blockedThrowTo: the message goes to the front.
WaitFirst(t, m) == blocked_exceptions' = [blocked_exceptions EXCEPT ![t] = <<m>> \o @]

Queue(c, t) ==
    /\ Local(c, t) /\ Masked(t)
    /\ WaitFirst(t, msg[c])
    /\ Blocked(c)
    /\ UNCHANGED <<mask, what_next, raised, mail>>

\* The exception is raised; an operation in which t is blocked is revoked.
Raise(c, t) ==
    /\ Local(c, t)
    /\ \/ why[t] \in {"NotBlocked", "BlockedOnMVar", "BlockedOnBlackHole"}
       \/ WaitsForThrow(t, "THROWTO")
    /\ ~Masked(t)
    /\ RaiseAsync(t, mask[t], why)
    /\ raised' = [raised EXCEPT ![msg[c]] = @ + 1]
    /\ Success(c, Unblocked(t, why), Revoked(t, why, info))
    /\ UNCHANGED <<block_info, blocked_exceptions, inbox>>

BothSpin(c, t) == TRUE   \* mutant: both wait for the lock

\* The message that t waits for has the lower address: lockClosure spins until it has
\* been unlocked (it is only tried to lock otherwise).
MaySpin(c, t) == block_info[t] < msg[c]

\* t waits for a message that is locked, and msg[c] has the lower address: it goes back
\* into the inbox.
Collision(c, t) ==
    /\ Local(c, t)
    /\ WaitsForThrow(t, "WHITEHOLE")
    /\ ~MaySpin(c, t)
    /\ Send(c, c)

MigratingWaits(t) == WaitsForThrow(t, "NULL")     \* mutant

\* t can go on, only the wakeup has not arrived yet
CanGoOn(t) == WaitsForThrow(t, "NULL") \/ why[t] = "ThreadMigrating"

\* It is woken now, and throwToMsg looks again.
Retry(c, t) ==
    /\ Local(c, t)
    /\ CanGoOn(t)
    /\ why' = [why EXCEPT ![t] = "NotBlocked"]
    /\ UNCHANGED <<block_info, mask, what_next, blocked_exceptions, info, raised, mail, pc, msg>>

ThrowToMsg(c) ==
    /\ pc[c] \in {"throw", "message"}
    /\ LET t == target[msg[c]]
       IN  \/ TargetDead(c, t) \/ TargetElsewhere(c, t) \/ Queue(c, t) \/ Raise(c, t)
          \/ Collision(c, t) \/ Retry(c, t)
    /\ UNCHANGED <<home, source, target, running, migrations>>

----------------------------------------------------------------------------
(* A thread leaves the processor                                           *)

Leave(c) ==
    /\ running' = [running EXCEPT ![c] = NoThread]
    /\ pc' = [pc EXCEPT ![c] = "sched"]
    /\ UNCHANGED <<home, block_info, source, target, inbox, msg, migrations>>

PausedIgnores(c, w, i) ==       \* mutant: threadPaused does not look at what waits
    why' = w /\ info' = i /\ UNCHANGED <<mask, what_next, blocked_exceptions, raised, wakeups>>

\* threadPaused, called by a thread that is about to be blocked or suspended for
\* reason w[t], receives an exception.
Paused(c, w, i) == LET t == running[c] IN MaybePerform(c, t, mask[t], w, i)

FinallyUnlocks(m) == [info EXCEPT ![m] = "THROWTO"]

\* block_throwto: the message is unlocked, unless threadPaused has revoked it.
BlockThrowTo(c) ==
    /\ pc[c] = "blocking"
    /\ Paused(c, why, FinallyUnlocks(block_info[running[c]]))
    /\ Leave(c)

Yield(c) ==
    /\ pc[c] = "run"
    /\ Paused(c, why, info)
    /\ Leave(c)

\* takeMVar, a thunk under evaluation, suspendThread
Block(c, reason) ==
    /\ pc[c] = "run" /\ reason \in Does[running[c]]
    /\ Paused(c, [why EXCEPT ![running[c]] = reason], info)
    /\ Leave(c)

\* The MVar operation has been done, the thunk been updated.
Unblock(t) ==
    /\ why[t] \in {"BlockedOnMVar", "BlockedOnBlackHole"}
    /\ pc[home[t]] \in {"sched", "run"}
    /\ why' = [why EXCEPT ![t] = "NotBlocked"]
    /\ UNCHANGED <<home, block_info, mask, what_next, blocked_exceptions, message, mail, cap,
                   migrations>>

----------------------------------------------------------------------------
(* A thread runs                                                           *)

\* The scheduler picks a thread; one that has been killed is dealt with.
Dispatch(c, t) ==
    /\ pc[c] = "sched"
    /\ home[t] = c /\ why[t] = "NotBlocked" /\ what_next[t] # "Finished"
    /\ running' = [running EXCEPT ![c] = t]
    /\ pc' = [pc EXCEPT ![c] = IF what_next[t] = "Dead" THEN "finish" ELSE "run"]
    /\ UNCHANGED <<thread, message, mail, msg, migrations>>

\* The running thread t goes on, unless maybePerformBlockedException has killed it.
GoOn(c, t) ==
    /\ running' = [running EXCEPT ![c] = t]
    /\ pc' = [pc EXCEPT ![c] = IF what_next'[t] = "Dead" THEN "finish" ELSE "run"]
    /\ UNCHANGED <<home, block_info, source, target, inbox, msg, migrations>>

\* resumeThread
Resume(c, t) ==
    /\ pc[c] = "sched"
    /\ home[t] = c /\ why[t] = "BlockedOnCCall"
    /\ LET w == [why EXCEPT ![t] = "NotBlocked"] IN
       IF mask[t] = "unmasked"
       THEN MaybePerform(c, t, "unmasked", w, info)
       ELSE why' = w /\ UNCHANGED <<mask, what_next, blocked_exceptions, info, raised, wakeups>>
    /\ GoOn(c, t)

\* maskAsyncExceptions# ("mask"), maskUninterruptible# and the frames that restore a mask
SetMask(c) ==
    /\ pc[c] = "run"
    /\ LET t == running[c] IN
       \/ "mask" \in Does[t] /\ mask' = [mask EXCEPT ![t] = "interruptible"]
       \/ "uninterruptible" \in Does[t] /\ mask' = [mask EXCEPT ![t] = "masked"]
    /\ UNCHANGED <<home, why, block_info, what_next, blocked_exceptions, message, mail, cap,
                   migrations>>

\* unmaskAsyncExceptions#: an exception that waits is raised at once.
Unmask(c) ==
    /\ pc[c] = "run"
    /\ MaybePerform(c, running[c], "unmasked", why, info)
    /\ GoOn(c, running[c])

Finish(c) ==
    /\ pc[c] = "run" /\ "finish" \in Does[running[c]]
    /\ what_next' = [what_next EXCEPT ![running[c]] = "Dead"]
    /\ pc' = [pc EXCEPT ![c] = "finish"]
    /\ UNCHANGED <<home, why, block_info, mask, blocked_exceptions, message, mail, running, msg,
                   migrations>>

HandleFinishedDrops(c) ==       \* mutant: nobody who waits for the thread is told
    LET t == running[c]
    IN  /\ pc[c] = "finish"
        /\ what_next' = [what_next EXCEPT ![t] = "Finished"]
        /\ blocked_exceptions' = [blocked_exceptions EXCEPT ![t] = <<>>]
        /\ UNCHANGED <<info, why, wakeups, mask, raised>>
        /\ Leave(c)

\* scheduleHandleThreadFinished: awakenBlockedExceptionQueue
HandleFinished(c) ==
    LET t == running[c]
        live == {m \in Messages : /\ info[m] # "NULL"
                                  /\ \E n \in DOMAIN blocked_exceptions[t] :
                                        blocked_exceptions[t][n] = m}
        i == [m \in Messages |-> IF m \in live THEN "NULL" ELSE info[m]]
    IN  /\ pc[c] = "finish"
        /\ \A m \in live : info[m] # "WHITEHOLE"
        /\ info' = i
        /\ blocked_exceptions' = [blocked_exceptions EXCEPT ![t] = <<>>]
        /\ TryWakeup(c, {source[m] : m \in live}, why, i)
        /\ what_next' = [what_next EXCEPT ![t] = "Finished"]
        /\ mask' = mask /\ raised' = raised
        /\ Leave(c)

----------------------------------------------------------------------------
(* Messages to wake threads, and threads that change their capability      *)

\* executeMessage, MSG_TRY_WAKEUP: sent on if the thread has gone elsewhere
DeliverWakeup(c, t) ==
    /\ pc[c] = "sched"
    /\ wakeups[c][t] > 0
    /\ IF home[t] = c
       THEN /\ Inspectable(t, why, info)
            /\ why' = IF Wakeable(t, why, info) THEN [why EXCEPT ![t] = "NotBlocked"] ELSE why
            /\ wakeups' = [wakeups EXCEPT ![c][t] = @ - 1]
       ELSE /\ wakeups' = [wakeups EXCEPT ![c][t] = @ - 1, ![home[t]][t] = @ + 1]
            /\ UNCHANGED why
    /\ UNCHANGED <<home, block_info, mask, what_next, blocked_exceptions, message, inbox, cap,
                   migrations>>

MigrateRunning(c, d, t) ==      \* mutant: also while c is running it
    /\ "migrate" \in Does[t]
    /\ home[t] = c /\ c # d /\ why[t] = "NotBlocked" /\ what_next[t] # "Finished"
    /\ migrations < MaxMigrations
    /\ migrations' = migrations + 1
    /\ home' = [home EXCEPT ![t] = d]
    /\ why' = [why EXCEPT ![t] = "ThreadMigrating"]
    /\ wakeups' = [wakeups EXCEPT ![d][t] = @ + 1]
    /\ UNCHANGED <<block_info, mask, what_next, blocked_exceptions, message, inbox, cap>>

\* A runnable thread moves to an idle capability: schedulePushWork holds both and
\* puts it on the run queue, migrateThread sends a message.
Migrate(c, d, t) ==
    /\ pc[c] = "sched"
    /\ home[t] = c /\ c # d /\ why[t] = "NotBlocked" /\ what_next[t] # "Finished"
    /\ migrations < MaxMigrations
    /\ migrations' = migrations + 1
    /\ home' = [home EXCEPT ![t] = d]
    /\ \/ /\ "push" \in Does[t]
          /\ pc[d] = "sched"
          /\ UNCHANGED <<why, wakeups>>
       \/ /\ "migrate" \in Does[t]
          /\ why' = [why EXCEPT ![t] = "ThreadMigrating"]
          /\ wakeups' = [wakeups EXCEPT ![d][t] = @ + 1]
    /\ UNCHANGED <<block_info, mask, what_next, blocked_exceptions, message, inbox, cap>>

----------------------------------------------------------------------------
Next ==
    \/ \E c \in Caps :
          \/ Throw(c) \/ ThrowToMyself(c) \/ ThrowToMsg(c)
          \/ BlockThrowTo(c) \/ Yield(c)
          \/ \E reason \in {"BlockedOnMVar", "BlockedOnBlackHole", "BlockedOnCCall"} : Block(c, reason)
          \/ SetMask(c) \/ Unmask(c) \/ Finish(c) \/ HandleFinished(c)
          \/ \E m \in Messages : TakeMessage(c, m)
          \/ \E t \in Threads :
                \/ Dispatch(c, t) \/ Resume(c, t) \/ DeliverWakeup(c, t)
                \/ \E d \in Caps : Migrate(c, d, t)
    \/ \E t \in Threads : Unblock(t)

Spec == Init /\ [][Next]_vars

\* A capability goes on with what it has begun, and gets a lock for which it spins; the
\* timer ends time slices, scheduleProcessInbox gets round to the messages, and the run
\* queue to the threads that have been killed.
ProcessInbox(c) ==
    \/ \E m \in Messages : TakeMessage(c, m)
    \/ \E t \in Threads : DeliverWakeup(c, t)

Fairness ==
    /\ \A c \in Caps :
          /\ WF_vars(BlockThrowTo(c) \/ HandleFinished(c) \/ Yield(c))
          /\ SF_vars(ThrowToMsg(c))
          /\ SF_vars(ProcessInbox(c))
    /\ SF_vars(\E c \in Caps, t \in Threads : what_next[t] = "Dead" /\ Dispatch(c, t))

FairSpec == Spec /\ Fairness

----------------------------------------------------------------------------
(* Properties                                                              *)

\* The type invariant; a capability owns the thread that it runs, which is not blocked
\* except in the throw that it is about to leave the processor for.
TypeOK ==
    /\ home \in [Threads -> Caps]
    /\ why \in [Threads -> {"NotBlocked", "BlockedOnMVar", "BlockedOnBlackHole", "BlockedOnCCall",
                            "BlockedOnMsgThrowTo", "ThreadMigrating"}]
    /\ block_info \in [Threads -> Messages \cup {None}]
    /\ mask \in [Threads -> {"unmasked", "interruptible", "masked"}]
    /\ what_next \in [Threads -> {"RunGHC", "Dead", "Finished"}]
    /\ \A t \in Threads :
          /\ Len(blocked_exceptions[t]) <= MaxThrows
          /\ \A n \in DOMAIN blocked_exceptions[t] : blocked_exceptions[t][n] \in Messages
    /\ info \in [Messages -> {"unallocated", "WHITEHOLE", "THROWTO", "NULL"}]
    /\ source \in [Messages -> Threads \cup {NoThread}]
    /\ target \in [Messages -> Threads \cup {NoThread}]
    /\ inbox \in [Caps -> SUBSET Messages]
    /\ wakeups \in [Caps -> [Threads -> Nat]]
    /\ running \in [Caps -> Threads \cup {NoThread}]
    /\ pc \in [Caps -> {"sched", "run", "throw", "message", "blocking", "finish"}]
    /\ msg \in [Caps -> Messages \cup {None}]
    /\ migrations \in 0..MaxMigrations
    /\ raised \in [Messages -> Nat]
    /\ \A c \in Caps :
          LET t == running[c] IN
          /\ t = NoThread <=> pc[c] \in {"sched", "message"}
          /\ t # NoThread =>
                home[t] = c /\ why[t] = IF pc[c] = "blocking" THEN "BlockedOnMsgThrowTo"
                                                             ELSE "NotBlocked"

\* A throw is in force while its source waits for it and it has not been revoked.
Waiting(m) ==
    /\ info[m] \in {"THROWTO", "WHITEHOLE"}
    /\ source[m] # NoThread
    /\ why[source[m]] = "BlockedOnMsgThrowTo" /\ block_info[source[m]] = m

\* An exception is raised once, and only while its source waits in killThread# (or calls
\* it): never after the source has itself been interrupted.
RaisedInForce ==
    [][\A m \in Messages : raised'[m] # raised[m] =>
         /\ raised'[m] = 1
         /\ Waiting(m) \/ \E c \in Caps : pc[c] = "throw" /\ msg[c] = m]_vars

\* A throw that is in force is in exactly one place: an inbox, a capability that
\* executes it, or the blocked_exceptions of its target; nowhere else is it looked for.
Places(m) ==
    {<<"inbox", c>> : c \in {d \in Caps : m \in inbox[d]}}
    \cup {<<"executed", c>> : c \in {d \in Caps : msg[d] = m}}
    \cup {<<"blocked", n>> : n \in {n \in DOMAIN blocked_exceptions[target[m]] :
                                      blocked_exceptions[target[m]][n] = m}}

NeverLost ==
    \A m \in Messages : Waiting(m) => \E p \in Places(m) : Places(m) = {p}

\* A thread whose throw is done, or was revoked without it, has a wakeup on the way.
NoLostWakeup ==
    \A t \in Threads :
        WaitsForThrow(t, "NULL") => \E c \in Caps : wakeups[c][t] > 0

Running(t) == \E c \in Caps : running[c] = t

\* No throw in force waits on a thread that is off the processor and could receive it:
\* whenever the thread becomes able to, something has looked at blocked_exceptions.
Prompt ==
    \A m \in Messages :
        LET t == target[m] IN
        Waiting(m) /\ (\E n \in DOMAIN blocked_exceptions[t] : blocked_exceptions[t][n] = m)
        => \/ Running(t) \/ what_next[t] = "Dead" \/ why[t] = "BlockedOnCCall"
           \/ ~Receives(t, mask[t], why)

\* Capabilities do not wait in a circle for messages that they have locked, however the
\* throws of their threads cross: some member of every set of them can go on.
Holds(c, m) ==
    \/ pc[c] \in {"throw", "message"} /\ msg[c] = m
    \/ pc[c] = "blocking" /\ block_info[running[c]] = m

\* throwToMsg spins for the message that its target waits for, threadPaused and
\* awakenBlockedExceptionQueue for those that wait for the thread that c runs.
SpinsFor(c, m) ==
    /\ info[m] = "WHITEHOLE" /\ ~Holds(c, m)
    /\ \/ /\ pc[c] \in {"throw", "message"}
          /\ LET t == target[msg[c]]
             IN  Local(c, t) /\ WaitsForThrow(t, "WHITEHOLE") /\ MaySpin(c, t) /\ block_info[t] = m
       \/ /\ pc[c] \in {"blocking", "finish"}
          /\ \E n \in DOMAIN blocked_exceptions[running[c]] :
                blocked_exceptions[running[c]][n] = m

NoLockCycle ==
    \A cs \in (SUBSET Caps) \ {{}} :
        \E c \in cs : \A d \in cs, m \in Messages : ~(SpinsFor(c, m) /\ Holds(d, m))

\* A capability that executes a throw, or whose thread is on its way off the processor,
\* can go on unless it spins for a lock: no combination of what a target waits for, its
\* mask, its capability and its queue is overlooked.
OnlyLocksDelay ==
    \A c \in Caps :
        pc[c] \in {"throw", "message", "blocking", "finish"} =>
            \/ ENABLED (ThrowToMsg(c) \/ BlockThrowTo(c) \/ HandleFinished(c))
            \/ \E m \in Messages : SpinsFor(c, m)

\* A throw is done, or revoked, unless its target masks exceptions or is in a foreign
\* call.
KillThreadAnswered ==
    \A m \in Messages :
        Waiting(m) ~> \/ ~Waiting(m)
                      \/ /\ what_next[target[m]] = "RunGHC"
                         /\ \/ mask[target[m]] # "unmasked"
                            \/ why[target[m]] = "BlockedOnCCall"
============================================================================
