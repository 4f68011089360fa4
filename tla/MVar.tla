-------------------------------- MODULE MVar --------------------------------
(***************************************************************************)
(* MVars as the primitive operations of rts/PrimOps.cmm implement them, on *)
(* several capabilities: the value, the linked queue of blocked threads,   *)
(* the lock in the MVar's header, the wakeup messages of tryWakeupThread,  *)
(* exceptions that reach a blocked thread (throwToMsg, threadPaused), and  *)
(* hs_try_putmvar, with which C code fills an MVar.                        *)
(*                                                                         *)
(* While the header is locked nobody else reads or writes the MVar, its    *)
(* queue and the _link of the threads in it, so a critical section is one  *)
(* action, except where it hands control to something else: a thread that  *)
(* blocks keeps the lock until it has left the processor, and putMVar goes *)
(* round its loop again after it has woken a reader.                       *)
(***************************************************************************)
EXTENDS Naturals, Sequences

CONSTANTS
    Caps,           \* the capabilities
    Threads,
    Home,           \* thread -> its capability
    Values,         \* what threads put
    Unit,           \* the closure () that hs_try_putmvar puts
    ForeignValues,  \* what C code passes to hs_try_putmvar_with_value
    NoThread,
    Free,           \* the MVar is not locked
    Empty, Pending, Done, Failed, Interrupted,      \* see MVarSpec
    MaxEntries,     \* bound: queue entries that are in use at the same time
    MaxCalls,       \* bound: calls of MVar operations
    MaxThrows       \* bound: exceptions thrown at blocked threads

ASSUME MVarAssumption ==
    /\ Home \in [Threads -> Caps]
    /\ NoThread \notin Threads /\ Free \notin Caps
    /\ {Empty, Pending, Done, Failed, Interrupted} \cap
         (Values \cup ForeignValues \cup {Unit}) = {}
    /\ MaxEntries \in Nat /\ MaxCalls \in Nat /\ MaxThrows \in Nat

VARIABLES
    lock,       \* the capability that has locked the MVar's header, or Free
    value,      \* the MVar's value
    head, tail, \* its queue
    entry,      \* MVAR_TSO_QUEUE objects: [info, link, tso]
    tso_link,   \* thread -> _link: its entry, until its operation has been done
    why,        \* thread -> why_blocked
    arg,        \* thread -> the value on the stack of a blocked putMVar
    ret,        \* thread -> what its last operation has returned, on its stack
    running,    \* cap -> the thread it runs
    pc,         \* cap -> where it is
    offer,      \* cap -> the value its putMVar or tryPutMVar is handing out
    inbox,      \* thread -> MSG_TRY_WAKEUPs for it in its capability's inbox
    putMVars,   \* cap -> length of the list of hs_try_putmvar calls to do
    calls,      \* operations started so far
    throws      \* exceptions thrown so far

queue == <<head, tail, entry>>
thread == <<tso_link, why, arg, ret>>
bounds == <<calls, throws>>
vars == <<lock, value, queue, thread, running, pc, offer, inbox, putMVars, bounds>>

END == 0        \* END_TSO_QUEUE

Entries == 1..MaxEntries

NoEntry == [info |-> "free", link |-> END, tso |-> NoThread]

Init ==
    /\ lock = Free /\ value = Empty /\ head = END /\ tail = END
    /\ entry = [q \in Entries |-> NoEntry]
    /\ tso_link = [t \in Threads |-> END]
    /\ why = [t \in Threads |-> "NotBlocked"]
    /\ arg = [t \in Threads |-> Empty]
    /\ ret = [t \in Threads |-> Done]
    /\ running = [c \in Caps |-> NoThread]
    /\ pc = [c \in Caps |-> "sched"]
    /\ offer = [c \in Caps |-> Empty]
    /\ inbox = [t \in Threads |-> 0]
    /\ putMVars = [c \in Caps |-> 0]
    /\ calls = 0 /\ throws = 0

----------------------------------------------------------------------------
(* The queue                                                               *)

\* The entries from q on, along the links of the heap h, without those of the kinds
\* that are skipped.
Find(h, q, skipped) ==
    LET from[p \in 0..MaxEntries] ==
            IF p = END THEN <<>>
            ELSE IF h[p].info \in skipped THEN from[h[p].link]
            ELSE <<p>> \o from[h[p].link]
    IN  from[q]

Chain(h, q) == Find(h, q, {})

Reachable(h, q) == LET ch == Chain(h, q) IN {ch[i] : i \in DOMAIN ch}

\* What takeMVar and putMVar skip: entries that removeFromMVarBlockedQueue has
\* overwritten.
Overwritten == {"IND", "MSG_NULL"}
Dead(q) == entry[q].info \in Overwritten

Live == Find(entry, head, Overwritten)

\* The queue is now that of heap h, from hd to tl; entries that nothing points
\* to any more are free memory.
SetQueue(h, hd, tl) ==
    /\ head' = hd
    /\ tail' = tl
    /\ LET used == Reachable(h, hd) \cup Reachable(h, tl)
       IN  entry' = [q \in Entries |-> IF q \in used THEN h[q] ELSE NoEntry]

\* ALLOC_PRIM of an MVAR_TSO_QUEUE object
Unused == {q \in Entries : entry[q] = NoEntry}
Fresh == CHOOSE q \in Unused : \A p \in Unused : q <= p

\* The thread blocks; the last thing it does is to give the lock back (Blocked).
Block(c, t, reason) ==
    /\ tso_link' = [tso_link EXCEPT ![t] = Fresh]
    /\ why' = [why EXCEPT ![t] = reason]
    /\ ret' = [ret EXCEPT ![t] = Pending]
    /\ lock' = c
    /\ pc' = [pc EXCEPT ![c] = "blocking"]

\* takeMVar and putMVar queue up at the end.
BlockAtTail(c, t) ==
    LET q == [info |-> "TSO_QUEUE", link |-> END, tso |-> t]
    IN  /\ Unused # {}
        /\ IF head = END
           THEN SetQueue([entry EXCEPT ![Fresh] = q], Fresh, Fresh)
           ELSE SetQueue([entry EXCEPT ![Fresh] = q, ![tail].link = Fresh], head, Fresh)
        /\ Block(c, t, "BlockedOnMVar")

\* readMVar goes to the front, to be served at once.
BlockAtHead(c, t) ==
    LET q == [info |-> "TSO_QUEUE", link |-> head, tso |-> t]
    IN  /\ Unused # {}
        /\ SetQueue([entry EXCEPT ![Fresh] = q], Fresh, IF tail = END THEN Fresh ELSE tail)
        /\ Block(c, t, "BlockedOnMVarRead")

DequeueKeepTail(q) == SetQueue(entry, entry[q].link, tail)     \* mutant

\* The live entry q leaves the queue, with the dead ones before it.
Dequeue(q) ==
    SetQueue(entry, entry[q].link, IF entry[q].link = END THEN END ELSE tail)

TryWakeupAtHome(c, t) ==       \* mutant: no message to another capability
    IF Home[t] = c
    THEN why' = [why EXCEPT ![t] = "NotBlocked"] /\ UNCHANGED inbox
    ELSE UNCHANGED <<why, inbox>>

\* tryWakeupThread(t) on capability c, when the operation of t has been done:
\* at home t goes to the run queue, else a message goes to its capability.
TryWakeup(c, t) ==
    IF Home[t] = c
    THEN why' = [why EXCEPT ![t] = "NotBlocked"] /\ UNCHANGED inbox
    ELSE inbox' = [inbox EXCEPT ![t] = @ + 1] /\ UNCHANGED why

----------------------------------------------------------------------------
(* The operations, called by the thread t that capability c runs           *)

Calls(c, t) ==
    /\ pc[c] = "run" /\ running[c] = t
    /\ lock = Free
    /\ calls < MaxCalls
    /\ calls' = calls + 1
    /\ UNCHANGED <<running, putMVars, throws>>

\* takeMVar of a full MVar: the first blocked putMVar is performed, if any.
TakeValue(c, t) ==
    /\ value # Empty
    /\ IF Live = <<>>
       THEN /\ value' = Empty
            /\ ret' = [ret EXCEPT ![t] = value]
            /\ UNCHANGED <<queue, tso_link, why, arg, inbox>>
       ELSE LET u == entry[Live[1]].tso
            IN  /\ Dequeue(Live[1])
                /\ value' = arg[u]
                /\ arg' = [arg EXCEPT ![u] = Empty]
                /\ tso_link' = [tso_link EXCEPT ![u] = END]
                /\ ret' = [ret EXCEPT ![t] = value, ![u] = Done]
                /\ TryWakeup(c, u)
    /\ UNCHANGED <<lock, pc, offer>>

TakeBlocks(c, t) ==
    /\ value = Empty
    /\ BlockAtTail(c, t)
    /\ UNCHANGED <<value, arg, offer, inbox>>

Take(c, t) == Calls(c, t) /\ (TakeValue(c, t) \/ TakeBlocks(c, t))

TryTake(c, t) == Calls(c, t) /\ TakeValue(c, t)

\* readMVar, tryReadMVar of a full MVar
ReadValue(c, t) ==
    /\ value # Empty
    /\ ret' = [ret EXCEPT ![t] = value]
    /\ UNCHANGED <<lock, value, queue, tso_link, why, arg, pc, offer, inbox>>

ReadBlocks(c, t) ==
    /\ value = Empty
    /\ BlockAtHead(c, t)
    /\ UNCHANGED <<value, arg, offer, inbox>>

Read(c, t) == Calls(c, t) /\ (ReadValue(c, t) \/ ReadBlocks(c, t))

\* putMVar and performTryPutMVar of an empty MVar begin to hand out the value;
\* the MVar is locked until they are through (Serve).
StartPut(c, v) ==
    /\ value = Empty
    /\ lock' = c
    /\ offer' = [offer EXCEPT ![c] = v]
    /\ pc' = [pc EXCEPT ![c] = "serve"]
    /\ UNCHANGED <<value, queue, thread, inbox>>

PutBlocks(c, t, v) ==
    /\ value # Empty
    /\ BlockAtTail(c, t)
    /\ arg' = [arg EXCEPT ![t] = v]
    /\ UNCHANGED <<value, offer, inbox>>

Put(c, t, v) ==
    /\ Calls(c, t)
    /\ StartPut(c, v) \/ PutBlocks(c, t, v)

TryPut(c, t, v) ==
    /\ Calls(c, t)
    /\ StartPut(c, v)

\* tryTakeMVar and tryReadMVar of an empty MVar, tryPutMVar of a full one
TryFails(c, t) ==
    /\ Calls(c, t)
    /\ ret' = [ret EXCEPT ![t] = Failed]
    /\ UNCHANGED <<lock, value, queue, tso_link, why, arg, pc, offer, inbox>>

\* The put is through and the MVar unlocked; putMVar returns r[t].
EndPut(c, r) ==
    /\ lock' = Free
    /\ offer' = [offer EXCEPT ![c] = Empty]
    /\ pc' = [pc EXCEPT ![c] = IF running[c] = NoThread THEN "sched" ELSE "run"]
    /\ ret' = [t \in Threads |-> IF t = running[c] THEN Done ELSE r[t]]

WasReaderLate(t) == why'[t] = "BlockedOnMVarRead"     \* mutant: not saved before the wakeup

\* "save why_blocked here, because waking up the thread destroys this information"
WasReader(t) == why[t] = "BlockedOnMVarRead"

\* One round of the loop in putMVar and performTryPutMVar: a reader gets the
\* value and the loop goes on; a taker, or the end of the queue, ends it.
Serve(c) ==
    /\ pc[c] = "serve"
    /\ IF Live = <<>>
       THEN /\ value' = offer[c]
            /\ EndPut(c, ret)
            /\ UNCHANGED <<queue, tso_link, why, inbox>>
       ELSE LET u == entry[Live[1]].tso
                r == [ret EXCEPT ![u] = offer[c]]
            IN  /\ Dequeue(Live[1])
                /\ tso_link' = [tso_link EXCEPT ![u] = END]
                /\ TryWakeup(c, u)
                /\ IF WasReader(u)
                   THEN ret' = r /\ UNCHANGED <<lock, pc, offer>>
                   ELSE EndPut(c, r)
                /\ UNCHANGED value
    /\ UNCHANGED <<arg, running, putMVars, bounds>>

----------------------------------------------------------------------------
(* hs_try_putmvar, from C                                                  *)

\* The value is not kept when the capability is busy and the call is deferred.
ForeignPut(c, v) ==
    /\ calls < MaxCalls
    /\ calls' = calls + 1
    /\ \/ /\ pc[c] = "sched"                    \* the capability is free
          /\ lock = Free
          /\ \/ StartPut(c, v)
             \/ value # Empty /\ UNCHANGED <<lock, value, queue, thread, pc, offer, inbox>>
          /\ UNCHANGED putMVars
       \/ /\ putMVars' = [putMVars EXCEPT ![c] = @ + 1]
          /\ UNCHANGED <<lock, value, queue, thread, pc, offer, inbox>>
    /\ UNCHANGED <<running, throws>>

\* scheduleProcessInbox: performTryPutMVar with Unit_closure
DeferredPut(c) ==
    /\ pc[c] = "sched" /\ putMVars[c] > 0
    /\ lock = Free
    /\ putMVars' = [putMVars EXCEPT ![c] = @ - 1]
    /\ \/ StartPut(c, Unit)
       \/ value # Empty /\ UNCHANGED <<lock, value, queue, thread, pc, offer, inbox>>
    /\ UNCHANGED <<running, bounds>>

----------------------------------------------------------------------------
(* Exceptions                                                              *)

RemoveIND(q) ==     \* mutant: the last entry becomes an IND like any other
    IF q = head
    THEN SetQueue(entry, entry[q].link, IF tail = q THEN END ELSE tail)
    ELSE SetQueue([entry EXCEPT ![q].info = "IND"], head, tail)

\* removeFromMVarBlockedQueue
Remove(q) ==
    IF q = head
    THEN SetQueue(entry, entry[q].link, IF tail = q THEN END ELSE tail)
    ELSE SetQueue([entry EXCEPT ![q].info = IF q = tail THEN "MSG_NULL" ELSE "IND"],
                  head, tail)

RevokeLinked(t) ==      \* mutant: _link still says that the operation is not done
    /\ Remove(tso_link[t])
    /\ why' = [why EXCEPT ![t] = "NotBlocked"]
    /\ arg' = [arg EXCEPT ![t] = Empty]
    /\ ret' = [ret EXCEPT ![t] = Interrupted]
    /\ UNCHANGED tso_link

\* raiseAsync in a thread that is blocked: the operation is revoked.
Revoke(t) ==
    /\ Remove(tso_link[t])
    /\ tso_link' = [tso_link EXCEPT ![t] = END]
    /\ why' = [why EXCEPT ![t] = "NotBlocked"]
    /\ arg' = [arg EXCEPT ![t] = Empty]
    /\ ret' = [ret EXCEPT ![t] = Interrupted]

\* What throwToMsg does when it has locked the MVar: if the operation has been
\* done meanwhile the thread is woken, without waiting for the message.
RaiseInBlocked(t) ==
    \/ tso_link[t] # END /\ Revoke(t)
    \/ /\ tso_link[t] = END
       /\ why' = [why EXCEPT ![t] = "NotBlocked"]
       /\ UNCHANGED <<queue, tso_link, arg, ret>>

\* throwToMsg on the capability of t, from a message or its running thread
ThrowTo(t) ==
    /\ pc[Home[t]] \in {"sched", "run"}
    /\ why[t] # "NotBlocked"
    /\ lock = Free
    /\ throws < MaxThrows
    /\ throws' = throws + 1
    /\ RaiseInBlocked(t)
    /\ UNCHANGED <<lock, value, running, pc, offer, inbox, putMVars, calls>>

\* threadPaused: maybePerformBlockedException of the thread that is blocking,
\* with the MVar locked
PausedException(c) ==
    /\ pc[c] = "blocking"
    /\ why[running[c]] # "NotBlocked"
    /\ throws < MaxThrows
    /\ throws' = throws + 1
    /\ Revoke(running[c])
    /\ UNCHANGED <<lock, value, running, pc, offer, inbox, putMVars, calls>>

----------------------------------------------------------------------------
(* Scheduling and garbage collection                                       *)

Dispatch(c) ==
    /\ pc[c] = "sched"
    /\ \E t \in Threads :
          /\ Home[t] = c /\ why[t] = "NotBlocked"
          /\ running' = [running EXCEPT ![c] = t]
    /\ pc' = [pc EXCEPT ![c] = "run"]
    /\ UNCHANGED <<lock, value, queue, thread, offer, inbox, putMVars, bounds>>

Yield(c) ==
    /\ pc[c] = "run"
    /\ running' = [running EXCEPT ![c] = NoThread]
    /\ pc' = [pc EXCEPT ![c] = "sched"]
    /\ UNCHANGED <<lock, value, queue, thread, offer, inbox, putMVars, bounds>>

\* stg_block_takemvar_finally and the others
Blocked(c) ==
    /\ pc[c] = "blocking"
    /\ lock' = Free
    /\ running' = [running EXCEPT ![c] = NoThread]
    /\ pc' = [pc EXCEPT ![c] = "sched"]
    /\ UNCHANGED <<value, queue, thread, offer, inbox, putMVars, bounds>>

\* executeMessage, MSG_TRY_WAKEUP: the message may be late, and t blocked in
\* another operation.
DeliverWakeup(t) ==
    /\ inbox[t] > 0
    /\ pc[Home[t]] = "sched"
    /\ inbox' = [inbox EXCEPT ![t] = @ - 1]
    /\ why' = IF tso_link[t] = END THEN [why EXCEPT ![t] = "NotBlocked"] ELSE why
    /\ UNCHANGED <<lock, value, queue, tso_link, arg, ret, running, pc, offer, putMVars,
                   bounds>>

\* What evacuate makes of a pointer to q: INDs are shorted out.
ShortOut(q) ==
    LET ch == Find(entry, q, {"IND"})
    IN  IF ch = <<>> THEN END ELSE ch[1]

CollectGarbage ==
    /\ \A c \in Caps : pc[c] = "sched"
    /\ SetQueue([q \in Entries |-> [entry[q] EXCEPT !.link = ShortOut(@)]],
                ShortOut(head), ShortOut(tail))
    /\ UNCHANGED <<lock, value, thread, running, pc, offer, inbox, putMVars, bounds>>

----------------------------------------------------------------------------
Operation(c, t) ==
    \/ Take(c, t) \/ Read(c, t) \/ TryTake(c, t) \/ TryFails(c, t)
    \/ \E v \in Values : Put(c, t, v) \/ TryPut(c, t, v)

Next ==
    \/ \E c \in Caps :
          \/ \E t \in Threads : Operation(c, t)
          \/ Serve(c) \/ Blocked(c) \/ PausedException(c)
          \/ \E v \in ForeignValues \cup {Unit} : ForeignPut(c, v)
          \/ DeferredPut(c)
          \/ Dispatch(c) \/ Yield(c)
    \/ \E t \in Threads : ThrowTo(t) \/ DeliverWakeup(t)
    \/ CollectGarbage

Spec == Init /\ [][Next]_vars

\* A capability goes on with what it has begun, the timer ends time slices, and
\* scheduleProcessInbox gets round to every message (its TRY_ACQUIRE_LOCK does
\* not fail for ever).
Fairness ==
    /\ \A c \in Caps : WF_vars(Serve(c)) /\ WF_vars(Blocked(c)) /\ WF_vars(Yield(c))
    /\ \A t \in Threads : SF_vars(DeliverWakeup(t))

FairSpec == Spec /\ Fairness

----------------------------------------------------------------------------
(* Properties                                                              *)

Everything == Values \cup ForeignValues \cup {Unit}

\* A thread is in the queue as long as its operation has not been done, and there
\* only once, so that nobody can perform it twice; and the tail is the last entry that
\* can be reached from the head, whatever exceptions have taken out of the queue and
\* the collector has shorted out, so that the next one that queues up is found.
QueueExact ==
    LET ch == Chain(entry, head) IN
    /\ \A t \in Threads :
           {q \in Reachable(entry, head) : ~Dead(q) /\ entry[q].tso = t} =
               {tso_link[t]} \ {END}
    /\ tail = IF ch = <<>> THEN END ELSE ch[Len(ch)]

\* A thread whose operation has been performed, by another one, goes on.
DoneReturns ==
    \A t \in Threads :
        (why[t] # "NotBlocked" /\ tso_link[t] = END) ~> why[t] = "NotBlocked"

\* The MVar that MVarSpec describes: a put takes effect at once, for all the
\* threads it is going to serve.
Waiter(q) ==
    LET t == entry[q].tso
    IN  [thread |-> t,
         op     |-> IF why[t] = "BlockedOnMVarRead" THEN "read"
                    ELSE IF arg[t] = Empty THEN "take" ELSE "put",
         val    |-> arg[t]]

Queued == LET live == Live IN [i \in 1..Len(live) |-> Waiter(live[i])]

Serving == lock # Free /\ pc[lock] = "serve"

\* How many of those in the queue q get the value that is being handed out.
Due(q) ==
    LET readers == CHOOSE n \in 0..Len(q) :
                      /\ \A i \in 1..n : q[i].op = "read"
                      /\ n < Len(q) => q[n + 1].op # "read"
    IN  IF readers < Len(q) THEN readers + 1 ELSE readers

HasTaker(q) == \E i \in DOMAIN q : q[i].op = "take"

Val == IF Serving /\ ~HasTaker(Queued) THEN offer[lock] ELSE value

Waiting ==
    IF Serving THEN LET q == Queued IN SubSeq(q, Due(q) + 1, Len(q)) ELSE Queued

Returned ==
    IF Serving
    THEN LET q == Queued
             due == {q[i].thread : i \in 1..Due(q)}
         IN  [t \in Threads |-> IF t = running[lock] THEN Done
                                ELSE IF t \in due THEN offer[lock]
                                ELSE ret[t]]
    ELSE ret

AtOnce ==
    INSTANCE MVarSpec WITH
        Values <- Everything, val <- Val, waiting <- Waiting, ret <- Returned

\* MVars implement MVarSpec: every operation takes effect at one instant, blocked
\* ones are served in their order, readers first and all of them, and an exception
\* revokes an operation altogether or not at all.
AtomicFIFO == AtOnce!Spec
============================================================================
