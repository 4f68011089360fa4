-------------------------------- MODULE STM --------------------------------
(***************************************************************************)
(* Software transactional memory as rts/STM.c implements it with           *)
(* fine-grained locking (STM_FG_LOCKS): top-level transactions that read   *)
(* and write TVars through a log, commit it, or wait with `retry' until a  *)
(* TVar they have read changes.  One action per access to shared memory.   *)
(*                                                                         *)
(* A TVar is locked by storing the holder's TRec in current_value, so      *)
(* cur[v] is a value or the thread whose TRec it is.  Every thread has a   *)
(* capability of its own: waking one is a message to its capability,       *)
(* handled when that capability is next in the scheduler.                  *)
(*                                                                         *)
(* The bodies of the transactions are the program's: any sequence of reads *)
(* and writes that ends with a commit, a retry or an exception.            *)
(***************************************************************************)
EXTENDS Naturals, Sequences, FiniteSets

CONSTANTS
    Threads,
    TVars,
    Values,
    InitVal,        \* the value every TVar starts with
    Program,        \* thread -> what its transactions may do: the TVars they may read
                    \*   and write, and how they may end: "commit", "wait" (retry),
                    \*   "throw" (an exception, from inside or from another thread)
    MaxUpdates,     \* bound: no commit is started once a TVar has had so many updates
    MaxLog          \* bound: nor when the history `log' has so many commits

ASSUME STMAssumption ==
    /\ Threads \cap Values = {}
    /\ InitVal \in Values
    /\ Program \in [Threads -> [reads : SUBSET TVars, writes : SUBSET TVars,
                                 ends : SUBSET {"commit", "wait", "throw"}]]
    /\ MaxUpdates \in Nat
    /\ MaxLog \in Nat

VARIABLES
    cur,        \* TVar -> current_value
    num,        \* TVar -> num_updates
    watch,      \* TVar -> the threads in its watch queue
    entries,    \* thread -> the entries of its TRec
    pc,         \* thread -> where it is in STM.c
    mode,       \* thread -> what validate_and_acquire_ownership is called for
    idx,        \* thread -> the entry its loop has come to
    saw,        \* thread -> a current_value it has loaded
    ok,         \* thread -> `result'
    blocked,    \* thread -> why_blocked = BlockedOnSTM
    inbox,      \* thread -> wakeup messages under way to it
    log,        \* history: commits in the order of their linearization points,
                \*   from the first one on whose success is still open
    mem,        \* history: the TVars after all commits before those in log
    serial      \* history: each of those commits found what it had read

hist == <<log, mem, serial>>
vars == <<cur, num, watch, entries, pc, mode, idx, saw, ok, blocked, inbox, hist>>

Nothing == "nothing"            \* no current_value loaded
QueueEntry == "queue entry"     \* a pointer to an entry in a watch queue

Init ==
    /\ cur = [v \in TVars |-> InitVal]
    /\ num = [v \in TVars |-> 0]
    /\ watch = [v \in TVars |-> {}]
    /\ entries = [t \in Threads |-> <<>>]
    /\ pc = [t \in Threads |-> "idle"]
    /\ mode = [t \in Threads |-> "commit"]
    /\ idx = [t \in Threads |-> 1]
    /\ saw = [t \in Threads |-> Nothing]
    /\ ok = [t \in Threads |-> TRUE]
    /\ blocked = [t \in Threads |-> FALSE]
    /\ inbox = [t \in Threads |-> 0]
    /\ log = <<>>
    /\ mem = [v \in TVars |-> InitVal]
    /\ serial = TRUE

\* The entry the loop of t has come to, and whether there is one.
e(t) == entries[t][idx[t]]
More(t) == idx[t] <= Len(entries[t])

\* entry_is_update, entry_is_read_only
IsUpdate(x) == x.exp # x.new

\* get_entry_for: the position of v in the log of t, 0 if it has none
EntryFor(t, v) ==
    IF \E i \in DOMAIN entries[t] : entries[t][i].tvar = v
    THEN CHOOSE i \in DOMAIN entries[t] : entries[t][i].tvar = v
    ELSE 0

NewEntry(v, x, y) == [tvar |-> v, exp |-> x, new |-> y, nu |-> 0]

Goto(t, p) == pc' = [pc EXCEPT ![t] = p] /\ idx' = [idx EXCEPT ![t] = 1]

NextEntry(t, p) == pc' = [pc EXCEPT ![t] = p] /\ idx' = [idx EXCEPT ![t] = @ + 1]

\* The TRec is freed: the thread is outside (idle) or starts again (run).
FreeTRec(t, p) ==
    /\ Goto(t, p)
    /\ entries' = [entries EXCEPT ![t] = <<>>]
    /\ mode' = [mode EXCEPT ![t] = "commit"]
    /\ ok' = [ok EXCEPT ![t] = TRUE]

----------------------------------------------------------------------------
(* History: the commits, one after the other                               *)

\* What the commit r makes of the TVars m, once it is certain
Applied(r, m) ==
    IF r.state # "done" THEN m
    ELSE [v \in TVars |->
            IF \E k \in DOMAIN r.entries : r.entries[k].tvar = v
            THEN r.entries[CHOOSE k \in DOMAIN r.entries : r.entries[k].tvar = v].new
            ELSE m[v]]

\* The TVars after the first i of the commits c, starting from m.
Replay(m, c) ==
    LET after[i \in 0..Len(c)] == IF i = 0 THEN m ELSE Applied(c[i], after[i - 1])
    IN  after

\* Each of the commits c finds the values its transaction has read.
ReadsMatch(m, c) ==
    \A i \in DOMAIN c : c[i].state = "done" =>
        \A k \in DOMAIN c[i].entries :
            Replay(m, c)[i - 1][c[i].entries[k].tvar] = c[i].entries[k].exp

\* The commit of t turns out to be certain ("done"), or not to be one ("failed").
Resolved(t, outcome) ==
    [i \in DOMAIN log |-> IF log[i].thread = t /\ log[i].state = "open"
                          THEN [log[i] EXCEPT !.state = outcome] ELSE log[i]]

\* The commits in the history, but for those that have failed
Remembered == Cardinality({i \in DOMAIN log : log[i].state # "failed"})

\* The first n of the commits l are all that come before any open one.
Certain(l, n) ==
    /\ \A i \in 1..n : l[i].state # "open"
    /\ n < Len(l) => l[n + 1].state = "open"

\* Commits before which no other is open are summed up in mem.
Settle(l) ==
    LET n == CHOOSE n \in 0..Len(l) : Certain(l, n)
    IN  /\ log' = SubSeq(l, n + 1, Len(l))
        /\ mem' = Replay(mem, l)[n]
        /\ serial' = (serial /\ ReadsMatch(mem, SubSeq(l, 1, n)))

----------------------------------------------------------------------------
(* The body of a transaction                                               *)

\* stmStartTransaction
Start(t) ==
    /\ pc[t] = "idle"
    /\ Goto(t, "run")
    /\ UNCHANGED <<cur, num, watch, entries, mode, saw, ok, blocked, inbox, hist>>

\* stmReadTVar of a TVar not in the log yet; read_current_value waits while
\* the TVar is locked.  (Reading one in the log changes nothing.)
ReadTVar(t, v) ==
    /\ pc[t] = "run"
    /\ v \in Program[t].reads
    /\ EntryFor(t, v) = 0
    /\ cur[v] \in Values
    /\ entries' = [entries EXCEPT ![t] = Append(@, NewEntry(v, cur[v], cur[v]))]
    /\ UNCHANGED <<cur, num, watch, pc, mode, idx, saw, ok, blocked, inbox, hist>>

\* stmWriteTVar
WriteTVar(t, v, x) ==
    /\ pc[t] = "run"
    /\ v \in Program[t].writes
    /\ \/ /\ EntryFor(t, v) # 0
          /\ entries' = [entries EXCEPT ![t][EntryFor(t, v)].new = x]
       \/ /\ EntryFor(t, v) = 0
          /\ cur[v] \in Values
          /\ entries' = [entries EXCEPT ![t] = Append(@, NewEntry(v, cur[v], x))]
    /\ UNCHANGED <<cur, num, watch, pc, mode, idx, saw, ok, blocked, inbox, hist>>

\* The body ends: stmCommitTransaction ("commit"), stmWait ("wait"), or an
\* exception and stmValidateNestOfTransactions ("throw"); each begins with
\* validate_and_acquire_ownership.
EndBody(t, m) ==
    /\ pc[t] = "run"
    /\ m \in Program[t].ends
    /\ m = "commit" => Remembered < MaxLog /\ \A v \in TVars : num[v] < MaxUpdates
    /\ Goto(t, "acquire")
    /\ mode' = [mode EXCEPT ![t] = m]
    /\ UNCHANGED <<cur, num, watch, entries, saw, ok, blocked, inbox, hist>>

\* schedulePostRunThread: validate_trec_optimistic finds an entry that has
\* certainly changed; the transaction is abandoned and started again.
InFlightAbort(t) ==
    /\ pc[t] = "run"
    /\ \E i \in DOMAIN entries[t] :
          cur[entries[t][i].tvar] \notin Threads \cup {entries[t][i].exp}
    /\ entries' = [entries EXCEPT ![t] = <<>>]
    /\ UNCHANGED <<cur, num, watch, pc, mode, idx, saw, ok, blocked, inbox, hist>>

----------------------------------------------------------------------------
(* validate_and_acquire_ownership                                          *)

AcquireAllButWait(t) == mode[t] \notin {"commit", "wait"}      \* mutant: stmWait locks nothing

\* acquire_all: stmCommitTransaction only locks the TVars it will write.
AcquireAll(t) == mode[t] # "commit"

\* validation fails; give back what was acquired
Fail(t) == ok' = [ok EXCEPT ![t] = FALSE] /\ Goto(t, "revert")

\* cond_lock_tvar
AcquireLock(t) ==
    /\ pc[t] = "acquire" /\ More(t)
    /\ AcquireAll(t) \/ IsUpdate(e(t))
    /\ IF cur[e(t).tvar] = e(t).exp
       THEN /\ cur' = [cur EXCEPT ![e(t).tvar] = t]
            /\ NextEntry(t, "acquire")
            /\ UNCHANGED ok
       ELSE Fail(t) /\ UNCHANGED cur
    /\ UNCHANGED <<num, watch, entries, mode, saw, blocked, inbox, hist>>

\* A TVar that was only read: load current_value, ...
AcquireRead(t) ==
    /\ pc[t] = "acquire" /\ More(t)
    /\ ~(AcquireAll(t) \/ IsUpdate(e(t)))
    /\ IF cur[e(t).tvar] = e(t).exp
       THEN pc' = [pc EXCEPT ![t] = "acquire_num"] /\ UNCHANGED <<idx, ok>>
       ELSE Fail(t)
    /\ UNCHANGED <<cur, num, watch, entries, mode, saw, blocked, inbox, hist>>

\* ... num_updates, ...
AcquireNum(t) ==
    /\ pc[t] = "acquire_num"
    /\ entries' = [entries EXCEPT ![t][idx[t]].nu = num[e(t).tvar]]
    /\ pc' = [pc EXCEPT ![t] = "acquire_again"]
    /\ UNCHANGED <<cur, num, watch, mode, idx, saw, ok, blocked, inbox, hist>>

\* ... and current_value again.
AcquireAgain(t) ==
    /\ pc[t] = "acquire_again"
    /\ IF cur[e(t).tvar] = e(t).exp
       THEN NextEntry(t, "acquire") /\ UNCHANGED ok
       ELSE Fail(t)
    /\ UNCHANGED <<cur, num, watch, entries, mode, saw, blocked, inbox, hist>>

\* All entries hold.  For a commit this is the linearization point, provided
\* that check_read_only goes on to succeed.
AcquireDone(t) ==
    /\ pc[t] = "acquire" /\ ~More(t)
    /\ ok' = [ok EXCEPT ![t] = TRUE]
    /\ Goto(t, [commit |-> "check", wait |-> "enqueue",
                rewait |-> "park", throw |-> "revert"][mode[t]])
    /\ log' = IF mode[t] = "commit"
              THEN Append(log, [thread |-> t, entries |-> entries[t], state |-> "open"])
              ELSE log
    /\ UNCHANGED <<cur, num, watch, entries, mode, saw, blocked, inbox, mem, serial>>

\* mutant: only updates are given back, whatever was acquired
RevertUpdates(t) ==
    /\ pc[t] = "revert" /\ More(t)
    /\ cur' = IF IsUpdate(e(t)) /\ cur[e(t).tvar] = t
              THEN [cur EXCEPT ![e(t).tvar] = e(t).exp]
              ELSE cur
    /\ NextEntry(t, "revert")
    /\ UNCHANGED <<num, watch, entries, mode, saw, ok, blocked, inbox, hist>>

\* revert_ownership, one entry
Revert(t) ==
    /\ pc[t] = "revert" /\ More(t)
    /\ cur' = IF (AcquireAll(t) \/ IsUpdate(e(t))) /\ cur[e(t).tvar] = t
              THEN [cur EXCEPT ![e(t).tvar] = e(t).exp]
              ELSE cur
    /\ NextEntry(t, "revert")
    /\ UNCHANGED <<num, watch, entries, mode, saw, ok, blocked, inbox, hist>>

\* After the locks are given back: a failed commit or wait starts the
\* transaction again, and so does an exception in an invalid one; a valid one
\* lets the exception out; a waiting thread sleeps on or leaves the queues.
RevertDone(t) ==
    /\ pc[t] = "revert" /\ ~More(t)
    /\ \/ /\ ok[t] /\ mode[t] = "throw"
          /\ FreeTRec(t, "idle")
       \/ /\ ok[t] /\ mode[t] \in {"wait", "rewait"}
          /\ Goto(t, "parked")
          /\ UNCHANGED <<entries, mode, ok>>
       \/ /\ ~ok[t] /\ mode[t] = "rewait"
          /\ Goto(t, "remove")
          /\ UNCHANGED <<entries, mode, ok>>
       \/ /\ ~ok[t] /\ mode[t] # "rewait"
          /\ FreeTRec(t, "run")
    /\ UNCHANGED <<cur, num, watch, saw, blocked, inbox, hist>>

----------------------------------------------------------------------------
(* stmCommitTransaction, after the acquisition                             *)

\* check_read_only: load current_value, ...
CheckValue(t) ==
    /\ pc[t] = "check" /\ More(t)
    /\ IF IsUpdate(e(t))
       THEN NextEntry(t, "check") /\ UNCHANGED saw
       ELSE /\ saw' = [saw EXCEPT ![t] = cur[e(t).tvar]]
            /\ pc' = [pc EXCEPT ![t] = "check_num"]
            /\ UNCHANGED idx
    /\ UNCHANGED <<cur, num, watch, entries, mode, ok, blocked, inbox, hist>>

ValueOnly(t) == saw[t] = e(t).exp       \* mutant: num_updates is not compared

VersionOnly(t) == num[e(t).tvar] = e(t).nu     \* mutant: current_value is not compared

\* ... then num_updates, and compare both with what the entry has.
CheckPasses(t) == saw[t] = e(t).exp /\ num[e(t).tvar] = e(t).nu

CheckNum(t) ==
    /\ pc[t] = "check_num"
    /\ saw' = [saw EXCEPT ![t] = Nothing]
    /\ IF CheckPasses(t)
       THEN NextEntry(t, "check") /\ UNCHANGED <<ok, hist>>
       ELSE /\ Fail(t)
            /\ Settle(Resolved(t, "failed"))
    /\ UNCHANGED <<cur, num, watch, entries, mode, blocked, inbox>>

\* The commit is certain.
CheckDone(t) ==
    /\ pc[t] = "check" /\ ~More(t)
    /\ Goto(t, "write")
    /\ Settle(Resolved(t, "done"))
    /\ UNCHANGED <<cur, num, watch, entries, mode, saw, ok, blocked, inbox>>

NoWaiters(v) == {}      \* mutant: nobody is woken

\* the threads unpark_waiters_on goes through
WaitersOn(v) == watch[v]

\* For each update: unpark_waiters_on, which sends every thread in the watch
\* queue a wakeup message; ...
WriteUnpark(t) ==
    /\ pc[t] = "write" /\ More(t)
    /\ IF IsUpdate(e(t))
       THEN /\ inbox' = [u \in Threads |->
                           IF u \in WaitersOn(e(t).tvar) THEN inbox[u] + 1 ELSE inbox[u]]
            /\ pc' = [pc EXCEPT ![t] = "write_num"]
            /\ UNCHANGED idx
       ELSE NextEntry(t, "write") /\ UNCHANGED inbox
    /\ UNCHANGED <<cur, num, watch, entries, mode, saw, ok, blocked, hist>>

\* ... bump num_updates; ...
WriteNum(t) ==
    /\ pc[t] = "write_num"
    /\ num' = [num EXCEPT ![e(t).tvar] = @ + 1]
    /\ pc' = [pc EXCEPT ![t] = "write_unlock"]
    /\ UNCHANGED <<cur, watch, entries, mode, idx, saw, ok, blocked, inbox, hist>>

\* ... unlock_tvar with the new value.
WriteUnlock(t) ==
    /\ pc[t] = "write_unlock"
    /\ cur' = [cur EXCEPT ![e(t).tvar] = e(t).new]
    /\ NextEntry(t, "write")
    /\ UNCHANGED <<num, watch, entries, mode, saw, ok, blocked, inbox, hist>>

WriteDone(t) ==
    /\ pc[t] = "write" /\ ~More(t)
    /\ FreeTRec(t, "idle")
    /\ UNCHANGED <<cur, num, watch, saw, blocked, inbox, hist>>

----------------------------------------------------------------------------
(* Waiting                                                                 *)

EntryTVars(t) == {entries[t][i].tvar : i \in DOMAIN entries[t]}

\* stmWait: build_watch_queue_entries_for_trec; the TVars are all locked, so
\* no other thread looks at their queues.  new_value now points to the entry in
\* the watch queue.
WaitEnqueue(t) ==
    /\ pc[t] = "enqueue"
    /\ watch' = [v \in TVars |-> IF v \in EntryTVars(t) THEN watch[v] \cup {t} ELSE watch[v]]
    /\ entries' = [entries EXCEPT ![t] = [i \in DOMAIN @ |-> [@[i] EXCEPT !.new = QueueEntry]]]
    /\ Goto(t, "park")
    /\ UNCHANGED <<cur, num, mode, saw, ok, blocked, inbox, hist>>

\* park_tso (stmWait, stmReWait); the locks are released only after this
\* (stmWaitUnlock, revert_ownership).
Park(t) ==
    /\ pc[t] = "park"
    /\ blocked' = [blocked EXCEPT ![t] = TRUE]
    /\ Goto(t, "revert")
    /\ UNCHANGED <<cur, num, watch, entries, mode, saw, ok, inbox, hist>>

\* The capability of t handles a wakeup message, tryWakeupThread: only when t
\* is not in the middle of an STM operation.
DeliverWakeup(t) ==
    /\ inbox[t] > 0
    /\ pc[t] \in {"idle", "run", "parked"}
    /\ inbox' = [inbox EXCEPT ![t] = @ - 1]
    /\ blocked' = [blocked EXCEPT ![t] = FALSE]
    /\ UNCHANGED <<cur, num, watch, entries, pc, mode, idx, saw, ok, hist>>

\* The woken thread runs again, in stg_atomically_waiting_frame: stmReWait.
ReWait(t) ==
    /\ pc[t] = "parked"
    /\ ~blocked[t]
    /\ Goto(t, "acquire")
    /\ mode' = [mode EXCEPT ![t] = "rewait"]
    /\ UNCHANGED <<cur, num, watch, entries, saw, ok, blocked, inbox, hist>>

\* An asynchronous exception reaches a thread inside a transaction: raiseAsync
\* calls stmAbortTransaction, which takes a waiting one off the watch queues.
AbortRunning(t) ==
    /\ pc[t] = "run"
    /\ "throw" \in Program[t].ends
    /\ FreeTRec(t, "idle")
    /\ UNCHANGED <<cur, num, watch, saw, blocked, inbox, hist>>

AbortWaitingLeaves(t) ==    \* mutant: the queue entries stay behind
    /\ pc[t] = "parked"
    /\ "throw" \in Program[t].ends
    /\ FreeTRec(t, "idle")
    /\ blocked' = [blocked EXCEPT ![t] = FALSE]
    /\ UNCHANGED <<cur, num, watch, saw, inbox, hist>>

AbortWaiting(t) ==
    /\ pc[t] = "parked"
    /\ "throw" \in Program[t].ends
    /\ Goto(t, "remove")
    /\ mode' = [mode EXCEPT ![t] = "throw"]
    /\ blocked' = [blocked EXCEPT ![t] = FALSE]
    /\ UNCHANGED <<cur, num, watch, entries, saw, ok, inbox, hist>>

\* remove_watch_queue_entries_for_trec: lock_tvar waits until the TVar is not
\* locked, ...
RemoveLock(t) ==
    /\ pc[t] = "remove" /\ More(t)
    /\ cur[e(t).tvar] \in Values
    /\ saw' = [saw EXCEPT ![t] = cur[e(t).tvar]]
    /\ cur' = [cur EXCEPT ![e(t).tvar] = t]
    /\ pc' = [pc EXCEPT ![t] = "remove_unlock"]
    /\ UNCHANGED <<num, watch, entries, mode, idx, ok, blocked, inbox, hist>>

\* ... the queue entry is unlinked and the TVar gets back the value it had.
RemoveUnlock(t) ==
    /\ pc[t] = "remove_unlock"
    /\ watch' = [watch EXCEPT ![e(t).tvar] = @ \ {t}]
    /\ cur' = [cur EXCEPT ![e(t).tvar] = saw[t]]
    /\ saw' = [saw EXCEPT ![t] = Nothing]
    /\ NextEntry(t, "remove")
    /\ UNCHANGED <<num, entries, mode, ok, blocked, inbox, hist>>

\* Then the transaction starts again, or the exception propagates.
RemoveDone(t) ==
    /\ pc[t] = "remove" /\ ~More(t)
    /\ FreeTRec(t, IF mode[t] = "throw" THEN "idle" ELSE "run")
    /\ UNCHANGED <<cur, num, watch, saw, blocked, inbox, hist>>

----------------------------------------------------------------------------
Body(t) ==
    \/ Start(t)
    \/ \E v \in TVars : ReadTVar(t, v) \/ \E x \in Values : WriteTVar(t, v, x)
    \/ \E m \in {"commit", "wait", "throw"} : EndBody(t, m)
    \/ InFlightAbort(t)
    \/ AbortRunning(t) \/ AbortWaiting(t)

\* The steps of STM.c proper, which a thread takes without the program's help.
Step(t) ==
    \/ AcquireLock(t) \/ AcquireRead(t) \/ AcquireNum(t) \/ AcquireAgain(t)
    \/ AcquireDone(t) \/ Revert(t) \/ RevertDone(t)
    \/ CheckValue(t) \/ CheckNum(t) \/ CheckDone(t)
    \/ WriteUnpark(t) \/ WriteNum(t) \/ WriteUnlock(t) \/ WriteDone(t)
    \/ WaitEnqueue(t) \/ Park(t) \/ ReWait(t)
    \/ RemoveLock(t) \/ RemoveUnlock(t) \/ RemoveDone(t)

Next == \E t \in Threads : Body(t) \/ Step(t) \/ DeliverWakeup(t)

Spec == Init /\ [][Next]_vars

\* A thread inside STM.c runs on; a capability empties its inbox; a woken
\* thread gets its turn in the run queue.  The spinning lock_tvar is not
\* unlucky for ever: strong fairness.  The program owes nothing.
Fairness ==
    \A t \in Threads :
        /\ WF_vars(Step(t))
        /\ SF_vars(RemoveLock(t))
        /\ WF_vars(DeliverWakeup(t))

FairSpec == Spec /\ Fairness

----------------------------------------------------------------------------
(* Properties                                                              *)

\* Every lock has a holder that still knows about it: a thread that is outside
\* STM.c, running the body of a transaction or parked holds no TVar locked, and
\* a locked TVar is in the log of the thread that holds it.
NoLeakedLock ==
    \A v \in TVars, t \in Threads :
        cur[v] = t => pc[t] \notin {"idle", "run", "parked"} /\ v \in EntryTVars(t)

\* The value a locked TVar gets when its holder goes on: what it had, unless
\* the holder's commit is certain.
Committing(t) == pc[t] \in {"write", "write_num", "write_unlock"}

EntryOf(t, v) == entries[t][EntryFor(t, v)]

HeldValue(t, v) ==
    IF Committing(t) THEN EntryOf(t, v).new
    ELSE IF pc[t] = "remove_unlock" THEN saw[t]
    ELSE EntryOf(t, v).exp

LogicalValue(v) == IF cur[v] \in Threads THEN HeldValue(cur[v], v) ELSE cur[v]

\* The committed transactions are serializable: executed one after the other,
\* in the order in which they passed the end of validate_and_acquire_ownership,
\* every one of them finds the values it has read, those it only read included,
\* and together they produce the TVars' values.  "This forms the linearization
\* point of the commit" (stmCommitTransaction).
Serializable ==
    /\ serial
    /\ ReadsMatch(mem, log)
    /\ \A v \in TVars : Replay(mem, log)[Len(log)][v] = LogicalValue(v)

\* Who is on the watch queues: a thread from stmWait until it takes itself off.
Registered(t) ==
    \/ pc[t] = "parked"
    \/ pc[t] = "park"
    \/ pc[t] = "revert" /\ ok[t] /\ mode[t] = "wait"
    \/ pc[t] \in {"acquire", "revert"} /\ mode[t] = "rewait"

\* A thread is in exactly the watch queues of the TVars it waits for: no
\* entry is left behind when it is woken, aborted or starts again, and none is
\* missing while it sleeps.
WatchQueuesExact ==
    \A t \in Threads, v \in TVars :
        t \in watch[v] <=>
            \E i \in DOMAIN entries[t] :
                /\ entries[t][i].tvar = v
                /\ Registered(t) \/ (pc[t] \in {"remove", "remove_unlock"} /\ i >= idx[t])

\* The wakeups for v have been sent by the holder of its lock.
Unparked(t, v) == pc[t] \in {"write_num", "write_unlock"} /\ e(t).tvar = v

\* No wakeup is lost.  A thread that sleeps in retry with no wakeup on its way
\* sleeps rightly: each TVar it has read still has the value it read, or a
\* committing thread holds the TVar and has yet to send the wakeup.
NoLostWakeup ==
    \A t \in Threads :
        pc[t] = "parked" /\ blocked[t] /\ inbox[t] = 0 =>
            \A i \in DOMAIN entries[t] :
                LET v == entries[t][i].tvar
                IN  \/ cur[v] = entries[t][i].exp
                    \/ /\ cur[v] \in Threads
                       /\ EntryFor(cur[v], v) # 0
                       /\ IF pc[cur[v]] = "remove_unlock"
                          THEN saw[cur[v]] = entries[t][i].exp
                          ELSE EntryOf(cur[v], v).exp = entries[t][i].exp
                       /\ ~Unparked(cur[v], v)

\* A call of stmCommitTransaction, stmWait, stmReWait or a validation always
\* comes back: the thread runs on, has finished, or sleeps.
CallReturns ==
    \A t \in Threads : pc[t] \notin {"idle", "run", "parked"} ~> pc[t] \in {"idle", "run", "parked"}

\* A thread waiting for a TVar that has changed does wake up.
ChangeWakes ==
    \A t \in Threads :
        (/\ pc[t] = "parked"
         /\ \E i \in DOMAIN entries[t] :
               cur[entries[t][i].tvar] \in Values \ {entries[t][i].exp}) ~> pc[t] # "parked"
============================================================================
