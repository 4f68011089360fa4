----------------------------- MODULE STMProofs ------------------------------
(***************************************************************************)
(* The locks, the watch queues and the wakeups of STM.c are right, and the *)
(* committed transactions are serializable, for any number of threads,     *)
(* TVars and values and any programs.                                      *)
(*                                                                         *)
(* The argument: where a thread is in its loops over its log says exactly  *)
(* what it holds locked (StructInv).  From there, the watch queues are     *)
(* those of the threads that wait (WatchQueuesExact), and a thread that    *)
(* sleeps on a TVar is on the queue that the TVar's next writer empties    *)
(* (WakeInv).                                                              *)
(*                                                                         *)
(* A commit takes its place in the history when all of its entries have    *)
(* been acquired or validated, and stays open until check_read_only is     *)
(* through.  A TVar that was only read still has its value at this place,  *)
(* or num_updates has moved or will move before the TVar is unlocked       *)
(* (Bumps, Tells); check_read_only passes only in the first case.  No      *)
(* other commit writes what an open one will write, and a commit that      *)
(* becomes certain has nothing to do with what an earlier open one writes  *)
(* (OpenApart), so its effect commutes with theirs.                        *)
(*                                                                         *)
(* Replay is defined by recursion: the facts about it are proved by        *)
(* induction over sets of naturals (Induct).                               *)
(***************************************************************************)
EXTENDS STM, WellFoundedInduction, TLAPS

\* The entries of a log, as STM.c fills them in: new_value is a queue entry once the
\* thread waits.
Entry == [tvar : TVars, exp : Values, new : Values \cup {QueueEntry}, nu : Nat]

\* Where a thread can be in STM.c
Locations == {"idle", "run", "acquire", "acquire_num", "acquire_again", "revert",
              "check", "check_num", "write", "write_num", "write_unlock",
              "enqueue", "park", "parked", "remove", "remove_unlock"}

\* Type correctness
TypeOK ==
    /\ cur \in [TVars -> Values \cup Threads]
    /\ num \in [TVars -> Nat]
    /\ watch \in [TVars -> SUBSET Threads]
    /\ entries \in [Threads -> Seq(Entry)]
    /\ pc \in [Threads -> Locations]
    /\ mode \in [Threads -> {"commit", "wait", "rewait", "throw"}]
    /\ idx \in [Threads -> Nat] /\ \A t \in Threads : idx[t] > 0
    /\ saw \in [Threads -> Values \cup Threads \cup {Nothing}]
    /\ ok \in [Threads -> BOOLEAN]
    /\ blocked \in [Threads -> BOOLEAN]
    /\ inbox \in [Threads -> Nat]

\* get_entry_for finds the only entry for a TVar: no log has two.
OneEntryEach ==
    \A t \in Threads : \A i, j \in DOMAIN entries[t] :
        entries[t][i].tvar = entries[t][j].tvar => i = j

\* What a thread is after, by where it is in STM.c: which of stmCommitTransaction,
\* stmWait and stmReWait it is in, whether its loop has an entry to work on, and of which
\* kind that entry is.
Phase(t) ==
    /\ pc[t] \in {"idle", "run", "acquire_num", "acquire_again", "check", "check_num",
                  "write", "write_num", "write_unlock"} => mode[t] = "commit"
    /\ pc[t] = "enqueue" => mode[t] = "wait" /\ ok[t]
    /\ pc[t] \in {"park", "parked"} => mode[t] \in {"wait", "rewait"} /\ ok[t]
    /\ pc[t] \in {"remove", "remove_unlock"} => mode[t] \in {"rewait", "throw"}
    /\ pc[t] = "revert" => ~ok[t] \/ mode[t] # "commit"
    /\ pc[t] \in {"acquire_num", "acquire_again", "check_num", "write_num", "write_unlock",
                  "remove_unlock"} => More(t)
    /\ pc[t] \in {"acquire_num", "acquire_again", "check_num"} => ~IsUpdate(e(t))
    /\ pc[t] \in {"write_num", "write_unlock"} => IsUpdate(e(t))
    /\ pc[t] = "remove_unlock" => saw[t] \in Values
    /\ mode[t] = "commit" => \A i \in DOMAIN entries[t] : entries[t][i].new \in Values

\* Every thread is where its call of STM.c can take it.
Phases == \A t \in Threads : Phase(t)

\* t holds the TVar of its i-th entry locked: acquired and not given back yet.
Holds(t, i) ==
    \/ /\ pc[t] \in {"acquire", "acquire_num", "acquire_again"}
       /\ i < idx[t]
       /\ AcquireAll(t) \/ IsUpdate(entries[t][i])
    \/ pc[t] \in {"enqueue", "park"}
    \/ pc[t] \in {"check", "check_num"} /\ IsUpdate(entries[t][i])
    \/ Committing(t) /\ i >= idx[t] /\ IsUpdate(entries[t][i])
    \/ pc[t] = "remove_unlock" /\ i = idx[t]

\* t, giving back what validate_and_acquire_ownership got before it failed, may
\* still hold the TVar of its i-th entry: revert_ownership looks at each.
MayHold(t, i) ==
    /\ pc[t] = "revert" /\ i >= idx[t]
    /\ AcquireAll(t) \/ IsUpdate(entries[t][i])

\* What a thread should hold locked, it does hold ...
LocksHeld ==
    \A t \in Threads : \A i \in DOMAIN entries[t] :
        Holds(t, i) => cur[entries[t][i].tvar] = t

\* ... and whoever holds a TVar locked still has it in its log, ahead of its loop.
LocksKnown ==
    \A v \in TVars, t \in Threads :
        cur[v] = t => \E i \in DOMAIN entries[t] :
                         entries[t][i].tvar = v /\ (Holds(t, i) \/ MayHold(t, i))

\* The inductive invariant: the locks are where the loops over the logs say.
StructInv == TypeOK /\ OneEntryEach /\ Phases /\ LocksHeld /\ LocksKnown

\* A step of the thread t, or of its capability for it
Move(t) == Body(t) \/ Step(t) \/ DeliverWakeup(t)

\* The locations, named one by one
LEMMA NamesOK ==
 {"idle", "run", "acquire", "acquire_num", "acquire_again", "revert",
              "check", "check_num", "write", "write_num", "write_unlock",
              "enqueue", "park", "parked", "remove", "remove_unlock"} \subseteq Locations
BY DEF Locations

\* A step that takes t to p
Moves(t, p) == Goto(t, p) \/ NextEntry(t, p) \/ (pc' = [pc EXCEPT ![t] = p] /\ idx' = idx)

\* Which steps change what: every step moves the thread that takes it, and no other.
LEMMA PcChanges ==
  ASSUME NEW t \in Threads, Move(t), TypeOK
  PROVE  UNCHANGED <<pc, idx>> \/ \E p \in Locations : Moves(t, p)
BY NamesOK DEF TypeOK, Moves, Move, Body, Step, FreeTRec, Fail, Start, ReadTVar, WriteTVar,
    EndBody, InFlightAbort, AbortRunning, AbortWaiting, AcquireLock, AcquireRead,
    AcquireNum, AcquireAgain, AcquireDone, Revert, RevertDone, CheckValue, CheckNum,
    CheckDone, WriteUnpark, WriteNum, WriteUnlock, WriteDone, WaitEnqueue, Park, ReWait,
    RemoveLock, RemoveUnlock, RemoveDone, DeliverWakeup

\* A step sets the result of its own thread only.
LEMMA OkChanges ==
  ASSUME NEW t \in Threads, Move(t)
  PROVE  ok' = ok \/ \E b \in BOOLEAN : ok' = [ok EXCEPT ![t] = b]
BY DEF Move, Body, Step, FreeTRec, Fail, Start, ReadTVar, WriteTVar, EndBody, InFlightAbort,
    AbortRunning, AbortWaiting, AcquireLock, AcquireRead, AcquireNum, AcquireAgain,
    AcquireDone, Revert, RevertDone, CheckValue, CheckNum, CheckDone, WriteUnpark, WriteNum,
    WriteUnlock, WriteDone, WaitEnqueue, Park, ReWait, RemoveLock, RemoveUnlock, RemoveDone,
    DeliverWakeup

\* A step changes what its own thread is after only.
LEMMA ModeChanges ==
  ASSUME NEW t \in Threads, Move(t)
  PROVE  mode' = mode \/ \E m \in {"commit", "wait", "rewait", "throw"} : mode' = [mode EXCEPT ![t] = m]
BY DEF Move, Body, Step, FreeTRec, Start, ReadTVar, WriteTVar, EndBody, InFlightAbort,
    AbortRunning, AbortWaiting, AcquireLock, AcquireRead, AcquireNum, AcquireAgain,
    AcquireDone, Revert, RevertDone, CheckValue, CheckNum, CheckDone, WriteUnpark, WriteNum,
    WriteUnlock, WriteDone, WaitEnqueue, Park, ReWait, RemoveLock, RemoveUnlock, RemoveDone,
    DeliverWakeup

\* park_tso and tryWakeupThread change why_blocked of their thread only.
LEMMA BlockedChanges ==
  ASSUME NEW t \in Threads, Move(t)
  PROVE  blocked' = blocked \/ \E b \in BOOLEAN : blocked' = [blocked EXCEPT ![t] = b]
BY DEF Move, Body, Step, Start, ReadTVar, WriteTVar, EndBody, InFlightAbort, AbortRunning,
    AbortWaiting, AcquireLock, AcquireRead, AcquireNum, AcquireAgain, AcquireDone, Revert,
    RevertDone, CheckValue, CheckNum, CheckDone, WriteUnpark, WriteNum, WriteUnlock,
    WriteDone, WaitEnqueue, Park, ReWait, RemoveLock, RemoveUnlock, RemoveDone,
    DeliverWakeup

\* The steps that load current_value into a local, or forget it
LEMMA SawChanges ==
  ASSUME NEW t \in Threads, Move(t)
  PROVE  saw' = saw \/ CheckValue(t) \/ CheckNum(t) \/ RemoveLock(t) \/ RemoveUnlock(t)
BY DEF Move, Body, Step, Start, ReadTVar, WriteTVar, EndBody, InFlightAbort, AbortRunning,
    AbortWaiting, AcquireLock, AcquireRead, AcquireNum, AcquireAgain, AcquireDone, Revert,
    RevertDone, CheckDone, WriteUnpark, WriteNum, WriteUnlock, WriteDone, WaitEnqueue, Park,
    ReWait, RemoveDone, DeliverWakeup

\* The steps that write current_value: lock, give back, commit
LEMMA CurChanges ==
  ASSUME NEW t \in Threads, Move(t)
  PROVE  cur' = cur \/ AcquireLock(t) \/ Revert(t) \/ WriteUnlock(t) \/ RemoveLock(t) \/ RemoveUnlock(t)
BY DEF Move, Body, Step, Start, ReadTVar, WriteTVar, EndBody, InFlightAbort, AbortRunning,
    AbortWaiting, AcquireRead, AcquireNum, AcquireAgain, AcquireDone, RevertDone,
    CheckValue, CheckNum, CheckDone, WriteUnpark, WriteNum, WriteDone, WaitEnqueue, Park,
    ReWait, RemoveDone, DeliverWakeup

\* The steps that change a log
LEMMA EntriesChanges ==
  ASSUME NEW t \in Threads, Move(t)
  PROVE  \/ entries' = entries
         \/ entries' = [entries EXCEPT ![t] = <<>>]
         \/ \E v \in TVars : ReadTVar(t, v) \/ \E x \in Values : WriteTVar(t, v, x)
         \/ AcquireNum(t) \/ WaitEnqueue(t)
BY DEF Move, Body, Step, FreeTRec, Start, EndBody, InFlightAbort, AbortRunning,
    AbortWaiting, AcquireLock, AcquireRead, AcquireAgain, AcquireDone, Revert, RevertDone,
    CheckValue, CheckNum, CheckDone, WriteUnpark, WriteNum, WriteUnlock, WriteDone, Park,
    ReWait, RemoveLock, RemoveUnlock, RemoveDone, DeliverWakeup

\* The steps that change a watch queue
LEMMA WatchChanges ==
  ASSUME NEW t \in Threads, Move(t)
  PROVE  watch' = watch \/ WaitEnqueue(t) \/ RemoveUnlock(t)
BY DEF Move, Body, Step, Start, ReadTVar, WriteTVar, EndBody, InFlightAbort, AbortRunning,
    AbortWaiting, AcquireLock, AcquireRead, AcquireNum, AcquireAgain, AcquireDone, Revert,
    RevertDone, CheckValue, CheckNum, CheckDone, WriteUnpark, WriteNum, WriteUnlock,
    WriteDone, Park, ReWait, RemoveLock, RemoveDone, DeliverWakeup

\* num_updates changes in the commit's second loop only.
LEMMA NumChanges ==
  ASSUME NEW t \in Threads, Move(t)
  PROVE  num' = num \/ WriteNum(t)
BY DEF Move, Body, Step, Start, ReadTVar, WriteTVar, EndBody, InFlightAbort, AbortRunning,
    AbortWaiting, AcquireLock, AcquireRead, AcquireNum, AcquireAgain, AcquireDone, Revert,
    RevertDone, CheckValue, CheckNum, CheckDone, WriteUnpark, WriteUnlock, WriteDone,
    WaitEnqueue, Park, ReWait, RemoveLock, RemoveUnlock, RemoveDone, DeliverWakeup

\* Wakeups are sent by unpark_waiters_on and handled by tryWakeupThread only.
LEMMA InboxChanges ==
  ASSUME NEW t \in Threads, Move(t)
  PROVE  inbox' = inbox \/ WriteUnpark(t) \/ DeliverWakeup(t)
BY DEF Move, Body, Step, Start, ReadTVar, WriteTVar, EndBody, InFlightAbort, AbortRunning,
    AbortWaiting, AcquireLock, AcquireRead, AcquireNum, AcquireAgain, AcquireDone, Revert,
    RevertDone, CheckValue, CheckNum, CheckDone, WriteNum, WriteUnlock, WriteDone,
    WaitEnqueue, Park, ReWait, RemoveLock, RemoveUnlock, RemoveDone

\* The log of a thread is a sequence of entries of the right types.
LEMMA DomainOK ==
  ASSUME TypeOK, NEW t \in Threads
  PROVE  /\ Len(entries[t]) \in Nat /\ DOMAIN entries[t] = 1..Len(entries[t])
         /\ \A i \in DOMAIN entries[t] : /\ entries[t][i] \in Entry
                                         /\ entries[t][i].tvar \in TVars
                                         /\ entries[t][i].exp \in Values
                                         /\ entries[t][i].new \in Values \cup {QueueEntry}
                                         /\ entries[t][i].nu \in Nat
<1>1. entries[t] \in Seq(Entry) BY DEF TypeOK
<1>2. \A i \in DOMAIN entries[t] : entries[t][i] \in Entry BY <1>1
<1> QED BY <1>1, <1>2 DEF Entry

\* A loop that is not through has an entry to work on.
LEMMA EntryOK ==
  ASSUME TypeOK, NEW t \in Threads, More(t)
  PROVE  /\ idx[t] \in DOMAIN entries[t]
         /\ e(t) \in Entry
         /\ e(t).tvar \in TVars /\ e(t).exp \in Values /\ e(t).nu \in Nat
<1>1. idx[t] \in DOMAIN entries[t] BY DomainOK DEF TypeOK, More
<1> QED BY <1>1, DomainOK DEF e

\* get_entry_for returns an entry for the TVar if there is one.
LEMMA EntryForOK ==
  ASSUME TypeOK, NEW t \in Threads, NEW v
  PROVE  /\ EntryFor(t, v) # 0 => /\ EntryFor(t, v) \in DOMAIN entries[t]
                                  /\ entries[t][EntryFor(t, v)].tvar = v
         /\ EntryFor(t, v) = 0 => \A i \in DOMAIN entries[t] : entries[t][i].tvar # v
<1>1. CASE \E i \in DOMAIN entries[t] : entries[t][i].tvar = v
  <2> DEFINE P(i) == i \in DOMAIN entries[t] /\ entries[t][i].tvar = v
  <2>1. EntryFor(t, v) = CHOOSE i \in DOMAIN entries[t] : entries[t][i].tvar = v
    BY <1>1 DEF EntryFor
  <2>2. EntryFor(t, v) \in DOMAIN entries[t] /\ entries[t][EntryFor(t, v)].tvar = v
    BY <1>1, <2>1
  <2>3. EntryFor(t, v) # 0 BY <2>2, DomainOK
  <2> QED BY <2>2, <2>3
<1>2. CASE ~ \E i \in DOMAIN entries[t] : entries[t][i].tvar = v
  BY <1>2 DEF EntryFor
<1> QED BY <1>1, <1>2

\* A step that keeps the TVars of t's log, and what was read of them
SameTVars(t) ==
  /\ DOMAIN entries'[t] = DOMAIN entries[t]
  /\ \A i \in DOMAIN entries[t] : entries'[t][i].tvar = entries[t][i].tvar /\ entries'[t][i].exp = entries[t][i].exp

\* An entry appended for a TVar not in the log keeps the log free of duplicates.
LEMMA ReadEntries ==
  ASSUME TypeOK, OneEntryEach, NEW t \in Threads, NEW v \in TVars, NEW x \in Values, EntryFor(t, v) = 0, cur[v] \in Values,
         entries' = [entries EXCEPT ![t] = Append(@, NewEntry(v, cur[v], x))]
  PROVE  /\ entries'[t] \in Seq(Entry)
         /\ \A i, j \in DOMAIN entries'[t] : entries'[t][i].tvar = entries'[t][j].tvar => i = j
<1> DEFINE n == NewEntry(v, cur[v], x)
<1>1. n \in Entry /\ n.tvar = v BY DEF NewEntry, Entry
<1>2. entries[t] \in Seq(Entry) /\ entries'[t] = Append(entries[t], n) BY DEF TypeOK
<1>3. \A i \in DOMAIN entries[t] : entries[t][i].tvar # v BY EntryForOK
<1>4. \A i, j \in DOMAIN entries[t] : entries[t][i].tvar = entries[t][j].tvar => i = j
  BY DEF OneEntryEach
<1> HIDE DEF n
<1> QED BY <1>1, <1>2, <1>3, <1>4

\* A step leaves the places of the other threads alone.
LEMMA PcStep ==
  ASSUME TypeOK, NEW t \in Threads, Move(t)
  PROVE  /\ pc' \in [Threads -> Locations] /\ idx' \in [Threads -> Nat] /\ \A u \in Threads : idx'[u] > 0
         /\ \A u \in Threads \ {t} : pc'[u] = pc[u] /\ idx'[u] = idx[u]
<1>0. pc \in [Threads -> Locations] /\ idx \in [Threads -> Nat] /\ \A u \in Threads : idx[u] > 0
  BY DEF TypeOK
<1>1. CASE UNCHANGED <<pc, idx>> BY <1>1, <1>0
<1>2. CASE \E p \in Locations : Moves(t, p)
  BY <1>2, <1>0 DEF Moves, Goto, NextEntry
<1> QED BY <1>1, <1>2, PcChanges

\* A step leaves mode, ok and blocked of the other threads alone.
LEMMA FlagStep ==
  ASSUME TypeOK, NEW t \in Threads, Move(t)
  PROVE  /\ mode' \in [Threads -> {"commit", "wait", "rewait", "throw"}]
         /\ ok' \in [Threads -> BOOLEAN] /\ blocked' \in [Threads -> BOOLEAN]
         /\ \A u \in Threads \ {t} : mode'[u] = mode[u] /\ ok'[u] = ok[u] /\ blocked'[u] = blocked[u]
<1>1. mode' \in [Threads -> {"commit", "wait", "rewait", "throw"}] /\ \A u \in Threads \ {t} : mode'[u] = mode[u]
  BY ModeChanges DEF TypeOK
<1>2. ok' \in [Threads -> BOOLEAN] /\ \A u \in Threads \ {t} : ok'[u] = ok[u]
  BY OkChanges DEF TypeOK
<1>3. blocked' \in [Threads -> BOOLEAN] /\ \A u \in Threads \ {t} : blocked'[u] = blocked[u]
  BY BlockedChanges DEF TypeOK
<1> QED BY <1>1, <1>2, <1>3

\* A step leaves what the other threads have loaded alone.
LEMMA SawStep ==
  ASSUME TypeOK, Phases, NEW t \in Threads, Move(t)
  PROVE  /\ saw' \in [Threads -> Values \cup Threads \cup {Nothing}]
         /\ \A u \in Threads \ {t} : saw'[u] = saw[u]
<1>0. saw \in [Threads -> Values \cup Threads \cup {Nothing}] BY DEF TypeOK
<1>1. CASE CheckValue(t)
  <2>1. CASE IsUpdate(e(t)) BY <1>0, <1>1, <2>1 DEF CheckValue
  <2>2. CASE ~IsUpdate(e(t))
     <3>1. cur[e(t).tvar] \in Values \cup Threads BY <1>1, EntryOK DEF CheckValue, TypeOK
     <3> QED BY <1>0, <1>1, <2>2, <3>1 DEF CheckValue
  <2> QED BY <2>1, <2>2
<1>2. CASE CheckNum(t) \/ RemoveUnlock(t) BY <1>0, <1>2 DEF CheckNum, RemoveUnlock
<1>3. CASE RemoveLock(t) BY <1>0, <1>3 DEF RemoveLock
<1> QED BY <1>0, <1>1, <1>2, <1>3, SawChanges

\* num_updates never falls.
LEMMA NumStep ==
  ASSUME TypeOK, NEW t \in Threads, Move(t)
  PROVE  num' \in [TVars -> Nat] /\ \A v \in TVars : num'[v] >= num[v]
<1>0. num \in [TVars -> Nat] BY DEF TypeOK
<1>1. CASE WriteNum(t)
  <2> DEFINE w == e(t).tvar
  <2>1. num' = [num EXCEPT ![w] = @ + 1] BY <1>1 DEF WriteNum
  <2> HIDE DEF w
  <2>2. w \in TVars => num'[w] = num[w] + 1 BY <1>0, <2>1
  <2>3. \A v \in TVars : v # w => num'[v] = num[v] BY <1>0, <2>1
  <2>4. \A v \in TVars : num'[v] >= num[v] /\ num'[v] \in Nat BY <1>0, <2>2, <2>3
  <2> QED BY <1>0, <2>1, <2>4
<1> QED BY <1>0, <1>1, NumChanges

\* A step puts only its own thread on watch queues, or takes it off.
LEMMA WatchStep ==
  ASSUME TypeOK, NEW t \in Threads, Move(t)
  PROVE  watch' \in [TVars -> SUBSET Threads] /\ \A v \in TVars, u \in Threads \ {t} : u \in watch'[v] <=> u \in watch[v]
<1>0. watch \in [TVars -> SUBSET Threads] BY DEF TypeOK
<1>1. CASE WaitEnqueue(t)
   BY <1>0, <1>1 DEF WaitEnqueue
<1>2. CASE RemoveUnlock(t)
   BY <1>0, <1>2 DEF RemoveUnlock
<1> QED BY <1>0, <1>1, <1>2, WatchChanges

\* A step takes no wakeup from another thread.
LEMMA InboxStep ==
  ASSUME TypeOK, NEW t \in Threads, Move(t)
  PROVE  inbox' \in [Threads -> Nat] /\ \A u \in Threads \ {t} : inbox'[u] >= inbox[u]
<1>0. inbox \in [Threads -> Nat] BY DEF TypeOK
<1>1. CASE WriteUnpark(t)
   BY <1>0, <1>1 DEF WriteUnpark
<1>2. CASE DeliverWakeup(t)
   BY <1>0, <1>2 DEF DeliverWakeup
<1> QED BY <1>0, <1>1, <1>2, InboxChanges

\* stmWriteTVar of a TVar in the log changes no TVar and no value that was read.
LEMMA WriteEntries ==
  ASSUME TypeOK, OneEntryEach, NEW t \in Threads, NEW k \in DOMAIN entries[t], NEW x \in Values,
         entries' = [entries EXCEPT ![t][k].new = x]
  PROVE  /\ entries'[t] \in Seq(Entry) /\ SameTVars(t)
<1>1. entries[t] \in Seq(Entry) /\ entries'[t] = [entries[t] EXCEPT ![k].new = x] BY DEF TypeOK
<1>2. entries[t][k] \in Entry BY DomainOK
<1>3. [entries[t][k] EXCEPT !.new = x] \in Entry BY <1>2 DEF Entry
<1>4. entries'[t][k] = [entries[t][k] EXCEPT !.new = x] BY <1>1
<1>5. \A i \in DOMAIN entries[t] : i # k => entries'[t][i] = entries[t][i] BY <1>1
<1>6. DOMAIN entries'[t] = DOMAIN entries[t] BY <1>1
<1>7. entries'[t][k].tvar = entries[t][k].tvar /\ entries'[t][k].exp = entries[t][k].exp
  BY <1>2, <1>4 DEF Entry
<1>8. SameTVars(t) BY <1>5, <1>6, <1>7 DEF SameTVars
<1>9. entries'[t] \in Seq(Entry)
   BY <1>1, <1>3
<1> QED BY <1>8, <1>9

\* Reading num_updates into an entry changes nothing else in the log.
LEMMA NumEntries ==
  ASSUME TypeOK, Phases, NEW t \in Threads, AcquireNum(t)
  PROVE  /\ entries' \in [Threads -> Seq(Entry)] /\ SameTVars(t)
         /\ \A i \in DOMAIN entries[t] : entries'[t][i].new = entries[t][i].new
         /\ \A i \in DOMAIN entries[t] : i # idx[t] => entries'[t][i] = entries[t][i]
         /\ entries'[t][idx[t]].nu = num[e(t).tvar]
         /\ \A u \in Threads \ {t} : entries'[u] = entries[u]
<1> DEFINE k == idx[t]
<1> DEFINE x == num[e(t).tvar]
<1>0. k \in DOMAIN entries[t] /\ x \in Nat BY EntryOK DEF Phases, Phase, AcquireNum, TypeOK
<1>a. entries' = [entries EXCEPT ![t][k].nu = x] BY DEF AcquireNum
<1> HIDE DEF k, x
<1>1. entries[t] \in Seq(Entry) /\ entries'[t] = [entries[t] EXCEPT ![k].nu = x]
  BY <1>a DEF TypeOK
<1>2. entries[t][k] \in Entry BY <1>0, DomainOK
<1>3. [entries[t][k] EXCEPT !.nu = x] \in Entry BY <1>0, <1>2 DEF Entry
<1>4. entries'[t][k] = [entries[t][k] EXCEPT !.nu = x] BY <1>0, <1>1
<1>5. \A i \in DOMAIN entries[t] : i # k => entries'[t][i] = entries[t][i] BY <1>1
<1>6. DOMAIN entries'[t] = DOMAIN entries[t] BY <1>1
<1>7. /\ entries'[t][k].tvar = entries[t][k].tvar /\ entries'[t][k].exp = entries[t][k].exp
      /\ entries'[t][k].new = entries[t][k].new /\ entries'[t][k].nu = x BY <1>2, <1>4 DEF Entry
<1>8. SameTVars(t) /\ \A i \in DOMAIN entries[t] : entries'[t][i].new = entries[t][i].new
  BY <1>5, <1>6, <1>7 DEF SameTVars
<1>9. entries'[t] \in Seq(Entry)
   BY <1>0, <1>1, <1>3
<1>10. entries' \in [Threads -> Seq(Entry)] /\ \A u \in Threads \ {t} : entries'[u] = entries[u]
   BY <1>9, <1>a DEF TypeOK
<1> QED BY <1>5, <1>7, <1>8, <1>10 DEF k, x

\* build_watch_queue_entries_for_trec changes no TVar and no value that was read.
LEMMA QueueEntries ==
  ASSUME TypeOK, NEW t \in Threads, WaitEnqueue(t)
  PROVE  /\ entries'[t] \in Seq(Entry) /\ SameTVars(t)
<1> DEFINE q(i) == [entries[t][i] EXCEPT !.new = QueueEntry]
<1>1. entries'[t] = [i \in DOMAIN entries[t] |-> q(i)] BY DEF WaitEnqueue, TypeOK
<1>2. \A i \in DOMAIN entries[t] : q(i) \in Entry /\ q(i).tvar = entries[t][i].tvar /\ q(i).exp = entries[t][i].exp
  BY DomainOK DEF Entry
<1> HIDE DEF q
<1>3. SameTVars(t) BY <1>1, <1>2 DEF SameTVars
<1>4. entries'[t] \in Seq(Entry) BY <1>1, <1>2, DomainOK
<1> QED BY <1>3, <1>4

\* A step leaves the logs of other threads alone; outside the body it keeps the
\* TVars of its own log or frees it.
LEMMA EntriesStep ==
  ASSUME TypeOK, OneEntryEach, Phases, NEW t \in Threads, Move(t)
  PROVE  /\ entries' \in [Threads -> Seq(Entry)]
         /\ \A u \in Threads \ {t} : entries'[u] = entries[u]
         /\ pc[t] # "run" => entries'[t] = <<>> \/ SameTVars(t)
         /\ OneEntryEach'
<1>0. entries \in [Threads -> Seq(Entry)] BY DEF TypeOK
<1> DEFINE Kept == entries'[t] \in Seq(Entry) /\ SameTVars(t)
           Empty == entries'[t] = <<>>
           Grown == /\ entries'[t] \in Seq(Entry) /\ pc[t] = "run"
                    /\ \A i, j \in DOMAIN entries'[t] : entries'[t][i].tvar = entries'[t][j].tvar => i = j
           Rest == \A u \in Threads \ {t} : entries'[u] = entries[u]
           Fun == entries' = [u \in Threads |-> entries'[u]]
           Goal == Rest /\ Fun /\ (Kept \/ Empty \/ Grown)
<1>1. ASSUME entries' = entries PROVE Goal
  <2>1. Kept BY <1>0, <1>1 DEF SameTVars
  <2> QED BY <1>0, <1>1, <2>1
<1>2. ASSUME entries' = [entries EXCEPT ![t] = <<>>] PROVE Goal
  BY <1>0, <1>2
<1>3. ASSUME NEW v \in TVars, ReadTVar(t, v) PROVE Goal
  <2>1. Grown BY <1>3, ReadEntries DEF ReadTVar, TypeOK
  <2>2. Rest /\ Fun BY <1>0, <1>3 DEF ReadTVar
  <2> QED BY <2>1, <2>2
<1>4. ASSUME NEW v \in TVars, NEW x \in Values, WriteTVar(t, v, x) PROVE Goal
  <2>1. CASE EntryFor(t, v) = 0
    <3>1. pc[t] = "run" /\ cur[v] \in Values /\ entries' = [entries EXCEPT ![t] = Append(@, NewEntry(v, cur[v], x))]
      BY <1>4, <2>1 DEF WriteTVar
    <3>2. Grown BY <2>1, <3>1, ReadEntries
    <3> QED BY <1>0, <3>1, <3>2
  <2>2. CASE EntryFor(t, v) # 0
    <3>1. entries' = [entries EXCEPT ![t][EntryFor(t, v)].new = x]
      BY <1>4, <2>2 DEF WriteTVar
    <3>2. EntryFor(t, v) \in DOMAIN entries[t] BY <2>2, EntryForOK
    <3>3. Kept BY <3>1, <3>2, WriteEntries
    <3>4. Rest /\ Fun BY <1>0, <3>1
    <3> QED BY <3>3, <3>4
  <2> QED BY <2>1, <2>2
<1>5. ASSUME AcquireNum(t) PROVE Goal
  <2>1. Kept /\ Rest BY <1>0, <1>5, NumEntries
  <2>2. Fun BY <1>0, <1>5 DEF AcquireNum
  <2> QED BY <2>1, <2>2
<1>6. ASSUME WaitEnqueue(t) PROVE Goal
  <2>1. Kept BY <1>6, QueueEntries
  <2>2. Rest /\ Fun BY <1>0, <1>6 DEF WaitEnqueue
  <2> QED BY <2>1, <2>2
<1>7. Goal BY <1>1, <1>2, <1>3, <1>4, <1>5, <1>6, EntriesChanges
<1>8. entries'[t] \in Seq(Entry)
  <2>1. << >> \in Seq(Entry) OBVIOUS
  <2> QED BY <1>7, <2>1
<1>9. entries' \in [Threads -> Seq(Entry)] BY <1>0, <1>7, <1>8
<1>10. pc[t] # "run" => entries'[t] = <<>> \/ SameTVars(t) BY <1>7
<1>11. \A i, j \in DOMAIN entries'[t] : entries'[t][i].tvar = entries'[t][j].tvar => i = j
  <2>1. CASE Kept
    <3>1. DOMAIN entries'[t] = DOMAIN entries[t] /\ \A i \in DOMAIN entries[t] : entries'[t][i].tvar = entries[t][i].tvar
      BY <2>1 DEF SameTVars
    <3>2. \A i, j \in DOMAIN entries[t] : entries[t][i].tvar = entries[t][j].tvar => i = j
      BY DEF OneEntryEach
    <3> QED BY <3>1, <3>2
  <2> QED BY <1>7, <2>1
<1>12. OneEntryEach' BY <1>7, <1>11 DEF OneEntryEach
<1> QED BY <1>7, <1>9, <1>10, <1>12

\* Where Goto, NextEntry, FreeTRec and Fail leave a thread
LEMMA GotoAt ==
  ASSUME TypeOK, NEW t \in Threads, NEW p, Goto(t, p)
  PROVE  pc'[t] = p /\ idx'[t] = 1
BY DEF TypeOK, Goto

\* NextEntry moves on by one entry.
LEMMA NextAt ==
  ASSUME TypeOK, NEW t \in Threads, NEW p, NextEntry(t, p)
  PROVE  pc'[t] = p /\ idx'[t] = idx[t] + 1
BY DEF TypeOK, NextEntry

\* A step within one entry stays at it.
LEMMA StayAt ==
  ASSUME TypeOK, NEW t \in Threads, NEW p, pc' = [pc EXCEPT ![t] = p], idx' = idx
  PROVE  pc'[t] = p /\ idx'[t] = idx[t]
BY DEF TypeOK

\* FreeTRec leaves an empty log.
LEMMA FreeAt ==
  ASSUME TypeOK, NEW t \in Threads, NEW p, FreeTRec(t, p)
  PROVE  pc'[t] = p /\ idx'[t] = 1 /\ entries'[t] = <<>> /\ mode'[t] = "commit" /\ ok'[t]
BY GotoAt DEF TypeOK, FreeTRec

\* A validation that fails goes to revert_ownership.
LEMMA FailAt ==
  ASSUME TypeOK, NEW t \in Threads, Fail(t)
  PROVE  pc'[t] = "revert" /\ idx'[t] = 1 /\ ~ok'[t]
BY GotoAt DEF TypeOK, Fail

\* A step of t locks a TVar that is free, gives back one it holds, or leaves it alone.
LEMMA CurStep ==
  ASSUME StructInv, NEW t \in Threads, Move(t)
  PROVE  /\ cur' \in [TVars -> Values \cup Threads]
         /\ \A v \in TVars : \/ cur'[v] = cur[v]
                             \/ cur[v] \in Values /\ cur'[v] = t
                             \/ cur[v] = t /\ cur'[v] \in Values
<1> USE DEF StructInv
<1>0. cur \in [TVars -> Values \cup Threads] BY DEF TypeOK
<1> DEFINE w == e(t).tvar
<1>1. CASE AcquireLock(t)
  <2>1. w \in TVars /\ e(t).exp \in Values BY <1>1, EntryOK DEF AcquireLock
  <2>2. cur' = cur \/ (cur[w] = e(t).exp /\ cur' = [cur EXCEPT ![w] = t])
    BY <1>1 DEF AcquireLock
  <2> HIDE DEF w
  <2> QED BY <1>0, <2>1, <2>2
<1>2. CASE Revert(t)
  <2>1. w \in TVars /\ e(t).exp \in Values BY <1>2, EntryOK DEF Revert
  <2>2. cur' = cur \/ (cur[w] = t /\ cur' = [cur EXCEPT ![w] = e(t).exp]) BY <1>2 DEF Revert
  <2> HIDE DEF w
  <2> QED BY <1>0, <2>1, <2>2
<1>3. CASE WriteUnlock(t)
  <2>1. More(t) /\ IsUpdate(e(t)) /\ mode[t] = "commit" BY <1>3 DEF WriteUnlock, Phases, Phase
  <2>2. w \in TVars /\ idx[t] \in DOMAIN entries[t] BY <2>1, EntryOK
  <2>3. Holds(t, idx[t]) BY <1>3, <2>1 DEF WriteUnlock, Holds, Committing, e, TypeOK
  <2>4. cur[w] = t BY <2>2, <2>3 DEF LocksHeld, e
  <2>5. e(t).new \in Values BY <2>1, <2>2 DEF Phases, Phase, e
  <2>6. cur' = [cur EXCEPT ![w] = e(t).new] BY <1>3 DEF WriteUnlock
  <2> HIDE DEF w
  <2> QED BY <1>0, <2>2, <2>4, <2>5, <2>6
<1>4. CASE RemoveLock(t)
  <2>1. w \in TVars BY <1>4, EntryOK DEF RemoveLock
  <2>2. cur[w] \in Values /\ cur' = [cur EXCEPT ![w] = t] BY <1>4 DEF RemoveLock
  <2> HIDE DEF w
  <2> QED BY <1>0, <2>1, <2>2
<1>5. CASE RemoveUnlock(t)
  <2>1. More(t) /\ saw[t] \in Values BY <1>5 DEF RemoveUnlock, Phases, Phase
  <2>2. w \in TVars /\ idx[t] \in DOMAIN entries[t] BY <2>1, EntryOK
  <2>3. cur[w] = t
    BY <1>5, <2>2 DEF RemoveUnlock, LocksHeld, Holds, e
  <2>4. cur' = [cur EXCEPT ![w] = saw[t]] BY <1>5 DEF RemoveUnlock
  <2> HIDE DEF w
  <2> QED BY <1>0, <2>1, <2>2, <2>3, <2>4
<1> QED BY <1>0, <1>1, <1>2, <1>3, <1>4, <1>5, CurChanges

\* Type correctness is kept.
LEMMA TypeStep ==
  ASSUME StructInv, NEW t \in Threads, Move(t)
  PROVE  TypeOK'
BY PcStep, FlagStep, SawStep, NumStep, WatchStep, InboxStep, EntriesStep, CurStep DEF
    TypeOK, StructInv

\* A step of one thread leaves where the others are alone.
LEMMA OtherPhases ==
  ASSUME StructInv, NEW t \in Threads, Move(t), NEW u \in Threads \ {t}
  PROVE  Phase(u)'
<1>1. /\ pc'[u] = pc[u] /\ idx'[u] = idx[u] /\ mode'[u] = mode[u] /\ ok'[u] = ok[u]
      /\ saw'[u] = saw[u] /\ entries'[u] = entries[u]
  BY PcStep, FlagStep, SawStep, EntriesStep DEF StructInv
<1>2. Phase(u) BY DEF StructInv, Phases
<1> QED BY <1>1, <1>2 DEF Phase, More, e, IsUpdate

\* A thread in the body of a transaction
LEMMA RunPhase ==
  ASSUME TypeOK, NEW t \in Threads, pc'[t] = "run", mode'[t] = "commit",
         \A i \in DOMAIN entries'[t] : entries'[t][i].new \in Values
  PROVE  Phase(t)'
BY DEF Phase

\* Reading a TVar adds an entry with a value.
LEMMA ReadValues ==
  ASSUME TypeOK, NEW t \in Threads, NEW v \in TVars, NEW x \in Values, cur[v] \in Values,
         \A i \in DOMAIN entries[t] : entries[t][i].new \in Values,
         entries' = [entries EXCEPT ![t] = Append(@, NewEntry(v, cur[v], x))]
  PROVE  \A i \in DOMAIN entries'[t] : entries'[t][i].new \in Values
<1> DEFINE n == NewEntry(v, cur[v], x)
<1>1. n \in Entry /\ n.new \in Values BY DEF NewEntry, Entry
<1>2. entries[t] \in Seq(Entry) /\ entries'[t] = Append(entries[t], n) BY DEF TypeOK
<1> HIDE DEF n
<1> QED BY <1>1, <1>2

\* Writing a TVar in the log leaves values in it.
LEMMA WriteValues ==
  ASSUME TypeOK, NEW t \in Threads, NEW k \in DOMAIN entries[t], NEW x \in Values,
         \A i \in DOMAIN entries[t] : entries[t][i].new \in Values,
         entries' = [entries EXCEPT ![t][k].new = x]
  PROVE  \A i \in DOMAIN entries'[t] : entries'[t][i].new \in Values
<1>1. entries[t] \in Seq(Entry) /\ entries'[t] = [entries[t] EXCEPT ![k].new = x] BY DEF TypeOK
<1>2. entries[t][k] \in Entry BY DomainOK
<1>3. entries'[t][k] = [entries[t][k] EXCEPT !.new = x] BY <1>1
<1>4. entries'[t][k].new = x BY <1>2, <1>3 DEF Entry
<1> QED BY <1>1, <1>4

\* A step takes its own thread to where it may go.
LEMMA OwnPhase ==
  ASSUME StructInv, NEW t \in Threads, Move(t)
  PROVE  Phase(t)'
<1> USE DEF StructInv
<1>0. TypeOK /\ Phase(t) BY DEF Phases
<1>1. CASE Start(t)
  BY <1>0, <1>1, GotoAt DEF Start, Phase
<1>2. ASSUME NEW v \in TVars, ReadTVar(t, v) PROVE Phase(t)'
  <2>1. \A i \in DOMAIN entries[t] : entries[t][i].new \in Values
    BY <1>0, <1>2 DEF ReadTVar, Phase
  <2>2. \A i \in DOMAIN entries'[t] : entries'[t][i].new \in Values
    BY <1>2, <2>1, ReadValues DEF ReadTVar
  <2> QED BY <1>0, <1>2, <2>2, RunPhase DEF ReadTVar, Phase
<1>3. ASSUME NEW v \in TVars, NEW x \in Values, WriteTVar(t, v, x) PROVE Phase(t)'
  <2>1. \A i \in DOMAIN entries[t] : entries[t][i].new \in Values
    BY <1>0, <1>3 DEF WriteTVar, Phase
  <2>2. \A i \in DOMAIN entries'[t] : entries'[t][i].new \in Values
    BY <1>3, <2>1, ReadValues, WriteValues, EntryForOK DEF WriteTVar
  <2> QED BY <1>0, <1>3, <2>2, RunPhase DEF WriteTVar, Phase
<1>4. CASE \E m \in {"commit", "wait", "throw"} : EndBody(t, m)
  BY <1>0, <1>4, GotoAt DEF EndBody, Phase, TypeOK
<1>5. CASE InFlightAbort(t)
  BY <1>0, <1>5 DEF InFlightAbort, Phase, TypeOK
<1>6. CASE AbortRunning(t)
  BY <1>0, <1>6, FreeAt DEF AbortRunning, Phase
<1>7. CASE AbortWaiting(t)
  BY <1>0, <1>7, GotoAt DEF AbortWaiting, Phase, TypeOK
<1>8. CASE AcquireLock(t)
  BY <1>0, <1>8, NextAt, FailAt DEF AcquireLock, Phase
<1>9. CASE AcquireRead(t)
  BY <1>0, <1>9, FailAt DEF AcquireRead, Phase, TypeOK, AcquireAll, More, e
<1>10. CASE AcquireNum(t)
  <2>1. pc'[t] = "acquire_again" /\ idx'[t] = idx[t] /\ mode'[t] = mode[t]
    BY <1>0, <1>10 DEF AcquireNum, TypeOK
  <2>2. More(t) /\ ~IsUpdate(e(t)) /\ mode[t] = "commit" BY <1>0, <1>10 DEF AcquireNum, Phase
  <2>3. DOMAIN entries'[t] = DOMAIN entries[t] /\ Len(entries'[t]) = Len(entries[t])
    BY <1>0, <1>10, NumEntries DEF SameTVars, TypeOK
  <2>4. \A i \in DOMAIN entries[t] : /\ entries'[t][i].new = entries[t][i].new
                                    /\ entries'[t][i].exp = entries[t][i].exp
    BY <1>0, <1>10, NumEntries DEF SameTVars
  <2>5. idx[t] \in DOMAIN entries[t] BY <2>2, EntryOK
  <2> QED BY <1>0, <2>1, <2>2, <2>3, <2>4, <2>5 DEF Phase, More, e, IsUpdate
<1>11. CASE AcquireAgain(t)
  BY <1>0, <1>11, NextAt, FailAt DEF AcquireAgain, Phase
<1>12. CASE AcquireDone(t)
  BY <1>0, <1>12, GotoAt DEF AcquireDone, Phase, TypeOK
<1>13. CASE Revert(t)
  BY <1>0, <1>13, NextAt DEF Revert, Phase
<1>14. CASE RevertDone(t)
  BY <1>0, <1>14, FreeAt, GotoAt DEF RevertDone, Phase
<1>15. CASE CheckValue(t)
  BY <1>0, <1>15, NextAt DEF CheckValue, Phase, TypeOK, More, e
<1>16. CASE CheckNum(t)
  BY <1>0, <1>16, NextAt, FailAt DEF CheckNum, Phase
<1>17. CASE CheckDone(t)
  BY <1>0, <1>17, GotoAt DEF CheckDone, Phase
<1>18. CASE WriteUnpark(t)
  BY <1>0, <1>18, NextAt DEF WriteUnpark, Phase, TypeOK, More, e
<1>19. CASE WriteNum(t)
  BY <1>0, <1>19 DEF WriteNum, Phase, TypeOK, More, e
<1>20. CASE WriteUnlock(t)
  BY <1>0, <1>20, NextAt DEF WriteUnlock, Phase
<1>21. CASE WriteDone(t)
  BY <1>0, <1>21, FreeAt DEF WriteDone, Phase
<1>22. CASE WaitEnqueue(t)
  BY <1>0, <1>22, GotoAt DEF WaitEnqueue, Phase
<1>23. CASE Park(t)
  BY <1>0, <1>23, GotoAt DEF Park, Phase
<1>24. CASE ReWait(t)
  BY <1>0, <1>24, GotoAt DEF ReWait, Phase, TypeOK
<1>25. CASE RemoveLock(t)
  BY <1>0, <1>25 DEF RemoveLock, Phase, TypeOK, More, e
<1>26. CASE RemoveUnlock(t)
  BY <1>0, <1>26, NextAt DEF RemoveUnlock, Phase
<1>27. CASE RemoveDone(t)
  BY <1>0, <1>27, FreeAt DEF RemoveDone, Phase, TypeOK
<1>28. CASE DeliverWakeup(t)
  BY <1>0, <1>28 DEF DeliverWakeup, Phase, More, e, IsUpdate
<1> QED
  BY <1>1, <1>2, <1>3, <1>4, <1>5, <1>6, <1>7, <1>8, <1>9, <1>10, <1>11, <1>12, <1>13,
      <1>14, <1>15, <1>16,
  <1>17, <1>18, <1>19, <1>20, <1>21, <1>22, <1>23, <1>24, <1>25, <1>26, <1>27, <1>28 DEF Move, Body, Step

\* LocksHeld and LocksKnown for one thread
LocksOf(t) ==
  /\ \A i \in DOMAIN entries[t] : Holds(t, i) => cur[entries[t][i].tvar] = t
  /\ \A v \in TVars : cur[v] = t => \E i \in DOMAIN entries[t] :
                         entries[t][i].tvar = v /\ (Holds(t, i) \/ MayHold(t, i))

\* A step of one thread leaves what the others hold alone.
LEMMA OtherLocks ==
  ASSUME StructInv, NEW t \in Threads, Move(t), NEW u \in Threads \ {t}
  PROVE  LocksOf(u)'
<1>1. /\ pc'[u] = pc[u] /\ idx'[u] = idx[u] /\ mode'[u] = mode[u] /\ entries'[u] = entries[u]
  BY PcStep, FlagStep, EntriesStep DEF StructInv
<1>2. \A v \in TVars : cur'[v] = u <=> cur[v] = u
  BY CurStep, STMAssumption
<1>3. \A i : (Holds(u, i)' <=> Holds(u, i)) /\ (MayHold(u, i)' <=> MayHold(u, i))
  BY <1>1 DEF Holds, MayHold, Committing, AcquireAll, IsUpdate
<1>4. LocksOf(u) BY DEF LocksOf, StructInv, LocksHeld, LocksKnown
<1>5. \A i \in DOMAIN entries[u] : entries[u][i].tvar \in TVars BY DomainOK DEF StructInv
<1> QED BY <1>1, <1>2, <1>3, <1>4, <1>5 DEF LocksOf

\* Outside STM.c, and between TVars in the removal, a thread holds nothing.
LEMMA NoLocks ==
  ASSUME NEW t \in Threads, LocksOf(t), pc[t] \in {"idle", "run", "parked", "remove"}
  PROVE  \A v \in TVars : cur[v] # t
BY DEF LocksOf, Holds, MayHold, Committing

\* A thread that holds nothing and goes outside STM.c may do so.
LEMMA NoLocksNext ==
  ASSUME NEW t \in Threads, \A v \in TVars : cur[v] # t, cur' = cur,
         pc'[t] \in {"idle", "run", "parked", "remove"}
  PROVE  LocksOf(t)'
BY DEF LocksOf, Holds, MayHold, Committing

\* A step that writes no current_value keeps the locks, if the log keeps its TVars.
LEMMA SameLocks ==
  ASSUME TypeOK, NEW t \in Threads, LocksOf(t), cur' = cur, SameTVars(t),
         \A i \in DOMAIN entries[t] : /\ Holds(t, i)' => Holds(t, i)
                                      /\ Holds(t, i) \/ MayHold(t, i) => Holds(t, i)' \/ MayHold(t, i)'
  PROVE  LocksOf(t)'
BY DEF LocksOf, SameTVars

\* A log that does not change keeps its TVars.
LEMMA SameLogs ==
  ASSUME TypeOK, NEW t \in Threads, entries' = entries
  PROVE  SameTVars(t)
BY DEF SameTVars

\* A step accounts for what its own thread holds: action by action.
LEMMA OwnLocks ==
  ASSUME StructInv, NEW t \in Threads, Move(t)
  PROVE  LocksOf(t)'
<1> USE DEF StructInv
<1>0. TypeOK /\ Phase(t) /\ LocksOf(t) BY DEF Phases, LocksOf, LocksHeld, LocksKnown
<1>b. DOMAIN entries[t] = 1..Len(entries[t]) /\ Len(entries[t]) \in Nat /\ idx[t] \in Nat /\ idx[t] > 0
  BY DomainOK DEF TypeOK
<1>1. CASE Start(t)
  BY <1>0, <1>1, GotoAt, NoLocks, NoLocksNext DEF Start
<1>2. ASSUME NEW v \in TVars, ReadTVar(t, v) PROVE LocksOf(t)'
  BY <1>0, <1>2, NoLocks, NoLocksNext DEF ReadTVar
<1>3. ASSUME NEW v \in TVars, NEW x \in Values, WriteTVar(t, v, x) PROVE LocksOf(t)'
  BY <1>0, <1>3, NoLocks, NoLocksNext DEF WriteTVar
<1>4. ASSUME NEW m \in {"commit", "wait", "throw"}, EndBody(t, m) PROVE LocksOf(t)'
  <2>1. \A v \in TVars : cur'[v] # t BY <1>0, <1>4, NoLocks DEF EndBody
  <2>2. pc'[t] = "acquire" /\ idx'[t] = 1 /\ entries' = entries
    BY <1>0, <1>4, GotoAt DEF EndBody
  <2> QED BY <1>b, <2>1, <2>2 DEF LocksOf, Holds, Committing
<1>5. CASE InFlightAbort(t)
  BY <1>0, <1>5, NoLocks, NoLocksNext DEF InFlightAbort
<1>6. CASE AbortRunning(t)
  BY <1>0, <1>6, FreeAt, NoLocks, NoLocksNext DEF AbortRunning
<1>7. CASE AbortWaiting(t)
  BY <1>0, <1>7, GotoAt, NoLocks, NoLocksNext DEF AbortWaiting
<1>8. CASE AcquireLock(t)
  <2> DEFINE k == idx[t]
             w == e(t).tvar
  <2>1. k \in DOMAIN entries[t] /\ w \in TVars /\ e(t).exp \in Values
    BY <1>0, <1>8, EntryOK DEF AcquireLock
  <2>2. CASE cur[w] = e(t).exp
    <3>1. pc'[t] = "acquire" /\ idx'[t] = k + 1 /\ mode' = mode /\ entries' = entries
      BY <1>0, <1>8, <2>2, NextAt DEF AcquireLock
    <3>2. cur' = [cur EXCEPT ![w] = t] BY <1>8, <2>2 DEF AcquireLock
    <3>3. cur'[w] = t /\ \A v \in TVars : v # w => cur'[v] = cur[v]
      BY <1>0, <2>1, <3>2 DEF TypeOK
    <3>4. \A i \in DOMAIN entries[t] : /\ Holds(t, i)' <=> Holds(t, i) \/ i = k
                                       /\ ~MayHold(t, i)
      BY <1>0, <1>b, <1>8, <2>1, <3>1 DEF AcquireLock, Holds, MayHold, Committing,
          AcquireAll, IsUpdate, e
    <3>5. entries[t][k].tvar = w BY DEF e
    <3>6. \A i \in DOMAIN entries[t] : entries[t][i].tvar \in TVars BY <1>0, DomainOK
    <3> HIDE DEF w, k
    <3> QED BY <1>0, <2>1, <3>1, <3>3, <3>4, <3>5, <3>6 DEF LocksOf
  <2>3. CASE cur[w] # e(t).exp
    <3>1. pc'[t] = "revert" /\ idx'[t] = 1 /\ mode' = mode /\ entries' = entries /\ cur' = cur
      BY <1>0, <1>8, <2>3, FailAt DEF AcquireLock
    <3>2. \A i \in DOMAIN entries[t] : /\ ~Holds(t, i)'
                                       /\ Holds(t, i) \/ MayHold(t, i) => MayHold(t, i)'
      BY <1>0, <1>b, <1>8, <3>1 DEF AcquireLock, Holds, MayHold, Committing, AcquireAll,
          IsUpdate
    <3> QED BY <1>0, <3>1, <3>2, SameLocks, SameLogs
  <2> QED BY <2>2, <2>3
<1>9. CASE AcquireRead(t)
  <2>0. Fail(t) \/ (pc' = [pc EXCEPT ![t] = "acquire_num"] /\ idx' = idx)
    BY <1>9 DEF AcquireRead
  <2>1. \/ pc'[t] = "acquire_num" /\ idx'[t] = idx[t]
        \/ pc'[t] = "revert" /\ idx'[t] = 1
    BY <1>0, <2>0, FailAt, StayAt
  <2>2. SameTVars(t) BY <1>0, <1>9, SameLogs DEF AcquireRead
  <2>3. \A i \in DOMAIN entries[t] : /\ Holds(t, i)' => Holds(t, i)
                                     /\ Holds(t, i) \/ MayHold(t, i) => Holds(t, i)' \/ MayHold(t, i)'
    BY <1>0, <1>b, <1>9, <2>1, <2>2 DEF AcquireRead, Phase, Holds, MayHold, Committing,
        AcquireAll, IsUpdate, More, e, TypeOK
  <2> QED BY <1>0, <1>9, <2>2, <2>3, SameLocks DEF AcquireRead
<1>10. CASE AcquireNum(t)
  <2>1. pc'[t] = "acquire_again" /\ idx'[t] = idx[t] /\ mode' = mode /\ cur' = cur
    BY <1>0, <1>10 DEF AcquireNum, TypeOK
  <2>2. /\ SameTVars(t)
        /\ \A i \in DOMAIN entries[t] : entries'[t][i].exp = entries[t][i].exp /\ entries'[t][i].new = entries[t][i].new
    BY <1>0, <1>10, NumEntries DEF SameTVars
  <2>3. \A i \in DOMAIN entries[t] : /\ Holds(t, i)' => Holds(t, i)
                                     /\ Holds(t, i) \/ MayHold(t, i) => Holds(t, i)' \/ MayHold(t, i)'
    BY <1>0, <1>b, <1>10, <2>1, <2>2 DEF AcquireNum, Holds, MayHold, Committing, AcquireAll,
        IsUpdate
  <2> QED BY <1>0, <2>1, <2>2, <2>3, SameLocks
<1>11. CASE AcquireAgain(t)
  <2>0. Fail(t) \/ NextEntry(t, "acquire")
    BY <1>11 DEF AcquireAgain
  <2>1. \/ pc'[t] = "acquire" /\ idx'[t] = idx[t] + 1
        \/ pc'[t] = "revert" /\ idx'[t] = 1
    BY <1>0, <2>0, FailAt, NextAt
  <2>2. SameTVars(t) BY <1>0, <1>11, SameLogs DEF AcquireAgain
  <2>3. \A i \in DOMAIN entries[t] : /\ Holds(t, i)' => Holds(t, i)
                                     /\ Holds(t, i) \/ MayHold(t, i) => Holds(t, i)' \/ MayHold(t, i)'
    BY <1>0, <1>b, <1>11, <2>1, <2>2 DEF AcquireAgain, Phase, Holds, MayHold, Committing,
        AcquireAll, IsUpdate, More, e, TypeOK
  <2> QED BY <1>0, <1>11, <2>2, <2>3, SameLocks DEF AcquireAgain
<1>12. CASE AcquireDone(t)
  <2>1. pc'[t] = [commit |-> "check", wait |-> "enqueue",
                rewait |-> "park", throw |-> "revert"][mode[t]] /\ idx'[t] = 1
    BY <1>0, <1>12, GotoAt DEF AcquireDone, TypeOK
  <2>2. SameTVars(t) BY <1>0, <1>12, SameLogs DEF AcquireDone
  <2>3. \A i \in DOMAIN entries[t] : /\ Holds(t, i)' => Holds(t, i)
                                     /\ Holds(t, i) \/ MayHold(t, i) => Holds(t, i)' \/ MayHold(t, i)'
    BY <1>0, <1>b, <1>12, <2>1, <2>2 DEF AcquireDone, Phase, Holds, MayHold, Committing,
        AcquireAll, IsUpdate, More, e, TypeOK
  <2> QED BY <1>0, <1>12, <2>2, <2>3, SameLocks DEF AcquireDone
<1>13. CASE Revert(t)
  <2> DEFINE k == idx[t]
             w == e(t).tvar
  <2>1. k \in DOMAIN entries[t] /\ w \in TVars /\ e(t).exp \in Values
    BY <1>0, <1>13, EntryOK DEF Revert
  <2>2. pc'[t] = "revert" /\ idx'[t] = k + 1 /\ mode' = mode /\ entries' = entries /\ pc[t] = "revert"
    BY <1>0, <1>13, NextAt DEF Revert
  <2>3. entries[t][k].tvar = w BY DEF e
  <2>4. \A v \in TVars : cur'[v] = t => cur[v] = t /\ ~(v = w /\ (AcquireAll(t) \/ IsUpdate(e(t))))
    <3>1. \/ cur' = cur /\ ~(cur[w] = t /\ (AcquireAll(t) \/ IsUpdate(e(t))))
          \/ cur' = [cur EXCEPT ![w] = e(t).exp] /\ (AcquireAll(t) \/ IsUpdate(e(t)))
      BY <1>13 DEF Revert
    <3> HIDE DEF w, k
    <3> QED BY <1>0, <2>1, <3>1, STMAssumption DEF TypeOK
  <2>5. \A i \in DOMAIN entries[t] : /\ ~Holds(t, i) /\ ~Holds(t, i)'
                                     /\ MayHold(t, i) => MayHold(t, i)' \/ (i = k /\ (AcquireAll(t) \/ IsUpdate(e(t))))
    BY <1>0, <1>b, <2>2 DEF Holds, MayHold, Committing, AcquireAll, IsUpdate, e
  <2> HIDE DEF w, k
  <2> QED BY <1>0, <2>1, <2>2, <2>3, <2>4, <2>5 DEF LocksOf
<1>14. CASE RevertDone(t)
  <2>1. \A i \in DOMAIN entries[t] : ~Holds(t, i) /\ ~MayHold(t, i)
    BY <1>b, <1>14 DEF RevertDone, Holds, MayHold, Committing, More
  <2>2. \A v \in TVars : cur[v] # t BY <1>0, <2>1 DEF LocksOf
  <2>3. cur' = cur /\ pc'[t] \in {"idle", "run", "parked", "remove"}
    BY <1>0, <1>14, FreeAt, GotoAt DEF RevertDone
  <2> QED BY <2>2, <2>3, NoLocksNext
<1>15. CASE CheckValue(t)
  <2>0. NextEntry(t, "check") \/ (pc' = [pc EXCEPT ![t] = "check_num"] /\ idx' = idx)
    BY <1>15 DEF CheckValue
  <2>1. \/ pc'[t] = "check" /\ idx'[t] = idx[t] + 1
        \/ pc'[t] = "check_num" /\ idx'[t] = idx[t]
    BY <1>0, <2>0, NextAt, StayAt
  <2>2. SameTVars(t) BY <1>0, <1>15, SameLogs DEF CheckValue
  <2>3. \A i \in DOMAIN entries[t] : /\ Holds(t, i)' => Holds(t, i)
                                     /\ Holds(t, i) \/ MayHold(t, i) => Holds(t, i)' \/ MayHold(t, i)'
    BY <1>0, <1>b, <1>15, <2>1, <2>2 DEF CheckValue, Phase, Holds, MayHold, Committing,
        AcquireAll, IsUpdate, More, e, TypeOK
  <2> QED BY <1>0, <1>15, <2>2, <2>3, SameLocks DEF CheckValue
<1>16. CASE CheckNum(t)
  <2>0. Fail(t) \/ NextEntry(t, "check")
    BY <1>16 DEF CheckNum
  <2>1. \/ pc'[t] = "check" /\ idx'[t] = idx[t] + 1
        \/ pc'[t] = "revert" /\ idx'[t] = 1
    BY <1>0, <2>0, FailAt, NextAt
  <2>2. SameTVars(t) BY <1>0, <1>16, SameLogs DEF CheckNum
  <2>3. \A i \in DOMAIN entries[t] : /\ Holds(t, i)' => Holds(t, i)
                                     /\ Holds(t, i) \/ MayHold(t, i) => Holds(t, i)' \/ MayHold(t, i)'
    BY <1>0, <1>b, <1>16, <2>1, <2>2 DEF CheckNum, Phase, Holds, MayHold, Committing,
        AcquireAll, IsUpdate, More, e, TypeOK
  <2> QED BY <1>0, <1>16, <2>2, <2>3, SameLocks DEF CheckNum
<1>17. CASE CheckDone(t)
  <2>1. pc'[t] = "write" /\ idx'[t] = 1
    BY <1>0, <1>17, GotoAt DEF CheckDone, TypeOK
  <2>2. SameTVars(t) BY <1>0, <1>17, SameLogs DEF CheckDone
  <2>3. \A i \in DOMAIN entries[t] : /\ Holds(t, i)' => Holds(t, i)
                                     /\ Holds(t, i) \/ MayHold(t, i) => Holds(t, i)' \/ MayHold(t, i)'
    BY <1>0, <1>b, <1>17, <2>1, <2>2 DEF CheckDone, Phase, Holds, MayHold, Committing,
        AcquireAll, IsUpdate, More, e, TypeOK
  <2> QED BY <1>0, <1>17, <2>2, <2>3, SameLocks DEF CheckDone
<1>18. CASE WriteUnpark(t)
  <2>0. (NextEntry(t, "write") /\ ~IsUpdate(e(t))) \/ (pc' = [pc EXCEPT ![t] = "write_num"] /\ idx' = idx)
    BY <1>18 DEF WriteUnpark
  <2>1. \/ pc'[t] = "write" /\ idx'[t] = idx[t] + 1 /\ ~IsUpdate(e(t))
        \/ pc'[t] = "write_num" /\ idx'[t] = idx[t]
    BY <1>0, <2>0, NextAt, StayAt
  <2>2. SameTVars(t) BY <1>0, <1>18, SameLogs DEF WriteUnpark
  <2>3. \A i \in DOMAIN entries[t] : /\ Holds(t, i)' => Holds(t, i)
                                     /\ Holds(t, i) \/ MayHold(t, i) => Holds(t, i)' \/ MayHold(t, i)'
    BY <1>0, <1>b, <1>18, <2>1, <2>2 DEF WriteUnpark, Phase, Holds, MayHold, Committing,
        AcquireAll, IsUpdate, More, e, TypeOK
  <2> QED BY <1>0, <1>18, <2>2, <2>3, SameLocks DEF WriteUnpark
<1>19. CASE WriteNum(t)
  <2>1. pc'[t] = "write_unlock" /\ idx'[t] = idx[t]
    BY <1>0, <1>19 DEF WriteNum, TypeOK
  <2>2. SameTVars(t) BY <1>0, <1>19, SameLogs DEF WriteNum
  <2>3. \A i \in DOMAIN entries[t] : /\ Holds(t, i)' => Holds(t, i)
                                     /\ Holds(t, i) \/ MayHold(t, i) => Holds(t, i)' \/ MayHold(t, i)'
    BY <1>0, <1>b, <1>19, <2>1, <2>2 DEF WriteNum, Phase, Holds, MayHold, Committing,
        AcquireAll, IsUpdate, More, e, TypeOK
  <2> QED BY <1>0, <1>19, <2>2, <2>3, SameLocks DEF WriteNum
<1>20. CASE WriteUnlock(t)
  <2> DEFINE k == idx[t]
             w == e(t).tvar
  <2>1. More(t) /\ mode[t] = "commit" /\ pc[t] = "write_unlock"
    BY <1>0, <1>20 DEF WriteUnlock, Phase
  <2>2. k \in DOMAIN entries[t] /\ w \in TVars BY <1>0, <2>1, EntryOK
  <2>3. pc'[t] = "write" /\ idx'[t] = k + 1 /\ entries' = entries
    BY <1>0, <1>20, NextAt DEF WriteUnlock
  <2>4. entries[t][k].tvar = w BY DEF e
  <2>5. e(t).new \in Values BY <1>0, <2>1, <2>2 DEF Phase, e
  <2>6. cur'[w] # t /\ \A v \in TVars : v # w => cur'[v] = cur[v]
    <3>1. cur' = [cur EXCEPT ![w] = e(t).new] BY <1>20 DEF WriteUnlock
    <3> HIDE DEF w, k
    <3> QED BY <1>0, <2>2, <2>5, <3>1, STMAssumption DEF TypeOK
  <2>7. \A i \in DOMAIN entries[t] : /\ Holds(t, i)' <=> Holds(t, i) /\ i # k
                                     /\ ~MayHold(t, i) /\ ~MayHold(t, i)'
    BY <1>0, <1>b, <2>1, <2>3 DEF Holds, MayHold, Committing, IsUpdate, e
  <2>8. \A i \in DOMAIN entries[t] : entries[t][i].tvar \in TVars /\ (entries[t][i].tvar = w => i = k)
    BY <1>0, <2>2, <2>4, DomainOK DEF OneEntryEach
  <2> HIDE DEF w, k
  <2> QED BY <1>0, <2>2, <2>3, <2>4, <2>6, <2>7, <2>8 DEF LocksOf
<1>21. CASE WriteDone(t)
  <2>1. \A i \in DOMAIN entries[t] : ~Holds(t, i) /\ ~MayHold(t, i)
    BY <1>b, <1>21 DEF WriteDone, Holds, MayHold, Committing, More
  <2>2. \A v \in TVars : cur[v] # t BY <1>0, <2>1 DEF LocksOf
  <2>3. cur' = cur /\ pc'[t] \in {"idle", "run", "parked", "remove"}
    BY <1>0, <1>21, FreeAt, GotoAt DEF WriteDone
  <2> QED BY <2>2, <2>3, NoLocksNext
<1>22. CASE WaitEnqueue(t)
  <2>1. pc'[t] = "park" /\ cur' = cur
    BY <1>0, <1>22, GotoAt DEF WaitEnqueue
  <2>2. SameTVars(t)
    BY <1>0, <1>22, QueueEntries
  <2>3. \A i \in DOMAIN entries[t] : Holds(t, i)' /\ Holds(t, i)
    BY <1>22, <2>1 DEF WaitEnqueue, Holds
  <2> QED BY <1>0, <2>1, <2>2, <2>3, SameLocks
<1>23. CASE Park(t)
  <2>1. pc'[t] = "revert" /\ idx'[t] = 1
    BY <1>0, <1>23, GotoAt DEF Park, TypeOK
  <2>2. SameTVars(t) BY <1>0, <1>23, SameLogs DEF Park
  <2>3. \A i \in DOMAIN entries[t] : /\ Holds(t, i)' => Holds(t, i)
                                     /\ Holds(t, i) \/ MayHold(t, i) => Holds(t, i)' \/ MayHold(t, i)'
    BY <1>0, <1>b, <1>23, <2>1, <2>2 DEF Park, Phase, Holds, MayHold, Committing,
        AcquireAll, IsUpdate, More, e, TypeOK
  <2> QED BY <1>0, <1>23, <2>2, <2>3, SameLocks DEF Park
<1>24. CASE ReWait(t)
  <2>1. \A v \in TVars : cur'[v] # t BY <1>0, <1>24, NoLocks DEF ReWait
  <2>2. pc'[t] = "acquire" /\ idx'[t] = 1 /\ entries' = entries
    BY <1>0, <1>24, GotoAt DEF ReWait
  <2> QED BY <1>b, <2>1, <2>2 DEF LocksOf, Holds, Committing
<1>25. CASE RemoveLock(t)
  <2> DEFINE k == idx[t]
             w == e(t).tvar
  <2>1. k \in DOMAIN entries[t] /\ w \in TVars BY <1>0, <1>25, EntryOK DEF RemoveLock
  <2>2. pc[t] = "remove" /\ pc'[t] = "remove_unlock" /\ idx' = idx /\ entries' = entries
    BY <1>0, <1>25 DEF RemoveLock, TypeOK
  <2>3. cur'[w] = t /\ \A v \in TVars : v # w => cur'[v] # t
    <3>1. cur' = [cur EXCEPT ![w] = t] BY <1>25 DEF RemoveLock
    <3>2. \A v \in TVars : cur[v] # t BY <1>0, <2>2, NoLocks
    <3> HIDE DEF w, k
    <3> QED BY <1>0, <2>1, <3>1, <3>2 DEF TypeOK
  <2>4. \A i \in DOMAIN entries[t] : Holds(t, i)' <=> i = k
    BY <1>0, <2>2 DEF Holds, Committing
  <2>5. entries[t][k].tvar = w BY DEF e
  <2> HIDE DEF w, k
  <2> QED BY <2>1, <2>2, <2>3, <2>4, <2>5 DEF LocksOf
<1>26. CASE RemoveUnlock(t)
  <2> DEFINE k == idx[t]
             w == e(t).tvar
  <2>1. More(t) /\ saw[t] \in Values /\ pc[t] = "remove_unlock"
    BY <1>0, <1>26 DEF RemoveUnlock, Phase
  <2>2. k \in DOMAIN entries[t] /\ w \in TVars /\ entries[t][k].tvar = w
    BY <1>0, <2>1, EntryOK DEF e
  <2>3. pc'[t] = "remove" /\ entries' = entries
    BY <1>0, <1>26, NextAt DEF RemoveUnlock
  <2>4. \A v \in TVars : cur'[v] # t
    <3>1. cur' = [cur EXCEPT ![w] = saw[t]] BY <1>26 DEF RemoveUnlock
    <3>2. \A v \in TVars : cur[v] = t => v = w
      BY <1>0, <2>1, <2>2 DEF LocksOf, Holds, MayHold, Committing
    <3> HIDE DEF w, k
    <3> QED BY <1>0, <2>1, <2>2, <3>1, <3>2, STMAssumption DEF TypeOK
  <2> QED BY <2>3, <2>4 DEF LocksOf, Holds, Committing
<1>27. CASE RemoveDone(t)
  BY <1>0, <1>27, FreeAt, NoLocks, NoLocksNext DEF RemoveDone, TypeOK
<1>28. CASE DeliverWakeup(t)
  BY <1>0, <1>28, NoLocks, NoLocksNext DEF DeliverWakeup
<1> QED
  BY <1>1, <1>2, <1>3, <1>4, <1>5, <1>6, <1>7, <1>8, <1>9, <1>10, <1>11, <1>12, <1>13,
      <1>14, <1>15, <1>16,
  <1>17, <1>18, <1>19, <1>20, <1>21, <1>22, <1>23, <1>24, <1>25, <1>26, <1>27, <1>28 DEF Move, Body, Step

\* The inductive invariant holds at the start.
LEMMA StructInit == Init => StructInv
<1> SUFFICES ASSUME Init PROVE StructInv OBVIOUS
<1> USE STMAssumption DEF Init
<1>1. TypeOK
  <2>1. << >> \in Seq(Entry) OBVIOUS
  <2> QED BY <2>1 DEF TypeOK, Locations
<1>2. OneEntryEach BY DEF OneEntryEach
<1>3. Phases BY DEF Phases, Phase
<1>4. LocksHeld /\ LocksKnown BY DEF LocksHeld, LocksKnown, Holds, MayHold, Committing
<1> QED BY <1>1, <1>2, <1>3, <1>4 DEF StructInv

\* Every step preserves the inductive invariant.
LEMMA StructStep == StructInv /\ [Next]_vars => StructInv'
<1> SUFFICES ASSUME StructInv, [Next]_vars PROVE StructInv' OBVIOUS
<1>1. ASSUME NEW t \in Threads, Move(t) PROVE StructInv'
  <2>1. TypeOK' /\ OneEntryEach' BY <1>1, TypeStep, EntriesStep DEF StructInv
  <2>2. Phases' BY <1>1, OwnPhase, OtherPhases DEF Phases
  <2>3. \A u \in Threads : LocksOf(u)' BY <1>1, OwnLocks, OtherLocks
  <2>4. LocksHeld' /\ LocksKnown' BY <2>3 DEF LocksOf, LocksHeld, LocksKnown
  <2> QED BY <2>1, <2>2, <2>4 DEF StructInv
<1>2. CASE UNCHANGED vars
  BY <1>2 DEF vars, StructInv, TypeOK, OneEntryEach, Phases, Phase, LocksHeld, LocksKnown,
      Holds, MayHold, Committing, AcquireAll, IsUpdate, More, e
<1> QED BY <1>1, <1>2 DEF Next, Move

\* The structure of the locks is invariant, for any threads, TVars and programs.
THEOREM Structure == Spec => []StructInv
BY StructInit, StructStep, PTL DEF Spec

\* A thread outside STM.c holds nothing: there is no entry it could hold.
LEMMA StructNoLeak == StructInv => NoLeakedLock
<1> SUFFICES ASSUME StructInv, NEW v \in TVars, NEW t \in Threads, cur[v] = t
             PROVE  pc[t] \notin {"idle", "run", "parked"} /\ v \in EntryTVars(t)
  BY DEF NoLeakedLock
<1>1. PICK i \in DOMAIN entries[t] : entries[t][i].tvar = v /\ (Holds(t, i) \/ MayHold(t, i))
  BY DEF StructInv, LocksKnown
<1> QED BY <1>1 DEF EntryTVars, Holds, MayHold, Committing

\* stmCommitTransaction, stmWait, stmReWait and the validation give back every lock
\* they have taken, on every path, for any number of threads and TVars.
THEOREM NoLockLeaks == Spec => []NoLeakedLock
BY Structure, StructNoLeak, PTL

----

\* t is in the watch queue of its i-th entry.
Queued(t, i) == Registered(t) \/ (pc[t] \in {"remove", "remove_unlock"} /\ i >= idx[t])

\* WatchQueuesExact for one thread
QueuesOf(t) ==
    \A v \in TVars : t \in watch[v] <=> \E i \in DOMAIN entries[t] : entries[t][i].tvar = v /\ Queued(t, i)

\* A step of one thread leaves the queue entries of the others alone.
LEMMA OtherQueues ==
  ASSUME StructInv, NEW t \in Threads, Move(t), NEW u \in Threads \ {t}, QueuesOf(u)
  PROVE  QueuesOf(u)'
<1>1. /\ pc'[u] = pc[u] /\ idx'[u] = idx[u] /\ mode'[u] = mode[u] /\ ok'[u] = ok[u] /\ entries'[u] = entries[u]
      /\ \A v \in TVars : u \in watch'[v] <=> u \in watch[v]
  BY PcStep, FlagStep, EntriesStep, WatchStep DEF StructInv
<1> QED BY <1>1 DEF QueuesOf, Queued, Registered

\* A step that changes no watch queue keeps the queues exact if the thread stays as
\* much on them.
LEMMA SameQueues ==
  ASSUME TypeOK, NEW t \in Threads, QueuesOf(t), watch' = watch, SameTVars(t),
         \A i \in DOMAIN entries[t] : Queued(t, i)' <=> Queued(t, i)
  PROVE  QueuesOf(t)'
BY DEF QueuesOf, SameTVars

\* A thread that is on no queue, and goes where it is on none
LEMMA NoQueues ==
  ASSUME NEW t \in Threads, QueuesOf(t), watch' = watch,
         \A i \in DOMAIN entries[t] : ~Queued(t, i),
         \A i \in DOMAIN entries'[t] : ~Queued(t, i)'
  PROVE  QueuesOf(t)'
BY DEF QueuesOf

\* A step accounts for the queue entries of its own thread: action by action.
LEMMA OwnQueues ==
  ASSUME StructInv, NEW t \in Threads, Move(t), QueuesOf(t)
  PROVE  QueuesOf(t)'
<1> USE DEF StructInv
<1>0. TypeOK /\ Phase(t) BY DEF Phases
<1>b. DOMAIN entries[t] = 1..Len(entries[t]) /\ Len(entries[t]) \in Nat /\ idx[t] \in Nat /\ idx[t] > 0
  BY DomainOK DEF TypeOK
<1>1. CASE Start(t)
  BY <1>0, <1>1, GotoAt, NoQueues DEF Start, Queued, Registered
<1>2. ASSUME NEW v \in TVars, ReadTVar(t, v) PROVE QueuesOf(t)'
  BY <1>2, NoQueues DEF ReadTVar, Queued, Registered
<1>3. ASSUME NEW v \in TVars, NEW x \in Values, WriteTVar(t, v, x) PROVE QueuesOf(t)'
  BY <1>3, NoQueues DEF WriteTVar, Queued, Registered
<1>4. ASSUME NEW m \in {"commit", "wait", "throw"}, EndBody(t, m) PROVE QueuesOf(t)'
  <2>1. pc'[t] = "acquire" /\ mode'[t] = m BY <1>0, <1>4, GotoAt DEF EndBody, TypeOK
  <2> QED BY <1>4, <2>1, NoQueues DEF EndBody, Queued, Registered
<1>5. CASE InFlightAbort(t)
  BY <1>5, NoQueues DEF InFlightAbort, Queued, Registered
<1>6. CASE AbortRunning(t)
  BY <1>0, <1>6, FreeAt, NoQueues DEF AbortRunning, Queued, Registered
<1>7. CASE AbortWaiting(t)
  <2>1. pc'[t] = "remove" /\ idx'[t] = 1 /\ pc[t] = "parked"
    BY <1>0, <1>7, GotoAt DEF AbortWaiting
  <2> QED BY <1>0, <1>b, <1>7, <2>1, SameQueues, SameLogs DEF AbortWaiting, Queued, Registered
<1>8. CASE AcquireLock(t)
  <2>1. Fail(t) \/ (NextEntry(t, "acquire") /\ UNCHANGED ok) BY <1>8 DEF AcquireLock
  <2>2. pc[t] = "acquire" /\ (pc'[t] = "acquire" \/ (pc'[t] = "revert" /\ ~ok'[t]))
    BY <1>0, <1>8, <2>1, FailAt, NextAt DEF AcquireLock
  <2> QED BY <1>0, <1>8, <2>2, SameQueues, SameLogs DEF AcquireLock, Queued, Registered
<1>9. CASE AcquireRead(t)
  <2>1. Fail(t) \/ (pc' = [pc EXCEPT ![t] = "acquire_num"] /\ idx' = idx)
    BY <1>9 DEF AcquireRead
  <2>2. pc[t] = "acquire" /\ mode[t] = "commit" /\ pc'[t] \in {"acquire_num", "revert"}
    BY <1>0, <1>9, <2>1, FailAt, StayAt DEF AcquireRead, AcquireAll
  <2> QED BY <1>0, <1>9, <2>2, SameQueues, SameLogs DEF AcquireRead, Queued, Registered
<1>10. CASE AcquireNum(t)
  <2>1. pc[t] = "acquire_num" /\ pc'[t] = "acquire_again" BY <1>0, <1>10, StayAt DEF AcquireNum
  <2> QED BY <1>0, <1>10, <2>1, SameQueues, NumEntries DEF AcquireNum, Queued, Registered
<1>11. CASE AcquireAgain(t)
  <2>1. Fail(t) \/ NextEntry(t, "acquire") BY <1>11 DEF AcquireAgain
  <2>2. pc[t] = "acquire_again" /\ mode[t] = "commit" /\ pc'[t] \in {"acquire", "revert"}
    BY <1>0, <1>11, <2>1, FailAt, NextAt DEF AcquireAgain, Phase
  <2> QED BY <1>0, <1>11, <2>2, SameQueues, SameLogs DEF AcquireAgain, Queued, Registered
<1>12. CASE AcquireDone(t)
  <2>1. pc[t] = "acquire" /\ ok'[t] /\ pc'[t] = [commit |-> "check", wait |-> "enqueue",
                rewait |-> "park", throw |-> "revert"][mode[t]]
                  BY <1>0, <1>12, GotoAt DEF AcquireDone, TypeOK
  <2>2. \/ mode[t] = "commit" /\ pc'[t] = "check"
        \/ mode[t] = "wait" /\ pc'[t] = "enqueue"
        \/ mode[t] = "rewait" /\ pc'[t] = "park"
        \/ mode[t] = "throw" /\ pc'[t] = "revert"
    BY <1>0, <2>1 DEF TypeOK
  <2>3. SameTVars(t) /\ mode' = mode /\ watch' = watch BY <1>0, <1>12, SameLogs DEF AcquireDone
  <2>4. \A i : Queued(t, i)' <=> Queued(t, i) BY <2>1, <2>2, <2>3 DEF Queued, Registered
  <2> QED BY <1>0, <2>3, <2>4, SameQueues
<1>13. CASE Revert(t)
  <2>1. pc[t] = "revert" /\ pc'[t] = "revert" BY <1>0, <1>13, NextAt DEF Revert
  <2> QED BY <1>0, <1>13, <2>1, SameQueues, SameLogs DEF Revert, Queued, Registered
<1>14. CASE RevertDone(t)
  <2>1. CASE ok[t] /\ mode[t] \in {"wait", "rewait"}
    <3>1. pc[t] = "revert" /\ pc'[t] = "parked" /\ entries' = entries
      BY <1>0, <1>14, <2>1, GotoAt DEF RevertDone
    <3> QED BY <1>0, <1>14, <2>1, <3>1, SameQueues, SameLogs DEF RevertDone, Queued, Registered
  <2>2. CASE ~ok[t] /\ mode[t] = "rewait"
    <3>1. pc[t] = "revert" /\ pc'[t] = "remove" /\ idx'[t] = 1 /\ entries' = entries
      BY <1>0, <1>14, <2>2, GotoAt DEF RevertDone
    <3> QED
      BY <1>0, <1>b, <1>14, <2>2, <3>1, SameQueues, SameLogs DEF RevertDone, Queued,
          Registered
  <2>3. CASE ~(ok[t] /\ mode[t] \in {"wait", "rewait"}) /\ ~(~ok[t] /\ mode[t] = "rewait")
    <3>1. pc[t] = "revert" /\ entries'[t] = <<>> BY <1>0, <1>14, <2>3, FreeAt DEF RevertDone
    <3> QED BY <1>14, <2>3, <3>1, NoQueues DEF RevertDone, Queued, Registered
  <2> QED BY <2>1, <2>2, <2>3
<1>15. CASE CheckValue(t)
  <2>1. NextEntry(t, "check") \/ (pc' = [pc EXCEPT ![t] = "check_num"] /\ idx' = idx)
    BY <1>15 DEF CheckValue
  <2>2. pc[t] = "check" /\ pc'[t] \in {"check", "check_num"}
    BY <1>0, <1>15, <2>1, NextAt, StayAt DEF CheckValue
  <2> QED BY <1>0, <1>15, <2>2, SameQueues, SameLogs DEF CheckValue, Queued, Registered
<1>16. CASE CheckNum(t)
  <2>1. Fail(t) \/ NextEntry(t, "check") BY <1>16 DEF CheckNum
  <2>2. pc[t] = "check_num" /\ mode[t] = "commit" /\ pc'[t] \in {"check", "revert"}
    BY <1>0, <1>16, <2>1, FailAt, NextAt DEF CheckNum, Phase
  <2> QED BY <1>0, <1>16, <2>2, SameQueues, SameLogs DEF CheckNum, Queued, Registered
<1>17. CASE CheckDone(t)
  <2>1. pc[t] = "check" /\ pc'[t] = "write" BY <1>0, <1>17, GotoAt DEF CheckDone
  <2> QED BY <1>0, <1>17, <2>1, SameQueues, SameLogs DEF CheckDone, Queued, Registered
<1>18. CASE WriteUnpark(t)
  <2>1. NextEntry(t, "write") \/ (pc' = [pc EXCEPT ![t] = "write_num"] /\ idx' = idx)
    BY <1>18 DEF WriteUnpark
  <2>2. pc[t] = "write" /\ pc'[t] \in {"write", "write_num"}
    BY <1>0, <1>18, <2>1, NextAt, StayAt DEF WriteUnpark
  <2> QED BY <1>0, <1>18, <2>2, SameQueues, SameLogs DEF WriteUnpark, Queued, Registered
<1>19. CASE WriteNum(t)
  <2>1. pc[t] = "write_num" /\ pc'[t] = "write_unlock" BY <1>0, <1>19, StayAt DEF WriteNum
  <2> QED BY <1>0, <1>19, <2>1, SameQueues, SameLogs DEF WriteNum, Queued, Registered
<1>20. CASE WriteUnlock(t)
  <2>1. pc[t] = "write_unlock" /\ pc'[t] = "write" BY <1>0, <1>20, NextAt DEF WriteUnlock
  <2> QED BY <1>0, <1>20, <2>1, SameQueues, SameLogs DEF WriteUnlock, Queued, Registered
<1>21. CASE WriteDone(t)
  BY <1>0, <1>21, FreeAt, NoQueues DEF WriteDone, Queued, Registered
<1>22. CASE WaitEnqueue(t)
  <2>1. pc[t] = "enqueue" /\ pc'[t] = "park" BY <1>0, <1>22, GotoAt DEF WaitEnqueue
  <2>2. \A v \in TVars : t \notin watch[v] BY <2>1 DEF QueuesOf, Queued, Registered
  <2>3. \A v \in TVars : t \in watch'[v] <=> \E i \in DOMAIN entries[t] : entries[t][i].tvar = v
    BY <1>22, <2>2 DEF WaitEnqueue, EntryTVars
  <2>4. SameTVars(t) BY <1>0, <1>22, QueueEntries
  <2> QED BY <2>1, <2>3, <2>4 DEF QueuesOf, Queued, Registered, SameTVars
<1>23. CASE Park(t)
  <2>1. pc[t] = "park" /\ pc'[t] = "revert" /\ ok[t] /\ mode[t] \in {"wait", "rewait"}
    BY <1>0, <1>23, GotoAt DEF Park, Phase
  <2> QED BY <1>0, <1>23, <2>1, SameQueues, SameLogs DEF Park, Queued, Registered
<1>24. CASE ReWait(t)
  <2>1. pc[t] = "parked" /\ pc'[t] = "acquire" /\ mode'[t] = "rewait"
    BY <1>0, <1>24, GotoAt DEF ReWait, TypeOK
  <2> QED BY <1>0, <1>24, <2>1, SameQueues, SameLogs DEF ReWait, Queued, Registered
<1>25. CASE RemoveLock(t)
  <2>1. pc[t] = "remove" /\ pc'[t] = "remove_unlock" /\ idx' = idx
    BY <1>0, <1>25, StayAt DEF RemoveLock
  <2> QED BY <1>0, <1>25, <2>1, SameQueues, SameLogs DEF RemoveLock, Queued, Registered
<1>26. CASE RemoveUnlock(t)
  <2> DEFINE k == idx[t]
             w == e(t).tvar
  <2>1. pc[t] = "remove_unlock" /\ pc'[t] = "remove" /\ idx'[t] = k + 1 /\ entries' = entries
    BY <1>0, <1>26, NextAt DEF RemoveUnlock
  <2>2. k \in DOMAIN entries[t] /\ entries[t][k].tvar = w BY <1>0, <2>1, EntryOK DEF Phase, e
  <2>3. \A i \in DOMAIN entries[t] : entries[t][i].tvar = w => i = k BY <2>2 DEF OneEntryEach
  <2>4. \A v \in TVars : t \in watch'[v] <=> t \in watch[v] /\ v # w
    <3>1. watch' = [watch EXCEPT ![w] = @ \ {t}] BY <1>26 DEF RemoveUnlock
    <3> HIDE DEF w
    <3> QED BY <1>0, <3>1 DEF TypeOK
  <2>5. \A i \in DOMAIN entries[t] : Queued(t, i)' <=> Queued(t, i) /\ i # k
    BY <1>b, <2>1 DEF Queued, Registered
  <2> HIDE DEF k, w
  <2> QED BY <2>1, <2>2, <2>3, <2>4, <2>5 DEF QueuesOf
<1>27. CASE RemoveDone(t)
  <2>1. entries'[t] = <<>> /\ \A i \in DOMAIN entries[t] : ~Queued(t, i)
    BY <1>0, <1>b, <1>27, FreeAt DEF RemoveDone, Queued, Registered, More
  <2> QED BY <1>27, <2>1, NoQueues DEF RemoveDone
<1>28. CASE DeliverWakeup(t)
  BY <1>0, <1>28, SameQueues, SameLogs DEF DeliverWakeup, Queued, Registered
<1> QED
  BY <1>1, <1>2, <1>3, <1>4, <1>5, <1>6, <1>7, <1>8, <1>9, <1>10, <1>11, <1>12, <1>13,
      <1>14, <1>15, <1>16,
  <1>17, <1>18, <1>19, <1>20, <1>21, <1>22, <1>23, <1>24, <1>25, <1>26, <1>27, <1>28 DEF Move, Body, Step

\* WatchQueuesExact, thread by thread
LEMMA QueuesAll == WatchQueuesExact <=> \A t \in Threads : QueuesOf(t)
BY DEF WatchQueuesExact, QueuesOf, Queued

\* Every step keeps the watch queues exact.
LEMMA QueueStep == StructInv /\ WatchQueuesExact /\ [Next]_vars => WatchQueuesExact'
<1> SUFFICES ASSUME StructInv, WatchQueuesExact, [Next]_vars PROVE WatchQueuesExact' OBVIOUS
<1>1. ASSUME NEW t \in Threads, Move(t) PROVE WatchQueuesExact'
  <2>1. \A u \in Threads : QueuesOf(u)' BY <1>1, OwnQueues, OtherQueues, QueuesAll
  <2> QED BY <2>1 DEF WatchQueuesExact, QueuesOf, Queued
<1>2. CASE UNCHANGED vars
  BY <1>2 DEF vars, WatchQueuesExact, Registered
<1> QED BY <1>1, <1>2 DEF Next, Move

\* A thread is on exactly the watch queues of the TVars it waits for, from stmWait until
\* it has taken itself off, for any number of threads and TVars.
THEOREM QueuesExact == Spec => []WatchQueuesExact
<1>1. Init => WatchQueuesExact BY DEF Init, WatchQueuesExact, Registered
<1> QED BY <1>1, Structure, QueueStep, PTL DEF Spec

\* t sleeps, or is on its way to after park_tso, and no wakeup is on its way.
Asleep(t) ==
    /\ pc[t] = "parked" \/ (pc[t] = "revert" /\ mode[t] \in {"wait", "rewait"} /\ ok[t])
    /\ blocked[t] /\ inbox[t] = 0

\* The TVar of t's i-th entry has the value t has read, or its holder has yet to
\* send the wakeup.
SleepsRightly(t, i) ==
    LET v == entries[t][i].tvar
    IN  \/ cur[v] = entries[t][i].exp
        \/ /\ cur[v] \in Threads
           /\ EntryFor(cur[v], v) # 0
           /\ IF pc[cur[v]] = "remove_unlock"
              THEN saw[cur[v]] = entries[t][i].exp
              ELSE EntryOf(cur[v], v).exp = entries[t][i].exp
           /\ ~Unparked(cur[v], v)

\* The inductive invariant about wakeups: NoLostWakeup, from park_tso on
WakeInv == \A t \in Threads : Asleep(t) => \A i \in DOMAIN entries[t] : SleepsRightly(t, i)

\* SleepsRightly for a TVar v that was read as x
Rightly(v, x) ==
        \/ cur[v] = x
        \/ /\ cur[v] \in Threads
           /\ EntryFor(cur[v], v) # 0
           /\ IF pc[cur[v]] = "remove_unlock"
              THEN saw[cur[v]] = x
              ELSE EntryOf(cur[v], v).exp = x
           /\ ~Unparked(cur[v], v)

\* get_entry_for finds the entry for a TVar, after a step ...
LEMMA EntryForNext ==
  ASSUME OneEntryEach', NEW t \in Threads, NEW v, NEW i \in DOMAIN entries'[t], entries'[t][i].tvar = v
  PROVE  EntryFor(t, v)' = i /\ EntryOf(t, v)' = entries'[t][i]
<1>1. EntryFor(t, v)' = CHOOSE j \in DOMAIN entries'[t] : entries'[t][j].tvar = v
  BY DEF EntryFor
<1>2. EntryFor(t, v)' = i BY <1>1 DEF OneEntryEach
<1> QED BY <1>2 DEF EntryOf

\* ... and before one.
LEMMA EntryForIs ==
  ASSUME TypeOK, OneEntryEach, NEW t \in Threads, NEW i \in DOMAIN entries[t]
  PROVE  EntryFor(t, entries[t][i].tvar) = i /\ EntryOf(t, entries[t][i].tvar) = entries[t][i]
<1> DEFINE v == entries[t][i].tvar
<1>1. EntryFor(t, v) # 0 BY EntryForOK
<1>2. EntryFor(t, v) \in DOMAIN entries[t] /\ entries[t][EntryFor(t, v)].tvar = v
  BY <1>1, EntryForOK
<1>3. EntryFor(t, v) = i BY <1>2 DEF OneEntryEach
<1> QED BY <1>3 DEF EntryOf

\* How a thread comes to the places where a sleeper depends on it
LEMMA Arrivals ==
  ASSUME TypeOK, NEW t \in Threads, Move(t)
  PROVE  /\ pc'[t] = "write_num" => WriteUnpark(t)
         /\ pc'[t] = "write_unlock" => WriteNum(t)
         /\ pc'[t] = "remove_unlock" => RemoveLock(t)
         /\ pc'[t] = "parked" => RevertDone(t) \/ (DeliverWakeup(t) /\ pc[t] = "parked")
         /\ pc'[t] = "revert" => \/ Fail(t) \/ Revert(t) \/ Park(t)
                                 \/ AcquireDone(t) /\ mode[t] = "throw"
BY DEF TypeOK, Move, Body, Step, FreeTRec, Fail, Goto, NextEntry, Start, ReadTVar,
    WriteTVar, EndBody, InFlightAbort, AbortRunning, AbortWaiting, AcquireLock, AcquireRead,
    AcquireNum, AcquireAgain, AcquireDone, Revert, RevertDone, CheckValue, CheckNum,
    CheckDone, WriteUnpark, WriteNum, WriteUnlock, WriteDone, WaitEnqueue, Park, ReWait,
    RemoveLock, RemoveUnlock, RemoveDone, DeliverWakeup

\* A thread between RemoveLock and RemoveUnlock does nothing else.
LEMMA Departure ==
  ASSUME NEW t \in Threads, Move(t), pc[t] = "remove_unlock"
  PROVE  RemoveUnlock(t)
BY DEF Move, Body, Step, Start, ReadTVar, WriteTVar, EndBody, InFlightAbort, AbortRunning,
    AbortWaiting, AcquireLock, AcquireRead, AcquireNum, AcquireAgain, AcquireDone, Revert,
    RevertDone, CheckValue, CheckNum, CheckDone, WriteUnpark, WriteNum, WriteUnlock,
    WriteDone, WaitEnqueue, Park, ReWait, RemoveLock, RemoveDone, DeliverWakeup

\* A sleeper that sleeps rightly goes on doing so until a wakeup is sent for the TVar:
\* locks come and go, but the value that comes back is the one it has read.
LEMMA RightlyStep ==
  ASSUME StructInv, StructInv', NEW u \in Threads, Move(u), NEW v \in TVars, NEW x \in Values,
         Rightly(v, x), ~(WriteUnpark(u) /\ IsUpdate(e(u)) /\ e(u).tvar = v)
  PROVE  Rightly(v, x)'
<1> USE DEF StructInv
<1>0. TypeOK /\ Phase(u) /\ cur[v] \in Values \cup Threads BY DEF Phases, TypeOK
<1>1. CASE cur[v] \in Values
  <2>1. cur[v] = x BY <1>1, STMAssumption DEF Rightly
  <2>2. CASE cur'[v] = cur[v]
    BY <2>1, <2>2 DEF Rightly
  <2>3. CASE AcquireLock(u) /\ cur'[v] # cur[v]
    <3>1. idx[u] \in DOMAIN entries[u] /\ e(u).tvar \in TVars
      BY <1>0, <2>3, EntryOK DEF AcquireLock
    <3>2. cur[e(u).tvar] = e(u).exp /\ cur' = [cur EXCEPT ![e(u).tvar] = u] /\ NextEntry(u, "acquire") /\ entries' = entries
      BY <2>3 DEF AcquireLock
    <3>3. v = e(u).tvar /\ cur'[v] = u
      <4> DEFINE w == e(u).tvar
      <4>1. cur' = [cur EXCEPT ![w] = u] BY <3>2
      <4> HIDE DEF w
      <4>2. v = w /\ cur'[v] = u BY <1>0, <2>3, <4>1 DEF TypeOK
      <4> QED BY <4>2 DEF w
    <3>4. pc'[u] = "acquire" BY <1>0, <3>2, NextAt
    <3>5. entries[u][idx[u]].tvar = v /\ entries[u][idx[u]].exp = x BY <2>1, <3>2, <3>3 DEF e
    <3>6. idx[u] \in DOMAIN entries'[u] /\ entries'[u][idx[u]].tvar = v /\ entries'[u][idx[u]].exp = x
      BY <3>1, <3>2, <3>5
    <3>7. EntryFor(u, v)' = idx[u] /\ EntryOf(u, v)'.exp = x
      BY <3>6, EntryForNext
    <3>8. idx[u] # 0 BY <1>0 DEF TypeOK
    <3> QED BY <3>3, <3>4, <3>7, <3>8 DEF Rightly, Unparked
  <2>4. CASE RemoveLock(u) /\ cur'[v] # cur[v]
    <3>1. idx[u] \in DOMAIN entries[u] /\ e(u).tvar \in TVars
      BY <1>0, <2>4, EntryOK DEF RemoveLock
    <3>2. /\ saw' = [saw EXCEPT ![u] = cur[e(u).tvar]] /\ cur' = [cur EXCEPT ![e(u).tvar] = u]
          /\ pc'[u] = "remove_unlock" /\ entries' = entries
      BY <1>0, <2>4 DEF RemoveLock, TypeOK
    <3>3. v = e(u).tvar /\ cur'[v] = u /\ saw'[u] = x
      <4> DEFINE w == e(u).tvar
      <4>1. cur' = [cur EXCEPT ![w] = u] /\ saw' = [saw EXCEPT ![u] = cur[w]] BY <3>2
      <4> HIDE DEF w
      <4>2. v = w /\ cur'[v] = u /\ saw'[u] = cur[w] BY <1>0, <2>4, <4>1 DEF TypeOK
      <4> QED BY <2>1, <4>2 DEF w
    <3>4. EntryFor(u, v)' = idx[u] BY <3>1, <3>2, <3>3, EntryForNext DEF e
    <3>5. idx[u] # 0 BY <1>0 DEF TypeOK
    <3> QED BY <3>2, <3>3, <3>4, <3>5 DEF Rightly, Unparked
  <2>5. CASE cur'[v] # cur[v]
    <3>1. cur'[v] = u BY <1>0, <1>1, <2>5, CurStep, STMAssumption
    <3>2. ~Revert(u) /\ ~WriteUnlock(u) /\ ~RemoveUnlock(u)
      \* they give back a TVar, and v was not locked
      <4> DEFINE w == e(u).tvar
      <4>1. CASE Revert(u)
        <5>1. cur' = cur \/ cur' = [cur EXCEPT ![w] = e(u).exp] BY <4>1 DEF Revert
        <5>2. e(u).exp \in Values BY <1>0, <4>1, EntryOK DEF Revert
        <5> HIDE DEF w
        <5> QED BY <1>0, <2>5, <3>1, <5>1, <5>2, STMAssumption DEF TypeOK
      <4>2. CASE WriteUnlock(u)
        <5>1. cur' = [cur EXCEPT ![w] = e(u).new] BY <4>2 DEF WriteUnlock
        <5>2. More(u) /\ mode[u] = "commit" BY <1>0, <4>2 DEF WriteUnlock, Phase
        <5>3. e(u).new \in Values BY <1>0, <5>2, EntryOK DEF Phase, e
        <5> HIDE DEF w
        <5> QED BY <1>0, <2>5, <3>1, <5>1, <5>3, STMAssumption DEF TypeOK
      <4>3. CASE RemoveUnlock(u)
        <5>1. cur' = [cur EXCEPT ![w] = saw[u]] BY <4>3 DEF RemoveUnlock
        <5>2. saw[u] \in Values BY <1>0, <4>3 DEF RemoveUnlock, Phase
        <5> HIDE DEF w
        <5> QED BY <1>0, <2>5, <3>1, <5>1, <5>2, STMAssumption DEF TypeOK
      <4> QED BY <4>1, <4>2, <4>3
    <3> QED BY <2>3, <2>4, <2>5, <3>2, CurChanges
  <2> QED BY <2>2, <2>5
<1>2. CASE cur[v] \in Threads \ {u}
  <2> DEFINE w == cur[v]
  <2>1. cur'[v] = w BY <1>2, CurStep, STMAssumption
  <2>2. pc'[w] = pc[w] /\ idx'[w] = idx[w] /\ saw'[w] = saw[w] /\ entries'[w] = entries[w]
    BY <1>2, PcStep, SawStep, EntriesStep
  <2>3. EntryFor(w, v)' = EntryFor(w, v) /\ EntryOf(w, v)' = EntryOf(w, v) /\ (Unparked(w, v)' <=> Unparked(w, v))
    <3>1. ASSUME NEW y, entries'[y] = entries[y], pc'[y] = pc[y], idx'[y] = idx[y]
          PROVE  EntryFor(y, v)' = EntryFor(y, v) /\ EntryOf(y, v)' = EntryOf(y, v) /\ (Unparked(y, v)' <=> Unparked(y, v))
      BY <3>1 DEF EntryFor, EntryOf, Unparked, e
    <3> QED BY <2>1, <2>2, <3>1
  <2> QED BY <1>2, <2>1, <2>2, <2>3, STMAssumption DEF Rightly
<1>3. CASE cur[v] = u
  <2>1. PICK k \in DOMAIN entries[u] : entries[u][k].tvar = v /\ (Holds(u, k) \/ MayHold(u, k))
    BY <1>3 DEF LocksKnown
  <2>2. EntryFor(u, v) = k /\ EntryOf(u, v) = entries[u][k] BY <2>1, <1>0, EntryForIs
  <2>3. /\ IF pc[u] = "remove_unlock" THEN saw[u] = x ELSE entries[u][k].exp = x
        /\ ~Unparked(u, v)
    BY <1>3, <2>2, STMAssumption DEF Rightly
  <2>4. \A i \in DOMAIN entries[u] : entries[u][i].tvar = v => i = k BY <2>1 DEF OneEntryEach
  <2>5. CASE cur'[v] = u
    <3>1. pc[u] # "run" /\ pc[u] # "remove" BY <2>1 DEF Holds, MayHold, Committing
    <3>2. pc[u] # "remove_unlock"
      <4> SUFFICES ASSUME pc[u] = "remove_unlock" PROVE FALSE OBVIOUS
      <4>1. idx[u] = k BY <2>1 DEF Holds, MayHold, Committing
      <4>2. RemoveUnlock(u) BY Departure
      <4>3. cur' = [cur EXCEPT ![v] = saw[u]] /\ saw[u] \in Values
        BY <1>0, <2>1, <4>1, <4>2 DEF RemoveUnlock, e, Phase
      <4> QED BY <1>0, <2>5, <4>3, STMAssumption DEF TypeOK
    <3>3. pc'[u] # "remove_unlock" BY <1>0, <3>1, Arrivals DEF RemoveLock
    <3>4. PICK j \in DOMAIN entries'[u] : entries'[u][j].tvar = v BY <2>5 DEF LocksKnown
    <3>5. SameTVars(u) BY <3>1, <3>4, EntriesStep
    <3>6. j = k /\ entries'[u][j].exp = x BY <2>3, <2>4, <3>2, <3>4, <3>5 DEF SameTVars
    <3>7. EntryFor(u, v)' = k /\ EntryOf(u, v)'.exp = x BY <3>4, <3>6, EntryForNext
    <3>8. k # 0 BY <1>0, <2>1, DomainOK
    <3>9. ~Unparked(u, v)'
      <4>1. CASE pc'[u] = "write_num"
        <5>1. WriteUnpark(u) BY <1>0, <4>1, Arrivals
        <5>2. IsUpdate(e(u))
          <6> SUFFICES ASSUME ~IsUpdate(e(u)) PROVE FALSE OBVIOUS
          <6>1. NextEntry(u, "write") BY <5>1 DEF WriteUnpark
          <6> QED BY <1>0, <4>1, <6>1, NextAt
        <5>3. idx' = idx /\ entries' = entries BY <5>1, <5>2 DEF WriteUnpark
        <5> QED BY <5>1, <5>2, <5>3 DEF Unparked, e
      <4>2. CASE pc'[u] = "write_unlock"
        <5>1. WriteNum(u) BY <1>0, <4>2, Arrivals
        <5> QED BY <2>3, <5>1 DEF WriteNum, Unparked, e
      <4> QED BY <4>1, <4>2 DEF Unparked
    <3> QED BY <2>5, <3>3, <3>7, <3>8, <3>9 DEF Rightly
  <2>6. CASE cur'[v] \in Values
    <3>1. cur' # cur BY <1>3, <2>6, STMAssumption
    <3> DEFINE w == e(u).tvar
    <3>2. CASE AcquireLock(u)
      <4>1. cur' = [cur EXCEPT ![w] = u] BY <3>1, <3>2 DEF AcquireLock
      <4> HIDE DEF w
      <4> QED BY <1>0, <1>3, <2>6, <4>1, STMAssumption DEF TypeOK
    <3>3. CASE RemoveLock(u)
      <4>1. cur' = [cur EXCEPT ![w] = u] BY <3>3 DEF RemoveLock
      <4> HIDE DEF w
      <4> QED BY <1>0, <1>3, <2>6, <4>1, STMAssumption DEF TypeOK
    <3>4. CASE Revert(u)
      <4>1. cur' = [cur EXCEPT ![w] = e(u).exp] BY <3>1, <3>4 DEF Revert
      <4>2. idx[u] \in DOMAIN entries[u] /\ pc[u] = "revert" BY <1>0, <3>4, EntryOK DEF Revert
      <4>3. v = w /\ cur'[v] = e(u).exp
        <5> HIDE DEF w
        <5> QED BY <1>0, <1>3, <2>6, <4>1, STMAssumption DEF TypeOK
      <4>4. e(u).exp = x BY <2>3, <2>4, <4>2, <4>3 DEF e
      <4> QED BY <4>3, <4>4 DEF Rightly
    <3>5. CASE WriteUnlock(u)
      <4>1. cur' = [cur EXCEPT ![w] = e(u).new] /\ pc[u] = "write_unlock"
        BY <3>5 DEF WriteUnlock
      <4>2. v = w
        <5> HIDE DEF w
        <5> QED BY <1>0, <1>3, <2>6, <4>1, STMAssumption DEF TypeOK
      <4> QED BY <2>3, <4>1, <4>2 DEF Unparked
    <3>6. CASE RemoveUnlock(u)
      <4>1. cur' = [cur EXCEPT ![w] = saw[u]] /\ pc[u] = "remove_unlock"
        BY <3>6 DEF RemoveUnlock
      <4>2. cur'[v] = saw[u]
        <5> HIDE DEF w
        <5> QED BY <1>0, <1>3, <2>6, <4>1, STMAssumption DEF TypeOK
      <4> QED BY <2>3, <4>1, <4>2 DEF Rightly
    <3> QED BY <3>1, <3>2, <3>3, <3>4, <3>5, <3>6, CurChanges
  <2> QED BY <1>3, <2>5, <2>6, CurStep
<1> QED BY <1>0, <1>1, <1>2, <1>3

\* WakeInv for one thread
WakeOf(t) == Asleep(t) => \A i \in DOMAIN entries[t] : Rightly(entries[t][i].tvar, entries[t][i].exp)

\* WakeInv, thread by thread
LEMMA WakeAll == WakeInv <=> \A t \in Threads : WakeOf(t)
BY DEF WakeInv, WakeOf, SleepsRightly, Rightly

\* A step of another thread: if it changes the TVar, it has sent a wakeup before,
\* because the sleeper is on the TVar's watch queue.
LEMMA OtherWakes ==
  ASSUME StructInv, StructInv', WatchQueuesExact, NEW u \in Threads, Move(u), NEW t \in Threads \ {u}, WakeOf(t)
  PROVE  WakeOf(t)'
<1> SUFFICES ASSUME Asleep(t)', NEW i \in DOMAIN entries'[t]
             PROVE  Rightly(entries[t][i].tvar, entries[t][i].exp)'
  BY DEF WakeOf
<1>0. TypeOK BY DEF StructInv
<1>1. /\ pc'[t] = pc[t] /\ mode'[t] = mode[t] /\ ok'[t] = ok[t] /\ blocked'[t] = blocked[t]
      /\ entries'[t] = entries[t]
  BY PcStep, FlagStep, EntriesStep DEF StructInv
<1>2. inbox[t] = 0 /\ inbox'[t] = 0 BY <1>0, InboxStep DEF Asleep, TypeOK
<1>3. Asleep(t) BY <1>1, <1>2 DEF Asleep
<1> DEFINE v == entries[t][i].tvar
           x == entries[t][i].exp
<1>4. v \in TVars /\ x \in Values /\ Rightly(v, x) BY <1>0, <1>1, <1>3, DomainOK DEF WakeOf
<1>5. ~(WriteUnpark(u) /\ IsUpdate(e(u)) /\ e(u).tvar = v)
  <2> SUFFICES ASSUME WriteUnpark(u), IsUpdate(e(u)), e(u).tvar = v PROVE FALSE OBVIOUS
  <2>1. Registered(t) BY <1>3 DEF Asleep, Registered
  <2>2. t \in watch[v] BY <1>1, <1>4, <2>1 DEF WatchQueuesExact
  <2>3. inbox'[t] = inbox[t] + 1 BY <2>2 DEF WriteUnpark, WaitersOn
  <2> QED BY <1>2, <2>3
<1>6. v' = v /\ x' = x BY <1>1
<1> HIDE DEF v, x
<1>7. Rightly(v, x)'
  <2>1. \A y \in TVars, z \in Values : Rightly(y, z) /\ ~(WriteUnpark(u) /\ IsUpdate(e(u)) /\ e(u).tvar = y) => Rightly(y, z)'
    BY RightlyStep
  <2>2. \A y, z : y = v' /\ z = x' => (Rightly(y, z)' <=> Rightly(v, x)')
    BY DEF Rightly, EntryFor, EntryOf, Unparked
  <2> QED BY <1>4, <1>5, <1>6, <2>1, <2>2
<1> QED BY <1>7 DEF v, x

\* A step of the thread itself: it parks only with all its TVars locked.
LEMMA OwnWakes ==
  ASSUME StructInv, StructInv', NEW t \in Threads, Move(t), WakeOf(t)
  PROVE  WakeOf(t)'
<1> USE DEF StructInv
<1>0. TypeOK /\ Phase(t) BY DEF Phases
<1> SUFFICES ASSUME Asleep(t)', NEW i \in DOMAIN entries'[t]
             PROVE  Rightly(entries[t][i].tvar, entries[t][i].exp)'
  BY DEF WakeOf
<1>1. Asleep(t) \/ Park(t)
  <2>1. CASE pc'[t] = "parked"
    <3>1. RevertDone(t) \/ (DeliverWakeup(t) /\ pc[t] = "parked") BY <1>0, <2>1, Arrivals
    <3>2. ~DeliverWakeup(t) BY <1>0 DEF Asleep, DeliverWakeup, TypeOK
    <3>3. RevertDone(t) /\ ok[t] /\ mode[t] \in {"wait", "rewait"}
      BY <1>0, <2>1, <3>1, <3>2, FreeAt, GotoAt DEF RevertDone
    <3> QED BY <3>3 DEF RevertDone, Asleep
  <2>2. CASE pc'[t] = "revert"
    <3>1. Fail(t) \/ Revert(t) \/ Park(t) \/ (AcquireDone(t) /\ mode[t] = "throw")
      BY <1>0, <2>2, Arrivals
    <3>2. ~Fail(t) BY <1>0, <2>2, FailAt DEF Asleep
    <3>3. ~(AcquireDone(t) /\ mode[t] = "throw") BY <2>2 DEF Asleep, AcquireDone
    <3>4. CASE Revert(t)
      BY <2>2, <3>4 DEF Revert, Asleep
    <3> QED BY <3>1, <3>2, <3>3, <3>4
  <2> QED BY <2>1, <2>2 DEF Asleep
<1>2. CASE Asleep(t)
  <2>1. pc[t] # "run" BY <1>2 DEF Asleep
  <2>2. entries'[t] # <<>> OBVIOUS
  <2>3. i \in DOMAIN entries[t] /\ entries'[t][i].tvar = entries[t][i].tvar /\ entries'[t][i].exp = entries[t][i].exp
    BY <2>1, <2>2, EntriesStep DEF SameTVars
  <2> DEFINE v == entries[t][i].tvar
             x == entries[t][i].exp
  <2>4. v \in TVars /\ x \in Values /\ Rightly(v, x) BY <1>0, <1>2, <2>3, DomainOK DEF WakeOf
  <2>5. ~WriteUnpark(t) BY <1>2 DEF Asleep, WriteUnpark
  <2>6. \A y \in TVars, z \in Values : Rightly(y, z) => Rightly(y, z)' BY <2>5, RightlyStep
  <2>7. entries'[t][i].tvar = v /\ entries'[t][i].exp = x BY <2>3
  <2>8. \A y, z : y = entries'[t][i].tvar /\ z = entries'[t][i].exp =>
                (Rightly(y, z)' <=> Rightly(entries[t][i].tvar, entries[t][i].exp)')
    BY DEF Rightly, EntryFor, EntryOf, Unparked
  <2> HIDE DEF v, x
  <2> QED BY <2>4, <2>6, <2>7, <2>8
<1>3. CASE Park(t)
  <2>1. pc[t] = "park" /\ pc'[t] = "revert" /\ entries' = entries /\ cur' = cur
    BY <1>0, <1>3, GotoAt DEF Park
  <2>2. cur[entries[t][i].tvar] = t BY <2>1 DEF LocksHeld, Holds
  <2>3. EntryFor(t, entries[t][i].tvar)' = i /\ EntryOf(t, entries[t][i].tvar)' = entries[t][i]
    BY <2>1, EntryForNext
  <2>4. i # 0 BY <1>0, <2>1, DomainOK
  <2> QED BY <2>1, <2>2, <2>3, <2>4 DEF Rightly, Unparked
<1> QED BY <1>1, <1>2, <1>3

\* Every step preserves the invariant about wakeups.
LEMMA WakeStep == StructInv /\ StructInv' /\ WatchQueuesExact /\ WakeInv /\ [Next]_vars => WakeInv'
<1> SUFFICES ASSUME StructInv, StructInv', WatchQueuesExact, WakeInv, [Next]_vars PROVE WakeInv'
  OBVIOUS
<1>1. ASSUME NEW u \in Threads, Move(u) PROVE WakeInv'
  <2>1. \A t \in Threads : WakeOf(t)' BY <1>1, OwnWakes, OtherWakes, WakeAll
  <2> QED BY <2>1 DEF WakeInv, WakeOf, SleepsRightly, Rightly
<1>2. CASE UNCHANGED vars
  <2>1. /\ cur' = cur /\ pc' = pc /\ idx' = idx /\ entries' = entries /\ saw' = saw
        /\ mode' = mode /\ ok' = ok /\ blocked' = blocked /\ inbox' = inbox
    BY <1>2 DEF vars
  <2>2. \A t, i : SleepsRightly(t, i)' <=> SleepsRightly(t, i)
    BY <2>1 DEF SleepsRightly, EntryFor, EntryOf, Unparked, e
  <2>3. \A t : Asleep(t)' <=> Asleep(t) BY <2>1 DEF Asleep
  <2> QED BY <2>1, <2>2, <2>3 DEF WakeInv
<1> QED BY <1>1, <1>2 DEF Next, Move

\* The invariant about wakeups holds always.
THEOREM Wakeups == Spec => []WakeInv
<1>1. Init => WakeInv BY DEF Init, WakeInv, Asleep
<1>2. StructInv /\ [Next]_vars => StructInv' BY StructStep
<1> QED BY <1>1, <1>2, Structure, QueuesExact, WakeStep, PTL DEF Spec

\* No thread sleeps in retry on a TVar that has changed without a wakeup on its way or
\* yet to be sent, for any number of threads and TVars.
THEOREM NoWakeupLost == Spec => []NoLostWakeup
<1>1. WakeInv => NoLostWakeup BY DEF WakeInv, Asleep, SleepsRightly, NoLostWakeup
<1> QED BY <1>1, Wakeups, PTL

----------------------------------------------------------------------------
(* Serializability                                                         *)

\* A set of naturals that is not empty has a least element.
LEMMA Least ==
  ASSUME NEW T, T \subseteq Nat, T # {}
  PROVE \E x \in T : \A y \in T : x <= y
<1>1. \E x \in T : \A y \in T : ~ (<<y, x>> \in OpToRel(<, Nat))
  BY WFMin, NatLessThanWellFounded
<1>2. PICK x \in T : \A y \in T : ~ (<<y, x>> \in OpToRel(<, Nat))
  BY <1>1
<1>3. ASSUME NEW y \in T PROVE x <= y
  <2>1. ~(<<y, x>> \in OpToRel(<, Nat))
    BY <1>2
  <2>2. <<y, x>> \in Nat \X Nat
    OBVIOUS
  <2>3. ~ (y < x)
    BY <2>1, <2>2 DEF OpToRel
  <2> QED BY <2>3
<1> QED BY <1>3

\* Induction up to n, with the induction hypothesis as a set
LEMMA Induct ==
  ASSUME NEW S, NEW n \in Nat, 0 \in S,
         \A i \in 0..n : i < n /\ i \in S => i + 1 \in S
  PROVE \A i \in 0..n : i \in S
<1> SUFFICES ASSUME NEW j \in 0..n, j \notin S PROVE FALSE
  OBVIOUS
<1> DEFINE T == {i \in 0..n : i \notin S}
<1>1. PICK x \in T : \A y \in T : x <= y
  <2>1. T \subseteq Nat /\ j \in T OBVIOUS
  <2> HIDE DEF T
  <2> QED BY <2>1, Least
<1>2. x # 0 OBVIOUS
<1>3. x - 1 \in 0..n /\ x - 1 \in S
  BY <1>1, <1>2
<1> QED BY <1>3

\* f replays the first n of the commits c, starting from m.
ReplayUpTo(m, c, n, f) == f = [i \in 0..n |-> IF i = 0 THEN m ELSE Applied(c[i], f[i - 1])]

\* There is such an f for all of c: the recursive definition of Replay is sound.
LEMMA ReplayExists ==
  ASSUME NEW m, NEW c, Len(c) \in Nat
  PROVE  \E f : ReplayUpTo(m, c, Len(c), f)
<1> DEFINE S == {n \in 0..Len(c) : \E f : ReplayUpTo(m, c, n, f)}
<1>1. 0 \in S
  <2> DEFINE g == [i \in 0..0 |-> m]
  <2>1. ReplayUpTo(m, c, 0, g) BY DEF ReplayUpTo
  <2> QED BY <2>1
<1>2. ASSUME NEW n \in 0..Len(c), n < Len(c), n \in S PROVE n + 1 \in S
  <2>1. PICK f : ReplayUpTo(m, c, n, f) BY <1>2
  <2> DEFINE g == [i \in 0..(n + 1) |-> IF i = n + 1 THEN Applied(c[n + 1], f[n]) ELSE f[i]]
  <2>2. \A i \in 0..n : g[i] = f[i] OBVIOUS
  <2>3. \A i \in 0..n : f[i] = IF i = 0 THEN m ELSE Applied(c[i], f[i - 1])
    BY <2>1 DEF ReplayUpTo
  <2>4. \A i \in 0..(n + 1) : g[i] = IF i = 0 THEN m ELSE Applied(c[i], g[i - 1])
    <3>1. ASSUME NEW i \in 0..n PROVE g[i] = IF i = 0 THEN m ELSE Applied(c[i], g[i - 1])
      <4>1. i # 0 => i - 1 \in 0..n OBVIOUS
      <4> QED BY <2>2, <2>3, <4>1
    <3>2. g[n + 1] = Applied(c[n + 1], g[n])  BY <2>2
    <3>3. n + 1 # 0 /\ (n + 1) - 1 = n /\ \A i \in 0..(n + 1) : i \in 0..n \/ i = n + 1 OBVIOUS
    <3> HIDE DEF g
    <3> QED BY <3>1, <3>2, <3>3
  <2>5. ReplayUpTo(m, c, n + 1, g)
    <3>1. g = [i \in 0..(n + 1) |-> g[i]] OBVIOUS
    <3> HIDE DEF g
    <3> DEFINE h == [i \in 0..(n + 1) |-> IF i = 0 THEN m ELSE Applied(c[i], g[i - 1])]
    <3>2. \A i \in 0..(n + 1) : g[i] = h[i]  BY <2>4
    <3>3. h = [i \in 0..(n + 1) |-> h[i]] OBVIOUS
    <3>4. g = h
      <4> HIDE DEF h
      <4> QED BY <3>1, <3>2, <3>3
    <3> QED BY <3>4 DEF ReplayUpTo
  <2>6. n + 1 \in 0..Len(c) BY <1>2
  <2>7. \E f1 : ReplayUpTo(m, c, n + 1, f1)
    <3> HIDE DEF g
    <3> QED BY <2>5
  <2> QED BY <2>6, <2>7
<1>3. Len(c) \in S
  <2> HIDE DEF S
  <2>1. \A i \in 0..Len(c) : i < Len(c) /\ i \in S => i + 1 \in S BY <1>2
  <2>2. \A i \in 0..Len(c) : i \in S BY <1>1, <2>1, Induct, Zenon
  <2> QED BY <2>2
<1> QED BY <1>3

\* Replay is one.
LEMMA ReplayDef ==
  ASSUME NEW m, NEW c, Len(c) \in Nat
  PROVE  ReplayUpTo(m, c, Len(c), Replay(m, c))
BY ReplayExists DEF Replay, ReplayUpTo

\* The equations of Replay
LEMMA ReplayStep ==
  ASSUME NEW m, NEW c, Len(c) \in Nat
  PROVE  /\ Replay(m, c)[0] = m
         /\ \A i \in 1..Len(c) : Replay(m, c)[i] = Applied(c[i], Replay(m, c)[i - 1])
<1> DEFINE R == Replay(m, c)
<1>1. ReplayUpTo(m, c, Len(c), R) BY ReplayDef
<1> HIDE DEF R
<1>2. R = [i \in 0..Len(c) |-> IF i = 0 THEN m ELSE Applied(c[i], R[i - 1])]
  BY <1>1 DEF ReplayUpTo
<1>3. \A i \in 0..Len(c) : R[i] = IF i = 0 THEN m ELSE Applied(c[i], R[i - 1])
  BY <1>2
<1>4. R[0] = m /\ \A i \in 1..Len(c) : R[i] = Applied(c[i], R[i - 1])
  BY <1>3
<1> QED BY <1>4 DEF R

\* The first n commits of c and d do the same.
SameEffect(c, d, n) == \A i \in 1..n : \A x : Applied(c[i], x) = Applied(d[i], x)

\* Then so do c and d up to n.
LEMMA ReplayAgree ==
  ASSUME NEW m, NEW c, NEW d, Len(c) \in Nat, Len(d) \in Nat,
         NEW n \in Nat, n <= Len(c), n <= Len(d),
         SameEffect(c, d, n)
  PROVE  \A i \in 0..n : Replay(m, c)[i] = Replay(m, d)[i]
<1> DEFINE P == Replay(m, c)
           Q == Replay(m, d)
           S == {i \in 0..n : P[i] = Q[i]}
<1>1. P[0] = m /\ Q[0] = m BY ReplayStep
<1>2. \A i \in 1..n : P[i] = Applied(c[i], P[i - 1]) /\ Q[i] = Applied(d[i], Q[i - 1])
  <2>1. \A i \in 1..n : i \in 1..Len(c) /\ i \in 1..Len(d) OBVIOUS
  <2> QED BY <2>1, ReplayStep
<1> HIDE DEF P, Q
<1>3. 0 \in S BY <1>1
<1>4. ASSUME NEW i \in 0..n, i < n, i \in S PROVE i + 1 \in S
  <2>1. i + 1 \in 1..n /\ (i + 1) - 1 = i BY <1>4
  <2>2. P[i + 1] = Applied(c[i + 1], P[i]) /\ Q[i + 1] = Applied(d[i + 1], Q[i]) BY <1>2, <2>1
  <2>3. Applied(c[i + 1], P[i]) = Applied(d[i + 1], P[i]) BY <2>1 DEF SameEffect
  <2> QED BY <1>4, <2>1, <2>2, <2>3
<1>5. \A i \in 0..n : i \in S
  <2> HIDE DEF S
  <2>1. \A i \in 0..n : i < n /\ i \in S => i + 1 \in S BY <1>4
  <2> QED BY <1>3, <2>1, Induct, Zenon
<1> QED BY <1>5 DEF P, Q

\* d is what is left of c without its first n elements.
IsSuffix(d, c, n) == Len(c) = n + Len(d) /\ \A i \in 1..Len(d) : d[i] = c[n + i]

\* Replaying what is left from where the first n have ended goes on as c does.
LEMMA ReplaySuffix ==
  ASSUME NEW m, NEW c, NEW d, Len(c) \in Nat, Len(d) \in Nat, NEW n \in Nat, IsSuffix(d, c, n)
  PROVE  \A i \in 0..Len(d) : Replay(Replay(m, c)[n], d)[i] = Replay(m, c)[n + i]
<1> DEFINE P == Replay(m, c)
           Q == Replay(P[n], d)
           S == {i \in 0..Len(d) : Q[i] = P[n + i]}
<1>1. Q[0] = P[n] BY ReplayStep
<1>2. \A i \in 1..Len(d) : P[n + i] = Applied(c[n + i], P[n + (i - 1)]) /\ Q[i] = Applied(d[i], Q[i - 1])
  <2>1. \A i \in 1..Len(d) : n + i \in 1..Len(c) /\ (n + i) - 1 = n + (i - 1) BY DEF IsSuffix
  <2>2. \A i \in 1..Len(c) : P[i] = Applied(c[i], P[i - 1]) BY ReplayStep
  <2>3. \A i \in 1..Len(d) : Q[i] = Applied(d[i], Q[i - 1]) BY ReplayStep
  <2> HIDE DEF P, Q
  <2>4. ASSUME NEW i \in 1..Len(d) PROVE P[n + i] = Applied(c[n + i], P[n + (i - 1)])
     <3>1. P[n + i] = Applied(c[n + i], P[(n + i) - 1]) BY <2>1, <2>2
     <3> QED BY <2>1, <3>1
  <2> QED BY <2>3, <2>4
<1> HIDE DEF P, Q
<1>3. 0 \in S BY <1>1
<1>4. ASSUME NEW i \in 0..Len(d), i < Len(d), i \in S PROVE i + 1 \in S
  <2>1. i + 1 \in 1..Len(d) /\ (i + 1) - 1 = i BY <1>4
  <2>2. P[n + (i + 1)] = Applied(c[n + (i + 1)], P[n + i]) /\ Q[i + 1] = Applied(d[i + 1], Q[i])
    <3>1. P[n + (i + 1)] = Applied(c[n + (i + 1)], P[n + ((i + 1) - 1)]) /\ Q[i + 1] = Applied(d[i + 1], Q[(i + 1) - 1])
      BY <1>2, <2>1
    <3> QED BY <2>1, <3>1
  <2>3. d[i + 1] = c[n + (i + 1)] BY <2>1 DEF IsSuffix
  <2> QED BY <1>4, <2>1, <2>2, <2>3
<1>5. \A i \in 0..Len(d) : i \in S
  <2> HIDE DEF S
  <2>1. \A i \in 0..Len(d) : i < Len(d) /\ i \in S => i + 1 \in S BY <1>4
  <2> QED BY <1>3, <2>1, Induct, Zenon
<1> QED BY <1>5 DEF P, Q

\* What a certain commit makes of a TVar
LEMMA AppliedDone ==
  ASSUME NEW r, r.state = "done", NEW m, NEW v \in TVars
  PROVE  Applied(r, m)[v] =
            IF \E k \in DOMAIN r.entries : r.entries[k].tvar = v
            THEN r.entries[CHOOSE k \in DOMAIN r.entries : r.entries[k].tvar = v].new
            ELSE m[v]
BY DEF Applied

\* A TVar in the log of a certain commit gets its new value ...
LEMMA AppliedUpdate ==
  ASSUME NEW r, r.state = "done", NEW m, NEW k \in DOMAIN r.entries, r.entries[k].tvar \in TVars,
         \A j \in DOMAIN r.entries : r.entries[j].tvar = r.entries[k].tvar => j = k
  PROVE  Applied(r, m)[r.entries[k].tvar] = r.entries[k].new
<1> DEFINE v == r.entries[k].tvar
<1>1. (CHOOSE j \in DOMAIN r.entries : r.entries[j].tvar = v) = k OBVIOUS
<1> QED BY <1>1 DEF Applied

\* ... and no other changes.
LEMMA AppliedElsewhere ==
  ASSUME NEW r, r.state = "done", NEW m, NEW v \in TVars, \A j \in DOMAIN r.entries : r.entries[j].tvar # v
  PROVE  Applied(r, m)[v] = m[v]
BY AppliedDone

\* What a commit makes of a TVar depends on this TVar alone.
LEMMA AppliedSame ==
  ASSUME NEW r, NEW m, NEW n, NEW v \in TVars, m[v] = n[v]
  PROVE  Applied(r, m)[v] = Applied(r, n)[v]
BY DEF Applied

\* A commit that is not certain changes nothing.
LEMMA AppliedOpen ==
  ASSUME NEW r, r.state # "done", NEW m
  PROVE  Applied(r, m) = m
BY DEF Applied

\* The log es updates v.
Writes(es, v) == \E k \in DOMAIN es : es[k].tvar = v /\ IsUpdate(es[k])

\* d is c where the open commit p with the log es has become certain: it finds what
\* it has read, and no certain commit after it has anything to do with what it writes.
ResolvedAt(m, c, d, p, es) ==
    /\ \A i \in 1..Len(c) : i # p => d[i] = c[i]
    /\ c[p].state = "open" /\ d[p].state = "done" /\ d[p].entries = es
    /\ \A k, j \in DOMAIN es : es[k].tvar = es[j].tvar => k = j
    /\ \A k \in DOMAIN es : es[k].tvar \in TVars /\ Replay(m, c)[p - 1][es[k].tvar] = es[k].exp
    /\ \A q \in 1..Len(c) : q > p /\ c[q].state = "done" =>
             \A j \in DOMAIN c[q].entries : ~Writes(es, c[q].entries[j].tvar)

\* The effect of that on the replay: nothing before p; after it, the TVars p writes
\* have their new values and the others stay as they were.
LEMMA ReplayResolved ==
  ASSUME NEW m, NEW c, NEW d, Len(c) \in Nat, Len(d) = Len(c),
         NEW p \in 1..Len(c), NEW es, ResolvedAt(m, c, d, p, es)
  PROVE  /\ \A i \in 0..(p - 1) : Replay(m, d)[i] = Replay(m, c)[i]
         /\ \A i \in 0..Len(c) : \A v \in TVars : ~Writes(es, v) => Replay(m, d)[i][v] = Replay(m, c)[i][v]
         /\ \A i \in p..Len(c) : \A k \in DOMAIN es : IsUpdate(es[k]) => Replay(m, d)[i][es[k].tvar] = es[k].new
<1> DEFINE P == Replay(m, c)
           Q == Replay(m, d)
<1>0. /\ \A i \in 1..Len(c) : i # p => d[i] = c[i]
      /\ c[p].state = "open" /\ d[p].state = "done" /\ d[p].entries = es
      /\ \A k, j \in DOMAIN es : es[k].tvar = es[j].tvar => k = j
      /\ \A k \in DOMAIN es : es[k].tvar \in TVars
      /\ \A q \in 1..Len(c) : q > p /\ c[q].state = "done" =>
             \A j \in DOMAIN c[q].entries : ~Writes(es, c[q].entries[j].tvar)
  BY DEF ResolvedAt
<1>1. \A i \in 0..(p - 1) : Q[i] = P[i]
  <2>1. p - 1 \in Nat /\ p - 1 <= Len(c) /\ p - 1 <= Len(d) OBVIOUS
  <2>2. \A i \in 1..(p - 1) : d[i] = c[i] BY <1>0
  <2>3. \A i \in 1..(p - 1) : \A x : Applied(d[i], x) = Applied(c[i], x) BY <2>2
  <2> DEFINE n == p - 1
  <2>4. n \in Nat /\ n <= Len(c) /\ n <= Len(d) /\ \A i \in 1..n : \A x : Applied(d[i], x) = Applied(c[i], x)
    BY <2>1, <2>3
  <2>5. \A i \in 0..n : Replay(m, d)[i] = Replay(m, c)[i]
    <3> HIDE DEF P, Q, n
    <3>1. Len(d) \in Nat OBVIOUS
    <3>2. SameEffect(d, c, n) BY <2>4 DEF SameEffect
    <3>3. n \in Nat /\ n <= Len(c) /\ n <= Len(d) BY <2>4
    <3> QED BY <3>1, <3>2, <3>3, ReplayAgree
  <2> QED BY <2>5
<1>2. \A i \in 1..Len(c) : P[i] = Applied(c[i], P[i - 1]) BY ReplayStep
<1>3. \A i \in 1..Len(c) : Q[i] = Applied(d[i], Q[i - 1]) BY ReplayStep
<1>4. \A k \in DOMAIN es : P[p - 1][es[k].tvar] = es[k].exp BY DEF ResolvedAt
<1>5. P[0] = m /\ Q[0] = m BY ReplayStep
<1> HIDE DEF P, Q
<1>6. P[p] = P[p - 1] /\ Q[p - 1] = P[p - 1] /\ Q[p] = Applied(d[p], P[p - 1])
  BY <1>0, <1>1, <1>2, <1>3, AppliedOpen
<1>7. \A k \in DOMAIN es : Q[p][es[k].tvar] = es[k].new
  <2> SUFFICES ASSUME NEW k \in DOMAIN es PROVE Q[p][es[k].tvar] = es[k].new OBVIOUS
  <2> DEFINE r == d[p]
             x == P[p - 1]
  <2>1. r.state = "done" /\ r.entries = es BY <1>0
  <2>2. es[k].tvar \in TVars /\ \A j \in DOMAIN es : es[j].tvar = es[k].tvar => j = k BY <1>0
  <2>3. Applied(r, x)[es[k].tvar] = es[k].new
    <3> HIDE DEF r, x
    <3> QED BY <2>1, <2>2, AppliedUpdate
  <2> QED BY <1>6, <2>3
<1>8. \A v \in TVars : ~Writes(es, v) => Q[p][v] = P[p][v]
  <2> SUFFICES ASSUME NEW v \in TVars, ~Writes(es, v) PROVE Q[p][v] = P[p][v] OBVIOUS
  <2>1. CASE \E k \in DOMAIN es : es[k].tvar = v
    <3>1. PICK k \in DOMAIN es : es[k].tvar = v BY <2>1
    <3>2. es[k].new = es[k].exp BY <3>1 DEF Writes, IsUpdate
    <3> QED BY <1>4, <1>6, <1>7, <3>1, <3>2
  <2>2. CASE ~ \E k \in DOMAIN es : es[k].tvar = v
    BY <1>0, <1>6, <2>2, AppliedElsewhere
  <2> QED BY <2>1, <2>2
<1> DEFINE S == {i \in 0..Len(c) : \A v \in TVars : ~Writes(es, v) => Q[i][v] = P[i][v]}
           T == {i \in 0..Len(c) : i >= p => \A k \in DOMAIN es : IsUpdate(es[k]) => Q[i][es[k].tvar] = es[k].new}
<1>9. 0 \in S /\ 0 \in T BY <1>5
<1>10. ASSUME NEW i \in 0..Len(c), i < Len(c), i \in S PROVE i + 1 \in S
  <2>1. i + 1 \in 1..Len(c) /\ (i + 1) - 1 = i BY <1>10
  <2>2. CASE i + 1 = p BY <1>8, <2>1, <2>2
  <2>3. CASE i + 1 # p
    <3>1. P[i + 1] = Applied(c[i + 1], P[i]) /\ Q[i + 1] = Applied(c[i + 1], Q[i])
      BY <1>0, <1>2, <1>3, <2>1, <2>3
    <3> DEFINE r == c[i + 1]
               x == P[i]
               y == Q[i]
               u == P[i + 1]
               w == Q[i + 1]
    <3>2. u = Applied(r, x) /\ w = Applied(r, y) BY <3>1
    <3>3. \A v \in TVars : ~Writes(es, v) => y[v] = x[v] BY <1>10
    <3>4. \A v \in TVars : ~Writes(es, v) => w[v] = u[v]
      <4> HIDE DEF r, x, y, u, w
      <4> QED BY <3>2, <3>3, AppliedSame
    <3> QED BY <2>1, <3>4
  <2> QED BY <2>2, <2>3
<1>11. ASSUME NEW i \in 0..Len(c), i < Len(c), i \in T PROVE i + 1 \in T
  <2>1. i + 1 \in 1..Len(c) /\ (i + 1) - 1 = i BY <1>11
  <2>2. CASE i + 1 <= p BY <1>7, <2>1, <2>2
  <2>3. CASE i + 1 > p
    <3>1. Q[i + 1] = Applied(c[i + 1], Q[i]) /\ i >= p BY <1>0, <1>3, <2>1, <2>3
    <3>2. \A k \in DOMAIN es : IsUpdate(es[k]) => Q[i][es[k].tvar] = es[k].new BY <1>11, <3>1
    <3>3. CASE c[i + 1].state = "done"
      <4>1. \A j \in DOMAIN c[i + 1].entries : ~Writes(es, c[i + 1].entries[j].tvar)
        BY <1>0, <2>1, <2>3, <3>3
      <4>2. \A k \in DOMAIN es : IsUpdate(es[k]) => \A j \in DOMAIN c[i + 1].entries : c[i + 1].entries[j].tvar # es[k].tvar
        BY <4>1 DEF Writes
      <4>3. \A k \in DOMAIN es : IsUpdate(es[k]) => Q[i + 1][es[k].tvar] = Q[i][es[k].tvar]
        <5> SUFFICES ASSUME NEW k \in DOMAIN es, IsUpdate(es[k]) PROVE Q[i + 1][es[k].tvar] = Q[i][es[k].tvar]
          OBVIOUS
        <5> DEFINE r == c[i + 1]
                   x == Q[i]
                   v == es[k].tvar
        <5>1. r.state = "done" /\ v \in TVars /\ \A j \in DOMAIN r.entries : r.entries[j].tvar # v
          BY <1>0, <3>3, <4>2
        <5>2. Applied(r, x)[v] = x[v]
          <6> HIDE DEF r, x, v
          <6> QED BY <5>1, AppliedElsewhere
        <5> QED BY <3>1, <5>2
      <4> QED BY <2>1, <3>2, <4>3
    <3>4. CASE c[i + 1].state # "done"
      BY <2>1, <3>1, <3>2, <3>4, AppliedOpen
    <3> QED BY <3>3, <3>4
  <2> QED BY <2>2, <2>3
<1>12. \A i \in 0..Len(c) : i \in S /\ i \in T
  <2> HIDE DEF S, T
  <2>1. \A i \in 0..Len(c) : i < Len(c) /\ i \in S => i + 1 \in S BY <1>10
  <2>2. \A i \in 0..Len(c) : i < Len(c) /\ i \in T => i + 1 \in T BY <1>11
  <2>3. \A i \in 0..Len(c) : i \in S BY <1>9, <2>1, Induct, Zenon
  <2>4. \A i \in 0..Len(c) : i \in T BY <1>9, <2>2, Induct, Zenon
  <2> QED BY <2>3, <2>4
<1>13. \A i \in p..Len(c) : i \in 0..Len(c) /\ i >= p OBVIOUS
<1>14. \A i \in 0..Len(c) : \A v \in TVars : ~Writes(es, v) => Q[i][v] = P[i][v] BY <1>12
<1>15. \A i \in p..Len(c) : \A k \in DOMAIN es : IsUpdate(es[k]) => Q[i][es[k].tvar] = es[k].new
  BY <1>12, <1>13
<1> QED BY <1>1, <1>14, <1>15 DEF P, Q

\* The commits in the history
Record == [thread : Threads, entries : Seq(Entry), state : {"open", "done", "failed"}]

\* num_updates of v has passed n, or will have before v is unlocked: a committing
\* thread holds v and has yet to come to v's increment, or to v's unlock with the
\* increment behind it.
Bumps(v, n) ==
    \/ num[v] > n
    \/ /\ cur[v] \in Threads
       /\ Committing(cur[v])
       /\ ~(pc[cur[v]] = "write_unlock" /\ e(cur[v]).tvar = v)

\* The certain or failed commits at the front of the history have an end.
LEMMA Unsettled ==
  ASSUME NEW l, Len(l) \in Nat
  PROVE  \E n \in 0..Len(l) : Certain(l, n)
<1> DEFINE T == {i \in 1..Len(l) : l[i].state = "open"}
<1>1. CASE T = {}
  <2>1. Len(l) \in 0..Len(l) /\ \A i \in 1..Len(l) : l[i].state # "open" BY <1>1
  <2> QED BY <2>1 DEF Certain
<1>2. CASE T # {}
  <2>1. T \subseteq Nat OBVIOUS
  <2>2. PICK x \in T : \A y \in T : x <= y
    <3> HIDE DEF T
    <3> QED BY <1>2, <2>1, Least
  <2>3. x - 1 \in 0..Len(l) /\ (x - 1) + 1 = x OBVIOUS
  <2>4. \A i \in 1..(x - 1) : i \in 1..Len(l) /\ ~(x <= i) OBVIOUS
  <2>5. \A i \in 1..(x - 1) : l[i].state # "open" BY <2>2, <2>4
  <2> QED BY <2>2, <2>3, <2>5 DEF Certain
<1> QED BY <1>1, <1>2

\* What Settle does: it drops a prefix without an open commit and changes neither what
\* the rest of the replay gives, nor what the reads find.
LEMMA Settled ==
  ASSUME NEW l \in Seq(Record), Settle(l)
  PROVE  \E n \in 0..Len(l) :
            /\ \A i \in 1..n : l[i].state # "open"
            /\ log' \in Seq(Record) /\ Len(log') = Len(l) - n
            /\ \A i \in 1..Len(log') : log'[i] = l[n + i]
            /\ \A i \in 0..Len(log') : Replay(mem, log)'[i] = Replay(mem, l)[n + i]
            /\ serial /\ ReadsMatch(mem, l) => serial' /\ ReadsMatch(mem, log)'
<1> DEFINE n == CHOOSE n \in 0..Len(l) : Certain(l, n)
           s == SubSeq(l, n + 1, Len(l))
           r == SubSeq(l, 1, n)
<1>1. n \in 0..Len(l) /\ \A i \in 1..n : l[i].state # "open"
  <2>1. \E k \in 0..Len(l) : Certain(l, k) BY Unsettled
  <2>2. n \in 0..Len(l) /\ Certain(l, n) BY <2>1, Zenon
  <2> HIDE DEF n
  <2> QED BY <2>2 DEF Certain
<1>2. log' = s /\ mem' = Replay(mem, l)[n] /\ serial' = (serial /\ ReadsMatch(mem, r))
  BY DEF Settle
<1> HIDE DEF n
<1>3. s \in Seq(Record) /\ Len(s) = Len(l) - n /\ \A i \in 1..Len(s) : s[i] = l[n + i] BY <1>1
<1>4. r \in Seq(Record) /\ Len(r) = n /\ \A i \in 1..n : r[i] = l[i] BY <1>1
<1> HIDE DEF s, r
<1>5. \A i \in 0..Len(s) : Replay(Replay(mem, l)[n], s)[i] = Replay(mem, l)[n + i]
  <2>1. Len(l) = n + Len(s) /\ Len(l) \in Nat /\ Len(s) \in Nat /\ n \in Nat BY <1>1, <1>3
  <2>2. IsSuffix(s, l, n) BY <1>3, <2>1 DEF IsSuffix
  <2> QED BY <2>1, <2>2, ReplaySuffix
<1>6. Replay(mem, log)' = Replay(mem', log') BY DEF Replay, Applied
<1>7. \A i \in 0..Len(log') : Replay(mem, log)'[i] = Replay(mem, l)[n + i] BY <1>2, <1>5, <1>6
<1>8. ASSUME serial, ReadsMatch(mem, l) PROVE serial' /\ ReadsMatch(mem, log)'
  <2>1. \A i \in 1..Len(l) : l[i].state = "done" => \A k \in DOMAIN l[i].entries :
            Replay(mem, l)[i - 1][l[i].entries[k].tvar] = l[i].entries[k].exp
    BY <1>8 DEF ReadsMatch
  <2>2. ReadsMatch(mem, r)
    <3>1. SameEffect(r, l, n) BY <1>4 DEF SameEffect
    <3>2. n \in Nat /\ n <= Len(l) /\ Len(l) \in Nat /\ n <= Len(r) /\ Len(r) \in Nat
      BY <1>1, <1>4
    <3>3. \A i \in 0..n : Replay(mem, r)[i] = Replay(mem, l)[i] BY <3>1, <3>2, ReplayAgree
    <3>4. \A i \in 1..n : i - 1 \in 0..n /\ i \in 1..Len(l) BY <3>2
    <3>5. DOMAIN r = 1..n BY <1>4
    <3> QED BY <1>4, <2>1, <3>3, <3>4, <3>5 DEF ReadsMatch
  <2>3. ReadsMatch(mem, log)'
    <3>1. \A i \in 1..Len(s) : i - 1 \in 0..Len(s) /\ n + i \in 1..Len(l) /\ n + (i - 1) = (n + i) - 1
      BY <1>1, <1>3
    <3>2. DOMAIN s = 1..Len(s) BY <1>3
    <3>3. \A i \in 1..Len(s) : Replay(mem, log)'[i - 1] = Replay(mem, l)[(n + i) - 1]
      BY <1>2, <1>7, <3>1
    <3>4. ASSUME NEW i \in DOMAIN log', log'[i].state = "done", NEW k \in DOMAIN log'[i].entries
          PROVE  Replay(mem, log)'[i - 1][log'[i].entries[k].tvar] = log'[i].entries[k].exp
      <4>1. i \in 1..Len(s) /\ log'[i] = l[n + i] BY <1>2, <1>3, <3>2, <3>4
      <4>2. Replay(mem, l)[(n + i) - 1][l[n + i].entries[k].tvar] = l[n + i].entries[k].exp
        BY <2>1, <3>1, <3>4, <4>1
      <4> QED BY <3>3, <4>1, <4>2
    <3> QED BY <1>6, <3>4 DEF ReadsMatch
  <2> QED BY <1>2, <1>8, <2>2, <2>3
<1> QED BY <1>1, <1>2, <1>3, <1>7, <1>8

\* The history changes at the ends of the acquisition and of check_read_only only.
LEMMA HistChanges ==
  ASSUME NEW t \in Threads, Move(t)
  PROVE  UNCHANGED hist \/ AcquireDone(t) \/ CheckNum(t) \/ CheckDone(t)
BY DEF Move, Body, Step, Start, ReadTVar, WriteTVar, EndBody, InFlightAbort, AbortRunning,
    AbortWaiting, AcquireLock, AcquireRead, AcquireNum, AcquireAgain, Revert, RevertDone,
    CheckValue, WriteUnpark, WriteNum, WriteUnlock, WriteDone, WaitEnqueue, Park, ReWait,
    RemoveLock, RemoveUnlock, RemoveDone, DeliverWakeup

\* What a thread does in and around the second half of stmCommitTransaction
LEMMA CommitMoves ==
  ASSUME TypeOK, NEW t \in Threads, Move(t)
  PROVE  /\ Committing(t) => WriteUnpark(t) \/ WriteNum(t) \/ WriteUnlock(t) \/ WriteDone(t)
         /\ Committing(t)' => Committing(t) \/ CheckDone(t)
         /\ pc[t] \in {"check", "check_num"} => CheckValue(t) \/ CheckNum(t) \/ CheckDone(t)
         /\ pc'[t] \in {"check", "check_num"} => \/ CheckValue(t) \/ CheckNum(t)
                                                 \/ AcquireDone(t) /\ mode[t] = "commit"
BY DEF TypeOK, Committing, Move, Body, Step, FreeTRec, Fail, Goto, NextEntry, Start,
    ReadTVar, WriteTVar, EndBody, InFlightAbort, AbortRunning, AbortWaiting, AcquireLock,
    AcquireRead, AcquireNum, AcquireAgain, AcquireDone, Revert, RevertDone, CheckValue,
    CheckNum, CheckDone, WriteUnpark, WriteNum, WriteUnlock, WriteDone, WaitEnqueue, Park,
    ReWait, RemoveLock, RemoveUnlock, RemoveDone, DeliverWakeup

\* The entry of the TVar in the log of its holder
LEMMA LockEntry ==
  ASSUME StructInv, NEW u \in Threads, NEW v \in TVars, cur[v] = u
  PROVE  \E k \in DOMAIN entries[u] : /\ entries[u][k].tvar = v
                                      /\ Holds(u, k) \/ MayHold(u, k)
                                      /\ EntryFor(u, v) = k /\ EntryOf(u, v) = entries[u][k]
<1>1. PICK k \in DOMAIN entries[u] : entries[u][k].tvar = v /\ (Holds(u, k) \/ MayHold(u, k))
  BY DEF StructInv, LocksKnown
<1>2. EntryFor(u, v) = k /\ EntryOf(u, v) = entries[u][k] BY <1>1, EntryForIs DEF StructInv
<1> QED BY <1>1, <1>2

\* The value of a TVar, seen through its lock, changes only when its holder's commit
\* becomes certain.
LEMMA LogicalStep ==
  ASSUME StructInv, StructInv', NEW u \in Threads, Move(u), NEW v \in TVars,
         ~(CheckDone(u) /\ cur[v] = u)
  PROVE  LogicalValue(v)' = LogicalValue(v)
<1>0. TypeOK /\ Phase(u) /\ cur[v] \in Values \cup Threads BY DEF StructInv, Phases, TypeOK
<1>1. CASE cur[v] \in Values
  <2>1. LogicalValue(v) = cur[v] BY <1>1, STMAssumption DEF LogicalValue
  <2>2. CASE cur'[v] = cur[v]
    BY <1>1, <2>1, <2>2, STMAssumption DEF LogicalValue
  <2>3. CASE AcquireLock(u) /\ cur'[v] # cur[v]
    <3>1. idx[u] \in DOMAIN entries[u] /\ e(u).tvar \in TVars
      BY <1>0, <2>3, EntryOK DEF AcquireLock
    <3>2. cur[e(u).tvar] = e(u).exp /\ cur' = [cur EXCEPT ![e(u).tvar] = u] /\ NextEntry(u, "acquire") /\ entries' = entries
      BY <2>3 DEF AcquireLock
    <3>3. v = e(u).tvar /\ cur'[v] = u
      <4> DEFINE w == e(u).tvar
      <4>1. cur' = [cur EXCEPT ![w] = u] BY <3>2
      <4> HIDE DEF w
      <4>2. v = w /\ cur'[v] = u BY <1>0, <2>3, <4>1 DEF TypeOK
      <4> QED BY <4>2 DEF w
    <3>4. pc'[u] = "acquire" BY <1>0, <3>2, NextAt
    <3>5. idx[u] \in DOMAIN entries'[u] /\ entries'[u][idx[u]].tvar = v /\ entries'[u][idx[u]].exp = cur[v]
      BY <3>1, <3>2, <3>3 DEF e
    <3>6. EntryOf(u, v)'.exp = cur[v] BY <3>5, EntryForNext DEF StructInv
    <3> QED BY <2>1, <3>3, <3>4, <3>6 DEF LogicalValue, HeldValue, Committing
  <2>4. CASE RemoveLock(u) /\ cur'[v] # cur[v]
    <3>1. idx[u] \in DOMAIN entries[u] /\ e(u).tvar \in TVars
      BY <1>0, <2>4, EntryOK DEF RemoveLock
    <3>2. /\ saw' = [saw EXCEPT ![u] = cur[e(u).tvar]] /\ cur' = [cur EXCEPT ![e(u).tvar] = u]
          /\ pc'[u] = "remove_unlock"
      BY <1>0, <2>4 DEF RemoveLock, TypeOK
    <3>3. cur'[v] = u /\ saw'[u] = cur[v]
      <4> DEFINE w == e(u).tvar
      <4>1. cur' = [cur EXCEPT ![w] = u] /\ saw' = [saw EXCEPT ![u] = cur[w]] BY <3>2
      <4> HIDE DEF w
      <4>2. v = w /\ cur'[v] = u /\ saw'[u] = cur[w] BY <1>0, <2>4, <4>1 DEF TypeOK
      <4> QED BY <4>2
    <3> QED BY <2>1, <3>2, <3>3 DEF LogicalValue, HeldValue, Committing
  <2>5. CASE cur'[v] # cur[v]
    <3>1. cur'[v] = u BY <1>0, <1>1, <2>5, CurStep, STMAssumption
    <3>2. ~Revert(u) /\ ~WriteUnlock(u) /\ ~RemoveUnlock(u)
      \* they give back a TVar, and v was not locked
      <4> DEFINE w == e(u).tvar
      <4>1. CASE Revert(u)
        <5>1. cur' = cur \/ cur' = [cur EXCEPT ![w] = e(u).exp] BY <4>1 DEF Revert
        <5>2. e(u).exp \in Values BY <1>0, <4>1, EntryOK DEF Revert
        <5> HIDE DEF w
        <5> QED BY <1>0, <2>5, <3>1, <5>1, <5>2, STMAssumption DEF TypeOK
      <4>2. CASE WriteUnlock(u)
        <5>1. cur' = [cur EXCEPT ![w] = e(u).new] BY <4>2 DEF WriteUnlock
        <5>2. More(u) /\ mode[u] = "commit" BY <1>0, <4>2 DEF WriteUnlock, Phase
        <5>3. e(u).new \in Values BY <1>0, <5>2, EntryOK DEF Phase, e
        <5> HIDE DEF w
        <5> QED BY <1>0, <2>5, <3>1, <5>1, <5>3, STMAssumption DEF TypeOK
      <4>3. CASE RemoveUnlock(u)
        <5>1. cur' = [cur EXCEPT ![w] = saw[u]] BY <4>3 DEF RemoveUnlock
        <5>2. saw[u] \in Values BY <1>0, <4>3 DEF RemoveUnlock, Phase
        <5> HIDE DEF w
        <5> QED BY <1>0, <2>5, <3>1, <5>1, <5>2, STMAssumption DEF TypeOK
      <4> QED BY <4>1, <4>2, <4>3
    <3> QED BY <2>3, <2>4, <2>5, <3>2, CurChanges
  <2> QED BY <2>2, <2>5
<1>2. CASE cur[v] \in Threads \ {u}
  <2> DEFINE w == cur[v]
  <2>1. cur'[v] = w BY <1>2, CurStep, STMAssumption
  <2>2. pc'[w] = pc[w] /\ saw'[w] = saw[w] /\ entries'[w] = entries[w]
    BY <1>0, <1>2, PcStep, SawStep, EntriesStep DEF StructInv
  <2>3. ASSUME NEW y, entries'[y] = entries[y], pc'[y] = pc[y], saw'[y] = saw[y]
        PROVE  HeldValue(y, v)' = HeldValue(y, v)
    BY <2>3 DEF EntryFor, EntryOf, HeldValue, Committing
  <2>4. \A y : y = cur'[v] => HeldValue(y, v)' = HeldValue(cur[v], v)'
    BY DEF EntryFor, EntryOf, HeldValue, Committing
  <2> QED BY <1>2, <2>1, <2>2, <2>3 DEF LogicalValue
<1>3. CASE cur[v] = u
  <2>1. PICK k \in DOMAIN entries[u] : /\ entries[u][k].tvar = v
                                       /\ Holds(u, k) \/ MayHold(u, k)
                                       /\ EntryFor(u, v) = k /\ EntryOf(u, v) = entries[u][k]
    BY <1>3, LockEntry
  <2>2. ~CheckDone(u) BY <1>3
  <2>3. LogicalValue(v) = IF Committing(u) THEN entries[u][k].new
                          ELSE IF pc[u] = "remove_unlock" THEN saw[u] ELSE entries[u][k].exp
    BY <1>3, <2>1 DEF LogicalValue, HeldValue
  <2>4. \A i \in DOMAIN entries[u] : entries[u][i].tvar = v => i = k
    BY <2>1 DEF StructInv, OneEntryEach
  <2>5. CASE cur'[v] = u
    <3>1. pc[u] # "run" /\ pc[u] # "remove" BY <2>1 DEF Holds, MayHold, Committing
    <3>2. pc[u] # "remove_unlock"
      <4> SUFFICES ASSUME pc[u] = "remove_unlock" PROVE FALSE OBVIOUS
      <4>1. idx[u] = k BY <2>1 DEF Holds, MayHold, Committing
      <4>2. RemoveUnlock(u) BY Departure
      <4>3. cur' = [cur EXCEPT ![v] = saw[u]] /\ saw[u] \in Values
        BY <1>0, <2>1, <4>1, <4>2 DEF RemoveUnlock, e, Phase
      <4> QED BY <1>0, <2>5, <4>3, STMAssumption DEF TypeOK
    <3>3. pc'[u] # "remove_unlock" BY <1>0, <3>1, Arrivals DEF RemoveLock
    <3>4. PICK j \in DOMAIN entries'[u] : entries'[u][j].tvar = v /\ (Holds(u, j) \/ MayHold(u, j))'
      BY <2>5 DEF StructInv, LocksKnown
    <3>5. SameTVars(u) BY <1>0, <3>1, <3>4, EntriesStep DEF StructInv
    <3>6. j = k /\ entries'[u][j].exp = entries[u][k].exp BY <2>4, <3>4, <3>5 DEF SameTVars
    <3>7. EntryOf(u, v)' = entries'[u][k] BY <3>4, <3>6, EntryForNext DEF StructInv
    <3>8. CASE Committing(u)'
      <4>1. Committing(u) BY <1>0, <2>2, <3>8, CommitMoves
      <4>2. entries' = entries \/ entries' = [entries EXCEPT ![u] = <<>>]
        BY <1>0, <4>1, CommitMoves DEF WriteUnpark, WriteNum, WriteUnlock, WriteDone, FreeTRec
      <4>3. entries'[u] = entries[u] BY <1>0, <3>4, <4>2 DEF TypeOK
      <4> QED BY <2>3, <2>5, <3>7, <3>8, <4>1, <4>3 DEF LogicalValue, HeldValue
    <3>9. CASE ~Committing(u)'
      <4>1. ~Committing(u)
        <5> SUFFICES ASSUME Committing(u) PROVE FALSE OBVIOUS
        <5>1. WriteUnpark(u) \/ WriteNum(u) \/ WriteUnlock(u) \/ WriteDone(u)
          BY <1>0, CommitMoves
        <5>2. pc'[u] \in {"write", "write_num", "write_unlock", "idle"}
          BY <1>0, <5>1, FreeAt, NextAt DEF WriteUnpark, WriteNum, WriteUnlock, WriteDone,
              TypeOK
        <5>3. pc'[u] = "idle" BY <3>9, <5>2 DEF Committing
        <5> QED BY <3>4, <5>3 DEF Holds, MayHold, Committing
      <4> QED BY <2>3, <2>5, <3>2, <3>3, <3>6, <3>7, <3>9, <4>1 DEF LogicalValue, HeldValue
    <3> QED BY <3>8, <3>9
  <2>6. CASE cur'[v] \in Values
    <3>0. LogicalValue(v)' = cur'[v] BY <2>6, STMAssumption DEF LogicalValue
    <3>1. cur' # cur BY <1>3, <2>6, STMAssumption
    <3> DEFINE w == e(u).tvar
    <3>2. CASE AcquireLock(u)
      <4>1. cur' = [cur EXCEPT ![w] = u] BY <3>1, <3>2 DEF AcquireLock
      <4> HIDE DEF w
      <4> QED BY <1>0, <1>3, <2>6, <4>1, STMAssumption DEF TypeOK
    <3>3. CASE RemoveLock(u)
      <4>1. cur' = [cur EXCEPT ![w] = u] BY <3>3 DEF RemoveLock
      <4> HIDE DEF w
      <4> QED BY <1>0, <1>3, <2>6, <4>1, STMAssumption DEF TypeOK
    <3>4. CASE Revert(u)
      <4>1. cur' = [cur EXCEPT ![w] = e(u).exp] BY <3>1, <3>4 DEF Revert
      <4>2. idx[u] \in DOMAIN entries[u] /\ pc[u] = "revert" BY <1>0, <3>4, EntryOK DEF Revert
      <4>3. v = w /\ cur'[v] = e(u).exp
        <5> HIDE DEF w
        <5> QED BY <1>0, <1>3, <2>6, <4>1, STMAssumption DEF TypeOK
      <4>4. k = idx[u] BY <2>4, <4>2, <4>3 DEF e
      <4> QED BY <2>3, <3>0, <4>2, <4>3, <4>4 DEF e, Committing
    <3>5. CASE WriteUnlock(u)
      <4>1. cur' = [cur EXCEPT ![w] = e(u).new] /\ pc[u] = "write_unlock"
        BY <3>5 DEF WriteUnlock
      <4>2. idx[u] \in DOMAIN entries[u] BY <1>0, <4>1, EntryOK DEF Phase
      <4>3. v = w /\ cur'[v] = e(u).new
        <5> HIDE DEF w
        <5> QED BY <1>0, <1>3, <2>6, <4>1, STMAssumption DEF TypeOK
      <4>4. k = idx[u] BY <2>4, <4>2, <4>3 DEF e
      <4> QED BY <2>3, <3>0, <4>1, <4>3, <4>4 DEF e, Committing
    <3>6. CASE RemoveUnlock(u)
      <4>1. cur' = [cur EXCEPT ![w] = saw[u]] /\ pc[u] = "remove_unlock"
        BY <3>6 DEF RemoveUnlock
      <4>2. cur'[v] = saw[u]
        <5> HIDE DEF w
        <5> QED BY <1>0, <1>3, <2>6, <4>1, STMAssumption DEF TypeOK
      <4> QED BY <2>3, <3>0, <4>1, <4>2 DEF Committing
    <3> QED BY <3>1, <3>2, <3>3, <3>4, <3>5, <3>6, CurChanges
  <2> QED BY <1>3, <2>5, <2>6, CurStep
<1> QED BY <1>0, <1>1, <1>2, <1>3

\* A commit that is under way increments num_updates before it unlocks.
LEMMA BumpsStep ==
  ASSUME StructInv, StructInv', NEW u \in Threads, Move(u), NEW v \in TVars, NEW n \in Nat,
         Bumps(v, n), n <= num[v]
  PROVE  Bumps(v, n)'
<1>0. TypeOK /\ Phase(u) BY DEF StructInv, Phases
<1>1. num[v] \in Nat /\ num'[v] \in Nat /\ num'[v] >= num[v] BY <1>0, NumStep DEF TypeOK
<1>2. CASE num[v] > n
  BY <1>1, <1>2 DEF Bumps
<1> DEFINE w == cur[v]
<1>3. CASE /\ w \in Threads /\ Committing(w)
           /\ ~(pc[w] = "write_unlock" /\ e(w).tvar = v)
  <2>1. CASE w # u
    <3>1. cur'[v] = w BY <1>3, <2>1, CurStep, STMAssumption
    <3>2. pc'[w] = pc[w] /\ idx'[w] = idx[w] /\ entries'[w] = entries[w]
      BY <1>0, <1>3, <2>1, PcStep, EntriesStep DEF StructInv
    <3> QED BY <1>3, <3>1, <3>2 DEF Bumps, Committing, e
  <2>2. CASE w = u
    <3>0. cur[v] = u /\ Committing(u) /\ ~(pc[u] = "write_unlock" /\ e(u).tvar = v)
      BY <1>3, <2>2
    <3> HIDE DEF w
    <3>1. PICK k \in DOMAIN entries[u] : entries[u][k].tvar = v /\ Holds(u, k)
      <4>1. PICK k \in DOMAIN entries[u] : entries[u][k].tvar = v /\ (Holds(u, k) \/ MayHold(u, k))
        BY <3>0, LockEntry
      <4> QED BY <3>0, <4>1 DEF MayHold, Committing
    <3>2. CASE WriteUnpark(u)
      <4>1. cur' = cur /\ pc'[u] \in {"write", "write_num"}
        BY <1>0, <3>2, NextAt DEF WriteUnpark, TypeOK
      <4> QED BY <3>0, <4>1 DEF Bumps, Committing
    <3>3. CASE WriteNum(u)
      <4>1. cur' = cur /\ entries' = entries /\ idx' = idx /\ pc'[u] = "write_unlock" /\ num' = [num EXCEPT ![e(u).tvar] = @ + 1]
        BY <1>0, <3>3 DEF WriteNum, TypeOK
      <4>2. CASE e(u).tvar = v
        <5>1. num'[v] = num[v] + 1 BY <1>0, <4>1, <4>2 DEF TypeOK
        <5> QED BY <1>1, <5>1 DEF Bumps
      <4>3. CASE e(u).tvar # v
        BY <3>0, <4>1, <4>3 DEF Bumps, Committing, e
      <4> QED BY <4>2, <4>3
    <3>4. CASE WriteUnlock(u)
      <4>1. e(u).tvar # v BY <3>0, <3>4 DEF WriteUnlock
      <4>2. cur' = [cur EXCEPT ![e(u).tvar] = e(u).new] /\ pc'[u] = "write"
        BY <1>0, <3>4, NextAt DEF WriteUnlock
      <4> DEFINE z == e(u).tvar
      <4>3. cur'[v] = cur[v]
        <5> HIDE DEF z
        <5> SUFFICES ASSUME cur' = [cur EXCEPT ![z] = e(u).new], z # v PROVE cur'[v] = cur[v]
          BY <4>1, <4>2 DEF z
        <5> QED BY <1>0 DEF TypeOK
      <4> QED BY <3>0, <4>2, <4>3 DEF Bumps, Committing
    <3>5. CASE WriteDone(u)
      <4>1. ~More(u) /\ pc[u] = "write" BY <3>5 DEF WriteDone
      <4>2. k >= idx[u] BY <3>1, <4>1 DEF Holds, Committing
      <4> QED BY <1>0, <3>1, <4>1, <4>2, DomainOK DEF More, TypeOK
    <3> QED BY <1>0, <3>0, <3>2, <3>3, <3>4, <3>5, CommitMoves
  <2> QED BY <2>1, <2>2
<1> QED BY <1>2, <1>3 DEF Bumps

\* v has the value x, or num_updates will tell that it has not.
Tells(v, n, x) == Bumps(v, n) \/ LogicalValue(v) = x

\* This is never undone: x can only be replaced by a commit that will be noticed.
LEMMA TellsStep ==
  ASSUME StructInv, StructInv', NEW u \in Threads, Move(u), NEW v \in TVars, NEW n \in Nat, NEW x,
         Tells(v, n, x), n <= num[v]
  PROVE  Tells(v, n, x)'
<1>1. CASE Bumps(v, n)
  <2>1. Bumps(v, n)' BY <1>1, BumpsStep
  <2> QED BY <2>1 DEF Tells
<1>2. CASE CheckDone(u) /\ cur[v] = u
  <2>1. cur'[v] = u /\ pc'[u] = "write" BY <1>2, GotoAt DEF CheckDone, StructInv
  <2>2. Bumps(v, n)' BY <2>1 DEF Bumps, Committing
  <2> QED BY <2>2 DEF Tells
<1>3. CASE ~(CheckDone(u) /\ cur[v] = u)
  <2>1. LogicalValue(v)' = LogicalValue(v) BY <1>3, LogicalStep
  <2> QED BY <1>1, <2>1 DEF Tells
<1> QED BY <1>2, <1>3

\* The versions in a log are versions its TVars have had.
NumOf(t) == \A k \in DOMAIN entries[t] : entries[t][k].nu <= num[entries[t][k].tvar]

\* A new entry has version 0.
LEMMA ReadNums ==
  ASSUME TypeOK, NEW t \in Threads, NEW v \in TVars, NEW x \in Values, cur[v] \in Values, NumOf(t), num' = num,
         entries' = [entries EXCEPT ![t] = Append(@, NewEntry(v, cur[v], x))]
  PROVE  NumOf(t)'
<1> DEFINE es == entries[t]
           n == NewEntry(v, cur[v], x)
<1>1. entries'[t] = Append(es, n) BY DEF TypeOK
<1>2. es \in Seq(Entry) BY DEF TypeOK
<1>3. n.tvar = v /\ n.nu = 0 BY DEF NewEntry
<1>4. num[v] \in Nat BY DEF TypeOK
<1>5. \A k \in DOMAIN es : es[k].nu <= num[es[k].tvar] BY DEF NumOf
<1> HIDE DEF es, n
<1>6. \A k \in DOMAIN Append(es, n) : (k \in DOMAIN es /\ Append(es, n)[k] = es[k]) \/ Append(es, n)[k] = n
  BY <1>2
<1> QED BY <1>1, <1>3, <1>4, <1>5, <1>6 DEF NumOf

\* The versions in the logs stay behind num_updates.
LEMMA NumOfStep ==
  ASSUME StructInv, NEW u \in Threads, Move(u), NEW t \in Threads, NumOf(t)
  PROVE  NumOf(t)'
<1>0. TypeOK /\ Phase(u) BY DEF StructInv, Phases
<1>1. \A v \in TVars : num[v] \in Nat /\ num'[v] \in Nat /\ num'[v] >= num[v]
  BY <1>0, NumStep DEF TypeOK
<1>2. \A k \in DOMAIN entries[t] : entries[t][k].nu \in Nat /\ entries[t][k].tvar \in TVars
  BY <1>0, DomainOK
<1>3. CASE entries'[t] = entries[t]
  <2>1. \A k \in DOMAIN entries[t] : entries[t][k].nu <= num'[entries[t][k].tvar]
    BY <1>1, <1>2 DEF NumOf
  <2> QED BY <1>3, <2>1 DEF NumOf
<1>4. CASE t = u
  <2>1. CASE entries' = [entries EXCEPT ![t] = <<>>]
    BY <1>0, <2>1 DEF TypeOK, NumOf
  <2>2. ASSUME NEW v \in TVars, ReadTVar(t, v) PROVE NumOf(t)'
    BY <1>0, <2>2, ReadNums DEF ReadTVar
  <2>3. ASSUME NEW v \in TVars, NEW x \in Values, WriteTVar(t, v, x) PROVE NumOf(t)'
    <3>1. num' = num BY <2>3 DEF WriteTVar
    <3>2. CASE EntryFor(t, v) = 0
      <4>1. cur[v] \in Values /\ entries' = [entries EXCEPT ![t] = Append(@, NewEntry(v, cur[v], x))]
        BY <2>3, <3>2 DEF WriteTVar
      <4> QED BY <1>0, <3>1, <4>1, ReadNums
    <3>3. CASE EntryFor(t, v) # 0
      <4>1. entries' = [entries EXCEPT ![t][EntryFor(t, v)].new = x] BY <2>3, <3>3 DEF WriteTVar
      <4> DEFINE j == EntryFor(t, v)
      <4>2. entries'[t] = [entries[t] EXCEPT ![j].new = x] BY <1>0, <4>1 DEF TypeOK
      <4>3. \A k \in DOMAIN entries[t] : entries[t][k] \in Entry BY <1>0, DomainOK
      <4>4. DOMAIN entries'[t] = DOMAIN entries[t] BY <4>2
      <4>5. \A k \in DOMAIN entries[t] : entries'[t][k].nu = entries[t][k].nu /\ entries'[t][k].tvar = entries[t][k].tvar
        BY <4>2, <4>3 DEF Entry
      <4> QED BY <3>1, <4>4, <4>5 DEF NumOf
    <3> QED BY <3>2, <3>3
  <2>4. CASE AcquireNum(t)
    <3>1. SameTVars(t) /\ (\A i \in DOMAIN entries[t] : i # idx[t] => entries'[t][i] = entries[t][i])
          /\ entries'[t][idx[t]].nu = num[e(t).tvar]
      BY <1>0, <1>4, <2>4, NumEntries DEF StructInv
    <3>2. num' = num /\ idx[t] \in DOMAIN entries[t]
      BY <1>0, <1>4, <2>4, EntryOK DEF AcquireNum, Phase
    <3> QED BY <1>1, <1>2, <3>1, <3>2 DEF NumOf, SameTVars, e
  <2>5. CASE WaitEnqueue(t)
    <3>1. entries' = [entries EXCEPT ![t] = [i \in DOMAIN @ |-> [@[i] EXCEPT !.new = QueueEntry]]] /\ num' = num
      BY <2>5 DEF WaitEnqueue
    <3>2. entries'[t] = [i \in DOMAIN entries[t] |-> [entries[t][i] EXCEPT !.new = QueueEntry]]
      BY <1>0, <3>1 DEF TypeOK
    <3>3. \A k \in DOMAIN entries[t] : entries[t][k] \in Entry BY <1>0, DomainOK
    <3>4. \A k \in DOMAIN entries[t] : entries'[t][k].nu = entries[t][k].nu /\ entries'[t][k].tvar = entries[t][k].tvar
      BY <3>2, <3>3 DEF Entry
    <3>5. DOMAIN entries'[t] = DOMAIN entries[t] BY <3>2
    <3> QED BY <3>1, <3>4, <3>5 DEF NumOf
  <2> QED BY <1>3, <1>4, <2>1, <2>2, <2>3, <2>4, <2>5, EntriesChanges
<1>5. CASE t # u
  BY <1>0, <1>3, <1>5, EntriesStep DEF StructInv
<1> QED BY <1>4, <1>5

\* What validation has found of t's reads so far still holds, or will be noticed.
AcquiredOf(t) ==
    mode[t] = "commit" /\ pc[t] \in {"acquire", "acquire_num", "acquire_again"} =>
        \A k \in DOMAIN entries[t] :
            k < idx[t] /\ ~IsUpdate(entries[t][k]) =>
                Tells(entries[t][k].tvar, entries[t][k].nu, entries[t][k].exp)

\* How a thread comes to, and stays in, the acquisition for a commit
LEMMA AcquireArrivals ==
  ASSUME TypeOK, NEW t \in Threads, Move(t), mode'[t] = "commit", pc'[t] \in {"acquire", "acquire_num", "acquire_again"}
  PROVE  \/ EndBody(t, "commit")
         \/ mode[t] = "commit" /\ (AcquireLock(t) \/ AcquireRead(t) \/ AcquireNum(t) \/ AcquireAgain(t))
BY DEF TypeOK, Committing, Move, Body, Step, FreeTRec, Fail, Goto, NextEntry, Start,
    ReadTVar, WriteTVar, EndBody, InFlightAbort, AbortRunning, AbortWaiting, AcquireLock,
    AcquireRead, AcquireNum, AcquireAgain, AcquireDone, Revert, RevertDone, CheckValue,
    CheckNum, CheckDone, WriteUnpark, WriteNum, WriteUnlock, WriteDone, WaitEnqueue, Park,
    ReWait, RemoveLock, RemoveUnlock, RemoveDone, DeliverWakeup

\* Every step preserves this: current_value is loaded again after num_updates.
LEMMA AcquiredStep ==
  ASSUME StructInv, StructInv', NEW u \in Threads, Move(u), NEW t \in Threads, NumOf(t), AcquiredOf(t)
  PROVE  AcquiredOf(t)'
<1>0. TypeOK /\ Phase(u) BY DEF StructInv, Phases
<1> SUFFICES ASSUME mode'[t] = "commit", pc'[t] \in {"acquire", "acquire_num", "acquire_again"},
                    NEW k \in DOMAIN entries'[t], k < idx'[t], ~IsUpdate(entries'[t][k])
             PROVE  Tells(entries[t][k].tvar, entries[t][k].nu, entries[t][k].exp)'
  <2>1. \A x, y : x = y' => (IsUpdate(x)' <=> IsUpdate(y)') BY DEF IsUpdate
  <2> QED BY DEF AcquiredOf, IsUpdate
<1> DEFINE v == entries[t][k].tvar
           n == entries[t][k].nu
           x == entries[t][k].exp
<1>1. ASSUME k \in DOMAIN entries[t], entries'[t][k] = entries[t][k], Tells(v, n, x)
      PROVE  Tells(entries[t][k].tvar, entries[t][k].nu, entries[t][k].exp)'
  <2>1. v \in TVars /\ n \in Nat /\ n <= num[v] BY <1>0, <1>1, DomainOK DEF NumOf
  <2>2. Tells(v, n, x)
    BY <1>1
  <2>3. v = entries'[t][k].tvar /\ n = entries'[t][k].nu /\ x = entries'[t][k].exp BY <1>1
  <2>4. ASSUME NEW y \in TVars, NEW m \in Nat, NEW z, Tells(y, m, z), m <= num[y]
        PROVE  Tells(y, m, z)'
    BY <2>4, TellsStep
  <2>5. \A y, m, z : y = entries'[t][k].tvar /\ m = entries'[t][k].nu /\ z = entries'[t][k].exp =>
               (Tells(y, m, z)' <=> Tells(entries[t][k].tvar, entries[t][k].nu, entries[t][k].exp)')
    BY DEF Tells, Bumps, LogicalValue, HeldValue, EntryOf, EntryFor, Committing, e
  <2> HIDE DEF v, n, x
  <2> QED BY <2>1, <2>2, <2>3, <2>4, <2>5
<1>2. CASE t # u
  <2>1. mode'[t] = mode[t] /\ pc'[t] = pc[t] /\ idx'[t] = idx[t] /\ entries'[t] = entries[t]
    BY <1>0, <1>2, PcStep, FlagStep, EntriesStep DEF StructInv
  <2>2. ~IsUpdate(entries[t][k]) BY <2>1 DEF IsUpdate
  <2> QED BY <1>1, <2>1, <2>2 DEF AcquiredOf
<1>3. CASE t = u
  <2>1. CASE EndBody(t, "commit")
    <3>1. idx'[t] = 1 /\ entries' = entries BY <1>0, <2>1, GotoAt DEF EndBody
    <3>2. k \in 1..Len(entries[t]) /\ Len(entries[t]) \in Nat BY <1>0, <3>1, DomainOK
    <3>3. ~(k < 1) BY <3>2
    <3> QED BY <3>1, <3>3
  <2>2. CASE mode[t] = "commit" /\ AcquireLock(t)
    <3>1. cur[e(t).tvar] = e(t).exp /\ NextEntry(t, "acquire") /\ entries' = entries /\ IsUpdate(e(t))
      BY <1>0, <2>2, FailAt DEF AcquireLock, AcquireAll
    <3>2. idx'[t] = idx[t] + 1 /\ k # idx[t] BY <1>0, <3>1, NextAt DEF e, IsUpdate
    <3>3. k < idx[t] /\ k \in DOMAIN entries[t] BY <1>0, <3>1, <3>2, DomainOK DEF TypeOK
    <3>4. pc[t] = "acquire" BY <2>2 DEF AcquireLock
    <3>5. ~IsUpdate(entries[t][k]) BY <3>1 DEF IsUpdate
    <3> QED BY <1>1, <2>2, <3>1, <3>3, <3>4, <3>5 DEF AcquiredOf
  <2>3. CASE mode[t] = "commit" /\ AcquireRead(t)
    <3>1. idx'[t] = idx[t] /\ entries' = entries /\ pc[t] = "acquire"
      BY <1>0, <2>3, FailAt DEF AcquireRead
    <3>2. ~IsUpdate(entries[t][k]) BY <3>1 DEF IsUpdate
    <3> QED BY <1>1, <2>3, <3>1, <3>2 DEF AcquiredOf
  <2>4. CASE mode[t] = "commit" /\ AcquireNum(t)
    <3>1. idx'[t] = idx[t] /\ pc[t] = "acquire_num" BY <1>0, <2>4 DEF AcquireNum
    <3>2. k \in DOMAIN entries[t] /\ entries'[t][k] = entries[t][k]
      <4>1. SameTVars(t) /\ \A i \in DOMAIN entries[t] : i # idx[t] => entries'[t][i] = entries[t][i]
        BY <1>0, <1>3, <2>4, NumEntries DEF StructInv
      <4>2. k # idx[t] BY <1>0, <3>1, <4>1, DomainOK DEF SameTVars, TypeOK
      <4> QED BY <4>1, <4>2 DEF SameTVars
    <3>3. ~IsUpdate(entries[t][k]) BY <3>2 DEF IsUpdate
    <3> QED BY <1>1, <2>4, <3>1, <3>2, <3>3 DEF AcquiredOf
  <2>5. CASE mode[t] = "commit" /\ AcquireAgain(t)
    <3>1. cur[e(t).tvar] = e(t).exp /\ NextEntry(t, "acquire") /\ entries' = entries /\ pc[t] = "acquire_again"
      BY <1>0, <2>5, FailAt DEF AcquireAgain
    <3>2. idx'[t] = idx[t] + 1 BY <1>0, <3>1, NextAt
    <3>3. k \in DOMAIN entries[t] /\ (k < idx[t] \/ k = idx[t])
      BY <1>0, <3>1, <3>2, DomainOK DEF TypeOK
    <3>4. ~IsUpdate(entries[t][k]) BY <3>1 DEF IsUpdate
    <3>5. CASE k < idx[t]
      BY <1>1, <2>5, <3>1, <3>3, <3>4, <3>5 DEF AcquiredOf
    <3>6. CASE k = idx[t]
      <4>1. x \in Values /\ cur[v] = x BY <1>0, <3>1, <3>3, <3>6, DomainOK DEF e
      <4>2. Tells(v, n, x) BY <4>1, STMAssumption DEF Tells, LogicalValue
      <4> QED BY <1>1, <3>1, <3>3, <4>2
    <3> QED BY <3>3, <3>5, <3>6
  <2> QED BY <1>0, <1>3, <2>1, <2>2, <2>3, <2>4, <2>5, AcquireArrivals
<1> QED BY <1>2, <1>3

\* The log es has an entry for v.
Touches(es, v) == \E k \in DOMAIN es : es[k].tvar = v

\* t is in check_read_only: its commit is open.
InCheck(t) == pc[t] \in {"check", "check_num"}

\* The open commits are those of the threads in check_read_only, one for each.
OpenCommits(l) ==
    /\ \A p \in DOMAIN l : l[p].state = "open" =>
          InCheck(l[p].thread) /\ l[p].entries = entries[l[p].thread]
    /\ \A p, q \in DOMAIN l : l[p].state = "open" /\ l[q].state = "open" /\ l[p].thread = l[q].thread => p = q
    /\ \A t \in Threads : InCheck(t) => \E p \in DOMAIN l : l[p].state = "open" /\ l[p].thread = t

\* A certain commit has nothing to do with what an earlier one, still open, writes.
OpenApart(l) ==
    \A p, q \in DOMAIN l : l[q].state = "open" /\ q < p /\ l[p].state = "done" =>
        \A v \in TVars : ~(Writes(l[q].entries, v) /\ Touches(l[p].entries, v))

\* The entry x of the commit p finds what it has read, and no open commit before p
\* will change that.
Clean(l, R, p, x) ==
    /\ R[p - 1][x.tvar] = x.exp
    /\ \A q \in DOMAIN l : q < p /\ l[q].state = "open" => ~Writes(l[q].entries, x.tvar)

\* What is known of an entry that was only read: its value is still there at p's
\* place, or num_updates tells; it is certain once check_read_only is past it.
Reads(l, R, p, x, k, t) ==
    /\ Bumps(x.tvar, x.nu) \/ R[p - 1][x.tvar] = x.exp
    /\ k < idx[t] => Clean(l, R, p, x)
    /\ pc[t] = "check_num" /\ k = idx[t] /\ saw[t] = x.exp =>
          num[x.tvar] > x.nu \/ Clean(l, R, p, x)

\* What is known of the k-th entry of the open commit p: an update is locked.
Found(l, R, p, k) ==
    LET x == l[p].entries[k]
    IN  IF IsUpdate(x) THEN R[p - 1][x.tvar] = x.exp ELSE Reads(l, R, p, x, k, l[p].thread)

\* What is known of the entries of all open commits
OpenReads(l, R) == \A p \in DOMAIN l : l[p].state = "open" => \A k \in DOMAIN l[p].entries : Found(l, R, p, k)

\* The history explains the values the TVars have.
Matches(l, R) == \A v \in TVars : R[Len(l)][v] = LogicalValue(v)

\* The invariant about a history l, where R gives the TVars after each of its commits
LogInv(l, R) == OpenCommits(l) /\ OpenApart(l) /\ OpenReads(l, R) /\ Matches(l, R)

\* d is l without its first n commits, none of them open, and Q is R from there on.
Shifted(l, R, d, Q, n) ==
  /\ \A i \in 1..n : l[i].state # "open"
  /\ Len(d) = Len(l) - n
  /\ \A i \in 1..Len(d) : d[i] = l[n + i]
  /\ \A i \in 0..Len(d) : Q[i] = R[n + i]

\* The invariant does not depend on where the history begins.
LEMMA ShiftInv ==
  ASSUME NEW l \in Seq(Record), NEW R, NEW d \in Seq(Record), NEW Q, NEW n \in 0..Len(l),
         Shifted(l, R, d, Q, n), LogInv(l, R)'
  PROVE  LogInv(d, Q)'
<1>0. DOMAIN l = 1..Len(l) /\ DOMAIN d = 1..Len(d) /\ Len(l) \in Nat /\ Len(d) \in Nat OBVIOUS
<1>1. \A i \in DOMAIN d : /\ n + i \in DOMAIN l /\ d[i] = l[n + i] /\ i - 1 \in 0..Len(d)
                          /\ n + (i - 1) = (n + i) - 1
  BY <1>0 DEF Shifted
<1>2. \A i \in DOMAIN d : Q[i - 1] = R[(n + i) - 1]
  <2>1. ASSUME NEW i \in DOMAIN d PROVE Q[i - 1] = R[(n + i) - 1]
    <3>1. Q[i - 1] = R[n + (i - 1)] BY <1>1 DEF Shifted
    <3> QED BY <1>1, <3>1
  <2> QED BY <2>1
<1>3. \A q \in DOMAIN l : l[q].state = "open" => q - n \in DOMAIN d /\ d[q - n] = l[q] /\ n + (q - n) = q
  <2> SUFFICES ASSUME NEW q \in DOMAIN l, l[q].state = "open"
               PROVE  q - n \in DOMAIN d /\ n + (q - n) = q
    BY <1>1
  <2>1. q > n BY <1>0 DEF Shifted
  <2> QED BY <1>0, <2>1 DEF Shifted
<1>4. OpenCommits(d)'
  <2>1. ASSUME NEW t \in Threads, InCheck(t)'
        PROVE  \E p \in DOMAIN d : d[p].state = "open" /\ d[p].thread = t
    <3>1. PICK p \in DOMAIN l : l[p].state = "open" /\ l[p].thread = t
      BY <2>1 DEF LogInv, OpenCommits
    <3> QED BY <1>3, <3>1
  <2>2. ASSUME NEW p \in DOMAIN d, NEW q \in DOMAIN d, d[p].state = "open", d[q].state = "open", d[p].thread = d[q].thread
        PROVE p = q
    <3>1. \A a, b \in DOMAIN l : l[a].state = "open" /\ l[b].state = "open" /\ l[a].thread = l[b].thread => a = b
      BY DEF LogInv, OpenCommits
    <3>2. n + p = n + q BY <1>1, <2>2, <3>1
    <3> QED BY <1>0, <3>2
  <2>3. \A p \in DOMAIN d : d[p].state = "open" => InCheck(d[p].thread)' /\ d[p].entries = entries'[d[p].thread]
    <3>1. \A p \in DOMAIN l : l[p].state = "open" => InCheck(l[p].thread)' /\ l[p].entries = entries'[l[p].thread]
      BY DEF LogInv, OpenCommits
    <3> QED BY <1>1, <3>1
  <2> QED BY <2>1, <2>2, <2>3 DEF OpenCommits
<1>5. OpenApart(d)'
  <2> SUFFICES ASSUME NEW p \in DOMAIN d, NEW q \in DOMAIN d, d[q].state = "open", q < p, d[p].state = "done", NEW v \in TVars
               PROVE  ~(Writes(d[q].entries, v) /\ Touches(d[p].entries, v))
    BY DEF OpenApart
  <2>1. n + q < n + p BY <1>0
  <2> QED BY <1>1, <2>1 DEF LogInv, OpenApart
<1>6. ASSUME NEW p \in DOMAIN d, NEW x, Clean(l, R, n + p, x) PROVE Clean(d, Q, p, x)
  <2>1. Q[p - 1] = R[(n + p) - 1] BY <1>2
  <2>2. \A q \in DOMAIN d : q < p => n + q < n + p BY <1>0
  <2> QED BY <1>1, <1>6, <2>1, <2>2 DEF Clean
<1>7. OpenReads(d, Q)'
  <2> SUFFICES ASSUME NEW p \in DOMAIN d, d[p].state = "open", NEW k \in DOMAIN d[p].entries
               PROVE  Found(d, Q, p, k)'
    BY DEF OpenReads
  <2>1. n + p \in DOMAIN l /\ d[p] = l[n + p] /\ Q[p - 1] = R[(n + p) - 1] BY <1>1, <1>2
  <2>2. Found(l, R, n + p, k)' BY <2>1 DEF LogInv, OpenReads
  <2>3. \A x : Clean(l, R, n + p, x) => Clean(d, Q, p, x) BY <1>6
  <2> QED BY <2>1, <2>2, <2>3 DEF Found, Reads
<1>8. Matches(d, Q)'
  <2>1. Q[Len(d)] = R[Len(l)]
    <3>1. Len(d) \in 0..Len(d) /\ n + Len(d) = Len(l) BY <1>0 DEF Shifted
    <3>2. Q[Len(d)] = R[n + Len(d)] BY <3>1 DEF Shifted
    <3> QED BY <3>1, <3>2
  <2> QED BY <2>1 DEF LogInv, Matches
<1> QED BY <1>4, <1>5, <1>7, <1>8 DEF LogInv

\* No log has a version that its TVar has not reached.
NumInv == \A t \in Threads : NumOf(t)

\* What all acquisitions have found
AcquiredInv == \A t \in Threads : AcquiredOf(t)

\* A step of another thread keeps what is known of an entry.
LEMMA OtherFound ==
  ASSUME StructInv, StructInv', NumInv, NEW u \in Threads, Move(u),
         NEW l, NEW R, NEW c, NEW Q, NEW p, NEW t \in Threads \ {u}, NEW k \in DOMAIN entries[t],
         NEW x, x = entries[t][k],
         c[p].thread = t, c[p].entries = entries[t], l[p] = c[p], Found(c, Q, p, k),
         Clean(c, Q, p, x) => Clean(l, R, p, x),
         R[p - 1][x.tvar] = Q[p - 1][x.tvar] \/ (~IsUpdate(x) /\ Bumps(x.tvar, x.nu)')
  PROVE  Found(l, R, p, k)'
<1>0. TypeOK BY DEF StructInv
<1>2. x.tvar \in TVars /\ x.nu \in Nat /\ x.nu <= num[x.tvar]
  BY <1>0, DomainOK DEF NumInv, NumOf
<1>3. num[x.tvar] \in Nat /\ num'[x.tvar] \in Nat /\ num'[x.tvar] >= num[x.tvar]
  BY <1>0, <1>2, NumStep DEF TypeOK
<1>4. pc'[t] = pc[t] /\ idx'[t] = idx[t] /\ saw'[t] = saw[t]
  BY <1>0, PcStep, SawStep DEF StructInv
<1>5. Bumps(x.tvar, x.nu) => Bumps(x.tvar, x.nu)'
  <2>1. ASSUME NEW v \in TVars, NEW n \in Nat, n <= num[v], Bumps(v, n) PROVE Bumps(v, n)'
    BY <2>1, BumpsStep
  <2> QED BY <1>2, <2>1
<1>8. l[p].entries[k] = x /\ c[p].entries[k] = x /\ l[p].thread = t OBVIOUS
<1>9. CASE IsUpdate(x)
  BY <1>8, <1>9 DEF Found
<1>10. CASE ~IsUpdate(x)
  <2>1. Reads(c, Q, p, x, k, t) BY <1>8, <1>10 DEF Found
  <2>2. Reads(l, R, p, x, k, t)' BY <1>2, <1>3, <1>4, <1>5, <1>10, <2>1 DEF Reads
  <2> QED BY <1>8, <1>10, <2>2 DEF Found
<1> QED BY <1>9, <1>10

\* A step of another thread keeps a thread in check_read_only where it is.
LEMMA OtherInCheck ==
  ASSUME StructInv, NEW u \in Threads, Move(u), NEW t \in Threads \ {u}
  PROVE  (InCheck(t)' <=> InCheck(t)) /\ entries'[t] = entries[t] /\ pc'[t] = pc[t] /\ idx'[t] = idx[t]
BY PcStep, EntriesStep DEF StructInv, InCheck

\* A thread in check_read_only holds what it will write.
LEMMA OpenHolds ==
  ASSUME StructInv, NEW t \in Threads, InCheck(t), NEW v, Writes(entries[t], v)
  PROVE  cur[v] = t
<1>1. PICK k \in DOMAIN entries[t] : entries[t][k].tvar = v /\ IsUpdate(entries[t][k])
  BY DEF Writes
<1>2. Holds(t, k) BY <1>1 DEF Holds, InCheck
<1> QED BY <1>1, <1>2 DEF StructInv, LocksHeld

\* check_read_only passes an entry only when it is certain: the value was there at the
\* load of current_value, so nobody was committing to the TVar, and num_updates shows
\* that nobody had since the version was read.
LEMMA QuietFound ==
  ASSUME StructInv, StructInv', NumInv, NEW u \in Threads, Move(u),
         CheckValue(u) \/ (CheckNum(u) /\ CheckPasses(u)),
         NEW c, NEW Q, OpenCommits(c), \A q \in DOMAIN c : c[q].thread \in Threads,
         NEW p \in DOMAIN c, c[p].state = "open", c[p].thread = u,
         NEW k \in DOMAIN entries[u], Found(c, Q, p, k)
  PROVE  Found(c, Q, p, k)'
<1>0. TypeOK /\ Phase(u) BY DEF StructInv, Phases
<1>1. PICK x : x = entries[u][k] OBVIOUS
<1>2. /\ x.tvar \in TVars /\ x.exp \in Values /\ x.nu \in Nat /\ x.nu <= num[x.tvar]
      /\ num[x.tvar] \in Nat
  BY <1>0, <1>1, DomainOK DEF NumInv, NumOf, TypeOK
<1>3. Bumps(x.tvar, x.nu) => Bumps(x.tvar, x.nu)'
  <2>1. ASSUME NEW v \in TVars, NEW n \in Nat, n <= num[v], Bumps(v, n) PROVE Bumps(v, n)'
    BY <2>1, BumpsStep
  <2> QED BY <1>2, <2>1
<1>4. c[p].entries[k] = x BY <1>1 DEF OpenCommits
<1>5. CASE IsUpdate(x)
  BY <1>4, <1>5 DEF Found
<1>6. CASE ~IsUpdate(x)
  <2>1. Reads(c, Q, p, x, k, u) BY <1>4, <1>6 DEF Found
  <2>2. k \in Nat /\ idx[u] \in Nat /\ num' = num
    BY <1>0, DomainOK DEF TypeOK, CheckValue, CheckNum
  <2>3. CASE CheckNum(u) /\ CheckPasses(u)
    <3>1. idx'[u] = idx[u] + 1 /\ pc'[u] = "check" BY <1>0, <2>3, NextAt DEF CheckNum
    <3>2. k = idx[u] => Clean(c, Q, p, x)
      <4>1. k = idx[u] => saw[u] = x.exp /\ num[x.tvar] = x.nu BY <1>1, <2>3 DEF CheckPasses, e
      <4> QED BY <1>2, <2>1, <2>3, <4>1 DEF Reads, CheckNum
    <3>3. k < idx'[u] => k < idx[u] \/ k = idx[u] BY <2>2, <3>1
    <3>4. Reads(c, Q, p, x, k, u)' BY <1>3, <2>1, <3>1, <3>2, <3>3 DEF Reads
    <3> QED BY <1>4, <1>6, <3>4 DEF Found
  <2>4. CASE CheckValue(u) /\ IsUpdate(e(u))
    <3>1. idx'[u] = idx[u] + 1 /\ pc'[u] = "check" BY <1>0, <2>4, NextAt DEF CheckValue
    <3>2. k # idx[u] BY <1>1, <1>6, <2>4 DEF e
    <3>3. k < idx'[u] => k < idx[u] BY <2>2, <3>1, <3>2
    <3>4. Reads(c, Q, p, x, k, u)' BY <1>3, <2>1, <3>1, <3>3 DEF Reads
    <3> QED BY <1>4, <1>6, <3>4 DEF Found
  <2>5. CASE CheckValue(u) /\ ~IsUpdate(e(u))
    <3>1. idx'[u] = idx[u] /\ saw'[u] = cur[e(u).tvar] BY <1>0, <2>5 DEF CheckValue, TypeOK
    <3>2. ASSUME k = idx[u], saw'[u] = x.exp PROVE num[x.tvar] > x.nu \/ Clean(c, Q, p, x)
      <4>1. cur[x.tvar] = x.exp BY <1>1, <3>1, <3>2 DEF e
      <4>2. cur[x.tvar] \notin Threads BY <1>2, <4>1, STMAssumption
      <4>3. num[x.tvar] > x.nu \/ Q[p - 1][x.tvar] = x.exp BY <2>1, <4>2 DEF Reads, Bumps
      <4>4. ASSUME NEW q \in DOMAIN c, c[q].state = "open" PROVE ~Writes(c[q].entries, x.tvar)
        <5>1. InCheck(c[q].thread) /\ c[q].entries = entries[c[q].thread]
          BY <4>4 DEF OpenCommits
        <5> DEFINE t == c[q].thread
        <5>2. t \in Threads OBVIOUS
        <5> HIDE DEF t
        <5>3. InCheck(t) /\ c[q].entries = entries[t] BY <5>1 DEF t
        <5> QED BY <4>2, <5>2, <5>3, OpenHolds
      <4> QED BY <4>3, <4>4 DEF Clean
    <3>3. Reads(c, Q, p, x, k, u)' BY <1>3, <2>1, <2>2, <3>1, <3>2 DEF Reads
    <3> QED BY <1>4, <1>6, <3>3 DEF Found
  <2> QED BY <2>3, <2>4, <2>5
<1> QED BY <1>5, <1>6

\* The steps that resolve nothing preserve the invariant about the history.
LEMMA QuietLog ==
  ASSUME StructInv, StructInv', NumInv, NEW u \in Threads, Move(u),
         ~CheckDone(u), CheckNum(u) => CheckPasses(u), ~(AcquireDone(u) /\ mode[u] = "commit"),
         NEW c, NEW Q, LogInv(c, Q), \A q \in DOMAIN c : c[q].thread \in Threads
  PROVE  LogInv(c, Q)'
<1>0. TypeOK BY DEF StructInv
<1>1. /\ InCheck(u) => CheckValue(u) \/ (CheckNum(u) /\ CheckPasses(u))
      /\ InCheck(u)' => CheckValue(u) \/ (CheckNum(u) /\ CheckPasses(u))
  BY <1>0, CommitMoves DEF InCheck
<1>2. CheckValue(u) \/ (CheckNum(u) /\ CheckPasses(u)) => InCheck(u) /\ InCheck(u)' /\ entries'[u] = entries[u]
  BY <1>0, NextAt DEF CheckValue, CheckNum, InCheck, TypeOK
<1>3. \A t \in Threads : InCheck(t)' <=> InCheck(t) BY <1>1, <1>2, OtherInCheck
<1>4. \A t \in Threads : InCheck(t) => entries'[t] = entries[t] BY <1>1, <1>2, OtherInCheck
<1>5. OpenCommits(c)'
  <2>1. OpenCommits(c) BY DEF LogInv
  <2>2. \A t : InCheck(t)' <=> (InCheck(t))' OBVIOUS
  <2>3. \A p \in DOMAIN c : c[p].state = "open" => InCheck(c[p].thread)' /\ c[p].entries = entries'[c[p].thread]
    BY <1>3, <1>4, <2>1 DEF OpenCommits
  <2>4. \A t \in Threads : InCheck(t)' => \E p \in DOMAIN c : c[p].state = "open" /\ c[p].thread = t
    BY <1>3, <2>1 DEF OpenCommits
  <2> QED BY <2>1, <2>3, <2>4 DEF OpenCommits
<1>6. OpenApart(c)' BY DEF LogInv, OpenApart
<1>7. OpenReads(c, Q)'
  <2> SUFFICES ASSUME NEW p \in DOMAIN c, c[p].state = "open", NEW k \in DOMAIN c[p].entries
               PROVE  Found(c, Q, p, k)'
    BY DEF OpenReads
  <2>1. Found(c, Q, p, k) /\ OpenCommits(c) BY DEF LogInv, OpenReads
  <2>2. PICK t \in Threads : t = c[p].thread OBVIOUS
  <2>3. c[p].entries = entries[t] /\ InCheck(t) BY <2>1, <2>2 DEF OpenCommits
  <2>4. CASE t = u
    <3>1. CheckValue(u) \/ (CheckNum(u) /\ CheckPasses(u)) BY <1>1, <2>3, <2>4
    <3> QED BY <2>1, <2>2, <2>3, <2>4, <3>1, QuietFound
  <2>5. CASE t # u
    <3>1. PICK x : x = entries[t][k] OBVIOUS
    <3> QED BY <2>1, <2>2, <2>3, <2>5, <3>1, OtherFound
  <2> QED BY <2>4, <2>5
<1>8. Matches(c, Q)'
  <2>1. \A v \in TVars : LogicalValue(v)' = LogicalValue(v) BY LogicalStep
  <2> QED BY <2>1 DEF LogInv, Matches
<1> QED BY <1>5, <1>6, <1>7, <1>8 DEF LogInv

\* The commit that the end of the acquisition adds to the history
NewCommit(u) == [thread |-> u, entries |-> entries[u], state |-> "open"]

\* l is c, of length n, with the commit r added; R the TVars after l, Q after c.
Appended(c, Q, n, l, R, r) ==
    /\ DOMAIN c = 1..n /\ Len(c) = n /\ DOMAIN l = 1..(n + 1) /\ Len(l) = n + 1
    /\ \A q \in 1..n : l[q] = c[q]
    /\ l[n + 1] = r
    /\ \A q \in 0..n : R[q] = Q[q]
    /\ R[n + 1] = Q[n]

\* The end of the acquisition preserves it: what u has locked has the value it has read.
LEMMA AppendLog ==
  ASSUME StructInv, StructInv', NumInv, AcquiredInv, NEW u \in Threads, Move(u), AcquireDone(u), mode[u] = "commit",
         NEW c, NEW Q, LogInv(c, Q), \A q \in DOMAIN c : c[q].thread \in Threads,
         NEW n \in Nat, NEW l, NEW R, Appended(c, Q, n, l, R, NewCommit(u))
  PROVE  LogInv(l, R)'
<1>0. TypeOK /\ Phase(u) BY DEF StructInv, Phases
<1>a. /\ DOMAIN c = 1..n /\ Len(c) = n /\ DOMAIN l = 1..(n + 1) /\ Len(l) = n + 1
      /\ \A q \in 1..n : l[q] = c[q]
      /\ l[n + 1] = NewCommit(u)
      /\ \A q \in 0..n : R[q] = Q[q]
      /\ R[n + 1] = Q[n]
  BY DEF Appended
<1>1. /\ pc[u] = "acquire" /\ ~More(u) /\ pc'[u] = "check" /\ idx'[u] = 1 /\ entries' = entries /\ num' = num
      /\ ~InCheck(u) /\ InCheck(u)'
  BY <1>0, GotoAt DEF AcquireDone, InCheck
<1>2. OpenCommits(c) /\ OpenApart(c) /\ OpenReads(c, Q) /\ Matches(c, Q) BY DEF LogInv
<1>3. \A t \in Threads \ {u} : InCheck(t)' <=> InCheck(t) BY OtherInCheck
<1>4. \A p \in DOMAIN c : c[p].state = "open" => c[p].thread \in Threads \ {u}
  BY <1>1, <1>2 DEF OpenCommits
<1>5. l[n + 1].thread = u /\ l[n + 1].entries = entries[u] /\ l[n + 1].state = "open"
  BY <1>a DEF NewCommit
<1>6. n + 1 \in DOMAIN l /\ \A p \in DOMAIN l : (p \in DOMAIN c /\ l[p] = c[p] /\ p <= n) \/ p = n + 1
  BY <1>a
<1>7. \A p \in DOMAIN c : p \in DOMAIN l /\ l[p] = c[p] BY <1>a
<1>8. OpenCommits(l)'
  <2>1. ASSUME NEW p \in DOMAIN l, l[p].state = "open"
        PROVE  InCheck(l[p].thread)' /\ l[p].entries = entries'[l[p].thread]
    <3>1. CASE p = n + 1 BY <1>1, <1>5, <3>1
    <3>2. CASE p \in DOMAIN c /\ l[p] = c[p]
      BY <1>1, <1>2, <1>3, <1>4, <2>1, <3>2 DEF OpenCommits
    <3> QED BY <1>6, <3>1, <3>2
  <2>2. ASSUME NEW p \in DOMAIN l, NEW q \in DOMAIN l, l[p].state = "open", l[q].state = "open", l[p].thread = l[q].thread
        PROVE p = q
    <3>1. \A a, b \in DOMAIN c : c[a].state = "open" /\ c[b].state = "open" /\ c[a].thread = c[b].thread => a = b
      BY <1>2 DEF OpenCommits
    <3> QED BY <1>4, <1>5, <1>6, <2>2, <3>1
  <2>3. ASSUME NEW t \in Threads, InCheck(t)'
        PROVE  \E p \in DOMAIN l : l[p].state = "open" /\ l[p].thread = t
    <3>1. CASE t = u BY <1>5, <1>6, <3>1
    <3>2. CASE t # u
      <4>1. PICK p \in DOMAIN c : c[p].state = "open" /\ c[p].thread = t
        BY <1>2, <1>3, <2>3, <3>2 DEF OpenCommits
      <4> QED BY <1>7, <4>1
    <3> QED BY <3>1, <3>2
  <2> QED BY <2>1, <2>2, <2>3 DEF OpenCommits
<1>9. OpenApart(l)'
  <2> SUFFICES ASSUME NEW p \in DOMAIN l, NEW q \in DOMAIN l, l[q].state = "open", q < p, l[p].state = "done", NEW v \in TVars
               PROVE  ~(Writes(l[q].entries, v) /\ Touches(l[p].entries, v))
    BY DEF OpenApart
  <2>1. p \in DOMAIN c /\ q \in DOMAIN c /\ l[p] = c[p] /\ l[q] = c[q] BY <1>a, <1>5, <1>6
  <2> QED BY <1>2, <2>1 DEF OpenApart
<1>10. OpenReads(l, R)'
  <2> SUFFICES ASSUME NEW p \in DOMAIN l, l[p].state = "open", NEW k \in DOMAIN l[p].entries
               PROVE  Found(l, R, p, k)'
    BY DEF OpenReads
  <2>1. CASE p \in DOMAIN c /\ l[p] = c[p] /\ p <= n
    <3>1. Found(c, Q, p, k) BY <1>2, <2>1 DEF OpenReads
    <3>2. PICK t \in Threads \ {u} : t = c[p].thread BY <1>4, <2>1
    <3>3. c[p].entries = entries[t] BY <1>2, <2>1, <3>2 DEF OpenCommits
    <3>4. PICK x : x = entries[t][k] OBVIOUS
    <3>5. R[p - 1] = Q[p - 1] BY <1>a, <2>1
    <3>6. Clean(c, Q, p, x) => Clean(l, R, p, x)
      <4>1. \A q \in DOMAIN l : q < p => q \in DOMAIN c /\ l[q] = c[q] BY <1>a, <2>1
      <4> QED BY <3>5, <4>1 DEF Clean
    <3>7. k \in DOMAIN entries[t] BY <2>1, <3>3
    <3>8. R[p - 1][x.tvar] = Q[p - 1][x.tvar] \/ (~IsUpdate(x) /\ Bumps(x.tvar, x.nu)') BY <3>5
    <3>9. c[p].thread = t /\ l[p] = c[p] BY <2>1, <3>2
    <3> QED BY <3>1, <3>3, <3>4, <3>6, <3>7, <3>8, <3>9, OtherFound
  <2>2. CASE p = n + 1
    <3>1. PICK x : x = entries[u][k] OBVIOUS
    <3>2. k \in DOMAIN entries[u] /\ l[p].entries[k] = x /\ l[p].thread = u BY <1>5, <2>2, <3>1
    <3>3. /\ x.tvar \in TVars /\ x.nu \in Nat /\ x.nu <= num[x.tvar] /\ x.exp \in Values
          /\ k \in 1..Len(entries[u]) /\ Len(entries[u]) \in Nat /\ idx[u] \in Nat
      BY <1>0, <3>1, <3>2, DomainOK DEF NumInv, NumOf, TypeOK
    <3>4. k < idx[u] BY <1>1, <3>3 DEF More
    <3>5. R[p - 1][x.tvar] = LogicalValue(x.tvar)
      <4>1. R[p - 1] = Q[n] BY <1>a, <2>2
      <4> QED BY <1>2, <1>a, <3>3, <4>1 DEF Matches
    <3>6. CASE IsUpdate(x)
      <4>1. Holds(u, k) BY <1>1, <3>1, <3>4, <3>6 DEF Holds
      <4>2. cur[x.tvar] = u BY <3>1, <3>2, <4>1 DEF StructInv, LocksHeld
      <4>3. EntryOf(u, x.tvar) = x BY <1>0, <3>1, <3>2, EntryForIs DEF StructInv
      <4>4. LogicalValue(x.tvar) = x.exp
        BY <1>1, <4>2, <4>3 DEF LogicalValue, HeldValue, Committing
      <4> QED BY <3>2, <3>5, <3>6, <4>4 DEF Found
    <3>7. CASE ~IsUpdate(x)
      <4>1. Tells(x.tvar, x.nu, x.exp)
        BY <1>1, <3>1, <3>2, <3>4, <3>7 DEF AcquiredInv, AcquiredOf
      <4>2. Bumps(x.tvar, x.nu)' \/ R[p - 1][x.tvar] = x.exp
        <5>1. ASSUME NEW v \in TVars, NEW m \in Nat, m <= num[v], Bumps(v, m) PROVE Bumps(v, m)'
          BY <5>1, BumpsStep
        <5> QED BY <3>3, <3>5, <4>1, <5>1 DEF Tells
      <4>3. ~(k < idx'[u]) BY <1>1, <3>3
      <4>4. Reads(l, R, p, x, k, u)' BY <1>1, <4>2, <4>3 DEF Reads
      <4> QED BY <3>2, <3>7, <4>4 DEF Found
    <3> QED BY <3>6, <3>7
  <2> QED BY <1>6, <2>1, <2>2
<1>11. Matches(l, R)'
  <2>1. ~CheckDone(u) BY <1>1 DEF CheckDone
  <2>2. \A v \in TVars : LogicalValue(v)' = LogicalValue(v) BY <2>1, LogicalStep
  <2> QED BY <1>2, <1>a, <2>2 DEF Matches
<1> QED BY <1>8, <1>9, <1>10, <1>11 DEF LogInv

\* l is c with the open commit p resolved.
Outcome(c, l, p, s) ==
    /\ DOMAIN l = DOMAIN c /\ Len(l) = Len(c)
    /\ \A q \in DOMAIN c : q # p => l[q] = c[q]
    /\ c[p].state = "open" /\ l[p].state = s /\ l[p].thread = c[p].thread /\ l[p].entries = c[p].entries

\* The other open commits are then those that were.
LEMMA OutcomeCommits ==
  ASSUME StructInv, NEW u \in Threads, Move(u), ~InCheck(u)', NEW c, NEW l, NEW p \in DOMAIN c, NEW s, s # "open",
         Outcome(c, l, p, s), c[p].thread = u, OpenCommits(c), \A q \in DOMAIN c : c[q].thread \in Threads
  PROVE  /\ OpenCommits(l)'
         /\ \A q \in DOMAIN l : l[q].state = "open" => /\ q # p /\ l[q] = c[q] /\ c[q].thread \in Threads \ {u}
<1>1. \A q \in DOMAIN l : l[q].state = "open" => q # p /\ l[q] = c[q] BY DEF Outcome
<1>2. \A a, b \in DOMAIN c : c[a].state = "open" /\ c[b].state = "open" /\ c[a].thread = c[b].thread => a = b
  BY DEF OpenCommits
<1>3. \A q \in DOMAIN l : l[q].state = "open" => c[q].thread \in Threads \ {u}
  BY <1>1, <1>2 DEF Outcome
<1>4. \A t \in Threads \ {u} : (InCheck(t)' <=> InCheck(t)) /\ entries'[t] = entries[t]
  BY OtherInCheck
<1>5. \A q \in DOMAIN l : l[q].state = "open" => InCheck(l[q].thread)' /\ l[q].entries = entries'[l[q].thread]
  BY <1>1, <1>3, <1>4 DEF OpenCommits, Outcome
<1>6. \A q, r \in DOMAIN l : l[q].state = "open" /\ l[r].state = "open" /\ l[q].thread = l[r].thread => q = r
  BY <1>1, <1>2 DEF Outcome
<1>7. ASSUME NEW t \in Threads, InCheck(t)'
      PROVE  \E q \in DOMAIN l : l[q].state = "open" /\ l[q].thread = t
  <2>1. t # u BY <1>7
  <2>2. PICK q \in DOMAIN c : c[q].state = "open" /\ c[q].thread = t
    BY <1>4, <1>7, <2>1 DEF OpenCommits
  <2>3. q # p BY <2>1, <2>2
  <2> QED BY <2>2, <2>3 DEF Outcome
<1> QED BY <1>1, <1>3, <1>5, <1>6, <1>7 DEF OpenCommits

\* A commit that fails preserves the invariant: it never had an effect.
LEMMA FailLog ==
  ASSUME StructInv, StructInv', NumInv, NEW u \in Threads, Move(u), CheckNum(u), ~CheckPasses(u),
         NEW c, NEW Q, LogInv(c, Q), \A q \in DOMAIN c : c[q].thread \in Threads,
         NEW l, NEW p \in DOMAIN c, Outcome(c, l, p, "failed"), c[p].thread = u
  PROVE  LogInv(l, Q)'
<1>0. TypeOK BY DEF StructInv
<1>1. ~InCheck(u)' BY <1>0, FailAt DEF CheckNum, InCheck
<1>2. OpenCommits(c) /\ OpenApart(c) /\ OpenReads(c, Q) /\ Matches(c, Q) BY DEF LogInv
<1>3. /\ OpenCommits(l)'
      /\ \A q \in DOMAIN l : l[q].state = "open" => q # p /\ l[q] = c[q] /\ c[q].thread \in Threads \ {u}
  BY <1>1, <1>2, OutcomeCommits
<1>4. OpenApart(l)'
  <2>1. \A q \in DOMAIN l : l[q].state = "done" => l[q] = c[q] BY DEF Outcome
  <2> QED BY <1>2, <1>3, <2>1 DEF OpenApart, Outcome
<1>5. OpenReads(l, Q)'
  <2> SUFFICES ASSUME NEW q \in DOMAIN l, l[q].state = "open", NEW k \in DOMAIN l[q].entries
               PROVE  Found(l, Q, q, k)'
    BY DEF OpenReads
  <2>1. q \in DOMAIN c /\ l[q] = c[q] /\ Found(c, Q, q, k) BY <1>2, <1>3 DEF OpenReads, Outcome
  <2>2. PICK t \in Threads \ {u} : t = c[q].thread BY <1>3
  <2>3. c[q].entries = entries[t] BY <1>2, <2>1, <2>2 DEF OpenCommits
  <2>4. PICK x : x = entries[t][k] OBVIOUS
  <2>5. Clean(c, Q, q, x) => Clean(l, Q, q, x) BY <1>3 DEF Clean, Outcome
  <2>6. k \in DOMAIN entries[t] /\ c[q].thread = t BY <2>1, <2>2, <2>3
  <2> QED BY <2>1, <2>3, <2>4, <2>5, <2>6, OtherFound
<1>6. Matches(l, Q)'
  <2>1. ~CheckDone(u) BY DEF CheckNum, CheckDone
  <2>2. \A v \in TVars : LogicalValue(v)' = LogicalValue(v) BY <2>1, LogicalStep
  <2> QED BY <1>2, <2>2 DEF Matches, Outcome
<1> QED BY <1>3, <1>4, <1>5, <1>6 DEF LogInv

\* The types of a commit in the history
LEMMA RecordOK ==
  ASSUME NEW c \in Seq(Record), NEW p \in DOMAIN c
  PROVE  /\ DOMAIN c = 1..Len(c) /\ Len(c) \in Nat /\ c[p].thread \in Threads
         /\ \A k \in DOMAIN c[p].entries : c[p].entries[k].tvar \in TVars
<1>1. c[p] \in Record /\ DOMAIN c = 1..Len(c) /\ Len(c) \in Nat OBVIOUS
<1>2. c[p].thread \in Threads /\ c[p].entries \in Seq(Entry) BY <1>1 DEF Record
<1>3. \A k \in DOMAIN c[p].entries : c[p].entries[k] \in Entry BY <1>2
<1> QED BY <1>1, <1>2, <1>3 DEF Entry

\* A commit that comes to the end of check_read_only has found what it had read.
LEMMA CertainReads ==
  ASSUME StructInv, NEW u \in Threads, CheckDone(u), NEW c \in Seq(Record), NEW Q, LogInv(c, Q),
         NEW p \in DOMAIN c, c[p].state = "open", c[p].thread = u
  PROVE  /\ c[p].entries = entries[u]
         /\ \A k \in DOMAIN entries[u] : /\ Q[p - 1][entries[u][k].tvar] = entries[u][k].exp
                                         /\ IsUpdate(entries[u][k]) \/ Clean(c, Q, p, entries[u][k])
<1>1. c[p].entries = entries[u] BY DEF LogInv, OpenCommits
<1>2. SUFFICES ASSUME NEW k \in DOMAIN entries[u]
      PROVE  /\ Q[p - 1][entries[u][k].tvar] = entries[u][k].exp
             /\ IsUpdate(entries[u][k]) \/ Clean(c, Q, p, entries[u][k])
  BY <1>1
<1>3. PICK x : x = entries[u][k] OBVIOUS
<1>4. Found(c, Q, p, k) /\ c[p].entries[k] = x BY <1>1, <1>3 DEF LogInv, OpenReads
<1>5. k < idx[u]
  <2>1. k \in 1..Len(entries[u]) /\ Len(entries[u]) \in Nat /\ idx[u] \in Nat
    BY DomainOK DEF StructInv, TypeOK
  <2> QED BY <2>1 DEF CheckDone, More
<1>6. CASE IsUpdate(x) BY <1>3, <1>4, <1>6 DEF Found
<1>7. CASE ~IsUpdate(x)
  <2>1. Clean(c, Q, p, x) BY <1>4, <1>5, <1>7 DEF Found, Reads
  <2> QED BY <1>3, <2>1 DEF Clean
<1> QED BY <1>6, <1>7

\* What it means for the replay that the commit p with the log es is certain
Effect(c, Q, R, p, es) ==
    /\ \A i \in 0..(p - 1) : R[i] = Q[i]
    /\ \A i \in 0..Len(c) : \A v \in TVars : ~Writes(es, v) => R[i][v] = Q[i][v]
    /\ \A i \in p..Len(c) : \A k \in DOMAIN es : IsUpdate(es[k]) => R[i][es[k].tvar] = es[k].new

\* The end of check_read_only has this effect.
LEMMA CertainEffect ==
  ASSUME StructInv, NEW u \in Threads, CheckDone(u), NEW m, NEW c \in Seq(Record), LogInv(c, Replay(m, c)),
         NEW l, NEW p \in DOMAIN c, Outcome(c, l, p, "done"), c[p].thread = u
  PROVE  Effect(c, Replay(m, c), Replay(m, l), p, entries[u])
<1> DEFINE Q == Replay(m, c)
           es == entries[u]
<1>1. LogInv(c, Q) OBVIOUS
<1>2. TypeOK BY DEF StructInv
<1>3. DOMAIN c = 1..Len(c) /\ Len(c) \in Nat /\ Len(l) = Len(c) /\ p \in 1..Len(c)
  BY RecordOK DEF Outcome
<1>4. c[p].state = "open" /\ l[p].state = "done" /\ l[p].entries = c[p].entries BY DEF Outcome
<1>5. /\ c[p].entries = es
      /\ \A k \in DOMAIN es : Q[p - 1][es[k].tvar] = es[k].exp
  <2> HIDE DEF Q
  <2> QED BY <1>1, <1>4, CertainReads
<1>6. \A k, j \in DOMAIN es : es[k].tvar = es[j].tvar => k = j BY DEF StructInv, OneEntryEach
<1>7. \A k \in DOMAIN es : es[k].tvar \in TVars BY <1>2, DomainOK
<1>8. ASSUME NEW q \in 1..Len(c), q > p, c[q].state = "done", NEW j \in DOMAIN c[q].entries
      PROVE  ~Writes(es, c[q].entries[j].tvar)
  <2> DEFINE v == c[q].entries[j].tvar
  <2>1. v \in TVars /\ q \in DOMAIN c BY <1>3, <1>8, RecordOK
  <2>2. Touches(c[q].entries, v) BY <1>8 DEF Touches
  <2>3. OpenApart(c) BY DEF LogInv
  <2>4. ~Writes(c[p].entries, v)
    <3> HIDE DEF v
    <3> QED BY <1>4, <1>8, <2>1, <2>2, <2>3 DEF OpenApart
  <2> QED BY <1>5, <2>4
<1>9. \A q \in 1..Len(c) : q # p => l[q] = c[q] BY <1>3 DEF Outcome
<1>10. ResolvedAt(m, c, l, p, es)
  <2> HIDE DEF es
  <2> QED BY <1>4, <1>5, <1>6, <1>7, <1>8, <1>9 DEF ResolvedAt
<1>11. PICK es1 : es1 = es OBVIOUS
<1>12. ResolvedAt(m, c, l, p, es1) BY <1>10, <1>11
<1>13. Effect(c, Replay(m, c), Replay(m, l), p, es1)
  <2> HIDE DEF es, Q
  <2> QED BY <1>3, <1>12, ReplayResolved DEF Effect
<1> QED BY <1>11, <1>13

\* A commit that becomes certain preserves the invariant: two open commits do not
\* write the same TVar, and who has read what it writes will notice.
LEMMA DoneLog ==
  ASSUME StructInv, StructInv', NumInv, NEW u \in Threads, Move(u), CheckDone(u),
         NEW c \in Seq(Record), NEW Q, LogInv(c, Q), \A q \in DOMAIN c : c[q].thread \in Threads,
         NEW l, NEW R, NEW p \in DOMAIN c, Outcome(c, l, p, "done"), c[p].thread = u,
         Effect(c, Q, R, p, entries[u])
  PROVE  LogInv(l, R)'
<1>0. TypeOK /\ DOMAIN c = 1..Len(c) /\ Len(c) \in Nat BY RecordOK DEF StructInv
<1>1. /\ ~InCheck(u)' /\ InCheck(u) /\ pc[u] = "check" /\ pc'[u] = "write" /\ entries' = entries /\ cur' = cur
  BY <1>0, GotoAt DEF CheckDone, InCheck
<1>2. OpenCommits(c) /\ OpenApart(c) /\ OpenReads(c, Q) /\ Matches(c, Q) BY DEF LogInv
<1>3. /\ OpenCommits(l)'
      /\ \A q \in DOMAIN l : l[q].state = "open" => q # p /\ l[q] = c[q] /\ c[q].thread \in Threads \ {u}
  BY <1>1, <1>2, OutcomeCommits
<1>4. /\ c[p].entries = entries[u]
      /\ \A k \in DOMAIN entries[u] : IsUpdate(entries[u][k]) \/ Clean(c, Q, p, entries[u][k])
  BY CertainReads DEF Outcome
<1>5. DOMAIN l = DOMAIN c /\ Len(l) = Len(c) /\ l[p].entries = entries[u] /\ l[p].state = "done" /\ c[p].state = "open"
  BY <1>4 DEF Outcome
\* Two open commits do not write the same TVar.
<1>6. ASSUME NEW q \in DOMAIN l, l[q].state = "open", NEW v, Writes(l[q].entries, v)
      PROVE  ~Writes(entries[u], v)
  <2>1. PICK t \in Threads \ {u} : t = c[q].thread BY <1>3, <1>6
  <2>2. InCheck(t) /\ l[q].entries = entries[t] BY <1>2, <1>3, <1>5, <1>6, <2>1 DEF OpenCommits
  <2>3. cur[v] = t BY <1>6, <2>2, OpenHolds
  <2> QED BY <1>1, <2>3, OpenHolds
<1>7. OpenApart(l)'
  <2> SUFFICES ASSUME NEW q1 \in DOMAIN l, NEW q \in DOMAIN l, l[q].state = "open", q < q1, l[q1].state = "done", NEW v \in TVars
               PROVE  ~(Writes(l[q].entries, v) /\ Touches(l[q1].entries, v))
    BY DEF OpenApart
  <2>1. CASE q1 = p
    <3> SUFFICES ASSUME Writes(l[q].entries, v), NEW k \in DOMAIN entries[u], entries[u][k].tvar = v
                 PROVE  FALSE
      BY <1>5, <2>1 DEF Touches
    <3>1. ~IsUpdate(entries[u][k]) BY <1>6 DEF Writes
    <3>2. Clean(c, Q, p, entries[u][k]) BY <1>4, <3>1
    <3> QED BY <1>3, <1>5, <2>1, <3>2 DEF Clean
  <2>2. CASE q1 # p
    <3>1. l[q1] = c[q1] /\ l[q] = c[q] BY <1>3, <1>5, <2>2 DEF Outcome
    <3> QED BY <1>2, <1>5, <3>1 DEF OpenApart
  <2> QED BY <2>1, <2>2
<1>8. OpenReads(l, R)'
  <2> SUFFICES ASSUME NEW q \in DOMAIN l, l[q].state = "open", NEW k \in DOMAIN l[q].entries
               PROVE  Found(l, R, q, k)'
    BY DEF OpenReads
  <2>1. q \in DOMAIN c /\ l[q] = c[q] /\ q # p BY <1>3, <1>5
  <2>2. Found(c, Q, q, k) BY <1>2, <2>1 DEF OpenReads
  <2>3. PICK t \in Threads \ {u} : t = c[q].thread BY <1>3
  <2>4. c[q].entries = entries[t] BY <1>2, <2>1, <2>3 DEF OpenCommits
  <2>5. PICK x : x = entries[t][k] OBVIOUS
  <2>6. k \in DOMAIN entries[t] /\ x.tvar \in TVars /\ q - 1 \in 0..Len(c)
    BY <1>0, <2>1, <2>4, <2>5, DomainOK
  <2>7. ~Writes(entries[u], x.tvar) => R[q - 1][x.tvar] = Q[q - 1][x.tvar] BY <2>6 DEF Effect
  <2>8. Clean(c, Q, q, x) => Clean(l, R, q, x)
    <3> SUFFICES ASSUME Clean(c, Q, q, x) PROVE Clean(l, R, q, x) OBVIOUS
    <3>1. CASE q < p
      <4>1. q - 1 \in 0..(p - 1) BY <1>0, <2>1, <3>1
      <4>2. R[q - 1] = Q[q - 1] BY <4>1 DEF Effect
      <4> QED BY <1>3, <1>5, <4>2 DEF Clean
    <3>2. CASE p < q
      <4>1. ~Writes(entries[u], x.tvar) BY <1>4, <1>5, <3>2 DEF Clean
      <4> QED BY <1>3, <1>5, <2>7, <4>1 DEF Clean
    <3> QED BY <1>0, <2>1, <3>1, <3>2
  <2>9. R[q - 1][x.tvar] = Q[q - 1][x.tvar] \/ (~IsUpdate(x) /\ Bumps(x.tvar, x.nu)')
    <3>1. CASE Writes(entries[u], x.tvar)
      <4>1. cur[x.tvar] = u BY <1>1, <3>1, OpenHolds
      <4>2. Bumps(x.tvar, x.nu)' BY <1>1, <4>1 DEF Bumps, Committing
      <4>3. ~IsUpdate(x)
        <5> SUFFICES ASSUME IsUpdate(x) PROVE FALSE OBVIOUS
        <5>1. Writes(l[q].entries, x.tvar) BY <2>1, <2>4, <2>5, <2>6 DEF Writes
        <5> QED BY <1>6, <3>1, <5>1
      <4> QED BY <4>2, <4>3
    <3>2. CASE ~Writes(entries[u], x.tvar) BY <2>7, <3>2
    <3> QED BY <3>1, <3>2
  <2>10. c[q].thread = t BY <2>3
  <2> QED BY <2>1, <2>2, <2>4, <2>5, <2>6, <2>8, <2>9, <2>10, OtherFound
<1>9. Matches(l, R)'
  <2> SUFFICES ASSUME NEW v \in TVars PROVE R[Len(c)][v] = LogicalValue(v)'
    BY <1>5 DEF Matches
  <2>1. CASE cur[v] = u
    <3>1. PICK k \in DOMAIN entries[u] : /\ entries[u][k].tvar = v
                                         /\ Holds(u, k) \/ MayHold(u, k)
                                         /\ EntryFor(u, v) = k /\ EntryOf(u, v) = entries[u][k]
      BY <2>1, LockEntry
    <3>2. IsUpdate(entries[u][k]) BY <1>1, <3>1 DEF Holds, MayHold, Committing
    <3>3. EntryOf(u, v)' = entries[u][k] BY <1>1, <3>1 DEF EntryOf, EntryFor
    <3>4. LogicalValue(v)' = entries[u][k].new
      BY <1>1, <2>1, <3>3 DEF LogicalValue, HeldValue, Committing
    <3>5. Len(c) \in p..Len(c) BY <1>0
    <3>6. R[Len(c)][v] = entries[u][k].new BY <3>1, <3>2, <3>5 DEF Effect
    <3> QED BY <3>4, <3>6
  <2>2. CASE cur[v] # u
    <3>1. LogicalValue(v)' = LogicalValue(v) BY <2>2, LogicalStep
    <3>2. ~Writes(entries[u], v) BY <1>1, <2>2, OpenHolds
    <3>3. Len(c) \in 0..Len(c) BY <1>0
    <3>4. R[Len(c)][v] = Q[Len(c)][v] BY <3>2, <3>3 DEF Effect
    <3> QED BY <1>2, <3>1, <3>4 DEF Matches
  <2> QED BY <2>1, <2>2
<1> QED BY <1>3, <1>7, <1>8, <1>9 DEF LogInv

\* The certain commits still find what they have read.
LEMMA DoneMatch ==
  ASSUME StructInv, NEW u \in Threads, CheckDone(u), NEW m, NEW c \in Seq(Record), LogInv(c, Replay(m, c)),
         NEW l, NEW p \in DOMAIN c, Outcome(c, l, p, "done"), c[p].thread = u, ReadsMatch(m, c)
  PROVE  ReadsMatch(m, l)
<1>1. PICK Q : Q = Replay(m, c) OBVIOUS
<1>2. PICK R : R = Replay(m, l) OBVIOUS
<1>3. Effect(c, Q, R, p, entries[u]) BY <1>1, <1>2, CertainEffect
<1>4. LogInv(c, Q) BY <1>1
<1>5. /\ c[p].entries = entries[u]
      /\ \A k \in DOMAIN entries[u] : Q[p - 1][entries[u][k].tvar] = entries[u][k].exp
  BY <1>4, CertainReads DEF Outcome
<1>6. DOMAIN c = 1..Len(c) /\ Len(c) \in Nat /\ DOMAIN l = DOMAIN c BY RecordOK DEF Outcome
<1>7. SUFFICES ASSUME NEW i \in DOMAIN l, l[i].state = "done", NEW k \in DOMAIN l[i].entries
      PROVE  R[i - 1][l[i].entries[k].tvar] = l[i].entries[k].exp
  BY <1>2 DEF ReadsMatch
<1>8. CASE i = p
  <2>1. l[i].entries = entries[u] BY <1>5, <1>8 DEF Outcome
  <2>2. i - 1 \in 0..(p - 1) BY <1>6, <1>8
  <2>3. R[i - 1] = Q[i - 1] BY <1>3, <2>2 DEF Effect
  <2> QED BY <1>5, <1>7, <1>8, <2>1, <2>3
<1>9. CASE i # p
  <2>1. l[i] = c[i] /\ i \in DOMAIN c /\ c[i].state = "done" BY <1>6, <1>7, <1>9 DEF Outcome
  <2> DEFINE v == c[i].entries[k].tvar
  <2>2. Q[i - 1][v] = c[i].entries[k].exp /\ v \in TVars
    BY <1>1, <1>7, <2>1, RecordOK DEF ReadsMatch
  <2>3. CASE i < p
    <3>1. i - 1 \in 0..(p - 1) BY <1>6, <2>3
    <3>2. R[i - 1] = Q[i - 1] BY <1>3, <3>1 DEF Effect
    <3> QED BY <2>1, <2>2, <3>2
  <2>4. CASE p < i
    <3>1. Touches(c[i].entries, v) BY <1>7, <2>1 DEF Touches
    <3>2. OpenApart(c) /\ c[p].state = "open" BY <1>4 DEF LogInv, Outcome
    <3>3. ~Writes(entries[u], v)
      <4> HIDE DEF v
      <4> QED BY <1>5, <2>1, <2>2, <2>4, <3>1, <3>2 DEF OpenApart
    <3>4. i - 1 \in 0..Len(c) BY <1>6
    <3>5. R[i - 1][v] = Q[i - 1][v]
      <4> HIDE DEF v
      <4> QED BY <1>3, <2>2, <3>3, <3>4 DEF Effect
    <3> QED BY <2>1, <2>2, <3>5
  <2> QED BY <1>6, <1>9, <2>3, <2>4
<1> QED BY <1>8, <1>9

\* Resolved resolves the one open commit of the thread.
LEMMA ResolvedIs ==
  ASSUME log \in Seq(Record), OpenCommits(log), NEW u \in Threads, InCheck(u), NEW s \in {"done", "failed"}
  PROVE  /\ Resolved(u, s) \in Seq(Record)
         /\ \E p \in DOMAIN log : Outcome(log, Resolved(u, s), p, s) /\ log[p].thread = u
<1> DEFINE l == Resolved(u, s)
<1>1. PICK p \in DOMAIN log : log[p].state = "open" /\ log[p].thread = u BY DEF OpenCommits
<1>2. \A q \in DOMAIN log : log[q].thread = u /\ log[q].state = "open" => q = p
  BY <1>1 DEF OpenCommits
<1>3. \A q \in DOMAIN log : log[q] \in Record OBVIOUS
<1>4. \A q \in DOMAIN log : l[q] = IF log[q].thread = u /\ log[q].state = "open"
                                   THEN [log[q] EXCEPT !.state = s] ELSE log[q]
  BY DEF Resolved
<1>5. l = [q \in DOMAIN log |-> l[q]] BY DEF Resolved
<1> HIDE DEF l
<1>6. l[p] = [log[p] EXCEPT !.state = s] /\ \A q \in DOMAIN log : q # p => l[q] = log[q]
  BY <1>1, <1>2, <1>4
<1>7. l[p].state = s /\ l[p].thread = log[p].thread /\ l[p].entries = log[p].entries /\ l[p] \in Record
  BY <1>3, <1>6 DEF Record
<1>8. DOMAIN log = 1..Len(log) /\ Len(log) \in Nat OBVIOUS
<1>9. \A q \in 1..Len(log) : l[q] \in Record BY <1>3, <1>6, <1>7, <1>8
<1>10. l \in Seq(Record) /\ Len(l) = Len(log) /\ DOMAIN l = DOMAIN log BY <1>5, <1>8, <1>9
<1>11. Outcome(log, l, p, s) BY <1>1, <1>6, <1>7, <1>10 DEF Outcome
<1> QED BY <1>1, <1>10, <1>11 DEF l

\* The inductive invariant
SerialInv ==
    /\ log \in Seq(Record)
    /\ NumInv
    /\ AcquiredInv
    /\ serial /\ ReadsMatch(mem, log)
    /\ LogInv(log, Replay(mem, log))

\* The invariant about the history, for the one a step leaves behind
LEMMA LogInvNext ==
  ASSUME NEW d, NEW Q, d = log', Q = Replay(mem, log)', LogInv(d, Q)'
  PROVE  LogInv(log, Replay(mem, log))'
<1>1. OpenCommits(log)' BY DEF LogInv, OpenCommits, InCheck
<1>2. OpenApart(log)' BY DEF LogInv, OpenApart, Writes, Touches, IsUpdate
<1>3. OpenReads(log, Replay(mem, log))'
  BY DEF LogInv, OpenReads, Found, Reads, Clean, Writes, IsUpdate, Bumps, Committing, e
<1>4. Matches(log, Replay(mem, log))' BY DEF LogInv, Matches
<1> QED BY <1>1, <1>2, <1>3, <1>4 DEF LogInv

\* Settle preserves the invariant.
LEMMA SettleStep ==
  ASSUME NEW l \in Seq(Record), Settle(l), serial, ReadsMatch(mem, l), NEW R, R = Replay(mem, l), LogInv(l, R)'
  PROVE  /\ log' \in Seq(Record) /\ serial' /\ ReadsMatch(mem, log)'
         /\ LogInv(log, Replay(mem, log))'
<1>1. PICK n \in 0..Len(l) :
            /\ \A i \in 1..n : l[i].state # "open"
            /\ log' \in Seq(Record) /\ Len(log') = Len(l) - n
            /\ \A i \in 1..Len(log') : log'[i] = l[n + i]
            /\ \A i \in 0..Len(log') : Replay(mem, log)'[i] = Replay(mem, l)[n + i]
            /\ serial /\ ReadsMatch(mem, l) => serial' /\ ReadsMatch(mem, log)'
  BY Settled
<1>2. PICK d : d = log' OBVIOUS
<1>3. PICK Q : Q = Replay(mem, log)' OBVIOUS
<1>4. d \in Seq(Record) /\ Shifted(l, R, d, Q, n) BY <1>1, <1>2, <1>3 DEF Shifted
<1>5. LogInv(d, Q)' BY <1>4, ShiftInv
<1> QED BY <1>1, <1>2, <1>3, <1>5, LogInvNext

\* Replay and ReadsMatch after a step
LEMMA ReplayNext == \A m, c : m = mem' /\ c = log' => Replay(mem, log)' = Replay(m, c)
BY DEF Replay, Applied

\* ReadsMatch after a step
LEMMA MatchNext == \A m, c : m = mem' /\ c = log' => (ReadsMatch(mem, log)' <=> ReadsMatch(m, c))
BY ReplayNext DEF ReadsMatch

\* Every step of a thread preserves the inductive invariant.
LEMMA SerialMove ==
  ASSUME StructInv, StructInv', SerialInv, NEW u \in Threads, Move(u)
  PROVE  SerialInv'
<1> USE DEF SerialInv
<1>0. TypeOK BY DEF StructInv
<1>1. NumInv' BY NumOfStep DEF NumInv
<1>2. AcquiredInv'
  <2>1. \A t \in Threads : AcquiredOf(t)' BY AcquiredStep DEF NumInv, AcquiredInv
  <2> QED BY <2>1 DEF AcquiredInv
<1>3. PICK c : c = log OBVIOUS
<1>4. PICK m : m = mem OBVIOUS
<1>5. PICK Q : Q = Replay(m, c) OBVIOUS
<1>6. c \in Seq(Record) /\ LogInv(c, Q) /\ \A q \in DOMAIN c : c[q].thread \in Threads
  BY <1>3, <1>4, <1>5, RecordOK
<1>7. CASE UNCHANGED hist /\ ~CheckDone(u) /\ (CheckNum(u) => CheckPasses(u)) /\ ~(AcquireDone(u) /\ mode[u] = "commit")
  <2>1. LogInv(c, Q)' BY <1>6, <1>7, QuietLog
  <2>2. log' = c /\ mem' = m /\ serial' BY <1>3, <1>4, <1>7 DEF hist
  <2>3. Q = Replay(mem, log)' BY <1>5, <2>2, ReplayNext
  <2>4. LogInv(log, Replay(mem, log))' BY <2>1, <2>2, <2>3, LogInvNext
  <2>5. ReadsMatch(mem, log)' BY <1>3, <1>4, <2>2, MatchNext
  <2> QED BY <1>1, <1>2, <1>6, <2>2, <2>4, <2>5
<1>8. CASE AcquireDone(u) /\ mode[u] = "commit"
  <2>1. PICK r : r = NewCommit(u) OBVIOUS
  <2>2. PICK l : l = Append(c, r) OBVIOUS
  <2>3. PICK R : R = Replay(m, l) OBVIOUS
  <2>4. log' = l /\ mem' = m /\ serial' = serial
    BY <1>3, <1>4, <1>8, <2>1, <2>2 DEF AcquireDone, NewCommit
  <2>5. r \in Record /\ r.state = "open" BY <1>0, <2>1 DEF NewCommit, Record, TypeOK
  <2>6. PICK n \in Nat : n = Len(c) /\ DOMAIN c = 1..n BY <1>6
  <2>7. l \in Seq(Record) /\ DOMAIN l = 1..(n + 1) /\ Len(l) = n + 1 /\ (\A q \in 1..n : l[q] = c[q]) /\ l[n + 1] = r
    BY <1>6, <2>2, <2>5, <2>6
  <2>8. \A q \in 0..n : R[q] = Q[q]
    <3>1. SameEffect(l, c, n) BY <2>7 DEF SameEffect
    <3>2. Len(l) \in Nat /\ Len(c) \in Nat /\ n <= Len(l) /\ n <= Len(c) BY <2>6, <2>7
    <3> QED BY <1>5, <2>3, <3>1, <3>2, ReplayAgree
  <2>9. R[n + 1] = Q[n]
    <3>1. n + 1 \in 1..Len(l) /\ (n + 1) - 1 = n /\ Len(l) \in Nat /\ n \in 0..n BY <2>7
    <3>2. R[n + 1] = Applied(l[n + 1], R[(n + 1) - 1]) BY <2>3, <3>1, ReplayStep
    <3>3. R[n + 1] = Applied(r, R[n]) BY <2>7, <3>1, <3>2
    <3>4. Applied(r, R[n]) = R[n] BY <2>5, AppliedOpen
    <3> QED BY <2>8, <3>1, <3>3, <3>4
  <2>10. LogInv(l, R)'
    <3>1. Appended(c, Q, n, l, R, NewCommit(u)) BY <2>1, <2>6, <2>7, <2>8, <2>9 DEF Appended
    <3> QED BY <1>6, <1>8, <3>1, AppendLog
  <2>11. R = Replay(mem, log)' BY <2>3, <2>4, ReplayNext
  <2>12. LogInv(log, Replay(mem, log))' BY <2>4, <2>10, <2>11, LogInvNext
  <2>13. ReadsMatch(m, l)
    <3> SUFFICES ASSUME NEW i \in DOMAIN l, l[i].state = "done", NEW k \in DOMAIN l[i].entries
                 PROVE  R[i - 1][l[i].entries[k].tvar] = l[i].entries[k].exp
      BY <2>3 DEF ReadsMatch
    <3>1. i \in 1..n /\ l[i] = c[i] /\ i - 1 \in 0..n BY <2>5, <2>7
    <3> QED BY <1>3, <1>4, <1>5, <2>6, <2>8, <3>1 DEF ReadsMatch
  <2>14. ReadsMatch(mem, log)' BY <2>4, <2>13, MatchNext
  <2> QED BY <1>1, <1>2, <2>4, <2>7, <2>12, <2>14
<1>9. CASE CheckNum(u) /\ ~CheckPasses(u)
  <2>1. InCheck(u) /\ Settle(Resolved(u, "failed")) BY <1>9 DEF CheckNum, InCheck
  <2>2. PICK l : l = Resolved(u, "failed") OBVIOUS
  <2>3. OpenCommits(c) BY <1>6 DEF LogInv
  <2>4. l \in Seq(Record) /\ \E p \in DOMAIN c : Outcome(c, l, p, "failed") /\ c[p].thread = u
    BY <1>3, <2>1, <2>2, <2>3, ResolvedIs
  <2>5. PICK p \in DOMAIN c : Outcome(c, l, p, "failed") /\ c[p].thread = u BY <2>4
  <2>6. LogInv(l, Q)' BY <1>6, <1>9, <2>5, FailLog
  <2>7. Len(l) = Len(c) /\ Len(c) \in Nat /\ DOMAIN c = 1..Len(c) /\ DOMAIN l = DOMAIN c
    BY <1>6, <2>5 DEF Outcome
  <2>8. \A i \in 0..Len(l) : Replay(m, l)[i] = Q[i]
    <3>1. SameEffect(l, c, Len(l))
      <4> SUFFICES ASSUME NEW i \in 1..Len(l), NEW x PROVE Applied(l[i], x) = Applied(c[i], x)
        BY DEF SameEffect
      <4>1. CASE i = p
        BY <2>5, <4>1, AppliedOpen DEF Outcome
      <4>2. CASE i # p
        BY <2>5, <2>7, <4>2 DEF Outcome
      <4> QED BY <4>1, <4>2
    <3> QED BY <1>5, <2>7, <3>1, ReplayAgree
  <2>9. PICK R : R = Replay(m, l) OBVIOUS
  <2>10. LogInv(l, R)'
    <3>1. \A i \in 1..0 : l[i].state # "open" OBVIOUS
    <3>2. Len(l) = Len(l) - 0 /\ \A i \in 1..Len(l) : l[i] = l[0 + i] BY <2>7
    <3>3. \A i \in 0..Len(l) : R[i] = Q[0 + i] BY <2>7, <2>8, <2>9
    <3>4. Shifted(l, Q, l, R, 0) BY <3>1, <3>2, <3>3 DEF Shifted
    <3>5. 0 \in 0..Len(l) BY <2>7
    <3> QED BY <2>4, <2>6, <3>4, <3>5, ShiftInv
  <2>11. ReadsMatch(m, l)
    <3> SUFFICES ASSUME NEW i \in DOMAIN l, l[i].state = "done", NEW k \in DOMAIN l[i].entries
                 PROVE  R[i - 1][l[i].entries[k].tvar] = l[i].entries[k].exp
      BY <2>9 DEF ReadsMatch
    <3>1. i \in DOMAIN c /\ l[i] = c[i] /\ i - 1 \in 0..Len(l) BY <2>5, <2>7 DEF Outcome
    <3>2. R[i - 1] = Q[i - 1] BY <2>8, <2>9, <3>1
    <3> QED BY <1>3, <1>4, <1>5, <3>1, <3>2 DEF ReadsMatch
  <2>12. log' \in Seq(Record) /\ serial' /\ ReadsMatch(mem, log)' /\ LogInv(log, Replay(mem, log))'
    <3>1. Settle(l) BY <2>1, <2>2
    <3>2. ReadsMatch(mem, l) /\ R = Replay(mem, l) BY <1>4, <2>9, <2>11
    <3> QED BY <2>4, <2>10, <3>1, <3>2, SettleStep
  <2> QED BY <1>1, <1>2, <2>12
<1>10. CASE CheckDone(u)
  <2>1. InCheck(u) /\ Settle(Resolved(u, "done")) BY <1>10 DEF CheckDone, InCheck
  <2>2. PICK l : l = Resolved(u, "done") OBVIOUS
  <2>3. OpenCommits(c) BY <1>6 DEF LogInv
  <2>4. l \in Seq(Record) /\ \E p \in DOMAIN c : Outcome(c, l, p, "done") /\ c[p].thread = u
    BY <1>3, <2>1, <2>2, <2>3, ResolvedIs
  <2>5. PICK p \in DOMAIN c : Outcome(c, l, p, "done") /\ c[p].thread = u BY <2>4
  <2>6. PICK R : R = Replay(m, l) OBVIOUS
  <2>7. LogInv(c, Replay(m, c)) BY <1>5, <1>6
  <2>8. Effect(c, Q, R, p, entries[u]) BY <1>5, <1>6, <1>10, <2>5, <2>6, <2>7, CertainEffect
  <2>9. LogInv(l, R)' BY <1>6, <1>10, <2>5, <2>8, DoneLog
  <2>10. ReadsMatch(m, l) BY <1>3, <1>4, <1>6, <1>10, <2>5, <2>7, DoneMatch
  <2>11. log' \in Seq(Record) /\ serial' /\ ReadsMatch(mem, log)' /\ LogInv(log, Replay(mem, log))'
    <3>1. Settle(l) BY <2>1, <2>2
    <3>2. ReadsMatch(mem, l) /\ R = Replay(mem, l) BY <1>4, <2>6, <2>10
    <3> QED BY <2>4, <2>9, <3>1, <3>2, SettleStep
  <2> QED BY <1>1, <1>2, <2>11
<1>11. \/ UNCHANGED hist
       \/ AcquireDone(u) /\ mode[u] = "commit"
       \/ CheckNum(u) /\ ~CheckPasses(u)
       \/ CheckDone(u)
  BY HistChanges DEF AcquireDone, CheckNum, hist
<1> QED BY <1>7, <1>8, <1>9, <1>10, <1>11

\* It holds at the start.
LEMMA SerialInit == Init => SerialInv
<1> SUFFICES ASSUME Init PROVE SerialInv OBVIOUS
<1>1. log = <<>> /\ mem = [v \in TVars |-> InitVal] /\ cur = [v \in TVars |-> InitVal] /\ serial
  BY DEF Init
<1>2. \A t \in Threads : pc[t] = "idle" /\ entries[t] = <<>> BY DEF Init
<1>3. NumInv BY <1>2 DEF NumInv, NumOf
<1>4. AcquiredInv BY <1>2 DEF AcquiredInv, AcquiredOf
<1>5. ReadsMatch(mem, log) BY <1>1 DEF ReadsMatch
<1>6. OpenCommits(log) /\ OpenApart(log) /\ OpenReads(log, Replay(mem, log))
  BY <1>1, <1>2 DEF OpenCommits, OpenApart, OpenReads, InCheck
<1>7. Matches(log, Replay(mem, log))
  <2>1. Len(log) = 0 /\ Len(log) \in Nat BY <1>1
  <2>2. Replay(mem, log)[0] = mem BY <2>1, ReplayStep
  <2> QED BY <1>1, <2>1, <2>2, STMAssumption DEF Matches, LogicalValue
<1> QED BY <1>1, <1>3, <1>4, <1>5, <1>6, <1>7 DEF SerialInv, LogInv

\* Every step preserves it.
LEMMA SerialStep == StructInv /\ StructInv' /\ SerialInv /\ [Next]_vars => SerialInv'
<1> SUFFICES ASSUME StructInv, StructInv', SerialInv, [Next]_vars PROVE SerialInv' OBVIOUS
<1>1. ASSUME NEW u \in Threads, Move(u) PROVE SerialInv' BY <1>1, SerialMove
<1>2. CASE UNCHANGED vars
  <2>1. /\ cur' = cur /\ num' = num /\ entries' = entries /\ pc' = pc /\ mode' = mode /\ idx' = idx /\ saw' = saw
        /\ log' = log /\ mem' = mem /\ serial' = serial
    BY <1>2 DEF vars, hist
  <2>2. NumInv' BY <2>1 DEF SerialInv, NumInv, NumOf
  <2>3. \A v : LogicalValue(v)' = LogicalValue(v)
    BY <2>1 DEF LogicalValue, HeldValue, EntryOf, EntryFor, Committing
  <2>4. \A v, n : Bumps(v, n)' <=> Bumps(v, n) BY <2>1 DEF Bumps, Committing, e
  <2>5. AcquiredInv'
    <3> SUFFICES ASSUME NEW t \in Threads, mode'[t] = "commit", pc'[t] \in {"acquire", "acquire_num", "acquire_again"},
                        NEW k \in DOMAIN entries'[t], k < idx'[t], ~IsUpdate(entries'[t][k])
                 PROVE  Tells(entries[t][k].tvar, entries[t][k].nu, entries[t][k].exp)'
      BY DEF AcquiredInv, AcquiredOf, IsUpdate
    <3>1. ~IsUpdate(entries[t][k]) BY <2>1 DEF IsUpdate
    <3>2. Tells(entries[t][k].tvar, entries[t][k].nu, entries[t][k].exp)
      BY <2>1, <3>1 DEF SerialInv, AcquiredInv, AcquiredOf
    <3> QED
      BY <2>1, <3>2 DEF Tells, LogicalValue, HeldValue, EntryOf, EntryFor, Committing,
          Bumps, e
  <2>6. PICK c : c = log OBVIOUS
  <2>7. PICK m : m = mem OBVIOUS
  <2>8. PICK Q : Q = Replay(m, c) OBVIOUS
  <2>9. Q = Replay(mem, log)' /\ ReadsMatch(mem, log)'
    BY <2>1, <2>6, <2>7, <2>8, ReplayNext, MatchNext DEF SerialInv
  <2>10. LogInv(c, Q) BY <2>6, <2>7, <2>8 DEF SerialInv
  <2>11. LogInv(c, Q)'
    <3>1. OpenCommits(c)' /\ OpenApart(c)'
      BY <2>1, <2>10 DEF LogInv, OpenCommits, OpenApart, InCheck
    <3>2. OpenReads(c, Q)' BY <2>1, <2>4, <2>10 DEF LogInv, OpenReads, Found, Reads
    <3>3. Matches(c, Q)' BY <2>3, <2>10 DEF LogInv, Matches
    <3> QED BY <3>1, <3>2, <3>3 DEF LogInv
  <2>12. LogInv(log, Replay(mem, log))' BY <2>1, <2>6, <2>9, <2>11, LogInvNext
  <2> QED BY <2>1, <2>2, <2>5, <2>9, <2>12 DEF SerialInv
<1> QED BY <1>1, <1>2 DEF Next, Move

\* The inductive invariant holds always.
THEOREM CommitsSerial == Spec => []SerialInv
<1>1. Init => SerialInv BY SerialInit
<1>2. StructInv /\ [Next]_vars => StructInv' BY StructStep
<1> QED BY <1>1, <1>2, Structure, SerialStep, PTL DEF Spec

\* The committed transactions are serializable, in the order in which they pass the end
\* of validate_and_acquire_ownership, read-only entries included, for any number of
\* threads, TVars and values, and any programs.
THEOREM Serializability == Spec => []Serializable
<1>1. SerialInv => Serializable BY DEF SerialInv, LogInv, Matches, Serializable
<1> QED BY <1>1, CommitsSerial, PTL
=============================================================================
