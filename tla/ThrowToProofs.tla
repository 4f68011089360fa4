---------------------------- MODULE ThrowToProofs ----------------------------
(***************************************************************************)
(* Asynchronous exceptions reach their targets, once, for any number of    *)
(* capabilities and threads, any messages, and any programs.               *)
(*                                                                         *)
(* The argument: a MessageThrowTo is in one place, and whoever has it      *)
(* locked is the only one to move it.  A thread blocked in killThread# has *)
(* its message somewhere, or a wakeup on the way; a message that is found  *)
(* and not revoked has a source that waits for it; and messages wait only  *)
(* for threads that something will still look at.                          *)
(*                                                                         *)
(* Most steps are shown to keep to what a capability may touch (Frame) and *)
(* to do right by those who wait (Told), from which the invariant follows  *)
(* once for all of them (Together).                                        *)
(***************************************************************************)
EXTENDS ThrowTo, FiniteSetTheorems, WellFoundedInduction, TLAPS

\* why_blocked
Reasons == {"NotBlocked", "BlockedOnMVar", "BlockedOnBlackHole", "BlockedOnCCall",
            "BlockedOnMsgThrowTo", "ThreadMigrating"}

\* TSO_BLOCKEX and TSO_INTERRUPTIBLE
Masks == {"unmasked", "interruptible", "masked"}

\* what_next, as far as throws are concerned
States == {"RunGHC", "Dead", "Finished"}

\* The headers of a MessageThrowTo
Headers == {"unallocated", "WHITEHOLE", "THROWTO", "NULL"}

\* Where a capability can be
Locations == {"sched", "run", "throw", "message", "blocking", "finish"}

\* Type correctness
Types ==
    /\ home \in [Threads -> Caps]
    /\ why \in [Threads -> Reasons]
    /\ block_info \in [Threads -> Messages \cup {None}]
    /\ mask \in [Threads -> Masks]
    /\ what_next \in [Threads -> States]
    /\ blocked_exceptions \in [Threads -> Seq(Messages)]
    /\ info \in [Messages -> Headers]
    /\ source \in [Messages -> Threads \cup {NoThread}]
    /\ target \in [Messages -> Threads \cup {NoThread}]
    /\ inbox \in [Caps -> SUBSET Messages]
    /\ wakeups \in [Caps -> [Threads -> Nat]]
    /\ running \in [Caps -> Threads \cup {NoThread}]
    /\ pc \in [Caps -> Locations]
    /\ msg \in [Caps -> Messages \cup {None}]
    /\ migrations \in 0..MaxMigrations
    /\ raised \in [Messages -> Nat]

\* m waits on the blocked_exceptions of t.
Queued(m, t) == \E n \in DOMAIN blocked_exceptions[t] : blocked_exceptions[t][n] = m

\* m is somewhere: in an inbox, executed by a capability, or on some blocked_exceptions.
Placed(m) ==
    \/ \E c \in Caps : m \in inbox[c] \/ msg[c] = m
    \/ \E t \in Threads : Queued(m, t)

\* A message that throwTo has not allocated is nowhere; one that it has goes from a thread
\* to another thread.
AllocationOK ==
    \A m \in Messages :
        IF info[m] = "unallocated"
        THEN source[m] = NoThread /\ raised[m] = 0 /\ ~Placed(m)
        ELSE source[m] \in Threads /\ target[m] \in Threads /\ source[m] # target[m]

\* throwToMsg puts a message in one place, and takes it from where it was: a message is in
\* at most one inbox, executed by at most one capability, at most once on the
\* blocked_exceptions of its target alone, and in at most one of these.
InOnePlace ==
    /\ \A c, d \in Caps : \A m \in Messages :
          /\ m \in inbox[c] /\ m \in inbox[d] => c = d
          /\ m = msg[c] /\ m = msg[d] => c = d
          /\ ~(m \in inbox[c] /\ m = msg[d])
    /\ \A t \in Threads, m \in Messages : Queued(m, t) =>
          /\ t = target[m]
          /\ \A c \in Caps : m \notin inbox[c] /\ m # msg[c]
    /\ \A t \in Threads : \A n, o \in DOMAIN blocked_exceptions[t] :
          blocked_exceptions[t][n] = blocked_exceptions[t][o] => n = o

\* What a capability runs and holds locked: the message that it executes, throws for the
\* first time, or is about to leave the processor with (block_throwto).
CapabilityOK(c) ==
    /\ running[c] = NoThread <=> pc[c] \in {"sched", "message"}
    /\ running[c] # NoThread =>
          home[running[c]] = c /\ why[running[c]] = IF pc[c] = "blocking" THEN "BlockedOnMsgThrowTo"
                                                         ELSE "NotBlocked"
    /\ msg[c] = None <=> pc[c] \notin {"throw", "message"}
    /\ pc[c] \in {"throw", "message"} => info[msg[c]] = "WHITEHOLE"
    /\ pc[c] = "throw" => source[msg[c]] = running[c] /\ raised[msg[c]] = 0
    /\ pc[c] = "blocking" =>
          info[block_info[running[c]]] = "WHITEHOLE" /\ \A d \in Caps : msg[d] # block_info[running[c]]

\* All capabilities are as described.
CapabilitiesOK == \A c \in Caps : CapabilityOK(c)

\* A thread blocked in killThread# has its message somewhere, not yet performed, or else a
\* wakeup is on the way.
WaitOK(t) ==
    why[t] = "BlockedOnMsgThrowTo" =>
       /\ block_info[t] \in Messages /\ source[block_info[t]] = t
       /\ info[block_info[t]] # "NULL" => Placed(block_info[t]) /\ raised[block_info[t]] = 0
       /\ info[block_info[t]] = "NULL" => \E c \in Caps : wakeups[c][t] > 0

\* All threads that wait do so for a message of theirs.
WaitsOK == \A t \in Threads : WaitOK(t)

\* c executes throwTo for the first time about m.
Throws(c, m) == pc[c] = "throw" /\ msg[c] = m

\* A message that is somewhere and has not been revoked has a source that waits for it, or
\* that is still in throwTo.
ForceOK(m) == Placed(m) /\ info[m] # "NULL" => Waiting(m) \/ \E c \in Caps : Throws(c, m)

\* All messages that are found are in force: a thread that is hit by an exception revokes
\* its own (removeFromQueues).
AllInForce == \A m \in Messages : ForceOK(m)

\* Where messages wait for a thread, the thread runs, is dead, is in a foreign call, or
\* cannot receive them: threadPaused and maybePerformBlockedException have looked.
LookedAt(t) ==
        \/ blocked_exceptions[t] = <<>>
        \/ Running(t) \/ what_next[t] = "Dead" \/ why[t] = "BlockedOnCCall"
        \/ ~Receives(t, mask[t], why)

\* No thread has been overlooked.
AllLookedAt == \A t \in Threads : LookedAt(t)

\* The inductive invariant
ThrowInv == Types /\ AllocationOK /\ InOnePlace /\ CapabilitiesOK /\ WaitsOK /\ AllInForce /\ AllLookedAt

----------------------------------------------------------------------------

\* Addresses are numbers, and not NULL.
LEMMA MessagesAreNumbers == Messages \subseteq Nat /\ None \notin Messages
BY ThrowToAssumption DEF Messages, None

\* A set of naturals that is not empty has a least member: the loop of
\* maybePerformBlockedException stops at the first message that is not MSG_NULL.
LEMMA LeastOfNaturals ==
  ASSUME NEW T, T \subseteq Nat, T # {}
  PROVE \E x \in T : \A y \in T : x <= y
<1>1. \E x \in T : \A y \in T : ~ (<<y, x>> \in OpToRel(<, Nat))
  BY WFMin, NatLessThanWellFounded
<1>2. PICK x \in T : \A y \in T : ~ (<<y, x>> \in OpToRel(<, Nat))
  BY <1>1
<1>3. ASSUME NEW y \in T PROVE x <= y
  <2>1. ~(<<y, x>> \in OpToRel(<, Nat))
    BY <1>2
  <2>2. <<y, x>> \in Nat \X Nat
    OBVIOUS
  <2>3. ~ (y < x)
    BY <2>1, <2>2 DEF OpToRel
  <2> QED BY <2>3
<1> QED BY <1>3

\* blocked_exceptions is a finite list of messages.
LEMMA QueueTypes ==
  ASSUME Types, NEW t \in Threads
  PROVE  /\ blocked_exceptions[t] \in Seq(Messages)
         /\ Len(blocked_exceptions[t]) \in Nat
         /\ DOMAIN blocked_exceptions[t] = 1..Len(blocked_exceptions[t])
         /\ \A n \in DOMAIN blocked_exceptions[t] : blocked_exceptions[t][n] \in Messages
<1>1. blocked_exceptions[t] \in Seq(Messages) BY DEF Types
<1> QED BY <1>1

\* raiseAsync kills the thread, or leaves it masked with a handler to run.
LEMMA RaiseAsyncSets ==
  ASSUME Types, NEW t \in Threads, NEW k \in Masks, NEW w, RaiseAsync(t, k, w)
  PROVE  /\ mask' \in [Threads -> Masks] /\ what_next' \in [Threads -> States]
         /\ \A u \in Threads \ {t} : mask'[u] = mask[u] /\ what_next'[u] = what_next[u]
         /\ what_next'[t] = "Dead" \/ (mask'[t] # "unmasked" /\ what_next'[t] = what_next[t])
<1>1. mask \in [Threads -> Masks] /\ what_next \in [Threads -> States] BY DEF Types
<1>2. CASE what_next' = [what_next EXCEPT ![t] = "Dead"] /\ mask' = [mask EXCEPT ![t] = k]
  BY <1>1, <1>2 DEF States
<1>3. CASE what_next' = what_next /\ mask' = [mask EXCEPT ![t] = IF k = "masked" THEN "masked" ELSE "interruptible"]
  BY <1>1, <1>3 DEF Masks
<1> QED BY <1>2, <1>3 DEF RaiseAsync

\* tryWakeupThread wakes those of this capability that can go on, and sends a message for
\* every other; it takes no wakeup back.
LEMMA TryWakeupWakes ==
  ASSUME Types, NEW c \in Caps, NEW ts \in SUBSET Threads, NEW w \in [Threads -> Reasons], NEW i, TryWakeup(c, ts, w, i)
  PROVE  /\ why' \in [Threads -> Reasons] /\ wakeups' \in [Caps -> [Threads -> Nat]]
         /\ \A t \in Threads : IF t \in ts /\ home[t] = c /\ Wakeable(t, w, i)
                               THEN why'[t] = "NotBlocked" ELSE why'[t] = w[t]
         /\ \A t \in Threads, d \in Caps : wakeups'[d][t] >= wakeups[d][t]
         /\ \A t \in ts : home[t] # c => wakeups'[home[t]][t] > 0
<1>1. \A t \in Threads : why'[t] = IF t \in {x \in ts : home[x] = c} /\ Wakeable(t, w, i) THEN "NotBlocked" ELSE w[t]
  BY DEF TryWakeup
<1>2. wakeups' = [d \in Caps |-> [t \in Threads |->
                         wakeups[d][t] + IF t \in ts /\ home[t] = d /\ d # c THEN 1 ELSE 0]]
  BY DEF TryWakeup
<1>3. \A t \in Threads, d \in Caps : /\ wakeups[d][t] \in Nat
                                     /\ wakeups'[d][t] = wakeups[d][t] + IF t \in ts /\ home[t] = d /\ d # c THEN 1 ELSE 0
  BY <1>2 DEF Types
<1>4. wakeups' \in [Caps -> [Threads -> Nat]]
  <2>1. \A t \in Threads, d \in Caps : wakeups[d][t] + (IF t \in ts /\ home[t] = d /\ d # c THEN 1 ELSE 0) \in Nat
    BY <1>3
  <2> QED BY <1>2, <2>1
<1>5. why' \in [Threads -> Reasons]
  <2>1. why' = [t \in Threads |-> IF t \in {x \in ts : home[x] = c} /\ Wakeable(t, w, i) THEN "NotBlocked" ELSE w[t]]
    BY DEF TryWakeup
  <2> QED BY <2>1 DEF Reasons
<1>6. \A t \in ts : home[t] # c => wakeups'[home[t]][t] > 0
  BY <1>3 DEF Types
<1>7. \A t \in Threads, d \in Caps : wakeups'[d][t] >= wakeups[d][t] BY <1>3
<1> QED BY <1>1, <1>4, <1>5, <1>6, <1>7

\* n is the first of the messages that wait for t that has not been revoked.
FirstLive(t, n, i) ==
  /\ n \in DOMAIN blocked_exceptions[t] /\ i[blocked_exceptions[t][n]] # "NULL"
  /\ \A o \in DOMAIN blocked_exceptions[t] : o < n => i[blocked_exceptions[t][o]] = "NULL"

\* maybePerformBlockedException performs the n-th message that waits for t, without the
\* choice of n.
Performed(c, t, n, k, w, i) ==
  LET m == blocked_exceptions[t][n] IN
  /\ FirstLive(t, n, i) /\ Receives(t, k, w)
  /\ i[m] # "WHITEHOLE"
  /\ blocked_exceptions' = [blocked_exceptions EXCEPT ![t] = SubSeq(blocked_exceptions[t], n + 1, Len(blocked_exceptions[t]))]
  /\ RaiseAsync(t, k, w)
  /\ raised' = [raised EXCEPT ![m] = @ + 1]
  /\ info' = [Revoked(t, w, i) EXCEPT ![m] = "NULL"]
  /\ TryWakeup(c, {source[m]}, Unblocked(t, w), info')

\* maybePerformBlockedException performs none: t does not receive, or all were revoked.
NothingPerformed(t, k, w, i) ==
  /\ \/ Receives(t, k, w) /\ blocked_exceptions' = [blocked_exceptions EXCEPT ![t] = <<>>]
        /\ \A n \in DOMAIN blocked_exceptions[t] : i[blocked_exceptions[t][n]] = "NULL"
     \/ ~Receives(t, k, w) /\ blocked_exceptions' = blocked_exceptions
  /\ mask' = [mask EXCEPT ![t] = k]
  /\ info' = i
  /\ why' = w
  /\ UNCHANGED <<what_next, raised, wakeups>>

\* maybePerformBlockedException performs the first message in force, or none.
LEMMA MaybePerformDoes ==
  ASSUME Types, NEW c \in Caps, NEW t \in Threads, NEW k, NEW w, NEW i, MaybePerform(c, t, k, w, i)
  PROVE  NothingPerformed(t, k, w, i) \/ \E n \in DOMAIN blocked_exceptions[t] : Performed(c, t, n, k, w, i)
<1> DEFINE q == blocked_exceptions[t]
           live == {n \in DOMAIN q : i[q[n]] # "NULL"}
           n == CHOOSE n \in live : \A o \in live : n <= o
           done == [Revoked(t, w, i) EXCEPT ![q[n]] = "NULL"]
<1>1. CASE Receives(t, k, w) /\ live # {}
  <2>1. live \subseteq Nat BY QueueTypes
  <2>2. n \in live /\ \A o \in live : n <= o
    <3> HIDE DEF live
    <3>1. \E x \in live : \A o \in live : x <= o BY <1>1, <2>1, LeastOfNaturals
    <3> QED BY <3>1
  <2>3. FirstLive(t, n, i) BY <2>1, <2>2, QueueTypes DEF FirstLive
  <2>4. /\ i[q[n]] # "WHITEHOLE"
        /\ blocked_exceptions' = [blocked_exceptions EXCEPT ![t] = SubSeq(q, n + 1, Len(q))]
        /\ RaiseAsync(t, k, w)
        /\ raised' = [raised EXCEPT ![q[n]] = @ + 1]
        /\ info' = done
        /\ TryWakeup(c, {source[q[n]]}, Unblocked(t, w), done)
    BY <1>1 DEF MaybePerform
  <2>5. n \in DOMAIN q BY <2>2
  <2> HIDE DEF n
  <2>6. Performed(c, t, n, k, w, i) BY <1>1, <2>3, <2>4 DEF Performed
  <2> QED BY <2>5, <2>6
<1>2. CASE ~(Receives(t, k, w) /\ live # {})
  <2>1. /\ blocked_exceptions' = IF Receives(t, k, w)
                                      THEN [blocked_exceptions EXCEPT ![t] = <<>>]
                                      ELSE blocked_exceptions
        /\ mask' = [mask EXCEPT ![t] = k]
        /\ info' = i
        /\ why' = w
        /\ UNCHANGED <<what_next, raised, wakeups>>
    BY <1>2 DEF MaybePerform
  <2> QED BY <1>2, <2>1 DEF NothingPerformed
<1> QED BY <1>1, <1>2

----------------------------------------------------------------------------

\* Messages leave inboxes, capabilities and the front of queues only.
Shrinks ==
  /\ \A c \in Caps : inbox'[c] \subseteq inbox[c] /\ (msg'[c] = msg[c] \/ msg'[c] = None)
  /\ \A t \in Threads : \E d \in Nat : \A n \in DOMAIN blocked_exceptions'[t] :
        n + d \in DOMAIN blocked_exceptions[t] /\ blocked_exceptions'[t][n] = blocked_exceptions[t][n + d]

\* What waits afterwards has waited before.
LEMMA ShrinkQueued ==
  ASSUME Shrinks, NEW t \in Threads, NEW m, Queued(m, t)'
  PROVE  Queued(m, t)
BY DEF Shrinks, Queued

\* A step that only takes messages away keeps them in one place.
LEMMA ShrinkStep ==
  ASSUME Types, Types', Shrinks, InOnePlace, target' = target
  PROVE  InOnePlace' /\ \A m \in Messages : Placed(m)' => Placed(m)
<1> USE MessagesAreNumbers
<1>1. \A c \in Caps : \A m \in Messages : (m \in inbox'[c] => m \in inbox[c]) /\ (m = msg'[c] => m = msg[c])
  BY DEF Shrinks
<1>2. \A t \in Threads, m \in Messages : Queued(m, t)' => Queued(m, t) BY ShrinkQueued
<1>3. \A m \in Messages : Placed(m)' => Placed(m)
  <2> SUFFICES ASSUME NEW m \in Messages, Placed(m)' PROVE Placed(m) OBVIOUS
  <2>1. CASE \E c \in Caps : m \in inbox'[c] \/ msg'[c] = m BY <1>1, <2>1 DEF Placed
  <2>2. CASE \E t \in Threads : Queued(m, t)' BY <1>2, <2>2 DEF Placed
  <2> QED BY <2>1, <2>2 DEF Placed
<1>4. \A t \in Threads : \A n, o \in DOMAIN blocked_exceptions'[t] :
          blocked_exceptions'[t][n] = blocked_exceptions'[t][o] => n = o
  <2> SUFFICES ASSUME NEW t \in Threads, NEW n \in DOMAIN blocked_exceptions'[t], NEW o \in DOMAIN blocked_exceptions'[t],
                      blocked_exceptions'[t][n] = blocked_exceptions'[t][o]
               PROVE n = o
    OBVIOUS
  <2>1. PICK d \in Nat : \A x \in DOMAIN blocked_exceptions'[t] :
          x + d \in DOMAIN blocked_exceptions[t] /\ blocked_exceptions'[t][x] = blocked_exceptions[t][x + d]
    BY DEF Shrinks
  <2>2. n + d = o + d BY <2>1 DEF InOnePlace
  <2>3. DOMAIN blocked_exceptions'[t] \subseteq Nat
    <3>1. blocked_exceptions'[t] \in Seq(Messages) BY DEF Types
    <3> QED BY <3>1
  <2>4. n \in Nat /\ o \in Nat BY <2>3
  <2> QED BY <2>2, <2>4
<1>5. /\ \A c, d \in Caps : \A m \in Messages :
          /\ m \in inbox'[c] /\ m \in inbox'[d] => c = d
          /\ m = msg'[c] /\ m = msg'[d] => c = d
          /\ ~(m \in inbox'[c] /\ m = msg'[d])
      /\ \A t \in Threads, m \in Messages : Queued(m, t)' =>
          /\ t = target'[m]
          /\ \A c \in Caps : m \notin inbox'[c] /\ m # msg'[c]
  BY <1>1, <1>2 DEF InOnePlace
<1> QED BY <1>3, <1>4, <1>5 DEF InOnePlace, Queued

----------------------------------------------------------------------------

\* What a step on behalf of the capability c leaves alone: the other capabilities and their
\* threads, and the messages that others have locked.
Frame(c) ==
    /\ \A d \in Caps \ {c} : running'[d] = running[d] /\ pc'[d] = pc[d] /\ msg'[d] = msg[d]
    /\ \A t \in Threads : home[t] # c => home'[t] = home[t] /\ why'[t] = why[t] /\ block_info'[t] = block_info[t]
    /\ \A m \in Messages : info[m] = "WHITEHOLE" /\ info'[m] # "WHITEHOLE" =>
          msg[c] = m \/ (pc[c] = "blocking" /\ block_info[running[c]] = m)
    /\ \A m \in Messages : raised'[m] # raised[m] => msg[c] = m \/ \E t \in Threads : Queued(m, t)
    /\ msg'[c] \in {msg[c], None} \/ info[msg'[c]] # "WHITEHOLE"
    /\ \A m \in Messages : info[m] # "unallocated" => source'[m] = source[m]

\* A capability owns the thread that it runs.
LEMMA RunningIsOwned ==
  ASSUME Types, CapabilitiesOK, NEW c \in Caps, pc[c] \notin {"sched", "message"}
  PROVE  /\ running[c] \in Threads /\ home[running[c]] = c
         /\ why[running[c]] = IF pc[c] = "blocking" THEN "BlockedOnMsgThrowTo" ELSE "NotBlocked"
<1>1. CapabilityOK(c) BY DEF CapabilitiesOK
<1>2. running[c] \in Threads \cup {NoThread} BY DEF Types
<1> QED BY <1>1, <1>2 DEF CapabilityOK

\* A thread that is about to leave the processor in block_throwto holds its message locked;
\* no capability executes that message.
LEMMA BlockingHolds ==
  ASSUME Types, CapabilitiesOK, WaitsOK, NEW c \in Caps, pc[c] = "blocking"
  PROVE  /\ block_info[running[c]] \in Messages /\ source[block_info[running[c]]] = running[c]
         /\ info[block_info[running[c]]] = "WHITEHOLE"
         /\ \A d \in Caps : msg[d] # block_info[running[c]]
         /\ Placed(block_info[running[c]]) /\ raised[block_info[running[c]]] = 0
<1>1. running[c] \in Threads /\ why[running[c]] = "BlockedOnMsgThrowTo" BY RunningIsOwned
<1>2. WaitOK(running[c]) BY <1>1 DEF WaitsOK
<1>3. info[block_info[running[c]]] = "WHITEHOLE" /\ \A d \in Caps : msg[d] # block_info[running[c]]
  BY DEF CapabilitiesOK, CapabilityOK
<1> QED BY <1>1, <1>2, <1>3 DEF WaitOK

\* The message that throwToMsg is about is locked, and from one thread to another.
LEMMA MsgIsLocked ==
  ASSUME Types, AllocationOK, CapabilitiesOK, NEW c \in Caps, pc[c] \in {"throw", "message"}
  PROVE  /\ msg[c] \in Messages /\ info[msg[c]] = "WHITEHOLE"
         /\ source[msg[c]] \in Threads /\ target[msg[c]] \in Threads /\ source[msg[c]] # target[msg[c]]
         /\ pc[c] = "throw" => source[msg[c]] = running[c] /\ raised[msg[c]] = 0
<1>1. CapabilityOK(c) BY DEF CapabilitiesOK
<1>2. msg[c] \in Messages BY <1>1 DEF Types, CapabilityOK
<1>3. info[msg[c]] = "WHITEHOLE" BY <1>1 DEF CapabilityOK
<1> QED BY <1>1, <1>2, <1>3 DEF CapabilityOK, AllocationOK

\* A step of c does not disturb what the other capabilities hold.
LEMMA OthersStep ==
  ASSUME Types, AllocationOK, InOnePlace, CapabilitiesOK, WaitsOK, NEW c \in Caps, Frame(c), NEW d \in Caps \ {c}
  PROVE  CapabilityOK(d)'
<1> USE MessagesAreNumbers
<1>0. CapabilityOK(d) BY DEF CapabilitiesOK
<1>1. running'[d] = running[d] /\ pc'[d] = pc[d] /\ msg'[d] = msg[d] BY DEF Frame
<1>2. running[d] # NoThread => /\ running[d] \in Threads /\ home[running[d]] = d
                              /\ home'[running[d]] = d /\ why'[running[d]] = why[running[d]]
                              /\ block_info'[running[d]] = block_info[running[d]]
  BY <1>0 DEF Frame, Types, CapabilityOK
<1>3. ASSUME pc[d] \in {"throw", "message"}
      PROVE  /\ info'[msg[d]] = "WHITEHOLE"
             /\ source'[msg[d]] = source[msg[d]]
             /\ pc[d] = "throw" => raised'[msg[d]] = 0
  <2>1. msg[d] \in Messages /\ info[msg[d]] = "WHITEHOLE" BY <1>3, MsgIsLocked
  <2>2. msg[c] # msg[d] /\ \A t \in Threads : ~Queued(msg[d], t) BY <2>1 DEF InOnePlace
  <2>3. pc[c] = "blocking" => block_info[running[c]] # msg[d] BY BlockingHolds
  <2>4. pc[d] = "throw" => raised[msg[d]] = 0 BY MsgIsLocked
  <2> QED BY <2>1, <2>2, <2>3, <2>4 DEF Frame
<1>4. ASSUME pc[d] = "blocking"
      PROVE  info'[block_info[running[d]]] = "WHITEHOLE" /\ \A x \in Caps : msg'[x] # block_info[running[d]]
  <2> DEFINE m == block_info[running[d]]
  <2>1. m \in Messages /\ source[m] = running[d] /\ info[m] = "WHITEHOLE" /\ \A x \in Caps : msg[x] # m
    BY <1>4, BlockingHolds
  <2>2. pc[c] = "blocking" => block_info[running[c]] # m
    <3> SUFFICES ASSUME pc[c] = "blocking", block_info[running[c]] = m PROVE FALSE OBVIOUS
    <3>1. source[m] = running[c] BY BlockingHolds
    <3>2. home[running[c]] = c /\ home[running[d]] = d BY <1>4, RunningIsOwned
    <3> QED BY <2>1, <3>1, <3>2
  <2> HIDE DEF m
  <2>3. info'[m] = "WHITEHOLE" BY <2>1, <2>2 DEF Frame
  <2>4. \A x \in Caps \ {c} : msg'[x] # m BY <2>1 DEF Frame
  <2>5. msg'[c] # m BY <2>1 DEF Frame
  <2> QED BY <2>3, <2>4, <2>5 DEF m
<1>5. /\ running'[d] = NoThread <=> pc'[d] \in {"sched", "message"}
      /\ running'[d] # NoThread =>
            home'[running'[d]] = d /\ why'[running'[d]] = IF pc'[d] = "blocking" THEN "BlockedOnMsgThrowTo"
                                                         ELSE "NotBlocked"
      /\ msg'[d] = None <=> pc'[d] \notin {"throw", "message"}
  BY <1>0, <1>1, <1>2 DEF CapabilityOK
<1>6. pc'[d] \in {"throw", "message"} => info'[msg'[d]] = "WHITEHOLE" BY <1>1, <1>3
<1>7. pc'[d] = "throw" => source'[msg'[d]] = running'[d] /\ raised'[msg'[d]] = 0
  BY <1>0, <1>1, <1>3 DEF CapabilityOK
<1>8. pc'[d] = "blocking" =>
          info'[block_info'[running'[d]]] = "WHITEHOLE" /\ \A x \in Caps : msg'[x] # block_info'[running'[d]]
  BY <1>0, <1>1, <1>2, <1>4 DEF CapabilityOK
<1> QED BY <1>5, <1>6, <1>7, <1>8 DEF CapabilityOK

\* The step on behalf of c does right by those who wait for throws: no message disappears
\* unless it is done or revoked, and a message that is done wakes its source.
Told(c) ==
    /\ \A m \in Messages : info[m] = "NULL" => info'[m] = "NULL"
    /\ \A m \in Messages : Placed(m) => Placed(m)' \/ info'[m] = "NULL" \/ Throws(c, m)
    /\ \A m \in Messages : raised'[m] # raised[m] => info'[m] = "NULL" \/ Throws(c, m)
    /\ \A t \in Threads : why[t] = "BlockedOnMsgThrowTo" =>
          /\ block_info'[t] = block_info[t]
          /\ why'[t] # "BlockedOnMsgThrowTo" => info'[block_info[t]] = "NULL"
          /\ why'[t] = "BlockedOnMsgThrowTo" /\ info'[block_info[t]] = "NULL" => \E d \in Caps : wakeups'[d][t] > 0

\* A thread in throwTo does not wait for anything yet.
LEMMA ThrowsIsNew ==
  ASSUME Types, AllocationOK, CapabilitiesOK, NEW c \in Caps, NEW m \in Messages, Throws(c, m)
  PROVE  source[m] = running[c] /\ why[running[c]] = "NotBlocked" /\ raised[m] = 0 /\ info[m] = "WHITEHOLE"
BY MsgIsLocked, RunningIsOwned DEF Throws

\* Whoever waits goes on doing so for a message that is somewhere, or has a wakeup.
LEMMA WaitsStep ==
  ASSUME Types, AllocationOK, CapabilitiesOK, WaitsOK, NEW c \in Caps, Frame(c), Told(c),
         \A t \in Threads : why[t] # "BlockedOnMsgThrowTo" => WaitOK(t)'
  PROVE  WaitsOK'
<1> SUFFICES ASSUME NEW t \in Threads, why[t] = "BlockedOnMsgThrowTo", why'[t] = "BlockedOnMsgThrowTo"
             PROVE  WaitOK(t)'
  BY DEF WaitsOK, WaitOK
<1>0. PICK m : m = block_info[t] OBVIOUS
<1>1. /\ m \in Messages /\ source[m] = t
      /\ info[m] # "NULL" => Placed(m) /\ raised[m] = 0
      /\ info[m] = "NULL" => \E d \in Caps : wakeups[d][t] > 0
  BY <1>0 DEF WaitsOK, WaitOK
<1>2. block_info'[t] = m BY <1>0 DEF Told
<1>3. info[m] # "unallocated" BY <1>1, ThrowToAssumption DEF AllocationOK
<1>4. ~Throws(c, m) BY <1>1, ThrowsIsNew
<1>5. source'[m] = t BY <1>1, <1>3 DEF Frame
<1>6. info'[m] # "NULL" => Placed(m)' /\ raised'[m] = 0 BY <1>1, <1>4 DEF Told
<1>7. info'[m] = "NULL" => \E d \in Caps : wakeups'[d][t] > 0 BY <1>0 DEF Told
<1> QED BY <1>1, <1>2, <1>5, <1>6, <1>7 DEF WaitOK

\* The sources of the messages in force go on waiting for them.
LEMMA InForceStep ==
  ASSUME Types, Types', AllocationOK, AllocationOK', CapabilitiesOK, AllInForce, NEW c \in Caps, Frame(c), Told(c),
         \A m \in Messages : ~Placed(m) \/ Throws(c, m) => ForceOK(m)'
  PROVE  AllInForce'
<1> SUFFICES ASSUME NEW m \in Messages, Placed(m), ~Throws(c, m), Placed(m)', info'[m] # "NULL"
             PROVE  Waiting(m)' \/ \E d \in Caps : Throws(d, m)'
  BY DEF AllInForce, ForceOK
<1>1. info[m] # "NULL" BY DEF Told
<1>2. info[m] # "unallocated" /\ info'[m] # "unallocated" BY DEF AllocationOK
<1>3. source'[m] = source[m] /\ source[m] \in Threads BY <1>2 DEF Frame, AllocationOK
<1>4. CASE Waiting(m)
  <2>1. why[source[m]] = "BlockedOnMsgThrowTo" /\ block_info[source[m]] = m BY <1>4 DEF Waiting
  <2>2. why'[source[m]] = "BlockedOnMsgThrowTo" /\ block_info'[source[m]] = m BY <1>3, <2>1 DEF Told
  <2>3. info'[m] \in {"THROWTO", "WHITEHOLE"} BY <1>2 DEF Types, Headers
  <2>4. source[m] # NoThread BY <1>3, ThrowToAssumption
  <2> QED BY <1>3, <2>2, <2>3, <2>4 DEF Waiting
<1>5. CASE \E d \in Caps : Throws(d, m)
  <2>1. PICK d \in Caps : Throws(d, m) BY <1>5
  <2>2. d # c BY <2>1
  <2> QED BY <2>1, <2>2 DEF Throws, Frame
<1> QED BY <1>1, <1>4, <1>5 DEF AllInForce, ForceOK

\* A step that allocates no message keeps the allocation right.
LEMMA AllocationStep ==
  ASSUME AllocationOK, \A m \in Messages : Placed(m)' => Placed(m), source' = source, target' = target,
         \A m \in Messages : info'[m] = "unallocated" <=> info[m] = "unallocated",
         \A m \in Messages : info[m] = "unallocated" => raised'[m] = raised[m]
  PROVE  AllocationOK'
BY DEF AllocationOK

\* A thread that is not run, masked, unmasked or blocked by the step need not be looked at
\* again.
LEMMA LookedKept ==
  ASSUME NEW t \in Threads, LookedAt(t), Running(t) => Running(t)', what_next[t] = "Dead" => what_next'[t] = "Dead",
         blocked_exceptions[t] = <<>> => blocked_exceptions'[t] = <<>>, mask'[t] = mask[t],
         why'[t] = why[t] \/ (why[t] # "BlockedOnCCall" /\ why'[t] \notin Interruptible)
  PROVE  LookedAt(t)'
BY DEF LookedAt, Receives

\* All capabilities are right if the one that takes the step is.
LEMMA OnCapsStep ==
  ASSUME Types, AllocationOK, InOnePlace, CapabilitiesOK, WaitsOK, NEW c \in Caps, Frame(c), CapabilityOK(c)'
  PROVE  CapabilitiesOK'
BY OthersStep DEF CapabilitiesOK

\* Every step but that of a new throw preserves the invariant if it keeps to Frame and Told.
LEMMA Together ==
  ASSUME ThrowInv, Types', NEW c \in Caps, Frame(c), Told(c), CapabilityOK(c)', AllLookedAt', source' = source, target' = target,
         InOnePlace', \A m \in Messages : Placed(m)' => Placed(m),
         \A m \in Messages : info'[m] = "unallocated" <=> info[m] = "unallocated",
         \A t \in Threads : why[t] # "BlockedOnMsgThrowTo" => WaitOK(t)',
         \A m \in Messages : Throws(c, m) => ForceOK(m)'
  PROVE  ThrowInv'
<1>0. Types /\ AllocationOK /\ InOnePlace /\ CapabilitiesOK /\ WaitsOK /\ AllInForce BY DEF ThrowInv
<1>1. \A m \in Messages : info[m] = "unallocated" => raised'[m] = raised[m]
  <2> SUFFICES ASSUME NEW m \in Messages, info[m] = "unallocated" PROVE raised'[m] = raised[m]
    OBVIOUS
  <2>1. ~Placed(m) BY <1>0 DEF AllocationOK
  <2>2. msg[c] # m /\ \A t \in Threads : ~Queued(m, t) BY <2>1 DEF Placed
  <2> QED BY <2>2 DEF Frame
<1>2. AllocationOK' BY <1>0, <1>1, AllocationStep
<1>3. CapabilitiesOK' BY <1>0, OnCapsStep
<1>4. WaitsOK' BY <1>0, WaitsStep
<1>5. \A m \in Messages : ~Placed(m) => ForceOK(m)' BY DEF ForceOK
<1>6. AllInForce' BY <1>0, <1>2, <1>5, InForceStep
<1> QED BY <1>2, <1>3, <1>4, <1>6 DEF ThrowInv

\* A step of c that leaves the messages alone preserves the invariant if it wakes only those
\* whose throw is done.
LEMMA QuietStep ==
  ASSUME ThrowInv, Types', NEW c \in Caps, CapabilityOK(c)', AllLookedAt',
         \A d \in Caps \ {c} : running'[d] = running[d] /\ pc'[d] = pc[d],
         UNCHANGED <<block_info, blocked_exceptions, message, inbox, msg>>,
         pc[c] = "throw" => pc'[c] = "throw",
         \A t \in Threads : home[t] # c => home'[t] = home[t] /\ why'[t] = why[t],
         \A t \in Threads : /\ why[t] # "BlockedOnMsgThrowTo" => why'[t] # "BlockedOnMsgThrowTo"
                            /\ why[t] = "BlockedOnMsgThrowTo" /\ why'[t] # "BlockedOnMsgThrowTo" => info[block_info[t]] = "NULL"
                            /\ why'[t] = "BlockedOnMsgThrowTo" /\ info[block_info[t]] = "NULL" =>
                                  \E d \in Caps : wakeups'[d][t] > 0
  PROVE  ThrowInv'
<1>0. Types /\ AllocationOK /\ InOnePlace /\ CapabilitiesOK /\ WaitsOK /\ AllInForce BY DEF ThrowInv
<1>1. Shrinks
  <2>1. \A t \in Threads : \A n \in DOMAIN blocked_exceptions[t] : n + 0 = n BY <1>0, QueueTypes
  <2>2. \A t \in Threads : \E d \in Nat : \A n \in DOMAIN blocked_exceptions'[t] :
        n + d \in DOMAIN blocked_exceptions[t] /\ blocked_exceptions'[t][n] = blocked_exceptions[t][n + d]
    BY <2>1
  <2> QED BY <2>2 DEF Shrinks
<1>2. InOnePlace' /\ \A m \in Messages : Placed(m)' => Placed(m)
  BY <1>0, <1>1, ShrinkStep DEF message
<1>3. \A m : Placed(m) => Placed(m)' BY DEF Placed, Queued
<1>4. Frame(c) BY DEF Frame, message
<1>5. Told(c) BY <1>3 DEF Told, message
<1>6. \A m \in Messages : Throws(c, m) => ForceOK(m)' BY DEF Throws, ForceOK
<1>7. \A t \in Threads : why[t] # "BlockedOnMsgThrowTo" => WaitOK(t)' BY DEF WaitOK
<1>8. \A m \in Messages : info'[m] = "unallocated" <=> info[m] = "unallocated" BY DEF message
<1> QED BY <1>2, <1>4, <1>5, <1>6, <1>7, <1>8, Together DEF message

\* Whoever waits for a throw that is done has a wakeup on the way.
LEMMA WakeupThere ==
  ASSUME WaitsOK, NEW t \in Threads, why[t] = "BlockedOnMsgThrowTo", info[block_info[t]] = "NULL"
  PROVE  \E d \in Caps : wakeups[d][t] > 0
BY DEF WaitsOK, WaitOK

\* killThread# of the thread itself preserves the invariant.
LEMMA ThrowToMyselfStep ==
  ASSUME ThrowInv, NEW c \in Caps, ThrowToMyself(c)
  PROVE  ThrowInv'
<1>0. Types /\ CapabilitiesOK /\ WaitsOK /\ AllLookedAt BY DEF ThrowInv
<1>a. PICK t : t = running[c] OBVIOUS
<1>1. t \in Threads /\ home[t] = c /\ why[t] = "NotBlocked"
  BY <1>0, <1>a, RunningIsOwned DEF ThrowToMyself
<1>2. mask[t] \in Masks BY <1>0, <1>1 DEF Types
<1>3. /\ UNCHANGED <<home, why, block_info, blocked_exceptions, message, mail, running, msg, migrations>>
      /\ RaiseAsync(t, mask[t], why) /\ pc[c] = "run"
      /\ pc' = [pc EXCEPT ![c] = IF what_next'[running[c]] = "Dead" THEN "finish" ELSE "run"]
  BY <1>a DEF ThrowToMyself
<1>4. /\ mask' \in [Threads -> Masks] /\ what_next' \in [Threads -> States]
      /\ \A u \in Threads \ {t} : mask'[u] = mask[u] /\ what_next'[u] = what_next[u]
  BY <1>0, <1>1, <1>2, <1>3, RaiseAsyncSets
<1>5. pc' \in [Caps -> Locations] /\ pc'[c] \in {"run", "finish"} /\ \A d \in Caps \ {c} : pc'[d] = pc[d]
  BY <1>0, <1>3 DEF Types, Locations
<1>6. Types' BY <1>0, <1>3, <1>4, <1>5 DEF Types, message, mail
<1>7. CapabilityOK(c)' BY <1>0, <1>a, <1>1, <1>3, <1>5 DEF CapabilitiesOK, CapabilityOK
<1>8. \A u \in Threads \ {t} : LookedAt(u)'
  BY <1>0, <1>3, <1>4, LookedKept DEF AllLookedAt, Running
<1>9. LookedAt(t)' BY <1>a, <1>3 DEF LookedAt, Running
<1>10. AllLookedAt' BY <1>8, <1>9 DEF AllLookedAt
<1> QED BY <1>0, <1>3, <1>5, <1>6, <1>7, <1>10, QuietStep, WakeupThere DEF mail

\* The scheduler's choice of a thread preserves the invariant.
LEMMA DispatchStep ==
  ASSUME ThrowInv, NEW c \in Caps, NEW t \in Threads, Dispatch(c, t)
  PROVE  ThrowInv'
<1>0. Types /\ CapabilitiesOK /\ WaitsOK /\ AllLookedAt BY DEF ThrowInv
<1>1. /\ UNCHANGED <<thread, message, mail, msg, migrations>> /\ pc[c] = "sched" /\ home[t] = c /\ why[t] = "NotBlocked"
      /\ running' = [running EXCEPT ![c] = t] /\ pc' = [pc EXCEPT ![c] = IF what_next[t] = "Dead" THEN "finish" ELSE "run"]
  BY DEF Dispatch
<1>2. running[c] = NoThread /\ msg[c] = None BY <1>0, <1>1 DEF CapabilitiesOK, CapabilityOK
<1>3. pc' \in [Caps -> Locations] /\ pc'[c] \in {"run", "finish"} /\ \A d \in Caps \ {c} : pc'[d] = pc[d]
  BY <1>0, <1>1 DEF Types, Locations
<1>4. running' \in [Caps -> Threads \cup {NoThread}] /\ running'[c] = t /\ \A d \in Caps \ {c} : running'[d] = running[d]
  BY <1>0, <1>1 DEF Types
<1>6. Types' BY <1>0, <1>1, <1>3, <1>4 DEF Types, thread, message, mail
<1>7. CapabilityOK(c)' BY <1>0, <1>1, <1>2, <1>3, <1>4, ThrowToAssumption DEF CapabilityOK, thread
<1>8. AllLookedAt'
  <2> SUFFICES ASSUME NEW u \in Threads PROVE LookedAt(u)' BY DEF AllLookedAt
  <2>1. LookedAt(u) BY <1>0 DEF AllLookedAt
  <2>2. Running(u) => Running(u)' BY <1>2, <1>4, ThrowToAssumption DEF Running
  <2> QED BY <1>1, <2>1, <2>2, LookedKept DEF thread
<1> QED BY <1>0, <1>1, <1>3, <1>4, <1>6, <1>7, <1>8, QuietStep, WakeupThere DEF mail, thread

\* Masking exceptions preserves the invariant: the thread runs, and is looked at later.
LEMMA SetMaskStep ==
  ASSUME ThrowInv, NEW c \in Caps, SetMask(c)
  PROVE  ThrowInv'
<1>0. Types /\ CapabilitiesOK /\ WaitsOK /\ AllLookedAt BY DEF ThrowInv
<1>a. PICK t : t = running[c] OBVIOUS
<1>1. t \in Threads /\ home[t] = c /\ why[t] = "NotBlocked"
  BY <1>0, <1>a, RunningIsOwned DEF SetMask
<1>3. /\ UNCHANGED <<home, why, block_info, what_next, blocked_exceptions, message, mail, cap, migrations>>
      /\ \E k \in Masks : mask' = [mask EXCEPT ![t] = k]
  BY <1>a DEF SetMask, Masks
<1>4. mask' \in [Threads -> Masks] /\ \A u \in Threads \ {t} : mask'[u] = mask[u]
  BY <1>0, <1>3 DEF Types
<1>6. Types' BY <1>0, <1>3, <1>4 DEF Types, message, mail, cap
<1>7. CapabilityOK(c)' BY <1>0, <1>a, <1>3 DEF CapabilitiesOK, CapabilityOK, message, cap
<1>8. \A u \in Threads \ {t} : LookedAt(u)'
  BY <1>0, <1>3, <1>4, LookedKept DEF AllLookedAt, Running, cap
<1>9. LookedAt(t)' BY <1>a, <1>3 DEF LookedAt, Running, cap
<1>10. AllLookedAt' BY <1>8, <1>9 DEF AllLookedAt
<1> QED BY <1>0, <1>3, <1>6, <1>7, <1>10, QuietStep, WakeupThere DEF mail, cap

\* A thread that completes preserves the invariant: it becomes dead.
LEMMA FinishStep ==
  ASSUME ThrowInv, NEW c \in Caps, Finish(c)
  PROVE  ThrowInv'
<1>0. Types /\ CapabilitiesOK /\ WaitsOK /\ AllLookedAt BY DEF ThrowInv
<1>a. PICK t : t = running[c] OBVIOUS
<1>1. t \in Threads /\ home[t] = c /\ why[t] = "NotBlocked" BY <1>0, <1>a, RunningIsOwned DEF Finish
<1>3. /\ UNCHANGED <<home, why, block_info, mask, blocked_exceptions, message, mail, running, msg, migrations>>
      /\ what_next' = [what_next EXCEPT ![t] = "Dead"] /\ pc[c] = "run" /\ pc' = [pc EXCEPT ![c] = "finish"]
  BY <1>a DEF Finish
<1>4. what_next' \in [Threads -> States] /\ \A u \in Threads \ {t} : what_next'[u] = what_next[u]
  BY <1>0, <1>3 DEF Types, States
<1>5. pc' \in [Caps -> Locations] /\ pc'[c] = "finish" /\ \A d \in Caps \ {c} : pc'[d] = pc[d]
  BY <1>0, <1>3 DEF Types, Locations
<1>6. Types' BY <1>0, <1>3, <1>4, <1>5 DEF Types, message, mail
<1>7. CapabilityOK(c)' BY <1>0, <1>a, <1>1, <1>3, <1>5 DEF CapabilitiesOK, CapabilityOK
<1>8. \A u \in Threads \ {t} : LookedAt(u)'
  BY <1>0, <1>3, <1>4, LookedKept DEF AllLookedAt, Running
<1>9. LookedAt(t)' BY <1>a, <1>3 DEF LookedAt, Running
<1>10. AllLookedAt' BY <1>8, <1>9 DEF AllLookedAt
<1> QED BY <1>0, <1>3, <1>5, <1>6, <1>7, <1>10, QuietStep, WakeupThere DEF mail

\* The end of an MVar operation or of an evaluation preserves the invariant.
LEMMA UnblockStep ==
  ASSUME ThrowInv, NEW t \in Threads, Unblock(t)
  PROVE  ThrowInv'
<1>0. Types /\ CapabilitiesOK /\ WaitsOK /\ AllLookedAt BY DEF ThrowInv
<1>1. PICK c \in Caps : c = home[t] BY <1>0 DEF Types
<1>2. /\ UNCHANGED <<home, block_info, mask, what_next, blocked_exceptions, message, mail, cap, migrations>>
      /\ why[t] \in {"BlockedOnMVar", "BlockedOnBlackHole"} /\ pc[c] \in {"sched", "run"}
      /\ why' = [why EXCEPT ![t] = "NotBlocked"]
  BY <1>1 DEF Unblock
<1>3. why' \in [Threads -> Reasons] /\ why'[t] = "NotBlocked" /\ \A u \in Threads \ {t} : why'[u] = why[u]
  BY <1>0, <1>2 DEF Types, Reasons
<1>6. Types' BY <1>0, <1>2, <1>3 DEF Types, message, mail, cap
<1>7. CapabilityOK(c)'
  <2>1. CapabilityOK(c) BY <1>0 DEF CapabilitiesOK
  <2>2. running[c] # NoThread => running[c] \in Threads BY <1>0 DEF Types
  <2>3. running[c] # NoThread => why'[running[c]] = why[running[c]]
    BY <1>2, <1>3, <2>1, <2>2 DEF CapabilityOK
  <2> QED BY <1>2, <2>1, <2>3 DEF CapabilityOK, message, cap
<1>8. AllLookedAt'
  <2> SUFFICES ASSUME NEW u \in Threads PROVE LookedAt(u)' BY DEF AllLookedAt
  <2>1. LookedAt(u) BY <1>0 DEF AllLookedAt
  <2>2. Running(u) => Running(u)' BY <1>2 DEF Running, cap
  <2> QED BY <1>2, <1>3, <2>1, <2>2, LookedKept DEF Interruptible
<1>9. \A u \in Threads : home[u] # c => why'[u] = why[u] BY <1>1, <1>3
<1>10. \A u \in Threads : /\ why[u] # "BlockedOnMsgThrowTo" => why'[u] # "BlockedOnMsgThrowTo"
                          /\ why[u] = "BlockedOnMsgThrowTo" => why'[u] = "BlockedOnMsgThrowTo"
  BY <1>2, <1>3
<1> QED BY <1>0, <1>2, <1>6, <1>7, <1>8, <1>9, <1>10, QuietStep, WakeupThere DEF mail, cap

\* MSG_TRY_WAKEUP preserves the invariant: if it is consumed without effect, the thread did
\* not wait for a throw that is done; else it is woken, or the message is sent on.
LEMMA DeliverWakeupStep ==
  ASSUME ThrowInv, NEW c \in Caps, NEW t \in Threads, DeliverWakeup(c, t)
  PROVE  ThrowInv'
<1>0. Types /\ CapabilitiesOK /\ WaitsOK /\ AllLookedAt BY DEF ThrowInv
<1>1. /\ UNCHANGED <<home, block_info, mask, what_next, blocked_exceptions, message, inbox, cap, migrations>>
      /\ pc[c] = "sched" /\ wakeups[c][t] > 0
  BY DEF DeliverWakeup
<1>a. home[t] \in Caps /\ wakeups \in [Caps -> [Threads -> Nat]] /\ wakeups[c][t] \in Nat
  BY <1>0 DEF Types
<1>2. /\ why' \in [Threads -> Reasons] /\ \A u \in Threads \ {t} : why'[u] = why[u]
      /\ why'[t] # why[t] => home[t] = c /\ why'[t] = "NotBlocked" /\ Wakeable(t, why, info)
      /\ home[t] = c /\ Wakeable(t, why, info) => why'[t] = "NotBlocked"
  BY <1>0 DEF DeliverWakeup, Types, Reasons
<1>3. wakeups' \in [Caps -> [Threads -> Nat]]
      /\ (\A d \in Caps, u \in Threads \ {t} : wakeups'[d][u] = wakeups[d][u])
      /\ (home[t] # c => wakeups'[home[t]][t] > 0)
  <2>1. CASE home[t] = c
    <3>1. wakeups' = [wakeups EXCEPT ![c][t] = wakeups[c][t] - 1] BY <2>1 DEF DeliverWakeup
    <3>2. wakeups[c][t] - 1 \in Nat BY <1>1, <1>a
    <3> QED BY <2>1, <3>1, <3>2, <1>a
  <2>2. CASE home[t] # c
    <3>1. wakeups' = [wakeups EXCEPT ![c][t] = @ - 1, ![home[t]][t] = @ + 1]
      BY <2>2 DEF DeliverWakeup
    <3>2. wakeups[c][t] - 1 \in Nat /\ wakeups[home[t]][t] \in Nat /\ wakeups[home[t]][t] + 1 \in Nat /\ wakeups[home[t]][t] + 1 > 0
      BY <1>1, <1>a
    <3>3. wakeups' = [wakeups EXCEPT ![c] = [wakeups[c] EXCEPT ![t] = wakeups[c][t] - 1],
                                     ![home[t]] = [wakeups[home[t]] EXCEPT ![t] = wakeups[home[t]][t] + 1]]
      BY <2>2, <3>1, <1>a
    <3> QED BY <2>2, <3>3, <3>2, <1>a
  <2> QED BY <2>1, <2>2
<1>6. Types' BY <1>0, <1>1, <1>2, <1>3 DEF Types, message, mail, cap
<1>7. CapabilityOK(c)'
  <2>1. CapabilityOK(c) BY <1>0 DEF CapabilitiesOK
  <2> QED BY <1>1, <2>1 DEF CapabilityOK, message, cap
<1>8. AllLookedAt'
  <2> SUFFICES ASSUME NEW u \in Threads PROVE LookedAt(u)' BY DEF AllLookedAt
  <2>1. LookedAt(u) BY <1>0 DEF AllLookedAt
  <2>2. Running(u) => Running(u)' BY <1>1 DEF Running, cap
  <2>3. why'[u] = why[u] \/ (why[u] # "BlockedOnCCall" /\ why'[u] \notin Interruptible)
    BY <1>2 DEF Wakeable, Interruptible
  <2> QED BY <1>1, <2>1, <2>2, <2>3, LookedKept
<1>9. \A u \in Threads : home[u] # c => why'[u] = why[u] BY <1>2
<1>10. \A u \in Threads : /\ why[u] # "BlockedOnMsgThrowTo" => why'[u] # "BlockedOnMsgThrowTo"
                          /\ why[u] = "BlockedOnMsgThrowTo" /\ why'[u] # "BlockedOnMsgThrowTo" => info[block_info[u]] = "NULL"
  BY <1>2 DEF Wakeable
<1>11. ASSUME NEW u \in Threads, why'[u] = "BlockedOnMsgThrowTo", info[block_info[u]] = "NULL"
       PROVE  \E d \in Caps : wakeups'[d][u] > 0
  <2>1. why[u] = "BlockedOnMsgThrowTo" BY <1>10, <1>11
  <2>2. CASE u # t
    <3>1. PICK d \in Caps : wakeups[d][u] > 0 BY <1>0, <1>11, <2>1, WakeupThere
    <3> QED BY <1>3, <2>2, <3>1
  <2>3. CASE u = t
    <3>1. Wakeable(t, why, info) BY <1>11, <2>1, <2>3 DEF Wakeable
    <3>2. home[t] # c BY <1>2, <1>11, <2>3, <3>1
    <3> QED BY <1>3, <1>a, <2>3, <3>2
  <2> QED BY <2>2, <2>3
<1> QED BY <1>1, <1>6, <1>7, <1>8, <1>9, <1>10, <1>11, QuietStep DEF mail, cap

\* A runnable thread that changes its capability preserves the invariant.
LEMMA MigrateStep ==
  ASSUME ThrowInv, NEW c \in Caps, NEW d \in Caps, NEW t \in Threads, Migrate(c, d, t)
  PROVE  ThrowInv'
<1>0. Types /\ CapabilitiesOK /\ WaitsOK /\ AllLookedAt BY DEF ThrowInv
<1>1. /\ UNCHANGED <<block_info, mask, what_next, blocked_exceptions, message, inbox, cap>>
      /\ pc[c] = "sched" /\ home[t] = c /\ why[t] = "NotBlocked"
      /\ home' = [home EXCEPT ![t] = d] /\ migrations < MaxMigrations /\ migrations' = migrations + 1
  BY DEF Migrate
<1>2. /\ why' \in [Threads -> Reasons] /\ (\A u \in Threads \ {t} : why'[u] = why[u])
      /\ why'[t] \in {"NotBlocked", "ThreadMigrating"}
  BY <1>0, <1>1 DEF Migrate, Types, Reasons
<1>3. wakeups' \in [Caps -> [Threads -> Nat]] /\ \A x \in Caps, u \in Threads : wakeups'[x][u] >= wakeups[x][u]
  <2>1. wakeups \in [Caps -> [Threads -> Nat]] /\ wakeups[d][t] + 1 \in Nat /\ \A x \in Caps, u \in Threads : wakeups[x][u] \in Nat
    BY <1>0 DEF Types
  <2>2. CASE wakeups' = wakeups BY <2>1, <2>2
  <2>3. CASE wakeups' = [wakeups EXCEPT ![d] = [wakeups[d] EXCEPT ![t] = wakeups[d][t] + 1]]
    <3>1. wakeups' \in [Caps -> [Threads -> Nat]] BY <2>1, <2>3
    <3>2. ASSUME NEW x \in Caps, NEW u \in Threads PROVE wakeups'[x][u] >= wakeups[x][u]
      <4>1. CASE x = d /\ u = t BY <2>1, <2>3, <4>1
      <4>2. CASE x # d \/ u # t
        <5>1. wakeups'[x][u] = wakeups[x][u] BY <2>1, <2>3, <4>2
        <5> QED BY <2>1, <5>1
      <4> QED BY <4>1, <4>2
    <3> QED BY <3>1, <3>2
  <2> QED BY <2>1, <2>2, <2>3 DEF Migrate
<1>4. home' \in [Threads -> Caps] /\ (\A u \in Threads \ {t} : home'[u] = home[u])
  BY <1>0, <1>1 DEF Types
<1>5. migrations' \in 0..MaxMigrations BY <1>0, <1>1, ThrowToAssumption DEF Types
<1>6. Types' BY <1>0, <1>1, <1>2, <1>3, <1>4, <1>5 DEF Types, message, mail, cap
<1>7. CapabilityOK(c)'
  <2>1. CapabilityOK(c) BY <1>0 DEF CapabilitiesOK
  <2> QED BY <1>1, <2>1 DEF CapabilityOK, message, cap
<1>8. AllLookedAt'
  <2> SUFFICES ASSUME NEW u \in Threads PROVE LookedAt(u)' BY DEF AllLookedAt
  <2>1. LookedAt(u) BY <1>0 DEF AllLookedAt
  <2>2. Running(u) => Running(u)' BY <1>1 DEF Running, cap
  <2>3. why'[u] = why[u] \/ (why[u] # "BlockedOnCCall" /\ why'[u] \notin Interruptible)
    BY <1>1, <1>2 DEF Interruptible
  <2> QED BY <1>1, <2>1, <2>2, <2>3, LookedKept
<1>9. \A u \in Threads : home[u] # c => home'[u] = home[u] /\ why'[u] = why[u] BY <1>1, <1>2, <1>4
<1>10. \A u \in Threads : /\ why[u] # "BlockedOnMsgThrowTo" => why'[u] # "BlockedOnMsgThrowTo"
                          /\ why[u] = "BlockedOnMsgThrowTo" /\ why'[u] # "BlockedOnMsgThrowTo" => info[block_info[u]] = "NULL"
  BY <1>1, <1>2
<1>11. ASSUME NEW u \in Threads, why'[u] = "BlockedOnMsgThrowTo", info[block_info[u]] = "NULL"
       PROVE  \E x \in Caps : wakeups'[x][u] > 0
  <2>1. why[u] = "BlockedOnMsgThrowTo" BY <1>10, <1>11
  <2>2. PICK x \in Caps : wakeups[x][u] > 0 BY <1>0, <1>11, <2>1, WakeupThere
  <2>3. wakeups'[x][u] >= wakeups[x][u] /\ wakeups[x][u] \in Nat /\ wakeups'[x][u] \in Nat
    BY <1>0, <1>3 DEF Types
  <2> QED BY <2>2, <2>3
<1> QED BY <1>1, <1>6, <1>7, <1>8, <1>9, <1>10, <1>11, QuietStep DEF mail, cap

\* c executes the message, or throws it: that is the only place of it.
LEMMA MsgPlace ==
  ASSUME Types, AllocationOK, InOnePlace, CapabilitiesOK, NEW c \in Caps, pc[c] \in {"throw", "message"}
  PROVE  /\ Placed(msg[c])
         /\ \A d \in Caps : msg[c] \notin inbox[d] /\ (msg[d] = msg[c] => d = c)
         /\ \A t \in Threads : ~Queued(msg[c], t)
<1>1. msg[c] \in Messages BY MsgIsLocked
<1> QED BY <1>1 DEF InOnePlace, Placed

\* Nothing has moved in a queue that is left alone.
LEMMA StillThere ==
  ASSUME Types
  PROVE  \A t \in Threads : \A n \in DOMAIN blocked_exceptions[t] : n + 0 = n
BY QueueTypes

\* THROWTO_SUCCESS preserves the invariant, when the target's state has been dealt with:
\* the source of the message is told, and so is nobody else.
LEMMA SuccessStep ==
  ASSUME ThrowInv, NEW c \in Caps, pc[c] \in {"throw", "message"},
         NEW t, t = target[msg[c]], NEW w \in [Threads -> Reasons], NEW i \in [Messages -> Headers],
         Success(c, w, i),
         UNCHANGED <<home, source, target, running, migrations, block_info, blocked_exceptions, inbox>>,
         mask' \in [Threads -> Masks], what_next' \in [Threads -> States],
         raised' = raised \/ raised' = [raised EXCEPT ![msg[c]] = @ + 1],
         \A u \in Threads : w[u] # why[u] =>
             u = t /\ home[t] = c /\ w[t] = "NotBlocked" /\ (why[t] = "BlockedOnMsgThrowTo" => i[block_info[t]] = "NULL"),
         \A x \in Messages : i[x] # info[x] =>
             /\ t \in Threads /\ x = block_info[t] /\ why[t] = "BlockedOnMsgThrowTo" /\ w[t] = "NotBlocked"
             /\ info[x] = "THROWTO" /\ i[x] = "NULL",
         \A u \in Threads : blocked_exceptions[u] = <<>> \/ Running(u) \/ what_next'[u] = "Dead"
                            \/ w[u] = "BlockedOnCCall" \/ ~Receives(u, mask'[u], w)
  PROVE  ThrowInv'
<1>0. Types /\ AllocationOK /\ InOnePlace /\ CapabilitiesOK /\ WaitsOK /\ AllInForce BY DEF ThrowInv
<1>m. PICK m : m = msg[c] OBVIOUS
<1>s. PICK s : s = source[m] OBVIOUS
<1>1. /\ m \in Messages /\ info[m] = "WHITEHOLE" /\ s \in Threads /\ t \in Threads /\ s # t
      /\ pc[c] = "throw" => s = running[c] /\ raised[m] = 0
  BY <1>0, <1>m, <1>s, MsgIsLocked
<1>2. /\ msg' \in [Caps -> Messages \cup {None}] /\ msg'[c] = None /\ \A d \in Caps \ {c} : msg'[d] = msg[d]
  BY <1>0 DEF Success, Types
<1>5. /\ info' \in [Messages -> Headers] /\ \A x \in Messages \ {m} : info'[x] = i[x]
      /\ info'[m] = IF pc[c] = "throw" THEN "THROWTO" ELSE "NULL"
  BY <1>1, <1>m DEF Success, Headers
<1>6. /\ why' \in [Threads -> Reasons]
      /\ \A u \in Threads : why'[u] # w[u] => why'[u] = "NotBlocked" /\ u = s /\ home[u] = c /\ Wakeable(u, w, info')
      /\ pc[c] = "throw" => why' = w
      /\ pc[c] = "message" /\ home[s] = c /\ Wakeable(s, w, info') => why'[s] = "NotBlocked"
      /\ wakeups' \in [Caps -> [Threads -> Nat]] /\ \A d \in Caps, u \in Threads : wakeups'[d][u] >= wakeups[d][u]
      /\ pc[c] = "message" /\ home[s] # c => wakeups'[home[s]][s] > 0
  <2>1. CASE pc[c] = "throw"
    <3>1. why' = w /\ wakeups' = wakeups BY <2>1 DEF Success
    <3>2. \A d \in Caps, u \in Threads : wakeups[d][u] \in Nat BY <1>0 DEF Types
    <3> QED BY <1>0, <2>1, <3>1, <3>2 DEF Types
  <2>2. CASE pc[c] = "message"
    <3>1. info' = [i EXCEPT ![m] = "NULL"] /\ TryWakeup(c, {s}, w, [i EXCEPT ![m] = "NULL"])
      BY <2>2, <1>m, <1>s DEF Success
    <3>2. TryWakeup(c, {s}, w, info') /\ {s} \in SUBSET Threads BY <1>1, <3>1
    <3>3. /\ why' \in [Threads -> Reasons] /\ wakeups' \in [Caps -> [Threads -> Nat]]
          /\ \A u \in Threads : IF u \in {s} /\ home[u] = c /\ Wakeable(u, w, info')
                                THEN why'[u] = "NotBlocked" ELSE why'[u] = w[u]
          /\ \A u \in Threads, d \in Caps : wakeups'[d][u] >= wakeups[d][u]
          /\ \A u \in {s} : home[u] # c => wakeups'[home[u]][u] > 0
      <4> HIDE DEF ThrowInv
      <4>1. Types BY <1>0
      <4> QED BY <3>2, <4>1, TryWakeupWakes
    <3> QED BY <1>1, <2>2, <3>3
  <2> QED BY <2>1, <2>2
<1>7. /\ pc' \in [Caps -> Locations] /\ (\A d \in Caps \ {c} : pc'[d] = pc[d])
      /\ pc'[c] = IF pc[c] = "throw" THEN "run" ELSE "sched"
  <2>1. pc' = [pc EXCEPT ![c] = IF pc[c] = "throw" THEN "run" ELSE "sched"] BY DEF Success
  <2>2. pc \in [Caps -> Locations] BY <1>0 DEF Types
  <2> QED BY <2>1, <2>2 DEF Locations
<1>8. raised' \in [Messages -> Nat] /\ \A x \in Messages \ {m} : raised'[x] = raised[x]
  <2>1. raised \in [Messages -> Nat] BY <1>0 DEF Types
  <2>2. raised' = raised \/ raised' = [raised EXCEPT ![m] = raised[m] + 1] BY <1>m
  <2>3. raised[m] + 1 \in Nat BY <1>1, <2>1
  <2> QED BY <2>1, <2>2, <2>3
<1>9. Types' BY <1>0, <1>2, <1>5, <1>6, <1>7, <1>8 DEF Types
<1>10. Shrinks
  <2>1. \A u \in Threads : \E d \in Nat : \A n \in DOMAIN blocked_exceptions'[u] :
        n + d \in DOMAIN blocked_exceptions[u] /\ blocked_exceptions'[u][n] = blocked_exceptions[u][n + d]
    BY <1>0, StillThere
  <2> QED BY <1>2, <2>1 DEF Shrinks
<1>11. InOnePlace' /\ \A x \in Messages : Placed(x)' => Placed(x) BY <1>0, <1>9, <1>10, ShrinkStep
<1>12. Frame(c)
  <2>1. \A u \in Threads : home[u] # c => why'[u] = why[u] BY <1>6
  <2>2. \A x \in Messages : info[x] = "WHITEHOLE" /\ info'[x] # "WHITEHOLE" => msg[c] = x
    BY <1>5, <1>m
  <2>3. \A x \in Messages : raised'[x] # raised[x] => msg[c] = x BY <1>8, <1>m
  <2> QED BY <1>2, <1>7, <2>1, <2>2, <2>3 DEF Frame
<1>13. \A u \in Threads : why[u] = "BlockedOnMsgThrowTo" => block_info[u] \in Messages /\ source[block_info[u]] = u
  BY <1>0 DEF WaitsOK, WaitOK
<1>14. \A x \in Messages : info[x] = "NULL" => info'[x] = "NULL" BY <1>1, <1>5
<1>15. \A x \in Messages \ {m} : Placed(x) => Placed(x)' BY <1>2, <1>m DEF Placed, Queued
<1>16. Told(c)
  <2>1. \A x \in Messages : Placed(x) => Placed(x)' \/ info'[x] = "NULL" \/ Throws(c, x)
    BY <1>5, <1>15, <1>m DEF Throws
  <2>2. \A x \in Messages : raised'[x] # raised[x] => info'[x] = "NULL" \/ Throws(c, x)
    BY <1>5, <1>8, <1>m DEF Throws
  <2>3. ASSUME NEW u \in Threads, why[u] = "BlockedOnMsgThrowTo", why'[u] # "BlockedOnMsgThrowTo"
        PROVE  info'[block_info[u]] = "NULL"
    <3>1. CASE w[u] = why[u] BY <1>6, <2>3, <3>1 DEF Wakeable
    <3>2. CASE w[u] # why[u]
      <4>1. u = t /\ i[block_info[t]] = "NULL" BY <2>3, <3>2
      <4>2. block_info[t] \in Messages \ {m} BY <1>1, <1>13, <1>s, <2>3, <4>1
      <4> QED BY <1>5, <4>1, <4>2
    <3> QED BY <3>1, <3>2
  <2>4. ASSUME NEW u \in Threads, why[u] = "BlockedOnMsgThrowTo", why'[u] = "BlockedOnMsgThrowTo", info'[block_info[u]] = "NULL"
        PROVE  \E d \in Caps : wakeups'[d][u] > 0
    <3>1. w[u] = "BlockedOnMsgThrowTo" BY <1>6, <2>4
    <3>2. block_info[u] \in Messages /\ source[block_info[u]] = u BY <1>13, <2>4
    <3>3. CASE block_info[u] = m
      <4>1. u = s /\ pc[c] = "message" BY <1>5, <1>s, <2>4, <3>2, <3>3
      <4>2. home[s] # c BY <1>6, <2>4, <3>1, <4>1 DEF Wakeable
      <4>3. home[s] \in Caps BY <1>0, <1>1 DEF Types
      <4> QED BY <1>6, <4>1, <4>2, <4>3
    <3>4. CASE block_info[u] # m
      <4>1. i[block_info[u]] = "NULL" BY <1>5, <2>4, <3>2, <3>4
      <4>2. info[block_info[u]] = "NULL"
        <5> SUFFICES ASSUME info[block_info[u]] # "NULL" PROVE FALSE OBVIOUS
        <5>1. block_info[u] = block_info[t] /\ why[t] = "BlockedOnMsgThrowTo" /\ w[t] = "NotBlocked"
          BY <3>2, <4>1
        <5>2. u = t BY <1>1, <1>13, <3>2, <5>1
        <5> QED BY <3>1, <5>1, <5>2
      <4>3. PICK d \in Caps : wakeups[d][u] > 0 BY <1>0, <2>4, <4>2, WakeupThere
      <4>4. wakeups'[d][u] >= wakeups[d][u] /\ wakeups[d][u] \in Nat /\ wakeups'[d][u] \in Nat
        BY <1>0, <1>6 DEF Types
      <4> QED BY <4>3, <4>4
    <3> QED BY <3>3, <3>4
  <2> QED BY <1>14, <2>1, <2>2, <2>3, <2>4 DEF Told
<1>17. CapabilityOK(c)'
  <2>0. CapabilityOK(c) BY <1>0 DEF CapabilitiesOK
  <2>1. CASE pc[c] = "throw"
    <3>1. s = running[c] /\ home[s] = c /\ why[s] = "NotBlocked" BY <1>0, <1>1, <2>1, RunningIsOwned
    <3>2. why'[s] = "NotBlocked" BY <1>1, <1>6, <2>1, <3>1
    <3> QED BY <1>0, <1>1, <1>2, <1>7, <2>1, <3>1, <3>2, ThrowToAssumption DEF CapabilityOK
  <2>2. CASE pc[c] = "message"
    <3>1. running[c] = NoThread BY <2>0, <2>2 DEF CapabilityOK
    <3> QED BY <1>2, <1>7, <2>2, <3>1 DEF CapabilityOK
  <2> QED BY <2>1, <2>2
<1>18. AllLookedAt'
  <2> SUFFICES ASSUME NEW u \in Threads PROVE LookedAt(u)' BY DEF AllLookedAt
  <2>1. blocked_exceptions[u] = <<>> \/ Running(u) \/ what_next'[u] = "Dead" \/ w[u] = "BlockedOnCCall" \/ ~Receives(u, mask'[u], w)
    OBVIOUS
  <2>2. Running(u) => Running(u)' BY DEF Running
  <2>3. why'[u] = w[u] \/ (w[u] # "BlockedOnCCall" /\ why'[u] = "NotBlocked") BY <1>6 DEF Wakeable
  <2> QED BY <2>1, <2>2, <2>3 DEF LookedAt, Receives, Interruptible
<1>19. \A x \in Messages : info'[x] = "unallocated" <=> info[x] = "unallocated" BY <1>1, <1>5
<1>20. \A u \in Threads : why[u] # "BlockedOnMsgThrowTo" => why'[u] # "BlockedOnMsgThrowTo" BY <1>6
<1>21. \A u \in Threads : why[u] # "BlockedOnMsgThrowTo" => WaitOK(u)' BY <1>20 DEF WaitOK
<1>22. \A x \in Messages : Throws(c, x) => ForceOK(x)'
  <2>1. \A d \in Caps : m \notin inbox[d] /\ (msg[d] = m => d = c) BY <1>0, <1>m, MsgPlace
  <2>2. \A u \in Threads : ~Queued(m, u) BY <1>0, <1>m, MsgPlace
  <2>3. ~Placed(m)' BY <1>1, <1>2, <2>1, <2>2, MessagesAreNumbers DEF Placed, Queued
  <2> QED BY <1>m, <2>3 DEF ForceOK, Throws
<1> QED BY <1>9, <1>11, <1>12, <1>16, <1>17, <1>18, <1>19, <1>21, <1>22, Together

\* THROWTO_BLOCKED preserves the invariant: the source waits, and the message is where
\* throwToMsg has put it.
LEMMA BlockedStep ==
  ASSUME ThrowInv, NEW c \in Caps, pc[c] \in {"throw", "message"}, Blocked(c),
         UNCHANGED <<home, mask, what_next, source, target, raised, wakeups, running, migrations>>,
         blocked_exceptions' \in [Threads -> Seq(Messages)], inbox' \in [Caps -> SUBSET Messages],
         InOnePlace', \A x \in Messages : Placed(x)' <=> Placed(x),
         \A u \in Threads : blocked_exceptions'[u] = <<>> \/ Running(u) \/ what_next[u] = "Dead"
                            \/ why[u] = "BlockedOnCCall" \/ ~Receives(u, mask[u], why)
  PROVE  ThrowInv'
<1>0. Types /\ AllocationOK /\ InOnePlace /\ CapabilitiesOK /\ WaitsOK /\ AllInForce BY DEF ThrowInv
<1>m. PICK m : m = msg[c] OBVIOUS
<1>s. PICK s : s = source[m] OBVIOUS
<1>1. /\ m \in Messages /\ info[m] = "WHITEHOLE" /\ s \in Threads
      /\ pc[c] = "throw" => s = running[c] /\ raised[m] = 0 /\ home[s] = c /\ why[s] = "NotBlocked"
      /\ Placed(m)
  BY <1>0, <1>m, <1>s, MsgIsLocked, RunningIsOwned, MsgPlace
<1>2. /\ msg' \in [Caps -> Messages \cup {None}] /\ msg'[c] = None /\ \A d \in Caps \ {c} : msg'[d] = msg[d]
  BY <1>0 DEF Blocked, Types
<1>3. /\ pc' \in [Caps -> Locations] /\ (\A d \in Caps \ {c} : pc'[d] = pc[d])
      /\ pc'[c] = IF pc[c] = "throw" THEN "blocking" ELSE "sched"
  <2>1. pc' = [pc EXCEPT ![c] = IF pc[c] = "throw" THEN "blocking" ELSE "sched"] BY DEF Blocked
  <2>2. pc \in [Caps -> Locations] BY <1>0 DEF Types
  <2> QED BY <2>1, <2>2 DEF Locations
<1>4. /\ info' \in [Messages -> Headers] /\ (\A x \in Messages \ {m} : info'[x] = info[x])
      /\ info'[m] = IF pc[c] = "throw" THEN "WHITEHOLE" ELSE "THROWTO"
  BY <1>0, <1>1, <1>m DEF Blocked, Types, Headers
<1>5. /\ why' \in [Threads -> Reasons] /\ block_info' \in [Threads -> Messages \cup {None}]
      /\ \A u \in Threads \ {s} : why'[u] = why[u] /\ block_info'[u] = block_info[u]
      /\ pc[c] = "throw" => why'[s] = "BlockedOnMsgThrowTo" /\ block_info'[s] = m
      /\ pc[c] # "throw" => why'[s] = why[s] /\ block_info'[s] = block_info[s]
  <2>1. why \in [Threads -> Reasons] /\ block_info \in [Threads -> Messages \cup {None}]
    BY <1>0 DEF Types
  <2>2. CASE pc[c] = "throw"
    <3>1. why' = [why EXCEPT ![s] = "BlockedOnMsgThrowTo"] /\ block_info' = [block_info EXCEPT ![s] = m]
      BY <1>m, <1>s, <2>2 DEF Blocked
    <3> QED BY <1>1, <2>1, <2>2, <3>1 DEF Reasons
  <2>3. CASE pc[c] # "throw" BY <2>1, <2>3 DEF Blocked
  <2> QED BY <2>2, <2>3
<1>6. Types' BY <1>0, <1>2, <1>3, <1>4, <1>5 DEF Types
<1>7. Frame(c)
  <2>1. \A u \in Threads : home[u] # c => home'[u] = home[u] /\ why'[u] = why[u] /\ block_info'[u] = block_info[u]
    BY <1>1, <1>5
  <2>2. \A x \in Messages : info[x] = "WHITEHOLE" /\ info'[x] # "WHITEHOLE" => msg[c] = x
    BY <1>4, <1>m
  <2> QED BY <1>2, <1>3, <2>1, <2>2 DEF Frame
<1>8. Told(c)
  <2>1. \A x \in Messages : info[x] = "NULL" => info'[x] = "NULL" BY <1>1, <1>4
  <2>2. ASSUME NEW u \in Threads, why[u] = "BlockedOnMsgThrowTo"
        PROVE  /\ block_info'[u] = block_info[u]
               /\ why'[u] = "BlockedOnMsgThrowTo"
               /\ info'[block_info[u]] = "NULL" => \E d \in Caps : wakeups'[d][u] > 0
    <3>1. block_info'[u] = block_info[u] /\ why'[u] = why[u] BY <1>1, <1>5, <2>2
    <3>2. block_info[u] \in Messages BY <1>0, <2>2 DEF WaitsOK, WaitOK
    <3>3. info'[block_info[u]] = "NULL" => info[block_info[u]] = "NULL" BY <1>4, <3>2
    <3> QED BY <1>0, <2>2, <3>1, <3>3, WakeupThere
  <2> QED BY <2>1, <2>2 DEF Told
<1>9. CapabilityOK(c)'
  <2>0. CapabilityOK(c) BY <1>0 DEF CapabilitiesOK
  <2>1. CASE pc[c] = "throw"
    <3>1. s = running[c] /\ home[s] = c /\ why'[s] = "BlockedOnMsgThrowTo" /\ block_info'[s] = m /\ info'[m] = "WHITEHOLE"
      BY <1>1, <1>4, <1>5, <2>1
    <3>2. \A d \in Caps : msg'[d] # m
      <4>1. \A d \in Caps : msg[d] = m => d = c BY <1>0, <1>m, MsgPlace
      <4> QED BY <1>1, <1>2, <4>1, MessagesAreNumbers
    <3> QED BY <1>1, <1>2, <1>3, <2>1, <3>1, <3>2, ThrowToAssumption DEF CapabilityOK
  <2>2. CASE pc[c] = "message"
    <3>1. running[c] = NoThread BY <2>0, <2>2 DEF CapabilityOK
    <3> QED BY <1>2, <1>3, <2>2, <3>1 DEF CapabilityOK
  <2> QED BY <2>1, <2>2
<1>10. AllLookedAt'
  <2> SUFFICES ASSUME NEW u \in Threads PROVE LookedAt(u)' BY DEF AllLookedAt
  <2>1. blocked_exceptions'[u] = <<>> \/ Running(u) \/ what_next[u] = "Dead" \/ why[u] = "BlockedOnCCall" \/ ~Receives(u, mask[u], why)
    OBVIOUS
  <2>2. Running(u) => Running(u)' BY DEF Running
  <2>3. why'[u] = why[u] \/ Running(u) BY <1>1, <1>5 DEF Running
  <2> QED BY <2>1, <2>2, <2>3 DEF LookedAt, Receives
<1>11. \A x \in Messages : info'[x] = "unallocated" <=> info[x] = "unallocated" BY <1>1, <1>4
<1>12. ASSUME NEW u \in Threads, why[u] # "BlockedOnMsgThrowTo" PROVE WaitOK(u)'
  <2>1. CASE why'[u] # "BlockedOnMsgThrowTo" BY <2>1 DEF WaitOK
  <2>2. CASE why'[u] = "BlockedOnMsgThrowTo"
    <3>1. u = s /\ pc[c] = "throw" BY <1>5, <1>12, <2>2
    <3>2. block_info'[u] = m /\ source'[m] = u /\ info'[m] = "WHITEHOLE" /\ Placed(m)' /\ raised'[m] = 0
      BY <1>1, <1>4, <1>5, <1>s, <3>1
    <3> QED BY <1>1, <3>2 DEF WaitOK
  <2> QED BY <2>1, <2>2
<1>13. \A x \in Messages : Throws(c, x) => ForceOK(x)'
  <2> SUFFICES ASSUME pc[c] = "throw" PROVE Waiting(m)' BY <1>m DEF Throws, ForceOK
  <2> QED BY <1>1, <1>4, <1>5, <1>s, ThrowToAssumption DEF Waiting
<1> QED BY <1>6, <1>7, <1>8, <1>9, <1>10, <1>11, <1>12, <1>13, Together

\* throwToSendMsg preserves the invariant: the message moves to an inbox.
LEMMA SendStep ==
  ASSUME ThrowInv, NEW c \in Caps, pc[c] \in {"throw", "message"}, NEW d \in Caps, Send(c, d),
         UNCHANGED <<home, source, target, running, migrations>>
  PROVE  ThrowInv'
<1>0. Types /\ AllocationOK /\ InOnePlace /\ CapabilitiesOK /\ AllLookedAt BY DEF ThrowInv
<1>m. PICK m : m = msg[c] OBVIOUS
<1>1. m \in Messages /\ Placed(m) /\ (\A x \in Caps : m \notin inbox[x] /\ (msg[x] = m => x = c)) /\ \A t \in Threads : ~Queued(m, t)
  BY <1>0, <1>m, MsgIsLocked, MsgPlace
<1>2. /\ inbox' = [inbox EXCEPT ![d] = @ \cup {m}] /\ Blocked(c) /\ msg' = [msg EXCEPT ![c] = None]
      /\ UNCHANGED <<mask, what_next, blocked_exceptions, raised, wakeups>>
  BY <1>m DEF Send, Blocked
<1>3. inbox' \in [Caps -> SUBSET Messages] /\ (\A x \in Caps \ {d} : inbox'[x] = inbox[x]) /\ inbox'[d] = inbox[d] \cup {m}
  BY <1>0, <1>1, <1>2 DEF Types
<1>4. msg'[c] = None /\ \A x \in Caps \ {c} : msg'[x] = msg[x] BY <1>0, <1>2 DEF Types
<1>5. InOnePlace'
  <2>1. \A x, y \in Caps : \A n \in Messages : n \in inbox'[x] /\ n \in inbox'[y] => x = y
    BY <1>0, <1>1, <1>3 DEF InOnePlace
  <2>2. \A x, y \in Caps : \A n \in Messages : n = msg'[x] /\ n = msg'[y] => x = y
    <3>1. \A x, y \in Caps : \A n \in Messages : n = msg[x] /\ n = msg[y] => x = y
      BY <1>0 DEF InOnePlace
    <3>2. \A x \in Caps : \A n \in Messages : n = msg'[x] => n = msg[x] BY <1>4, MessagesAreNumbers
    <3> QED BY <3>1, <3>2
  <2>3. \A x, y \in Caps : \A n \in Messages : ~(n \in inbox'[x] /\ n = msg'[y])
    BY <1>0, <1>1, <1>3, <1>4, MessagesAreNumbers DEF InOnePlace
  <2>4. \A t \in Threads, n \in Messages : Queued(n, t) => t = target[n] /\ \A x \in Caps : n \notin inbox'[x] /\ n # msg'[x]
    BY <1>0, <1>1, <1>3, <1>4, MessagesAreNumbers DEF InOnePlace
  <2>5. \A t \in Threads : \A n, o \in DOMAIN blocked_exceptions[t] : blocked_exceptions[t][n] = blocked_exceptions[t][o] => n = o
    BY <1>0 DEF InOnePlace
  <2> QED BY <1>2, <2>1, <2>2, <2>3, <2>4, <2>5 DEF InOnePlace, Queued
<1>6. \A x \in Messages : Placed(x)' <=> Placed(x)
  <2>1. \A x \in Messages : (\E y \in Caps : x \in inbox'[y] \/ msg'[y] = x) <=> (\E y \in Caps : x \in inbox[y] \/ msg[y] = x)
    <3> SUFFICES ASSUME NEW x \in Messages
                 PROVE  (\E y \in Caps : x \in inbox'[y] \/ msg'[y] = x) <=> (\E y \in Caps : x \in inbox[y] \/ msg[y] = x)
      OBVIOUS
    <3>1. CASE x = m BY <1>3, <1>m, <3>1
    <3>2. CASE x # m BY <1>3, <1>4, <1>m, <3>2, MessagesAreNumbers
    <3> QED BY <3>1, <3>2
  <2>2. \A x \in Messages, t \in Threads : Queued(x, t)' <=> Queued(x, t) BY <1>2 DEF Queued
  <2> QED BY <2>1, <2>2 DEF Placed
<1>7. \A u \in Threads : blocked_exceptions'[u] = <<>> \/ Running(u) \/ what_next[u] = "Dead"
                            \/ why[u] = "BlockedOnCCall" \/ ~Receives(u, mask[u], why)
  BY <1>0, <1>2 DEF AllLookedAt, LookedAt
<1>8. blocked_exceptions' \in [Threads -> Seq(Messages)] BY <1>0, <1>2 DEF Types
<1> QED BY <1>2, <1>3, <1>5, <1>6, <1>7, <1>8, BlockedStep

\* blockedThrowTo preserves the invariant: the message goes to the front of the queue of a
\* thread that cannot receive it.
LEMMA QueueStep ==
  ASSUME ThrowInv, NEW c \in Caps, pc[c] \in {"throw", "message"}, Queue(c, target[msg[c]]),
         UNCHANGED <<home, source, target, running, migrations>>
  PROVE  ThrowInv'
<1>0. Types /\ AllocationOK /\ InOnePlace /\ CapabilitiesOK /\ AllLookedAt BY DEF ThrowInv
<1>m. PICK m : m = msg[c] OBVIOUS
<1>t. PICK t : t = target[m] OBVIOUS
<1>1. /\ m \in Messages /\ Placed(m) /\ (\A x \in Caps : m \notin inbox[x] /\ (msg[x] = m => x = c)) /\ (\A u \in Threads : ~Queued(m, u))
      /\ t \in Threads
  BY <1>0, <1>m, <1>t, MsgIsLocked, MsgPlace
<1>2. /\ blocked_exceptions' = [blocked_exceptions EXCEPT ![t] = <<m>> \o @] /\ Blocked(c) /\ msg' = [msg EXCEPT ![c] = None]
      /\ UNCHANGED <<mask, what_next, raised, inbox, wakeups>> /\ Masked(t)
  BY <1>m, <1>t DEF Queue, WaitFirst, Blocked, mail
<1> DEFINE q == blocked_exceptions[t]
<1>3. q \in Seq(Messages) /\ <<m>> \o q \in Seq(Messages) BY <1>0, <1>1, QueueTypes
<1>4. /\ blocked_exceptions' \in [Threads -> Seq(Messages)] /\ blocked_exceptions'[t] = <<m>> \o q
      /\ \A u \in Threads \ {t} : blocked_exceptions'[u] = blocked_exceptions[u]
  BY <1>0, <1>1, <1>2, <1>3 DEF Types
<1>5. msg'[c] = None /\ \A x \in Caps \ {c} : msg'[x] = msg[x] BY <1>0, <1>2 DEF Types
<1>6. \A n \in DOMAIN (<<m>> \o q) : IF n = 1 THEN (<<m>> \o q)[n] = m ELSE n - 1 \in DOMAIN q /\ (<<m>> \o q)[n] = q[n - 1]
  BY <1>3
<1>7. \A n \in DOMAIN q : n + 1 \in DOMAIN (<<m>> \o q) /\ (<<m>> \o q)[n + 1] = q[n] BY <1>3
<1>8. 1 \in DOMAIN (<<m>> \o q) /\ (<<m>> \o q)[1] = m BY <1>3
<1>9. \A x, u : u \in Threads => (Queued(x, u)' <=> Queued(x, u) \/ (u = t /\ x = m))
  <2> SUFFICES ASSUME NEW x, NEW u \in Threads PROVE Queued(x, u)' <=> Queued(x, u) \/ (u = t /\ x = m)
    OBVIOUS
  <2>1. CASE u # t BY <1>4, <2>1 DEF Queued
  <2>2. CASE u = t
    <3>1. (\E n \in DOMAIN (<<m>> \o q) : (<<m>> \o q)[n] = x) <=> (\E n \in DOMAIN q : q[n] = x) \/ x = m
      <4>1. ASSUME NEW n \in DOMAIN (<<m>> \o q), (<<m>> \o q)[n] = x
            PROVE  (\E o \in DOMAIN q : q[o] = x) \/ x = m
        BY <1>6, <4>1
      <4>2. ASSUME NEW n \in DOMAIN q, q[n] = x
            PROVE  \E o \in DOMAIN (<<m>> \o q) : (<<m>> \o q)[o] = x
        BY <1>7, <4>2
      <4>3. x = m => \E o \in DOMAIN (<<m>> \o q) : (<<m>> \o q)[o] = x BY <1>8
      <4> QED BY <4>1, <4>2, <4>3
    <3> QED BY <1>4, <2>2, <3>1 DEF Queued
  <2> QED BY <2>1, <2>2
<1>10. InOnePlace'
  <2>1. \A x, y \in Caps : \A n \in Messages : n \in inbox'[x] /\ n \in inbox'[y] => x = y
    BY <1>0, <1>2 DEF InOnePlace
  <2>2. \A x, y \in Caps : \A n \in Messages : n = msg'[x] /\ n = msg'[y] => x = y
    <3>1. \A x, y \in Caps : \A n \in Messages : n = msg[x] /\ n = msg[y] => x = y
      BY <1>0 DEF InOnePlace
    <3>2. \A x \in Caps : \A n \in Messages : n = msg'[x] => n = msg[x] BY <1>5, MessagesAreNumbers
    <3> QED BY <3>1, <3>2
  <2>3. \A x, y \in Caps : \A n \in Messages : ~(n \in inbox'[x] /\ n = msg'[y])
    BY <1>0, <1>2, <1>5, MessagesAreNumbers DEF InOnePlace
  <2>4. ASSUME NEW u \in Threads, NEW n \in Messages, Queued(n, u)'
        PROVE  u = target[n] /\ \A x \in Caps : n \notin inbox'[x] /\ n # msg'[x]
    <3>1. CASE Queued(n, u) BY <1>0, <1>2, <1>5, <3>1, MessagesAreNumbers DEF InOnePlace
    <3>2. CASE u = t /\ n = m BY <1>1, <1>2, <1>5, <1>t, <3>2, MessagesAreNumbers
    <3> QED BY <1>9, <2>4, <3>1, <3>2
  <2>5. ASSUME NEW u \in Threads, NEW n \in DOMAIN blocked_exceptions'[u], NEW o \in DOMAIN blocked_exceptions'[u],
               blocked_exceptions'[u][n] = blocked_exceptions'[u][o]
        PROVE  n = o
    <3>1. CASE u # t BY <1>0, <1>4, <2>5, <3>1 DEF InOnePlace
    <3>2. CASE u = t
      <4> DEFINE r == <<m>> \o q
      <4>1. n \in DOMAIN r /\ o \in DOMAIN r /\ r[n] = r[o] /\ DOMAIN r \subseteq Nat
        BY <1>3, <1>4, <2>5, <3>2
      <4>2. \A x \in DOMAIN q : q[x] # m BY <1>1 DEF Queued
      <4>3. \A x, y \in DOMAIN q : q[x] = q[y] => x = y BY <1>0, <1>1 DEF InOnePlace
      <4>4. n = 1 <=> o = 1 BY <1>6, <4>1, <4>2
      <4>5. n # 1 => n - 1 = o - 1 BY <1>6, <4>1, <4>3, <4>4
      <4> HIDE DEF r
      <4>6. n \in Nat /\ o \in Nat BY <4>1
      <4> QED BY <4>4, <4>5, <4>6
    <3> QED BY <3>1, <3>2
  <2> QED BY <2>1, <2>2, <2>3, <2>4, <2>5 DEF InOnePlace, Queued
<1>11. \A x \in Messages : Placed(x)' <=> Placed(x)
  <2> SUFFICES ASSUME NEW x \in Messages PROVE Placed(x)' <=> Placed(x) OBVIOUS
  <2>1. CASE x = m BY <1>1, <1>9, <2>1 DEF Placed
  <2>2. CASE x # m
    <3>1. (\E y \in Caps : x \in inbox'[y] \/ msg'[y] = x) <=> (\E y \in Caps : x \in inbox[y] \/ msg[y] = x)
      BY <1>2, <1>5, <1>m, <2>2, MessagesAreNumbers
    <3>2. \A u \in Threads : Queued(x, u)' <=> Queued(x, u) BY <1>9, <2>2
    <3> QED BY <3>1, <3>2 DEF Placed
  <2> QED BY <2>1, <2>2
<1>12. why[t] = "BlockedOnCCall" \/ ~Receives(t, mask[t], why)
  BY <1>2 DEF Masked, WaitsForThrow, Receives, Interruptible
<1>13. ASSUME NEW u \in Threads
       PROVE  blocked_exceptions'[u] = <<>> \/ Running(u) \/ what_next[u] = "Dead"
                            \/ why[u] = "BlockedOnCCall" \/ ~Receives(u, mask[u], why)
  <2>1. CASE u = t BY <1>12, <2>1
  <2>2. CASE u # t BY <1>0, <1>4, <2>2 DEF AllLookedAt, LookedAt
  <2> QED BY <2>1, <2>2
<1> QED BY <1>2, <1>4, <1>10, <1>11, <1>13, BlockedStep, <1>0 DEF Types

\* throwToMsg about a dead thread preserves the invariant.
LEMMA TargetDeadStep ==
  ASSUME ThrowInv, NEW c \in Caps, pc[c] \in {"throw", "message"}, TargetDead(c, target[msg[c]]),
         UNCHANGED <<home, source, target, running, migrations>>
  PROVE  ThrowInv'
<1>0. Types /\ AllLookedAt BY DEF ThrowInv
<1>1. PICK t : t = target[msg[c]] OBVIOUS
<1>2. Success(c, why, info) /\ UNCHANGED <<block_info, mask, what_next, blocked_exceptions, raised, inbox>>
  BY DEF TargetDead
<1>3. /\ why \in [Threads -> Reasons] /\ info \in [Messages -> Headers]
      /\ mask' \in [Threads -> Masks] /\ what_next' \in [Threads -> States]
  BY <1>0, <1>2 DEF Types
<1>4. \A u \in Threads : blocked_exceptions[u] = <<>> \/ Running(u) \/ what_next'[u] = "Dead"
                            \/ why[u] = "BlockedOnCCall" \/ ~Receives(u, mask'[u], why)
  BY <1>0, <1>2 DEF AllLookedAt, LookedAt
<1> QED BY <1>1, <1>2, <1>3, <1>4, SuccessStep

\* throwToMsg that raises the exception preserves the invariant: the target's own throw is
\* revoked, and the target runs afterwards or was in no wait.
LEMMA RaiseStep ==
  ASSUME ThrowInv, NEW c \in Caps, pc[c] \in {"throw", "message"}, Raise(c, target[msg[c]]),
         UNCHANGED <<home, source, target, running, migrations>>
  PROVE  ThrowInv'
<1>0. Types /\ AllocationOK /\ CapabilitiesOK /\ WaitsOK /\ AllLookedAt BY DEF ThrowInv
<1>1. PICK t : t = target[msg[c]] OBVIOUS
<1>t. t \in Threads /\ msg[c] \in Messages BY <1>0, <1>1, MsgIsLocked
<1>2. PICK w : w = Unblocked(t, why) OBVIOUS
<1>3. PICK i : i = Revoked(t, why, info) OBVIOUS
<1>4. /\ Success(c, w, i) /\ UNCHANGED <<block_info, blocked_exceptions, inbox>> /\ RaiseAsync(t, mask[t], why)
      /\ raised' = [raised EXCEPT ![msg[c]] = @ + 1] /\ home[t] = c
      /\ why[t] \in {"NotBlocked", "BlockedOnMVar", "BlockedOnBlackHole"} \/ WaitsForThrow(t, "THROWTO")
  BY <1>1, <1>2, <1>3 DEF Raise, Local
<1>5. mask[t] \in Masks BY <1>0, <1>t DEF Types
<1>6. /\ mask' \in [Threads -> Masks] /\ what_next' \in [Threads -> States]
      /\ \A u \in Threads \ {t} : mask'[u] = mask[u] /\ what_next'[u] = what_next[u]
      /\ what_next'[t] = "Dead" \/ (mask'[t] # "unmasked" /\ what_next'[t] = what_next[t])
  BY <1>0, <1>4, <1>5, <1>t, RaiseAsyncSets
<1>7. /\ w \in [Threads -> Reasons] /\ w[t] = "NotBlocked" /\ \A u \in Threads \ {t} : w[u] = why[u]
  BY <1>0, <1>2, <1>4, <1>t DEF Unblocked, Types, WaitsForThrow, Reasons
<1>8. why[t] = "BlockedOnMsgThrowTo" => block_info[t] \in Messages BY <1>0, <1>t DEF WaitsOK, WaitOK
<1>9. /\ i \in [Messages -> Headers]
      /\ \A x \in Messages : i[x] # info[x] => x = block_info[t] /\ why[t] = "BlockedOnMsgThrowTo" /\ info[x] = "THROWTO" /\ i[x] = "NULL"
      /\ why[t] = "BlockedOnMsgThrowTo" => i[block_info[t]] = "NULL"
  <2>1. info \in [Messages -> Headers] BY <1>0 DEF Types
  <2>2. CASE why[t] = "BlockedOnMsgThrowTo"
    <3>1. i = [info EXCEPT ![block_info[t]] = "NULL"] BY <1>3, <2>2 DEF Revoked
    <3>2. info[block_info[t]] = "THROWTO" BY <1>4, <2>2 DEF WaitsForThrow
    <3> QED BY <1>8, <2>1, <2>2, <3>1, <3>2 DEF Headers
  <2>3. CASE why[t] # "BlockedOnMsgThrowTo"
    <3>1. i = info BY <1>3, <2>3 DEF Revoked
    <3> QED BY <2>1, <2>3, <3>1
  <2> QED BY <2>2, <2>3
<1>10. ASSUME NEW u \in Threads
       PROVE  blocked_exceptions[u] = <<>> \/ Running(u) \/ what_next'[u] = "Dead"
                            \/ w[u] = "BlockedOnCCall" \/ ~Receives(u, mask'[u], w)
  <2>1. CASE u = t BY <1>6, <1>7, <2>1 DEF Receives, Interruptible
  <2>2. CASE u # t BY <1>0, <1>6, <1>7, <2>2 DEF AllLookedAt, LookedAt, Receives
  <2> QED BY <2>1, <2>2
<1>11. \A u \in Threads : w[u] # why[u] =>
             u = t /\ home[t] = c /\ w[t] = "NotBlocked" /\ (why[t] = "BlockedOnMsgThrowTo" => i[block_info[t]] = "NULL")
  BY <1>4, <1>7, <1>9
<1>12. \A x \in Messages : i[x] # info[x] =>
             /\ t \in Threads /\ x = block_info[t] /\ why[t] = "BlockedOnMsgThrowTo" /\ w[t] = "NotBlocked"
             /\ info[x] = "THROWTO" /\ i[x] = "NULL"
  BY <1>t, <1>7, <1>9
<1>13. w \in [Threads -> Reasons] /\ i \in [Messages -> Headers] BY <1>7, <1>9
<1>14. /\ Success(c, w, i) /\ mask' \in [Threads -> Masks] /\ what_next' \in [Threads -> States]
       /\ UNCHANGED <<home, source, target, running, migrations, block_info, blocked_exceptions, inbox>>
       /\ raised' = raised \/ raised' = [raised EXCEPT ![msg[c]] = @ + 1]
  BY <1>4, <1>6
<1> HIDE DEF ThrowInv
<1> QED BY <1>1, <1>10, <1>11, <1>12, <1>13, <1>14, SuccessStep

\* throwToMsg that wakes the target itself preserves the invariant.
LEMMA RetryStep ==
  ASSUME ThrowInv, NEW c \in Caps, pc[c] \in {"throw", "message"}, Retry(c, target[msg[c]]),
         UNCHANGED <<home, source, target, running, migrations>>
  PROVE  ThrowInv'
<1>0. Types /\ AllocationOK /\ CapabilitiesOK /\ WaitsOK /\ AllLookedAt BY DEF ThrowInv
<1>1. PICK t : t = target[msg[c]] OBVIOUS
<1>t. t \in Threads /\ t # source[msg[c]] /\ (pc[c] = "throw" => running[c] = source[msg[c]])
  BY <1>0, <1>1, MsgIsLocked
<1>2. /\ UNCHANGED <<block_info, mask, what_next, blocked_exceptions, info, raised, mail, pc, msg>>
      /\ WaitsForThrow(t, "NULL") \/ why[t] = "ThreadMigrating"
      /\ why' = [why EXCEPT ![t] = "NotBlocked"] /\ home[t] = c
  BY <1>1 DEF Retry, CanGoOn, Local
<1>3. why' \in [Threads -> Reasons] /\ why'[t] = "NotBlocked" /\ \A u \in Threads \ {t} : why'[u] = why[u]
  BY <1>0, <1>2, <1>t DEF Types, Reasons
<1>6. Types' BY <1>0, <1>2, <1>3 DEF Types, mail
<1>7. CapabilityOK(c)'
  <2>1. CapabilityOK(c) BY <1>0 DEF CapabilitiesOK
  <2>2. CASE pc[c] = "message"
    <3>1. running[c] = NoThread BY <2>1, <2>2 DEF CapabilityOK
    <3> QED BY <1>2, <2>1, <2>2, <3>1 DEF CapabilityOK
  <2>3. CASE pc[c] = "throw"
    <3>1. running[c] \in Threads \ {t} BY <1>0, <1>t, <2>3, RunningIsOwned
    <3>2. why'[running[c]] = why[running[c]] BY <1>3, <3>1
    <3> QED BY <1>2, <2>1, <2>3, <3>2 DEF CapabilityOK
  <2> QED BY <2>2, <2>3
<1>8. AllLookedAt'
  <2> SUFFICES ASSUME NEW u \in Threads PROVE LookedAt(u)' BY DEF AllLookedAt
  <2>1. LookedAt(u) BY <1>0 DEF AllLookedAt
  <2>2. Running(u) => Running(u)' BY DEF Running
  <2>3. why'[u] = why[u] \/ (why[u] # "BlockedOnCCall" /\ why'[u] \notin Interruptible)
    BY <1>2, <1>3 DEF WaitsForThrow, Interruptible
  <2> QED BY <1>2, <2>1, <2>2, <2>3, LookedKept
<1>9. \A u \in Threads : home[u] # c => why'[u] = why[u] BY <1>2, <1>3
<1>10. \A u \in Threads : /\ why[u] # "BlockedOnMsgThrowTo" => why'[u] # "BlockedOnMsgThrowTo"
                          /\ why[u] = "BlockedOnMsgThrowTo" /\ why'[u] # "BlockedOnMsgThrowTo" => info[block_info[u]] = "NULL"
  BY <1>2, <1>3 DEF WaitsForThrow
<1>11. UNCHANGED message /\ UNCHANGED inbox /\ UNCHANGED wakeups BY <1>2 DEF message, mail
<1> QED BY <1>0, <1>2, <1>6, <1>7, <1>8, <1>9, <1>10, <1>11, QuietStep, WakeupThere

\* Each outcome of throwToMsg preserves the invariant.
LEMMA ThrowToMsgStep ==
  ASSUME ThrowInv, NEW c \in Caps, ThrowToMsg(c)
  PROVE  ThrowInv'
<1>0. Types /\ AllocationOK /\ CapabilitiesOK BY DEF ThrowInv
<1>1. PICK t : t = target[msg[c]] OBVIOUS
<1>2. pc[c] \in {"throw", "message"} /\ UNCHANGED <<home, source, target, running, migrations>>
  BY DEF ThrowToMsg
<1>3. t \in Threads /\ home[t] \in Caps BY <1>0, <1>1, <1>2, MsgIsLocked DEF Types
<1>4. TargetDead(c, t) \/ TargetElsewhere(c, t) \/ Queue(c, t) \/ Raise(c, t) \/ Collision(c, t) \/ Retry(c, t)
  BY <1>1 DEF ThrowToMsg
<1>5. CASE TargetDead(c, t) BY <1>1, <1>2, <1>5, TargetDeadStep
<1>6. CASE TargetElsewhere(c, t) BY <1>2, <1>3, <1>6, SendStep DEF TargetElsewhere
<1>7. CASE Queue(c, t) BY <1>1, <1>2, <1>7, QueueStep
<1>8. CASE Raise(c, t) BY <1>1, <1>2, <1>8, RaiseStep
<1>9. CASE Collision(c, t) BY <1>2, <1>9, SendStep DEF Collision
<1>10. CASE Retry(c, t) BY <1>1, <1>2, <1>10, RetryStep
<1> QED BY <1>4, <1>5, <1>6, <1>7, <1>8, <1>9, <1>10

\* A new throw preserves the invariant: the message is allocated locked, on this capability
\* only.
LEMMA ThrowStep ==
  ASSUME ThrowInv, NEW c \in Caps, Throw(c)
  PROVE  ThrowInv'
<1>0. Types /\ AllocationOK /\ InOnePlace /\ CapabilitiesOK /\ WaitsOK /\ AllInForce /\ AllLookedAt
  BY DEF ThrowInv
<1> DEFINE s == running[c]
<1>1. PICK m \in Messages, t \in Threads \ {s} :
          /\ info[m] = "unallocated"
          /\ info' = [info EXCEPT ![m] = "WHITEHOLE"]
          /\ source' = [source EXCEPT ![m] = s]
          /\ target' = [target EXCEPT ![m] = t]
          /\ msg' = [msg EXCEPT ![c] = m]
  BY DEF Throw
<1>2. /\ pc[c] = "run" /\ pc' = [pc EXCEPT ![c] = "throw"] /\ UNCHANGED <<thread, raised, mail, running, migrations>>
  BY DEF Throw
<1>3. s \in Threads /\ home[s] = c /\ why[s] = "NotBlocked" BY <1>0, <1>2, RunningIsOwned
<1>4. source[m] = NoThread /\ raised[m] = 0 /\ ~Placed(m) BY <1>0, <1>1 DEF AllocationOK
<1>5. (\A d \in Caps : m \notin inbox[d] /\ msg[d] # m) /\ \A u \in Threads : ~Queued(m, u)
  BY <1>4 DEF Placed
<1>6. /\ info' \in [Messages -> Headers] /\ source' \in [Messages -> Threads \cup {NoThread}] /\ target' \in [Messages -> Threads \cup {NoThread}]
      /\ info'[m] = "WHITEHOLE" /\ source'[m] = s /\ target'[m] = t
      /\ \A x \in Messages \ {m} : info'[x] = info[x] /\ source'[x] = source[x] /\ target'[x] = target[x]
  BY <1>0, <1>1, <1>3 DEF Types, Headers
<1>7. /\ msg' \in [Caps -> Messages \cup {None}] /\ msg'[c] = m /\ (\A d \in Caps \ {c} : msg'[d] = msg[d])
      /\ pc' \in [Caps -> Locations] /\ pc'[c] = "throw" /\ (\A d \in Caps \ {c} : pc'[d] = pc[d])
  BY <1>0, <1>1, <1>2 DEF Types, Locations
<1>8. Types' BY <1>0, <1>2, <1>6, <1>7 DEF Types, thread, mail
<1>9. msg[c] = None BY <1>0, <1>2 DEF CapabilitiesOK, CapabilityOK
<1>10. \A x, u : Queued(x, u)' <=> Queued(x, u) BY <1>2 DEF Queued, thread
<1>11. \A x \in Messages \ {m} : Placed(x)' <=> Placed(x)
  <2>1. \A x \in Messages \ {m} : (\E y \in Caps : x \in inbox'[y] \/ msg'[y] = x) <=> (\E y \in Caps : x \in inbox[y] \/ msg[y] = x)
    BY <1>2, <1>7, <1>9, MessagesAreNumbers DEF mail
  <2> QED BY <1>10, <2>1 DEF Placed
<1>12. AllocationOK'
  <2>1. \A x \in Messages \ {m} :
            IF info'[x] = "unallocated"
            THEN source'[x] = NoThread /\ raised'[x] = 0 /\ ~Placed(x)'
            ELSE source'[x] \in Threads /\ target'[x] \in Threads /\ source'[x] # target'[x]
    BY <1>0, <1>2, <1>6, <1>11 DEF AllocationOK
  <2> QED BY <1>1, <1>3, <1>6, <2>1 DEF AllocationOK
<1>13. InOnePlace'
  <2>1. \A x, y \in Caps : \A n \in Messages : n \in inbox'[x] /\ n \in inbox'[y] => x = y
    BY <1>0, <1>2 DEF InOnePlace, mail
  <2>2. \A x, y \in Caps : \A n \in Messages : n = msg'[x] /\ n = msg'[y] => x = y
    <3>1. \A x, y \in Caps : \A n \in Messages : n = msg[x] /\ n = msg[y] => x = y
      BY <1>0 DEF InOnePlace
    <3>2. \A x \in Caps : msg'[x] = IF x = c THEN m ELSE msg[x] BY <1>7
    <3>3. \A x \in Caps : msg[x] # m BY <1>5
    <3> HIDE DEF s
    <3> QED BY <3>1, <3>2, <3>3
  <2>3. \A x, y \in Caps : \A n \in Messages : ~(n \in inbox'[x] /\ n = msg'[y])
    BY <1>0, <1>2, <1>5, <1>7 DEF InOnePlace, mail
  <2>4. \A u \in Threads, n \in Messages : Queued(n, u)' => u = target'[n] /\ \A x \in Caps : n \notin inbox'[x] /\ n # msg'[x]
    BY <1>0, <1>2, <1>5, <1>6, <1>7, <1>10 DEF InOnePlace, mail
  <2>5. \A u \in Threads : \A n, o \in DOMAIN blocked_exceptions[u] : blocked_exceptions[u][n] = blocked_exceptions[u][o] => n = o
    BY <1>0 DEF InOnePlace
  <2>6. blocked_exceptions' = blocked_exceptions BY <1>2 DEF thread
  <2> QED BY <2>1, <2>2, <2>3, <2>4, <2>5, <2>6 DEF InOnePlace
<1>14. Frame(c)
  <2>1. \A x \in Messages : info[x] = "WHITEHOLE" => info'[x] = "WHITEHOLE" BY <1>6
  <2>2. \A x \in Messages : info[x] # "unallocated" => source'[x] = source[x] BY <1>1, <1>6
  <2>3. info[msg'[c]] # "WHITEHOLE" BY <1>1, <1>7
  <2> QED BY <1>2, <1>7, <2>1, <2>2, <2>3 DEF Frame, thread
<1>15. Told(c)
  <2>1. \A x \in Messages : info[x] = "NULL" <=> info'[x] = "NULL" BY <1>1, <1>6
  <2>2. \A x \in Messages : Placed(x) => Placed(x)' BY <1>4, <1>11
  <2>3. \A u \in Threads : why[u] = "BlockedOnMsgThrowTo" => block_info[u] \in Messages
    BY <1>0 DEF WaitsOK, WaitOK
  <2> QED BY <1>0, <1>2, <2>1, <2>2, <2>3, WakeupThere DEF Told, thread, mail
<1>16. CapabilityOK(c)'
  BY <1>2, <1>3, <1>4, <1>6, <1>7, MessagesAreNumbers, ThrowToAssumption DEF CapabilityOK,
     thread
<1>17. CapabilitiesOK' BY <1>0, <1>14, <1>16, OnCapsStep
<1>18. \A u \in Threads : why[u] # "BlockedOnMsgThrowTo" => WaitOK(u)' BY <1>2 DEF WaitOK, thread
<1>19. WaitsOK' BY <1>0, <1>14, <1>15, <1>18, WaitsStep
<1>20. \A x \in Messages : ~Placed(x) \/ Throws(c, x) => ForceOK(x)'
  <2> SUFFICES ASSUME NEW x \in Messages, ~Placed(x) PROVE ForceOK(x)' BY <1>2 DEF Throws
  <2>1. CASE x = m BY <1>7, <2>1 DEF ForceOK, Throws
  <2>2. CASE x # m BY <1>11, <2>2 DEF ForceOK
  <2> QED BY <2>1, <2>2
<1>21. AllInForce' BY <1>0, <1>8, <1>12, <1>14, <1>15, <1>20, InForceStep
<1>22. AllLookedAt' BY <1>0, <1>2 DEF AllLookedAt, LookedAt, Running, Receives, thread
<1> QED BY <1>8, <1>12, <1>13, <1>17, <1>19, <1>21, <1>22 DEF ThrowInv

\* executeMessage preserves the invariant: the message moves from the inbox to the
\* capability, or has been revoked and is forgotten.
LEMMA TakeMessageStep ==
  ASSUME ThrowInv, NEW c \in Caps, NEW m \in Messages, TakeMessage(c, m)
  PROVE  ThrowInv'
<1>0. Types /\ AllocationOK /\ InOnePlace /\ CapabilitiesOK /\ WaitsOK /\ AllInForce /\ AllLookedAt
  BY DEF ThrowInv
<1>1. /\ pc[c] = "sched" /\ m \in inbox[c] /\ info[m] # "WHITEHOLE" /\ inbox' = [inbox EXCEPT ![c] = @ \ {m}]
      /\ UNCHANGED <<thread, source, target, raised, wakeups, running, migrations>>
  BY DEF TakeMessage
<1>2. \/ info[m] = "NULL" /\ UNCHANGED <<info, pc, msg>>
      \/ info[m] # "NULL" /\ info' = [info EXCEPT ![m] = "WHITEHOLE"] /\ pc' = [pc EXCEPT ![c] = "message"] /\ msg' = [msg EXCEPT ![c] = m]
  BY DEF TakeMessage
<1>3. /\ inbox' \in [Caps -> SUBSET Messages] /\ inbox'[c] = inbox[c] \ {m} /\ \A d \in Caps \ {c} : inbox'[d] = inbox[d]
  BY <1>0, <1>1 DEF Types
<1>4. msg[c] = None /\ running[c] = NoThread BY <1>0, <1>1 DEF CapabilitiesOK, CapabilityOK
<1>5. info[m] # "unallocated"
  <2>1. Placed(m) BY <1>1 DEF Placed
  <2> QED BY <1>0, <2>1 DEF AllocationOK
<1>t. info \in [Messages -> Headers] /\ msg \in [Caps -> Messages \cup {None}] /\ pc \in [Caps -> Locations]
  BY <1>0 DEF Types
<1>6. /\ info' \in [Messages -> Headers] /\ (\A x \in Messages \ {m} : info'[x] = info[x])
      /\ info'[m] = IF info[m] = "NULL" THEN "NULL" ELSE "WHITEHOLE"
  <2>1. CASE info[m] = "NULL" BY <1>2, <1>t, <2>1
  <2>2. CASE info[m] # "NULL" BY <1>2, <1>t, <2>2 DEF Headers
  <2> QED BY <2>1, <2>2
<1>7. /\ msg' \in [Caps -> Messages \cup {None}] /\ (\A d \in Caps \ {c} : msg'[d] = msg[d])
      /\ msg'[c] = IF info[m] = "NULL" THEN None ELSE m
  <2>1. CASE info[m] = "NULL" BY <1>2, <1>4, <1>t, <2>1
  <2>2. CASE info[m] # "NULL" BY <1>2, <1>t, <2>2
  <2> QED BY <2>1, <2>2
<1>8. /\ pc' \in [Caps -> Locations] /\ (\A d \in Caps \ {c} : pc'[d] = pc[d])
      /\ pc'[c] = IF info[m] = "NULL" THEN "sched" ELSE "message"
  <2>1. CASE info[m] = "NULL" BY <1>1, <1>2, <1>t, <2>1
  <2>2. CASE info[m] # "NULL" BY <1>2, <1>t, <2>2 DEF Locations
  <2> QED BY <2>1, <2>2
<1>9. Types' BY <1>0, <1>1, <1>3, <1>6, <1>7, <1>8 DEF Types, thread
<1>10. \A x, u : Queued(x, u)' <=> Queued(x, u) BY <1>1 DEF Queued, thread
<1>11. InOnePlace'
  <2>0. \A x \in Caps : inbox'[x] \subseteq inbox[x] BY <1>3
  <2>1. \A x, y \in Caps : \A n \in Messages : n \in inbox'[x] /\ n \in inbox'[y] => x = y
    <3>1. \A x, y \in Caps : \A n \in Messages : n \in inbox[x] /\ n \in inbox[y] => x = y
      BY <1>0 DEF InOnePlace
    <3> QED BY <2>0, <3>1
  <2>a. \A y \in Caps : msg'[y] = msg[y] \/ (y = c /\ msg'[y] = m) BY <1>4, <1>7
  <2>b. \A d \in Caps : msg[d] # m BY <1>0, <1>1 DEF InOnePlace
  <2>2. \A x, y \in Caps : \A n \in Messages : n = msg'[x] /\ n = msg'[y] => x = y
    <3>1. \A x, y \in Caps : \A n \in Messages : n = msg[x] /\ n = msg[y] => x = y
      BY <1>0 DEF InOnePlace
    <3> QED BY <2>a, <2>b, <3>1
  <2>3. \A x, y \in Caps : \A n \in Messages : ~(n \in inbox'[x] /\ n = msg'[y])
    <3>1. \A x, y \in Caps : \A n \in Messages : ~(n \in inbox[x] /\ n = msg[y])
      BY <1>0 DEF InOnePlace
    <3>2. \A x \in Caps : m \notin inbox'[x]
      <4>1. \A x \in Caps : m \in inbox[x] => x = c BY <1>0, <1>1 DEF InOnePlace
      <4> QED BY <1>3, <4>1
    <3> QED BY <2>0, <2>a, <3>1, <3>2
  <2>4. \A u \in Threads, n \in Messages : Queued(n, u)' => u = target'[n] /\ \A x \in Caps : n \notin inbox'[x] /\ n # msg'[x]
    <3>1. \A u \in Threads, n \in Messages : Queued(n, u) => u = target[n] /\ \A x \in Caps : n \notin inbox[x] /\ n # msg[x]
      BY <1>0 DEF InOnePlace
    <3>2. \A u \in Threads : ~Queued(m, u) BY <1>1, <3>1
    <3> QED BY <1>1, <1>10, <2>0, <2>a, <3>1, <3>2
  <2>5. \A u \in Threads : \A n, o \in DOMAIN blocked_exceptions[u] : blocked_exceptions[u][n] = blocked_exceptions[u][o] => n = o
    BY <1>0 DEF InOnePlace
  <2>6. blocked_exceptions' = blocked_exceptions BY <1>1 DEF thread
  <2> QED BY <2>1, <2>2, <2>3, <2>4, <2>5, <2>6 DEF InOnePlace
<1>12. \A x \in Messages : Placed(x)' => Placed(x)
  <2> SUFFICES ASSUME NEW x \in Messages, Placed(x)' PROVE Placed(x) OBVIOUS
  <2>1. CASE x = m BY <1>1, <2>1 DEF Placed
  <2>2. CASE x # m
    <3>1. (\E y \in Caps : x \in inbox'[y] \/ msg'[y] = x) => (\E y \in Caps : x \in inbox[y] \/ msg[y] = x)
      BY <1>3, <1>4, <1>7, <2>2
    <3> QED BY <1>10, <3>1 DEF Placed
  <2> QED BY <2>1, <2>2
<1>13. \A x \in Messages : Placed(x) => Placed(x)' \/ info'[x] = "NULL"
  <2> SUFFICES ASSUME NEW x \in Messages, Placed(x) PROVE Placed(x)' \/ info'[x] = "NULL" OBVIOUS
  <2>1. CASE x = m BY <1>6, <1>7, <2>1 DEF Placed
  <2>2. CASE x # m
    <3>1. (\E y \in Caps : x \in inbox[y] \/ msg[y] = x) => (\E y \in Caps : x \in inbox'[y] \/ msg'[y] = x)
      BY <1>3, <1>4, <1>7, <2>2, MessagesAreNumbers
    <3> QED BY <1>10, <3>1 DEF Placed
  <2> QED BY <2>1, <2>2
<1>14. Frame(c)
  <2>1. \A x \in Messages : info[x] = "WHITEHOLE" => info'[x] = "WHITEHOLE" BY <1>6
  <2>2. msg'[c] = None \/ info[msg'[c]] # "WHITEHOLE" BY <1>1, <1>7
  <2> QED BY <1>1, <1>7, <1>8, <2>1, <2>2 DEF Frame, thread
<1>15. Told(c)
  <2>1. \A x \in Messages : info[x] = "NULL" <=> info'[x] = "NULL" BY <1>6
  <2>3. \A u \in Threads : why[u] = "BlockedOnMsgThrowTo" => block_info[u] \in Messages
    BY <1>0 DEF WaitsOK, WaitOK
  <2> QED BY <1>0, <1>1, <1>13, <2>1, <2>3, WakeupThere DEF Told, thread
<1>16. CapabilityOK(c)' BY <1>1, <1>4, <1>6, <1>7, <1>8, MessagesAreNumbers DEF CapabilityOK
<1>17. AllLookedAt' BY <1>0, <1>1 DEF AllLookedAt, LookedAt, Running, Receives, thread
<1>18. \A u \in Threads : why[u] # "BlockedOnMsgThrowTo" => WaitOK(u)' BY <1>1 DEF WaitOK, thread
<1>19. \A x \in Messages : Throws(c, x) => ForceOK(x)' BY <1>1 DEF Throws
<1>20. \A x \in Messages : info'[x] = "unallocated" <=> info[x] = "unallocated" BY <1>5, <1>6
<1> QED BY <1>1, <1>9, <1>11, <1>12, <1>14, <1>15, <1>16, <1>17, <1>18, <1>19, <1>20, Together

\* threadPaused, resumeThread or unmaskAsyncExceptions# on c looks at what waits for t, with
\* mask k: w and i are the reason and the headers then.
Looking(c, t, k, w, i) ==
  /\ home[t] = c /\ k \in Masks
  /\ w \in [Threads -> Reasons] /\ i \in [Messages -> Headers]
  /\ \A u \in Threads \ {t} : w[u] = why[u]
  /\ running[c] \in {t, NoThread} /\ pc[c] \in {"run", "blocking", "sched"}
  /\ \/ running'[c] = t /\ pc'[c] \in {"run", "finish"}
     \/ running'[c] = NoThread /\ pc'[c] = "sched" /\ k = mask[t]
  /\ IF pc[c] = "blocking"
     THEN /\ running[c] = t /\ w = why /\ running'[c] = NoThread
          /\ i[block_info[t]] = "THROWTO"
          /\ \A x \in Messages \ {block_info[t]} : i[x] = info[x]
     ELSE /\ i = info /\ why[t] # "BlockedOnMsgThrowTo" /\ w[t] # "BlockedOnMsgThrowTo"
          /\ running'[c] = t => w[t] = "NotBlocked"

\* What such a step does beside maybePerformBlockedException.
AroundPerform(c) ==
  /\ UNCHANGED <<home, block_info, source, target, inbox, msg, migrations>>
  /\ pc' \in [Caps -> Locations] /\ running' \in [Caps -> Threads \cup {NoThread}]
  /\ \A d \in Caps \ {c} : running'[d] = running[d] /\ pc'[d] = pc[d]

\* t's own throw is the only one that can look different then: block_throwto has unlocked
\* it.
LEMMA OwnThrowSeen ==
  ASSUME ThrowInv, NEW c \in Caps, NEW t \in Threads, NEW k, NEW w, NEW i, Looking(c, t, k, w, i)
  PROVE  /\ msg[c] = None
         /\ w[t] = "BlockedOnMsgThrowTo" <=> pc[c] = "blocking"
         /\ why[t] = "BlockedOnMsgThrowTo" <=> pc[c] = "blocking"
         /\ pc[c] = "blocking" => block_info[t] \in Messages /\ source[block_info[t]] = t /\ info[block_info[t]] = "WHITEHOLE"
         /\ \A x \in Messages : i[x] # info[x] => pc[c] = "blocking" /\ x = block_info[t] /\ i[x] = "THROWTO"
<1>0. Types /\ CapabilitiesOK /\ WaitsOK BY DEF ThrowInv
<1>1. CapabilityOK(c) BY <1>0 DEF CapabilitiesOK
<1>2. msg[c] = None BY <1>1 DEF Looking, CapabilityOK
<1>3. CASE pc[c] = "blocking"
  <2>1. why[t] = "BlockedOnMsgThrowTo" /\ w = why BY <1>0, <1>3, RunningIsOwned DEF Looking
  <2>2. block_info[t] \in Messages /\ source[block_info[t]] = t /\ info[block_info[t]] = "WHITEHOLE"
    BY <1>0, <1>3, BlockingHolds DEF Looking
  <2> QED BY <1>2, <1>3, <2>1, <2>2 DEF Looking
<1>4. CASE pc[c] # "blocking" BY <1>2, <1>4 DEF Looking
<1> QED BY <1>3, <1>4

\* Nothing to perform: what waited, if anything, had been revoked.
LEMMA NothingStep ==
  ASSUME ThrowInv, NEW c \in Caps, NEW t \in Threads, NEW k, NEW w, NEW i, Looking(c, t, k, w, i), AroundPerform(c),
         NothingPerformed(t, k, w, i)
  PROVE  ThrowInv'
<1>0. Types /\ AllocationOK /\ InOnePlace /\ CapabilitiesOK /\ WaitsOK /\ AllInForce /\ AllLookedAt
  BY DEF ThrowInv
<1>1. /\ msg[c] = None
      /\ w[t] = "BlockedOnMsgThrowTo" <=> pc[c] = "blocking"
      /\ why[t] = "BlockedOnMsgThrowTo" <=> pc[c] = "blocking"
      /\ pc[c] = "blocking" => block_info[t] \in Messages /\ source[block_info[t]] = t /\ info[block_info[t]] = "WHITEHOLE"
      /\ \A x \in Messages : i[x] # info[x] => pc[c] = "blocking" /\ x = block_info[t] /\ i[x] = "THROWTO"
  BY OwnThrowSeen
<1>2. /\ mask' = [mask EXCEPT ![t] = k] /\ info' = i /\ why' = w /\ UNCHANGED <<what_next, raised, wakeups>>
      /\ \/ Receives(t, k, w) /\ blocked_exceptions' = [blocked_exceptions EXCEPT ![t] = <<>>]
            /\ \A n \in DOMAIN blocked_exceptions[t] : i[blocked_exceptions[t][n]] = "NULL"
         \/ ~Receives(t, k, w) /\ blocked_exceptions' = blocked_exceptions
  BY DEF NothingPerformed
<1>3. UNCHANGED <<home, block_info, source, target, inbox, msg, migrations>> BY DEF AroundPerform
<1>4. mask' \in [Threads -> Masks] /\ mask'[t] = k /\ \A u \in Threads \ {t} : mask'[u] = mask[u]
  BY <1>0, <1>2 DEF Types, Looking
<1>5. /\ blocked_exceptions' \in [Threads -> Seq(Messages)]
      /\ \A u \in Threads \ {t} : blocked_exceptions'[u] = blocked_exceptions[u]
      /\ \/ Receives(t, k, w) /\ blocked_exceptions'[t] = <<>> /\ \A n \in DOMAIN blocked_exceptions[t] : i[blocked_exceptions[t][n]] = "NULL"
         \/ ~Receives(t, k, w) /\ blocked_exceptions'[t] = blocked_exceptions[t]
  <2>1. blocked_exceptions \in [Threads -> Seq(Messages)] BY <1>0 DEF Types
  <2>2. <<>> \in Seq(Messages) OBVIOUS
  <2> QED BY <1>2, <2>1, <2>2
<1>6. Types' BY <1>0, <1>2, <1>3, <1>4, <1>5 DEF Types, AroundPerform, Looking
<1>7. Shrinks
  <2>1. ASSUME NEW u \in Threads
        PROVE  \E d \in Nat : \A n \in DOMAIN blocked_exceptions'[u] :
                  n + d \in DOMAIN blocked_exceptions[u] /\ blocked_exceptions'[u][n] = blocked_exceptions[u][n + d]
    <3>1. CASE blocked_exceptions'[u] = blocked_exceptions[u] BY <1>0, <3>1, StillThere
    <3>2. CASE blocked_exceptions'[u] = <<>> BY <3>2
    <3> QED BY <1>5, <3>1, <3>2
  <2> QED BY <1>3, <2>1 DEF Shrinks
<1>8. InOnePlace' /\ \A x \in Messages : Placed(x)' => Placed(x)
  BY <1>0, <1>3, <1>6, <1>7, ShrinkStep
<1>9. \A x \in Messages : Placed(x) => Placed(x)' \/ i[x] = "NULL"
  <2> SUFFICES ASSUME NEW x \in Messages, Placed(x), i[x] # "NULL" PROVE Placed(x)' OBVIOUS
  <2>1. CASE \E d \in Caps : x \in inbox[d] \/ msg[d] = x BY <1>3, <2>1 DEF Placed
  <2>2. CASE \E u \in Threads : Queued(x, u)
    <3>1. PICK u \in Threads : Queued(x, u) BY <2>2
    <3>2. blocked_exceptions'[u] = blocked_exceptions[u] BY <1>5, <3>1 DEF Queued
    <3>3. Queued(x, u)' BY <3>1, <3>2 DEF Queued
    <3> QED BY <3>3 DEF Placed
  <2> QED BY <2>1, <2>2 DEF Placed
<1>10. Frame(c)
  <2>1. \A u \in Threads : home[u] # c => why'[u] = why[u] BY <1>2 DEF Looking
  <2>2. \A x \in Messages : info[x] = "WHITEHOLE" /\ info'[x] # "WHITEHOLE" => pc[c] = "blocking" /\ block_info[running[c]] = x
    BY <1>1, <1>2 DEF Looking
  <2> QED BY <1>2, <1>3, <2>1, <2>2 DEF Frame, AroundPerform
<1>11. \A u \in Threads : why[u] = "BlockedOnMsgThrowTo" <=> why'[u] = "BlockedOnMsgThrowTo"
  BY <1>1, <1>2 DEF Looking
<1>12. \A x \in Messages : info[x] = "NULL" <=> info'[x] = "NULL" BY <1>1, <1>2
<1>13. Told(c)
  <2>1. \A u \in Threads : why[u] = "BlockedOnMsgThrowTo" => block_info[u] \in Messages
    BY <1>0 DEF WaitsOK, WaitOK
  <2> QED BY <1>0, <1>2, <1>3, <1>9, <1>11, <1>12, <2>1, WakeupThere DEF Told
<1>14. CapabilityOK(c)'
  BY <1>1, <1>2, <1>3, ThrowToAssumption DEF CapabilityOK, Looking, AroundPerform
<1>15. AllLookedAt'
  <2> SUFFICES ASSUME NEW u \in Threads PROVE LookedAt(u)' BY DEF AllLookedAt
  <2>1. CASE u # t
    <3>1. Running(u) => Running(u)' BY <2>1, ThrowToAssumption DEF Running, AroundPerform, Looking
    <3>2. why'[u] = why[u] BY <1>2, <2>1 DEF Looking
    <3>3. LookedAt(u) BY <1>0 DEF AllLookedAt
    <3> QED BY <1>2, <1>4, <1>5, <2>1, <3>1, <3>2, <3>3, LookedKept
  <2>2. CASE u = t BY <1>2, <1>4, <1>5, <2>2 DEF LookedAt, Receives
  <2> QED BY <2>1, <2>2
<1>16. \A u \in Threads : why[u] # "BlockedOnMsgThrowTo" => WaitOK(u)' BY <1>11 DEF WaitOK
<1>17. \A x \in Messages : Throws(c, x) => ForceOK(x)' BY DEF Looking, Throws
<1>18. \A x \in Messages : info'[x] = "unallocated" <=> info[x] = "unallocated" BY <1>1, <1>2
<1> QED BY <1>3, <1>6, <1>8, <1>10, <1>13, <1>14, <1>15, <1>16, <1>17, <1>18, Together

\* The first exception that has not been revoked is raised, and its source is told.
LEMMA PerformedStep ==
  ASSUME ThrowInv, NEW c \in Caps, NEW t \in Threads, NEW k, NEW w, NEW i, Looking(c, t, k, w, i), AroundPerform(c),
         NEW n \in DOMAIN blocked_exceptions[t], Performed(c, t, n, k, w, i)
  PROVE  ThrowInv'
<1>0. Types /\ AllocationOK /\ InOnePlace /\ CapabilitiesOK /\ WaitsOK /\ AllInForce /\ AllLookedAt
  BY DEF ThrowInv
<1>1. /\ msg[c] = None
      /\ w[t] = "BlockedOnMsgThrowTo" <=> pc[c] = "blocking"
      /\ why[t] = "BlockedOnMsgThrowTo" <=> pc[c] = "blocking"
      /\ pc[c] = "blocking" => block_info[t] \in Messages /\ source[block_info[t]] = t /\ info[block_info[t]] = "WHITEHOLE"
      /\ \A x \in Messages : i[x] # info[x] => pc[c] = "blocking" /\ x = block_info[t] /\ i[x] = "THROWTO"
  BY OwnThrowSeen
<1>q. PICK q : q = blocked_exceptions[t] OBVIOUS
<1>m. PICK m : m = q[n] OBVIOUS
<1>s. PICK s : s = source[m] OBVIOUS
<1>v. PICK v : v = Unblocked(t, w) OBVIOUS
<1>2. /\ i[m] # "NULL" /\ i[m] # "WHITEHOLE" /\ \A o \in DOMAIN q : o < n => i[q[o]] = "NULL"
      /\ blocked_exceptions' = [blocked_exceptions EXCEPT ![t] = SubSeq(q, n + 1, Len(q))]
      /\ RaiseAsync(t, k, w) /\ raised' = [raised EXCEPT ![m] = @ + 1]
      /\ info' = [Revoked(t, w, i) EXCEPT ![m] = "NULL"]
      /\ TryWakeup(c, {s}, v, info')
  BY <1>q, <1>m, <1>s, <1>v DEF Performed, FirstLive
<1>3. UNCHANGED <<home, block_info, source, target, inbox, msg, migrations>> BY DEF AroundPerform
<1>4. /\ q \in Seq(Messages) /\ Len(q) \in Nat /\ DOMAIN q = 1..Len(q) /\ n \in 1..Len(q) /\ m \in Messages
      /\ Queued(m, t)
  BY <1>0, <1>q, <1>m, QueueTypes DEF Queued
<1>5. info[m] # "unallocated" /\ s \in Threads /\ s # t /\ i[m] = info[m]
  <2>1. Placed(m) BY <1>4 DEF Placed
  <2>2. info[m] # "unallocated" BY <1>0, <1>4, <2>1 DEF AllocationOK
  <2>3. s \in Threads /\ s # target[m] BY <1>0, <1>4, <1>s, <2>2 DEF AllocationOK
  <2>4. target[m] = t BY <1>0, <1>4 DEF InOnePlace
  <2>5. i[m] = info[m] BY <1>1, <1>4, <1>s, <2>3, <2>4
  <2> QED BY <2>2, <2>3, <2>4, <2>5
<1>6. /\ mask' \in [Threads -> Masks] /\ what_next' \in [Threads -> States]
      /\ \A u \in Threads \ {t} : mask'[u] = mask[u] /\ what_next'[u] = what_next[u]
      /\ what_next'[t] = "Dead" \/ mask'[t] # "unmasked"
  <2>1. k \in Masks BY DEF Looking
  <2> QED BY <1>0, <1>2, <2>1, RaiseAsyncSets
<1>7. /\ v \in [Threads -> Reasons] /\ (\A u \in Threads \ {t} : v[u] = why[u])
      /\ v[t] = IF w[t] = "BlockedOnCCall" THEN "BlockedOnCCall" ELSE "NotBlocked"
  BY <1>v DEF Unblocked, Looking, Reasons
<1>8. /\ why' \in [Threads -> Reasons] /\ wakeups' \in [Caps -> [Threads -> Nat]]
      /\ \A u \in Threads : IF u \in {s} /\ home[u] = c /\ Wakeable(u, v, info')
                               THEN why'[u] = "NotBlocked" ELSE why'[u] = v[u]
      /\ \A u \in Threads, d \in Caps : wakeups'[d][u] >= wakeups[d][u]
      /\ \A u \in {s} : home[u] # c => wakeups'[home[u]][u] > 0
  <2>1. {s} \in SUBSET Threads BY <1>5
  <2> HIDE DEF ThrowInv
  <2> QED BY <1>0, <1>2, <1>7, <2>1, TryWakeupWakes
<1>9. /\ info' \in [Messages -> Headers] /\ info'[m] = "NULL"
      /\ \A x \in Messages \ {m} : info'[x] = IF pc[c] = "blocking" /\ x = block_info[t] THEN "NULL" ELSE i[x]
  <2>1. i \in [Messages -> Headers] BY DEF Looking
  <2>2. CASE pc[c] = "blocking"
    <3>1. info' = [[i EXCEPT ![block_info[t]] = "NULL"] EXCEPT ![m] = "NULL"]
      BY <1>1, <1>2, <2>2 DEF Revoked
    <3> QED BY <1>1, <1>4, <2>1, <2>2, <3>1 DEF Headers
  <2>3. CASE pc[c] # "blocking"
    <3>1. info' = [i EXCEPT ![m] = "NULL"] BY <1>1, <1>2, <2>3 DEF Revoked
    <3> QED BY <1>4, <2>1, <2>3, <3>1 DEF Headers
  <2> QED BY <2>2, <2>3
<1>10. /\ blocked_exceptions' \in [Threads -> Seq(Messages)]
       /\ \A u \in Threads \ {t} : blocked_exceptions'[u] = blocked_exceptions[u]
       /\ blocked_exceptions'[t] = SubSeq(q, n + 1, Len(q))
  <2>1. blocked_exceptions \in [Threads -> Seq(Messages)] BY <1>0 DEF Types
  <2>2. SubSeq(q, n + 1, Len(q)) \in Seq(Messages) BY <1>4
  <2> QED BY <1>2, <2>1, <2>2
<1>11. /\ \A o \in DOMAIN SubSeq(q, n + 1, Len(q)) : o + n \in DOMAIN q /\ SubSeq(q, n + 1, Len(q))[o] = q[o + n]
       /\ \A o \in DOMAIN q : o > n => o - n \in DOMAIN SubSeq(q, n + 1, Len(q)) /\ SubSeq(q, n + 1, Len(q))[o - n] = q[o]
  BY <1>4
<1>12. raised' \in [Messages -> Nat] /\ \A x \in Messages \ {m} : raised'[x] = raised[x]
  <2>1. raised \in [Messages -> Nat] BY <1>0 DEF Types
  <2>2. raised[m] + 1 \in Nat BY <1>4, <2>1
  <2> QED BY <1>2, <2>1, <2>2
<1>13. Types' BY <1>0, <1>3, <1>6, <1>8, <1>9, <1>10, <1>12 DEF Types, AroundPerform
<1>14. Shrinks
  <2>1. ASSUME NEW u \in Threads
        PROVE  \E d \in Nat : \A o \in DOMAIN blocked_exceptions'[u] :
                  o + d \in DOMAIN blocked_exceptions[u] /\ blocked_exceptions'[u][o] = blocked_exceptions[u][o + d]
    <3>1. CASE u # t BY <1>0, <1>10, <3>1, StillThere
    <3>2. CASE u = t
      <4>1. n \in Nat BY <1>4
      <4>2. \A o \in DOMAIN blocked_exceptions'[u] :
                  o + n \in DOMAIN blocked_exceptions[u] /\ blocked_exceptions'[u][o] = blocked_exceptions[u][o + n]
        BY <1>10, <1>11, <1>q, <3>2
      <4> QED BY <4>1, <4>2
    <3> QED BY <3>1, <3>2
  <2> QED BY <1>3, <2>1 DEF Shrinks
<1>15. InOnePlace' /\ \A x \in Messages : Placed(x)' => Placed(x)
  BY <1>0, <1>3, <1>13, <1>14, ShrinkStep
<1>16. \A x \in Messages : Placed(x) => Placed(x)' \/ info'[x] = "NULL"
  <2> SUFFICES ASSUME NEW x \in Messages, Placed(x), info'[x] # "NULL" PROVE Placed(x)' OBVIOUS
  <2>1. CASE \E d \in Caps : x \in inbox[d] \/ msg[d] = x BY <1>3, <2>1 DEF Placed
  <2>2. CASE \E u \in Threads : Queued(x, u)
    <3>1. PICK u \in Threads : Queued(x, u) BY <2>2
    <3>2. CASE u # t
      <4>1. blocked_exceptions'[u] = blocked_exceptions[u] BY <1>10, <3>2
      <4>2. Queued(x, u)' BY <3>1, <4>1 DEF Queued
      <4> QED BY <4>2 DEF Placed
    <3>3. CASE u = t
      <4>1. PICK o \in DOMAIN q : q[o] = x BY <1>q, <3>1, <3>3 DEF Queued
      <4>2. x # m /\ i[x] # "NULL" BY <1>9, <2>2
      <4>3. o > n BY <1>2, <1>4, <1>m, <4>1, <4>2
      <4>4. Queued(x, t)' BY <1>10, <1>11, <4>1, <4>3 DEF Queued
      <4> QED BY <4>4 DEF Placed
    <3> QED BY <3>2, <3>3
  <2> QED BY <2>1, <2>2 DEF Placed
<1>17. \A u \in Threads : why'[u] # v[u] => u = s /\ home[u] = c /\ why'[u] = "NotBlocked" /\ Wakeable(u, v, info')
  BY <1>8
<1>18. Frame(c)
  <2>1. \A u \in Threads : home[u] # c => why'[u] = why[u]
    <3>1. home[t] = c BY DEF Looking
    <3> QED BY <1>7, <1>17, <3>1
  <2>2. \A x \in Messages : info[x] = "WHITEHOLE" /\ info'[x] # "WHITEHOLE" => pc[c] = "blocking" /\ block_info[running[c]] = x
    <3>1. pc[c] = "blocking" => running[c] = t BY DEF Looking
    <3> QED BY <1>1, <1>2, <1>5, <1>9, <3>1
  <2>3. \A x \in Messages : raised'[x] # raised[x] => \E u \in Threads : Queued(x, u) BY <1>4, <1>12
  <2> QED BY <1>3, <2>1, <2>2, <2>3 DEF Frame, AroundPerform
<1>19. \A u \in Threads : why[u] # "BlockedOnMsgThrowTo" => why'[u] # "BlockedOnMsgThrowTo"
  BY <1>7, <1>17
<1>20. why'[t] \in {"BlockedOnCCall", "NotBlocked"} BY <1>7, <1>17
<1>21. Told(c)
  <2>1. \A x \in Messages : info[x] = "NULL" => info'[x] = "NULL" BY <1>1, <1>9
  <2>2. \A x \in Messages : raised'[x] # raised[x] => info'[x] = "NULL" BY <1>9, <1>12
  <2>3. \A u \in Threads : why[u] = "BlockedOnMsgThrowTo" => block_info[u] \in Messages /\ source[block_info[u]] = u
    BY <1>0 DEF WaitsOK, WaitOK
  <2>4. ASSUME NEW u \in Threads, why[u] = "BlockedOnMsgThrowTo", why'[u] # "BlockedOnMsgThrowTo"
        PROVE  info'[block_info[u]] = "NULL"
    <3>1. CASE u = t BY <1>1, <1>9, <2>4, <3>1
    <3>2. CASE u # t BY <1>7, <1>17, <2>4, <3>2 DEF Wakeable
    <3> QED BY <3>1, <3>2
  <2>5. ASSUME NEW u \in Threads, why[u] = "BlockedOnMsgThrowTo", why'[u] = "BlockedOnMsgThrowTo", info'[block_info[u]] = "NULL"
        PROVE  \E d \in Caps : wakeups'[d][u] > 0
    <3>1. u # t BY <1>20, <2>5
    <3>2. block_info[u] \in Messages /\ source[block_info[u]] = u BY <2>3, <2>5
    <3>3. CASE block_info[u] = m
      <4>1. u = s BY <1>s, <3>2, <3>3
      <4>2. Wakeable(u, v, info') BY <1>7, <2>5, <3>1 DEF Wakeable
      <4>3. home[u] # c BY <1>8, <2>5, <4>1, <4>2
      <4>4. home[u] \in Caps BY <1>0 DEF Types
      <4> QED BY <1>8, <4>1, <4>3, <4>4
    <3>4. CASE block_info[u] # m
      <4>1. info[block_info[u]] = "NULL" BY <1>1, <1>9, <2>5, <3>1, <3>2, <3>4
      <4>2. PICK d \in Caps : wakeups[d][u] > 0 BY <1>0, <2>5, <4>1, WakeupThere
      <4>3. wakeups'[d][u] >= wakeups[d][u] /\ wakeups[d][u] \in Nat /\ wakeups'[d][u] \in Nat
        BY <1>0, <1>8 DEF Types
      <4> QED BY <4>2, <4>3
    <3> QED BY <3>3, <3>4
  <2> QED BY <1>3, <1>16, <2>1, <2>2, <2>4, <2>5 DEF Told
<1>22. CapabilityOK(c)'
  <2>1. running'[c] = t => why'[t] = "NotBlocked"
    BY <1>1, <1>7, <1>17 DEF Looking
  <2> QED BY <1>1, <1>3, <2>1, ThrowToAssumption DEF CapabilityOK, Looking, AroundPerform
<1>23. AllLookedAt'
  <2> SUFFICES ASSUME NEW u \in Threads PROVE LookedAt(u)' BY DEF AllLookedAt
  <2>1. CASE u # t
    <3>1. Running(u) => Running(u)' BY <2>1, ThrowToAssumption DEF Running, AroundPerform, Looking
    <3>2. why'[u] = why[u] \/ (why[u] # "BlockedOnCCall" /\ why'[u] \notin Interruptible)
      BY <1>7, <1>17, <2>1 DEF Wakeable, Interruptible
    <3>3. LookedAt(u) BY <1>0 DEF AllLookedAt
    <3> QED BY <1>6, <1>10, <2>1, <3>1, <3>2, <3>3, LookedKept
  <2>2. CASE u = t BY <1>6, <1>20, <2>2 DEF LookedAt, Receives, Interruptible
  <2> QED BY <2>1, <2>2
<1>24. \A u \in Threads : why[u] # "BlockedOnMsgThrowTo" => WaitOK(u)' BY <1>19 DEF WaitOK
<1>25. \A x \in Messages : Throws(c, x) => ForceOK(x)' BY DEF Looking, Throws
<1>26. \A x \in Messages : info'[x] = "unallocated" <=> info[x] = "unallocated" BY <1>1, <1>5, <1>9
<1> QED BY <1>3, <1>13, <1>15, <1>18, <1>21, <1>22, <1>23, <1>24, <1>25, <1>26, Together

\* Looking at what waits preserves the invariant.
LEMMA MaybePerformStep ==
  ASSUME ThrowInv, NEW c \in Caps, NEW t \in Threads, NEW k, NEW w, NEW i, Looking(c, t, k, w, i), AroundPerform(c),
         MaybePerform(c, t, k, w, i)
  PROVE  ThrowInv'
<1>1. NothingPerformed(t, k, w, i) \/ \E n \in DOMAIN blocked_exceptions[t] : Performed(c, t, n, k, w, i)
  <2>1. Types BY DEF ThrowInv
  <2> QED BY <2>1, MaybePerformDoes
<1> QED BY <1>1, NothingStep, PerformedStep

\* Leave takes the thread of c off it.
LEMMA LeaveLeaves ==
  ASSUME Types, NEW c \in Caps, Leave(c)
  PROVE  AroundPerform(c) /\ running'[c] = NoThread /\ pc'[c] = "sched"
BY DEF Leave, AroundPerform, Types, Locations

\* GoOn leaves t running on c.
LEMMA GoOnGoesOn ==
  ASSUME Types, NEW c \in Caps, NEW t \in Threads, GoOn(c, t)
  PROVE  AroundPerform(c) /\ running'[c] = t /\ pc'[c] \in {"run", "finish"}
<1>1. /\ running' = [running EXCEPT ![c] = t]
      /\ pc' = [pc EXCEPT ![c] = IF what_next'[t] = "Dead" THEN "finish" ELSE "run"]
      /\ UNCHANGED <<home, block_info, source, target, inbox, msg, migrations>>
  BY DEF GoOn
<1>2. running \in [Caps -> Threads \cup {NoThread}] /\ pc \in [Caps -> Locations] BY DEF Types
<1> QED BY <1>1, <1>2 DEF AroundPerform, Locations

\* block_throwto preserves the invariant: the message is unlocked, and the thread looked at.
LEMMA BlockThrowToStep ==
  ASSUME ThrowInv, NEW c \in Caps, BlockThrowTo(c)
  PROVE  ThrowInv'
<1>0. Types /\ CapabilitiesOK /\ WaitsOK BY DEF ThrowInv
<1>1. PICK t : t = running[c] OBVIOUS
<1>2. pc[c] = "blocking" /\ MaybePerform(c, t, mask[t], why, FinallyUnlocks(block_info[t])) /\ Leave(c)
  BY <1>1 DEF BlockThrowTo, Paused
<1>3. t \in Threads /\ home[t] = c /\ mask[t] \in Masks /\ why \in [Threads -> Reasons]
  BY <1>0, <1>1, <1>2, RunningIsOwned DEF Types
<1>4. block_info[t] \in Messages BY <1>0, <1>1, <1>2, BlockingHolds
<1>5. PICK i : i = FinallyUnlocks(block_info[t]) OBVIOUS
<1>6. i \in [Messages -> Headers] /\ i[block_info[t]] = "THROWTO" /\ \A x \in Messages \ {block_info[t]} : i[x] = info[x]
  BY <1>0, <1>4, <1>5 DEF FinallyUnlocks, Types, Headers
<1>7. AroundPerform(c) /\ running'[c] = NoThread /\ pc'[c] = "sched" BY <1>0, <1>2, LeaveLeaves
<1>8. Looking(c, t, mask[t], why, i) BY <1>1, <1>2, <1>3, <1>6, <1>7 DEF Looking
<1> QED BY <1>2, <1>3, <1>5, <1>7, <1>8, MaybePerformStep

\* The end of a time slice preserves the invariant.
LEMMA YieldStep ==
  ASSUME ThrowInv, NEW c \in Caps, Yield(c)
  PROVE  ThrowInv'
<1>0. Types /\ CapabilitiesOK BY DEF ThrowInv
<1>1. PICK t : t = running[c] OBVIOUS
<1>2. pc[c] = "run" /\ MaybePerform(c, t, mask[t], why, info) /\ Leave(c)
  BY <1>1 DEF Yield, Paused
<1>3. /\ t \in Threads /\ home[t] = c /\ mask[t] \in Masks /\ why \in [Threads -> Reasons] /\ why[t] = "NotBlocked"
      /\ info \in [Messages -> Headers]
  BY <1>0, <1>1, <1>2, RunningIsOwned DEF Types
<1>4. AroundPerform(c) /\ running'[c] = NoThread /\ pc'[c] = "sched" BY <1>0, <1>2, LeaveLeaves
<1>5. Looking(c, t, mask[t], why, info) BY <1>1, <1>2, <1>3, <1>4 DEF Looking
<1> QED BY <1>2, <1>3, <1>4, <1>5, MaybePerformStep

\* A thread that blocks, or makes a foreign call, preserves the invariant.
LEMMA BlockStep ==
  ASSUME ThrowInv, NEW c \in Caps, NEW reason \in {"BlockedOnMVar", "BlockedOnBlackHole", "BlockedOnCCall"}, Block(c, reason)
  PROVE  ThrowInv'
<1>0. Types /\ CapabilitiesOK BY DEF ThrowInv
<1>1. PICK t : t = running[c] OBVIOUS
<1>w. PICK w : w = [why EXCEPT ![t] = reason] OBVIOUS
<1>2. pc[c] = "run" /\ MaybePerform(c, t, mask[t], w, info) /\ Leave(c)
  BY <1>1, <1>w DEF Block, Paused
<1>3. /\ t \in Threads /\ home[t] = c /\ mask[t] \in Masks /\ why \in [Threads -> Reasons] /\ why[t] = "NotBlocked"
      /\ info \in [Messages -> Headers]
  BY <1>0, <1>1, <1>2, RunningIsOwned DEF Types
<1>4. AroundPerform(c) /\ running'[c] = NoThread /\ pc'[c] = "sched" BY <1>0, <1>2, LeaveLeaves
<1>5. w \in [Threads -> Reasons] /\ w[t] # "BlockedOnMsgThrowTo" /\ \A u \in Threads \ {t} : w[u] = why[u]
  BY <1>3, <1>w DEF Reasons
<1>6. running'[c] # t BY <1>3, <1>4, ThrowToAssumption
<1>7. Looking(c, t, mask[t], w, info) BY <1>1, <1>2, <1>3, <1>4, <1>5, <1>6 DEF Looking
<1> QED BY <1>2, <1>3, <1>4, <1>7, MaybePerformStep

\* unmaskAsyncExceptions# preserves the invariant.
LEMMA UnmaskStep ==
  ASSUME ThrowInv, NEW c \in Caps, Unmask(c)
  PROVE  ThrowInv'
<1>0. Types /\ CapabilitiesOK BY DEF ThrowInv
<1>1. PICK t : t = running[c] OBVIOUS
<1>2. pc[c] = "run" /\ MaybePerform(c, t, "unmasked", why, info) /\ GoOn(c, t)
  BY <1>1 DEF Unmask
<1>3. /\ t \in Threads /\ home[t] = c /\ why \in [Threads -> Reasons] /\ why[t] = "NotBlocked"
      /\ info \in [Messages -> Headers]
  BY <1>0, <1>1, <1>2, RunningIsOwned DEF Types
<1>4. AroundPerform(c) /\ running'[c] = t /\ pc'[c] \in {"run", "finish"}
  BY <1>0, <1>2, <1>3, GoOnGoesOn
<1>5. Looking(c, t, "unmasked", why, info) BY <1>1, <1>2, <1>3, <1>4 DEF Looking, Masks
<1> QED BY <1>2, <1>3, <1>4, <1>5, MaybePerformStep

\* resumeThread preserves the invariant.
LEMMA ResumeStep ==
  ASSUME ThrowInv, NEW c \in Caps, NEW t \in Threads, Resume(c, t)
  PROVE  ThrowInv'
<1>0. Types /\ CapabilitiesOK BY DEF ThrowInv
<1>w. PICK w : w = [why EXCEPT ![t] = "NotBlocked"] OBVIOUS
<1>2. pc[c] = "sched" /\ home[t] = c /\ why[t] = "BlockedOnCCall" /\ GoOn(c, t) BY DEF Resume
<1>3. /\ why \in [Threads -> Reasons] /\ info \in [Messages -> Headers] /\ mask[t] \in Masks
  BY <1>0 DEF Types
<1>4. AroundPerform(c) /\ running'[c] = t /\ pc'[c] \in {"run", "finish"} BY <1>0, <1>2, GoOnGoesOn
<1>5. w \in [Threads -> Reasons] /\ w[t] = "NotBlocked" /\ \A u \in Threads \ {t} : w[u] = why[u]
  BY <1>3, <1>w DEF Reasons
<1>6. running[c] = NoThread BY <1>0, <1>2 DEF CapabilitiesOK, CapabilityOK
<1>7. \A k \in Masks : Looking(c, t, k, w, info) BY <1>2, <1>3, <1>4, <1>5, <1>6 DEF Looking
<1>8. CASE mask[t] = "unmasked"
  <2>1. MaybePerform(c, t, "unmasked", w, info) BY <1>8, <1>w DEF Resume
  <2>2. Looking(c, t, "unmasked", w, info) BY <1>7 DEF Masks
  <2> QED BY <1>4, <2>1, <2>2, MaybePerformStep
<1>9. CASE mask[t] # "unmasked"
  <2>1. why' = w /\ UNCHANGED <<mask, what_next, blocked_exceptions, info, raised, wakeups>>
    BY <1>9, <1>w DEF Resume
  <2>2. ~Receives(t, mask[t], w) BY <1>5, <1>9 DEF Receives, Interruptible
  <2>3. mask' = [mask EXCEPT ![t] = mask[t]] BY <1>0, <2>1 DEF Types
  <2>4. NothingPerformed(t, mask[t], w, info) BY <2>1, <2>2, <2>3 DEF NothingPerformed
  <2>5. Looking(c, t, mask[t], w, info) BY <1>3, <1>7
  <2> QED BY <1>4, <2>4, <2>5, NothingStep
<1> QED BY <1>8, <1>9

\* awakenBlockedExceptionQueue preserves the invariant: all who wait for the thread are told.
LEMMA HandleFinishedStep ==
  ASSUME ThrowInv, NEW c \in Caps, HandleFinished(c)
  PROVE  ThrowInv'
<1>0. Types /\ AllocationOK /\ InOnePlace /\ CapabilitiesOK /\ WaitsOK /\ AllInForce /\ AllLookedAt
  BY DEF ThrowInv
<1>1. PICK t : t = running[c] OBVIOUS
<1>2. PICK live : live = {m \in Messages : info[m] # "NULL" /\ \E n \in DOMAIN blocked_exceptions[t] : blocked_exceptions[t][n] = m}
  OBVIOUS
<1>3. PICK ts : ts = {source[m] : m \in live} OBVIOUS
<1>4. /\ pc[c] = "finish" /\ (\A m \in live : info[m] # "WHITEHOLE")
      /\ info' = [m \in Messages |-> IF m \in live THEN "NULL" ELSE info[m]]
      /\ blocked_exceptions' = [blocked_exceptions EXCEPT ![t] = <<>>]
      /\ TryWakeup(c, ts, why, info')
      /\ what_next' = [what_next EXCEPT ![t] = "Finished"]
      /\ mask' = mask /\ raised' = raised
      /\ Leave(c)
  BY <1>1, <1>2, <1>3 DEF HandleFinished
<1>5. /\ t \in Threads /\ home[t] = c /\ why[t] = "NotBlocked" BY <1>0, <1>1, <1>4, RunningIsOwned
<1>6. AroundPerform(c) /\ running'[c] = NoThread /\ pc'[c] = "sched" BY <1>0, <1>4, LeaveLeaves
<1>7. UNCHANGED <<home, block_info, source, target, inbox, msg, migrations>>
  BY <1>6 DEF AroundPerform
<1>8. \A m \in Messages : m \in live <=> info[m] # "NULL" /\ Queued(m, t) BY <1>2 DEF Queued
<1>9. live \subseteq Messages BY <1>2
<1>10. \A m \in live : info[m] # "unallocated" /\ source[m] \in Threads
  <2>1. \A m \in live : Placed(m) BY <1>5, <1>8, <1>9 DEF Placed
  <2> QED BY <1>0, <1>9, <2>1 DEF AllocationOK
<1>11. info' \in [Messages -> Headers] /\ \A m \in Messages : info'[m] = IF m \in live THEN "NULL" ELSE info[m]
  <2>1. info \in [Messages -> Headers] BY <1>0 DEF Types
  <2> QED BY <1>4, <2>1 DEF Headers
<1>12. /\ why' \in [Threads -> Reasons] /\ wakeups' \in [Caps -> [Threads -> Nat]]
       /\ \A u \in Threads : IF u \in ts /\ home[u] = c /\ Wakeable(u, why, info')
                               THEN why'[u] = "NotBlocked" ELSE why'[u] = why[u]
       /\ \A u \in Threads, d \in Caps : wakeups'[d][u] >= wakeups[d][u]
       /\ \A u \in ts : home[u] # c => wakeups'[home[u]][u] > 0
  <2>1. ts \in SUBSET Threads BY <1>3, <1>10
  <2>2. why \in [Threads -> Reasons] BY <1>0 DEF Types
  <2>3. Types BY <1>0
  <2>4. TryWakeup(c, ts, why, info') BY <1>4
  <2> HIDE DEF ThrowInv
  <2> QED BY <2>1, <2>2, <2>3, <2>4, TryWakeupWakes
<1>13. /\ blocked_exceptions' \in [Threads -> Seq(Messages)] /\ blocked_exceptions'[t] = <<>>
       /\ \A u \in Threads \ {t} : blocked_exceptions'[u] = blocked_exceptions[u]
  <2>1. blocked_exceptions \in [Threads -> Seq(Messages)] BY <1>0 DEF Types
  <2>2. <<>> \in Seq(Messages) OBVIOUS
  <2> QED BY <1>4, <1>5, <2>1, <2>2
<1>14. what_next' \in [Threads -> States] /\ \A u \in Threads \ {t} : what_next'[u] = what_next[u]
  BY <1>0, <1>4 DEF Types, States
<1>15. Types' BY <1>0, <1>4, <1>6, <1>7, <1>11, <1>12, <1>13, <1>14 DEF Types, AroundPerform
<1>16. Shrinks
  <2>1. ASSUME NEW u \in Threads
        PROVE  \E d \in Nat : \A n \in DOMAIN blocked_exceptions'[u] :
                  n + d \in DOMAIN blocked_exceptions[u] /\ blocked_exceptions'[u][n] = blocked_exceptions[u][n + d]
    <3>1. CASE u # t BY <1>0, <1>13, <3>1, StillThere
    <3>2. CASE u = t
      <4>1. DOMAIN blocked_exceptions'[u] = {} BY <1>13, <3>2
      <4>2. 0 \in Nat OBVIOUS
      <4> QED BY <4>1, <4>2
    <3> QED BY <3>1, <3>2
  <2> QED BY <1>7, <2>1 DEF Shrinks
<1>17. InOnePlace' /\ \A x \in Messages : Placed(x)' => Placed(x)
  BY <1>0, <1>7, <1>15, <1>16, ShrinkStep
<1>18. \A x \in Messages : Placed(x) => Placed(x)' \/ info'[x] = "NULL"
  <2> SUFFICES ASSUME NEW x \in Messages, Placed(x), info'[x] # "NULL" PROVE Placed(x)' OBVIOUS
  <2>1. CASE \E d \in Caps : x \in inbox[d] \/ msg[d] = x BY <1>7, <2>1 DEF Placed
  <2>2. CASE \E u \in Threads : Queued(x, u)
    <3>1. PICK u \in Threads : Queued(x, u) BY <2>2
    <3>2. u # t BY <1>8, <1>11, <3>1
    <3>3. Queued(x, u)' BY <1>13, <3>1, <3>2 DEF Queued
    <3> QED BY <3>3 DEF Placed
  <2> QED BY <2>1, <2>2 DEF Placed
<1>19. Frame(c)
  <2>1. \A u \in Threads : home[u] # c => why'[u] = why[u] BY <1>12
  <2>2. \A x \in Messages : info[x] = "WHITEHOLE" => info'[x] = "WHITEHOLE" BY <1>4, <1>11
  <2> QED BY <1>4, <1>6, <1>7, <2>1, <2>2 DEF Frame, AroundPerform
<1>20. \A u \in Threads : why[u] # "BlockedOnMsgThrowTo" => why'[u] # "BlockedOnMsgThrowTo" BY <1>12
<1>21. Told(c)
  <2>1. \A x \in Messages : info[x] = "NULL" => info'[x] = "NULL" BY <1>11
  <2>3. \A u \in Threads : why[u] = "BlockedOnMsgThrowTo" => block_info[u] \in Messages /\ source[block_info[u]] = u
    BY <1>0 DEF WaitsOK, WaitOK
  <2>4. \A u \in Threads : why[u] = "BlockedOnMsgThrowTo" /\ why'[u] # "BlockedOnMsgThrowTo" => info'[block_info[u]] = "NULL"
    BY <1>12 DEF Wakeable
  <2>5. ASSUME NEW u \in Threads, why[u] = "BlockedOnMsgThrowTo", why'[u] = "BlockedOnMsgThrowTo", info'[block_info[u]] = "NULL"
        PROVE  \E d \in Caps : wakeups'[d][u] > 0
    <3>1. block_info[u] \in Messages /\ source[block_info[u]] = u BY <2>3, <2>5
    <3>2. CASE block_info[u] \in live
      <4>1. u \in ts BY <1>3, <3>1, <3>2
      <4>2. Wakeable(u, why, info') BY <2>5 DEF Wakeable
      <4>3. home[u] # c BY <1>12, <2>5, <4>1, <4>2
      <4>4. home[u] \in Caps BY <1>0 DEF Types
      <4> QED BY <1>12, <4>1, <4>3, <4>4
    <3>3. CASE block_info[u] \notin live
      <4>1. info[block_info[u]] = "NULL" BY <1>11, <2>5, <3>1, <3>3
      <4>2. PICK d \in Caps : wakeups[d][u] > 0 BY <1>0, <2>5, <4>1, WakeupThere
      <4>3. wakeups'[d][u] >= wakeups[d][u] /\ wakeups[d][u] \in Nat /\ wakeups'[d][u] \in Nat
        BY <1>0, <1>12 DEF Types
      <4> QED BY <4>2, <4>3
    <3> QED BY <3>2, <3>3
  <2> QED BY <1>4, <1>7, <1>18, <2>1, <2>4, <2>5 DEF Told
<1>22. CapabilityOK(c)'
  <2>1. msg[c] = None BY <1>0, <1>4 DEF CapabilitiesOK, CapabilityOK
  <2> QED BY <1>6, <1>7, <2>1 DEF CapabilityOK
<1>23. AllLookedAt'
  <2> SUFFICES ASSUME NEW u \in Threads PROVE LookedAt(u)' BY DEF AllLookedAt
  <2>1. CASE u # t
    <3>1. Running(u) => Running(u)'
      BY <1>1, <1>6, <2>1, ThrowToAssumption DEF Running, AroundPerform
    <3>2. why'[u] = why[u] \/ (why[u] # "BlockedOnCCall" /\ why'[u] \notin Interruptible)
      BY <1>12 DEF Wakeable, Interruptible
    <3>3. LookedAt(u) BY <1>0 DEF AllLookedAt
    <3> QED BY <1>4, <1>13, <1>14, <2>1, <3>1, <3>2, <3>3, LookedKept
  <2>2. CASE u = t BY <1>13, <2>2 DEF LookedAt
  <2> QED BY <2>1, <2>2
<1>24. \A u \in Threads : why[u] # "BlockedOnMsgThrowTo" => WaitOK(u)' BY <1>20 DEF WaitOK
<1>25. \A x \in Messages : Throws(c, x) => ForceOK(x)' BY <1>4 DEF Throws
<1>26. \A x \in Messages : info'[x] = "unallocated" <=> info[x] = "unallocated" BY <1>10, <1>11
<1> QED BY <1>7, <1>15, <1>17, <1>19, <1>21, <1>22, <1>23, <1>24, <1>25, <1>26, Together

\* The invariant holds initially.
LEMMA InitInv == Init => ThrowInv
<1> SUFFICES ASSUME Init PROVE ThrowInv OBVIOUS
<1> USE MessagesAreNumbers, ThrowToAssumption
<1>1. Types BY DEF Init, Types, Reasons, Masks, States, Headers, Locations
<1>2. \A m \in Messages, t \in Threads : ~Queued(m, t) BY DEF Init, Queued
<1>3. \A m \in Messages : ~Placed(m) BY <1>2 DEF Init, Placed
<1>4. AllocationOK BY <1>3 DEF Init, AllocationOK
<1>5. InOnePlace
  <2>1. \A c, d \in Caps : \A m \in Messages : m \notin inbox[c] /\ m # msg[c] BY DEF Init
  <2>2. \A t \in Threads : DOMAIN blocked_exceptions[t] = {} BY DEF Init
  <2> QED BY <1>2, <2>1, <2>2 DEF InOnePlace
<1>6. CapabilitiesOK BY DEF Init, CapabilitiesOK, CapabilityOK
<1>7. WaitsOK BY DEF Init, WaitsOK, WaitOK
<1>8. AllInForce BY <1>3 DEF AllInForce, ForceOK
<1>9. AllLookedAt BY DEF Init, AllLookedAt, LookedAt
<1> QED BY <1>1, <1>4, <1>5, <1>6, <1>7, <1>8, <1>9 DEF ThrowInv

\* A stuttering step preserves the invariant.
LEMMA StutterStep ==
  ASSUME ThrowInv, UNCHANGED vars
  PROVE  ThrowInv'
<1>1. UNCHANGED <<home, why, block_info, mask, what_next, blocked_exceptions, info, source, target, raised>>
      /\ UNCHANGED <<inbox, wakeups, running, pc, msg, migrations>>
  BY DEF vars, thread, message, mail, cap
<1>2. Types' BY <1>1 DEF ThrowInv, Types
<1>3. \A m : Placed(m)' <=> Placed(m) BY <1>1 DEF Placed, Queued
<1>4. AllocationOK' BY <1>1, <1>3 DEF ThrowInv, AllocationOK
<1>5. InOnePlace' BY <1>1 DEF ThrowInv, InOnePlace, Queued
<1>6. CapabilitiesOK' BY <1>1 DEF ThrowInv, CapabilitiesOK, CapabilityOK
<1>7. WaitsOK' BY <1>1, <1>3 DEF ThrowInv, WaitsOK, WaitOK
<1>8. AllInForce' BY <1>1, <1>3 DEF ThrowInv, AllInForce, ForceOK, Waiting, Throws
<1>9. AllLookedAt' BY <1>1 DEF ThrowInv, AllLookedAt, LookedAt, Running, Receives
<1> QED BY <1>2, <1>4, <1>5, <1>6, <1>7, <1>8, <1>9 DEF ThrowInv

\* Every step preserves the invariant.
LEMMA InvStep ==
  ASSUME ThrowInv, [Next]_vars
  PROVE  ThrowInv'
<1>1. ASSUME NEW c \in Caps, Throw(c) \/ ThrowToMyself(c) \/ ThrowToMsg(c) PROVE ThrowInv'
  BY <1>1, ThrowStep, ThrowToMyselfStep, ThrowToMsgStep
<1>2. ASSUME NEW c \in Caps, BlockThrowTo(c) \/ Yield(c) PROVE ThrowInv'
  BY <1>2, BlockThrowToStep, YieldStep
<1>3. ASSUME NEW c \in Caps, NEW reason \in {"BlockedOnMVar", "BlockedOnBlackHole", "BlockedOnCCall"},
             Block(c, reason)
      PROVE ThrowInv'
  BY <1>3, BlockStep
<1>4. ASSUME NEW c \in Caps, SetMask(c) \/ Unmask(c) \/ Finish(c) \/ HandleFinished(c)
      PROVE  ThrowInv'
  BY <1>4, SetMaskStep, UnmaskStep, FinishStep, HandleFinishedStep
<1>5. ASSUME NEW c \in Caps, NEW m \in Messages, TakeMessage(c, m) PROVE ThrowInv'
  BY <1>5, TakeMessageStep
<1>6. ASSUME NEW c \in Caps, NEW t \in Threads, Dispatch(c, t) \/ Resume(c, t) \/ DeliverWakeup(c, t)
      PROVE  ThrowInv'
  BY <1>6, DispatchStep, ResumeStep, DeliverWakeupStep
<1>7. ASSUME NEW c \in Caps, NEW d \in Caps, NEW t \in Threads, Migrate(c, d, t) PROVE ThrowInv'
  BY <1>7, MigrateStep
<1>8. ASSUME NEW t \in Threads, Unblock(t) PROVE ThrowInv' BY <1>8, UnblockStep
<1>9. ASSUME UNCHANGED vars PROVE ThrowInv' BY <1>9, StutterStep
<1> HIDE DEF ThrowInv
<1> QED BY <1>1, <1>2, <1>3, <1>4, <1>5, <1>6, <1>7, <1>8, <1>9 DEF Next

\* RaiseAsync.c keeps to the invariant: each message in one place, locked by one capability,
\* in force exactly as long as its source waits, and no thread overlooked that could receive.
THEOREM Invariance == Spec => []ThrowInv
<1>1. Init => ThrowInv BY InitInv
<1>2. ThrowInv /\ [Next]_vars => ThrowInv' BY InvStep
<1> QED BY <1>1, <1>2, PTL DEF Spec

----------------------------------------------------------------------------

\* blocked_exceptions cannot grow beyond the messages there are.
LEMMA QueueBound ==
  ASSUME Types, InOnePlace, NEW t \in Threads
  PROVE  Len(blocked_exceptions[t]) <= MaxThrows
<1>1. PICK q : q = blocked_exceptions[t] OBVIOUS
<1>2. q \in Seq(Messages) /\ Len(q) \in Nat /\ DOMAIN q = 1..Len(q) BY <1>1, QueueTypes
<1>3. MaxThrows \in Nat BY ThrowToAssumption
<1>4. IsFiniteSet(1..Len(q)) /\ Cardinality(1..Len(q)) = Len(q)
  <2>1. IsFiniteSet(1..Len(q)) /\ Cardinality(1..Len(q)) = IF 1 > Len(q) THEN 0 ELSE Len(q) - 1 + 1
    BY <1>2, FS_Interval
  <2> QED BY <1>2, <2>1
<1>5. IsFiniteSet(Messages) /\ Cardinality(Messages) = MaxThrows
  <2>1. IsFiniteSet(1..MaxThrows) /\ Cardinality(1..MaxThrows) = IF 1 > MaxThrows THEN 0 ELSE MaxThrows - 1 + 1
    BY <1>3, FS_Interval
  <2> QED BY <1>3, <2>1 DEF Messages
<1>6. q \in [1..Len(q) -> Messages] BY <1>2
<1>7. \A x, y \in 1..Len(q) : q[x] = q[y] => x = y BY <1>1, <1>2 DEF InOnePlace
<1>8. ~(Cardinality(Messages) < Cardinality(1..Len(q))) BY <1>4, <1>5, <1>6, <1>7, FS_PigeonHole
<1> QED BY <1>1, <1>2, <1>3, <1>4, <1>5, <1>8

\* The invariant implies the type invariant that TLC checks.
LEMMA InvTypeOK == ThrowInv => TypeOK
<1> SUFFICES ASSUME ThrowInv PROVE TypeOK OBVIOUS
<1>1. Types /\ InOnePlace /\ CapabilitiesOK BY DEF ThrowInv
<1>2. \A t \in Threads :
          /\ Len(blocked_exceptions[t]) <= MaxThrows
          /\ \A n \in DOMAIN blocked_exceptions[t] : blocked_exceptions[t][n] \in Messages
  BY <1>1, QueueBound, QueueTypes
<1>3. \A c \in Caps :
          /\ running[c] = NoThread <=> pc[c] \in {"sched", "message"}
          /\ running[c] # NoThread =>
                home[running[c]] = c /\ why[running[c]] = IF pc[c] = "blocking" THEN "BlockedOnMsgThrowTo"
                                                                             ELSE "NotBlocked"
  BY <1>1 DEF CapabilitiesOK, CapabilityOK
<1> QED BY <1>1, <1>2, <1>3 DEF TypeOK, Types, Reasons, Masks, States, Headers, Locations

\* The state of throwTo is well-typed; a capability runs threads that it owns only, and that
\* are not blocked except on their way off the processor.
THEOREM TypeCorrect == Spec => []TypeOK
BY Invariance, InvTypeOK, PTL

\* The invariant places every message in force once.
LEMMA InvNeverLost == ThrowInv => NeverLost
<1> SUFFICES ASSUME ThrowInv, NEW m \in Messages, Waiting(m)
             PROVE  \E p \in Places(m) : Places(m) = {p}
  BY DEF NeverLost
<1>1. Types /\ AllocationOK /\ InOnePlace /\ WaitsOK BY DEF ThrowInv
<1>2. PICK s : s = source[m] OBVIOUS
<1>3. s \in Threads /\ why[s] = "BlockedOnMsgThrowTo" /\ block_info[s] = m /\ info[m] # "NULL"
  BY <1>1, <1>2 DEF Waiting, Types
<1>4. Placed(m) BY <1>1, <1>3 DEF WaitsOK, WaitOK
<1>5. PICK t : t = target[m] OBVIOUS
<1>6. t \in Threads BY <1>1, <1>4, <1>5 DEF AllocationOK
<1>7. \A p : p \in Places(m) <=>
          \/ \E c \in Caps : m \in inbox[c] /\ p = <<"inbox", c>>
          \/ \E c \in Caps : msg[c] = m /\ p = <<"executed", c>>
          \/ \E n \in DOMAIN blocked_exceptions[t] : blocked_exceptions[t][n] = m /\ p = <<"blocked", n>>
  BY <1>5 DEF Places
<1>8. /\ \A c, d \in Caps : /\ m \in inbox[c] /\ m \in inbox[d] => c = d
                            /\ m = msg[c] /\ m = msg[d] => c = d
                            /\ ~(m \in inbox[c] /\ m = msg[d])
      /\ \A u \in Threads : Queued(m, u) => u = t /\ \A c \in Caps : m \notin inbox[c] /\ m # msg[c]
      /\ \A n, o \in DOMAIN blocked_exceptions[t] :
            blocked_exceptions[t][n] = m /\ blocked_exceptions[t][o] = m => n = o
  BY <1>1, <1>5, <1>6 DEF InOnePlace
<1>9. CASE \E c \in Caps : m \in inbox[c]
  <2>1. PICK c \in Caps : m \in inbox[c] BY <1>9
  <2>2. \A p : p \in Places(m) <=> p = <<"inbox", c>>
    BY <1>6, <1>7, <1>8, <2>1 DEF Queued
  <2> DEFINE P == Places(m)
  <2> HIDE DEF P
  <2>3. P = {<<"inbox", c>>} BY <2>2 DEF P
  <2> QED BY <2>3 DEF P
<1>10. CASE \E c \in Caps : msg[c] = m
  <2>1. PICK c \in Caps : msg[c] = m BY <1>10
  <2>2. \A p : p \in Places(m) <=> p = <<"executed", c>>
    BY <1>6, <1>7, <1>8, <2>1 DEF Queued
  <2> DEFINE P == Places(m)
  <2> HIDE DEF P
  <2>3. P = {<<"executed", c>>} BY <2>2 DEF P
  <2> QED BY <2>3 DEF P
<1>11. CASE \E u \in Threads : Queued(m, u)
  <2>1. Queued(m, t) /\ \A c \in Caps : m \notin inbox[c] /\ m # msg[c] BY <1>8, <1>11
  <2>2. PICK n \in DOMAIN blocked_exceptions[t] : blocked_exceptions[t][n] = m BY <2>1 DEF Queued
  <2>3. \A p : p \in Places(m) <=> p = <<"blocked", n>>
    BY <1>7, <1>8, <2>1, <2>2
  <2> DEFINE P == Places(m)
  <2> HIDE DEF P
  <2>4. P = {<<"blocked", n>>} BY <2>3 DEF P
  <2> QED BY <2>4 DEF P
<1> QED BY <1>4, <1>9, <1>10, <1>11 DEF Placed

\* Through sends, collisions, queues and migrations, throwToMsg keeps a throw whose source
\* waits in exactly one place.
THEOREM ThrowsNeverLost == Spec => []NeverLost
BY Invariance, InvNeverLost, PTL

\* The invariant has a wakeup for whoever's throw is done.
LEMMA InvNoLostWakeup == ThrowInv => NoLostWakeup
BY DEF ThrowInv, WaitsOK, WaitOK, NoLostWakeup, WaitsForThrow

\* A thread whose throw was performed or revoked while it waited is told by somebody.
THEOREM WakeupsNeverLost == Spec => []NoLostWakeup
BY Invariance, InvNoLostWakeup, PTL

\* The invariant says of whom messages wait for that they have been looked at.
LEMMA InvPrompt == ThrowInv => Prompt
<1> SUFFICES ASSUME ThrowInv, NEW m \in Messages, Waiting(m),
                    \E n \in DOMAIN blocked_exceptions[target[m]] : blocked_exceptions[target[m]][n] = m
             PROVE  LookedAt(target[m]) /\ blocked_exceptions[target[m]] # <<>>
  BY DEF Prompt, LookedAt
<1>1. Types /\ AllocationOK /\ WaitsOK /\ AllLookedAt BY DEF ThrowInv
<1>2. source[m] \in Threads /\ info[m] # "NULL" BY <1>1 DEF Waiting, Types
<1>3. Placed(m) BY <1>1, <1>2 DEF WaitsOK, WaitOK, Waiting
<1>4. target[m] \in Threads BY <1>1, <1>3 DEF AllocationOK
<1> QED BY <1>1, <1>4 DEF AllLookedAt

\* No exception in force waits for a thread off the processor that could receive it:
\* threadPaused, resumeThread and unmaskAsyncExceptions# look at every moment that matters.
THEOREM ThrowsPrompt == Spec => []Prompt
BY Invariance, InvPrompt, PTL

----------------------------------------------------------------------------

\* What a step may do to the count of m's exception.
RaisedRightly(m) ==
    raised'[m] # raised[m] =>
        /\ raised'[m] = 1
        /\ Waiting(m) \/ \E c \in Caps : pc[c] = "throw" /\ msg[c] = m

\* A message that is found, not revoked, has not been performed, and is waited for.
LEMMA ForceOnce ==
  ASSUME ThrowInv, NEW m \in Messages, Placed(m), info[m] # "NULL"
  PROVE  /\ raised[m] = 0
         /\ Waiting(m) \/ \E c \in Caps : pc[c] = "throw" /\ msg[c] = m
<1>1. Types /\ CapabilitiesOK /\ WaitsOK /\ AllInForce BY DEF ThrowInv
<1>2. Waiting(m) \/ \E c \in Caps : Throws(c, m) BY <1>1 DEF AllInForce, ForceOK
<1>3. CASE Waiting(m)
  <2>1. source[m] \in Threads BY <1>1, <1>3 DEF Waiting, Types
  <2> QED BY <1>1, <1>3, <2>1 DEF WaitsOK, WaitOK, Waiting
<1>4. CASE \E c \in Caps : Throws(c, m) BY <1>1, <1>4 DEF CapabilitiesOK, CapabilityOK, Throws
<1> QED BY <1>2, <1>3, <1>4

\* maybePerformBlockedException raises exceptions in force only, and once.
LEMMA PerformRaises ==
  ASSUME ThrowInv, NEW c \in Caps, NEW t \in Threads, NEW k, NEW w, NEW i, MaybePerform(c, t, k, w, i),
         \A x \in Messages : i[x] # "NULL" => info[x] # "NULL",
         NEW m \in Messages
  PROVE  RaisedRightly(m)
<1>1. Types BY DEF ThrowInv
<1>2. NothingPerformed(t, k, w, i) \/ \E n \in DOMAIN blocked_exceptions[t] : Performed(c, t, n, k, w, i)
  BY <1>1, MaybePerformDoes
<1>3. CASE NothingPerformed(t, k, w, i) BY <1>3 DEF NothingPerformed, RaisedRightly
<1>4. CASE \E n \in DOMAIN blocked_exceptions[t] : Performed(c, t, n, k, w, i)
  <2>1. PICK n \in DOMAIN blocked_exceptions[t] : Performed(c, t, n, k, w, i) BY <1>4
  <2>2. PICK x : x = blocked_exceptions[t][n] OBVIOUS
  <2>3. x \in Messages BY <1>1, <2>2, QueueTypes
  <2>4. i[x] # "NULL" /\ raised' = [raised EXCEPT ![x] = @ + 1]
    BY <2>1, <2>2 DEF Performed, FirstLive
  <2>5. Placed(x) /\ info[x] # "NULL" BY <2>2, <2>3, <2>4 DEF Placed, Queued
  <2>6. raised[x] = 0 /\ (Waiting(x) \/ \E d \in Caps : pc[d] = "throw" /\ msg[d] = x)
    BY <2>3, <2>5, ForceOnce
  <2>7. raised \in [Messages -> Nat] BY <1>1 DEF Types
  <2>8. raised'[m] = IF m = x THEN raised[m] + 1 ELSE raised[m] BY <2>3, <2>4, <2>7
  <2> QED BY <2>6, <2>8 DEF RaisedRightly
<1> QED BY <1>2, <1>3, <1>4

\* Every step raises exceptions in force only, and once.
LEMMA RaisedStep ==
  ASSUME ThrowInv, [Next]_vars, NEW m \in Messages
  PROVE  RaisedRightly(m)
<1>1. Types /\ AllocationOK /\ InOnePlace /\ CapabilitiesOK /\ WaitsOK BY DEF ThrowInv
<1>2. ASSUME NEW c \in Caps, ThrowToMsg(c) PROVE RaisedRightly(m)
  <2>1. pc[c] \in {"throw", "message"} BY <1>2 DEF ThrowToMsg
  <2>2. PICK x : x = msg[c] OBVIOUS
  <2>3. x \in Messages /\ info[x] = "WHITEHOLE" /\ Placed(x)
    BY <1>1, <2>1, <2>2, MsgIsLocked, MsgPlace
  <2>4. raised' = raised \/ raised' = [raised EXCEPT ![x] = @ + 1]
    BY <1>2, <2>2
    DEF ThrowToMsg, TargetDead, TargetElsewhere, Send, Queue, Raise, Collision, Retry, message
  <2>5. raised \in [Messages -> Nat] BY <1>1 DEF Types
  <2>6. raised'[m] = raised[m] \/ (m = x /\ raised'[m] = raised[m] + 1) BY <2>3, <2>4, <2>5
  <2>7. raised[x] = 0 /\ (Waiting(x) \/ \E d \in Caps : pc[d] = "throw" /\ msg[d] = x)
    BY <2>3, ForceOnce
  <2> QED BY <2>6, <2>7 DEF RaisedRightly
<1>3. ASSUME NEW c \in Caps, BlockThrowTo(c) PROVE RaisedRightly(m)
  <2>1. PICK t : t = running[c] OBVIOUS
  <2>2. PICK i : i = FinallyUnlocks(block_info[t]) OBVIOUS
  <2>3. pc[c] = "blocking" /\ MaybePerform(c, t, mask[t], why, i)
    BY <1>3, <2>1, <2>2 DEF BlockThrowTo, Paused
  <2>4. t \in Threads BY <1>1, <2>1, <2>3, RunningIsOwned
  <2>5. block_info[t] \in Messages /\ info[block_info[t]] = "WHITEHOLE"
    BY <1>1, <2>1, <2>3, BlockingHolds
  <2>6. info \in [Messages -> Headers] BY <1>1 DEF Types
  <2>7. \A x \in Messages : i[x] # "NULL" => info[x] # "NULL" BY <2>2, <2>5, <2>6 DEF FinallyUnlocks
  <2> QED BY <2>3, <2>4, <2>7, PerformRaises
<1>4. ASSUME NEW c \in Caps, Yield(c) PROVE RaisedRightly(m)
  BY <1>1, <1>4, RunningIsOwned, PerformRaises DEF Yield, Paused
<1>5. ASSUME NEW c \in Caps, NEW reason \in {"BlockedOnMVar", "BlockedOnBlackHole", "BlockedOnCCall"},
             Block(c, reason)
      PROVE RaisedRightly(m)
  BY <1>1, <1>5, RunningIsOwned, PerformRaises DEF Block, Paused
<1>6. ASSUME NEW c \in Caps, Unmask(c) PROVE RaisedRightly(m)
  BY <1>1, <1>6, RunningIsOwned, PerformRaises DEF Unmask
<1>7. ASSUME NEW c \in Caps, NEW t \in Threads, Resume(c, t) PROVE RaisedRightly(m)
  <2>1. CASE mask[t] = "unmasked" BY <1>7, <2>1, PerformRaises DEF Resume
  <2>2. CASE mask[t] # "unmasked" BY <1>7, <2>2 DEF Resume, RaisedRightly
  <2> QED BY <2>1, <2>2
<1>8. ASSUME raised' = raised PROVE RaisedRightly(m) BY <1>8 DEF RaisedRightly
<1>9. ASSUME NEW c \in Caps,
             \/ Throw(c) \/ ThrowToMyself(c) \/ SetMask(c) \/ Finish(c) \/ HandleFinished(c)
             \/ \E x \in Messages : TakeMessage(c, x)
             \/ \E t \in Threads : Dispatch(c, t) \/ DeliverWakeup(c, t) \/ \E d \in Caps : Migrate(c, d, t)
      PROVE raised' = raised
  BY <1>9 DEF Throw, ThrowToMyself, SetMask, Finish, HandleFinished, TakeMessage, Dispatch,
     DeliverWakeup,
              Migrate, message
<1>10. ASSUME NEW t \in Threads, Unblock(t) PROVE raised' = raised BY <1>10 DEF Unblock, message
<1>11. ASSUME UNCHANGED vars PROVE raised' = raised BY <1>11 DEF vars, message
<1> HIDE DEF ThrowInv
<1>12. CASE Next
  <2>1. CASE \E t \in Threads : Unblock(t) BY <1>8, <1>10, <2>1
  <2>2. ASSUME NEW c \in Caps,
          \/ Throw(c) \/ ThrowToMyself(c) \/ ThrowToMsg(c)
          \/ BlockThrowTo(c) \/ Yield(c)
          \/ \E reason \in {"BlockedOnMVar", "BlockedOnBlackHole", "BlockedOnCCall"} : Block(c, reason)
          \/ SetMask(c) \/ Unmask(c) \/ Finish(c) \/ HandleFinished(c)
          \/ \E x \in Messages : TakeMessage(c, x)
          \/ \E t \in Threads :
                \/ Dispatch(c, t) \/ Resume(c, t) \/ DeliverWakeup(c, t)
                \/ \E d \in Caps : Migrate(c, d, t)
        PROVE RaisedRightly(m)
    BY <1>2, <1>3, <1>4, <1>5, <1>6, <1>7, <1>8, <1>9, <2>2
  <2> QED BY <1>12, <2>1, <2>2 DEF Next
<1> QED BY <1>8, <1>11, <1>12

\* An exception is raised at most once, and never after its source has itself been
\* interrupted: the revocation in removeFromQueues is always in time.
THEOREM ExceptionsRaisedInForce == Spec => RaisedInForce
<1>1. ThrowInv /\ [Next]_vars =>
        [\A m \in Messages : raised'[m] # raised[m] =>
             /\ raised'[m] = 1
             /\ Waiting(m) \/ \E c \in Caps : pc[c] = "throw" /\ msg[c] = m]_vars
  BY RaisedStep DEF RaisedRightly
<1> QED BY <1>1, Invariance, PTL DEF Spec, RaisedInForce

----------------------------------------------------------------------------
(* No circle of locks                                                      *)

\* When a thread has queued its throw on this capability and is about to leave the
\* processor with the lock, the target cannot migrate away meanwhile.
BlockingLocal ==
    \A c \in Caps : pc[c] = "blocking" =>
        \A t \in Threads : Queued(block_info[running[c]], t) => home[t] = c

\* No capability begins to leave the processor with a locked message.
NoneBlocks ==
    \A c \in Caps : pc'[c] = "blocking" =>
        pc[c] = "blocking" /\ running'[c] = running[c] /\ block_info'[running[c]] = block_info[running[c]]

\* Only messages that are executed are queued.
NoneQueued == \A t \in Threads, m \in Messages : Queued(m, t)' => Queued(m, t) \/ \E c \in Caps : msg[c] = m

\* Threads leave capabilities that are in the scheduler only.
NoneMoves == \A t \in Threads : home'[t] = home[t] \/ pc[home[t]] = "sched"

\* The step lets no lock get away from the capability of the target.
Stays == NoneBlocks /\ NoneQueued /\ NoneMoves

\* What is queued and locked by a thread that leaves the processor stays where it is.
LEMMA StaysKeeps ==
  ASSUME ThrowInv, BlockingLocal, Stays
  PROVE  BlockingLocal'
<1> SUFFICES ASSUME NEW c \in Caps, pc'[c] = "blocking", NEW t \in Threads, Queued(block_info[running[c]], t)'
             PROVE  home'[t] = c
  BY DEF BlockingLocal, Queued, Stays, NoneBlocks
<1>0. Types /\ CapabilitiesOK /\ WaitsOK BY DEF ThrowInv
<1>1. PICK m : m = block_info[running[c]] OBVIOUS
<1>2. pc[c] = "blocking" /\ block_info'[running'[c]] = m BY <1>1 DEF Stays, NoneBlocks
<1>3. m \in Messages /\ \A d \in Caps : msg[d] # m BY <1>0, <1>1, <1>2, BlockingHolds
<1>4. Queued(m, t)' BY <1>1, <1>2 DEF Queued
<1>5. Queued(m, t) BY <1>3, <1>4 DEF Stays, NoneQueued
<1>6. home[t] = c BY <1>1, <1>2, <1>5 DEF BlockingLocal
<1> QED BY <1>2, <1>6 DEF Stays, NoneMoves

\* A step of c alone, which does not enter block_throwto, queues nothing and moves no
\* thread, is such a step.
LEMMA StaysWhere ==
  ASSUME Types, CapabilitiesOK, NEW c \in Caps, pc'[c] # "blocking",
         \A d \in Caps \ {c} : running'[d] = running[d] /\ pc'[d] = pc[d],
         \A t \in Threads : home[t] # c => block_info'[t] = block_info[t],
         NoneQueued, home' = home
  PROVE  Stays
<1>1. ASSUME NEW d \in Caps, pc'[d] = "blocking"
      PROVE  pc[d] = "blocking" /\ running'[d] = running[d] /\ block_info'[running[d]] = block_info[running[d]]
  <2>1. d # c /\ pc[d] = "blocking" /\ running'[d] = running[d] BY <1>1
  <2>2. running[d] \in Threads /\ home[running[d]] = d BY <2>1, RunningIsOwned
  <2> QED BY <2>1, <2>2
<1> QED BY <1>1 DEF Stays, NoneBlocks, NoneMoves

\* maybePerformBlockedException only takes messages from the queue.
LEMMA PerformQueuesNone ==
  ASSUME Types, NEW c \in Caps, NEW t \in Threads, NEW k, NEW w, NEW i, MaybePerform(c, t, k, w, i)
  PROVE  NoneQueued
<1> SUFFICES ASSUME NEW u \in Threads, NEW m \in Messages, Queued(m, u)' PROVE Queued(m, u)
  BY DEF NoneQueued
<1>1. PICK q : q = blocked_exceptions[t] OBVIOUS
<1>2. q \in Seq(Messages) /\ Len(q) \in Nat /\ DOMAIN q = 1..Len(q) BY <1>1, QueueTypes
<1>3. \/ blocked_exceptions' = blocked_exceptions
      \/ blocked_exceptions' = [blocked_exceptions EXCEPT ![t] = <<>>]
      \/ \E n \in DOMAIN q : blocked_exceptions' = [blocked_exceptions EXCEPT ![t] = SubSeq(q, n + 1, Len(q))]
  <2>1. CASE NothingPerformed(t, k, w, i) BY <2>1 DEF NothingPerformed
  <2>2. ASSUME NEW n \in DOMAIN blocked_exceptions[t], Performed(c, t, n, k, w, i)
        PROVE  blocked_exceptions' = [blocked_exceptions EXCEPT ![t] = SubSeq(q, n + 1, Len(q))]
    BY <1>1, <2>2 DEF Performed
  <2>3. NothingPerformed(t, k, w, i) \/ \E n \in DOMAIN blocked_exceptions[t] : Performed(c, t, n, k, w, i)
    BY MaybePerformDoes
  <2> QED BY <1>1, <2>1, <2>2, <2>3
<1>4. CASE blocked_exceptions' = blocked_exceptions BY <1>4 DEF Queued
<1>5. CASE u # t
  <2>1. blocked_exceptions'[u] = blocked_exceptions[u] BY <1>3, <1>5 DEF Types
  <2> QED BY <2>1 DEF Queued
<1>6. CASE u = t /\ blocked_exceptions' = [blocked_exceptions EXCEPT ![t] = <<>>]
  <2>1. blocked_exceptions'[t] = <<>> BY <1>6 DEF Types
  <2> QED BY <1>6, <2>1 DEF Queued
<1>7. ASSUME u = t, NEW n \in DOMAIN q,
             blocked_exceptions' = [blocked_exceptions EXCEPT ![t] = SubSeq(q, n + 1, Len(q))]
      PROVE  Queued(m, u)
  <2>1. blocked_exceptions'[t] = SubSeq(q, n + 1, Len(q)) BY <1>7 DEF Types
  <2>2. \A o \in DOMAIN SubSeq(q, n + 1, Len(q)) : n + o \in DOMAIN q /\ SubSeq(q, n + 1, Len(q))[o] = q[n + o]
    BY <1>2, <1>7
  <2>3. PICK o \in DOMAIN SubSeq(q, n + 1, Len(q)) : SubSeq(q, n + 1, Len(q))[o] = m
    BY <1>7, <2>1 DEF Queued
  <2>4. n + o \in DOMAIN q /\ q[n + o] = m BY <2>2, <2>3
  <2> QED BY <1>1, <1>7, <2>4 DEF Queued
<1> QED BY <1>3, <1>4, <1>5, <1>6, <1>7

\* Steps around maybePerformBlockedException enter nothing and move nobody.
LEMMA PerformStays ==
  ASSUME ThrowInv, NEW c \in Caps, NEW t \in Threads, NEW k, NEW w, NEW i, MaybePerform(c, t, k, w, i),
         Leave(c) \/ GoOn(c, t)
  PROVE  Stays
<1>0. Types /\ CapabilitiesOK BY DEF ThrowInv
<1>1. NoneQueued BY <1>0, PerformQueuesNone
<1>2. pc \in [Caps -> Locations] /\ running \in [Caps -> Threads \cup {NoThread}] BY <1>0 DEF Types
<1>3. /\ pc'[c] # "blocking" /\ home' = home /\ block_info' = block_info
      /\ \A d \in Caps \ {c} : running'[d] = running[d] /\ pc'[d] = pc[d]
  BY <1>2 DEF Leave, GoOn
<1> QED BY <1>0, <1>1, <1>3, StaysWhere

\* The other steps of the thread that runs
LEMMA RunStays ==
  ASSUME ThrowInv, NEW c \in Caps,
         \/ Throw(c) \/ ThrowToMyself(c) \/ SetMask(c) \/ Finish(c) \/ HandleFinished(c)
         \/ \E m \in Messages : TakeMessage(c, m)
         \/ \E t \in Threads : Dispatch(c, t) \/ DeliverWakeup(c, t)
  PROVE  Stays
<1>0. Types /\ CapabilitiesOK BY DEF ThrowInv
<1>1. pc \in [Caps -> Locations] /\ running \in [Caps -> Threads \cup {NoThread}]
      /\ blocked_exceptions \in [Threads -> Seq(Messages)]
  BY <1>0 DEF Types
<1>2. /\ home' = home /\ block_info' = block_info
      /\ blocked_exceptions' = blocked_exceptions \/ blocked_exceptions' = [blocked_exceptions EXCEPT ![running[c]] = <<>>]
  BY DEF Throw, ThrowToMyself, SetMask, Finish, HandleFinished, TakeMessage, Dispatch, DeliverWakeup,
         Leave, thread
<1>3. /\ pc'[c] # "blocking"
      /\ \A d \in Caps \ {c} : running'[d] = running[d] /\ pc'[d] = pc[d]
  BY <1>1 DEF Throw, ThrowToMyself, SetMask, Finish, HandleFinished, TakeMessage, Dispatch, DeliverWakeup,
         Leave, cap
<1>4. NoneQueued
  <2> SUFFICES ASSUME NEW u \in Threads, NEW m \in Messages, Queued(m, u)' PROVE Queued(m, u)
    BY DEF NoneQueued
  <2>1. blocked_exceptions'[u] = blocked_exceptions[u] \/ blocked_exceptions'[u] = <<>> BY <1>1, <1>2
  <2> QED BY <2>1 DEF Queued
<1> QED BY <1>0, <1>2, <1>3, <1>4, StaysWhere

\* Threads migrate from a capability that is in the scheduler.
LEMMA MigrateStays ==
  ASSUME ThrowInv, NEW c \in Caps, NEW d \in Caps, NEW t \in Threads, Migrate(c, d, t)
  PROVE  Stays
<1>1. UNCHANGED <<block_info, blocked_exceptions, running, pc>> BY DEF Migrate, cap
<1>2. pc[c] = "sched" /\ home[t] = c /\ home' = [home EXCEPT ![t] = d] BY DEF Migrate
<1>3. NoneMoves BY <1>2 DEF NoneMoves, ThrowInv, Types
<1>4. NoneQueued BY <1>1 DEF NoneQueued, Queued
<1> QED BY <1>1, <1>3, <1>4 DEF Stays, NoneBlocks

\* throwToMsg queues its message only for threads of its own capability.
LEMMA ThrowToMsgStays ==
  ASSUME ThrowInv, BlockingLocal, NEW c \in Caps, ThrowToMsg(c)
  PROVE  BlockingLocal'
<1>0. Types /\ AllocationOK /\ InOnePlace /\ CapabilitiesOK /\ WaitsOK BY DEF ThrowInv
<1>1. PICK m : m = msg[c] OBVIOUS
<1>2. PICK t : t = target[m] OBVIOUS
<1>3. pc[c] \in {"throw", "message"} /\ home' = home /\ running' = running BY DEF ThrowToMsg
<1>4. /\ m \in Messages /\ source[m] \in Threads /\ t \in Threads
      /\ pc[c] = "throw" => source[m] = running[c]
  BY <1>0, <1>1, <1>2, <1>3, MsgIsLocked
<1>5. \A u \in Threads : ~Queued(m, u) BY <1>0, <1>1, <1>4 DEF InOnePlace
<1>6. TargetDead(c, t) \/ TargetElsewhere(c, t) \/ Queue(c, t) \/ Raise(c, t) \/ Collision(c, t) \/ Retry(c, t)
  BY <1>1, <1>2 DEF ThrowToMsg
<1>7. /\ \/ pc'[c] # "blocking" /\ block_info' = block_info
         \/ pc[c] = "throw" /\ pc'[c] = "blocking" /\ block_info' = [block_info EXCEPT ![source[m]] = m]
      /\ \A d \in Caps \ {c} : pc'[d] = pc[d]
  BY <1>0, <1>1, <1>3, <1>6 DEF TargetDead, TargetElsewhere, Send, Queue, Raise, Collision, Retry, Success,
         Blocked, Types
<1>8. \/ blocked_exceptions' = blocked_exceptions
      \/ home[t] = c /\ blocked_exceptions' = [blocked_exceptions EXCEPT ![t] = <<m>> \o @]
  BY <1>1, <1>6 DEF TargetDead, TargetElsewhere, Send, Queue, WaitFirst, Raise, Collision, Retry, Local
<1>9. \A u \in Threads, x \in Messages : Queued(x, u)' => Queued(x, u) \/ (x = m /\ home[u] = c)
  <2> SUFFICES ASSUME NEW u \in Threads, NEW x \in Messages, Queued(x, u)', ~Queued(x, u)
               PROVE  x = m /\ home[u] = c
    OBVIOUS
  <2>1. PICK q : q = blocked_exceptions[t] OBVIOUS
  <2>2. q \in Seq(Messages) /\ Len(q) \in Nat /\ DOMAIN q = 1..Len(q) BY <1>0, <1>4, <2>1, QueueTypes
  <2>3. u = t /\ home[t] = c /\ blocked_exceptions'[u] = <<m>> \o q
    BY <1>0, <1>4, <1>8, <2>1 DEF Types, Queued
  <2>4. PICK n \in DOMAIN (<<m>> \o q) : (<<m>> \o q)[n] = x BY <2>3 DEF Queued
  <2>5. <<m>> \in Seq(Messages) /\ Len(<<m>>) = 1 /\ <<m>>[1] = m BY <1>4
  <2>6. n \in 1..(Len(q) + 1) /\ (<<m>> \o q)[n] = IF n = 1 THEN m ELSE q[n - 1]
    BY <2>2, <2>4, <2>5
  <2>7. CASE n = 1 BY <2>3, <2>4, <2>6, <2>7
  <2>8. CASE n # 1
    <3>1. n - 1 \in DOMAIN q /\ q[n - 1] = x BY <2>2, <2>4, <2>6, <2>8
    <3> QED BY <2>1, <2>3, <3>1 DEF Queued
  <2> QED BY <2>7, <2>8
<1>10. ASSUME NEW d \in Caps, pc'[d] = "blocking", NEW u \in Threads, Queued(block_info[running[d]], u)'
       PROVE  home'[u] = d
  <2>1. CASE d = c
    <3>1. pc[c] = "throw" /\ running[c] = source[m] /\ block_info'[running'[c]] = m
      BY <1>0, <1>3, <1>4, <1>7, <1>10, <2>1 DEF Types
    <3>2. Queued(m, u)' BY <1>10, <2>1, <3>1 DEF Queued
    <3> QED BY <1>3, <1>4, <1>5, <1>9, <2>1, <3>2
  <2>2. CASE d # c
    <3>1. pc[d] = "blocking" BY <1>7, <1>10, <2>2
    <3>2. running[d] \in Threads /\ home[running[d]] = d BY <1>0, <3>1, RunningIsOwned
    <3>3. pc[c] = "throw" => source[m] # running[d]
      <4>1. pc[c] = "throw" => home[running[c]] = c BY <1>0, RunningIsOwned
      <4> QED BY <1>4, <2>2, <3>2, <4>1
    <3>4. block_info'[running[d]] = block_info[running[d]] BY <1>0, <1>7, <3>2, <3>3 DEF Types
    <3>5. PICK x : x = block_info[running[d]] OBVIOUS
    <3>6. x \in Messages /\ x # m BY <1>0, <1>1, <3>1, <3>5, BlockingHolds
    <3>7. Queued(x, u)' BY <1>3, <1>10, <3>4, <3>5 DEF Queued
    <3>8. Queued(x, u) BY <1>9, <3>6, <3>7
    <3> QED BY <1>3, <3>1, <3>5, <3>8 DEF BlockingLocal
  <2> QED BY <2>1, <2>2
<1> QED BY <1>10 DEF BlockingLocal, Queued

\* Every step keeps the locks of those who leave the processor with their targets.
LEMMA LocalStep ==
  ASSUME ThrowInv, BlockingLocal, [Next]_vars
  PROVE  BlockingLocal'
<1>0. Types /\ CapabilitiesOK BY DEF ThrowInv
<1>1. ASSUME NEW c \in Caps, ThrowToMsg(c) PROVE BlockingLocal' BY <1>1, ThrowToMsgStays
<1>2. ASSUME NEW c \in Caps,
             \/ BlockThrowTo(c) \/ Yield(c) \/ Unmask(c)
             \/ \E reason \in {"BlockedOnMVar", "BlockedOnBlackHole", "BlockedOnCCall"} : Block(c, reason)
      PROVE  BlockingLocal'
  <2>1. PICK t : t = running[c] OBVIOUS
  <2>2. pc[c] \in {"run", "blocking"} BY <1>2 DEF BlockThrowTo, Yield, Unmask, Block
  <2>3. t \in Threads BY <1>0, <2>1, <2>2, RunningIsOwned
  <2>4. \E k, w, i : MaybePerform(c, t, k, w, i) /\ (Leave(c) \/ GoOn(c, t))
    BY <1>2, <2>1 DEF BlockThrowTo, Yield, Unmask, Block, Paused
  <2> QED BY <2>3, <2>4, PerformStays, StaysKeeps
<1>3. ASSUME NEW c \in Caps, NEW t \in Threads, Resume(c, t) PROVE BlockingLocal'
  <2>1. CASE mask[t] = "unmasked"
    <3>1. \E w : MaybePerform(c, t, "unmasked", w, info) /\ GoOn(c, t) BY <1>3, <2>1 DEF Resume
    <3> QED BY <3>1, PerformStays, StaysKeeps
  <2>2. CASE mask[t] # "unmasked"
    <3>1. blocked_exceptions' = blocked_exceptions /\ GoOn(c, t) BY <1>3, <2>2 DEF Resume
    <3>2. NoneQueued BY <3>1 DEF NoneQueued, Queued
    <3>3. /\ pc'[c] # "blocking" /\ home' = home /\ block_info' = block_info
          /\ \A d \in Caps \ {c} : running'[d] = running[d] /\ pc'[d] = pc[d]
      BY <1>0, <3>1 DEF GoOn, Types
    <3> QED BY <1>0, <3>2, <3>3, StaysWhere, StaysKeeps
  <2> QED BY <2>1, <2>2
<1>4. ASSUME NEW c \in Caps,
             \/ Throw(c) \/ ThrowToMyself(c) \/ SetMask(c) \/ Finish(c) \/ HandleFinished(c)
             \/ \E m \in Messages : TakeMessage(c, m)
             \/ \E t \in Threads : Dispatch(c, t) \/ DeliverWakeup(c, t)
      PROVE  BlockingLocal'
  BY <1>4, RunStays, StaysKeeps
<1>5. ASSUME NEW c \in Caps, NEW d \in Caps, NEW t \in Threads, Migrate(c, d, t) PROVE BlockingLocal'
  BY <1>5, MigrateStays, StaysKeeps
<1>6. ASSUME UNCHANGED <<home, block_info, blocked_exceptions, running, pc>> PROVE BlockingLocal'
  BY <1>6 DEF BlockingLocal, Queued
<1>7. ASSUME NEW t \in Threads, Unblock(t) PROVE BlockingLocal' BY <1>6, <1>7 DEF Unblock, cap
<1>8. ASSUME UNCHANGED vars PROVE BlockingLocal' BY <1>6, <1>8 DEF vars, thread, cap
<1> HIDE DEF ThrowInv, BlockingLocal
<1> QED BY <1>1, <1>2, <1>3, <1>4, <1>5, <1>7, <1>8 DEF Next

\* A capability never spins for a message that another one holds on its way off the
\* processor; and of two that execute messages, the one with the higher address spins
\* for the lower.
LEMMA SpinsForLower ==
  ASSUME ThrowInv, BlockingLocal, NEW c \in Caps, NEW d \in Caps, NEW m \in Messages, SpinsFor(c, m), Holds(d, m)
  PROVE  pc[c] \in {"throw", "message"} /\ pc[d] \in {"throw", "message"} /\ msg[d] < msg[c]
<1>0. Types /\ AllocationOK /\ InOnePlace /\ CapabilitiesOK /\ WaitsOK BY DEF ThrowInv
<1>1. CASE pc[c] \in {"blocking", "finish"}
  <2>1. running[c] \in Threads /\ home[running[c]] = c BY <1>0, <1>1, RunningIsOwned
  <2>2. Queued(m, running[c]) BY <1>1 DEF SpinsFor, Queued
  <2>3. ~(msg[d] = m) BY <1>0, <2>1, <2>2 DEF InOnePlace
  <2>4. pc[d] = "blocking" /\ block_info[running[d]] = m BY <2>3 DEF Holds
  <2>5. home[running[c]] = d BY <2>1, <2>2, <2>4 DEF BlockingLocal
  <2> QED BY <2>1, <2>5 DEF SpinsFor
<1>2. CASE pc[c] \notin {"blocking", "finish"}
  <2>1. PICK t : t = target[msg[c]] OBVIOUS
  <2>2. /\ pc[c] \in {"throw", "message"}
        /\ home[t] = c /\ why[t] = "BlockedOnMsgThrowTo" /\ block_info[t] = m /\ m < msg[c]
    BY <1>2, <2>1 DEF SpinsFor, Local, WaitsForThrow, MaySpin
  <2>3. t \in Threads BY <1>0, <2>1, <2>2, MsgIsLocked
  <2>4. source[m] = t BY <1>0, <2>2, <2>3 DEF WaitsOK, WaitOK
  <2>5. CASE pc[d] = "blocking" /\ block_info[running[d]] = m
    <3>1. source[m] = running[d] /\ home[running[d]] = d BY <1>0, <2>5, BlockingHolds, RunningIsOwned
    <3> QED BY <2>2, <2>4, <2>5, <3>1
  <2>6. CASE pc[d] \in {"throw", "message"} /\ msg[d] = m BY <2>2, <2>6
  <2> QED BY <2>5, <2>6 DEF Holds
<1> QED BY <1>1, <1>2

\* Of capabilities that execute messages, the one whose message has the lowest address does
\* not wait for any of the others.
LEMMA InvNoLockCycle == ThrowInv /\ BlockingLocal => NoLockCycle
<1> SUFFICES ASSUME ThrowInv, BlockingLocal, NEW cs \in (SUBSET Caps) \ {{}}
             PROVE  \E c \in cs : \A d \in cs, m \in Messages : ~(SpinsFor(c, m) /\ Holds(d, m))
  BY DEF NoLockCycle
<1>0. Types /\ AllocationOK /\ CapabilitiesOK BY DEF ThrowInv
<1>1. CASE \E c \in cs : pc[c] \notin {"throw", "message"}
  <2>1. PICK c \in cs : pc[c] \notin {"throw", "message"} BY <1>1
  <2>2. \A d \in cs, m \in Messages : ~(SpinsFor(c, m) /\ Holds(d, m)) BY <2>1, SpinsForLower
  <2> QED BY <2>2
<1>2. CASE \A c \in cs : pc[c] \in {"throw", "message"}
  <2>1. \A c \in cs : msg[c] \in Nat BY <1>0, <1>2, MsgIsLocked, MessagesAreNumbers
  <2> DEFINE T == {msg[c] : c \in cs}
  <2>2. T \subseteq Nat /\ T # {} BY <2>1
  <2>3. \E x \in T : \A y \in T : x <= y
    <3> HIDE DEF T
    <3> QED BY <2>2, LeastOfNaturals
  <2>4. PICK c \in cs : \A d \in cs : msg[c] <= msg[d] BY <2>3
  <2>5. \A d \in cs : ~(msg[d] < msg[c]) BY <2>1, <2>4
  <2>6. \A d \in cs, m \in Messages : ~(SpinsFor(c, m) /\ Holds(d, m)) BY <2>5, SpinsForLower
  <2> QED BY <2>6
<1> QED BY <1>1, <1>2

\* However throws cross, capabilities do not wait for each other's locks in a circle: the
\* comparison of addresses and the back-off in throwToMsg break every one.
THEOREM LocksNeverCycle == Spec => []NoLockCycle
<1>1. Init => BlockingLocal BY DEF Init, BlockingLocal
<1>2. ThrowInv /\ ThrowInv' /\ BlockingLocal /\ [Next]_vars => BlockingLocal' BY LocalStep
<1> QED BY <1>1, <1>2, Invariance, InvNoLockCycle, PTL DEF Spec
==============================================================================
