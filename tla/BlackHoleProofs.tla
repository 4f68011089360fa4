--------------------------- MODULE BlackHoleProofs ---------------------------
(***************************************************************************)
(* Who waits for a thunk waits for a thread that evaluates it, a queue of  *)
(* waiters is found by the thread it is waiting for, and an AP_STACK is    *)
(* resumed once: for any number of capabilities, threads and closures, and *)
(* any program whose thunks do not need themselves.                        *)
(*                                                                         *)
(* The argument, in the order of the module:                               *)
(*                                                                         *)
(*   - stacks (Types, StacksOK): a stack is a stop frame under update      *)
(*     frames; those below a frame that threadPaused has marked are        *)
(*     marked, and a thread that does not run has no others;               *)
(*   - ranks (Ranked): there is an order on the closures in which a        *)
(*     closure is above what it needs or points to, and a stack goes up.   *)
(*     So a thread has one frame for a closure, and does not enter what it *)
(*     is evaluating.  An AP_STACK takes the rank of the thunk that        *)
(*     raiseAsync freezes, which is why the order cannot be a fixed one;   *)
(*   - sharing (Sharing): what a black hole points to is a thread, or the  *)
(*     queue of a thread, with a frame for it; the frames that queues are  *)
(*     for are marked; and a thread in the middle of a claim or an update  *)
(*     knows what it has seen, which no other thread can make wrong.       *)
(*                                                                         *)
(* An action has one lemma in each part: ...Types, ...Rank, ...Shares.     *)
(* What one thread does by itself (OwnStep) and what messageBlackHole does *)
(* (MessageStep) is put into a form for which the last part is proved      *)
(* once.                                                                   *)
(***************************************************************************)
EXTENDS BlackHole, FiniteSetTheorems, WellFoundedInduction, TLAPS

\* Where a capability can be
Places == {"sched", "run", "claim_ind", "claim_info", "store_ind", "store_info", "pause",
           "freeze", "queue"}

\* ... while it claims a thunk
Claiming == {"claim_ind", "claim_info"}

\* ... while it updates one
Storing == {"store_ind", "store_info"}

\* The types of the variables
Types ==
    /\ info \in [Closures -> {"unallocated", "THUNK", "AP_STACK", "WHITEHOLE", "BLACKHOLE"}]
    /\ ind \in [Closures -> Pointers]
    /\ code \in [Closures -> Seq(Closures)]
    /\ bq \in [Queues -> [live : BOOLEAN, bh : Closures \cup {None},
                          owner : Threads \cup {NoThread}, queue : SUBSET Msgs]]
    /\ msg \in [Msgs -> [live : BOOLEAN, tso : Threads \cup {NoThread}, bh : Closures \cup {None}]]
    /\ inbox \in [Caps -> SUBSET Msgs]
    /\ wakeups \in [Caps -> [Threads -> Nat]]
    /\ home \in [Threads -> Caps]
    /\ stack \in [Threads -> Seq(Frames)]
    /\ enter \in [Threads -> Closures \cup {None}]
    /\ why \in [Threads -> {"NotBlocked", "BlockedOnBlackHole", "Finished"}]
    /\ block_info \in [Threads -> Msgs \cup {None}]
    /\ running \in [Caps -> Threads \cup {NoThread}]
    /\ pc \in [Caps -> Places]
    /\ at \in [Caps -> Nat \ {0}]
    /\ upd \in [Caps -> [val : Pointers, seen : Pointers]]
    /\ cur \in [Caps -> Msgs \cup {None}]

\* A stack: update frames, and a stop frame at the bottom
StackOK(s) ==
    /\ s \in Seq(Frames) /\ Len(s) > 0
    /\ \A i \in 1..Len(s) : /\ s[i].kind = "stop" <=> i = Len(s)
                            /\ s[i].kind # "stop" => s[i].upd \in Closures
                            /\ s[i].kind = "stop" => s[i].upd = None

\* The stack of a thread that does not run: threadPaused has been through with it.
Parked(s) == \A i \in 1..Len(s) : s[i].kind \in {"marked", "stop"}

\* threadPaused has marked the frames above n
MarkedBefore(s, n) == \A i \in 1..Len(s) : i < n => s[i].kind = "marked"

\* From n on, what is below a marked frame is marked: where threadPaused can stop.
MarkedFrom(s, n) ==
    \A i, j \in 1..Len(s) : n <= i /\ i < j /\ s[i].kind = "marked"
      => s[j].kind \in {"marked", "stop"}

\* c has got to the frame n of the stack s.
AtOK(c, s, n) ==
    /\ n \in 1..Len(s)
    /\ pc[c] = "run" => MarkedFrom(s, 1)
    /\ pc[c] = "queue" => MarkedFrom(s, 1)
    /\ pc[c] = "pause" => MarkedBefore(s, n) /\ MarkedFrom(s, n)
    /\ pc[c] \in Claiming =>
          /\ MarkedBefore(s, n) /\ MarkedFrom(s, n + 1)
          /\ s[n].kind = "marked" \/ (s[n].kind = "bh" /\ n = 1)
    /\ pc[c] = "freeze" => MarkedBefore(s, n) /\ MarkedFrom(s, n) /\ s[n].kind # "marked"
    /\ pc[c] \in Storing =>
          /\ s[1].kind # "stop"
          /\ \/ upd[c].val = Value /\ n = 1 /\ MarkedFrom(s, 1)
             \/ /\ upd[c].val.to = "closure" /\ upd[c].val.id \in APs /\ n > 1
                /\ MarkedBefore(s, n) /\ MarkedFrom(s, n) /\ s[n].kind # "marked"
    /\ pc[c] = "store_ind" => s[1].kind # "upd"

\* What a capability works on is a thread of its own, at a frame that it can be at.
CapOK(c) ==
    /\ pc[c] = "sched" => running[c] = NoThread
    /\ pc[c] \in {"sched", "run", "queue"} => at[c] = 1
    /\ running[c] = NoThread => pc[c] \in {"sched", "queue"}
    /\ running[c] # NoThread => home[running[c]] = c /\ AtOK(c, stack[running[c]], at[c])

\* A thread
ThreadOK(t) == StackOK(stack[t]) /\ (running[home[t]] # t => Parked(stack[t]))

\* All threads, and what the capabilities have got to
StacksOK == (\A t \in Threads : ThreadOK(t)) /\ (\A c \in Caps : CapOK(c))

\* What the values that stand for nothing are not
LEMMA Distinct ==
  /\ NoThread \notin Threads /\ None \notin Msgs /\ None \notin Closures /\ None \notin Queues
  /\ Thunks \subseteq Closures /\ APs \subseteq Closures /\ Thunks \cap APs = {}
  /\ Closures \subseteq Nat /\ Msgs \subseteq Nat /\ Queues \subseteq Nat
<1>1. Len(Needs) \in Nat /\ Thunks = 1..Len(Needs) BY BlackHoleAssumption DEF Thunks
<1>2. MaxAPs \in Nat /\ MaxMsgs \in Nat /\ MaxQueues \in Nat BY BlackHoleAssumption
<1> QED BY <1>1, <1>2, BlackHoleAssumption DEF None, Msgs, Queues, APs, Closures

\* The kinds of indirectees
LEMMA PointerKinds ==
  /\ \A p \in Pointers : \/ p = Null \/ p = Value
                         \/ p.to = "tso" /\ p.id \in Threads /\ p = TSO(p.id)
                         \/ p.to = "bq" /\ p.id \in Queues /\ p = BQ(p.id)
                         \/ p.to = "closure" /\ p.id \in Closures /\ p = Closure(p.id)
  /\ Null \in Pointers /\ Value \in Pointers
  /\ \A t \in Threads : TSO(t) \in Pointers
  /\ \A q \in Queues : BQ(q) \in Pointers
  /\ \A k \in Closures : Closure(k) \in Pointers
<1>1. ASSUME NEW p \in Pointers
      PROVE  \/ p = Null \/ p = Value
             \/ \E t \in Threads : p = TSO(t)
             \/ \E q \in Queues : p = BQ(q)
             \/ \E k \in Closures : p = Closure(k)
  BY DEF Pointers
<1>2. /\ \A t \in Threads : TSO(t).to = "tso" /\ TSO(t).id = t
      /\ \A q \in Queues : BQ(q).to = "bq" /\ BQ(q).id = q
      /\ \A k \in Closures : Closure(k).to = "closure" /\ Closure(k).id = k
  BY DEF TSO, BQ, Closure
<1>3. /\ Null \in Pointers /\ Value \in Pointers
      /\ \A t \in Threads : TSO(t) \in Pointers
      /\ \A q \in Queues : BQ(q) \in Pointers
      /\ \A k \in Closures : Closure(k) \in Pointers
  BY DEF Pointers
<1> QED BY <1>1, <1>2, <1>3

\* What a pointer is, is told by its tag.
LEMMA PointerTags ==
  /\ Null.to = "null" /\ Value.to = "value"
  /\ \A x : /\ TSO(x).to = "tso" /\ TSO(x).id = x /\ BQ(x).to = "bq" /\ BQ(x).id = x
            /\ Closure(x).to = "closure" /\ Closure(x).id = x
BY DEF Null, Value, TSO, BQ, Closure

\* A set of naturals that is not empty has a least member.
LEMMA LeastOfNaturals ==
  ASSUME NEW S, S \subseteq Nat, S # {}
  PROVE  \E x \in S : \A y \in S : x <= y
<1>1. \E x \in S : \A y \in S : ~ (<<y, x>> \in OpToRel(<, Nat))
  BY WFMin, NatLessThanWellFounded
<1>2. PICK x \in S : \A y \in S : ~ (<<y, x>> \in OpToRel(<, Nat))
  BY <1>1
<1>3. ASSUME NEW y \in S PROVE x <= y
  <2>1. ~(<<y, x>> \in OpToRel(<, Nat))
    BY <1>2
  <2>2. <<y, x>> \in Nat \X Nat
    OBVIOUS
  <2>3. ~ (y < x)
    BY <2>1, <2>2 DEF OpToRel
  <2> QED BY <2>3
<1> QED BY <1>3

\* The object that is allocated is a free one.
LEMMA FirstOK ==
  ASSUME NEW S, S \subseteq Nat, S # {}
  PROVE  First(S) \in S
<1>1. \E x \in S : \A y \in S : x <= y BY LeastOfNaturals
<1> QED BY <1>1 DEF First

\* The stack of a thread
LEMMA StackTypes ==
  ASSUME Types, StacksOK, NEW t \in Threads
  PROVE  /\ StackOK(stack[t]) /\ stack[t] \in Seq(Frames) /\ Len(stack[t]) \in Nat
         /\ Len(stack[t]) > 0
         /\ DOMAIN stack[t] = 1..Len(stack[t])
         /\ \A i \in 1..Len(stack[t]) : stack[t][i] \in Frames
<1>1. StackOK(stack[t]) BY DEF StacksOK, ThreadOK
<1>2. stack[t] \in Seq(Frames) BY <1>1 DEF StackOK
<1> QED BY <1>1, <1>2 DEF StackOK

\* Stacks that have the same frames, apart from what is left to do in them
SameFrames(s, r) ==
    /\ r \in Seq(Frames) /\ Len(r) = Len(s)
    /\ \A i \in 1..Len(s) : r[i].kind = s[i].kind /\ r[i].upd = s[i].upd

\* r is s with a frame pushed.
Pushed(s, r, kind, k) ==
    /\ r \in Seq(Frames) /\ Len(r) = Len(s) + 1
    /\ r[1].kind = kind /\ r[1].upd = k
    /\ \A i \in 1..Len(s) : r[i + 1].kind = s[i].kind /\ r[i + 1].upd = s[i].upd

\* p is s without its top frame: the frame that an update removes.
Popped(s, r) ==
    /\ r \in Seq(Frames) /\ Len(r) = Len(s) - 1
    /\ \A i \in 1..Len(r) : r[i] = s[i + 1]

\* r is s with the frame n marked by threadPaused.
Marked(s, r, n) ==
    /\ r \in Seq(Frames) /\ Len(r) = Len(s)
    /\ \A i \in 1..Len(s) : r[i].kind = (IF i = n THEN "marked" ELSE s[i].kind)
         /\ r[i].upd = s[i].upd /\ r[i].todo = s[i].todo

\* What a thread has left to do does not matter for the shape of its stack.
LEMMA SameFramesOK ==
  ASSUME NEW s, NEW r, StackOK(s), SameFrames(s, r)
  PROVE  StackOK(r) /\ (Parked(s) => Parked(r)) /\ \A n \in Nat : (MarkedFrom(s, n)
           => MarkedFrom(r, n)) /\ (MarkedBefore(s, n) => MarkedBefore(r, n))
BY DEF StackOK, SameFrames, Parked, MarkedFrom, MarkedBefore

\* A frame on top of a stack, as the code of a thunk pushes it
LEMMA PushedOK ==
  ASSUME NEW s, NEW r, NEW kind \in {"upd", "bh"}, NEW k \in Closures, StackOK(s), Pushed(s, r,
         kind, k)
  PROVE  StackOK(r) /\ (MarkedFrom(s, 1) => MarkedFrom(r, 1))
<1>1. Len(s) \in Nat /\ Len(s) > 0 /\ Len(r) = Len(s) + 1 BY DEF StackOK, Pushed
<1>2. ASSUME NEW i \in 1..Len(r), i # 1
      PROVE  i - 1 \in 1..Len(s) /\ r[i].kind = s[i - 1].kind /\ r[i].upd = s[i - 1].upd
  <2>1. PICK j \in Int : j = i - 1 OBVIOUS
  <2>2. j \in 1..Len(s) /\ i = j + 1 BY <1>2, <1>1, <2>1
  <2>3. r[j + 1].kind = s[j].kind /\ r[j + 1].upd = s[j].upd BY <2>2 DEF Pushed
  <2> QED BY <2>1, <2>2, <2>3
<1>3. StackOK(r)
  <2>1. ASSUME NEW i \in 1..Len(r)
        PROVE  /\ (r[i].kind = "stop" <=> i = Len(r)) /\ (r[i].kind # "stop"
                    => r[i].upd \in Closures)
               /\ (r[i].kind = "stop" => r[i].upd = None)
    <3>1. CASE i = 1 BY <1>1, <3>1 DEF Pushed
    <3>2. CASE i # 1
      <4>1. PICK j \in 1..Len(s) : j = i - 1 /\ r[i].kind = s[j].kind /\ r[i].upd = s[j].upd
        BY <1>2, <3>2
      <4>2. (s[j].kind = "stop" <=> j = Len(s)) /\ (s[j].kind # "stop" => s[j].upd \in Closures)
            /\ (s[j].kind = "stop" => s[j].upd = None) BY DEF StackOK
      <4> QED BY <1>1, <4>1, <4>2
    <3> QED BY <3>1, <3>2
  <2> QED BY <1>1, <2>1 DEF StackOK, Pushed
<1>4. ASSUME MarkedFrom(s, 1) PROVE MarkedFrom(r, 1)
  <2> SUFFICES ASSUME NEW i \in 1..Len(r), NEW j \in 1..Len(r), i < j, r[i].kind = "marked"
               PROVE  r[j].kind \in {"marked", "stop"}
    BY DEF MarkedFrom
  <2>1. i # 1 /\ j # 1 BY DEF Pushed
  <2>2. PICK a \in 1..Len(s) : a = i - 1 /\ r[i].kind = s[a].kind BY <1>2, <2>1
  <2>3. PICK b \in 1..Len(s) : b = j - 1 /\ r[j].kind = s[b].kind BY <1>2, <2>1
  <2> QED BY <1>4, <2>2, <2>3 DEF MarkedFrom
<1> QED BY <1>3, <1>4

\* A stack without its top frame
LEMMA PoppedOK ==
  ASSUME NEW s, NEW r, StackOK(s), s[1].kind # "stop", Popped(s, r)
  PROVE  /\ StackOK(r)
         /\ \A n \in Nat \ {0} : /\ MarkedFrom(s, n + 1) => MarkedFrom(r, n)
                                 /\ MarkedFrom(s, 1) => MarkedFrom(r, n)
                                 /\ MarkedBefore(s, n + 1) => MarkedBefore(r, n)
<1>1. \A i \in 1..Len(r) : i + 1 \in 1..Len(s) /\ r[i] = s[i + 1] BY DEF StackOK, Popped
<1>2. Len(s) \in Nat /\ Len(s) > 0 /\ Len(r) = Len(s) - 1 /\ Len(s) # 1 BY DEF StackOK, Popped
<1>3. StackOK(r) BY <1>1, <1>2 DEF StackOK, Popped
<1>4. ASSUME NEW n \in Nat \ {0}
      PROVE  /\ MarkedFrom(s, n + 1) => MarkedFrom(r, n)
             /\ MarkedFrom(s, 1) => MarkedFrom(r, n)
             /\ MarkedBefore(s, n + 1) => MarkedBefore(r, n)
  <2>1. ASSUME NEW m \in Nat, MarkedFrom(s, m), m <= n + 1
        PROVE  MarkedFrom(r, n)
    <3> SUFFICES ASSUME NEW i \in 1..Len(r), NEW j \in 1..Len(r), n <= i, i < j,
                        r[i].kind = "marked"
                 PROVE  r[j].kind \in {"marked", "stop"}
      BY DEF MarkedFrom
    <3>1. PICK a \in 1..Len(s), b \in 1..Len(s) : a = i + 1 /\ b = j + 1 /\ r[i] = s[a]
            /\ r[j] = s[b]
      BY <1>1
    <3>2. m <= a /\ a < b BY <2>1, <3>1
    <3> QED BY <2>1, <3>1, <3>2 DEF MarkedFrom
  <2>2. MarkedFrom(s, n + 1) => MarkedFrom(r, n)
    <3>1. n + 1 \in Nat /\ n + 1 <= n + 1 OBVIOUS
    <3> QED BY <2>1, <3>1
  <2>3. MarkedFrom(s, 1) => MarkedFrom(r, n)
    <3>1. 1 \in Nat /\ 1 <= n + 1 OBVIOUS
    <3> QED BY <2>1, <3>1
  <2>4. MarkedBefore(s, n + 1) => MarkedBefore(r, n) BY <1>1, <1>2 DEF MarkedBefore
  <2> QED BY <2>2, <2>3, <2>4
<1> QED BY <1>3, <1>4

\* A stack with one more frame marked
LEMMA MarkedOK ==
  ASSUME NEW s, NEW r, NEW n \in 1..Len(s), s[n].kind # "stop", StackOK(s), Marked(s, r, n)
  PROVE  /\ StackOK(r)
         /\ MarkedBefore(s, n) => MarkedBefore(r, n) /\ MarkedBefore(r, n + 1)
         /\ MarkedFrom(s, n) => MarkedFrom(r, n + 1)
BY DEF StackOK, Marked, MarkedFrom, MarkedBefore

\* c takes a step, with its thread t, if any.
LEMMA Local ==
  ASSUME Types, StacksOK, NEW c \in Caps, home' = home,
         \A d \in Caps \ {c} : pc'[d] = pc[d] /\ at'[d] = at[d] /\ running'[d] = running[d]
           /\ upd'[d] = upd[d],
         \A u \in Threads : home[u] # c => stack'[u] = stack[u],
         \A u \in Threads : home[u] = c => StackOK(stack'[u]) /\ (running'[c] # u
           => Parked(stack'[u])),
         CapOK(c)'
  PROVE  StacksOK'
<1>1. ASSUME NEW d \in Caps PROVE CapOK(d)'
  <2>1. CASE d = c BY <2>1
  <2>2. CASE d # c
    <3>1. CapOK(d) BY DEF StacksOK
    <3>2. running[d] \in Threads \cup {NoThread} BY DEF Types
    <3>3. running[d] # NoThread => stack'[running[d]] = stack[running[d]]
      BY <2>2, <3>1, <3>2 DEF CapOK
    <3>4. running[d] # NoThread => AtOK(d, stack[running[d]], at[d])'
      BY <2>2, <3>1, <3>3 DEF CapOK, AtOK
    <3> QED BY <2>2, <3>1, <3>3, <3>4 DEF CapOK
  <2> QED BY <2>1, <2>2
<1>2. ASSUME NEW u \in Threads PROVE ThreadOK(u)'
  <2>1. home[u] \in Caps BY DEF Types
  <2>2. CASE home[u] = c BY <2>2 DEF ThreadOK
  <2>3. CASE home[u] # c
    <3>1. ThreadOK(u) BY DEF StacksOK
    <3> QED BY <2>1, <2>3, <3>1 DEF ThreadOK
  <2> QED BY <2>2, <2>3
<1> QED BY <1>1, <1>2 DEF StacksOK

\* The thread that c runs
LEMMA RunsItsThread ==
  ASSUME Types, StacksOK, NEW c \in Caps, running[c] # NoThread
  PROVE  /\ running[c] \in Threads /\ home[running[c]] = c /\ AtOK(c, stack[running[c]], at[c])
         /\ \A u \in Threads : home[u] = c /\ u # running[c] => StackOK(stack[u])
              /\ Parked(stack[u])
         /\ \A d \in Caps : running[d] = running[c] => d = c
<1>1. running[c] \in Threads BY DEF Types
<1>2. \A d \in Caps : CapOK(d) BY DEF StacksOK
<1>3. \A u \in Threads : ThreadOK(u) BY DEF StacksOK
<1> QED BY <1>1, <1>2, <1>3 DEF CapOK, ThreadOK

\* A capability that is in the middle of something has a thread.
LEMMA RunsAt ==
  ASSUME Types, StacksOK, NEW c \in Caps, pc[c] \notin {"sched", "queue"}
  PROVE  running[c] \in Threads /\ running[c] # NoThread
<1>1. CapOK(c) BY DEF StacksOK
<1> QED BY <1>1 DEF CapOK, Types

\* c takes a step with the thread that it runs and goes on running.
LEMMA RunningStep ==
  ASSUME Types, StacksOK, NEW c \in Caps, NEW t, t = running[c], t # NoThread, home' = home,
         running' = running,
         \A d \in Caps \ {c} : pc'[d] = pc[d] /\ at'[d] = at[d] /\ upd'[d] = upd[d],
         \A u \in Threads \ {t} : stack'[u] = stack[u],
         StackOK(stack'[t]), pc'[c] # "sched", pc'[c] \in {"run", "queue"} => at'[c] = 1,
         AtOK(c, stack[t], at[c])'
  PROVE  StacksOK'
<1>1. t \in Threads /\ home[t] = c /\ \A u \in Threads : home[u] = c /\ u # t
        => StackOK(stack[u]) /\ Parked(stack[u])
  BY RunsItsThread
<1>2. CapOK(c)' BY <1>1 DEF CapOK
<1>3. \A u \in Threads : home[u] = c => StackOK(stack'[u]) /\ (running'[c] # u => Parked(stack'[u]))
  BY <1>1
<1>4. \A u \in Threads : home[u] # c => stack'[u] = stack[u] BY <1>1
<1> QED BY <1>2, <1>3, <1>4, Local

\* c leaves its thread.
LEMMA LeavingStep ==
  ASSUME Types, StacksOK, NEW c \in Caps, NEW t, t = running[c], t # NoThread, home' = home,
         running' = [running EXCEPT ![c] = NoThread], pc' = [pc EXCEPT ![c] = "sched"],
         at' = [at EXCEPT ![c] = 1],
         upd' = upd, stack' = stack, Parked(stack[t])
  PROVE  StacksOK'
<1>1. t \in Threads /\ home[t] = c /\ \A u \in Threads : home[u] = c /\ u # t
        => StackOK(stack[u]) /\ Parked(stack[u])
  BY RunsItsThread
<1>2. pc'[c] = "sched" /\ running'[c] = NoThread /\ at'[c] = 1 BY DEF Types
<1>3. CapOK(c)' BY <1>2 DEF CapOK
<1>4. StackOK(stack[t]) BY <1>1 DEF StacksOK, ThreadOK
<1>5. \A d \in Caps \ {c} : pc'[d] = pc[d] /\ at'[d] = at[d] /\ running'[d] = running[d]
  BY DEF Types
<1> QED BY <1>1, <1>3, <1>4, <1>5, Local

\* Nothing happens to any thread or capability.
LEMMA NoStep ==
  ASSUME Types, StacksOK, UNCHANGED <<stack, home, running, pc, at, upd>>
  PROVE  StacksOK'
<1>1. \A t \in Threads : ThreadOK(t)' BY DEF StacksOK, ThreadOK
<1>2. \A c \in Caps : CapOK(c)' BY DEF StacksOK, CapOK, AtOK
<1> QED BY <1>1, <1>2 DEF StacksOK

\* A thread that has dealt with what it enters next has the same frames.
LEMMA NextDoneOK ==
  ASSUME Types, StacksOK, NEW t \in Threads, Next1(t) # None
  PROVE  /\ Next1(t) \in Closures
         /\ SameFrames(stack[t], NextDone(t))
         /\ \A i \in 1..Len(stack[t]) : \A j \in DOMAIN NextDone(t)[i].todo :
              \E l \in DOMAIN stack[t][i].todo : NextDone(t)[i].todo[j] = stack[t][i].todo[l]
<1>1. /\ stack[t] \in Seq(Frames) /\ Len(stack[t]) \in Nat /\ Len(stack[t]) > 0
      /\ \A i \in 1..Len(stack[t]) : stack[t][i] \in Frames
      /\ DOMAIN stack[t] = 1..Len(stack[t])
  BY StackTypes
<1>2. CASE enter[t] # None
  <2>1. enter[t] \in Closures BY <1>2 DEF Types
  <2> QED BY <1>1, <1>2, <2>1 DEF Next1, NextDone, SameFrames
<1>3. CASE enter[t] = None
  <2>1. PICK s : s = stack[t] OBVIOUS
  <2>2. s \in Seq(Frames) /\ 1 \in 1..Len(s) /\ s[1] \in Frames /\ Head(s) = s[1]
          /\ Len(s) \in Nat /\ DOMAIN s = 1..Len(s)
    BY <1>1, <2>1
  <2>3. s[1].todo # <<>> /\ Next1(t) = Head(s[1].todo) /\ s[1].todo \in Seq(Closures)
    BY <1>3, <2>1, <2>2 DEF Next1, Top, Frames
  <2>4. PICK td : td = s[1].todo OBVIOUS
  <2>5. Head(td) \in Closures /\ Tail(td) \in Seq(Closures)
    BY <2>3, <2>4
  <2>6. PICK f : f = [s[1] EXCEPT !.todo = Tail(@)] OBVIOUS
  <2>7. f \in Frames /\ f.kind = s[1].kind /\ f.upd = s[1].upd /\ f.todo = Tail(td)
    BY <2>2, <2>4, <2>5, <2>6 DEF Frames
  <2>8. PICK r : r = [s EXCEPT ![1] = f] OBVIOUS
  <2>9. NextDone(t) = r BY <1>3, <2>1, <2>6, <2>8 DEF NextDone
  <2>10. r \in Seq(Frames) /\ Len(r) = Len(s) /\ r[1] = f /\ \A i \in 1..Len(s) : i # 1
           => r[i] = s[i]
    <3>1. DOMAIN r = 1..Len(s) /\ \A i \in 1..Len(s) : r[i] = IF i = 1 THEN f ELSE s[i]
      BY <2>2, <2>8
    <3>2. \A i \in 1..Len(s) : r[i] \in Frames BY <2>2, <2>7, <3>1, <1>1, <2>1
    <3>3. r = [i \in 1..Len(s) |-> r[i]] BY <2>2, <2>8
    <3>4. r \in Seq(Frames) BY <2>2, <3>2, <3>3
    <3>5. Len(r) = Len(s) BY <2>2, <3>1, <3>4
    <3> QED BY <3>1, <3>4, <3>5, <2>2
  <2>11. \A j \in DOMAIN Tail(td) : \E l \in DOMAIN td : Tail(td)[j] = td[l]
    <3>1. td \in Seq(Closures) /\ td # <<>> BY <2>3, <2>4
    <3>2. Len(td) \in Nat /\ DOMAIN td = 1..Len(td) /\ DOMAIN Tail(td) = 1..(Len(td) - 1)
      BY <3>1
    <3>3. \A j \in DOMAIN Tail(td) : j + 1 \in DOMAIN td /\ Tail(td)[j] = td[j + 1]
      BY <3>1, <3>2
    <3> QED BY <3>3
  <2>12. SameFrames(s, r) BY <2>2, <2>7, <2>10 DEF SameFrames
  <2>13. ASSUME NEW i \in 1..Len(s), NEW j \in DOMAIN r[i].todo
         PROVE  \E l \in DOMAIN s[i].todo : r[i].todo[j] = s[i].todo[l]
    <3>1. CASE i = 1
      <4>1. r[i] = f /\ j \in DOMAIN Tail(td) BY <2>7, <2>10, <2>13, <3>1
      <4>2. PICK l \in DOMAIN td : Tail(td)[j] = td[l] BY <2>11, <4>1
      <4> QED BY <2>4, <2>7, <3>1, <4>1, <4>2
    <3>2. CASE i # 1
      <4>1. r[i] = s[i] BY <2>10, <3>2
      <4> QED BY <4>1
    <3> QED BY <3>1, <3>2
  <2> QED BY <2>1, <2>3, <2>4, <2>5, <2>9, <2>12, <2>13
<1> QED BY <1>2, <1>3

\* The stack that the code of a closure leaves
PushFrame(kind, k, td, r) == <<[kind |-> kind, upd |-> k, todo |-> td]>> \o r

\* A frame is pushed.
LEMMA PushOK ==
  ASSUME NEW s \in Seq(Frames), NEW r \in Seq(Frames), SameFrames(s, r), NEW kind \in {"upd",
         "bh"}, NEW k \in Closures,
         NEW td \in Seq(Closures), NEW p, p = PushFrame(kind, k, td, r)
  PROVE  /\ Pushed(s, p, kind, k) /\ p[1].todo = td /\ \A i \in 1..Len(s) : p[i + 1] = r[i]
<1>1. PICK f : f = [kind |-> kind, upd |-> k, todo |-> td] OBVIOUS
<1>2. f \in Frames /\ f.kind = kind /\ f.upd = k /\ f.todo = td BY <1>1 DEF Frames
<1>3. p \in Seq(Frames) /\ Len(p) = Len(r) + 1 /\ p[1] = f /\ \A i \in 1..Len(r) : p[i + 1] = r[i]
  BY <1>1, <1>2 DEF PushFrame
<1> QED BY <1>2, <1>3 DEF Pushed, SameFrames

\* Pop removes the top frame.
LEMMA PopOK ==
  ASSUME NEW s, StackOK(s), s[1].kind # "stop"
  PROVE  Popped(s, Tail(s)) /\ Len(s) > 1
<1>1. s \in Seq(Frames) /\ Len(s) > 0 /\ Len(s) # 1 BY DEF StackOK
<1>2. Tail(s) \in Seq(Frames) /\ Len(Tail(s)) = Len(s) - 1 BY <1>1
<1>3. \A i \in 1..Len(Tail(s)) : Tail(s)[i] = s[i + 1] BY <1>1, <1>2
<1> QED BY <1>1, <1>2, <1>3 DEF Popped

\* MarkFrame marks one frame.
LEMMA MarkOK ==
  ASSUME NEW s, StackOK(s), NEW n \in 1..Len(s)
  PROVE  Marked(s, [s EXCEPT ![n].kind = "marked"], n)
<1>1. s \in Seq(Frames) /\ Len(s) \in Nat /\ DOMAIN s = 1..Len(s)
        /\ \A i \in 1..Len(s) : s[i] \in Frames
  BY DEF StackOK
<1>2. PICK f : f = [s[n] EXCEPT !.kind = "marked"] OBVIOUS
<1>3. f \in Frames /\ f.kind = "marked" /\ f.upd = s[n].upd /\ f.todo = s[n].todo
  BY <1>1, <1>2 DEF Frames
<1>4. PICK r : r = [s EXCEPT ![n] = f] OBVIOUS
<1>5. [s EXCEPT ![n].kind = "marked"] = r BY <1>2, <1>4
<1>6. DOMAIN r = 1..Len(s) /\ \A i \in 1..Len(s) : r[i] = IF i = n THEN f ELSE s[i] BY <1>1, <1>4
<1>7. \A i \in 1..Len(s) : r[i] \in Frames BY <1>1, <1>3, <1>6
<1>8. r = [i \in 1..Len(s) |-> r[i]] BY <1>1, <1>4
<1>9. r \in Seq(Frames) BY <1>1, <1>7, <1>8
<1>10. Len(r) = Len(s) BY <1>1, <1>6, <1>9
<1>11. Marked(s, r, n) BY <1>3, <1>6, <1>9, <1>10 DEF Marked
<1> QED BY <1>5, <1>11

\* The thread that runs on c, and its stack
LEMMA RunsOn ==
  ASSUME Types, StacksOK, NEW c \in Caps, pc[c] \notin {"sched", "queue"}, NEW t, t = running[c]
  PROVE  /\ t \in Threads /\ t # NoThread /\ home[t] = c /\ StackOK(stack[t])
         /\ AtOK(c, stack[t], at[c])
         /\ stack \in [Threads -> Seq(Frames)] /\ stack[t] \in Seq(Frames)
         /\ Len(stack[t]) \in Nat /\ Len(stack[t]) > 0 /\ at[c] \in 1..Len(stack[t])
         /\ Top(t) = stack[t][1]
         /\ \A i \in 1..Len(stack[t]) : stack[t][i] \in Frames
         /\ pc \in [Caps -> Places] /\ at \in [Caps -> Nat \ {0}]
<1>1. t \in Threads /\ t # NoThread /\ home[t] = c /\ AtOK(c, stack[t], at[c])
  BY RunsItsThread, RunsAt
<1>2. StackOK(stack[t]) /\ stack[t] \in Seq(Frames) /\ Len(stack[t]) \in Nat /\ Len(stack[t]) > 0
      /\ \A i \in 1..Len(stack[t]) : stack[t][i] \in Frames
  BY <1>1, StackTypes
<1>3. stack \in [Threads -> Seq(Frames)] /\ pc \in [Caps -> Places] /\ at \in [Caps -> Nat \ {0}]
  BY DEF Types
<1>4. Top(t) = stack[t][1] BY <1>2 DEF Top
<1>5. at[c] \in 1..Len(stack[t]) BY <1>1 DEF AtOK
<1> QED BY <1>1, <1>2, <1>3, <1>4, <1>5

\* c enters a thunk, or an AP_STACK: p is the stack then.
Enters(c, t, k, kind, p) ==
    /\ k \in Closures
    /\ Pushed(stack[t], p, kind, k) /\ stack' = [stack EXCEPT ![t] = p]
    /\ enter' = [enter EXCEPT ![t] = None]
    /\ pc' = [pc EXCEPT ![c] = IF kind = "bh" THEN "claim_ind" ELSE "run"]
    /\ info[k] \in {"THUNK", "AP_STACK"}
    /\ info[k] = "THUNK" => info' = info
    /\ info[k] = "AP_STACK" => kind = "bh" /\ info' = [info EXCEPT ![k] = "WHITEHOLE"]
    /\ p[1].todo = code[k]
    /\ \A i \in 1..Len(stack[t]) : p[i + 1] = NextDone(t)[i]

\* The entry of a thunk or an AP_STACK, as Enters
LEMMA EnterThunkDoes ==
  ASSUME Types, StacksOK, NEW c \in Caps, NEW t, t = running[c], NEW k, k = Next1(t), k # None,
         pc[c] = "run",
         EnterThunk(c, t, k) \/ EnterAPStack(c, t, k)
  PROVE  \E kind \in {"upd", "bh"} : \E p \in Seq(Frames) : Enters(c, t, k, kind, p)
<1>1. /\ t \in Threads /\ t # NoThread /\ StackOK(stack[t]) /\ stack[t] \in Seq(Frames)
      /\ pc \in [Caps -> Places]
  BY RunsOn
<1>2. k \in Closures /\ SameFrames(stack[t], NextDone(t)) BY <1>1, NextDoneOK
<1>3. code[k] \in Seq(Closures) BY <1>2 DEF Types
<1>4. PICK r : r = NextDone(t) OBVIOUS
<1>5. r \in Seq(Frames) BY <1>2, <1>4 DEF SameFrames
<1>6. ASSUME NEW kind \in {"upd", "bh"}, NEW p, p = PushFrame(kind, k, code[k], r)
      PROVE  /\ p \in Seq(Frames) /\ Pushed(stack[t], p, kind, k)
             /\ p[1].todo = code[k] /\ \A i \in 1..Len(stack[t]) : p[i + 1] = r[i]
  <2>1. PICK s \in Seq(Frames) : s = stack[t] BY <1>1
  <2>2. PICK td \in Seq(Closures) : td = code[k] BY <1>3
  <2>3. SameFrames(s, r) /\ p = PushFrame(kind, k, td, r) BY <1>2, <1>4, <1>6, <2>1, <2>2
  <2>4. Pushed(s, p, kind, k) /\ p[1].todo = td /\ \A i \in 1..Len(s) : p[i + 1] = r[i]
    BY <1>2, <1>5, <2>3, PushOK
  <2>5. p \in Seq(Frames) BY <2>4 DEF Pushed
  <2> QED BY <2>1, <2>2, <2>4, <2>5
<1>7. PICK kind \in {"upd", "bh"} :
        /\ Proceed(t, <<[kind |-> kind, upd |-> k, todo |-> code[k]]>>)
        /\ pc' = [pc EXCEPT ![c] = IF kind = "bh" THEN "claim_ind" ELSE "run"]
        /\ info[k] \in {"THUNK", "AP_STACK"}
        /\ info[k] = "THUNK" => info' = info
        /\ info[k] # "THUNK" => info[k] = "AP_STACK" /\ kind = "bh"
             /\ info' = [info EXCEPT ![k] = "WHITEHOLE"]
  <2>1. CASE EnterThunk(c, t, k) /\ k \in Eager BY <2>1 DEF EnterThunk, Goto
  <2>2. CASE EnterThunk(c, t, k) /\ k \notin Eager
    <3>1. pc' = [pc EXCEPT ![c] = "run"] BY <1>1, <2>2 DEF EnterThunk
    <3> QED BY <2>2, <3>1 DEF EnterThunk
  <2>3. CASE EnterAPStack(c, t, k) BY <2>3 DEF EnterAPStack, Goto
  <2> QED BY <2>1, <2>2, <2>3
<1>8. PICK p : p = PushFrame(kind, k, code[k], r) OBVIOUS
<1>9. stack' = [stack EXCEPT ![t] = p] /\ enter' = [enter EXCEPT ![t] = None]
  BY <1>4, <1>7, <1>8 DEF Proceed, PushFrame
<1>10. /\ p \in Seq(Frames) /\ Pushed(stack[t], p, kind, k)
       /\ p[1].todo = code[k] /\ \A i \in 1..Len(stack[t]) : p[i + 1] = NextDone(t)[i]
  <2>1. kind \in {"upd", "bh"} OBVIOUS
  <2> QED BY <1>4, <1>6, <1>8, <2>1
<1>11. Enters(c, t, k, kind, p) BY <1>2, <1>7, <1>9, <1>10 DEF Enters
<1> QED BY <1>10, <1>11

\* The entry of a thunk or an AP_STACK keeps the types and stacks in shape.
LEMMA EnterThunkTypes ==
  ASSUME Types, StacksOK, NEW c \in Caps, NEW t, t = running[c], NEW k, k = Next1(t), k # None,
         pc[c] = "run",
         EnterThunk(c, t, k) \/ EnterAPStack(c, t, k),
         UNCHANGED <<blocking, why, block_info, at, cur, ind, code, running, upd, home, events>>
  PROVE  Types' /\ StacksOK'
<1>1. /\ t \in Threads /\ t # NoThread /\ StackOK(stack[t]) /\ stack \in [Threads -> Seq(Frames)]
      /\ pc \in [Caps -> Places] /\ AtOK(c, stack[t], at[c])
  BY RunsOn
<1>2. PICK kind \in {"upd", "bh"} : \E p \in Seq(Frames) : Enters(c, t, k, kind, p)
  BY EnterThunkDoes
<1>3. PICK p \in Seq(Frames) : Enters(c, t, k, kind, p) BY <1>2
<1>4. stack' \in [Threads -> Seq(Frames)] /\ pc' \in [Caps -> Places]
  BY <1>1, <1>3 DEF Enters, Places
<1>5. enter' \in [Threads -> Closures \cup {None}] BY <1>3 DEF Enters, Types
<1>6. info' \in [Closures -> {"unallocated", "THUNK", "AP_STACK", "WHITEHOLE", "BLACKHOLE"}]
  BY <1>3 DEF Enters, Types
<1>7. Types' BY <1>4, <1>5, <1>6 DEF Types, blocking
<1>8. StackOK(p) /\ (MarkedFrom(stack[t], 1) => MarkedFrom(p, 1)) BY <1>1, <1>3, PushedOK DEF Enters
<1>9. MarkedFrom(stack[t], 1) /\ at[c] = 1
  <2>1. CapOK(c) BY DEF StacksOK
  <2> QED BY <1>1, <2>1 DEF AtOK, CapOK
<1>10. stack'[t] = p /\ pc'[c] = (IF kind = "bh" THEN "claim_ind" ELSE "run") /\ at'[c] = 1
  BY <1>1, <1>3, <1>9 DEF Enters
<1>11. AtOK(c, stack[t], at[c])'
  <2>1. Len(p) \in Nat /\ Len(p) > 0 /\ p[1].kind = kind BY <1>3, <1>8 DEF Enters, StackOK, Pushed
  <2>2. MarkedFrom(p, 2) /\ MarkedBefore(p, 1) /\ MarkedFrom(p, 1)
    BY <1>8, <1>9 DEF MarkedFrom, MarkedBefore
  <2> QED BY <1>10, <2>1, <2>2 DEF AtOK, Claiming, Storing
<1>12. /\ \A d \in Caps \ {c} : pc'[d] = pc[d] /\ at'[d] = at[d] /\ upd'[d] = upd[d]
       /\ \A u \in Threads \ {t} : stack'[u] = stack[u]
  BY <1>1, <1>3 DEF Enters
<1>13. StacksOK' BY <1>1, <1>8, <1>10, <1>11, <1>12, RunningStep
<1> QED BY <1>7, <1>13

\* c enters an indirection: goes on with the value, or enters what it points to.
LEMMA EnterIndirectionDoes ==
  ASSUME Types, StacksOK, NEW c \in Caps, NEW t, t = running[c], NEW k, k = Next1(t), k # None,
         pc[c] = "run",
         EnterIndirection(c, t, k)
  PROVE  \E e \in Closures \cup {None} :
            /\ k \in Closures /\ info[k] = "BLACKHOLE"
            /\ SameFrames(stack[t], NextDone(t)) /\ stack' = [stack EXCEPT ![t] = NextDone(t)]
            /\ enter' = [enter EXCEPT ![t] = e] /\ (e # None => ind[k].to = "closure"
                 /\ e = ind[k].id)
            /\ info' = info /\ pc' = pc
<1>1. t \in Threads /\ t # NoThread BY RunsOn
<1>2. k \in Closures /\ SameFrames(stack[t], NextDone(t)) BY <1>1, NextDoneOK
<1>3. NextDone(t) \in Seq(Frames) BY <1>2 DEF SameFrames
<1>4. <<>> \o NextDone(t) = NextDone(t) BY <1>3
<1>5. ind[k] \in Pointers BY <1>2 DEF Types
<1>6. ind[k] # Value => ind[k].to = "closure" /\ ind[k].id \in Closures
  BY <1>5, PointerKinds, PointerTags DEF EnterIndirection, Evaluated
<1>7. CASE ind[k] = Value BY <1>2, <1>4, <1>7 DEF EnterIndirection, Proceed
<1>8. CASE ind[k] # Value BY <1>2, <1>6, <1>8 DEF EnterIndirection, Later
<1> QED BY <1>7, <1>8

\* The entry of an indirection keeps the types and stacks in shape.
LEMMA EnterIndirectionTypes ==
  ASSUME Types, StacksOK, NEW c \in Caps, NEW t, t = running[c], NEW k, k = Next1(t), k # None,
         pc[c] = "run",
         EnterIndirection(c, t, k),
         UNCHANGED <<blocking, why, block_info, at, cur, ind, code, running, upd, home, events>>
  PROVE  Types' /\ StacksOK'
<1>1. /\ t \in Threads /\ t # NoThread /\ StackOK(stack[t]) /\ stack \in [Threads -> Seq(Frames)]
      /\ pc \in [Caps -> Places] /\ AtOK(c, stack[t], at[c])
  BY RunsOn
<1>2. PICK p : p = NextDone(t) OBVIOUS
<1>3. PICK e \in Closures \cup {None} :
            /\ SameFrames(stack[t], p) /\ stack' = [stack EXCEPT ![t] = p]
            /\ enter' = [enter EXCEPT ![t] = e]
            /\ info' = info /\ pc' = pc
  BY <1>2, EnterIndirectionDoes
<1>4. p \in Seq(Frames) BY <1>3 DEF SameFrames
<1>5. stack' \in [Threads -> Seq(Frames)] BY <1>1, <1>3, <1>4
<1>6. enter' \in [Threads -> Closures \cup {None}] BY <1>3 DEF Types
<1>7. Types' BY <1>3, <1>5, <1>6 DEF Types, blocking
<1>8. StackOK(p) /\ (MarkedFrom(stack[t], 1) => MarkedFrom(p, 1)) BY <1>1, <1>3, SameFramesOK
<1>9. stack'[t] = p /\ pc'[c] = "run" /\ at'[c] = at[c] /\ MarkedFrom(p, 1) /\ at[c] \in 1..Len(p)
  BY <1>1, <1>3, <1>8 DEF AtOK, SameFrames
<1>10. AtOK(c, stack[t], at[c])' BY <1>9 DEF AtOK, Claiming, Storing
<1>11. \A u \in Threads \ {t} : stack'[u] = stack[u] BY <1>1, <1>3
<1>12. at[c] = 1 BY DEF StacksOK, CapOK
<1>13. StacksOK' BY <1>1, <1>3, <1>8, <1>9, <1>10, <1>11, <1>12, RunningStep
<1> QED BY <1>7, <1>13

\* A capability that runs nothing, or the code of its thread, goes over to another place
\* where its thread, if any, has not moved.
LEMMA BlockStep ==
  ASSUME Types, StacksOK, NEW c \in Caps, pc[c] \in {"sched", "run", "queue"}, UNCHANGED <<home,
         running, at, upd>>,
         NEW l, pc' = [pc EXCEPT ![c] = l], l = "queue"
           \/ l = (IF running[c] = NoThread THEN "sched" ELSE "pause"),
         \A u \in Threads : u # running[c] => stack'[u] = stack[u],
         running[c] # NoThread => SameFrames(stack[running[c]], stack'[running[c]])
  PROVE  StacksOK'
<1>1. pc'[c] = l /\ \A d \in Caps \ {c} : pc'[d] = pc[d] BY DEF Types
<1>2. CapOK(c) /\ at[c] = 1 BY DEF StacksOK, CapOK
<1>3. CASE running[c] = NoThread
  <2>1. CapOK(c)' BY <1>1, <1>2, <1>3 DEF CapOK
  <2>2. \A u \in Threads : stack'[u] = stack[u] BY <1>3, Distinct
  <2>3. \A u \in Threads : home[u] = c => StackOK(stack[u]) /\ Parked(stack[u])
    BY <1>3, Distinct DEF StacksOK, ThreadOK
  <2> QED BY <1>1, <2>1, <2>2, <2>3, Local
<1>4. CASE running[c] # NoThread
  <2>1. PICK t : t = running[c] OBVIOUS
  <2>2. /\ t \in Threads /\ home[t] = c /\ AtOK(c, stack[t], at[c]) BY <1>4, <2>1, RunsItsThread
  <2>3. StackOK(stack[t]) BY <2>2, StackTypes
  <2>4. PICK r : r = stack'[t] OBVIOUS
  <2>5. StackOK(r) /\ (MarkedFrom(stack[t], 1) => MarkedFrom(r, 1)) /\ Len(r) > 0 /\ Len(r) \in Nat
    BY <1>4, <2>1, <2>3, <2>4, SameFramesOK DEF StackOK
  <2>6. MarkedFrom(stack[t], 1)
    <3>1. CapOK(c) BY DEF StacksOK
    <3>2. pc[c] # "sched" BY <1>4, <3>1 DEF CapOK
    <3> QED BY <2>2, <3>2 DEF AtOK
  <2>7. AtOK(c, stack[t], at[c])'
    <3>1. MarkedBefore(r, 1) /\ MarkedFrom(r, 1) /\ 1 \in 1..Len(r) BY <2>5, <2>6 DEF MarkedBefore
    <3>2. pc'[c] \in {"queue", "pause"} /\ at'[c] = 1 BY <1>1, <1>2, <1>4
    <3> QED BY <2>4, <3>1, <3>2 DEF AtOK, Claiming, Storing
  <2>8. pc'[c] # "sched" /\ at'[c] = 1 /\ \A u \in Threads \ {t} : stack'[u] = stack[u]
    BY <1>1, <1>2, <1>4, <2>1
  <2> QED BY <1>1, <1>4, <2>1, <2>4, <2>5, <2>7, <2>8, RunningStep
<1> QED BY <1>3, <1>4

\* Where messageBlackHole leaves the capability
LEMMA StillBlockedDoes ==
  ASSUME Types, NEW c \in Caps, NEW m \in Msgs \cup {None}, StillBlocked(c, m)
  PROVE  \E l \in {"sched", "pause"} :
           /\ pc' = [pc EXCEPT ![c] = l] /\ l = (IF running[c] = NoThread THEN "sched" ELSE "pause")
           /\ cur' \in [Caps -> Msgs \cup {None}] /\ block_info' \in [Threads -> Msgs \cup {None}]
           /\ why' \in [Threads -> {"NotBlocked", "BlockedOnBlackHole", "Finished"}]
           /\ pc' \in [Caps -> Places]
<1>1. running[c] \in Threads \cup {NoThread} /\ pc \in [Caps -> Places] BY DEF Types
<1>2. cur' \in [Caps -> Msgs \cup {None}] BY DEF Types, StillBlocked
<1>3. CASE running[c] = NoThread
  <2>1. pc' = [pc EXCEPT ![c] = "sched"] /\ why' = why /\ block_info' = block_info
    BY <1>3 DEF StillBlocked, Goto
  <2>2. pc' \in [Caps -> Places] BY <1>1, <2>1 DEF Places
  <2> QED BY <1>2, <1>3, <2>1, <2>2 DEF Types
<1>4. CASE running[c] # NoThread
  <2>1. pc' = [pc EXCEPT ![c] = "pause"] /\ why' = [why EXCEPT ![running[c]] = "BlockedOnBlackHole"]
        /\ block_info' = [block_info EXCEPT ![running[c]] = m]
    BY <1>4 DEF StillBlocked, Goto
  <2>2. block_info' \in [Threads -> Msgs \cup {None}] BY <2>1 DEF Types
  <2>3. why' \in [Threads -> {"NotBlocked", "BlockedOnBlackHole", "Finished"}] BY <2>1 DEF Types
  <2>4. pc' \in [Caps -> Places] BY <1>1, <2>1 DEF Places
  <2> QED BY <1>2, <1>4, <2>1, <2>2, <2>3, <2>4
<1> QED BY <1>3, <1>4

\* Who owns a closure
LEMMA OwnerIs ==
  ASSUME Types, NEW k \in Closures
  PROVE  /\ ind[k] \in Pointers /\ Owner(k) \in Threads \cup {NoThread}
         /\ ind[k].to = "tso" => ind[k] = TSO(Owner(k)) /\ Owner(k) \in Threads
         /\ ind[k].to = "bq" => ind[k].id \in Queues /\ ind[k] = BQ(ind[k].id)
              /\ Owner(k) = bq[ind[k].id].owner
         /\ Owner(k) # NoThread => ind[k].to \in {"tso", "bq"}
<1>1. ind[k] \in Pointers BY DEF Types
<1>2. CASE ind[k].to = "tso" BY <1>1, <1>2, PointerKinds, PointerTags DEF Owner
<1>3. CASE ind[k].to = "bq"
  <2>1. ind[k].id \in Queues /\ ind[k] = BQ(ind[k].id) BY <1>1, <1>3, PointerKinds, PointerTags
  <2>2. bq[ind[k].id].owner \in Threads \cup {NoThread} BY <2>1 DEF Types
  <2> QED BY <1>1, <1>3, <2>1, <2>2 DEF Owner
<1>4. CASE ind[k].to \notin {"tso", "bq"} BY <1>1, <1>4 DEF Owner
<1> QED BY <1>2, <1>3, <1>4

\* What messageBlackHole changes
LEMMA MessageTypes ==
  ASSUME Types, NEW c \in Caps, NEW m \in Msgs, NEW t, NEW k \in Closures, MessageBlackHole(c, m,
         t, k)
  PROVE  \E l \in Places :
           /\ Owner(k) \in Threads
           /\ pc' = [pc EXCEPT ![c] = l] /\ (l = "queue"
                \/ l = (IF running[c] = NoThread THEN "sched" ELSE "pause"))
           /\ cur' \in [Caps -> Msgs \cup {None}] /\ block_info' \in [Threads -> Msgs \cup {None}]
           /\ why' \in [Threads -> {"NotBlocked", "BlockedOnBlackHole", "Finished"}]
           /\ pc' \in [Caps -> Places]
           /\ inbox' \in [Caps -> SUBSET Msgs] /\ wakeups' = wakeups
           /\ bq' \in [Queues -> [live : BOOLEAN, bh : Closures \cup {None},
                          owner : Threads \cup {NoThread}, queue : SUBSET Msgs]]
<1>1. PICK o : o = Owner(k) OBVIOUS
<1>2. o \in Threads /\ o # NoThread /\ home[o] \in Caps
  <2>1. o # NoThread BY <1>1 DEF MessageBlackHole
  <2>2. o \in Threads BY <1>1, <2>1, OwnerIs
  <2> QED BY <2>1, <2>2 DEF Types
<1>3. wakeups' = wakeups BY DEF MessageBlackHole
<1>4. inbox \in [Caps -> SUBSET Msgs] /\ pc \in [Caps -> Places] BY DEF Types
<1>5. CASE home[o] # c
  <2>1. /\ inbox' = [d \in Caps |-> IF d = home[o] THEN inbox[d] \cup {m} ELSE inbox[d] \ {m}]
        /\ StillBlocked(c, m) /\ bq' = bq
    BY <1>1, <1>5 DEF MessageBlackHole
  <2>2. inbox' \in [Caps -> SUBSET Msgs] BY <1>4, <2>1
  <2>3. PICK l \in {"sched", "pause"} :
           /\ pc' = [pc EXCEPT ![c] = l] /\ l = (IF running[c] = NoThread THEN "sched" ELSE "pause")
           /\ cur' \in [Caps -> Msgs \cup {None}] /\ block_info' \in [Threads -> Msgs \cup {None}]
           /\ why' \in [Threads -> {"NotBlocked", "BlockedOnBlackHole", "Finished"}]
           /\ pc' \in [Caps -> Places]
    BY <2>1, StillBlockedDoes
  <2>4. l \in Places BY DEF Places
  <2>5. bq' \in [Queues -> [live : BOOLEAN, bh : Closures \cup {None},
                          owner : Threads \cup {NoThread}, queue : SUBSET Msgs]] BY <2>1 DEF Types
  <2> QED BY <1>1, <1>2, <1>3, <2>2, <2>3, <2>4, <2>5
<1>6. CASE home[o] = c /\ ind[k].to = "bq"
  <2>1. /\ bq' = [bq EXCEPT ![ind[k].id].queue = @ \cup {m}]
        /\ inbox' = [inbox EXCEPT ![c] = @ \ {m}]
        /\ StillBlocked(c, m)
    BY <1>1, <1>6 DEF MessageBlackHole
  <2>2. inbox' \in [Caps -> SUBSET Msgs] BY <1>4, <2>1
  <2>3. PICK l \in {"sched", "pause"} :
           /\ pc' = [pc EXCEPT ![c] = l] /\ l = (IF running[c] = NoThread THEN "sched" ELSE "pause")
           /\ cur' \in [Caps -> Msgs \cup {None}] /\ block_info' \in [Threads -> Msgs \cup {None}]
           /\ why' \in [Threads -> {"NotBlocked", "BlockedOnBlackHole", "Finished"}]
           /\ pc' \in [Caps -> Places]
    BY <2>1, StillBlockedDoes
  <2>4. l \in Places BY DEF Places
  <2>5. bq' \in [Queues -> [live : BOOLEAN, bh : Closures \cup {None},
                          owner : Threads \cup {NoThread}, queue : SUBSET Msgs]]
    <3>1. PICK q : q = ind[k].id OBVIOUS
    <3>2. q \in Queues BY <1>6, <3>1, OwnerIs
    <3>3. bq \in [Queues -> [live : BOOLEAN, bh : Closures \cup {None},
                          owner : Threads \cup {NoThread}, queue : SUBSET Msgs]] BY DEF Types
    <3>4. PICK b : b = [bq[q] EXCEPT !.queue = @ \cup {m}] OBVIOUS
    <3>5. b \in [live : BOOLEAN, bh : Closures \cup {None}, owner : Threads \cup {NoThread},
          queue : SUBSET Msgs]
      BY <3>2, <3>3, <3>4
    <3>6. bq' = [bq EXCEPT ![q] = b] BY <2>1, <3>1, <3>4
    <3> QED BY <3>3, <3>5, <3>6
  <2> QED BY <1>1, <1>2, <1>3, <2>2, <2>3, <2>4, <2>5
<1>7. CASE home[o] = c /\ ind[k].to # "bq"
  <2>1. /\ bq' = [bq EXCEPT ![First(FreeQueues)] = [live |-> TRUE, bh |-> k, owner |-> o,
             queue |-> {m}]]
        /\ inbox' = [inbox EXCEPT ![c] = @ \ {m}]
        /\ cur' = [cur EXCEPT ![c] = m]
        /\ pc' = [pc EXCEPT ![c] = "queue"]
        /\ UNCHANGED <<why, block_info>>
    BY <1>1, <1>7 DEF MessageBlackHole, Goto
  <2>2. inbox' \in [Caps -> SUBSET Msgs] BY <1>4, <2>1
  <2>3. pc' \in [Caps -> Places] BY <1>4, <2>1 DEF Places
  <2>4. cur' \in [Caps -> Msgs \cup {None}] BY <2>1 DEF Types
  <2>5. bq' \in [Queues -> [live : BOOLEAN, bh : Closures \cup {None},
                          owner : Threads \cup {NoThread}, queue : SUBSET Msgs]]
    <3>1. PICK b : b = [live |-> TRUE, bh |-> k, owner |-> o, queue |-> {m}] OBVIOUS
    <3>2. b \in [live : BOOLEAN, bh : Closures \cup {None}, owner : Threads \cup {NoThread},
          queue : SUBSET Msgs]
      BY <1>2, <3>1
    <3>3. bq' = [bq EXCEPT ![First(FreeQueues)] = b] BY <2>1, <3>1
    <3> QED BY <3>2, <3>3 DEF Types
  <2>6. why' \in [Threads -> {"NotBlocked", "BlockedOnBlackHole", "Finished"}]
          /\ block_info' \in [Threads -> Msgs \cup {None}]
    BY <2>1 DEF Types
  <2>7. "queue" \in Places BY DEF Places
  <2> QED BY <1>1, <1>2, <1>3, <2>1, <2>2, <2>3, <2>4, <2>5, <2>6, <2>7
<1> QED BY <1>5, <1>6, <1>7

\* The thread's stack when it is to come back to what it has entered
LEMMA LaterDoes ==
  ASSUME Types, StacksOK, NEW t \in Threads, Next1(t) # None, NEW k \in Closures, Later(t, k)
  PROVE  /\ SameFrames(stack[t], NextDone(t)) /\ stack' = [stack EXCEPT ![t] = NextDone(t)]
         /\ enter' = [enter EXCEPT ![t] = k] /\ stack'[t] = NextDone(t)
         /\ stack' \in [Threads -> Seq(Frames)] /\ enter' \in [Threads -> Closures \cup {None}]
<1>1. SameFrames(stack[t], NextDone(t)) BY NextDoneOK
<1>2. PICK p : p = NextDone(t) OBVIOUS
<1>3. p \in Seq(Frames) /\ stack' = [stack EXCEPT ![t] = p] BY <1>1, <1>2 DEF SameFrames, Later
<1>4. stack' \in [Threads -> Seq(Frames)] /\ stack'[t] = p BY <1>3 DEF Types
<1> QED BY <1>1, <1>2, <1>3, <1>4 DEF Later, Types

\* The message that is allocated is a free one.
LEMMA FreeMsg ==
  ASSUME FreeMsgs # {}
  PROVE  First(FreeMsgs) \in FreeMsgs /\ First(FreeMsgs) \in Msgs
<1>1. FreeMsgs \subseteq Msgs /\ FreeMsgs \subseteq Nat BY Distinct DEF FreeMsgs
<1> QED BY <1>1, FirstOK

\* stg_BLACKHOLE, entered by a thread, keeps the types and stacks in shape.
LEMMA EnterBlackHoleTypes ==
  ASSUME Types, StacksOK, NEW c \in Caps, NEW t, t = running[c], NEW k, k = Next1(t), k # None,
         pc[c] = "run",
         EnterBlackHole(c, t, k), UNCHANGED <<ind, code, running, upd, home, events>>
  PROVE  Types' /\ StacksOK'
<1>1. /\ t \in Threads /\ t # NoThread /\ StackOK(stack[t]) BY RunsOn
<1>2. k \in Closures BY <1>1, NextDoneOK
<1>3. PICK m \in Msgs : m = First(FreeMsgs) BY FreeMsg DEF EnterBlackHole
<1>4. /\ msg' = [msg EXCEPT ![m] = [live |-> TRUE, tso |-> t, bh |-> k]]
      /\ MessageBlackHole(c, m, t, k)
  BY <1>3 DEF EnterBlackHole
<1>5. /\ SameFrames(stack[t], NextDone(t)) /\ stack' = [stack EXCEPT ![t] = NextDone(t)]
      /\ stack'[t] = NextDone(t)
      /\ stack' \in [Threads -> Seq(Frames)] /\ enter' \in [Threads -> Closures \cup {None}]
  BY <1>1, <1>2, LaterDoes DEF EnterBlackHole
<1>6. PICK l \in Places :
           /\ pc' = [pc EXCEPT ![c] = l] /\ (l = "queue"
                \/ l = (IF running[c] = NoThread THEN "sched" ELSE "pause"))
           /\ cur' \in [Caps -> Msgs \cup {None}] /\ block_info' \in [Threads -> Msgs \cup {None}]
           /\ why' \in [Threads -> {"NotBlocked", "BlockedOnBlackHole", "Finished"}]
           /\ pc' \in [Caps -> Places]
           /\ inbox' \in [Caps -> SUBSET Msgs] /\ wakeups' = wakeups
           /\ bq' \in [Queues -> [live : BOOLEAN, bh : Closures \cup {None},
                          owner : Threads \cup {NoThread}, queue : SUBSET Msgs]]
  BY <1>2, <1>4, MessageTypes
<1>7. msg' \in [Msgs -> [live : BOOLEAN, tso : Threads \cup {NoThread}, bh : Closures \cup {None}]]
  <2>1. PICK b : b = [live |-> TRUE, tso |-> t, bh |-> k] OBVIOUS
  <2>2. b \in [live : BOOLEAN, tso : Threads \cup {NoThread}, bh : Closures \cup {None}]
    BY <1>1, <1>2, <2>1
  <2>3. msg' = [msg EXCEPT ![m] = b] BY <1>4, <2>1
  <2> QED BY <2>2, <2>3 DEF Types
<1>8. at' = at
  <2>1. at[c] = 1 BY DEF StacksOK, CapOK
  <2> QED BY <2>1 DEF EnterBlackHole, Types
<1>9. Types'
  <2>1. info' = info BY DEF EnterBlackHole
  <2> QED BY <1>5, <1>6, <1>7, <1>8, <2>1 DEF Types
<1>10. StacksOK'
  <2>1. \A u \in Threads : u # running[c] => stack'[u] = stack[u] BY <1>5 DEF Types
  <2> QED BY <1>1, <1>5, <1>6, <1>8, <2>1, BlockStep
<1> QED BY <1>9, <1>10

\* tryWakeupThread changes why_blocked, or sends messages.
LEMMA WakeTypes ==
  ASSUME Types, NEW c \in Caps, NEW ts, TryWakeup(c, ts)
  PROVE  /\ why' \in [Threads -> {"NotBlocked", "BlockedOnBlackHole", "Finished"}]
         /\ wakeups' \in [Caps -> [Threads -> Nat]]
<1>1. why' \in [Threads -> {"NotBlocked", "BlockedOnBlackHole", "Finished"}] BY DEF TryWakeup, Types
<1>2. ASSUME NEW d \in Caps PROVE wakeups'[d] \in [Threads -> Nat]
  <2>1. \A t \in Threads : wakeups[d][t] \in Nat BY DEF Types
  <2>2. wakeups'[d] = [t \in Threads |-> wakeups[d][t] + IF t \in ts /\ home[t] # c
          /\ home[t] = d THEN 1 ELSE 0]
    BY DEF TryWakeup
  <2> QED BY <2>1, <2>2
<1>3. wakeups' = [d \in Caps |-> wakeups'[d]] BY DEF TryWakeup
<1> QED BY <1>1, <1>2, <1>3

\* executeMessage, for a MSG_BLACKHOLE, keeps the types and stacks in shape.
LEMMA TakeMessageTypes ==
  ASSUME Types, StacksOK, NEW c \in Caps, NEW m \in Msgs, TakeMessage(c, m),
         msg[m].live => msg[m].bh \in Closures
  PROVE  Types' /\ StacksOK'
<1>1. UNCHANGED <<heap, msg, stack, enter, running, at, upd, home, events>> /\ pc[c] = "sched"
  BY DEF TakeMessage
<1>2. CASE ~msg[m].live \/ Evaluated(msg[m].bh)
  <2>1. CASE inbox' = [inbox EXCEPT ![c] = @ \ {m}]
          /\ TryWakeup(c, IF msg[m].live THEN {msg[m].tso} ELSE {})
             /\ UNCHANGED <<bq, block_info, pc, cur>>
    <3>1. /\ why' \in [Threads -> {"NotBlocked", "BlockedOnBlackHole", "Finished"}]
          /\ wakeups' \in [Caps -> [Threads -> Nat]]
      BY <2>1, WakeTypes
    <3>2. inbox' \in [Caps -> SUBSET Msgs] BY <2>1 DEF Types
    <3>3. Types' BY <1>1, <2>1, <3>1, <3>2 DEF Types, heap
    <3>4. StacksOK' BY <1>1, <2>1, NoStep
    <3> QED BY <3>3, <3>4
  <2>2. CASE msg[m].live /\ MessageBlackHole(c, m, msg[m].tso, msg[m].bh)
    <3>1. msg[m].bh \in Closures BY <2>2
    <3>2. Owner(msg[m].bh) # NoThread BY <2>2 DEF MessageBlackHole
    <3>3. FALSE BY <1>2, <2>2, <3>1, <3>2, OwnerIs DEF Evaluated
    <3> QED BY <3>3
  <2> QED BY <2>1, <2>2 DEF TakeMessage
<1>3. CASE msg[m].live /\ ~Evaluated(msg[m].bh)
  <2>1. MessageBlackHole(c, m, msg[m].tso, msg[m].bh) BY <1>3 DEF TakeMessage
  <2>2. PICK l \in Places :
           /\ pc' = [pc EXCEPT ![c] = l] /\ (l = "queue"
                \/ l = (IF running[c] = NoThread THEN "sched" ELSE "pause"))
           /\ cur' \in [Caps -> Msgs \cup {None}] /\ block_info' \in [Threads -> Msgs \cup {None}]
           /\ why' \in [Threads -> {"NotBlocked", "BlockedOnBlackHole", "Finished"}]
           /\ pc' \in [Caps -> Places]
           /\ inbox' \in [Caps -> SUBSET Msgs] /\ wakeups' = wakeups
           /\ bq' \in [Queues -> [live : BOOLEAN, bh : Closures \cup {None},
                          owner : Threads \cup {NoThread}, queue : SUBSET Msgs]]
    BY <1>3, <2>1, MessageTypes
  <2>3. Types' BY <1>1, <2>2 DEF Types, heap
  <2>4. running[c] = NoThread BY <1>1 DEF StacksOK, CapOK
  <2>5. StacksOK' BY <1>1, <2>2, <2>4, BlockStep
  <2> QED BY <2>3, <2>5
<1> QED BY <1>2, <1>3

\* The last store of messageBlackHole keeps the types and stacks in shape.
LEMMA StoreQueueTypes ==
  ASSUME Types, StacksOK, NEW c \in Caps, StoreQueue(c),
         \E q \in Queues : bq[q].live /\ cur[c] \in bq[q].queue
  PROVE  Types' /\ StacksOK'
<1>1. PICK q \in Queues : q = CHOOSE p \in Queues : bq[p].live /\ cur[c] \in bq[p].queue OBVIOUS
<1>2. ind' = [ind EXCEPT ![bq[q].bh] = BQ(q)] BY <1>1 DEF StoreQueue
<1>3. ind' \in [Closures -> Pointers] BY <1>2, PointerKinds DEF Types
<1>4. cur[c] \in Msgs \cup {None} BY DEF Types
<1>5. PICK l \in {"sched", "pause"} :
           /\ pc' = [pc EXCEPT ![c] = l] /\ l = (IF running[c] = NoThread THEN "sched" ELSE "pause")
           /\ cur' \in [Caps -> Msgs \cup {None}] /\ block_info' \in [Threads -> Msgs \cup {None}]
           /\ why' \in [Threads -> {"NotBlocked", "BlockedOnBlackHole", "Finished"}]
           /\ pc' \in [Caps -> Places]
  BY <1>4, StillBlockedDoes DEF StoreQueue
<1>6. UNCHANGED <<info, code, blocking, stack, enter, running, at, upd, home, events>>
        /\ pc[c] = "queue"
  BY DEF StoreQueue
<1>7. Types' BY <1>3, <1>5, <1>6 DEF Types, blocking
<1>8. running[c] # NoThread => SameFrames(stack[running[c]], stack'[running[c]])
  <2>1. ASSUME running[c] # NoThread PROVE stack[running[c]] \in Seq(Frames) BY <2>1 DEF Types
  <2> QED BY <1>6, <2>1 DEF SameFrames
<1>9. StacksOK' BY <1>5, <1>6, <1>8, BlockStep
<1> QED BY <1>7, <1>9

\* An update under way
Update(val, seen) == [val |-> val, seen |-> seen]

\* An update frame has a closure, and a frame below it.
LEMMA FrameUpd ==
  ASSUME NEW s, StackOK(s), NEW n \in 1..Len(s), s[n].kind # "stop"
  PROVE  s[n].upd \in Closures /\ n < Len(s) /\ n + 1 \in 1..Len(s)
BY DEF StackOK

\* The store of the thread into a closure that it claims keeps the types and stacks in shape.
LEMMA ClaimIndirecteeTypes ==
  ASSUME Types, StacksOK, NEW c \in Caps, ClaimIndirectee(c)
  PROVE  Types' /\ StacksOK'
<1>1. /\ pc[c] = "claim_ind" /\ pc' = [pc EXCEPT ![c] = "claim_info"]
      /\ UNCHANGED <<info, code, blocking, thread, running, at, upd, cur, events>>
  BY DEF ClaimIndirectee, Goto
<1>2. PICK t : t = running[c] OBVIOUS
<1>3. /\ t \in Threads /\ t # NoThread /\ StackOK(stack[t]) /\ AtOK(c, stack[t], at[c])
      /\ pc \in [Caps -> Places]
  BY <1>1, <1>2, RunsOn
<1>4. ind' \in [Closures -> Pointers]
  <2>1. TSO(t) \in Pointers BY <1>3, PointerKinds
  <2> QED BY <1>2, <2>1 DEF ClaimIndirectee, Types
<1>5. pc' \in [Caps -> Places] BY <1>1, <1>3 DEF Places
<1>6. Types' BY <1>1, <1>4, <1>5 DEF Types, blocking, thread
<1>7. AtOK(c, stack[t], at[c])' BY <1>1, <1>3 DEF AtOK, Claiming, Storing, thread
<1>8. StacksOK'
  <2>1. pc'[c] = "claim_info" /\ \A d \in Caps \ {c} : pc'[d] = pc[d] BY <1>1, <1>3
  <2> QED BY <1>1, <1>2, <1>3, <1>7, <2>1, RunningStep DEF thread
<1> QED BY <1>6, <1>8

\* The store of the info pointer of a claimed closure keeps the types and stacks in shape.
LEMMA ClaimInfoTypes ==
  ASSUME Types, StacksOK, NEW c \in Caps, ClaimInfo(c)
  PROVE  Types' /\ StacksOK'
<1>1. /\ pc[c] = "claim_info"
      /\ UNCHANGED <<ind, code, blocking, thread, running, upd, cur, events>>
  BY DEF ClaimInfo
<1>2. PICK t : t = running[c] OBVIOUS
<1>3. /\ t \in Threads /\ t # NoThread /\ StackOK(stack[t]) /\ AtOK(c, stack[t], at[c])
      /\ pc \in [Caps -> Places]
      /\ at[c] \in 1..Len(stack[t]) /\ at \in [Caps -> Nat \ {0}]
  BY <1>1, <1>2, RunsOn
<1>4. PICK n \in 1..Len(stack[t]) : n = at[c] BY <1>3
<1>5. PICK s : s = stack[t] OBVIOUS
<1>6. MarkedBefore(s, n) /\ MarkedFrom(s, n + 1) /\ (s[n].kind = "marked" \/ (s[n].kind = "bh"
        /\ n = 1))
  BY <1>1, <1>3, <1>4, <1>5 DEF AtOK, Claiming
<1>7. n + 1 \in 1..Len(s) /\ Len(s) \in Nat
  <2>1. s[n].kind # "stop" BY <1>6
  <2> QED BY <1>3, <1>4, <1>5, <2>1, FrameUpd DEF StackOK
<1>8. info' = [info EXCEPT ![s[n].upd] = "BLACKHOLE"] BY <1>2, <1>4, <1>5 DEF ClaimInfo
<1>9. /\ s[n].kind = "marked" => at' = [at EXCEPT ![c] = n + 1] /\ pc' = [pc EXCEPT ![c] = "pause"]
      /\ s[n].kind # "marked" => at' = at /\ pc' = [pc EXCEPT ![c] = "run"]
  BY <1>2, <1>4, <1>5 DEF ClaimInfo, Goto
<1>10. /\ info' \in [Closures -> {"unallocated", "THUNK", "AP_STACK", "WHITEHOLE", "BLACKHOLE"}]
       /\ pc' \in [Caps -> Places] /\ at' \in [Caps -> Nat \ {0}]
  <2>1. info' \in [Closures -> {"unallocated", "THUNK", "AP_STACK", "WHITEHOLE", "BLACKHOLE"}]
    BY <1>8 DEF Types
  <2>2. pc' \in [Caps -> Places] BY <1>3, <1>9 DEF Places
  <2>3. at' \in [Caps -> Nat \ {0}] BY <1>3, <1>7, <1>9
  <2> QED BY <2>1, <2>2, <2>3
<1>11. Types' BY <1>1, <1>10 DEF Types, blocking, thread
<1>12. /\ s[n].kind = "marked" => at'[c] = n + 1 /\ pc'[c] = "pause"
       /\ s[n].kind # "marked" => at'[c] = 1 /\ pc'[c] = "run"
       /\ \A d \in Caps \ {c} : pc'[d] = pc[d] /\ at'[d] = at[d]
  BY <1>3, <1>4, <1>6, <1>9
<1>13. AtOK(c, stack[t], at[c])'
  <2>1. CASE s[n].kind = "marked"
    <3>1. MarkedBefore(s, n + 1) BY <1>6, <2>1 DEF MarkedBefore
    <3>2. stack'[t] = s BY <1>1, <1>5 DEF thread
    <3> QED BY <1>6, <1>7, <1>12, <2>1, <3>1, <3>2 DEF AtOK, Claiming, Storing
  <2>2. CASE s[n].kind # "marked"
    <3>1. MarkedFrom(s, 1)
      <4>1. s[1].kind # "marked" /\ MarkedFrom(s, 2) BY <1>6, <2>2
      <4> QED BY <1>7, <4>1 DEF MarkedFrom
    <3>2. stack'[t] = s BY <1>1, <1>5 DEF thread
    <3>3. 1 \in 1..Len(s) BY <1>7
    <3> QED BY <1>6, <1>12, <2>2, <3>1, <3>2, <3>3 DEF AtOK, Claiming, Storing
  <2> QED BY <2>1, <2>2
<1>14. StacksOK'
  <2>1. pc'[c] # "sched" /\ (pc'[c] \in {"run", "queue"} => at'[c] = 1) BY <1>12
  <2> QED BY <1>1, <1>2, <1>3, <1>12, <1>13, <2>1, RunningStep DEF thread
<1> QED BY <1>11, <1>14

\* wakeBlockingQueue changes only the queues it is for.
LEMMA WakeQueuesTypes ==
  ASSUME Types, NEW c \in Caps, NEW qs, WakeQueues(c, qs)
  PROVE  /\ why' \in [Threads -> {"NotBlocked", "BlockedOnBlackHole", "Finished"}]
         /\ wakeups' \in [Caps -> [Threads -> Nat]]
         /\ bq' \in [Queues -> [live : BOOLEAN, bh : Closures \cup {None},
                          owner : Threads \cup {NoThread}, queue : SUBSET Msgs]]
         /\ \A q \in Queues : /\ q \in qs => ~bq'[q].live /\ bq'[q].queue = {}
                                   /\ bq'[q].bh = bq[q].bh /\ bq'[q].owner = bq[q].owner
                              /\ q \notin qs => bq'[q] = bq[q]
<1>1. /\ why' \in [Threads -> {"NotBlocked", "BlockedOnBlackHole", "Finished"}]
      /\ wakeups' \in [Caps -> [Threads -> Nat]]
  BY WakeTypes DEF WakeQueues
<1>2. bq' = [q \in Queues |-> IF q \in qs THEN [bq[q] EXCEPT !.live = FALSE,
      !.queue = {}] ELSE bq[q]]
  BY DEF WakeQueues
<1>3. ASSUME NEW q \in Queues, q \in qs
      PROVE  /\ bq'[q] \in [live : BOOLEAN, bh : Closures \cup {None}, owner :
                  Threads \cup {NoThread}, queue : SUBSET Msgs]
             /\ ~bq'[q].live /\ bq'[q].queue = {} /\ bq'[q].bh = bq[q].bh
             /\ bq'[q].owner = bq[q].owner
  <2>1. bq[q] \in [live : BOOLEAN, bh : Closures \cup {None}, owner : Threads \cup {NoThread},
        queue : SUBSET Msgs]
    BY DEF Types
  <2>2. bq'[q] = [bq[q] EXCEPT !.live = FALSE, !.queue = {}] BY <1>2, <1>3
  <2> QED BY <2>1, <2>2
<1>4. ASSUME NEW q \in Queues, q \notin qs
      PROVE  /\ bq'[q] \in [live : BOOLEAN, bh : Closures \cup {None}, owner :
                  Threads \cup {NoThread}, queue : SUBSET Msgs]
             /\ bq'[q] = bq[q]
  BY <1>2, <1>4 DEF Types
<1>5. bq' \in [Queues -> [live : BOOLEAN, bh : Closures \cup {None}, owner :
        Threads \cup {NoThread}, queue : SUBSET Msgs]]
  <2>1. \A q \in Queues : bq'[q] \in [live : BOOLEAN, bh : Closures \cup {None}, owner :
          Threads \cup {NoThread}, queue : SUBSET Msgs]
    BY <1>3, <1>4
  <2>2. bq' = [q \in Queues |-> bq'[q]] BY <1>2
  <2> QED BY <2>1, <2>2
<1> QED BY <1>1, <1>3, <1>4, <1>5

\* stg_upd_frame: the indirectee is stored at once.
ReturnPlain(c, t) ==
    /\ stack[t][1].kind = "upd"
    /\ ind' = [ind EXCEPT ![stack[t][1].upd] = Value]
    /\ upd' = [upd EXCEPT ![c] = Update(Value, TSO(t))]
    /\ pc' = [pc EXCEPT ![c] = "store_info"]
    /\ UNCHANGED <<blocking, why, stack>>

\* A marked or eager frame whose thunk has a value
ReturnDiscard(c, t) ==
    /\ stack[t][1].kind \in {"bh", "marked"} /\ ind[stack[t][1].upd] = Value
    /\ WakeQueues(c, Orphans(t))
    /\ stack' = [stack EXCEPT ![t] = Tail(stack[t])] /\ Popped(stack[t], Tail(stack[t]))
    /\ UNCHANGED <<ind, upd, pc, msg, inbox>>

\* A marked or eager frame whose thunk has none
ReturnClaimed(c, t) ==
    /\ stack[t][1].kind \in {"bh", "marked"} /\ ind[stack[t][1].upd] # Value
    /\ upd' = [upd EXCEPT ![c] = Update(Value, ind[stack[t][1].upd])]
    /\ pc' = [pc EXCEPT ![c] = "store_ind"]
    /\ UNCHANGED <<ind, blocking, why, stack>>

\* What the top frame of the running thread updates
LEMMA ReturnDoes ==
  ASSUME Types, StacksOK, NEW c \in Caps, Return(c), NEW t, t = running[c]
  PROVE  /\ t \in Threads /\ pc[c] = "run" /\ at[c] = 1 /\ MarkedFrom(stack[t], 1)
         /\ Len(stack[t]) > 1
         /\ stack[t][1].kind # "stop" /\ stack[t][1].upd \in Closures
         /\ UNCHANGED <<info, code, enter, block_info, running, at, cur, home, events>>
         /\ \/ ReturnPlain(c, t)
            \/ ReturnDiscard(c, t)
            \/ ReturnClaimed(c, t)
<1>1. pc[c] = "run" /\ UNCHANGED <<info, code, enter, block_info, running, at, cur, home, events>>
  BY DEF Return
<1>2. /\ t \in Threads /\ StackOK(stack[t]) /\ AtOK(c, stack[t], at[c]) /\ Top(t) = stack[t][1]
      /\ 1 \in 1..Len(stack[t]) /\ Len(stack[t]) \in Nat
  BY <1>1, RunsOn
<1>3. at[c] = 1 BY <1>1 DEF StacksOK, CapOK
<1>4. MarkedFrom(stack[t], 1) BY <1>1, <1>2 DEF AtOK
<1>5. stack[t][1].kind \in {"upd", "bh", "marked"} BY <1>2 DEF Return
<1>6. stack[t][1].upd \in Closures /\ Len(stack[t]) > 1 BY <1>2, <1>5, FrameUpd
<1>7. Popped(stack[t], Tail(stack[t])) BY <1>2, <1>5, PopOK
<1>8. \/ /\ stack[t][1].kind = "upd" /\ UpdateWithIndirection(c, Value)
      \/ /\ stack[t][1].kind \in {"bh", "marked"} /\ ind[stack[t][1].upd] = Value /\ Discard(c, t)
      \/ /\ stack[t][1].kind \in {"bh", "marked"} /\ ind[stack[t][1].upd] # Value
         /\ UpdateThunk(c, Value)
  BY <1>2 DEF Return
<1>9. CASE stack[t][1].kind = "upd" /\ UpdateWithIndirection(c, Value)
  BY <1>1, <1>2, <1>3, <1>4, <1>5, <1>6, <1>9 DEF ReturnPlain, UpdateWithIndirection, Goto, Update
<1>10. CASE stack[t][1].kind \in {"bh", "marked"} /\ ind[stack[t][1].upd] = Value /\ Discard(c, t)
  BY <1>1, <1>2, <1>3, <1>4, <1>5, <1>6, <1>7, <1>10 DEF ReturnDiscard, Discard, Pop
<1>11. CASE stack[t][1].kind \in {"bh", "marked"} /\ ind[stack[t][1].upd] # Value
         /\ UpdateThunk(c, Value)
  BY <1>1, <1>2, <1>3, <1>4, <1>5, <1>6, <1>11 DEF ReturnClaimed, UpdateThunk, Goto, Update
<1> QED BY <1>8, <1>9, <1>10, <1>11

\* The update of c
LEMMA UpdTypes ==
  ASSUME Types, NEW c \in Caps, NEW val \in Pointers, NEW seen \in Pointers,
         upd' = [upd EXCEPT ![c] = Update(val, seen)]
  PROVE  /\ upd' \in [Caps -> [val : Pointers, seen : Pointers]]
         /\ upd'[c].val = val /\ upd'[c].seen = seen /\ \A d \in Caps \ {c} : upd'[d] = upd[d]
<1>1. PICK u : u = Update(val, seen) OBVIOUS
<1>2. u \in [val : Pointers, seen : Pointers] /\ u.val = val /\ u.seen = seen BY <1>1 DEF Update
<1>3. upd' = [upd EXCEPT ![c] = u] BY <1>1
<1> QED BY <1>2, <1>3 DEF Types

\* The return to an update frame keeps the types and stacks in shape.
LEMMA ReturnTypes ==
  ASSUME Types, StacksOK, NEW c \in Caps, Return(c)
  PROVE  Types' /\ StacksOK'
<1>1. PICK t : t = running[c] OBVIOUS
<1>2. /\ t \in Threads /\ t # NoThread /\ StackOK(stack[t]) /\ Len(stack[t]) \in Nat
      /\ pc \in [Caps -> Places] /\ stack \in [Threads -> Seq(Frames)]
  BY <1>1, RunsOn DEF Return
<1>3. /\ pc[c] = "run" /\ at[c] = 1 /\ MarkedFrom(stack[t], 1) /\ Len(stack[t]) > 1
      /\ stack[t][1].kind # "stop" /\ stack[t][1].upd \in Closures
      /\ UNCHANGED <<info, code, enter, block_info, running, at, cur, home, events>>
  BY <1>1, ReturnDoes
<1>4. CASE ReturnPlain(c, t)
  <2>1. /\ upd' \in [Caps -> [val : Pointers, seen : Pointers]] /\ upd'[c].val = Value
        /\ \A d \in Caps \ {c} : upd'[d] = upd[d]
    <3>1. Value \in Pointers /\ TSO(t) \in Pointers BY <1>2, PointerKinds
    <3> QED BY <1>4, <3>1, UpdTypes DEF ReturnPlain
  <2>2. ind' \in [Closures -> Pointers] BY <1>4, PointerKinds DEF ReturnPlain, Types
  <2>3. pc' \in [Caps -> Places] /\ pc'[c] = "store_info" /\ \A d \in Caps \ {c} : pc'[d] = pc[d]
    BY <1>2, <1>4 DEF ReturnPlain, Places
  <2>4. Types' BY <1>3, <1>4, <2>1, <2>2, <2>3 DEF ReturnPlain, Types, blocking
  <2>5. AtOK(c, stack[t], at[c])'
    <3>1. 1 \in 1..Len(stack[t]) BY <1>2, <1>3
    <3> QED BY <1>3, <1>4, <2>1, <2>3, <3>1 DEF ReturnPlain, AtOK, Claiming, Storing
  <2>6. StacksOK' BY <1>1, <1>2, <1>3, <1>4, <2>1, <2>3, <2>5, RunningStep DEF ReturnPlain
  <2> QED BY <2>4, <2>6
<1>5. CASE ReturnDiscard(c, t)
  <2>1. PICK r : r = Tail(stack[t]) OBVIOUS
  <2>2. Popped(stack[t], r) /\ stack' = [stack EXCEPT ![t] = r] BY <1>5, <2>1 DEF ReturnDiscard
  <2>3. StackOK(r) /\ MarkedFrom(r, 1) /\ r \in Seq(Frames) /\ Len(r) \in Nat /\ Len(r) > 0
    <3>1. StackOK(r) /\ MarkedFrom(r, 1)
      <4>1. 1 \in Nat \ {0} OBVIOUS
      <4> QED BY <1>2, <1>3, <2>2, <4>1, PoppedOK
    <3> QED BY <3>1 DEF StackOK
  <2>4. stack'[t] = r /\ stack' \in [Threads -> Seq(Frames)]
          /\ \A u \in Threads \ {t} : stack'[u] = stack[u]
    BY <1>2, <2>2, <2>3
  <2>5. /\ why' \in [Threads -> {"NotBlocked", "BlockedOnBlackHole", "Finished"}]
        /\ wakeups' \in [Caps -> [Threads -> Nat]]
        /\ bq' \in [Queues -> [live : BOOLEAN, bh : Closures \cup {None},
                          owner : Threads \cup {NoThread}, queue : SUBSET Msgs]]
    BY <1>5, WakeQueuesTypes DEF ReturnDiscard
  <2>6. Types' BY <1>3, <1>5, <2>4, <2>5 DEF ReturnDiscard, Types
  <2>7. AtOK(c, stack[t], at[c])'
    <3>1. 1 \in 1..Len(r) BY <2>3
    <3> QED BY <1>3, <1>5, <2>3, <2>4, <3>1 DEF ReturnDiscard, AtOK, Claiming, Storing
  <2>8. StacksOK' BY <1>1, <1>2, <1>3, <1>5, <2>3, <2>4, <2>7, RunningStep DEF ReturnDiscard
  <2> QED BY <2>6, <2>8
<1>6. CASE ReturnClaimed(c, t)
  <2>1. /\ upd' \in [Caps -> [val : Pointers, seen : Pointers]] /\ upd'[c].val = Value
        /\ \A d \in Caps \ {c} : upd'[d] = upd[d]
    <3>1. Value \in Pointers /\ ind[stack[t][1].upd] \in Pointers BY <1>3, PointerKinds DEF Types
    <3> QED BY <1>6, <3>1, UpdTypes DEF ReturnClaimed
  <2>2. pc' \in [Caps -> Places] /\ pc'[c] = "store_ind" /\ \A d \in Caps \ {c} : pc'[d] = pc[d]
    BY <1>2, <1>6 DEF ReturnClaimed, Places
  <2>3. Types' BY <1>3, <1>6, <2>1, <2>2 DEF ReturnClaimed, Types, blocking
  <2>4. AtOK(c, stack[t], at[c])'
    <3>1. 1 \in 1..Len(stack[t]) BY <1>2, <1>3
    <3> QED BY <1>3, <1>6, <2>1, <2>2, <3>1 DEF ReturnClaimed, AtOK, Claiming, Storing
  <2>5. StacksOK' BY <1>1, <1>2, <1>3, <1>6, <2>1, <2>2, <2>4, RunningStep DEF ReturnClaimed
  <2> QED BY <2>3, <2>5
<1>7. ReturnPlain(c, t) \/ ReturnDiscard(c, t) \/ ReturnClaimed(c, t) BY <1>1, ReturnDoes
<1> QED BY <1>4, <1>5, <1>6, <1>7

\* updateThunk's store of the indirectee keeps the types and stacks in shape.
LEMMA StoreIndirecteeTypes ==
  ASSUME Types, StacksOK, NEW c \in Caps, StoreIndirectee(c)
  PROVE  Types' /\ StacksOK'
<1>1. /\ pc[c] = "store_ind" /\ pc' = [pc EXCEPT ![c] = "store_info"]
      /\ UNCHANGED <<info, code, blocking, thread, running, at, upd, cur, events>>
  BY DEF StoreIndirectee, Goto
<1>2. PICK t : t = running[c] OBVIOUS
<1>3. /\ t \in Threads /\ t # NoThread /\ StackOK(stack[t]) /\ AtOK(c, stack[t], at[c])
      /\ pc \in [Caps -> Places]
  BY <1>1, <1>2, RunsOn
<1>4. ind' \in [Closures -> Pointers] BY DEF StoreIndirectee, Types
<1>5. pc' \in [Caps -> Places] BY <1>1, <1>3 DEF Places
<1>6. Types' BY <1>1, <1>4, <1>5 DEF Types, blocking, thread
<1>7. AtOK(c, stack[t], at[c])' BY <1>1, <1>3 DEF AtOK, Claiming, Storing, thread
<1>8. StacksOK'
  <2>1. pc'[c] = "store_info" /\ \A d \in Caps \ {c} : pc'[d] = pc[d] BY <1>1, <1>3
  <2> QED BY <1>1, <1>2, <1>3, <1>7, <2>1, RunningStep DEF thread
<1> QED BY <1>6, <1>8

\* An update ends: of a thread that goes on running, or one that is frozen.
StoreInfoDone(c, t) ==
    /\ t \in Threads /\ pc[c] = "store_info" /\ running[c] = t
    /\ stack[t][1].kind # "stop" /\ stack[t][1].upd \in Closures /\ Len(stack[t]) > 1
    /\ Popped(stack[t], Tail(stack[t])) /\ stack' = [stack EXCEPT ![t] = Tail(stack[t])]
    /\ info' = [info EXCEPT ![stack[t][1].upd] = "BLACKHOLE"]
    /\ WakeQueues(c, ToWake(t, upd[c].seen))
    /\ upd' = [upd EXCEPT ![c] = NoUpdate]
    /\ UNCHANGED <<ind, code, msg, inbox, block_info, running, cur, home, events>>

\* The thread goes on running.
StoreInfoValue(c, t) ==
    /\ upd[c].val = Value /\ at[c] = 1 /\ MarkedFrom(stack[t], 1)
    /\ pc' = [pc EXCEPT ![c] = "run"] /\ UNCHANGED <<enter, at>>

\* raiseAsync goes on with the next frame.
StoreInfoFrozen(c, t) ==
    /\ upd[c].val.to = "closure" /\ upd[c].val.id \in APs
    /\ at[c] \in 2..Len(stack[t]) /\ MarkedBefore(stack[t], at[c]) /\ MarkedFrom(stack[t], at[c])
    /\ stack[t][at[c]].kind # "marked"
    /\ enter' = [enter EXCEPT ![t] = upd[c].val.id]
    /\ at' = [at EXCEPT ![c] = at[c] - 1]
    /\ pc' = [pc EXCEPT ![c] = "freeze"]

\* StoreInfo, by cases
LEMMA StoreInfoDoes ==
  ASSUME Types, StacksOK, NEW c \in Caps, StoreInfo(c), NEW t, t = running[c]
  PROVE  StoreInfoDone(c, t) /\ (StoreInfoValue(c, t) \/ StoreInfoFrozen(c, t))
<1>1. pc[c] = "store_info" BY DEF StoreInfo
<1>2. /\ t \in Threads /\ StackOK(stack[t]) /\ AtOK(c, stack[t], at[c]) /\ Top(t) = stack[t][1]
      /\ 1 \in 1..Len(stack[t]) /\ Len(stack[t]) \in Nat /\ at[c] \in 1..Len(stack[t])
  BY <1>1, RunsOn
<1>3. /\ stack[t][1].kind # "stop"
      /\ \/ upd[c].val = Value /\ at[c] = 1 /\ MarkedFrom(stack[t], 1)
         \/ /\ upd[c].val.to = "closure" /\ upd[c].val.id \in APs /\ at[c] > 1
            /\ MarkedBefore(stack[t], at[c]) /\ MarkedFrom(stack[t], at[c])
            /\ stack[t][at[c]].kind # "marked"
  BY <1>1, <1>2 DEF AtOK, Storing
<1>4. stack[t][1].upd \in Closures /\ Len(stack[t]) > 1 BY <1>2, <1>3, FrameUpd
<1>5. Popped(stack[t], Tail(stack[t])) BY <1>2, <1>3, PopOK
<1>6. StoreInfoDone(c, t) BY <1>1, <1>2, <1>3, <1>4, <1>5 DEF StoreInfo, StoreInfoDone, Pop
<1>7. CASE upd[c].val = Value
  <2>1. at[c] = 1 /\ MarkedFrom(stack[t], 1) BY <1>3, <1>7, PointerTags
  <2> QED BY <1>6, <1>7, <2>1 DEF StoreInfo, StoreInfoValue, Goto
<1>8. CASE upd[c].val # Value
  <2>1. at[c] \in 2..Len(stack[t]) BY <1>2, <1>3, <1>8
  <2> QED BY <1>3, <1>6, <1>8, <2>1 DEF StoreInfo, StoreInfoFrozen, Goto
<1> QED BY <1>7, <1>8

\* updateThunk's store of the info pointer, with its wakeups, keeps the types and stacks in shape.
LEMMA StoreInfoTypes ==
  ASSUME Types, StacksOK, NEW c \in Caps, StoreInfo(c)
  PROVE  Types' /\ StacksOK'
<1>1. PICK t : t = running[c] OBVIOUS
<1>2. /\ t \in Threads /\ t # NoThread /\ StackOK(stack[t]) /\ Len(stack[t]) \in Nat
      /\ pc \in [Caps -> Places] /\ stack \in [Threads -> Seq(Frames)] /\ at \in [Caps -> Nat \ {0}]
  BY <1>1, RunsOn DEF StoreInfo
<1>3. StoreInfoDone(c, t) /\ (StoreInfoValue(c, t) \/ StoreInfoFrozen(c, t)) BY <1>1, StoreInfoDoes
<1>4. PICK r : r = Tail(stack[t]) OBVIOUS
<1>5. Popped(stack[t], r) /\ stack' = [stack EXCEPT ![t] = r] /\ stack[t][1].kind # "stop"
        /\ Len(stack[t]) > 1
  BY <1>3, <1>4 DEF StoreInfoDone
<1>6. StackOK(r) /\ r \in Seq(Frames) /\ Len(r) \in Nat /\ Len(r) > 0 /\ Len(r) = Len(stack[t]) - 1
      /\ \A i \in 1..Len(r) : r[i] = stack[t][i + 1]
  <2>1. StackOK(r) BY <1>2, <1>5, PoppedOK
  <2> QED BY <2>1, <1>5 DEF StackOK, Popped
<1>7. stack'[t] = r /\ stack' \in [Threads -> Seq(Frames)]
        /\ \A u \in Threads \ {t} : stack'[u] = stack[u]
  BY <1>2, <1>5, <1>6
<1>8. /\ why' \in [Threads -> {"NotBlocked", "BlockedOnBlackHole", "Finished"}]
      /\ wakeups' \in [Caps -> [Threads -> Nat]]
      /\ bq' \in [Queues -> [live : BOOLEAN, bh : Closures \cup {None},
                          owner : Threads \cup {NoThread}, queue : SUBSET Msgs]]
  BY <1>3, WakeQueuesTypes DEF StoreInfoDone
<1>9. info' \in [Closures -> {"unallocated", "THUNK", "AP_STACK", "WHITEHOLE", "BLACKHOLE"}]
  BY <1>3 DEF StoreInfoDone, Types
<1>10. upd' \in [Caps -> [val : Pointers, seen : Pointers]]
         /\ \A d \in Caps \ {c} : upd'[d] = upd[d]
  <2>1. NoUpdate \in [val : Pointers, seen : Pointers] BY PointerKinds DEF NoUpdate
  <2> QED BY <1>3, <2>1 DEF StoreInfoDone, Types
<1>11. UNCHANGED <<ind, code, msg, inbox, block_info, running, cur, home, events>>
  BY <1>3 DEF StoreInfoDone
<1>12. CASE StoreInfoValue(c, t)
  <2>1. pc' \in [Caps -> Places] /\ pc'[c] = "run" /\ \A d \in Caps \ {c} : pc'[d] = pc[d]
    BY <1>2, <1>12 DEF StoreInfoValue, Places
  <2>2. at' = at /\ enter' = enter /\ at[c] = 1 /\ MarkedFrom(stack[t], 1)
    BY <1>12 DEF StoreInfoValue
  <2>3. Types' BY <1>7, <1>8, <1>9, <1>10, <1>11, <2>1, <2>2 DEF Types
  <2>4. MarkedFrom(r, 1)
    <3>1. 1 \in Nat \ {0} OBVIOUS
    <3> QED BY <1>2, <1>5, <2>2, <3>1, PoppedOK
  <2>5. AtOK(c, stack[t], at[c])'
    <3>1. 1 \in 1..Len(r) BY <1>6
    <3> QED BY <1>7, <2>1, <2>2, <2>4, <3>1 DEF AtOK, Claiming, Storing
  <2>6. StacksOK' BY <1>1, <1>2, <1>6, <1>7, <1>10, <1>11, <2>1, <2>2, <2>5, RunningStep
  <2> QED BY <2>3, <2>6
<1>13. CASE StoreInfoFrozen(c, t)
  <2>1. pc' \in [Caps -> Places] /\ pc'[c] = "freeze" /\ \A d \in Caps \ {c} : pc'[d] = pc[d]
    BY <1>2, <1>13 DEF StoreInfoFrozen, Places
  <2>2. PICK n \in Nat \ {0} : n = at[c] - 1
    <3>1. at[c] \in 2..Len(stack[t]) BY <1>13 DEF StoreInfoFrozen
    <3> QED BY <1>2, <3>1
  <2>3. at' = [at EXCEPT ![c] = n] BY <1>13, <2>2 DEF StoreInfoFrozen
  <2>4. at' \in [Caps -> Nat \ {0}] /\ at'[c] = n /\ \A d \in Caps \ {c} : at'[d] = at[d]
    BY <1>2, <2>2, <2>3
  <2>5. enter' \in [Threads -> Closures \cup {None}] BY <1>13, Distinct DEF StoreInfoFrozen, Types
  <2>6. Types' BY <1>7, <1>8, <1>9, <1>10, <1>11, <2>1, <2>4, <2>5 DEF Types
  <2>7. /\ n + 1 = at[c] /\ n \in 1..Len(r) /\ MarkedBefore(stack[t], n + 1)
        /\ MarkedFrom(stack[t], n + 1)
        /\ stack[t][n + 1].kind # "marked"
    <3>1. at[c] \in 2..Len(stack[t]) /\ at[c] = n + 1 BY <1>2, <1>13, <2>2 DEF StoreInfoFrozen
    <3>2. n \in 1..Len(r) BY <1>2, <1>6, <3>1
    <3> QED BY <1>13, <3>1, <3>2 DEF StoreInfoFrozen
  <2>8. MarkedBefore(r, n) /\ MarkedFrom(r, n) BY <1>2, <1>5, <2>2, <2>7, PoppedOK
  <2>9. AtOK(c, stack[t], at[c])' BY <1>6, <1>7, <2>1, <2>4, <2>7, <2>8 DEF AtOK, Claiming, Storing
  <2>10. StacksOK' BY <1>1, <1>2, <1>6, <1>7, <1>10, <1>11, <2>1, <2>4, <2>9, RunningStep
  <2> QED BY <2>6, <2>10
<1> QED BY <1>3, <1>12, <1>13

\* The end of a time slice keeps the types and stacks in shape.
LEMMA YieldTypes ==
  ASSUME Types, StacksOK, NEW c \in Caps, Yield(c)
  PROVE  Types' /\ StacksOK'
<1>1. /\ pc[c] = "run" /\ pc' = [pc EXCEPT ![c] = "pause"]
      /\ UNCHANGED <<heap, blocking, thread, running, at, upd, cur>>
  BY DEF Yield, Goto
<1>2. PICK t : t = running[c] OBVIOUS
<1>3. /\ t \in Threads /\ t # NoThread /\ StackOK(stack[t]) /\ AtOK(c, stack[t], at[c])
      /\ pc \in [Caps -> Places]
  BY <1>1, <1>2, RunsOn
<1>4. pc' \in [Caps -> Places] BY <1>1, <1>3 DEF Places
<1>5. Types' BY <1>1, <1>4 DEF Types, heap, blocking, thread
<1>6. at[c] = 1 BY <1>1 DEF StacksOK, CapOK
<1>7. MarkedBefore(stack[t], 1) BY DEF MarkedBefore
<1>8. pc'[c] = "pause" /\ \A d \in Caps \ {c} : pc'[d] = pc[d] BY <1>1, <1>3
<1>9. AtOK(c, stack[t], at[c])' BY <1>1, <1>3, <1>6, <1>7, <1>8 DEF AtOK, Claiming, Storing, thread
<1>10. StacksOK' BY <1>1, <1>2, <1>3, <1>8, <1>9, RunningStep DEF thread
<1> QED BY <1>5, <1>10

\* What threadPaused does with the frame it has got to
PauseAny(c, t, n) ==
    /\ t \in Threads /\ running[c] = t /\ pc[c] = "pause" /\ at[c] = n /\ n \in 1..Len(stack[t])
    /\ MarkedBefore(stack[t], n) /\ MarkedFrom(stack[t], n)
    /\ UNCHANGED <<ind, code, blocking, enter, why, block_info, upd, cur, home, events>>

\* The stop frame, or one that has been marked before: it is done.
PauseEnd(c, t, n) ==
    /\ stack[t][n].kind \in {"stop", "marked"} /\ Parked(stack[t])
    /\ running' = [running EXCEPT ![c] = NoThread] /\ at' = [at EXCEPT ![c] = 1]
    /\ pc' = [pc EXCEPT ![c] = "sched"]
    /\ UNCHANGED <<info, stack>>

\* A thunk that another thread evaluates: the work on it is suspended.
PauseFreeze(c, t, n) ==
    /\ stack[t][n].kind \in {"upd", "bh"} /\ stack[t][n].upd \in Closures
    /\ info[stack[t][n].upd] = "WHITEHOLE" \/ (info[stack[t][n].upd] = "BLACKHOLE"
         /\ Owner(stack[t][n].upd) # t)
    /\ pc' = [pc EXCEPT ![c] = "freeze"]
    /\ UNCHANGED <<info, stack, running, at>>

\* An eager black hole of the thread
PauseOwn(c, t, n) ==
    /\ stack[t][n].kind \in {"upd", "bh"} /\ stack[t][n].upd \in Closures
    /\ info[stack[t][n].upd] = "BLACKHOLE" /\ Owner(stack[t][n].upd) = t
    /\ stack' = [stack EXCEPT ![t] = [stack[t] EXCEPT ![n].kind = "marked"]]
    /\ at' = [at EXCEPT ![c] = n + 1]
    /\ UNCHANGED <<info, running, pc>>

\* A thunk that nobody has claimed
PauseClaim(c, t, n) ==
    /\ stack[t][n].kind = "upd" /\ stack[t][n].upd \in Closures /\ info[stack[t][n].upd] = "THUNK"
    /\ info' = [info EXCEPT ![stack[t][n].upd] = "WHITEHOLE"]
    /\ stack' = [stack EXCEPT ![t] = [stack[t] EXCEPT ![n].kind = "marked"]]
    /\ pc' = [pc EXCEPT ![c] = "claim_ind"]
    /\ UNCHANGED <<running, at>>

\* PauseFrame, by cases
LEMMA PauseDoes ==
  ASSUME Types, StacksOK, NEW c \in Caps, PauseFrame(c), NEW t, t = running[c], NEW n, n = at[c]
  PROVE  PauseAny(c, t, n) /\ (PauseEnd(c, t, n) \/ PauseFreeze(c, t, n) \/ PauseOwn(c, t, n)
           \/ PauseClaim(c, t, n))
<1>1. pc[c] = "pause" BY DEF PauseFrame
<1>2. /\ t \in Threads /\ StackOK(stack[t]) /\ AtOK(c, stack[t], at[c])
      /\ stack[t] \in Seq(Frames) /\ Len(stack[t]) \in Nat
      /\ n \in 1..Len(stack[t]) /\ stack \in [Threads -> Seq(Frames)]
  BY <1>1, RunsOn
<1>3. MarkedBefore(stack[t], n) /\ MarkedFrom(stack[t], n) BY <1>1, <1>2 DEF AtOK
<1>4. PauseAny(c, t, n) BY <1>1, <1>2, <1>3 DEF PauseAny, PauseFrame
<1>5. ASSUME stack[t][n].kind # "stop" PROVE stack[t][n].upd \in Closures BY <1>2, <1>5 DEF StackOK
<1>6. CASE stack[t][n].kind \in {"stop", "marked"}
  <2>1. Parked(stack[t])
    <3> SUFFICES ASSUME NEW i \in 1..Len(stack[t]) PROVE stack[t][i].kind \in {"marked", "stop"}
      BY DEF Parked
    <3>1. CASE i < n BY <1>3, <3>1 DEF MarkedBefore
    <3>2. CASE i = n BY <1>6, <3>2
    <3>3. CASE i > n
      <4>1. stack[t][n].kind # "stop" BY <1>2, <3>3 DEF StackOK
      <4> QED BY <1>2, <1>3, <1>6, <3>3, <4>1 DEF MarkedFrom
    <3> QED BY <1>2, <3>1, <3>2, <3>3
  <2>2. PauseEnd(c, t, n) BY <1>6, <2>1 DEF PauseFrame, PauseEnd, LeaveThread, Goto
  <2> QED BY <1>4, <2>2
<1>7. CASE stack[t][n].kind \notin {"stop", "marked"}
  <2>1. stack[t][n].upd \in Closures BY <1>5, <1>7
  <2>2. CASE info[stack[t][n].upd] = "WHITEHOLE" \/ (info[stack[t][n].upd] = "BLACKHOLE"
          /\ ~IsOwner(t, stack[t][n].upd))
    <3>1. PauseFreeze(c, t, n) BY <1>7, <2>1, <2>2 DEF PauseFrame, PauseFreeze, Goto, IsOwner
    <3> QED BY <1>4, <3>1
  <2>3. CASE info[stack[t][n].upd] = "BLACKHOLE" /\ IsOwner(t, stack[t][n].upd)
    <3>1. MarkFrame(c, t) /\ at' = [at EXCEPT ![c] = @ + 1] /\ UNCHANGED <<info, running, pc>>
            /\ stack[t][n].kind \in {"upd", "bh"}
      BY <1>7, <2>3 DEF PauseFrame
    <3>2. stack' = [stack EXCEPT ![t] = [stack[t] EXCEPT ![n].kind = "marked"]]
      BY <3>1, <1>2 DEF MarkFrame
    <3>3. PauseOwn(c, t, n) BY <2>1, <2>3, <3>1, <3>2 DEF PauseOwn, IsOwner
    <3> QED BY <1>4, <3>3
  <2>4. CASE info[stack[t][n].upd] \notin {"WHITEHOLE", "BLACKHOLE"}
    <3>1. /\ stack[t][n].kind = "upd" /\ info[stack[t][n].upd] = "THUNK"
          /\ info' = [info EXCEPT ![stack[t][n].upd] = "WHITEHOLE"] /\ MarkFrame(c, t)
          /\ pc' = [pc EXCEPT ![c] = "claim_ind"]
          /\ UNCHANGED <<running, at>>
      BY <1>7, <2>4 DEF PauseFrame, Goto
    <3>2. stack' = [stack EXCEPT ![t] = [stack[t] EXCEPT ![n].kind = "marked"]]
      BY <3>1, <1>2 DEF MarkFrame
    <3>3. PauseClaim(c, t, n) BY <2>1, <3>1, <3>2 DEF PauseClaim
    <3> QED BY <1>4, <3>3
  <2> QED BY <2>2, <2>3, <2>4
<1> QED BY <1>6, <1>7

\* A step of threadPaused keeps the types and stacks in shape.
LEMMA PauseFrameTypes ==
  ASSUME Types, StacksOK, NEW c \in Caps, PauseFrame(c)
  PROVE  Types' /\ StacksOK'
<1>1. PICK t : t = running[c] OBVIOUS
<1>2. PICK n : n = at[c] OBVIOUS
<1>3. PauseAny(c, t, n) /\ (PauseEnd(c, t, n) \/ PauseFreeze(c, t, n) \/ PauseOwn(c, t, n)
        \/ PauseClaim(c, t, n))
  BY <1>1, <1>2, PauseDoes
<1>4. /\ t \in Threads /\ t # NoThread /\ StackOK(stack[t]) /\ Len(stack[t]) \in Nat
      /\ pc \in [Caps -> Places] /\ stack \in [Threads -> Seq(Frames)] /\ at \in [Caps -> Nat \ {0}]
  BY <1>1, RunsOn DEF PauseFrame
<1>5. /\ n \in 1..Len(stack[t]) /\ MarkedBefore(stack[t], n) /\ MarkedFrom(stack[t], n)
      /\ pc[c] = "pause"
      /\ UNCHANGED <<ind, code, blocking, enter, why, block_info, upd, cur, home, events>>
  BY <1>3 DEF PauseAny
<1>6. CASE PauseEnd(c, t, n)
  <2>1. pc' \in [Caps -> Places] /\ at' \in [Caps -> Nat \ {0}] BY <1>4, <1>6 DEF PauseEnd, Places
  <2>2. running' \in [Caps -> Threads \cup {NoThread}] BY <1>6 DEF PauseEnd, Types
  <2>3. Types' BY <1>5, <1>6, <2>1, <2>2 DEF PauseEnd, Types, blocking
  <2>4. StacksOK' BY <1>1, <1>4, <1>5, <1>6, LeavingStep DEF PauseEnd
  <2> QED BY <2>3, <2>4
<1>7. CASE PauseFreeze(c, t, n)
  <2>1. pc' \in [Caps -> Places] /\ pc'[c] = "freeze" /\ \A d \in Caps \ {c} : pc'[d] = pc[d]
    BY <1>4, <1>7 DEF PauseFreeze, Places
  <2>2. UNCHANGED <<info, stack, running, at>> /\ stack[t][n].kind # "marked"
    BY <1>7 DEF PauseFreeze
  <2>3. Types' BY <1>5, <2>1, <2>2 DEF Types, blocking
  <2>4. AtOK(c, stack[t], at[c])' BY <1>2, <1>5, <2>1, <2>2 DEF AtOK, Claiming, Storing
  <2>5. StacksOK' BY <1>1, <1>4, <1>5, <2>1, <2>2, <2>4, RunningStep
  <2> QED BY <2>3, <2>5
<1>8. PICK r : r = [stack[t] EXCEPT ![n].kind = "marked"] OBVIOUS
<1>9. Marked(stack[t], r, n) BY <1>4, <1>5, <1>8, MarkOK
<1>10. r \in Seq(Frames) /\ Len(r) = Len(stack[t]) /\ r[n].kind = "marked" BY <1>5, <1>9 DEF Marked
<1>11. ASSUME stack[t][n].kind # "stop"
       PROVE  /\ StackOK(r) /\ MarkedBefore(r, n) /\ MarkedBefore(r, n + 1) /\ MarkedFrom(r, n + 1)
              /\ n + 1 \in 1..Len(stack[t])
  BY <1>4, <1>5, <1>9, <1>11, MarkedOK, FrameUpd
<1>12. CASE PauseOwn(c, t, n)
  <2>1. stack' = [stack EXCEPT ![t] = r] /\ at' = [at EXCEPT ![c] = n + 1]
          /\ UNCHANGED <<info, running, pc>>
    BY <1>8, <1>12 DEF PauseOwn
  <2>2. /\ StackOK(r) /\ MarkedBefore(r, n) /\ MarkedBefore(r, n + 1) /\ MarkedFrom(r, n + 1)
        /\ n + 1 \in 1..Len(stack[t])
    BY <1>11, <1>12 DEF PauseOwn
  <2>3. stack' \in [Threads -> Seq(Frames)] /\ stack'[t] = r
          /\ \A u \in Threads \ {t} : stack'[u] = stack[u]
    BY <1>4, <1>10, <2>1
  <2>4. at' \in [Caps -> Nat \ {0}] /\ at'[c] = n + 1 /\ \A d \in Caps \ {c} : at'[d] = at[d]
    BY <1>4, <1>5, <2>1
  <2>5. Types' BY <1>5, <2>1, <2>3, <2>4 DEF Types, blocking
  <2>6. AtOK(c, stack[t], at[c])' BY <1>5, <1>10, <2>1, <2>2, <2>3, <2>4 DEF AtOK, Claiming, Storing
  <2>7. StacksOK' BY <1>1, <1>4, <1>5, <2>1, <2>2, <2>3, <2>4, <2>6, RunningStep
  <2> QED BY <2>5, <2>7
<1>13. CASE PauseClaim(c, t, n)
  <2>1. stack' = [stack EXCEPT ![t] = r] /\ UNCHANGED <<running, at>> BY <1>8, <1>13 DEF PauseClaim
  <2>2. /\ StackOK(r) /\ MarkedBefore(r, n) /\ MarkedBefore(r, n + 1) /\ MarkedFrom(r, n + 1)
        /\ n + 1 \in 1..Len(stack[t])
    BY <1>11, <1>13 DEF PauseClaim
  <2>3. stack' \in [Threads -> Seq(Frames)] /\ stack'[t] = r
          /\ \A u \in Threads \ {t} : stack'[u] = stack[u]
    BY <1>4, <1>10, <2>1
  <2>4. pc' \in [Caps -> Places] /\ pc'[c] = "claim_ind" /\ \A d \in Caps \ {c} : pc'[d] = pc[d]
    BY <1>4, <1>13 DEF PauseClaim, Places
  <2>5. info' \in [Closures -> {"unallocated", "THUNK", "AP_STACK", "WHITEHOLE", "BLACKHOLE"}]
    BY <1>13 DEF PauseClaim, Types
  <2>6. Types' BY <1>5, <2>1, <2>3, <2>4, <2>5 DEF Types, blocking
  <2>7. AtOK(c, stack[t], at[c])'
    BY <1>2, <1>5, <1>10, <2>1, <2>2, <2>3, <2>4 DEF AtOK, Claiming, Storing
  <2>8. StacksOK' BY <1>1, <1>4, <1>5, <2>1, <2>2, <2>3, <2>4, <2>7, RunningStep
  <2> QED BY <2>6, <2>8
<1> QED BY <1>3, <1>6, <1>7, <1>12, <1>13

\* What the new AP_STACK evaluates
Suspended(t) == (IF enter[t] = None THEN <<>> ELSE <<enter[t]>>) \o stack[t][1].todo

\* raiseAsync makes the AP_STACK a of the top of the stack.
FreezeTo(c, t, a) ==
    /\ t \in Threads /\ running[c] = t /\ pc[c] = "freeze" /\ at[c] \in 2..Len(stack[t])
    /\ MarkedBefore(stack[t], at[c]) /\ MarkedFrom(stack[t], at[c])
    /\ stack[t][at[c]].kind # "marked"
    /\ stack[t][1].kind = "marked" /\ stack[t][1].upd \in Closures
    /\ a \in APs /\ info[a] = "unallocated"
    /\ info' = [info EXCEPT ![a] = "AP_STACK"]
    /\ code' = [code EXCEPT ![a] = Suspended(t)]
    /\ upd' = [upd EXCEPT ![c] = Update(Closure(a), ind[stack[t][1].upd])]
    /\ pc' = [pc EXCEPT ![c] = "store_ind"]
    /\ UNCHANGED <<ind, blocking, why, stack, enter, block_info, running, at, cur, home, events>>

\* Freeze, with the AP_STACK that it allocates
LEMMA FreezeDoes ==
  ASSUME Types, StacksOK, NEW c \in Caps, Freeze(c), NEW t, t = running[c]
  PROVE  \E a \in APs : FreezeTo(c, t, a)
<1>1. pc[c] = "freeze" /\ at[c] > 1 /\ FreeAPs # {} BY DEF Freeze
<1>2. /\ t \in Threads /\ StackOK(stack[t]) /\ AtOK(c, stack[t], at[c]) /\ Len(stack[t]) \in Nat
      /\ at[c] \in 1..Len(stack[t]) /\ Top(t) = stack[t][1]
  BY <1>1, RunsOn
<1>3. at[c] \in 2..Len(stack[t]) /\ 1 \in 1..Len(stack[t]) BY <1>1, <1>2
<1>4. MarkedBefore(stack[t], at[c]) /\ MarkedFrom(stack[t], at[c])
        /\ stack[t][at[c]].kind # "marked"
  BY <1>1, <1>2 DEF AtOK
<1>5. stack[t][1].kind = "marked" BY <1>3, <1>4 DEF MarkedBefore
<1>6. stack[t][1].upd \in Closures BY <1>2, <1>3, <1>5, FrameUpd
<1>7. PICK a : a = First(FreeAPs) OBVIOUS
<1>8. a \in FreeAPs
  <2>1. FreeAPs \subseteq Nat BY Distinct DEF FreeAPs
  <2> QED BY <1>1, <1>7, <2>1, FirstOK
<1>9. a \in APs /\ info[a] = "unallocated" BY <1>8 DEF FreeAPs
<1>10. /\ info' = [info EXCEPT ![a] = "AP_STACK"]
       /\ code' = [code EXCEPT ![a] = (IF enter[t] = None THEN <<>> ELSE <<enter[t]>>) \o Top(t).todo]
       /\ UpdateThunk(c, Closure(a))
       /\ UNCHANGED <<enter, block_info, running, at, cur, home, events>>
  BY <1>7 DEF Freeze
<1>11. code' = [code EXCEPT ![a] = Suspended(t)] BY <1>2, <1>10 DEF Suspended
<1>12. upd' = [upd EXCEPT ![c] = Update(Closure(a), ind[stack[t][1].upd])]
  BY <1>2, <1>10 DEF UpdateThunk, Update
<1>13. pc' = [pc EXCEPT ![c] = "store_ind"] /\ UNCHANGED <<ind, blocking, why, stack>>
  BY <1>10 DEF UpdateThunk, Goto
<1>14. FreezeTo(c, t, a)
  BY <1>1, <1>2, <1>3, <1>4, <1>5, <1>6, <1>9, <1>10, <1>11, <1>12, <1>13 DEF FreezeTo
<1> QED BY <1>9, <1>14

\* What an AP_STACK evaluates is what its thread had left to do.
LEMMA SuspendedOK ==
  ASSUME Types, StacksOK, NEW t \in Threads
  PROVE  /\ Suspended(t) \in Seq(Closures)
         /\ \A i \in DOMAIN Suspended(t) : \/ enter[t] # None /\ Suspended(t)[i] = enter[t]
                                           \/ \E j \in DOMAIN stack[t][1].todo :
                                                Suspended(t)[i] = stack[t][1].todo[j]
<1>1. stack[t][1] \in Frames BY StackTypes
<1>2. PICK td \in Seq(Closures) : td = stack[t][1].todo BY <1>1 DEF Frames
<1>3. enter[t] \in Closures \cup {None} BY DEF Types
<1>4. CASE enter[t] = None
  <2>1. Suspended(t) = <<>> \o td BY <1>2, <1>4 DEF Suspended
  <2>2. Suspended(t) = td BY <2>1
  <2> QED BY <1>2, <2>2
<1>5. CASE enter[t] # None
  <2>1. PICK e \in Closures : e = enter[t] BY <1>3, <1>5
  <2>2. PICK r : r = <<e>> \o td OBVIOUS
  <2>3. Suspended(t) = r BY <1>2, <1>5, <2>1, <2>2 DEF Suspended
  <2>4. /\ r \in Seq(Closures) /\ Len(r) = Len(td) + 1 /\ r[1] = e /\ DOMAIN r = 1..Len(r)
        /\ DOMAIN td = 1..Len(td) /\ Len(td) \in Nat
        /\ \A i \in 1..Len(r) : i # 1 => r[i] = td[i - 1]
    BY <2>2
  <2>5. \A i \in DOMAIN r : r[i] = e \/ \E j \in DOMAIN td : r[i] = td[j]
    <3> SUFFICES ASSUME NEW i \in DOMAIN r, i # 1 PROVE \E j \in DOMAIN td : r[i] = td[j] BY <2>4
    <3>1. PICK j : j = i - 1 OBVIOUS
    <3>2. j \in DOMAIN td /\ r[i] = td[j] BY <2>4, <3>1
    <3> QED BY <3>2
  <2> QED BY <1>2, <1>5, <2>1, <2>3, <2>4, <2>5
<1> QED BY <1>4, <1>5

\* raiseAsync, that makes an AP_STACK, keeps the types and stacks in shape.
LEMMA FreezeTypes ==
  ASSUME Types, StacksOK, NEW c \in Caps, Freeze(c)
  PROVE  Types' /\ StacksOK'
<1>1. PICK t : t = running[c] OBVIOUS
<1>2. PICK a \in APs : FreezeTo(c, t, a) BY <1>1, FreezeDoes
<1>3. /\ t \in Threads /\ t # NoThread /\ StackOK(stack[t]) /\ Len(stack[t]) \in Nat
      /\ pc \in [Caps -> Places] /\ stack \in [Threads -> Seq(Frames)] /\ at[c] \in 1..Len(stack[t])
  BY <1>1, RunsOn DEF Freeze
<1>4. a \in Closures BY Distinct
<1>5. upd' \in [Caps -> [val : Pointers, seen : Pointers]] /\ upd'[c].val = Closure(a)
      /\ \A d \in Caps \ {c} : upd'[d] = upd[d]
  <2>1. Closure(a) \in Pointers BY <1>4, PointerKinds
  <2>2. ind[stack[t][1].upd] \in Pointers BY <1>2 DEF FreezeTo, Types
  <2>3. upd' = [upd EXCEPT ![c] = Update(Closure(a), ind[stack[t][1].upd])] BY <1>2 DEF FreezeTo
  <2> QED BY <2>1, <2>2, <2>3, UpdTypes
<1>6. code' \in [Closures -> Seq(Closures)]
  <2>1. Suspended(t) \in Seq(Closures) BY <1>3, SuspendedOK
  <2> QED BY <1>2, <2>1 DEF FreezeTo, Types
<1>7. info' \in [Closures -> {"unallocated", "THUNK", "AP_STACK", "WHITEHOLE", "BLACKHOLE"}]
  BY <1>2 DEF FreezeTo, Types
<1>8. pc' \in [Caps -> Places] /\ pc'[c] = "store_ind" /\ \A d \in Caps \ {c} : pc'[d] = pc[d]
  BY <1>2, <1>3 DEF FreezeTo, Places
<1>9. UNCHANGED <<ind, blocking, why, stack, enter, block_info, running, at, cur, home, events>>
  BY <1>2 DEF FreezeTo
<1>10. Types' BY <1>5, <1>6, <1>7, <1>8, <1>9 DEF Types, blocking
<1>11. AtOK(c, stack[t], at[c])'
  <2>1. /\ at[c] \in 2..Len(stack[t])
        /\ MarkedBefore(stack[t], at[c]) /\ MarkedFrom(stack[t], at[c])
        /\ stack[t][at[c]].kind # "marked"
        /\ stack[t][1].kind = "marked"
    BY <1>2 DEF FreezeTo
  <2>2. upd'[c].val.to = "closure" /\ upd'[c].val.id \in APs BY <1>5, PointerTags
  <2> QED BY <1>3, <1>8, <1>9, <2>1, <2>2 DEF AtOK, Claiming, Storing
<1>12. StacksOK' BY <1>1, <1>3, <1>5, <1>8, <1>9, <1>11, RunningStep
<1> QED BY <1>10, <1>12

\* The end of raiseAsync
FrozenAny(c, t) ==
    /\ t \in Threads /\ running[c] = t /\ pc[c] = "freeze" /\ at[c] = 1 /\ MarkedFrom(stack[t], 1)
    /\ why' = [why EXCEPT ![t] = "NotBlocked"]
    /\ UNCHANGED <<heap, blocking, block_info, upd, cur, home, events>>

\* The handler of the exception has been reached.
FrozenCaught(c, t) ==
    /\ stack[t][1].kind = "stop" /\ Len(stack[t]) = 1 /\ Parked(stack[t])
    /\ enter' = [enter EXCEPT ![t] = None]
    /\ running' = [running EXCEPT ![c] = NoThread] /\ at' = [at EXCEPT ![c] = 1]
    /\ pc' = [pc EXCEPT ![c] = "sched"]
    /\ UNCHANGED stack

\* threadPaused has suspended the work on a thunk.
FrozenDropped(c, t) ==
    /\ stack[t][1].kind \in {"upd", "bh"} /\ stack[t][1].upd \in Closures /\ Len(stack[t]) > 1
    /\ enter' = [enter EXCEPT ![t] = stack[t][1].upd]
    /\ Popped(stack[t], Tail(stack[t])) /\ stack' = [stack EXCEPT ![t] = Tail(stack[t])]
    /\ pc' = [pc EXCEPT ![c] = "pause"]
    /\ UNCHANGED <<running, at>>

\* Frozen, by cases
LEMMA FrozenDoes ==
  ASSUME Types, StacksOK, NEW c \in Caps, Frozen(c), NEW t, t = running[c]
  PROVE  FrozenAny(c, t) /\ (FrozenCaught(c, t) \/ FrozenDropped(c, t))
<1>1. pc[c] = "freeze" /\ at[c] = 1 BY DEF Frozen
<1>2. /\ t \in Threads /\ StackOK(stack[t]) /\ AtOK(c, stack[t], at[c])
      /\ Len(stack[t]) \in Nat /\ Len(stack[t]) > 0
      /\ 1 \in 1..Len(stack[t]) /\ Top(t) = stack[t][1]
      /\ \A i \in 1..Len(stack[t]) : stack[t][i] \in Frames
  BY <1>1, RunsOn
<1>3. MarkedFrom(stack[t], 1) /\ stack[t][1].kind # "marked" BY <1>1, <1>2 DEF AtOK
<1>4. FrozenAny(c, t) BY <1>1, <1>2, <1>3 DEF Frozen, FrozenAny
<1>5. CASE stack[t][1].kind = "stop"
  <2>1. Len(stack[t]) = 1 BY <1>2, <1>5 DEF StackOK
  <2>2. Parked(stack[t]) BY <1>5, <2>1 DEF Parked
  <2> QED BY <1>2, <1>4, <1>5, <2>1, <2>2 DEF Frozen, FrozenCaught, LeaveThread, Goto
<1>6. CASE stack[t][1].kind # "stop"
  <2>1. stack[t][1].kind \in {"upd", "bh"} BY <1>2, <1>3, <1>6 DEF Frames
  <2>2. stack[t][1].upd \in Closures /\ Len(stack[t]) > 1 BY <1>2, <1>6, FrameUpd
  <2>3. Popped(stack[t], Tail(stack[t])) BY <1>2, <1>6, PopOK
  <2> QED BY <1>2, <1>4, <1>6, <2>1, <2>2, <2>3 DEF Frozen, FrozenDropped, Goto, Pop
<1> QED BY <1>5, <1>6

\* The end of raiseAsync keeps the types and stacks in shape.
LEMMA FrozenTypes ==
  ASSUME Types, StacksOK, NEW c \in Caps, Frozen(c)
  PROVE  Types' /\ StacksOK'
<1>1. PICK t : t = running[c] OBVIOUS
<1>2. FrozenAny(c, t) /\ (FrozenCaught(c, t) \/ FrozenDropped(c, t)) BY <1>1, FrozenDoes
<1>3. /\ t \in Threads /\ t # NoThread /\ StackOK(stack[t]) /\ Len(stack[t]) \in Nat
      /\ pc \in [Caps -> Places] /\ stack \in [Threads -> Seq(Frames)] /\ at \in [Caps -> Nat \ {0}]
  BY <1>1, RunsOn DEF Frozen
<1>4. at[c] = 1 /\ MarkedFrom(stack[t], 1)
        /\ UNCHANGED <<heap, blocking, block_info, upd, cur, home, events>>
  BY <1>2 DEF FrozenAny
<1>5. why' \in [Threads -> {"NotBlocked", "BlockedOnBlackHole", "Finished"}]
  BY <1>2 DEF FrozenAny, Types
<1>6. CASE FrozenCaught(c, t)
  <2>1. pc' \in [Caps -> Places] /\ at' \in [Caps -> Nat \ {0}]
    BY <1>3, <1>6 DEF FrozenCaught, Places
  <2>2. running' \in [Caps -> Threads \cup {NoThread}]
          /\ enter' \in [Threads -> Closures \cup {None}]
    BY <1>6 DEF FrozenCaught, Types
  <2>3. Types' BY <1>4, <1>5, <1>6, <2>1, <2>2 DEF FrozenCaught, Types, heap, blocking
  <2>4. StacksOK' BY <1>1, <1>3, <1>4, <1>6, LeavingStep DEF FrozenCaught
  <2> QED BY <2>3, <2>4
<1>7. CASE FrozenDropped(c, t)
  <2>1. PICK r : r = Tail(stack[t]) OBVIOUS
  <2>2. Popped(stack[t], r) /\ stack' = [stack EXCEPT ![t] = r] /\ stack[t][1].kind # "stop"
          /\ Len(stack[t]) > 1
        /\ UNCHANGED <<running, at>>
    BY <1>7, <2>1 DEF FrozenDropped
  <2>3. StackOK(r) /\ MarkedFrom(r, 1) /\ r \in Seq(Frames) /\ 1 \in 1..Len(r)
    <3>1. StackOK(r) /\ MarkedFrom(r, 1)
      <4>1. 1 \in Nat \ {0} OBVIOUS
      <4> QED BY <1>3, <1>4, <2>2, <4>1, PoppedOK
    <3> QED BY <3>1 DEF StackOK
  <2>4. stack'[t] = r /\ stack' \in [Threads -> Seq(Frames)]
          /\ \A u \in Threads \ {t} : stack'[u] = stack[u]
    BY <1>3, <2>2, <2>3
  <2>5. enter' \in [Threads -> Closures \cup {None}] BY <1>7 DEF FrozenDropped, Types
  <2>6. pc' \in [Caps -> Places] /\ pc'[c] = "pause" /\ \A d \in Caps \ {c} : pc'[d] = pc[d]
    BY <1>3, <1>7 DEF FrozenDropped, Places
  <2>7. Types' BY <1>4, <1>5, <2>2, <2>4, <2>5, <2>6 DEF Types, heap, blocking
  <2>8. MarkedBefore(r, 1) BY DEF MarkedBefore
  <2>9. AtOK(c, stack[t], at[c])' BY <1>4, <2>2, <2>3, <2>4, <2>6, <2>8 DEF AtOK, Claiming, Storing
  <2>10. StacksOK' BY <1>1, <1>3, <1>4, <2>2, <2>3, <2>4, <2>6, <2>9, RunningStep
  <2> QED BY <2>7, <2>10
<1> QED BY <1>2, <1>6, <1>7

\* A capability that runs nothing takes a thread up.
LEMMA TakesUp ==
  ASSUME Types, StacksOK, NEW c \in Caps, pc[c] = "sched", NEW t \in Threads, home[t] = c,
         NEW l, NEW n \in Nat \ {0}, l \in {"run", "freeze"},
         n = (IF l = "run" THEN 1 ELSE Len(stack[t])),
         running' = [running EXCEPT ![c] = t], pc' = [pc EXCEPT ![c] = l],
         at' = [at EXCEPT ![c] = n],
         UNCHANGED <<stack, home, upd>>
  PROVE  /\ StacksOK' /\ running[c] = NoThread /\ Parked(stack[t])
         /\ running' \in [Caps -> Threads \cup {NoThread}] /\ pc' \in [Caps -> Places]
         /\ at' \in [Caps -> Nat \ {0}]
<1>1. running[c] = NoThread BY DEF StacksOK, CapOK
<1>2. \A u \in Threads : home[u] = c => StackOK(stack[u]) /\ Parked(stack[u])
  BY <1>1, Distinct DEF StacksOK, ThreadOK
<1>3. StackOK(stack[t]) /\ Parked(stack[t]) BY <1>2
<1>4. /\ running' \in [Caps -> Threads \cup {NoThread}] /\ pc' \in [Caps -> Places]
      /\ at' \in [Caps -> Nat \ {0}]
      /\ running'[c] = t /\ pc'[c] = l /\ at'[c] = n
      /\ \A d \in Caps \ {c} : running'[d] = running[d] /\ pc'[d] = pc[d] /\ at'[d] = at[d]
  BY DEF Types, Places
<1>5. n \in 1..Len(stack[t]) BY <1>3 DEF StackOK
<1>6. AtOK(c, stack[t], at[c])'
  <2>1. CASE l = "run"
    <3>1. MarkedFrom(stack[t], 1) BY <1>3 DEF Parked, MarkedFrom
    <3> QED BY <1>4, <1>5, <2>1, <3>1 DEF AtOK, Claiming, Storing
  <2>2. CASE l = "freeze"
    <3>1. n = Len(stack[t]) BY <2>2
    <3>2. stack[t][n].kind # "marked" BY <1>3, <1>5, <3>1 DEF StackOK
    <3>3. MarkedBefore(stack[t], n) BY <1>3, <1>5, <3>1 DEF MarkedBefore, Parked, StackOK
    <3>4. MarkedFrom(stack[t], n) BY <1>3, <1>5, <3>1 DEF MarkedFrom, StackOK
    <3> QED BY <1>4, <1>5, <2>2, <3>2, <3>3, <3>4 DEF AtOK, Claiming, Storing
  <2> QED BY <2>1, <2>2
<1>7. CapOK(c)' BY <1>4, <1>6, Distinct DEF CapOK
<1>8. StacksOK' BY <1>2, <1>4, <1>7, Local
<1> QED BY <1>1, <1>3, <1>4, <1>8

\* throwToMsg keeps the types and stacks in shape.
LEMMA RaiseTypes ==
  ASSUME Types, StacksOK, NEW c \in Caps, NEW t \in Threads, Raise(c, t)
  PROVE  Types' /\ StacksOK'
<1>1. /\ pc[c] = "sched" /\ home[t] = c /\ running' = [running EXCEPT ![c] = t]
      /\ at' = [at EXCEPT ![c] = Len(stack[t])]
      /\ pc' = [pc EXCEPT ![c] = "freeze"]
      /\ UNCHANGED <<heap, bq, inbox, wakeups, thread, upd, cur>>
  BY DEF Raise, Goto
<1>2. Len(stack[t]) \in Nat \ {0} BY StackTypes
<1>3. /\ StacksOK'
      /\ running' \in [Caps -> Threads \cup {NoThread}] /\ pc' \in [Caps -> Places]
      /\ at' \in [Caps -> Nat \ {0}]
  BY <1>1, <1>2, TakesUp DEF thread
<1>4. msg' \in [Msgs -> [live : BOOLEAN, tso : Threads \cup {NoThread}, bh : Closures \cup {None}]]
  <2>1. CASE msg' = msg BY <2>1 DEF Types
  <2>2. CASE msg' = [msg EXCEPT ![block_info[t]].live = FALSE]
    <3>1. PICK m : m = block_info[t] OBVIOUS
    <3>2. CASE m \in Msgs
      <4>1. PICK b : b = [msg[m] EXCEPT !.live = FALSE] OBVIOUS
      <4>2. msg[m] \in [live : BOOLEAN, tso : Threads \cup {NoThread}, bh : Closures \cup {None}]
        BY <3>2 DEF Types
      <4>3. b \in [live : BOOLEAN, tso : Threads \cup {NoThread}, bh : Closures \cup {None}]
        BY <4>1, <4>2
      <4>4. msg' = [msg EXCEPT ![m] = b] BY <2>2, <3>1, <4>1
      <4> QED BY <4>3, <4>4 DEF Types
    <3>3. CASE m \notin Msgs
      <4>1. msg' = msg BY <2>2, <3>1, <3>3 DEF Types
      <4> QED BY <4>1 DEF Types
    <3> QED BY <3>2, <3>3
  <2> QED BY <2>1, <2>2 DEF Raise
<1>5. Types' BY <1>1, <1>3, <1>4 DEF Types, heap, thread
<1> QED BY <1>3, <1>5

\* A thread taken from the run queue keeps the types and stacks in shape.
LEMMA DispatchTypes ==
  ASSUME Types, StacksOK, NEW c \in Caps, Dispatch(c)
  PROVE  Types' /\ StacksOK'
<1>1. /\ pc[c] = "sched" /\ pc' = [pc EXCEPT ![c] = "run"]
      /\ UNCHANGED <<heap, blocking, thread, at, upd, cur, events>>
  BY DEF Dispatch, Goto
<1>2. PICK t \in Threads : home[t] = c /\ running' = [running EXCEPT ![c] = t] BY DEF Dispatch
<1>3. at' = [at EXCEPT ![c] = 1]
  <2>1. at[c] = 1 BY <1>1 DEF StacksOK, CapOK
  <2> QED BY <1>1, <2>1 DEF Types
<1>4. /\ StacksOK'
      /\ running' \in [Caps -> Threads \cup {NoThread}] /\ pc' \in [Caps -> Places]
      /\ at' \in [Caps -> Nat \ {0}]
  <2>1. PICK n \in Nat \ {0} : n = 1 OBVIOUS
  <2>2. PICK l : l = "run" OBVIOUS
  <2>3. n = (IF l = "run" THEN 1 ELSE Len(stack[t])) /\ l \in {"run", "freeze"} BY <2>1, <2>2
  <2>4. at' = [at EXCEPT ![c] = n] /\ pc' = [pc EXCEPT ![c] = l] /\ UNCHANGED <<stack, home, upd>>
    BY <1>1, <1>3, <2>1, <2>2 DEF thread
  <2> QED BY <1>1, <1>2, <2>3, <2>4, TakesUp
<1>5. Types' BY <1>1, <1>4 DEF Types, heap, blocking, thread
<1> QED BY <1>4, <1>5

\* executeMessage, for a MSG_TRY_WAKEUP, keeps the types and stacks in shape.
LEMMA DeliverWakeupTypes ==
  ASSUME Types, StacksOK, NEW c \in Caps, NEW t \in Threads, DeliverWakeup(c, t)
  PROVE  Types' /\ StacksOK'
<1>1. UNCHANGED <<heap, bq, msg, inbox, stack, enter, block_info, home, cap, events>>
        /\ wakeups[c][t] > 0
  BY DEF DeliverWakeup
<1>2. why' \in [Threads -> {"NotBlocked", "BlockedOnBlackHole", "Finished"}]
  BY DEF DeliverWakeup, Types
<1>3. ASSUME NEW d \in Caps PROVE wakeups'[d] \in [Threads -> Nat]
  <2>1. wakeups[d] \in [Threads -> Nat] BY DEF Types
  <2>2. wakeups'[d] = [wakeups[d] EXCEPT ![t] = @ + (IF d = home[t]
          /\ d # c THEN 1 ELSE 0) - (IF d = c THEN 1 ELSE 0)]
    BY DEF DeliverWakeup
  <2>3. PICK w : w = wakeups[d][t] + (IF d = home[t]
          /\ d # c THEN 1 ELSE 0) - (IF d = c THEN 1 ELSE 0)
    OBVIOUS
  <2>4. w \in Nat BY <1>1, <2>1, <2>3
  <2>5. wakeups'[d] = [wakeups[d] EXCEPT ![t] = w] BY <2>2, <2>3
  <2> QED BY <2>1, <2>4, <2>5
<1>4. wakeups' \in [Caps -> [Threads -> Nat]]
  <2>1. wakeups' = [d \in Caps |-> wakeups'[d]] BY DEF DeliverWakeup
  <2> QED BY <1>3, <2>1
<1>5. Types' BY <1>1, <1>2, <1>4 DEF Types, heap, cap
<1>6. StacksOK' BY <1>1, NoStep DEF cap
<1> QED BY <1>5, <1>6

\* schedulePushWork keeps the types and stacks in shape.
LEMMA MigrateTypes ==
  ASSUME Types, StacksOK, NEW c \in Caps, NEW d \in Caps, NEW t \in Threads, Migrate(c, d, t)
  PROVE  Types' /\ StacksOK'
<1>1. /\ pc[c] = "sched" /\ pc[d] = "sched" /\ d # c /\ home[t] = c
      /\ home' = [home EXCEPT ![t] = d]
      /\ UNCHANGED <<heap, blocking, stack, enter, why, block_info, cap>>
  BY DEF Migrate
<1>2. home' \in [Threads -> Caps] /\ home'[t] = d /\ \A u \in Threads \ {t} : home'[u] = home[u]
  BY <1>1 DEF Types
<1>3. Types' BY <1>1, <1>2 DEF Types, heap, blocking, cap
<1>4. running[c] = NoThread /\ running[d] = NoThread BY <1>1 DEF StacksOK, CapOK
<1>5. running[c] # t /\ running[d] # t BY <1>4, Distinct
<1>6. ASSUME NEW u \in Threads PROVE ThreadOK(u)'
  <2>1. ThreadOK(u) BY DEF StacksOK
  <2>2. running'[home'[u]] # u => running[home[u]] # u BY <1>1, <1>2, <1>5 DEF cap
  <2> QED BY <1>1, <2>1, <2>2 DEF ThreadOK
<1>7. ASSUME NEW e \in Caps PROVE CapOK(e)'
  <2>1. CapOK(e) BY DEF StacksOK
  <2>2. running[e] \in Threads \cup {NoThread} BY DEF Types
  <2>3. running[e] # t BY <1>1, <1>5, <2>1, Distinct DEF CapOK
  <2>4. running[e] # NoThread => home'[running[e]] = home[running[e]] BY <1>2, <2>2, <2>3
  <2> QED BY <1>1, <2>1, <2>4 DEF CapOK, AtOK, cap
<1> QED BY <1>3, <1>6, <1>7 DEF StacksOK

\* The end of a thread keeps the types and stacks in shape.
LEMMA FinishTypes ==
  ASSUME Types, StacksOK, NEW c \in Caps, Finish(c)
  PROVE  Types' /\ StacksOK'
<1>1. PICK t : t = running[c] OBVIOUS
<1>2. pc[c] = "run" /\ UNCHANGED <<heap, blocking, stack, enter, block_info, upd, cur, home,
      events>>
  BY DEF Finish
<1>3. /\ t \in Threads /\ t # NoThread /\ StackOK(stack[t]) /\ Top(t) = stack[t][1]
      /\ 1 \in 1..Len(stack[t])
      /\ pc \in [Caps -> Places] /\ at \in [Caps -> Nat \ {0}]
  BY <1>1, <1>2, RunsOn
<1>4. stack[t][1].kind = "stop" /\ why' = [why EXCEPT ![t] = "Finished"] BY <1>1, <1>3 DEF Finish
<1>5. Parked(stack[t]) BY <1>3, <1>4 DEF Parked, StackOK
<1>6. running' = [running EXCEPT ![c] = NoThread] /\ at' = [at EXCEPT ![c] = 1]
        /\ pc' = [pc EXCEPT ![c] = "sched"]
  BY DEF Finish, LeaveThread, Goto
<1>7. /\ why' \in [Threads -> {"NotBlocked", "BlockedOnBlackHole", "Finished"}]
      /\ pc' \in [Caps -> Places] /\ at' \in [Caps -> Nat \ {0}]
      /\ running' \in [Caps -> Threads \cup {NoThread}]
  <2>1. pc' \in [Caps -> Places] /\ at' \in [Caps -> Nat \ {0}] BY <1>3, <1>6 DEF Places
  <2> QED BY <1>4, <1>6, <2>1 DEF Types
<1>8. Types' BY <1>2, <1>7 DEF Types, heap, blocking
<1>9. StacksOK' BY <1>1, <1>2, <1>3, <1>5, <1>6, LeavingStep
<1> QED BY <1>8, <1>9

\* The closures there are
Allocated == {k \in Closures : info[k] # "unallocated"}

\* A closure is above what its code needs and, or at least not below, what it points to; one
\* that does not exist points to nothing.
CodeRank(r) ==
    \A k \in Closures :
        /\ k \in Allocated => /\ \A i \in DOMAIN code[k] : code[k][i] \in Allocated
                                   /\ r[code[k][i]] < r[k]
                              /\ ind[k].to = "closure" => ind[k].id \in Allocated
                                   /\ r[ind[k].id] <= r[k]
        /\ k \notin Allocated => ind[k] = Null

\* al: the closures there are
FrameRank(r, al, s, i) ==
    /\ \A j \in DOMAIN s[i].todo : s[i].todo[j] \in al
    /\ i < Len(s) => /\ s[i].upd \in al
                     /\ \A j \in DOMAIN s[i].todo : r[s[i].todo[j]] < r[s[i].upd]
                     /\ \A j \in 1..Len(s) : i < j /\ j < Len(s) => r[s[i].upd] < r[s[j].upd]

\* A stack goes up: each frame is for a closure above those that the frames over it are for.
StackRank(r, al, s) == \A i \in 1..Len(s) : FrameRank(r, al, s, i)

\* What a thread is going to enter is below what it evaluates.
EnterRank(r, al, e, s) == e # None => e \in al /\ (Len(s) > 1 => r[e] < r[s[1].upd])

\* The AP_STACK that a thunk is updated with is not above it.
UpdRank(r, c) ==
    pc[c] \in Storing /\ upd[c].val.to = "closure" =>
        upd[c].val.id \in Allocated /\ r[upd[c].val.id] <= r[stack[running[c]][1].upd]

\* r is such an order.
RankOK(r) ==
    /\ CodeRank(r)
    /\ \A t \in Threads : StackRank(r, Allocated, stack[t])
         /\ EnterRank(r, Allocated, enter[t], stack[t])
    /\ \A c \in Caps : UpdRank(r, c)

\* There is such an order: nothing needs itself.
Ranked == \E r \in [Closures -> Nat] : RankOK(r)

\* The order of a stack does not depend on what else there is.
LEMMA MoreAllocated ==
  ASSUME NEW r, NEW al, NEW bl, al \subseteq bl, NEW s, NEW e
  PROVE  /\ StackRank(r, al, s) => StackRank(r, bl, s)
         /\ EnterRank(r, al, e, s) => EnterRank(r, bl, e, s)
BY DEF StackRank, FrameRank, EnterRank

\* What is to be shown of a step for r to be such an order after it
LEMMA RankStep ==
  ASSUME NEW r, RankOK(r), CodeRank(r)', Allocated \subseteq Allocated',
         \A u \in Threads : \/ stack'[u] = stack[u] /\ enter'[u] = enter[u]
                            \/ StackRank(r, Allocated', stack'[u])
                                 /\ EnterRank(r, Allocated', enter'[u], stack'[u]),
         \A c \in Caps : pc'[c] \in Storing =>
            \/ pc[c] \in Storing /\ upd'[c] = upd[c] /\ running'[c] = running[c]
                 /\ stack'[running[c]] = stack[running[c]]
            \/ UpdRank(r, c)'
  PROVE  RankOK(r)'
<1>1. ASSUME NEW u \in Threads, stack'[u] = stack[u], enter'[u] = enter[u]
      PROVE  StackRank(r, Allocated', stack'[u]) /\ EnterRank(r, Allocated', enter'[u], stack'[u])
  <2>1. StackRank(r, Allocated, stack[u]) /\ EnterRank(r, Allocated, enter[u], stack[u])
    BY DEF RankOK
  <2>2. StackRank(r, Allocated', stack[u]) /\ EnterRank(r, Allocated', enter[u], stack[u])
    BY <2>1, MoreAllocated
  <2> QED BY <1>1, <2>2
<1>2. ASSUME NEW c \in Caps PROVE UpdRank(r, c)'
  <2>1. CASE pc'[c] \in Storing /\ pc[c] \in Storing /\ upd'[c] = upd[c]
          /\ running'[c] = running[c] /\ stack'[running[c]] = stack[running[c]]
    <3>1. UpdRank(r, c) BY DEF RankOK
    <3> QED BY <2>1, <3>1 DEF UpdRank
  <2>2. CASE UpdRank(r, c)' BY <2>2
  <2>3. CASE pc'[c] \notin Storing BY <2>3 DEF UpdRank
  <2> QED BY <2>1, <2>2, <2>3
<1>3. \A u \in Threads : StackRank(r, Allocated', stack'[u])
        /\ EnterRank(r, Allocated', enter'[u], stack'[u])
  BY <1>1
<1> QED BY <1>2, <1>3 DEF RankOK

\* The types of all frames
LEMMA AllFrames ==
  ASSUME Types, StacksOK
  PROVE  \A t \in Threads : \A i \in 1..Len(stack[t]) : stack[t][i] \in Frames
           /\ (i < Len(stack[t]) => stack[t][i].upd \in Closures)
<1>1. ASSUME NEW t \in Threads
      PROVE  \A i \in 1..Len(stack[t]) : stack[t][i] \in Frames /\ (i < Len(stack[t])
               => stack[t][i].upd \in Closures)
  <2>1. StackOK(stack[t]) /\ \A i \in 1..Len(stack[t]) : stack[t][i] \in Frames BY StackTypes
  <2> QED BY <2>1 DEF StackOK
<1> QED BY <1>1

\* What is left to do in a frame are closures.
LEMMA TodoTypes ==
  ASSUME Types, StacksOK, NEW t \in Threads, NEW i \in 1..Len(stack[t])
  PROVE  /\ stack[t][i].todo \in Seq(Closures)
         /\ \A j \in DOMAIN stack[t][i].todo : stack[t][i].todo[j] \in Closures
<1>1. stack[t][i] \in Frames BY StackTypes
<1>2. stack[t][i].todo \in Seq(Closures) BY <1>1 DEF Frames
<1> QED BY <1>2

\* Code and indirectees stay as they are, or lose a pointer.
LEMMA CodeStep ==
  ASSUME NEW r, CodeRank(r), code' = code, Allocated' = Allocated,
         \A k \in Closures : ind'[k] = ind[k] \/ (k \in Allocated /\ ind'[k].to # "closure")
  PROVE  CodeRank(r)'
BY DEF CodeRank

\* What t enters next
LEMMA NextBelow ==
  ASSUME Types, StacksOK, NEW r \in [Closures -> Nat], RankOK(r), NEW t \in Threads, Next1(t) # None
  PROVE  /\ Next1(t) \in Closures /\ Next1(t) \in Allocated
         /\ \A i \in 1..Len(stack[t]) : i < Len(stack[t]) => r[Next1(t)] < r[stack[t][i].upd]
<1>1. /\ StackOK(stack[t]) /\ Len(stack[t]) \in Nat /\ Len(stack[t]) > 0
      /\ stack[t] \in Seq(Frames) /\ stack[t][1] \in Frames
      /\ 1 \in 1..Len(stack[t])
  BY StackTypes
<1>2. PICK k \in Closures : k = Next1(t) BY NextDoneOK
<1>3. k \in Allocated /\ (Len(stack[t]) > 1 => r[k] < r[stack[t][1].upd])
  <2>1. CASE enter[t] # None BY <1>2, <2>1 DEF Next1, RankOK, EnterRank
  <2>2. CASE enter[t] = None
    <3>1. PICK td \in Seq(Closures) : td = stack[t][1].todo BY <1>1, TodoTypes
    <3>2. Top(t) = stack[t][1] BY <1>1 DEF Top
    <3>3. td # <<>> /\ k = Head(td) BY <1>2, <2>2, <3>1, <3>2 DEF Next1
    <3>4. 1 \in DOMAIN td /\ k = td[1] BY <3>3
    <3>5. StackRank(r, Allocated, stack[t]) BY DEF RankOK
    <3> QED BY <1>1, <3>1, <3>4, <3>5 DEF StackRank, FrameRank
  <2> QED BY <2>1, <2>2
<1>4. ASSUME NEW i \in 1..Len(stack[t]), i < Len(stack[t]) PROVE r[k] < r[stack[t][i].upd]
  <2>1. Len(stack[t]) > 1 /\ r[k] < r[stack[t][1].upd] BY <1>1, <1>3, <1>4
  <2>2. CASE i = 1 BY <2>1, <2>2
  <2>3. CASE i # 1
    <3>1. r[stack[t][1].upd] < r[stack[t][i].upd]
      BY <1>1, <1>4, <2>1, <2>3 DEF RankOK, StackRank, FrameRank
    <3>2. stack[t][1].upd \in Closures /\ stack[t][i].upd \in Closures
      BY <1>1, <1>4, <2>1, AllFrames
    <3> QED BY <2>1, <3>1, <3>2
  <2> QED BY <2>2, <2>3
<1> QED BY <1>2, <1>3, <1>4

\* t has dealt with it.
LEMMA NextDoneRank ==
  ASSUME Types, StacksOK, NEW r, RankOK(r), NEW t \in Threads, Next1(t) # None, NEW s,
         s = NextDone(t)
  PROVE  StackRank(r, Allocated, s)
<1>1. SameFrames(stack[t], s) BY NextDoneOK
<1>2. StackRank(r, Allocated, stack[t]) BY DEF RankOK
<1>3. Len(s) = Len(stack[t]) /\ \A i \in 1..Len(stack[t]) : s[i].upd = stack[t][i].upd
  BY <1>1 DEF SameFrames
<1>4. ASSUME NEW i \in 1..Len(s), NEW j \in DOMAIN s[i].todo
      PROVE  (s[i].todo[j] \in Allocated) /\ (i < Len(s) => r[s[i].todo[j]] < r[s[i].upd])
  <2>1. PICK l \in DOMAIN stack[t][i].todo : s[i].todo[j] = stack[t][i].todo[l] BY <1>3, NextDoneOK
  <2> QED BY <1>2, <1>3, <2>1 DEF StackRank, FrameRank
<1> QED BY <1>2, <1>3, <1>4 DEF StackRank, FrameRank

\* A frame for a closure below the others, on top of the stack
LEMMA PushRank ==
  ASSUME NEW r, NEW al, NEW s, NEW p, NEW kind, NEW k, NEW s0, Pushed(s0, p, kind, k),
         Len(s0) \in Nat, Len(s0) > 0, Len(s) = Len(s0), \A i \in 1..Len(s0) : p[i + 1] = s[i],
         StackRank(r, al, s), k \in al, \A j \in DOMAIN p[1].todo : p[1].todo[j] \in al
           /\ r[p[1].todo[j]] < r[k],
         \A i \in 1..Len(s) : i < Len(s) => r[k] < r[s[i].upd]
  PROVE  StackRank(r, al, p)
<1>1. Len(p) = Len(s) + 1 /\ p[1].upd = k /\ Len(s) \in Nat /\ Len(s) > 0 BY DEF Pushed
<1>2. ASSUME NEW i \in 1..Len(p), i # 1 PROVE \E j \in 1..Len(s) : j = i - 1 /\ p[i] = s[j]
  <2>1. PICK j : j = i - 1 OBVIOUS
  <2>2. j \in 1..Len(s) /\ i = j + 1 BY <1>1, <1>2, <2>1
  <2> QED BY <2>1, <2>2
<1> SUFFICES ASSUME NEW i \in 1..Len(p) PROVE FrameRank(r, al, p, i) BY DEF StackRank
<1>3. CASE i = 1
  <2>1. ASSUME NEW j \in 1..Len(p), i < j, j < Len(p) PROVE r[p[i].upd] < r[p[j].upd]
    <3>1. PICK b \in 1..Len(s) : b = j - 1 /\ p[j] = s[b] BY <1>2, <1>3, <2>1
    <3>2. b < Len(s) BY <1>1, <2>1, <3>1
    <3> QED BY <1>1, <1>3, <3>1, <3>2
  <2> QED BY <1>1, <1>3, <2>1 DEF FrameRank
<1>4. CASE i # 1
  <2>1. PICK a \in 1..Len(s) : a = i - 1 /\ p[i] = s[a] BY <1>2, <1>4
  <2>2. ASSUME NEW j \in 1..Len(p), i < j, j < Len(p) PROVE r[p[i].upd] < r[p[j].upd]
    <3>1. PICK b \in 1..Len(s) : b = j - 1 /\ p[j] = s[b] BY <1>2, <1>4, <2>2
    <3>2. b < Len(s) /\ a < b /\ a < Len(s) BY <1>1, <2>1, <2>2, <3>1
    <3> QED BY <2>1, <3>1, <3>2 DEF StackRank, FrameRank
  <2>3. i < Len(p) => a < Len(s) BY <1>1, <2>1
  <2> QED BY <2>1, <2>2, <2>3 DEF StackRank, FrameRank
<1> QED BY <1>3, <1>4

\* A stack without its top frame goes up.
LEMMA PopRank ==
  ASSUME NEW r, NEW al, NEW s, NEW p, Popped(s, p), Len(s) \in Nat, Len(s) > 1, StackRank(r, al, s)
  PROVE  StackRank(r, al, p)
<1>1. Len(p) = Len(s) - 1 /\ Len(p) \in Nat BY DEF Popped
<1>2. ASSUME NEW i \in 1..Len(p)
      PROVE  i + 1 \in 1..Len(s) /\ p[i] = s[i + 1] /\ (i < Len(p) <=> i + 1 < Len(s))
  BY <1>1, <1>2 DEF Popped
<1> SUFFICES ASSUME NEW i \in 1..Len(p) PROVE FrameRank(r, al, p, i) BY DEF StackRank
<1>3. PICK a \in 1..Len(s) : a = i + 1 /\ p[i] = s[a] /\ (i < Len(p) <=> a < Len(s)) BY <1>2
<1>4. ASSUME NEW j \in 1..Len(p), i < j, j < Len(p) PROVE r[p[i].upd] < r[p[j].upd]
  <2>1. PICK b \in 1..Len(s) : b = j + 1 /\ p[j] = s[b] /\ b < Len(s) BY <1>2, <1>4
  <2>2. a < b BY <1>3, <1>4, <2>1
  <2>3. a < Len(s) BY <1>1, <1>3, <1>4
  <2> QED BY <1>3, <2>1, <2>2, <2>3 DEF StackRank, FrameRank
<1> QED BY <1>3, <1>4 DEF StackRank, FrameRank

\* A stack with one more frame marked goes up.
LEMMA MarkRank ==
  ASSUME NEW r, NEW al, NEW s, NEW p, NEW n, Marked(s, p, n), StackRank(r, al, s)
  PROVE  StackRank(r, al, p)
<1>1. Len(p) = Len(s) /\ \A i \in 1..Len(s) : p[i].upd = s[i].upd /\ p[i].todo = s[i].todo
  BY DEF Marked
<1> QED BY <1>1 DEF StackRank, FrameRank

\* Nothing happens to code and stacks.
LEMMA RankQuiet ==
  ASSUME NEW r, RankOK(r), UNCHANGED <<code, stack, enter>>, Allocated' = Allocated,
         \A k \in Closures : ind'[k] = ind[k] \/ (k \in Allocated /\ ind'[k].to # "closure"),
         \A c \in Caps : pc'[c] \in Storing =>
            \/ pc[c] \in Storing /\ upd'[c] = upd[c] /\ running'[c] = running[c]
            \/ upd'[c].val.to # "closure"
  PROVE  RankOK(r)'
<1>1. CodeRank(r)' BY CodeStep DEF RankOK
<1>2. \A c \in Caps : pc'[c] \in Storing =>
            \/ pc[c] \in Storing /\ upd'[c] = upd[c] /\ running'[c] = running[c]
                 /\ stack'[running[c]] = stack[running[c]]
            \/ UpdRank(r, c)'
  BY DEF UpdRank
<1>3. Allocated \subseteq Allocated' OBVIOUS
<1>4. \A u \in Threads : stack'[u] = stack[u] /\ enter'[u] = enter[u] OBVIOUS
<1> QED BY <1>1, <1>2, <1>3, <1>4, RankStep

\* One thread's stack changes, while its capability does not update.
LEMMA RankThread ==
  ASSUME Types, StacksOK, NEW r, RankOK(r), NEW c \in Caps, NEW t \in Threads, running[c] = t,
         UNCHANGED code,
         Allocated' = Allocated,
         \A k \in Closures : ind'[k] = ind[k] \/ (k \in Allocated /\ ind'[k].to # "closure"),
         \A u \in Threads \ {t} : stack'[u] = stack[u] /\ enter'[u] = enter[u],
         StackRank(r, Allocated, stack'[t]), EnterRank(r, Allocated, enter'[t], stack'[t]),
         pc'[c] \notin Storing,
         \A d \in Caps \ {c} : pc'[d] = pc[d] /\ upd'[d] = upd[d] /\ running'[d] = running[d]
  PROVE  RankOK(r)'
<1>1. CodeRank(r)' BY CodeStep DEF RankOK
<1>2. ASSUME NEW d \in Caps, pc'[d] \in Storing
      PROVE  pc[d] \in Storing /\ upd'[d] = upd[d] /\ running'[d] = running[d]
               /\ stack'[running[d]] = stack[running[d]]
  <2>1. d # c BY <1>2
  <2>2. pc[d] \in Storing /\ upd'[d] = upd[d] /\ running'[d] = running[d] BY <1>2, <2>1
  <2>3. running[d] \in Threads /\ running[d] # NoThread BY <2>2, RunsAt DEF Storing
  <2>4. running[d] # t
    <3>1. running[c] # NoThread BY Distinct
    <3> QED BY <2>1, <3>1, RunsItsThread
  <2> QED BY <2>2, <2>3, <2>4
<1>3. Allocated \subseteq Allocated' OBVIOUS
<1>4. \A u \in Threads : \/ stack'[u] = stack[u] /\ enter'[u] = enter[u]
                         \/ StackRank(r, Allocated', stack'[u])
                              /\ EnterRank(r, Allocated', enter'[u], stack'[u])
  OBVIOUS
<1> QED BY <1>1, <1>2, <1>3, <1>4, RankStep

\* Nothing is allocated when an info pointer is stored.
LEMMA StillAllocated ==
  ASSUME Types, NEW k \in Allocated, NEW i, i # "unallocated", info' = [info EXCEPT ![k] = i]
  PROVE  Allocated' = Allocated
BY DEF Types, Allocated

\* The entry of a thunk or an AP_STACK keeps the closures in order.
LEMMA EnterThunkRank ==
  ASSUME Types, StacksOK, NEW r \in [Closures -> Nat], RankOK(r), NEW c \in Caps, NEW t,
         t = running[c],
         NEW k, k = Next1(t), k # None, pc[c] = "run",
         EnterThunk(c, t, k) \/ EnterAPStack(c, t, k),
         UNCHANGED <<blocking, why, block_info, at, cur, ind, code, running, upd, home, events>>
  PROVE  RankOK(r)'
<1>1. /\ t \in Threads /\ t # NoThread /\ StackOK(stack[t]) /\ stack \in [Threads -> Seq(Frames)]
      /\ Len(stack[t]) \in Nat /\ Len(stack[t]) > 0 /\ pc \in [Caps -> Places]
  BY RunsOn
<1>2. PICK kind \in {"upd", "bh"} : \E p \in Seq(Frames) : Enters(c, t, k, kind, p)
  BY EnterThunkDoes
<1>3. PICK p \in Seq(Frames) : Enters(c, t, k, kind, p) BY <1>2
<1>4. PICK s : s = NextDone(t) OBVIOUS
<1>5. SameFrames(stack[t], s) BY <1>1, <1>4, NextDoneOK
<1>6. k \in Closures /\ k \in Allocated BY <1>3 DEF Allocated, Enters
<1>7. Allocated' = Allocated
  <2>1. CASE info[k] = "THUNK" BY <1>3, <2>1 DEF Enters, Allocated
  <2>2. CASE info[k] = "AP_STACK"
    <3>1. info' = [info EXCEPT ![k] = "WHITEHOLE"] BY <1>3, <2>2 DEF Enters
    <3> QED BY <1>6, <3>1, StillAllocated
  <2> QED BY <1>3, <2>1, <2>2 DEF Enters
<1>8. StackRank(r, Allocated, s) BY <1>1, <1>4, NextDoneRank
<1>9. \A i \in 1..Len(s) : i < Len(s) => r[k] < r[s[i].upd]
  <2>1. \A i \in 1..Len(stack[t]) : i < Len(stack[t]) => r[k] < r[stack[t][i].upd]
    BY <1>1, NextBelow
  <2> QED BY <1>5, <2>1 DEF SameFrames
<1>10. \A j \in DOMAIN p[1].todo : p[1].todo[j] \in Allocated /\ r[p[1].todo[j]] < r[k]
   BY <1>3, <1>6 DEF Enters, RankOK, CodeRank
<1>11. StackRank(r, Allocated, p)
  <2>1. Len(s) = Len(stack[t]) /\ \A i \in 1..Len(stack[t]) : p[i + 1] = s[i]
    BY <1>3, <1>4, <1>5 DEF SameFrames, Enters
  <2>2. Pushed(stack[t], p, kind, k) BY <1>3 DEF Enters
  <2>3. PICK s0 : s0 = stack[t] OBVIOUS
  <2>4. Pushed(s0, p, kind, k) /\ Len(s0) \in Nat /\ Len(s0) > 0 /\ Len(s) = Len(s0)
          /\ \A i \in 1..Len(s0) : p[i + 1] = s[i]
    BY <1>1, <2>1, <2>2, <2>3
  <2> QED BY <1>6, <1>8, <1>9, <1>10, <2>4, PushRank
<1>12. stack'[t] = p /\ enter'[t] = None /\ pc'[c] \notin Storing
  BY <1>1, <1>3 DEF Enters, Storing, Types
<1>13. /\ \A u \in Threads \ {t} : stack'[u] = stack[u] /\ enter'[u] = enter[u]
       /\ \A d \in Caps \ {c} : pc'[d] = pc[d] /\ upd'[d] = upd[d] /\ running'[d] = running[d]
  BY <1>1, <1>3 DEF Enters, Types
<1>14. EnterRank(r, Allocated, enter'[t], stack'[t]) BY <1>12 DEF EnterRank
<1> QED BY <1>1, <1>7, <1>11, <1>12, <1>13, <1>14, RankThread

\* The entry of an indirection keeps the closures in order.
LEMMA EnterIndirectionRank ==
  ASSUME Types, StacksOK, NEW r \in [Closures -> Nat], RankOK(r), NEW c \in Caps, NEW t,
         t = running[c],
         NEW k, k = Next1(t), k # None, pc[c] = "run",
         EnterIndirection(c, t, k),
         UNCHANGED <<blocking, why, block_info, at, cur, ind, code, running, upd, home, events>>
  PROVE  RankOK(r)'
<1>1. /\ t \in Threads /\ t # NoThread /\ stack \in [Threads -> Seq(Frames)]
      /\ Len(stack[t]) \in Nat /\ Len(stack[t]) > 0 /\ 1 \in 1..Len(stack[t])
  BY RunsOn
<1>2. PICK s : s = NextDone(t) OBVIOUS
<1>3. PICK e \in Closures \cup {None} :
            /\ k \in Closures /\ info[k] = "BLACKHOLE"
            /\ SameFrames(stack[t], s) /\ stack' = [stack EXCEPT ![t] = s]
            /\ enter' = [enter EXCEPT ![t] = e] /\ (e # None => ind[k].to = "closure"
                 /\ e = ind[k].id)
            /\ info' = info /\ pc' = pc
  BY <1>2, EnterIndirectionDoes
<1>4. stack'[t] = s /\ enter'[t] = e /\ Allocated' = Allocated /\ k \in Allocated
  BY <1>1, <1>3 DEF Types, Allocated
<1>5. StackRank(r, Allocated, stack'[t]) BY <1>1, <1>2, <1>4, NextDoneRank
<1>6. EnterRank(r, Allocated, enter'[t], stack'[t])
  <2> SUFFICES ASSUME e # None PROVE e \in Allocated /\ (Len(s) > 1 => r[e] < r[s[1].upd])
    BY <1>4 DEF EnterRank
  <2>1. e \in Allocated /\ r[e] <= r[k] /\ e \in Closures
    BY <1>3, <1>4 DEF RankOK, CodeRank, Allocated
  <2>2. Len(stack[t]) > 1 => r[k] < r[stack[t][1].upd] BY <1>1, <1>3, NextBelow
  <2>3. Len(s) = Len(stack[t]) /\ s[1].upd = stack[t][1].upd BY <1>1, <1>3 DEF SameFrames
  <2>4. Len(stack[t]) > 1 => stack[t][1].upd \in Closures BY <1>1, AllFrames
  <2> QED BY <1>3, <2>1, <2>2, <2>3, <2>4
<1>7. pc'[c] \notin Storing /\ \A u \in Threads \ {t} : stack'[u] = stack[u] /\ enter'[u] = enter[u]
  BY <1>1, <1>3 DEF Storing, Types
<1> QED BY <1>1, <1>3, <1>4, <1>5, <1>6, <1>7, RankThread

\* stg_BLACKHOLE, entered by a thread, keeps the closures in order.
LEMMA EnterBlackHoleRank ==
  ASSUME Types, StacksOK, NEW r \in [Closures -> Nat], RankOK(r), NEW c \in Caps, NEW t,
         t = running[c],
         NEW k, k = Next1(t), k # None, pc[c] = "run",
         EnterBlackHole(c, t, k), UNCHANGED <<ind, code, running, upd, home, events>>
  PROVE  RankOK(r)'
<1>1. /\ t \in Threads /\ t # NoThread /\ stack \in [Threads -> Seq(Frames)]
      /\ Len(stack[t]) \in Nat /\ Len(stack[t]) > 0 /\ 1 \in 1..Len(stack[t])
      /\ pc \in [Caps -> Places]
  BY RunsOn
<1>2. PICK s : s = NextDone(t) OBVIOUS
<1>3. k \in Closures BY <1>1, NextDoneOK
<1>4. /\ SameFrames(stack[t], s) /\ stack' = [stack EXCEPT ![t] = s]
      /\ enter' = [enter EXCEPT ![t] = k] /\ stack'[t] = s
  BY <1>1, <1>2, <1>3, LaterDoes DEF EnterBlackHole
<1>5. info' = info BY DEF EnterBlackHole
<1>6. enter'[t] = k /\ Allocated' = Allocated BY <1>1, <1>4, <1>5 DEF Types, Allocated
<1>7. StackRank(r, Allocated, stack'[t]) BY <1>1, <1>2, <1>4, NextDoneRank
<1>8. EnterRank(r, Allocated, enter'[t], stack'[t])
  <2>1. k \in Allocated /\ (Len(stack[t]) > 1 => r[k] < r[stack[t][1].upd]) BY <1>1, NextBelow
  <2>2. Len(s) = Len(stack[t]) /\ s[1].upd = stack[t][1].upd BY <1>1, <1>4 DEF SameFrames
  <2> QED BY <1>4, <1>6, <2>1, <2>2 DEF EnterRank
<1>9. PICK l : pc' = [pc EXCEPT ![c] = l] /\ (l = "queue"
        \/ l = (IF running[c] = NoThread THEN "sched" ELSE "pause"))
  <2>1. PICK m \in Msgs : m = First(FreeMsgs) BY FreeMsg DEF EnterBlackHole
  <2>2. MessageBlackHole(c, m, t, k) BY <2>1 DEF EnterBlackHole
  <2> QED BY <1>3, <2>2, MessageTypes
<1>10. pc'[c] \notin Storing /\ \A d \in Caps \ {c} : pc'[d] = pc[d] BY <1>1, <1>9 DEF Storing
<1>11. \A u \in Threads \ {t} : stack'[u] = stack[u] /\ enter'[u] = enter[u] BY <1>4 DEF Types
<1> QED BY <1>1, <1>6, <1>7, <1>8, <1>10, <1>11, RankThread

\* The closure that a frame updates is there.
LEMMA UpdAllocated ==
  ASSUME Types, StacksOK, NEW r, RankOK(r), NEW t \in Threads, NEW i \in 1..Len(stack[t]),
         stack[t][i].kind # "stop"
  PROVE  stack[t][i].upd \in Allocated
<1>1. StackOK(stack[t]) BY StackTypes
<1>2. i < Len(stack[t]) BY <1>1, FrameUpd
<1> QED BY <1>2 DEF RankOK, StackRank, FrameRank

\* A thread that has popped a frame may enter what was above nothing but it.
LEMMA PopEnterRank ==
  ASSUME Types, StacksOK, NEW r \in [Closures -> Nat], NEW t \in Threads, StackRank(r, Allocated,
         stack[t]), Len(stack[t]) > 1,
         NEW p, Popped(stack[t], p), NEW e \in Closures, e \in Allocated, r[e] <= r[stack[t][1].upd]
  PROVE  EnterRank(r, Allocated, e, p)
<1> SUFFICES ASSUME Len(p) > 1 PROVE r[e] < r[p[1].upd] BY DEF EnterRank
<1>1. Len(stack[t]) \in Nat BY StackTypes
<1>2. Len(p) = Len(stack[t]) - 1 /\ p[1] = stack[t][2] /\ 2 < Len(stack[t]) BY <1>1 DEF Popped
<1>3. 1 \in 1..Len(stack[t]) /\ 2 \in 1..Len(stack[t]) /\ 1 < Len(stack[t]) BY <1>1, <1>2
<1>4. stack[t][1].upd \in Closures /\ stack[t][2].upd \in Closures BY <1>2, <1>3, AllFrames
<1>5. r[stack[t][1].upd] < r[stack[t][2].upd] BY <1>2, <1>3 DEF StackRank, FrameRank
<1> QED BY <1>2, <1>4, <1>5

\* The store of the thread into a closure that it claims keeps the closures in order.
LEMMA ClaimIndirecteeRank ==
  ASSUME Types, StacksOK, NEW r, RankOK(r), NEW c \in Caps, ClaimIndirectee(c)
  PROVE  RankOK(r)'
<1>1. /\ pc[c] = "claim_ind" /\ pc' = [pc EXCEPT ![c] = "claim_info"]
      /\ UNCHANGED <<info, code, blocking, thread, running, at, upd, cur, events>>
      /\ ind' = [ind EXCEPT ![stack[running[c]][at[c]].upd] = TSO(running[c])]
  BY DEF ClaimIndirectee, Goto
<1>2. PICK t : t = running[c] OBVIOUS
<1>3. t \in Threads /\ AtOK(c, stack[t], at[c]) /\ at[c] \in 1..Len(stack[t]) BY <1>1, <1>2, RunsOn
<1>4. stack[t][at[c]].kind # "stop" BY <1>1, <1>3 DEF AtOK, Claiming
<1>5. stack[t][at[c]].upd \in Allocated BY <1>3, <1>4, UpdAllocated
<1>6. \A k \in Closures : ind'[k] = ind[k] \/ (k \in Allocated /\ ind'[k].to # "closure")
  BY <1>1, <1>2, <1>5, PointerTags DEF Types
<1>7. \A d \in Caps : pc'[d] \in Storing => pc[d] \in Storing BY <1>1 DEF Types, Storing
<1>8. Allocated' = Allocated BY <1>1 DEF Allocated
<1>9. stack' = stack /\ enter' = enter /\ code' = code /\ upd' = upd /\ running' = running
  BY <1>1 DEF thread
<1> QED BY <1>6, <1>7, <1>8, <1>9, RankQuiet

\* The store of the info pointer of a claimed closure keeps the closures in order.
LEMMA ClaimInfoRank ==
  ASSUME Types, StacksOK, NEW r, RankOK(r), NEW c \in Caps, ClaimInfo(c)
  PROVE  RankOK(r)'
<1>1. /\ pc[c] = "claim_info"
      /\ UNCHANGED <<ind, code, blocking, thread, running, upd, cur, events>>
      /\ info' = [info EXCEPT ![stack[running[c]][at[c]].upd] = "BLACKHOLE"]
      /\ pc' = [pc EXCEPT ![c] = "pause"] \/ pc' = [pc EXCEPT ![c] = "run"]
  BY DEF ClaimInfo, Goto
<1>2. PICK t : t = running[c] OBVIOUS
<1>3. t \in Threads /\ AtOK(c, stack[t], at[c]) /\ at[c] \in 1..Len(stack[t]) BY <1>1, <1>2, RunsOn
<1>4. stack[t][at[c]].kind # "stop" BY <1>1, <1>3 DEF AtOK, Claiming
<1>5. stack[t][at[c]].upd \in Allocated BY <1>3, <1>4, UpdAllocated
<1>6. Allocated' = Allocated BY <1>1, <1>2, <1>5, StillAllocated
<1>7. \A d \in Caps : pc'[d] \in Storing => pc[d] \in Storing BY <1>1 DEF Types, Storing
<1>8. stack' = stack /\ enter' = enter /\ code' = code /\ upd' = upd /\ running' = running
        /\ ind' = ind
  BY <1>1 DEF thread
<1> QED BY <1>6, <1>7, <1>8, RankQuiet

\* The return to an update frame keeps the closures in order.
LEMMA ReturnRank ==
  ASSUME Types, StacksOK, NEW r \in [Closures -> Nat], RankOK(r), NEW c \in Caps, Return(c)
  PROVE  RankOK(r)'
<1>1. PICK t : t = running[c] OBVIOUS
<1>2. /\ t \in Threads /\ pc[c] = "run" /\ Len(stack[t]) > 1
      /\ stack[t][1].kind # "stop"
      /\ UNCHANGED <<info, code, enter, block_info, running, at, cur, home, events>>
      /\ ReturnPlain(c, t) \/ ReturnDiscard(c, t) \/ ReturnClaimed(c, t)
  BY <1>1, ReturnDoes
<1>3. Len(stack[t]) \in Nat /\ 1 \in 1..Len(stack[t]) BY <1>2, StackTypes
<1>4. Allocated' = Allocated BY <1>2 DEF Allocated
<1>5. CASE ReturnPlain(c, t)
  <2>1. /\ ind' = [ind EXCEPT ![stack[t][1].upd] = Value]
        /\ upd' = [upd EXCEPT ![c] = Update(Value, TSO(t))]
        /\ pc' = [pc EXCEPT ![c] = "store_info"]
        /\ stack' = stack
    BY <1>5 DEF ReturnPlain
  <2>2. stack[t][1].upd \in Allocated BY <1>2, <1>3, UpdAllocated
  <2>3. \A k \in Closures : ind'[k] = ind[k] \/ (k \in Allocated /\ ind'[k].to # "closure")
    BY <2>1, <2>2, PointerTags DEF Types
  <2>4. upd'[c].val.to # "closure" /\ \A d \in Caps \ {c} : upd'[d] = upd[d]
    <3>1. TSO(t) \in Pointers /\ Value \in Pointers BY <1>2, PointerKinds
    <3>2. PICK p \in Pointers : p = TSO(t) BY <3>1
    <3>3. upd' = [upd EXCEPT ![c] = Update(Value, p)] BY <2>1, <3>2
    <3>4. upd'[c].val = Value /\ \A d \in Caps \ {c} : upd'[d] = upd[d] BY <3>1, <3>3, UpdTypes
    <3> QED BY <3>4, PointerTags
  <2>5. \A d \in Caps : pc'[d] \in Storing =>
            \/ pc[d] \in Storing /\ upd'[d] = upd[d] /\ running'[d] = running[d]
            \/ upd'[d].val.to # "closure"
    BY <1>2, <2>1, <2>4 DEF Types
  <2> QED BY <1>2, <1>4, <2>1, <2>3, <2>5, RankQuiet
<1>6. CASE ReturnDiscard(c, t)
  <2>1. PICK p : p = Tail(stack[t]) OBVIOUS
  <2>2. Popped(stack[t], p) /\ stack' = [stack EXCEPT ![t] = p] /\ ind' = ind /\ upd' = upd
          /\ pc' = pc
    BY <1>6, <2>1 DEF ReturnDiscard
  <2>3. StackRank(r, Allocated, stack[t]) BY <1>2 DEF RankOK
  <2>4. StackRank(r, Allocated, p) BY <1>2, <1>3, <2>2, <2>3, PopRank
  <2>5. stack'[t] = p /\ \A u \in Threads \ {t} : stack'[u] = stack[u] BY <1>2, <2>2 DEF Types
  <2>6. EnterRank(r, Allocated, enter'[t], stack'[t])
    <3>1. Next1(t) = None BY <1>1 DEF Return
    <3>2. enter[t] = None BY <3>1 DEF Next1
    <3> QED BY <1>2, <3>2 DEF EnterRank
  <2>7. pc'[c] \notin Storing BY <1>2, <2>2 DEF Storing
  <2> QED BY <1>1, <1>2, <1>4, <2>2, <2>4, <2>5, <2>6, <2>7, RankThread
<1>7. CASE ReturnClaimed(c, t)
  <2>1. /\ upd' = [upd EXCEPT ![c] = Update(Value, ind[stack[t][1].upd])]
        /\ pc' = [pc EXCEPT ![c] = "store_ind"]
        /\ ind' = ind /\ stack' = stack
    BY <1>7 DEF ReturnClaimed
  <2>2. upd'[c].val.to # "closure" /\ \A d \in Caps \ {c} : upd'[d] = upd[d]
    <3>1. stack[t][1].upd \in Closures BY <1>1, ReturnDoes
    <3>2. ind[stack[t][1].upd] \in Pointers /\ Value \in Pointers BY <3>1, PointerKinds DEF Types
    <3>3. PICK p \in Pointers : p = ind[stack[t][1].upd] BY <3>2
    <3>4. upd' = [upd EXCEPT ![c] = Update(Value, p)] BY <2>1, <3>3
    <3>5. upd'[c].val = Value /\ \A d \in Caps \ {c} : upd'[d] = upd[d] BY <3>2, <3>4, UpdTypes
    <3> QED BY <3>5, PointerTags
  <2>3. \A d \in Caps : pc'[d] \in Storing =>
            \/ pc[d] \in Storing /\ upd'[d] = upd[d] /\ running'[d] = running[d]
            \/ upd'[d].val.to # "closure"
    BY <1>2, <2>1, <2>2 DEF Types
  <2> QED BY <1>2, <1>4, <2>1, <2>3, RankQuiet
<1> QED BY <1>2, <1>5, <1>6, <1>7

\* updateThunk's store of the indirectee keeps the closures in order.
LEMMA StoreIndirecteeRank ==
  ASSUME Types, StacksOK, NEW r, RankOK(r), NEW c \in Caps, StoreIndirectee(c)
  PROVE  RankOK(r)'
<1>1. PICK t : t = running[c] OBVIOUS
<1>2. /\ pc[c] = "store_ind" /\ pc' = [pc EXCEPT ![c] = "store_info"]
      /\ UNCHANGED <<info, code, blocking, thread, running, at, upd, cur, events>>
      /\ ind' = [ind EXCEPT ![Top(t).upd] = upd[c].val]
  BY <1>1 DEF StoreIndirectee, Goto
<1>3. t \in Threads /\ AtOK(c, stack[t], at[c]) /\ Top(t) = stack[t][1] /\ 1 \in 1..Len(stack[t])
  BY <1>1, <1>2, RunsOn
<1>4. stack[t][1].kind # "stop" BY <1>2, <1>3 DEF AtOK, Storing
<1>5. PICK k : k = stack[t][1].upd OBVIOUS
<1>6. k \in Allocated /\ k \in Closures BY <1>3, <1>4, <1>5, UpdAllocated DEF Allocated
<1>7. ind' = [ind EXCEPT ![k] = upd[c].val] BY <1>2, <1>3, <1>5
<1>8. Allocated' = Allocated BY <1>2 DEF Allocated
<1>9. CodeRank(r)'
  <2>1. CodeRank(r) BY DEF RankOK
  <2>2. upd[c].val.to = "closure" => upd[c].val.id \in Allocated /\ r[upd[c].val.id] <= r[k]
    <3>1. UpdRank(r, c) BY DEF RankOK
    <3> QED BY <1>1, <1>2, <1>5, <3>1 DEF UpdRank, Storing
  <2>3. ind'[k] = upd[c].val /\ \A x \in Closures : x # k => ind'[x] = ind[x]
    BY <1>6, <1>7 DEF Types
  <2> QED BY <1>2, <1>6, <1>8, <2>1, <2>2, <2>3 DEF CodeRank
<1>10. \A d \in Caps : pc'[d] \in Storing => pc[d] \in Storing BY <1>2 DEF Types, Storing
<1>11. stack' = stack /\ enter' = enter /\ upd' = upd /\ running' = running BY <1>2 DEF thread
<1> QED BY <1>8, <1>9, <1>10, <1>11, RankStep

\* updateThunk's store of the info pointer, with its wakeups, keeps the closures in order.
LEMMA StoreInfoRank ==
  ASSUME Types, StacksOK, NEW r \in [Closures -> Nat], RankOK(r), NEW c \in Caps, StoreInfo(c)
  PROVE  RankOK(r)'
<1>1. PICK t : t = running[c] OBVIOUS
<1>2. StoreInfoDone(c, t) /\ (StoreInfoValue(c, t) \/ StoreInfoFrozen(c, t)) BY <1>1, StoreInfoDoes
<1>3. PICK p : p = Tail(stack[t]) OBVIOUS
<1>4. /\ t \in Threads /\ running[c] = t /\ pc[c] = "store_info"
      /\ stack[t][1].kind # "stop" /\ stack[t][1].upd \in Closures /\ Len(stack[t]) > 1
      /\ Popped(stack[t], p) /\ stack' = [stack EXCEPT ![t] = p]
      /\ info' = [info EXCEPT ![stack[t][1].upd] = "BLACKHOLE"]
      /\ upd' = [upd EXCEPT ![c] = NoUpdate]
      /\ UNCHANGED <<ind, code, msg, inbox, block_info, running, cur, home, events>>
  BY <1>2, <1>3 DEF StoreInfoDone
<1>5. Len(stack[t]) \in Nat /\ 1 \in 1..Len(stack[t]) BY <1>4, StackTypes
<1>6. stack[t][1].upd \in Allocated BY <1>4, <1>5, UpdAllocated
<1>7. Allocated' = Allocated BY <1>4, <1>6, StillAllocated
<1>8. StackRank(r, Allocated, stack[t]) BY <1>4 DEF RankOK
<1>9. StackRank(r, Allocated, p) BY <1>4, <1>5, <1>8, PopRank
<1>10. stack'[t] = p /\ (\A u \in Threads \ {t} : stack'[u] = stack[u])
         /\ (\A d \in Caps \ {c} : upd'[d] = upd[d])
  BY <1>4 DEF Types
<1>11. CASE StoreInfoValue(c, t)
  <2>1. pc' = [pc EXCEPT ![c] = "run"] /\ enter' = enter BY <1>11 DEF StoreInfoValue
  <2>2. EnterRank(r, Allocated, enter'[t], stack'[t])
    <3>1. CASE enter[t] = None BY <2>1, <3>1 DEF EnterRank
    <3>2. CASE enter[t] # None
      <4>1. PICK e \in Closures : e = enter[t] BY <1>4, <3>2 DEF Types
      <4>2. EnterRank(r, Allocated, e, stack[t]) BY <1>4, <4>1 DEF RankOK
      <4>3. e # None BY Distinct
      <4>4. e \in Allocated /\ r[e] < r[stack[t][1].upd] BY <1>4, <4>2, <4>3 DEF EnterRank
      <4>5. r[e] <= r[stack[t][1].upd] BY <1>4, <4>4
      <4> QED BY <1>4, <1>8, <1>10, <2>1, <4>1, <4>4, <4>5, PopEnterRank
    <3> QED BY <3>1, <3>2
  <2>3. pc'[c] \notin Storing /\ \A d \in Caps \ {c} : pc'[d] = pc[d] BY <2>1 DEF Types, Storing
  <2> QED BY <1>4, <1>7, <1>9, <1>10, <2>1, <2>2, <2>3, RankThread
<1>12. CASE StoreInfoFrozen(c, t)
  <2>1. /\ pc' = [pc EXCEPT ![c] = "freeze"] /\ upd[c].val.to = "closure" /\ upd[c].val.id \in APs
        /\ enter' = [enter EXCEPT ![t] = upd[c].val.id]
    BY <1>12 DEF StoreInfoFrozen
  <2>2. PICK e \in Closures : e = upd[c].val.id BY <2>1, Distinct
  <2>3. e \in Allocated /\ r[e] <= r[stack[t][1].upd]
    <3>1. UpdRank(r, c) BY DEF RankOK
    <3> QED BY <1>4, <2>1, <2>2, <3>1 DEF UpdRank, Storing
  <2>4. EnterRank(r, Allocated, e, p) BY <1>4, <1>8, <2>3, PopEnterRank
  <2>5. enter'[t] = e /\ \A u \in Threads \ {t} : enter'[u] = enter[u] BY <1>4, <2>1, <2>2 DEF Types
  <2>6. pc'[c] \notin Storing /\ \A d \in Caps \ {c} : pc'[d] = pc[d] BY <2>1 DEF Types, Storing
  <2> QED BY <1>4, <1>7, <1>9, <1>10, <2>4, <2>5, <2>6, RankThread
<1> QED BY <1>2, <1>11, <1>12

\* A step of threadPaused keeps the closures in order.
LEMMA PauseFrameRank ==
  ASSUME Types, StacksOK, NEW r, RankOK(r), NEW c \in Caps, PauseFrame(c)
  PROVE  RankOK(r)'
<1>1. PICK t : t = running[c] OBVIOUS
<1>2. PICK n : n = at[c] OBVIOUS
<1>3. PauseAny(c, t, n) /\ (PauseEnd(c, t, n) \/ PauseFreeze(c, t, n) \/ PauseOwn(c, t, n)
        \/ PauseClaim(c, t, n))
  BY <1>1, <1>2, PauseDoes
<1>4. /\ t \in Threads /\ running[c] = t /\ pc[c] = "pause" /\ n \in 1..Len(stack[t])
      /\ UNCHANGED <<ind, code, blocking, enter, why, block_info, upd, cur, home, events>>
  BY <1>3 DEF PauseAny
<1>5. CASE PauseEnd(c, t, n) \/ PauseFreeze(c, t, n)
  <2>1. UNCHANGED <<info, stack>> /\ (pc' = [pc EXCEPT ![c] = "sched"]
          \/ pc' = [pc EXCEPT ![c] = "freeze"])
        /\ (running' = [running EXCEPT ![c] = NoThread] \/ running' = running)
    BY <1>5 DEF PauseEnd, PauseFreeze
  <2>2. \A d \in Caps : pc'[d] \in Storing => pc[d] \in Storing /\ d # c /\ running'[d] = running[d]
    BY <2>1 DEF Types, Storing
  <2>3. Allocated' = Allocated BY <2>1 DEF Allocated
  <2> QED BY <1>4, <2>1, <2>2, <2>3, RankQuiet
<1>6. CASE PauseOwn(c, t, n) \/ PauseClaim(c, t, n)
  <2>1. PICK p : p = [stack[t] EXCEPT ![n].kind = "marked"] OBVIOUS
  <2>2. stack' = [stack EXCEPT ![t] = p] /\ running' = running /\ (pc' = pc
          \/ pc' = [pc EXCEPT ![c] = "claim_ind"])
        /\ (info' = info \/ info' = [info EXCEPT ![stack[t][n].upd] = "WHITEHOLE"])
             /\ stack[t][n].kind # "stop"
    BY <1>6, <2>1 DEF PauseOwn, PauseClaim
  <2>3. StackOK(stack[t]) /\ 1 \in 1..Len(stack[t]) BY <1>4, StackTypes
  <2>4. Marked(stack[t], p, n) BY <1>4, <2>1, <2>3, MarkOK
  <2>5. stack[t][n].upd \in Allocated BY <1>4, <2>2, UpdAllocated
  <2>6. Allocated' = Allocated
    <3>1. CASE info' = info BY <3>1 DEF Allocated
    <3>2. CASE info' = [info EXCEPT ![stack[t][n].upd] = "WHITEHOLE"] BY <2>5, <3>2, StillAllocated
    <3> QED BY <2>2, <3>1, <3>2
  <2>7. StackRank(r, Allocated, stack[t]) /\ EnterRank(r, Allocated, enter[t], stack[t])
    BY <1>4 DEF RankOK
  <2>8. StackRank(r, Allocated, p) BY <2>4, <2>7, MarkRank
  <2>9. EnterRank(r, Allocated, enter[t], p)
    <3>1. Len(p) = Len(stack[t]) /\ p[1].upd = stack[t][1].upd BY <2>3, <2>4 DEF Marked
    <3> QED BY <2>7, <3>1 DEF EnterRank
  <2>10. stack'[t] = p /\ \A u \in Threads \ {t} : stack'[u] = stack[u] BY <1>4, <2>2 DEF Types
  <2>11. pc'[c] \notin Storing /\ \A d \in Caps \ {c} : pc'[d] = pc[d]
    BY <1>4, <2>2 DEF Types, Storing
  <2> QED BY <1>4, <2>2, <2>6, <2>8, <2>9, <2>10, <2>11, RankThread
<1> QED BY <1>3, <1>5, <1>6

\* A new AP_STACK takes the rank of the thunk that it is for.
LEMMA FreezeRank ==
  ASSUME Types, StacksOK, NEW r \in [Closures -> Nat], RankOK(r), NEW c \in Caps, Freeze(c)
  PROVE  \E q \in [Closures -> Nat] : RankOK(q)'
<1>1. PICK t : t = running[c] OBVIOUS
<1>2. PICK a \in APs : FreezeTo(c, t, a) BY <1>1, FreezeDoes
<1>3. PICK k : k = stack[t][1].upd OBVIOUS
<1>4. /\ t \in Threads /\ running[c] = t /\ pc[c] = "freeze" /\ at[c] \in 2..Len(stack[t])
      /\ stack[t][1].kind = "marked" /\ k \in Closures
      /\ info[a] = "unallocated"
      /\ info' = [info EXCEPT ![a] = "AP_STACK"]
      /\ code' = [code EXCEPT ![a] = Suspended(t)]
      /\ upd' = [upd EXCEPT ![c] = Update(Closure(a), ind[k])]
      /\ pc' = [pc EXCEPT ![c] = "store_ind"]
      /\ UNCHANGED <<ind, blocking, why, stack, enter, block_info, running, at, cur, home, events>>
  BY <1>2, <1>3 DEF FreezeTo
<1>5. a \in Closures /\ a \notin Allocated /\ Allocated' = Allocated \cup {a}
  <2>1. a \in Closures BY Distinct
  <2> QED BY <1>4, <2>1 DEF Allocated, Types
<1>6. Len(stack[t]) \in Nat /\ 1 \in 1..Len(stack[t]) /\ 1 < Len(stack[t]) /\ StackOK(stack[t])
  BY <1>4, StackTypes
<1>7. k \in Allocated BY <1>3, <1>4, <1>6, UpdAllocated
<1>8. PICK q \in [Closures -> Nat] : q = [r EXCEPT ![a] = r[k]] BY <1>4
<1>9. q[a] = r[k] /\ \A x \in Allocated : q[x] = r[x] /\ x \in Closures BY <1>5, <1>8 DEF Allocated
<1>10. CodeRank(q)'
  <2>1. CodeRank(r) BY DEF RankOK
  <2>2. ASSUME NEW x \in Closures, x # a
        PROVE  /\ x \in Allocated' => /\ \A i \in DOMAIN code'[x] : code'[x][i] \in Allocated'
                                           /\ q[code'[x][i]] < q[x]
                                      /\ ind'[x].to = "closure" => ind'[x].id \in Allocated'
                                           /\ q[ind'[x].id] <= q[x]
               /\ x \notin Allocated' => ind'[x] = Null
    <3>1. code'[x] = code[x] /\ ind'[x] = ind[x] /\ (x \in Allocated' <=> x \in Allocated)
      BY <1>4, <1>5, <2>2 DEF Types
    <3> QED BY <1>5, <1>9, <2>1, <3>1 DEF CodeRank
  <2>3. ASSUME NEW i \in DOMAIN Suspended(t)
        PROVE  Suspended(t)[i] \in Allocated /\ r[Suspended(t)[i]] < r[k]
    <3>1. CASE enter[t] # None /\ Suspended(t)[i] = enter[t]
      <4>1. EnterRank(r, Allocated, enter[t], stack[t]) BY <1>4 DEF RankOK
      <4> QED BY <1>3, <1>6, <3>1, <4>1 DEF EnterRank
    <3>2. CASE \E j \in DOMAIN stack[t][1].todo : Suspended(t)[i] = stack[t][1].todo[j]
      <4>1. StackRank(r, Allocated, stack[t]) BY <1>4 DEF RankOK
      <4> QED BY <1>3, <1>6, <3>2, <4>1 DEF StackRank, FrameRank
    <3> QED BY <1>4, <3>1, <3>2, SuspendedOK
  <2>4. code'[a] = Suspended(t) /\ ind'[a] = Null BY <1>4, <1>5, <2>1 DEF Types, CodeRank
  <2>5. ind'[a].to # "closure" BY <2>4, PointerTags
  <2>6. \A i \in DOMAIN code'[a] : code'[a][i] \in Allocated' /\ q[code'[a][i]] < q[a]
    BY <1>5, <1>9, <2>3, <2>4
  <2> QED BY <1>5, <2>2, <2>5, <2>6 DEF CodeRank
<1>11. ASSUME NEW u \in Threads
       PROVE  StackRank(q, Allocated', stack'[u]) /\ EnterRank(q, Allocated', enter'[u], stack'[u])
  <2>1. StackRank(r, Allocated, stack[u]) /\ EnterRank(r, Allocated, enter[u], stack[u])
    BY DEF RankOK
  <2>2. StackRank(q, Allocated, stack[u]) BY <1>9, <2>1 DEF StackRank, FrameRank
  <2>3. EnterRank(q, Allocated, enter[u], stack[u])
    <3>1. CASE Len(stack[u]) > 1
      <4>1. 1 \in 1..Len(stack[u]) /\ 1 < Len(stack[u]) BY <3>1, StackTypes
      <4>2. stack[u][1].upd \in Allocated BY <2>1, <4>1 DEF StackRank, FrameRank
      <4> QED BY <1>9, <2>1, <4>2 DEF EnterRank
    <3>2. CASE ~(Len(stack[u]) > 1) BY <2>1, <3>2 DEF EnterRank
    <3> QED BY <3>1, <3>2
  <2>4. Allocated \subseteq Allocated' BY <1>5
  <2>5. StackRank(q, Allocated', stack[u]) /\ EnterRank(q, Allocated', enter[u], stack[u])
    BY <2>2, <2>3, <2>4, MoreAllocated
  <2> QED BY <1>4, <2>5
<1>12. ASSUME NEW d \in Caps PROVE UpdRank(q, d)'
  <2>1. CASE d = c
    <3>1. upd'[c].val = Closure(a)
      <4>1. Closure(a) \in Pointers /\ ind[k] \in Pointers BY <1>4, <1>5, PointerKinds DEF Types
      <4> QED BY <1>4, <4>1, UpdTypes
    <3>2. upd'[c].val.id = a BY <3>1, PointerTags
    <3>3. stack'[running'[c]][1].upd = k BY <1>3, <1>4
    <3>4. q[k] = r[k] /\ r[k] \in Nat BY <1>7, <1>9
    <3> QED BY <1>5, <1>9, <2>1, <3>2, <3>3, <3>4 DEF UpdRank
  <2>2. CASE d # c
    <3>1. pc'[d] = pc[d] /\ upd'[d] = upd[d] /\ running'[d] = running[d] /\ stack' = stack
      BY <1>4, <2>2 DEF Types
    <3>2. UpdRank(r, d) BY DEF RankOK
    <3>3. ASSUME pc[d] \in Storing, upd[d].val.to = "closure"
          PROVE  upd[d].val.id \in Allocated' /\ q[upd[d].val.id] <= q[stack[running[d]][1].upd]
      <4>1. running[d] \in Threads BY <3>3, RunsAt DEF Storing
      <4>2. AtOK(d, stack[running[d]], at[d]) BY <3>3, RunsOn DEF Storing
      <4>3. stack[running[d]][1].kind # "stop" BY <3>3, <4>2 DEF AtOK
      <4>4. 1 \in 1..Len(stack[running[d]]) BY <4>1, StackTypes
      <4>5. stack[running[d]][1].upd \in Allocated BY <4>1, <4>3, <4>4, UpdAllocated
      <4>6. upd[d].val.id \in Allocated /\ r[upd[d].val.id] <= r[stack[running[d]][1].upd]
        BY <3>2, <3>3 DEF UpdRank
      <4> QED BY <1>5, <1>9, <4>5, <4>6
    <3> QED BY <3>1, <3>3 DEF UpdRank
  <2> QED BY <2>1, <2>2
<1>13. RankOK(q)' BY <1>10, <1>11, <1>12 DEF RankOK
<1> QED BY <1>13

\* The end of raiseAsync keeps the closures in order.
LEMMA FrozenRank ==
  ASSUME Types, StacksOK, NEW r \in [Closures -> Nat], RankOK(r), NEW c \in Caps, Frozen(c)
  PROVE  RankOK(r)'
<1>1. PICK t : t = running[c] OBVIOUS
<1>2. FrozenAny(c, t) /\ (FrozenCaught(c, t) \/ FrozenDropped(c, t)) BY <1>1, FrozenDoes
<1>3. /\ t \in Threads /\ running[c] = t /\ pc[c] = "freeze"
      /\ UNCHANGED <<heap, blocking, block_info, upd, cur, home, events>>
  BY <1>2 DEF FrozenAny
<1>4. Allocated' = Allocated /\ ind' = ind /\ code' = code BY <1>3 DEF Allocated, heap
<1>5. StackRank(r, Allocated, stack[t]) /\ Len(stack[t]) \in Nat /\ 1 \in 1..Len(stack[t])
  BY <1>3, StackTypes DEF RankOK
<1>6. CASE FrozenCaught(c, t)
  <2>1. /\ enter' = [enter EXCEPT ![t] = None] /\ stack' = stack
        /\ running' = [running EXCEPT ![c] = NoThread] /\ pc' = [pc EXCEPT ![c] = "sched"]
    BY <1>6 DEF FrozenCaught
  <2>2. enter'[t] = None /\ \A u \in Threads \ {t} : enter'[u] = enter[u] BY <1>3, <2>1 DEF Types
  <2>3. EnterRank(r, Allocated, enter'[t], stack'[t]) BY <2>2 DEF EnterRank
  <2>4. pc'[c] \notin Storing /\ \A d \in Caps \ {c} : pc'[d] = pc[d] /\ running'[d] = running[d]
    BY <2>1 DEF Types, Storing
  <2> QED BY <1>3, <1>4, <1>5, <2>1, <2>2, <2>3, <2>4, RankThread
<1>7. CASE FrozenDropped(c, t)
  <2>1. PICK p : p = Tail(stack[t]) OBVIOUS
  <2>2. PICK e : e = stack[t][1].upd OBVIOUS
  <2>3. /\ stack[t][1].kind # "stop" /\ e \in Closures /\ Len(stack[t]) > 1
        /\ enter' = [enter EXCEPT ![t] = e]
        /\ Popped(stack[t], p) /\ stack' = [stack EXCEPT ![t] = p]
        /\ pc' = [pc EXCEPT ![c] = "pause"] /\ running' = running
    BY <1>7, <2>1, <2>2 DEF FrozenDropped
  <2>4. StackRank(r, Allocated, p) BY <1>5, <2>3, PopRank
  <2>5. e \in Allocated BY <1>3, <1>5, <2>2, <2>3, UpdAllocated
  <2>6. r[e] <= r[stack[t][1].upd] BY <2>2, <2>3
  <2>7. EnterRank(r, Allocated, e, p) BY <1>3, <1>5, <2>3, <2>5, <2>6, PopEnterRank
  <2>8. /\ stack'[t] = p /\ enter'[t] = e
        /\ \A u \in Threads \ {t} : stack'[u] = stack[u] /\ enter'[u] = enter[u]
    BY <1>3, <2>3 DEF Types
  <2>9. pc'[c] \notin Storing /\ \A d \in Caps \ {c} : pc'[d] = pc[d] BY <2>3 DEF Types, Storing
  <2> QED BY <1>3, <1>4, <2>3, <2>4, <2>7, <2>8, <2>9, RankThread
<1> QED BY <1>2, <1>6, <1>7

\* The last store of messageBlackHole keeps the closures in order.
LEMMA StoreQueueRank ==
  ASSUME Types, StacksOK, NEW r, RankOK(r), NEW c \in Caps, StoreQueue(c),
         \E q \in Queues : bq[q].live /\ cur[c] \in bq[q].queue,
         \A q \in Queues : bq[q].live => bq[q].bh \in Allocated
  PROVE  RankOK(r)'
<1>1. PICK q \in Queues : q = CHOOSE p \in Queues : bq[p].live /\ cur[c] \in bq[p].queue OBVIOUS
<1>2. bq[q].live BY <1>1
<1>3. ind' = [ind EXCEPT ![bq[q].bh] = BQ(q)] BY <1>1 DEF StoreQueue
<1>4. \A k \in Closures : ind'[k] = ind[k] \/ (k \in Allocated /\ ind'[k].to # "closure")
  BY <1>2, <1>3, PointerTags DEF Types
<1>5. cur[c] \in Msgs \cup {None} BY DEF Types
<1>6. PICK l \in {"sched", "pause"} : pc' = [pc EXCEPT ![c] = l]
  BY <1>5, StillBlockedDoes DEF StoreQueue
<1>7. UNCHANGED <<info, code, blocking, stack, enter, running, at, upd, home, events>>
  BY DEF StoreQueue
<1>8. \A d \in Caps : pc'[d] \in Storing => pc[d] \in Storing BY <1>6 DEF Types, Storing
<1>9. Allocated' = Allocated BY <1>7 DEF Allocated
<1> QED BY <1>4, <1>7, <1>8, <1>9, RankQuiet

\* executeMessage, for a MSG_BLACKHOLE, keeps the closures in order.
LEMMA TakeMessageRank ==
  ASSUME Types, StacksOK, NEW r, RankOK(r), NEW c \in Caps, NEW m \in Msgs, TakeMessage(c, m),
         msg[m].live => msg[m].bh \in Closures
  PROVE  RankOK(r)'
<1>1. UNCHANGED <<heap, msg, stack, enter, running, at, upd, home, events>> BY DEF TakeMessage
<1>2. pc' = pc \/ \E l : l \notin Storing /\ pc' = [pc EXCEPT ![c] = l]
  <2>1. CASE msg[m].live /\ MessageBlackHole(c, m, msg[m].tso, msg[m].bh)
    <3>1. PICK l \in Places : pc' = [pc EXCEPT ![c] = l] /\ (l = "queue"
            \/ l = (IF running[c] = NoThread THEN "sched" ELSE "pause"))
      BY <2>1, MessageTypes
    <3>2. l \notin Storing BY <3>1 DEF Storing
    <3> QED BY <3>1, <3>2
  <2>2. CASE pc' = pc BY <2>2
  <2> QED BY <2>1, <2>2 DEF TakeMessage
<1>3. \A d \in Caps : pc'[d] \in Storing => pc[d] \in Storing BY <1>2 DEF Types
<1>4. Allocated' = Allocated /\ ind' = ind /\ code' = code BY <1>1 DEF Allocated, heap
<1> QED BY <1>1, <1>3, <1>4, RankQuiet

\* The other actions
LEMMA OtherRank ==
  ASSUME Types, StacksOK, NEW r, RankOK(r), UNCHANGED <<heap, stack, enter, upd>>,
         \/ \E c \in Caps : Yield(c) \/ Dispatch(c) \/ Finish(c) \/ (\E t \in Threads : Raise(c,
              t) \/ DeliverWakeup(c, t))
         \/ \E c \in Caps : \E d \in Caps : \E t \in Threads : Migrate(c, d, t)
         \/ UNCHANGED vars
  PROVE  RankOK(r)'
<1>1. Allocated' = Allocated /\ ind' = ind /\ code' = code BY DEF Allocated, heap
<1>2. \A d \in Caps : pc'[d] \in Storing => pc[d] \in Storing /\ running'[d] = running[d]
  <2>1. ASSUME NEW c \in Caps, Yield(c)
        PROVE  \A d \in Caps : pc'[d] \in Storing => pc[d] \in Storing /\ running'[d] = running[d]
    BY <2>1 DEF Yield, Goto, Types, Storing
  <2>2. ASSUME NEW c \in Caps, Dispatch(c)
        PROVE  \A d \in Caps : pc'[d] \in Storing => pc[d] \in Storing /\ running'[d] = running[d]
    BY <2>2 DEF Dispatch, Goto, Types, Storing
  <2>3. ASSUME NEW c \in Caps, Finish(c)
        PROVE  \A d \in Caps : pc'[d] \in Storing => pc[d] \in Storing /\ running'[d] = running[d]
    BY <2>3 DEF Finish, LeaveThread, Goto, Types, Storing
  <2>4. ASSUME NEW c \in Caps, NEW t \in Threads, Raise(c, t)
        PROVE  \A d \in Caps : pc'[d] \in Storing => pc[d] \in Storing /\ running'[d] = running[d]
    BY <2>4 DEF Raise, Goto, Types, Storing
  <2>5. ASSUME NEW c \in Caps, NEW t \in Threads, DeliverWakeup(c, t)
        PROVE  \A d \in Caps : pc'[d] \in Storing => pc[d] \in Storing /\ running'[d] = running[d]
    BY <2>5 DEF DeliverWakeup, cap
  <2>6. ASSUME NEW c \in Caps, NEW e \in Caps, NEW t \in Threads, Migrate(c, e, t)
        PROVE  \A d \in Caps : pc'[d] \in Storing => pc[d] \in Storing /\ running'[d] = running[d]
    BY <2>6 DEF Migrate, cap
  <2>7. ASSUME UNCHANGED vars
        PROVE  \A d \in Caps : pc'[d] \in Storing => pc[d] \in Storing /\ running'[d] = running[d]
    BY <2>7 DEF vars, cap
  <2> QED BY <2>1, <2>2, <2>3, <2>4, <2>5, <2>6, <2>7
<1> QED BY <1>1, <1>2, RankQuiet

\* The stack s has a frame for k, of one of the kinds.
HasIn(s, k, kinds) == \E i \in 1..Len(s) : s[i].upd = k /\ s[i].kind \in kinds

\* A MSG_BLACKHOLE is in one inbox or one queue; the queue is in use, and what it is about is a
\* black hole.
MessagesOnce ==
    /\ \A c, d \in Caps : \A m \in Msgs : m \in inbox[c] /\ m \in inbox[d] => c = d
    /\ \A p, q \in Queues : \A m \in Msgs : m \in bq[p].queue /\ m \in bq[q].queue => p = q
    /\ \A c \in Caps : \A q \in Queues : \A m \in Msgs : ~(m \in inbox[c] /\ m \in bq[q].queue)
    /\ \A q \in Queues : \A m \in Msgs : m \in bq[q].queue => bq[q].live
    /\ \A m \in Msgs : msg[m].live => msg[m].bh \in Closures /\ info[msg[m].bh] = "BLACKHOLE"

\* messageBlackHole has made the queue q and has not yet stored it.
Pending(q) == \E c \in Caps : pc[c] = "queue" /\ cur[c] \in bq[q].queue /\ home[bq[q].owner] = c

\* A queue is for a black hole that its owner evaluates, in a frame that threadPaused has
\* marked; while the black hole points to the owner itself, the queue is about to be stored.
QueueOK(q) ==
    /\ bq[q].owner \in Threads /\ bq[q].bh \in Closures
    /\ info[bq[q].bh] = "BLACKHOLE"
    /\ HasIn(stack[bq[q].owner], bq[q].bh, {"marked"})
    /\ ind[bq[q].bh] = TSO(bq[q].owner) => Pending(q)

\* The queue that messageBlackHole on c is about to store belongs to another thread of c.
Storable(c, q) == bq[q].live /\ cur[c] \in bq[q].queue /\ home[bq[q].owner] = c
  /\ bq[q].owner # running[c]

\* A closure points to a queue that is in use and is for it; a thread has one queue for a
\* closure at a time.
QueuesOK ==
    /\ \A k \in Closures : \A q \in Queues : ind[k] = BQ(q) => bq[q].live /\ bq[q].bh = k
    /\ \A q \in Queues : bq[q].live => QueueOK(q)
    /\ \A p, q \in Queues : bq[p].live /\ bq[q].live /\ bq[p].owner = bq[q].owner
         /\ bq[p].bh = bq[q].bh => p = q
    /\ \A c \in Caps : pc[c] = "queue" => \E q \in Queues : Storable(c, q)

\* Who a closure names has a frame for it, and a black hole names somebody or has a value.
OwnersOK ==
    \A k \in Closures :
       /\ Owner(k) \in Threads => HasIn(stack[Owner(k)], k, {"bh", "marked"})
       /\ info[k] = "BLACKHOLE" => ind[k] # Null

\* No queue of t is for the closure k.
NoQueue(t, k) == \A q \in Queues : ~(bq[q].live /\ bq[q].owner = t /\ bq[q].bh = k)

\* What the thread t of c knows in the middle of its work on the closures of the frame f, which
\* it claims or suspends, and k, which it updates: that it has no queue that it will not look
\* at, and that a thunk it gives up is not its own.
WorkAt(c, t, f, k) ==
    /\ pc[c] = "claim_ind" => NoQueue(t, f.upd)
    /\ pc[c] = "claim_info" => ind[f.upd] # Null
    /\ (pc[c] = "freeze" \/ (pc[c] \in Storing /\ upd[c].val # Value)) /\ f.kind # "stop"
         => Owner(f.upd) # t
    /\ pc[c] \in Storing =>
         /\ upd[c].seen = TSO(t) => NoQueue(t, k)
         /\ \A q \in Queues : upd[c].seen = BQ(q) /\ bq[q].live /\ bq[q].owner = t => bq[q].bh = k
    /\ pc[c] = "store_info" => Owner(k) # t /\ ind[k] # Null

\* ... for all capabilities
WorkOK == \A c \in Caps : running[c] # NoThread => WorkAt(c, running[c], stack[running[c]][at[c]],
stack[running[c]][1].upd)

\* t claims the closure of its top frame.
ClaimsFirst(t) == \E c \in Caps : running[c] = t /\ pc[c] \in Claiming /\ at[c] = 1

\* The frame of an eager black hole is for a black hole, or for what its thread claims just now.
EagerOK ==
    \A t \in Threads : \A i \in 1..Len(stack[t]) :
        stack[t][i].kind = "bh" => info[stack[t][i].upd] = "BLACKHOLE" \/ (i = 1 /\ ClaimsFirst(t))

\* One thread at most has a frame for an AP_STACK, and none before it is claimed.
APsOnce ==
    \A k \in APs :
       /\ info[k] # "THUNK"
       /\ \A t, u \in Threads : Evaluates(t, k) /\ Evaluates(u, k) => t = u
       /\ info[k] \in {"unallocated", "AP_STACK"} => \A t \in Threads : ~Evaluates(t, k)

\* The part of the invariant about what threads share
Sharing == MessagesOnce /\ QueuesOK /\ OwnersOK /\ WorkOK /\ EagerOK /\ APsOnce

\* The frames of a stack are for different closures.
LEMMA DistinctFrames ==
  ASSUME Types, StacksOK, Ranked, NEW t \in Threads, NEW i \in 1..Len(stack[t]),
         NEW j \in 1..Len(stack[t]),
         stack[t][i].kind # "stop", stack[t][i].upd = stack[t][j].upd
  PROVE  i = j
<1>1. StackOK(stack[t]) /\ Len(stack[t]) \in Nat BY StackTypes
<1>2. PICK r \in [Closures -> Nat] : RankOK(r) BY DEF Ranked
<1>3. StackRank(r, Allocated, stack[t]) BY <1>2 DEF RankOK
<1>4. stack[t][i].upd \in Closures /\ stack[t][j].kind # "stop"
  <2>1. stack[t][i].upd \in Closures BY <1>1 DEF StackOK
  <2>2. stack[t][j].upd # None BY <2>1, Distinct
  <2> QED BY <1>1, <2>1, <2>2 DEF StackOK
<1>5. i < Len(stack[t]) /\ j < Len(stack[t]) BY <1>1, <1>4 DEF StackOK
<1>6. r[stack[t][i].upd] \in Nat BY <1>2, <1>4
<1>7. ~(i < j) BY <1>3, <1>5, <1>6 DEF StackRank, FrameRank
<1>8. ~(j < i) BY <1>3, <1>5, <1>6 DEF StackRank, FrameRank
<1> QED BY <1>7, <1>8

\* A thread does not enter what it evaluates.
LEMMA NextNew ==
  ASSUME Types, StacksOK, Ranked, NEW t \in Threads, Next1(t) # None
  PROVE  /\ Next1(t) \in Closures
         /\ \A kinds : ~HasIn(stack[t], Next1(t), kinds)
         /\ \A i \in 1..Len(stack[t]) : stack[t][i].upd # Next1(t)
<1>1. StackOK(stack[t]) /\ Len(stack[t]) \in Nat BY StackTypes
<1>2. PICK r \in [Closures -> Nat] : RankOK(r) BY DEF Ranked
<1>3. Next1(t) \in Closures /\ \A i \in 1..Len(stack[t]) : i < Len(stack[t])
        => r[Next1(t)] < r[stack[t][i].upd]
  BY <1>2, NextBelow
<1>4. ASSUME NEW i \in 1..Len(stack[t]), stack[t][i].upd = Next1(t) PROVE FALSE
  <2>1. stack[t][i].kind # "stop"
    <3>1. stack[t][i].upd # None BY <1>4
    <3> QED BY <1>1, <3>1 DEF StackOK
  <2>2. i < Len(stack[t]) BY <1>1, <2>1 DEF StackOK
  <2>3. r[Next1(t)] < r[Next1(t)] /\ r[Next1(t)] \in Nat BY <1>2, <1>3, <1>4, <2>2
  <2> QED BY <2>3
<1> QED BY <1>3, <1>4 DEF HasIn

\* What is left to do does not matter for the frames there are.
LEMMA SameHas ==
  ASSUME NEW s, NEW p, SameFrames(s, p), NEW k, NEW kinds
  PROVE  HasIn(p, k, kinds) <=> HasIn(s, k, kinds)
BY DEF SameFrames, HasIn

\* The frames there are after a push
LEMMA PushHas ==
  ASSUME NEW s, NEW p, NEW kind, NEW k0, Pushed(s, p, kind, k0), Len(s) \in Nat, NEW k, NEW kinds
  PROVE  HasIn(p, k, kinds) <=> HasIn(s, k, kinds) \/ (k = k0 /\ kind \in kinds)
<1>1. Len(p) = Len(s) + 1 /\ p[1].kind = kind /\ p[1].upd = k0
      /\ \A i \in 1..Len(s) : p[i + 1].kind = s[i].kind /\ p[i + 1].upd = s[i].upd
  BY DEF Pushed
<1>2. ASSUME HasIn(p, k, kinds) PROVE HasIn(s, k, kinds) \/ (k = k0 /\ kind \in kinds)
  <2>1. PICK i \in 1..Len(p) : p[i].upd = k /\ p[i].kind \in kinds BY <1>2 DEF HasIn
  <2>2. CASE i = 1 BY <1>1, <2>1, <2>2
  <2>3. CASE i # 1
    <3>1. PICK j : j = i - 1 OBVIOUS
    <3>2. j \in 1..Len(s) /\ i = j + 1 BY <1>1, <2>3, <3>1
    <3> QED BY <1>1, <2>1, <3>2 DEF HasIn
  <2> QED BY <2>2, <2>3
<1>3. ASSUME HasIn(s, k, kinds) PROVE HasIn(p, k, kinds)
  <2>1. PICK i \in 1..Len(s) : s[i].upd = k /\ s[i].kind \in kinds BY <1>3 DEF HasIn
  <2>2. i + 1 \in 1..Len(p) BY <1>1
  <2> QED BY <1>1, <2>1, <2>2 DEF HasIn
<1>4. ASSUME k = k0 /\ kind \in kinds PROVE HasIn(p, k, kinds)
  <2>1. 1 \in 1..Len(p) BY <1>1
  <2> QED BY <1>1, <1>4, <2>1 DEF HasIn
<1> QED BY <1>2, <1>3, <1>4

\* ... after a pop
LEMMA PopHas ==
  ASSUME NEW s, NEW p, Popped(s, p), Len(s) \in Nat, Len(s) > 0, NEW k, NEW kinds
  PROVE  /\ HasIn(p, k, kinds) => HasIn(s, k, kinds)
         /\ HasIn(s, k, kinds) /\ k # s[1].upd => HasIn(p, k, kinds)
<1>1. Len(p) = Len(s) - 1 /\ \A i \in 1..Len(p) : p[i] = s[i + 1] BY DEF Popped
<1>2. ASSUME HasIn(p, k, kinds) PROVE HasIn(s, k, kinds)
  <2>1. PICK i \in 1..Len(p) : p[i].upd = k /\ p[i].kind \in kinds BY <1>2 DEF HasIn
  <2>2. i + 1 \in 1..Len(s) BY <1>1
  <2> QED BY <1>1, <2>1, <2>2 DEF HasIn
<1>3. ASSUME HasIn(s, k, kinds), k # s[1].upd PROVE HasIn(p, k, kinds)
  <2>1. PICK i \in 1..Len(s) : s[i].upd = k /\ s[i].kind \in kinds BY <1>3 DEF HasIn
  <2>2. i # 1 BY <1>3, <2>1
  <2>3. PICK j : j = i - 1 OBVIOUS
  <2>4. j \in 1..Len(p) /\ i = j + 1 BY <1>1, <2>2, <2>3
  <2> QED BY <1>1, <2>1, <2>4 DEF HasIn
<1> QED BY <1>2, <1>3

\* ... after one has been marked
LEMMA MarkHas ==
  ASSUME NEW s, NEW p, NEW n \in 1..Len(s), Marked(s, p, n), NEW k, NEW kinds
  PROVE  /\ "marked" \in kinds /\ HasIn(s, k, kinds) => HasIn(p, k, kinds)
         /\ "marked" \in kinds => HasIn(p, s[n].upd, kinds)
BY DEF Marked, HasIn

\* The queues of K are done with, the others are as before.
Woken(K) ==
    \A q \in Queues : /\ q \in K => ~bq'[q].live /\ bq'[q].queue = {} /\ bq'[q].bh = bq[q].bh
                           /\ bq'[q].owner = bq[q].owner
                      /\ q \notin K => bq'[q] = bq[q]

\* What the thread t of c does by itself: only indirectees and queues of its own change.
OwnStep(c, t, K) ==
    /\ t \in Threads /\ running[c] = t /\ home[t] = c /\ pc[c] \notin {"sched", "queue"}
    /\ pc'[c] # "queue"
    /\ UNCHANGED <<running, home, cur, inbox, msg>>
    /\ \A d \in Caps \ {c} : pc'[d] = pc[d] /\ at'[d] = at[d] /\ upd'[d] = upd[d]
    /\ \A u \in Threads \ {t} : stack'[u] = stack[u]
    /\ \A k \in Closures : info[k] = "BLACKHOLE" => info'[k] = "BLACKHOLE"
    /\ \A q \in K : bq[q].owner = t
    /\ Woken(K)
    /\ \A k \in Closures : ind'[k] = ind[k] \/ ind'[k] = TSO(t)
         \/ ind'[k].to \in {"value", "closure"}

\* The queues of t that stay
Stays(q, t, K) == bq[q].live /\ bq[q].owner = t /\ q \notin K

\* Owners change with what closures point to, and only to or from t.
LEMMA OwnerSame ==
  ASSUME Types, Types', NEW c \in Caps, NEW t, NEW K, OwnStep(c, t, K), NEW k \in Closures
  PROVE  /\ ind'[k] = ind[k] => Owner(k)' = Owner(k)
         /\ ind'[k] = TSO(t) => Owner(k)' = t
         /\ ind'[k].to \in {"value", "closure"} => Owner(k)' = NoThread
<1>1. ind[k] \in Pointers BY DEF Types
<1>2. \A q \in Queues : bq'[q].owner = bq[q].owner BY DEF OwnStep, Woken
<1>3. ind'[k] = ind[k] => Owner(k)' = Owner(k)
  <2> SUFFICES ASSUME ind'[k] = ind[k] PROVE Owner(k)' = Owner(k) OBVIOUS
  <2>1. ind[k].to = "bq" => bq'[ind[k].id].owner = bq[ind[k].id].owner
    BY <1>1, <1>2, PointerKinds, PointerTags
  <2> QED BY <2>1 DEF Owner
<1>4. ind'[k] = TSO(t) => Owner(k)' = t BY DEF Owner, TSO
<1>5. ind'[k].to \in {"value", "closure"} => Owner(k)' = NoThread BY DEF Owner
<1> QED BY <1>3, <1>4, <1>5

\* What another thread owns, or a queue, is as it was.
LEMMA OtherOwner ==
  ASSUME Types, Types', NEW c \in Caps, NEW t, NEW K, OwnStep(c, t, K), NEW k \in Closures
  PROVE  /\ Owner(k)' \in Threads /\ Owner(k)' # t => Owner(k) = Owner(k)' /\ ind'[k] = ind[k]
         /\ \A u \in Threads \ {t} : ind'[k] = TSO(u) => ind[k] = TSO(u)
         /\ \A q \in Queues : ind'[k] = BQ(q) => ind[k] = BQ(q)
<1>1. ind'[k] = ind[k] \/ ind'[k] = TSO(t) \/ ind'[k].to \in {"value", "closure"} BY DEF OwnStep
<1>2. NoThread \notin Threads BY Distinct
<1> QED BY <1>1, <1>2, OwnerSame, PointerTags

\* A step of the thread t disturbs no other thread in the middle of its work.
LEMMA OwnWork ==
  ASSUME Types, Types', NEW c \in Caps, NEW t, NEW K, OwnStep(c, t, K), NEW d \in Caps \ {c},
         NEW u \in Threads \ {t},
         NEW f, NEW k, f.kind # "stop" => f.upd \in Closures, pc[d] \in Claiming
           => f.upd \in Closures,
         pc[d] \in Storing => k \in Closures, WorkAt(d, u, f, k)
  PROVE  WorkAt(d, u, f, k)'
<1>1. pc'[d] = pc[d] /\ upd'[d] = upd[d] BY DEF OwnStep
<1>2. \A x : NoQueue(u, x) => NoQueue(u, x)' BY DEF OwnStep, Woken, NoQueue
<1>3. ASSUME NEW x \in Closures
      PROVE  (Owner(x) # u => Owner(x)' # u) /\ (ind[x] # Null => ind'[x] # Null)
  <2>1. Owner(x) # u => Owner(x)' # u BY OtherOwner
  <2>2. ind'[x] = ind[x] \/ ind'[x] = TSO(t) \/ ind'[x].to \in {"value", "closure"} BY DEF OwnStep
  <2>3. ind[x] # Null => ind'[x] # Null BY <2>2, PointerTags
  <2> QED BY <2>1, <2>3
<1>4. \A q \in Queues : bq'[q].live /\ bq'[q].owner = u => bq[q].live /\ bq[q].owner = u
        /\ bq'[q].bh = bq[q].bh
  BY DEF OwnStep, Woken
<1>5. pc[d] = "claim_ind" => NoQueue(u, f.upd)' BY <1>2 DEF WorkAt
<1>6. pc[d] = "claim_info" => ind'[f.upd] # Null BY <1>3 DEF WorkAt, Claiming
<1>7. (pc[d] = "freeze" \/ (pc[d] \in Storing /\ upd[d].val # Value)) /\ f.kind # "stop"
        => Owner(f.upd)' # u
  BY <1>3 DEF WorkAt
<1>8. pc[d] \in Storing /\ upd[d].seen = TSO(u) => NoQueue(u, k)' BY <1>2 DEF WorkAt
<1>9. pc[d] \in Storing => \A q \in Queues : upd[d].seen = BQ(q) /\ bq'[q].live
        /\ bq'[q].owner = u => bq'[q].bh = k
  BY <1>4 DEF WorkAt
<1>10. pc[d] = "store_info" => Owner(k)' # u /\ ind'[k] # Null BY <1>3 DEF WorkAt, Storing
<1>11. /\ pc'[d] = "claim_ind" => NoQueue(u, f.upd)'
       /\ pc'[d] = "claim_info" => ind'[f.upd] # Null
       /\ (pc'[d] = "freeze" \/ (pc'[d] \in Storing /\ upd'[d].val # Value)) /\ f.kind # "stop"
            => Owner(f.upd)' # u
       /\ pc'[d] \in Storing =>
            /\ upd'[d].seen = TSO(u) => NoQueue(u, k)'
            /\ \A q \in Queues : upd'[d].seen = BQ(q) /\ bq'[q].live /\ bq'[q].owner = u
                 => bq'[q].bh = k
       /\ pc'[d] = "store_info" => Owner(k)' # u /\ ind'[k] # Null
  BY <1>1, <1>5, <1>6, <1>7, <1>8, <1>9, <1>10
<1> QED BY <1>11 DEF WorkAt

\* ... no message
LEMMA OwnMessages ==
  ASSUME Types, Types', NEW c \in Caps, NEW t, NEW K, OwnStep(c, t, K), MessagesOnce
  PROVE  MessagesOnce'
<1>1. inbox' = inbox /\ msg' = msg BY DEF OwnStep
<1>2. \A q \in Queues : \A m \in Msgs : m \in bq'[q].queue => m \in bq[q].queue /\ bq'[q] = bq[q]
  BY DEF OwnStep, Woken
<1>3. \A k \in Closures : info[k] = "BLACKHOLE" => info'[k] = "BLACKHOLE" BY DEF OwnStep
<1> QED BY <1>1, <1>2, <1>3 DEF MessagesOnce

\* ... no queue, if the queues of t that stay can be found
LEMMA OwnQueues ==
  ASSUME Types, Types', NEW c \in Caps, NEW t, NEW K, OwnStep(c, t, K), QueuesOK,
         \A q \in K : \A k \in Closures : ind'[k] # BQ(q),
         \A q \in Queues : Stays(q, t, K) => HasIn(stack'[t], bq[q].bh, {"marked"})
           /\ ind'[bq[q].bh] # TSO(t)
  PROVE  QueuesOK'
<1>1. \A q \in Queues : bq'[q].live => q \notin K /\ bq'[q] = bq[q] /\ bq[q].live
  BY DEF OwnStep, Woken
<1>2. ASSUME NEW k \in Closures, NEW q \in Queues, ind'[k] = BQ(q)
      PROVE  bq'[q].live /\ bq'[q].bh = k
  <2>1. ind[k] = BQ(q) BY <1>2, OtherOwner
  <2>2. q \notin K BY <1>2
  <2> QED BY <2>1, <2>2 DEF QueuesOK, OwnStep, Woken
<1>3. ASSUME NEW q \in Queues, bq'[q].live PROVE QueueOK(q)'
  <2>1. q \notin K /\ bq'[q] = bq[q] /\ bq[q].live BY <1>1, <1>3
  <2>2. QueueOK(q) BY <2>1 DEF QueuesOK
  <2>3. bq[q].owner \in Threads /\ bq[q].bh \in Closures /\ info'[bq[q].bh] = "BLACKHOLE"
    BY <2>2 DEF QueueOK, OwnStep
  <2>4. HasIn(stack'[bq[q].owner], bq[q].bh, {"marked"})
    <3>1. CASE bq[q].owner = t BY <2>1, <3>1 DEF Stays
    <3>2. CASE bq[q].owner # t
      <4>1. stack'[bq[q].owner] = stack[bq[q].owner] BY <2>3, <3>2 DEF OwnStep
      <4> QED BY <2>2, <4>1 DEF QueueOK
    <3> QED BY <3>1, <3>2
  <2>5. ASSUME ind'[bq[q].bh] = TSO(bq[q].owner) PROVE Pending(q)'
    <3>1. bq[q].owner # t BY <2>1, <2>5 DEF Stays
    <3>2. ind[bq[q].bh] = TSO(bq[q].owner) BY <2>3, <2>5, <3>1, OtherOwner
    <3>3. PICK d \in Caps : pc[d] = "queue" /\ cur[d] \in bq[q].queue /\ home[bq[q].owner] = d
      BY <2>2, <3>2 DEF QueueOK, Pending
    <3>4. d # c /\ pc'[d] = pc[d] /\ cur' = cur /\ home' = home BY <3>3 DEF OwnStep
    <3> QED BY <2>1, <3>3, <3>4 DEF Pending
  <2> QED BY <2>1, <2>3, <2>4, <2>5 DEF QueueOK
<1>4. ASSUME NEW d \in Caps, pc'[d] = "queue" PROVE \E q \in Queues : Storable(d, q)'
  <2>1. d # c BY <1>4 DEF OwnStep
  <2>2. pc[d] = "queue" /\ cur' = cur /\ home' = home /\ running' = running /\ home[t] = c
    BY <1>4, <2>1 DEF OwnStep
  <2>3. PICK q \in Queues : Storable(d, q) BY <2>2 DEF QueuesOK
  <2>4. bq[q].owner # t BY <2>1, <2>2, <2>3 DEF Storable
  <2>5. q \notin K BY <2>4 DEF OwnStep
  <2>6. bq'[q] = bq[q] BY <2>5 DEF OwnStep, Woken
  <2> QED BY <2>2, <2>3, <2>6 DEF Storable
<1>5. \A p, q \in Queues : bq'[p].live /\ bq'[q].live /\ bq'[p].owner = bq'[q].owner
        /\ bq'[p].bh = bq'[q].bh => p = q
  BY <1>1 DEF QueuesOK
<1>6. /\ \A k \in Closures : \A q \in Queues : ind'[k] = BQ(q) => bq'[q].live /\ bq'[q].bh = k
      /\ \A q \in Queues : bq'[q].live => QueueOK(q)'
      /\ \A d \in Caps : pc'[d] = "queue" => \E q \in Queues : Storable(d, q)'
  BY <1>2, <1>3, <1>4
<1> QED BY <1>5, <1>6 DEF QueuesOK

\* ... no owner, if t evaluates what it owns
LEMMA OwnOwners ==
  ASSUME Types, Types', NEW c \in Caps, NEW t, NEW K, OwnStep(c, t, K), OwnersOK,
         \A k \in Closures : /\ Owner(k)' = t => HasIn(stack'[t], k, {"bh", "marked"})
                             /\ info'[k] = "BLACKHOLE" => ind'[k] # Null
  PROVE  OwnersOK'
<1>1. ASSUME NEW k \in Closures, Owner(k)' \in Threads
      PROVE  HasIn(stack'[Owner(k)'], k, {"bh", "marked"})
  <2>1. CASE Owner(k)' = t BY <2>1
  <2>2. CASE Owner(k)' # t
    <3>1. Owner(k)' = Owner(k) BY <1>1, <2>2, OtherOwner
    <3>2. stack'[Owner(k)] = stack[Owner(k)] BY <1>1, <2>2, <3>1 DEF OwnStep
    <3> QED BY <1>1, <3>1, <3>2 DEF OwnersOK
  <2> QED BY <2>1, <2>2
<1>2. \A k \in Closures : (Owner(k) \in Threads => HasIn(stack[Owner(k)], k, {"bh", "marked"}))'
  BY <1>1
<1> QED BY <1>2 DEF OwnersOK

\* What is to be shown of a step that a thread does by itself
LEMMA OwnStepOK ==
  ASSUME Types, StacksOK, Sharing, Types', NEW c \in Caps, NEW t, NEW K, OwnStep(c, t, K),
         \A q \in K : \A k \in Closures : ind'[k] # BQ(q),
         \A q \in Queues : Stays(q, t, K) => HasIn(stack'[t], bq[q].bh, {"marked"})
           /\ ind'[bq[q].bh] # TSO(t),
         \A k \in Closures : /\ Owner(k)' = t => HasIn(stack'[t], k, {"bh", "marked"})
                             /\ info'[k] = "BLACKHOLE" => ind'[k] # Null,
         \A i \in 1..Len(stack'[t]) : stack'[t][i].kind = "bh" =>
             info'[stack'[t][i].upd] = "BLACKHOLE" \/ (i = 1 /\ pc'[c] \in Claiming /\ at'[c] = 1),
         NEW f, NEW k0, f = stack'[t][at'[c]], k0 = stack'[t][1].upd, WorkAt(c, t, f, k0)'
  PROVE  MessagesOnce' /\ QueuesOK' /\ OwnersOK' /\ WorkOK' /\ EagerOK'
<1>1. MessagesOnce' BY OwnMessages DEF Sharing
<1>2. QueuesOK' BY OwnQueues DEF Sharing
<1>3. OwnersOK' BY OwnOwners DEF Sharing
<1>4. WorkOK'
  <2> SUFFICES ASSUME NEW d \in Caps, running'[d] # NoThread
               PROVE  WorkAt(d, running[d], stack[running[d]][at[d]], stack[running[d]][1].upd)'
    BY DEF WorkOK
  <2>1. running' = running /\ running[c] = t BY DEF OwnStep
  <2>2. CASE d = c BY <2>1, <2>2
  <2>3. CASE d # c
    <3>1. PICK u \in Threads : u = running[d] BY <2>1 DEF Types
    <3>2. u # t /\ AtOK(d, stack[u], at[d]) BY <2>1, <2>3, <3>1, RunsItsThread
    <3>3. stack'[u] = stack[u] /\ at'[d] = at[d] BY <2>3, <3>2 DEF OwnStep
    <3>4. StackOK(stack[u]) /\ Len(stack[u]) \in Nat /\ Len(stack[u]) > 0
            /\ at[d] \in 1..Len(stack[u])
      BY <3>1, <3>2, StackTypes DEF AtOK
    <3>5. PICK f1, k1 : f1 = stack[u][at[d]] /\ k1 = stack[u][1].upd OBVIOUS
    <3>6. f1.kind # "stop" => f1.upd \in Closures BY <3>4, <3>5, FrameUpd
    <3>7. pc[d] \in Claiming => f1.upd \in Closures BY <3>2, <3>5, <3>6 DEF AtOK
    <3>8. pc[d] \in Storing => k1 \in Closures
      <4>1. 1 \in 1..Len(stack[u]) BY <3>4
      <4> QED BY <3>2, <3>4, <3>5, <4>1, FrameUpd DEF AtOK
    <3>9. WorkAt(d, u, f1, k1)
      <4>1. running[d] # NoThread BY <3>1, Distinct
      <4> QED BY <3>1, <3>5, <4>1 DEF Sharing, WorkOK
    <3>10. WorkAt(d, u, f1, k1)' BY <2>3, <3>2, <3>6, <3>7, <3>8, <3>9, OwnWork
    <3> QED BY <2>1, <3>1, <3>3, <3>5, <3>10
  <2> QED BY <2>2, <2>3
<1>5. EagerOK'
  <2> SUFFICES ASSUME NEW u \in Threads, NEW i \in 1..Len(stack'[u]), stack'[u][i].kind = "bh"
               PROVE  info'[stack'[u][i].upd] = "BLACKHOLE" \/ (i = 1 /\ ClaimsFirst(u)')
    BY DEF EagerOK
  <2>1. running' = running /\ running[c] = t BY DEF OwnStep
  <2>2. CASE u = t BY <2>1, <2>2 DEF ClaimsFirst
  <2>3. CASE u # t
    <3>1. stack'[u] = stack[u] BY <2>3 DEF OwnStep
    <3>2. info[stack[u][i].upd] = "BLACKHOLE" \/ (i = 1 /\ ClaimsFirst(u))
      BY <3>1 DEF Sharing, EagerOK
    <3>3. stack[u][i].upd \in Closures
      <4>1. StackOK(stack[u]) /\ stack[u][i].kind # "stop" BY <3>1, StackTypes
      <4> QED BY <3>1, <4>1 DEF StackOK
    <3>4. ASSUME ClaimsFirst(u) PROVE ClaimsFirst(u)'
      <4>1. PICK d \in Caps : running[d] = u /\ pc[d] \in Claiming /\ at[d] = 1
        BY <3>4 DEF ClaimsFirst
      <4>2. d # c BY <2>1, <2>3, <4>1
      <4>3. pc'[d] = pc[d] /\ at'[d] = at[d] BY <4>2 DEF OwnStep
      <4> QED BY <2>1, <4>1, <4>3 DEF ClaimsFirst
    <3> QED BY <3>1, <3>2, <3>3, <3>4 DEF OwnStep
  <2> QED BY <2>2, <2>3
<1> QED BY <1>1, <1>2, <1>3, <1>4, <1>5

\* No step but the entry of a closure adds to the frames for it.
LEMMA APStep ==
  ASSUME Types, Types', APsOnce,
         \A u \in Threads : \A k \in APs : \A i \in 1..Len(stack'[u]) :
             stack'[u][i].upd = k => \E j \in 1..Len(stack[u]) : stack[u][j].upd = k,
         \A k \in APs : /\ info'[k] = "THUNK" => info[k] = "THUNK"
                        /\ info'[k] \in {"unallocated", "AP_STACK"}
                             => info[k] \in {"unallocated", "AP_STACK"}
  PROVE  APsOnce'
<1>1. \A u \in Threads : DOMAIN stack[u] = 1..Len(stack[u]) /\ DOMAIN stack'[u] = 1..Len(stack'[u])
  <2>1. \A u \in Threads : stack[u] \in Seq(Frames) /\ stack'[u] \in Seq(Frames) BY DEF Types
  <2> QED BY <2>1
<1>2. \A u \in Threads : \A k \in APs : Evaluates(u, k)' => Evaluates(u, k) BY <1>1 DEF Evaluates
<1> QED BY <1>2 DEF APsOnce

\* Sharing, without the AP_STACKs
Shared == MessagesOnce /\ QueuesOK /\ OwnersOK /\ WorkOK /\ EagerOK

\* What is known of the thread that c runs
LEMMA OwnFacts ==
  ASSUME Types, StacksOK, Sharing, NEW c \in Caps, NEW t, t = running[c], pc[c] \notin {"sched",
         "queue"}
  PROVE  /\ \A q \in Queues : bq[q].live /\ bq[q].owner = t =>
               /\ bq[q].bh \in Closures /\ info[bq[q].bh] = "BLACKHOLE"
               /\ HasIn(stack[t], bq[q].bh, {"marked"}) /\ ind[bq[q].bh] # TSO(t)
         /\ \A k \in Closures : /\ Owner(k) = t => HasIn(stack[t], k, {"bh", "marked"})
                                /\ info[k] = "BLACKHOLE" => ind[k] # Null
                                /\ \A q \in Queues : ind[k] = BQ(q) => bq[q].live /\ bq[q].bh = k
         /\ \A i \in 1..Len(stack[t]) : stack[t][i].kind = "bh" =>
               /\ stack[t][i].upd \in Closures
               /\ info[stack[t][i].upd] = "BLACKHOLE" \/ (i = 1 /\ pc[c] \in Claiming /\ at[c] = 1)
         /\ WorkAt(c, t, stack[t][at[c]], stack[t][1].upd)
         /\ \A q \in Orphans(t) : \A k \in Closures : ind[k] # BQ(q)
<1>1. t \in Threads /\ t # NoThread /\ home[t] = c /\ StackOK(stack[t]) BY RunsOn
<1>2. ASSUME NEW q \in Queues, bq[q].live, bq[q].owner = t
      PROVE  /\ bq[q].bh \in Closures /\ info[bq[q].bh] = "BLACKHOLE"
             /\ HasIn(stack[t], bq[q].bh, {"marked"}) /\ ind[bq[q].bh] # TSO(t)
  <2>1. QueueOK(q) BY <1>2 DEF Sharing, QueuesOK
  <2>2. ~Pending(q) BY <1>1, <1>2 DEF Pending
  <2> QED BY <1>2, <2>1, <2>2 DEF QueueOK
<1>3. \A k \in Closures : /\ Owner(k) = t => HasIn(stack[t], k, {"bh", "marked"})
                          /\ info[k] = "BLACKHOLE" => ind[k] # Null
                          /\ \A q \in Queues : ind[k] = BQ(q) => bq[q].live /\ bq[q].bh = k
  BY <1>1 DEF Sharing, OwnersOK, QueuesOK
<1>4. ASSUME NEW i \in 1..Len(stack[t]), stack[t][i].kind = "bh"
      PROVE  /\ stack[t][i].upd \in Closures
             /\ info[stack[t][i].upd] = "BLACKHOLE" \/ (i = 1 /\ pc[c] \in Claiming /\ at[c] = 1)
  <2>1. stack[t][i].upd \in Closures
    <3>1. stack[t][i].kind # "stop" BY <1>4
    <3> QED BY <1>1, <3>1 DEF StackOK
  <2>2. info[stack[t][i].upd] = "BLACKHOLE" \/ (i = 1 /\ ClaimsFirst(t))
    BY <1>1, <1>4 DEF Sharing, EagerOK
  <2>3. ASSUME ClaimsFirst(t) PROVE pc[c] \in Claiming /\ at[c] = 1
    <3>1. PICK d \in Caps : running[d] = t /\ pc[d] \in Claiming /\ at[d] = 1
      BY <2>3 DEF ClaimsFirst
    <3>2. d = c BY <1>1, <3>1, RunsItsThread
    <3> QED BY <3>1, <3>2
  <2> QED BY <2>1, <2>2, <2>3
<1>5. WorkAt(c, t, stack[t][at[c]], stack[t][1].upd) BY <1>1 DEF Sharing, WorkOK
<1>6. ASSUME NEW q \in Orphans(t), NEW k \in Closures PROVE ind[k] # BQ(q)
  <2>1. q \in Queues /\ bq[q].live /\ bq[q].owner = t /\ (info[bq[q].bh] # "BLACKHOLE"
          \/ ind[bq[q].bh] # BQ(q))
    BY DEF Orphans, QueuesOf
  <2>2. ind[k] = BQ(q) => bq[q].bh = k BY <1>3, <2>1
  <2> QED BY <1>2, <2>1, <2>2
<1> QED BY <1>2, <1>3, <1>4, <1>5, <1>6

\* A step in which no queue is woken
LEMMA PlainOwn ==
  ASSUME Types, StacksOK, NEW c \in Caps, NEW t, t = running[c], pc[c] \notin {"sched", "queue"},
         pc'[c] # "queue",
         UNCHANGED <<running, home, cur, inbox, msg, bq>>,
         \A d \in Caps \ {c} : pc'[d] = pc[d] /\ at'[d] = at[d] /\ upd'[d] = upd[d],
         \A u \in Threads \ {t} : stack'[u] = stack[u],
         \A k \in Closures : info[k] = "BLACKHOLE" => info'[k] = "BLACKHOLE",
         \A k \in Closures : ind'[k] = ind[k] \/ ind'[k] = TSO(t) \/ ind'[k].to \in {"value",
         "closure"}
  PROVE  OwnStep(c, t, {})
<1>1. t \in Threads /\ home[t] = c BY RunsOn
<1> QED BY <1>1 DEF OwnStep, Woken

\* The store of the thread into a closure that it claims keeps what threads share right.
LEMMA ClaimIndirecteeShares ==
  ASSUME Types, StacksOK, Sharing, NEW c \in Caps, ClaimIndirectee(c)
  PROVE  Shared' /\ APsOnce'
<1>1. Types' /\ StacksOK' BY ClaimIndirecteeTypes
<1>2. pc[c] = "claim_ind" BY DEF ClaimIndirectee
<1>3. PICK t : t = running[c] OBVIOUS
<1>4. /\ t \in Threads /\ StackOK(stack[t]) /\ AtOK(c, stack[t], at[c])
      /\ at[c] \in 1..Len(stack[t])
      /\ pc \in [Caps -> Places]
  BY <1>2, <1>3, RunsOn
<1>5. stack[t][at[c]].kind \in {"bh", "marked"} /\ stack[t][at[c]].upd \in Closures
  BY <1>2, <1>4, FrameUpd DEF AtOK, Claiming
<1>6. PICK k \in Closures : k = stack[t][at[c]].upd BY <1>5
<1>7. /\ ind' = [ind EXCEPT ![k] = TSO(t)] /\ pc' = [pc EXCEPT ![c] = "claim_info"]
      /\ UNCHANGED <<info, code, blocking, thread, running, at, upd, cur, events>>
  BY <1>3, <1>6 DEF ClaimIndirectee, Goto
<1>8. ind \in [Closures -> Pointers] BY DEF Types
<1>9. ind'[k] = TSO(t) /\ (\A x \in Closures \ {k} : ind'[x] = ind[x]) BY <1>7, <1>8
<1>10. pc'[c] = "claim_info" /\ \A d \in Caps \ {c} : pc'[d] = pc[d] BY <1>4, <1>7
<1>11. OwnStep(c, t, {}) BY <1>2, <1>3, <1>7, <1>9, <1>10, PlainOwn DEF blocking, thread
<1>12. /\ \A q \in Queues : bq[q].live /\ bq[q].owner = t
            => HasIn(stack[t], bq[q].bh, {"marked"}) /\ ind[bq[q].bh] # TSO(t)
              /\ bq[q].bh \in Closures
       /\ \A x \in Closures : (Owner(x) = t => HasIn(stack[t], x, {"bh", "marked"}))
            /\ (info[x] = "BLACKHOLE" => ind[x] # Null)
       /\ \A i \in 1..Len(stack[t]) : stack[t][i].kind = "bh" =>
               info[stack[t][i].upd] = "BLACKHOLE" \/ (i = 1 /\ pc[c] \in Claiming /\ at[c] = 1)
       /\ WorkAt(c, t, stack[t][at[c]], stack[t][1].upd)
  BY <1>2, <1>3, OwnFacts
<1>13. NoQueue(t, k) BY <1>2, <1>6, <1>12 DEF WorkAt
<1>14. HasIn(stack[t], k, {"bh", "marked"}) BY <1>4, <1>5, <1>6 DEF HasIn
<1>15. stack' = stack /\ at' = at /\ info' = info BY <1>7 DEF thread
<1>16. \A q \in Queues : Stays(q, t, {}) => HasIn(stack'[t], bq[q].bh, {"marked"})
         /\ ind'[bq[q].bh] # TSO(t)
  BY <1>9, <1>12, <1>13, <1>15 DEF Stays, NoQueue
<1>17. ASSUME NEW x \in Closures
       PROVE  /\ Owner(x)' = t => HasIn(stack'[t], x, {"bh", "marked"})
              /\ info'[x] = "BLACKHOLE" => ind'[x] # Null
  <2>1. CASE x = k BY <1>9, <1>14, <1>15, <2>1, PointerTags
  <2>2. CASE x # k
    <3>1. Owner(x)' = Owner(x) /\ ind'[x] = ind[x] BY <1>1, <1>9, <1>11, <2>2, OwnerSame
    <3> QED BY <1>12, <1>15, <3>1
  <2> QED BY <2>1, <2>2
<1>18. \A i \in 1..Len(stack'[t]) : stack'[t][i].kind = "bh" =>
             info'[stack'[t][i].upd] = "BLACKHOLE" \/ (i = 1 /\ pc'[c] \in Claiming /\ at'[c] = 1)
  BY <1>10, <1>12, <1>15 DEF Claiming
<1>19. PICK f, k0 : f = stack[t][at[c]] /\ k0 = stack[t][1].upd OBVIOUS
<1>20. WorkAt(c, t, f, k0)'
  <2>1. ind'[f.upd] # Null BY <1>6, <1>9, <1>19, PointerTags
  <2> QED BY <1>10, <2>1 DEF WorkAt, Storing
<1>21. Shared' BY <1>1, <1>11, <1>15, <1>16, <1>17, <1>18, <1>19, <1>20, OwnStepOK DEF Shared
<1>22. APsOnce' BY <1>1, <1>15, APStep DEF Sharing
<1> QED BY <1>21, <1>22

\* The store of the info pointer of a claimed closure keeps what threads share right.
LEMMA ClaimInfoShares ==
  ASSUME Types, StacksOK, Sharing, NEW c \in Caps, ClaimInfo(c)
  PROVE  Shared' /\ APsOnce'
<1>1. Types' /\ StacksOK' BY ClaimInfoTypes
<1>2. pc[c] = "claim_info" BY DEF ClaimInfo
<1>3. PICK t : t = running[c] OBVIOUS
<1>4. /\ t \in Threads /\ StackOK(stack[t]) /\ AtOK(c, stack[t], at[c])
      /\ at[c] \in 1..Len(stack[t])
      /\ pc \in [Caps -> Places] /\ at \in [Caps -> Nat \ {0}]
  BY <1>2, <1>3, RunsOn
<1>5. stack[t][at[c]].upd \in Closures
  BY <1>2, <1>4, FrameUpd DEF AtOK, Claiming
<1>6. PICK k \in Closures : k = stack[t][at[c]].upd BY <1>5
<1>7. /\ info' = [info EXCEPT ![k] = "BLACKHOLE"]
      /\ pc' = [pc EXCEPT ![c] = "pause"] \/ pc' = [pc EXCEPT ![c] = "run"]
      /\ at' = [at EXCEPT ![c] = @ + 1] \/ at' = at
      /\ UNCHANGED <<ind, code, blocking, thread, running, upd, cur, events>>
  BY <1>3, <1>6 DEF ClaimInfo, Goto
<1>8. info \in [Closures -> {"unallocated", "THUNK", "AP_STACK", "WHITEHOLE", "BLACKHOLE"}]
  BY DEF Types
<1>9. info'[k] = "BLACKHOLE" /\ (\A x \in Closures \ {k} : info'[x] = info[x]) BY <1>7, <1>8
<1>10. pc'[c] \in {"pause", "run"} /\ \A d \in Caps \ {c} : pc'[d] = pc[d] /\ at'[d] = at[d]
  <2>1. pc'[c] \in {"pause", "run"} /\ \A d \in Caps \ {c} : pc'[d] = pc[d] BY <1>4, <1>7
  <2>2. \A d \in Caps \ {c} : at'[d] = at[d] BY <1>4, <1>7
  <2> QED BY <2>1, <2>2
<1>11. stack' = stack /\ ind' = ind BY <1>7 DEF thread
<1>12. OwnStep(c, t, {}) BY <1>2, <1>3, <1>7, <1>9, <1>10, PlainOwn DEF blocking, thread
<1>13. /\ \A q \in Queues : bq[q].live /\ bq[q].owner = t
            => HasIn(stack[t], bq[q].bh, {"marked"}) /\ ind[bq[q].bh] # TSO(t)
       /\ \A x \in Closures : (Owner(x) = t => HasIn(stack[t], x, {"bh", "marked"}))
            /\ (info[x] = "BLACKHOLE" => ind[x] # Null)
       /\ \A i \in 1..Len(stack[t]) : stack[t][i].kind = "bh" =>
               /\ stack[t][i].upd \in Closures
               /\ info[stack[t][i].upd] = "BLACKHOLE" \/ (i = 1 /\ pc[c] \in Claiming /\ at[c] = 1)
       /\ WorkAt(c, t, stack[t][at[c]], stack[t][1].upd)
  BY <1>2, <1>3, OwnFacts
<1>14. ind[k] # Null BY <1>2, <1>6, <1>13 DEF WorkAt
<1>15. \A q \in Queues : Stays(q, t, {}) => HasIn(stack'[t], bq[q].bh, {"marked"})
         /\ ind'[bq[q].bh] # TSO(t)
  BY <1>13, <1>11 DEF Stays
<1>16. ASSUME NEW x \in Closures
       PROVE  /\ Owner(x)' = t => HasIn(stack'[t], x, {"bh", "marked"})
              /\ info'[x] = "BLACKHOLE" => ind'[x] # Null
  <2>1. Owner(x)' = Owner(x) BY <1>1, <1>12, <1>11, OwnerSame
  <2>2. info'[x] = "BLACKHOLE" => ind'[x] # Null BY <1>9, <1>13, <1>14, <1>11
  <2> QED BY <1>13, <1>11, <2>1, <2>2
<1>17. ASSUME NEW i \in 1..Len(stack'[t]), stack'[t][i].kind = "bh"
       PROVE  info'[stack'[t][i].upd] = "BLACKHOLE"
  <2>1. /\ stack[t][i].upd \in Closures
        /\ info[stack[t][i].upd] = "BLACKHOLE" \/ (i = 1 /\ at[c] = 1)
    BY <1>13, <1>11, <1>17
  <2> QED BY <1>6, <1>9, <1>11, <2>1
<1>18. PICK f, k0 : f = stack[t][at'[c]] /\ k0 = stack[t][1].upd OBVIOUS
<1>19. WorkAt(c, t, f, k0)' BY <1>10 DEF WorkAt, Storing
<1>20. Shared' BY <1>1, <1>12, <1>11, <1>15, <1>16, <1>17, <1>18, <1>19, OwnStepOK DEF Shared
<1>21. APsOnce'
  <2>1. \A x \in APs : info'[x] = info[x] \/ info'[x] = "BLACKHOLE" BY <1>9, Distinct
  <2> QED BY <1>1, <1>11, <2>1, APStep DEF Sharing
<1> QED BY <1>20, <1>21

\* stg_upd_frame keeps owners, queues and the work on thunks right.
LEMMA ReturnPlainShares ==
  ASSUME Types, StacksOK, Ranked, Sharing, NEW c \in Caps, Return(c), NEW t, t = running[c],
         ReturnPlain(c, t)
  PROVE  Shared' /\ APsOnce'
<1>1. Types' /\ StacksOK' BY ReturnTypes
<1>2. /\ t \in Threads /\ pc[c] = "run" /\ at[c] = 1
      /\ stack[t][1].kind # "stop" /\ stack[t][1].upd \in Closures
      /\ UNCHANGED <<info, code, enter, block_info, running, at, cur, home, events>>
  BY ReturnDoes
<1>3. /\ StackOK(stack[t]) /\ Len(stack[t]) \in Nat /\ Len(stack[t]) > 0 /\ pc \in [Caps -> Places]
  BY <1>2, RunsOn
<1>4. PICK k \in Closures : k = stack[t][1].upd BY <1>2
<1>5. /\ stack[t][1].kind = "upd"
      /\ ind' = [ind EXCEPT ![k] = Value]
      /\ upd' = [upd EXCEPT ![c] = Update(Value, TSO(t))]
      /\ pc' = [pc EXCEPT ![c] = "store_info"]
      /\ UNCHANGED <<blocking, why, stack>>
  BY <1>4 DEF ReturnPlain
<1>6. ind \in [Closures -> Pointers] BY DEF Types
<1>7. ind'[k] = Value /\ (\A x \in Closures \ {k} : ind'[x] = ind[x]) BY <1>5, <1>6
<1>8. pc'[c] = "store_info" /\ \A d \in Caps \ {c} : pc'[d] = pc[d] BY <1>3, <1>5
<1>9. upd'[c].val = Value /\ upd'[c].seen = TSO(t) /\ \A d \in Caps \ {c} : upd'[d] = upd[d]
  <2>1. Value \in Pointers /\ TSO(t) \in Pointers BY <1>2, PointerKinds
  <2>2. PICK p \in Pointers : p = TSO(t) BY <2>1
  <2>3. upd' = [upd EXCEPT ![c] = Update(Value, p)] BY <1>5, <2>2
  <2>4. upd'[c].val = Value /\ upd'[c].seen = p /\ \A d \in Caps \ {c} : upd'[d] = upd[d]
    BY <2>1, <2>3, UpdTypes
  <2> QED BY <2>2, <2>4
<1>10. OwnStep(c, t, {}) BY <1>2, <1>5, <1>7, <1>8, <1>9, PlainOwn, PointerTags DEF blocking
<1>11. /\ \A q \in Queues : bq[q].live /\ bq[q].owner = t =>
             HasIn(stack[t], bq[q].bh, {"marked"}) /\ ind[bq[q].bh] # TSO(t)
               /\ bq[q].bh \in Closures
       /\ \A x \in Closures : (Owner(x) = t => HasIn(stack[t], x, {"bh", "marked"}))
            /\ (info[x] = "BLACKHOLE" => ind[x] # Null)
       /\ \A i \in 1..Len(stack[t]) : stack[t][i].kind = "bh" =>
               info[stack[t][i].upd] = "BLACKHOLE" \/ (i = 1 /\ pc[c] \in Claiming /\ at[c] = 1)
  <2>1. \A q \in Queues : bq[q].live /\ bq[q].owner = t =>
           HasIn(stack[t], bq[q].bh, {"marked"}) /\ ind[bq[q].bh] # TSO(t) /\ bq[q].bh \in Closures
    BY <1>2, OwnFacts
  <2>2. \A x \in Closures : (Owner(x) = t => HasIn(stack[t], x, {"bh", "marked"}))
          /\ (info[x] = "BLACKHOLE" => ind[x] # Null)
    BY <1>2, OwnFacts
  <2>3. \A i \in 1..Len(stack[t]) : stack[t][i].kind = "bh" =>
             info[stack[t][i].upd] = "BLACKHOLE" \/ (i = 1 /\ pc[c] \in Claiming /\ at[c] = 1)
    BY <1>2, OwnFacts
  <2> QED BY <2>1, <2>2, <2>3
<1>12. NoQueue(t, k)
  <2> SUFFICES ASSUME NEW q \in Queues, bq[q].live, bq[q].owner = t, bq[q].bh = k PROVE FALSE
    BY DEF NoQueue
  <2>1. HasIn(stack[t], k, {"marked"}) BY <1>11
  <2>2. PICK j \in 1..Len(stack[t]) : stack[t][j].upd = k /\ stack[t][j].kind = "marked"
    BY <2>1 DEF HasIn
  <2>3. 1 \in 1..Len(stack[t]) BY <1>3
  <2>4. j = 1 BY <1>2, <1>4, <2>2, <2>3, DistinctFrames
  <2> QED BY <1>5, <2>2, <2>4
<1>13. stack' = stack /\ bq' = bq BY <1>5 DEF blocking
<1>14. \A q \in Queues : Stays(q, t, {}) => HasIn(stack'[t], bq[q].bh, {"marked"})
         /\ ind'[bq[q].bh] # TSO(t)
  BY <1>7, <1>11, <1>13, PointerTags DEF Stays
<1>15. ASSUME NEW x \in Closures
       PROVE  /\ Owner(x)' = t => HasIn(stack'[t], x, {"bh", "marked"})
              /\ info'[x] = "BLACKHOLE" => ind'[x] # Null
  <2>1. CASE x = k
    <3>1. Owner(x)' = NoThread BY <1>1, <1>7, <1>10, <2>1, OwnerSame, PointerTags
    <3> QED BY <1>2, <1>7, <2>1, <3>1, Distinct, PointerTags
  <2>2. CASE x # k
    <3>1. Owner(x)' = Owner(x) /\ ind'[x] = ind[x] BY <1>1, <1>7, <1>10, <2>2, OwnerSame
    <3> QED BY <1>2, <1>11, <1>13, <3>1
  <2> QED BY <2>1, <2>2
<1>16. \A i \in 1..Len(stack'[t]) : stack'[t][i].kind = "bh"
         => info'[stack'[t][i].upd] = "BLACKHOLE"
  BY <1>2, <1>11, <1>13 DEF Claiming
<1>17. PICK f, k0 : f = stack[t][1] /\ k0 = stack[t][1].upd OBVIOUS
<1>18. WorkAt(c, t, f, k0)'
  <2>1. Owner(k)' # t
    <3>1. Owner(k)' = NoThread BY <1>1, <1>7, <1>10, OwnerSame, PointerTags
    <3> QED BY <1>2, <3>1, Distinct
  <2>2. ind'[k] # Null BY <1>7, PointerTags
  <2>3. NoQueue(t, k)' BY <1>12, <1>13 DEF NoQueue
  <2>4. \A q \in Queues : upd'[c].seen # BQ(q) BY <1>9, PointerTags
  <2> QED BY <1>4, <1>8, <1>9, <1>17, <2>1, <2>2, <2>3, <2>4 DEF WorkAt
<1>19. Shared' BY <1>1, <1>2, <1>10, <1>13, <1>14, <1>15, <1>16, <1>17, <1>18, OwnStepOK DEF Shared
<1>20. APsOnce' BY <1>1, <1>2, <1>13, APStep DEF Sharing
<1> QED BY <1>19, <1>20

\* stg_marked_upd_frame keeps them right, when it begins an update.
LEMMA ReturnClaimedShares ==
  ASSUME Types, StacksOK, Ranked, Sharing, NEW c \in Caps, Return(c), NEW t, t = running[c],
         ReturnClaimed(c, t)
  PROVE  Shared' /\ APsOnce'
<1>1. Types' /\ StacksOK' BY ReturnTypes
<1>2. /\ t \in Threads /\ pc[c] = "run" /\ at[c] = 1
      /\ stack[t][1].kind # "stop" /\ stack[t][1].upd \in Closures
      /\ UNCHANGED <<info, code, enter, block_info, running, at, cur, home, events>>
  BY ReturnDoes
<1>3. /\ StackOK(stack[t]) /\ Len(stack[t]) \in Nat /\ Len(stack[t]) > 0 /\ pc \in [Caps -> Places]
  BY <1>2, RunsOn
<1>4. PICK k \in Closures : k = stack[t][1].upd BY <1>2
<1>5. /\ upd' = [upd EXCEPT ![c] = Update(Value, ind[k])]
      /\ pc' = [pc EXCEPT ![c] = "store_ind"]
      /\ UNCHANGED <<ind, blocking, why, stack>>
  BY <1>4 DEF ReturnClaimed
<1>6. pc'[c] = "store_ind" /\ \A d \in Caps \ {c} : pc'[d] = pc[d] BY <1>3, <1>5
<1>7. upd'[c].val = Value /\ upd'[c].seen = ind[k] /\ \A d \in Caps \ {c} : upd'[d] = upd[d]
  <2>1. Value \in Pointers BY PointerKinds
  <2>2. PICK p \in Pointers : p = ind[k] BY DEF Types
  <2>3. upd' = [upd EXCEPT ![c] = Update(Value, p)] BY <1>5, <2>2
  <2>4. upd'[c].val = Value /\ upd'[c].seen = p /\ \A d \in Caps \ {c} : upd'[d] = upd[d]
    BY <2>1, <2>3, UpdTypes
  <2> QED BY <2>2, <2>4
<1>8. OwnStep(c, t, {}) BY <1>2, <1>5, <1>6, <1>7, PlainOwn DEF blocking
<1>9. /\ \A q \in Queues : bq[q].live /\ bq[q].owner = t =>
            HasIn(stack[t], bq[q].bh, {"marked"}) /\ ind[bq[q].bh] # TSO(t) /\ bq[q].bh \in Closures
      /\ \A x \in Closures : /\ Owner(x) = t => HasIn(stack[t], x, {"bh", "marked"})
                             /\ info[x] = "BLACKHOLE" => ind[x] # Null
                             /\ \A q \in Queues : ind[x] = BQ(q) => bq[q].live /\ bq[q].bh = x
      /\ \A i \in 1..Len(stack[t]) : stack[t][i].kind = "bh" =>
              info[stack[t][i].upd] = "BLACKHOLE" \/ (i = 1 /\ pc[c] \in Claiming /\ at[c] = 1)
  <2>1. \A q \in Queues : bq[q].live /\ bq[q].owner = t =>
           HasIn(stack[t], bq[q].bh, {"marked"}) /\ ind[bq[q].bh] # TSO(t) /\ bq[q].bh \in Closures
    BY <1>2, OwnFacts
  <2>2. \A x \in Closures : /\ Owner(x) = t => HasIn(stack[t], x, {"bh", "marked"})
                            /\ info[x] = "BLACKHOLE" => ind[x] # Null
                            /\ \A q \in Queues : ind[x] = BQ(q) => bq[q].live /\ bq[q].bh = x
    BY <1>2, OwnFacts
  <2>3. \A i \in 1..Len(stack[t]) : stack[t][i].kind = "bh" =>
             info[stack[t][i].upd] = "BLACKHOLE" \/ (i = 1 /\ pc[c] \in Claiming /\ at[c] = 1)
    BY <1>2, OwnFacts
  <2> QED BY <2>1, <2>2, <2>3
<1>10. stack' = stack /\ bq' = bq /\ ind' = ind BY <1>5 DEF blocking
<1>11. \A q \in Queues : Stays(q, t, {}) => HasIn(stack'[t], bq[q].bh, {"marked"})
         /\ ind'[bq[q].bh] # TSO(t)
  BY <1>9, <1>10 DEF Stays
<1>12. ASSUME NEW x \in Closures
       PROVE  /\ Owner(x)' = t => HasIn(stack'[t], x, {"bh", "marked"})
              /\ info'[x] = "BLACKHOLE" => ind'[x] # Null
  <2>1. Owner(x)' = Owner(x) BY <1>1, <1>8, <1>10, OwnerSame
  <2> QED BY <1>2, <1>9, <1>10, <2>1
<1>13. \A i \in 1..Len(stack'[t]) : stack'[t][i].kind = "bh"
         => info'[stack'[t][i].upd] = "BLACKHOLE"
  BY <1>2, <1>9, <1>10 DEF Claiming
<1>14. PICK f, k0 : f = stack[t][1] /\ k0 = stack[t][1].upd OBVIOUS
<1>15. WorkAt(c, t, f, k0)'
  <2>1. ind[k] = TSO(t) => NoQueue(t, k)' BY <1>9, <1>10 DEF NoQueue
  <2>2. \A q \in Queues : ind[k] = BQ(q) => bq'[q].bh = k BY <1>9, <1>10
  <2> QED BY <1>4, <1>6, <1>7, <1>14, <2>1, <2>2 DEF WorkAt
<1>16. Shared' BY <1>1, <1>2, <1>8, <1>10, <1>11, <1>12, <1>13, <1>14, <1>15, OwnStepOK DEF Shared
<1>17. APsOnce' BY <1>1, <1>2, <1>10, APStep DEF Sharing
<1> QED BY <1>16, <1>17

\* Where the frames of a stack are after its first has been popped
LEMMA PopFrames ==
  ASSUME NEW s, NEW p, StackOK(s), s[1].kind # "stop", Popped(s, p)
  PROVE  /\ \A i \in 1..Len(p) : i + 1 \in 1..Len(s) /\ p[i] = s[i + 1]
         /\ Len(p) = Len(s) - 1 /\ Len(s) \in Nat /\ Len(s) > 1
         /\ \A i \in 2..Len(s) : i - 1 \in 1..Len(p) /\ p[i - 1] = s[i]
<1>1. Len(s) \in Nat /\ Len(s) > 0 /\ Len(p) = Len(s) - 1 BY DEF StackOK, Popped
<1>2. Len(s) # 1 BY <1>1 DEF StackOK
<1>3. ASSUME NEW i \in 1..Len(p) PROVE i + 1 \in 1..Len(s) /\ p[i] = s[i + 1] BY <1>1 DEF Popped
<1>4. ASSUME NEW i \in 2..Len(s) PROVE i - 1 \in 1..Len(p) /\ p[i - 1] = s[i]
  <2>1. PICK j : j = i - 1 OBVIOUS
  <2>2. j \in 1..Len(p) /\ i = j + 1 BY <1>1, <2>1
  <2>3. p[j] = s[j + 1] BY <1>3, <2>2
  <2> QED BY <2>1, <2>2, <2>3
<1> QED BY <1>1, <1>2, <1>3, <1>4

\* ... and when it finds the value of another thread: checkBlockingQueues wakes the queues that
\* the update of the other has left behind.
LEMMA ReturnDiscardShares ==
  ASSUME Types, StacksOK, Ranked, Sharing, NEW c \in Caps, Return(c), NEW t, t = running[c],
         ReturnDiscard(c, t)
  PROVE  Shared' /\ APsOnce'
<1>1. Types' /\ StacksOK' BY ReturnTypes
<1>2. /\ t \in Threads /\ pc[c] = "run" /\ at[c] = 1
      /\ stack[t][1].kind # "stop" /\ stack[t][1].upd \in Closures
      /\ UNCHANGED <<info, code, enter, block_info, running, at, cur, home, events>>
  BY ReturnDoes
<1>3. /\ StackOK(stack[t]) /\ Len(stack[t]) \in Nat /\ Len(stack[t]) > 0
      /\ pc \in [Caps -> Places] /\ home[t] = c
      /\ stack \in [Threads -> Seq(Frames)]
  BY <1>2, RunsOn
<1>4. PICK k \in Closures : k = stack[t][1].upd BY <1>2
<1>5. PICK p : p = Tail(stack[t]) OBVIOUS
<1>6. PICK K : K = Orphans(t) OBVIOUS
<1>7. /\ ind[k] = Value /\ WakeQueues(c, K)
      /\ stack' = [stack EXCEPT ![t] = p] /\ Popped(stack[t], p)
      /\ UNCHANGED <<ind, upd, pc, msg, inbox>>
  BY <1>6, <1>5, <1>4 DEF ReturnDiscard
<1>8. stack'[t] = p /\ \A u \in Threads \ {t} : stack'[u] = stack[u] BY <1>2, <1>3, <1>7
<1>9. Woken(K) BY <1>7, WakeQueuesTypes DEF Woken
<1>10. K \subseteq QueuesOf(t) BY <1>6 DEF Orphans
<1>11. OwnStep(c, t, K) BY <1>2, <1>3, <1>7, <1>8, <1>9, <1>10 DEF OwnStep, QueuesOf
<1>12. /\ \A q \in Queues : bq[q].live /\ bq[q].owner = t =>
             HasIn(stack[t], bq[q].bh, {"marked"}) /\ ind[bq[q].bh] # TSO(t)
               /\ bq[q].bh \in Closures
       /\ \A x \in Closures : /\ Owner(x) = t => HasIn(stack[t], x, {"bh", "marked"})
                              /\ info[x] = "BLACKHOLE" => ind[x] # Null
       /\ \A i \in 1..Len(stack[t]) : stack[t][i].kind = "bh" =>
               info[stack[t][i].upd] = "BLACKHOLE" \/ (i = 1 /\ pc[c] \in Claiming /\ at[c] = 1)
  <2>1. \A q \in Queues : bq[q].live /\ bq[q].owner = t =>
           HasIn(stack[t], bq[q].bh, {"marked"}) /\ ind[bq[q].bh] # TSO(t) /\ bq[q].bh \in Closures
    BY <1>2, OwnFacts
  <2>2. \A x \in Closures : /\ Owner(x) = t => HasIn(stack[t], x, {"bh", "marked"})
                            /\ info[x] = "BLACKHOLE" => ind[x] # Null
    BY <1>2, OwnFacts
  <2>3. \A i \in 1..Len(stack[t]) : stack[t][i].kind = "bh" =>
             info[stack[t][i].upd] = "BLACKHOLE" \/ (i = 1 /\ pc[c] \in Claiming /\ at[c] = 1)
    BY <1>2, OwnFacts
  <2> QED BY <2>1, <2>2, <2>3
<1>13. \A q \in K : \A x \in Closures : ind[x] # BQ(q)
  <2>1. \A q \in Orphans(t) : \A x \in Closures : ind[x] # BQ(q) BY <1>2, OwnFacts
  <2> QED BY <1>6, <2>1
<1>14. ASSUME NEW x, NEW kinds, HasIn(stack[t], x, kinds), x # k PROVE HasIn(p, x, kinds)
  BY <1>3, <1>4, <1>7, <1>14, PopHas
<1>15. ASSUME NEW q \in Queues, Stays(q, t, K)
       PROVE  HasIn(stack'[t], bq[q].bh, {"marked"}) /\ ind'[bq[q].bh] # TSO(t)
  <2>1. bq[q].live /\ bq[q].owner = t /\ q \notin K BY <1>15 DEF Stays
  <2>2. ind[bq[q].bh] = BQ(q) BY <1>6, <2>1 DEF Orphans, QueuesOf
  <2>3. bq[q].bh # k BY <1>7, <2>2, PointerTags
  <2> QED BY <1>7, <1>8, <1>12, <1>14, <2>1, <2>3
<1>16. ASSUME NEW x \in Closures
       PROVE  /\ Owner(x)' = t => HasIn(stack'[t], x, {"bh", "marked"})
              /\ info'[x] = "BLACKHOLE" => ind'[x] # Null
  <2>1. Owner(x)' = Owner(x) BY <1>1, <1>7, <1>11, OwnerSame
  <2>2. Owner(k) = NoThread BY <1>7, PointerTags DEF Owner
  <2>3. Owner(x) = t => x # k BY <1>2, <2>2, Distinct
  <2> QED BY <1>2, <1>7, <1>8, <1>12, <1>14, <2>1, <2>3
<1>17. ASSUME NEW i \in 1..Len(stack'[t]), stack'[t][i].kind = "bh"
       PROVE  info'[stack'[t][i].upd] = "BLACKHOLE"
  <2>1. i + 1 \in 1..Len(stack[t]) /\ p[i] = stack[t][i + 1] BY <1>2, <1>3, <1>7, <1>8, PopFrames
  <2> QED BY <1>2, <1>8, <1>12, <1>17, <2>1 DEF Claiming
<1>18. PICK f, k0 : f = stack'[t][1] /\ k0 = stack'[t][1].upd OBVIOUS
<1>19. WorkAt(c, t, f, k0)' BY <1>2, <1>7 DEF WorkAt, Storing
<1>20. Shared'
  BY <1>1, <1>2, <1>7, <1>13, <1>11, <1>15, <1>16, <1>17, <1>18, <1>19, OwnStepOK DEF Shared
<1>21. APsOnce'
  <2>1. ASSUME NEW i \in 1..Len(stack'[t])
        PROVE  \E j \in 1..Len(stack[t]) : stack[t][j].upd = stack'[t][i].upd
    <3>1. i + 1 \in 1..Len(stack[t]) /\ p[i] = stack[t][i + 1] BY <1>2, <1>3, <1>7, <1>8, PopFrames
    <3> QED BY <1>8, <3>1
  <2>2. ASSUME NEW u \in Threads, NEW x \in APs, NEW i \in 1..Len(stack'[u]), stack'[u][i].upd = x
        PROVE  \E j \in 1..Len(stack[u]) : stack[u][j].upd = x
    <3>1. CASE u = t BY <2>1, <2>2, <3>1
    <3>2. CASE u # t BY <1>8, <2>2, <3>2
    <3> QED BY <3>1, <3>2
  <2> QED BY <1>1, <1>2, <2>2, APStep DEF Sharing
<1> QED BY <1>20, <1>21

\* The return to an update frame keeps what threads share right.
LEMMA ReturnShares ==
  ASSUME Types, StacksOK, Ranked, Sharing, NEW c \in Caps, Return(c)
  PROVE  Shared' /\ APsOnce'
<1>1. PICK t : t = running[c] OBVIOUS
<1>2. ReturnPlain(c, t) \/ ReturnDiscard(c, t) \/ ReturnClaimed(c, t) BY <1>1, ReturnDoes
<1> QED BY <1>1, <1>2, ReturnPlainShares, ReturnDiscardShares, ReturnClaimedShares

\* updateThunk's store of the indirectee keeps what threads share right.
LEMMA StoreIndirecteeShares ==
  ASSUME Types, StacksOK, Ranked, Sharing, NEW c \in Caps, StoreIndirectee(c)
  PROVE  Shared' /\ APsOnce'
<1>1. Types' /\ StacksOK' BY StoreIndirecteeTypes
<1>2. pc[c] = "store_ind" BY DEF StoreIndirectee
<1>3. PICK t : t = running[c] OBVIOUS
<1>4. /\ t \in Threads /\ t # NoThread /\ StackOK(stack[t]) /\ AtOK(c, stack[t], at[c])
      /\ Top(t) = stack[t][1]
      /\ Len(stack[t]) \in Nat /\ Len(stack[t]) > 0 /\ at[c] \in 1..Len(stack[t])
      /\ pc \in [Caps -> Places]
  BY <1>2, <1>3, RunsOn
<1>5. stack[t][1].kind # "stop" /\ (upd[c].val = Value \/ upd[c].val.to = "closure")
  BY <1>2, <1>4 DEF AtOK, Storing
<1>6. PICK k \in Closures : k = stack[t][1].upd
  <2>1. 1 \in 1..Len(stack[t]) BY <1>4
  <2> QED BY <1>4, <1>5, <2>1, FrameUpd
<1>7. /\ ind' = [ind EXCEPT ![k] = upd[c].val] /\ pc' = [pc EXCEPT ![c] = "store_info"]
      /\ UNCHANGED <<info, code, blocking, thread, running, at, upd, cur, events>>
  BY <1>3, <1>4, <1>6 DEF StoreIndirectee, Goto
<1>8. ind \in [Closures -> Pointers] BY DEF Types
<1>9. ind'[k] = upd[c].val /\ ind'[k].to \in {"value", "closure"}
        /\ (\A x \in Closures \ {k} : ind'[x] = ind[x])
  BY <1>5, <1>7, <1>8, PointerTags
<1>10. pc'[c] = "store_info" /\ \A d \in Caps \ {c} : pc'[d] = pc[d] BY <1>4, <1>7
<1>11. OwnStep(c, t, {}) BY <1>2, <1>3, <1>7, <1>9, <1>10, PlainOwn DEF blocking, thread
<1>12. /\ \A q \in Queues : bq[q].live /\ bq[q].owner = t
            => HasIn(stack[t], bq[q].bh, {"marked"}) /\ ind[bq[q].bh] # TSO(t)
              /\ bq[q].bh \in Closures
       /\ \A x \in Closures : (Owner(x) = t => HasIn(stack[t], x, {"bh", "marked"}))
            /\ (info[x] = "BLACKHOLE" => ind[x] # Null)
       /\ \A i \in 1..Len(stack[t]) : stack[t][i].kind = "bh" =>
               info[stack[t][i].upd] = "BLACKHOLE" \/ (i = 1 /\ pc[c] \in Claiming /\ at[c] = 1)
  BY <1>2, <1>3, OwnFacts
<1>13. WorkAt(c, t, stack[t][at[c]], k) BY <1>2, <1>3, <1>6, OwnFacts
<1>14. stack' = stack /\ bq' = bq /\ upd' = upd /\ at' = at /\ info' = info
  BY <1>7 DEF blocking, thread
<1>15. \A q \in Queues : Stays(q, t, {}) => HasIn(stack'[t], bq[q].bh, {"marked"})
         /\ ind'[bq[q].bh] # TSO(t)
  BY <1>9, <1>12, <1>14, PointerTags DEF Stays
<1>16. Owner(k)' = NoThread BY <1>1, <1>9, <1>11, OwnerSame
<1>17. ASSUME NEW x \in Closures
       PROVE  /\ Owner(x)' = t => HasIn(stack'[t], x, {"bh", "marked"})
              /\ info'[x] = "BLACKHOLE" => ind'[x] # Null
  <2>1. CASE x = k BY <1>4, <1>9, <1>16, <2>1, PointerTags
  <2>2. CASE x # k
    <3>1. Owner(x)' = Owner(x) /\ ind'[x] = ind[x] BY <1>1, <1>9, <1>11, <2>2, OwnerSame
    <3> QED BY <1>12, <1>14, <3>1
  <2> QED BY <2>1, <2>2
<1>18. \A i \in 1..Len(stack'[t]) : stack'[t][i].kind = "bh"
         => info'[stack'[t][i].upd] = "BLACKHOLE"
  BY <1>2, <1>12, <1>14 DEF Claiming
<1>19. PICK f : f = stack[t][at[c]] OBVIOUS
<1>20. WorkAt(c, t, f, k)'
  <2>1. Owner(k)' # t BY <1>4, <1>16
  <2>2. ind'[k] # Null BY <1>9, PointerTags
  <2>3. upd[c].seen = TSO(t) => NoQueue(t, k)' BY <1>2, <1>13, <1>14 DEF NoQueue, WorkAt, Storing
  <2>4. \A q \in Queues : upd[c].seen = BQ(q) /\ bq'[q].live /\ bq'[q].owner = t => bq'[q].bh = k
    BY <1>2, <1>13, <1>14 DEF WorkAt, Storing
  <2>5. ASSUME upd[c].val # Value, f.kind # "stop" PROVE Owner(f.upd)' # t
    <3>1. f.upd \in Closures BY <1>4, <1>19, <2>5, FrameUpd
    <3>2. Owner(f.upd) # t BY <1>2, <1>13, <1>19, <2>5 DEF WorkAt, Storing
    <3>3. CASE f.upd = k BY <2>1, <3>3
    <3>4. CASE f.upd # k
      <4>1. Owner(f.upd)' = Owner(f.upd) BY <1>1, <1>9, <1>11, <3>1, <3>4, OwnerSame
      <4> QED BY <3>2, <4>1
    <3> QED BY <3>3, <3>4
  <2> QED BY <1>10, <1>14, <2>1, <2>2, <2>3, <2>4, <2>5 DEF WorkAt
<1>21. Shared' BY <1>1, <1>6, <1>11, <1>14, <1>15, <1>17, <1>18, <1>19, <1>20, OwnStepOK DEF Shared
<1>22. APsOnce' BY <1>1, <1>14, APStep DEF Sharing
<1> QED BY <1>21, <1>22

\* StoreInfo leaves no queue of t for the closure that has been updated.
LEMMA AllWoken ==
  ASSUME Types, StacksOK, Sharing, NEW c \in Caps, NEW t, t = running[c], pc[c] = "store_info",
         NEW k \in Closures, k = stack[t][1].upd, NEW K, K = ToWake(t, upd[c].seen)
  PROVE  /\ K \subseteq QueuesOf(t)
         /\ \A q \in K : \A x \in Closures : ind[x] # BQ(q)
         /\ \A q \in Queues : Stays(q, t, K) => bq[q].bh # k
<1>1. t \in Threads /\ t # NoThread BY RunsOn
<1>2. /\ \A x \in Closures : \A q \in Queues : ind[x] = BQ(q) => bq[q].live /\ bq[q].bh = x
      /\ WorkAt(c, t, stack[t][at[c]], k)
  BY OwnFacts
<1>3. \A q \in Orphans(t) : \A x \in Closures : ind[x] # BQ(q) BY OwnFacts
<1>4. Owner(k) # t BY <1>2 DEF WorkAt
<1>5. CASE upd[c].seen = TSO(t)
  <2>1. K = {} BY <1>5, PointerTags DEF ToWake
  <2>2. NoQueue(t, k) BY <1>2, <1>5 DEF WorkAt, Storing
  <2> QED BY <2>1, <2>2 DEF NoQueue, Stays
<1>6. CASE upd[c].seen.to = "bq" /\ upd[c].seen.id \in QueuesOf(t)
  <2>1. upd[c].seen # TSO(t) BY <1>6, PointerTags
  <2>2. PICK q0 \in QueuesOf(t) : q0 = upd[c].seen.id BY <1>6
  <2>3. K = {q0} BY <1>6, <2>1, <2>2 DEF ToWake
  <2>4. q0 \in Queues /\ bq[q0].live /\ bq[q0].owner = t BY <2>2 DEF QueuesOf
  <2>5. upd[c].seen = BQ(q0)
    <3>1. upd[c].seen \in Pointers BY DEF Types
    <3> QED BY <1>6, <2>2, <3>1, PointerKinds, PointerTags
  <2>6. bq[q0].bh = k BY <1>2, <2>4, <2>5 DEF WorkAt, Storing
  <2>7. ASSUME NEW x \in Closures, ind[x] = BQ(q0) PROVE FALSE
    <3>1. x = k BY <1>2, <2>4, <2>6, <2>7
    <3>2. Owner(k) = bq[q0].owner
      <4>1. ind[k].to = "bq" /\ ind[k].id = q0 BY <2>7, <3>1, PointerTags
      <4> QED BY <4>1 DEF Owner
    <3> QED BY <1>4, <2>4, <3>2
  <2>8. ASSUME NEW q \in Queues, Stays(q, t, K), bq[q].bh = k PROVE FALSE
    <3>1. bq[q].live /\ bq[q].owner = t /\ q # q0 BY <2>3, <2>8 DEF Stays
    <3> QED BY <2>4, <2>6, <2>8, <3>1 DEF Sharing, QueuesOK
  <2> QED BY <2>2, <2>3, <2>7, <2>8
<1>7. CASE upd[c].seen # TSO(t) /\ ~(upd[c].seen.to = "bq" /\ upd[c].seen.id \in QueuesOf(t))
  <2>1. K = Orphans(t) BY <1>7 DEF ToWake
  <2>2. K \subseteq QueuesOf(t) BY <2>1 DEF Orphans
  <2>3. ASSUME NEW q \in Queues, Stays(q, t, K), bq[q].bh = k PROVE FALSE
    <3>1. bq[q].live /\ bq[q].owner = t /\ q \notin Orphans(t) BY <2>1, <2>3 DEF Stays
    <3>2. ind[k] = BQ(q) BY <2>3, <3>1 DEF Orphans, QueuesOf
    <3>3. Owner(k) = bq[q].owner BY <3>2, PointerTags DEF Owner
    <3> QED BY <1>4, <3>1, <3>3
  <2>4. \A q \in K : \A x \in Closures : ind[x] # BQ(q) BY <1>3, <2>1
  <2> QED BY <2>2, <2>3, <2>4
<1> QED BY <1>5, <1>6, <1>7

\* updateThunk's store of the info pointer, with its wakeups, keeps what threads share right.
LEMMA StoreInfoShares ==
  ASSUME Types, StacksOK, Ranked, Sharing, NEW c \in Caps, StoreInfo(c)
  PROVE  Shared' /\ APsOnce'
<1>1. Types' /\ StacksOK' BY StoreInfoTypes
<1>2. PICK t : t = running[c] OBVIOUS
<1>3. StoreInfoDone(c, t) /\ (StoreInfoValue(c, t) \/ StoreInfoFrozen(c, t)) BY <1>2, StoreInfoDoes
<1>4. PICK p : p = Tail(stack[t]) OBVIOUS
<1>5. PICK K : K = ToWake(t, upd[c].seen) OBVIOUS
<1>6. PICK k \in Closures : k = stack[t][1].upd BY <1>3 DEF StoreInfoDone
<1>7. /\ t \in Threads /\ pc[c] = "store_info" /\ running[c] = t /\ stack[t][1].kind # "stop"
      /\ Popped(stack[t], p) /\ stack' = [stack EXCEPT ![t] = p]
      /\ info' = [info EXCEPT ![k] = "BLACKHOLE"]
      /\ WakeQueues(c, K)
      /\ upd' = [upd EXCEPT ![c] = NoUpdate]
      /\ UNCHANGED <<ind, code, msg, inbox, block_info, running, cur, home, events>>
  BY <1>3, <1>4, <1>5, <1>6 DEF StoreInfoDone
<1>8. /\ StackOK(stack[t]) /\ Len(stack[t]) \in Nat /\ Len(stack[t]) > 0
      /\ pc \in [Caps -> Places] /\ home[t] = c
      /\ stack \in [Threads -> Seq(Frames)] /\ at \in [Caps -> Nat \ {0}]
  BY <1>7, RunsOn
<1>9. stack'[t] = p /\ \A u \in Threads \ {t} : stack'[u] = stack[u] BY <1>7, <1>8
<1>10. info'[k] = "BLACKHOLE" /\ (\A x \in Closures \ {k} : info'[x] = info[x])
  <2>1. info \in [Closures -> {"unallocated", "THUNK", "AP_STACK", "WHITEHOLE", "BLACKHOLE"}]
    BY DEF Types
  <2> QED BY <1>7, <2>1
<1>11. /\ \A d \in Caps \ {c} : pc'[d] = pc[d] /\ at'[d] = at[d] /\ upd'[d] = upd[d]
       /\ \/ pc'[c] = "run"
          \/ /\ pc'[c] = "freeze" /\ at'[c] = at[c] - 1 /\ at[c] \in 2..Len(stack[t])
             /\ upd[c].val # Value
  <2>1. upd \in [Caps -> [val : Pointers, seen : Pointers]] BY DEF Types
  <2>2. \A d \in Caps \ {c} : upd'[d] = upd[d] BY <1>7, <2>1
  <2>3. CASE StoreInfoValue(c, t) BY <1>8, <2>2, <2>3 DEF StoreInfoValue
  <2>4. CASE StoreInfoFrozen(c, t)
    <3>1. upd[c].val.to = "closure" /\ at[c] \in 2..Len(stack[t])
            /\ at' = [at EXCEPT ![c] = at[c] - 1]
          /\ pc' = [pc EXCEPT ![c] = "freeze"] BY <2>4 DEF StoreInfoFrozen
    <3>2. upd[c].val # Value BY <3>1, PointerTags
    <3>3. at'[c] = at[c] - 1 /\ \A d \in Caps \ {c} : at'[d] = at[d] BY <1>8, <3>1
    <3>4. pc'[c] = "freeze" /\ \A d \in Caps \ {c} : pc'[d] = pc[d] BY <1>8, <3>1
    <3> QED BY <2>2, <3>1, <3>2, <3>3, <3>4
  <2> QED BY <1>3, <2>3, <2>4
<1>12. /\ K \subseteq QueuesOf(t)
       /\ \A q \in K : \A x \in Closures : ind[x] # BQ(q)
       /\ \A q \in Queues : Stays(q, t, K) => bq[q].bh # k
  <2>1. t = running[c] /\ pc[c] = "store_info" BY <1>7
  <2>2. K \subseteq QueuesOf(t) BY <1>5, <1>6, <2>1, AllWoken
  <2>3. \A q \in K : \A x \in Closures : ind[x] # BQ(q) BY <1>5, <1>6, <2>1, AllWoken
  <2>4. \A q \in Queues : Stays(q, t, K) => bq[q].bh # k BY <1>5, <1>6, <2>1, AllWoken
  <2> QED BY <2>2, <2>3, <2>4
<1>13. OwnStep(c, t, K)
  <2>1. Woken(K) BY <1>7, WakeQueuesTypes DEF Woken
  <2> QED BY <1>7, <1>8, <1>9, <1>10, <1>11, <1>12, <2>1 DEF OwnStep, QueuesOf
<1>14. /\ \A q \in Queues : bq[q].live /\ bq[q].owner = t
            => HasIn(stack[t], bq[q].bh, {"marked"}) /\ ind[bq[q].bh] # TSO(t)
              /\ bq[q].bh \in Closures
       /\ \A x \in Closures : (Owner(x) = t => HasIn(stack[t], x, {"bh", "marked"}))
            /\ (info[x] = "BLACKHOLE" => ind[x] # Null)
       /\ \A i \in 1..Len(stack[t]) : stack[t][i].kind = "bh" =>
               info[stack[t][i].upd] = "BLACKHOLE" \/ (i = 1 /\ pc[c] \in Claiming /\ at[c] = 1)
  BY <1>2, <1>7, OwnFacts
<1>15. WorkAt(c, t, stack[t][at[c]], k) BY <1>2, <1>6, <1>7, OwnFacts
<1>16. ASSUME NEW x, NEW kinds, HasIn(stack[t], x, kinds), x # k PROVE HasIn(p, x, kinds)
  BY <1>6, <1>7, <1>8, <1>16, PopHas
<1>17. \A q \in Queues : Stays(q, t, K) => HasIn(stack'[t], bq[q].bh, {"marked"})
         /\ ind'[bq[q].bh] # TSO(t)
  BY <1>7, <1>9, <1>12, <1>14, <1>16 DEF Stays
<1>18. ASSUME NEW x \in Closures
       PROVE  /\ Owner(x)' = t => HasIn(stack'[t], x, {"bh", "marked"})
              /\ info'[x] = "BLACKHOLE" => ind'[x] # Null
  <2>1. Owner(x)' = Owner(x) BY <1>1, <1>7, <1>13, OwnerSame
  <2>2. Owner(k) # t /\ ind[k] # Null BY <1>7, <1>15 DEF WorkAt
  <2>3. info'[x] = "BLACKHOLE" => ind'[x] # Null BY <1>7, <1>10, <1>14, <2>2
  <2> QED BY <1>9, <1>14, <1>16, <2>1, <2>2, <2>3
<1>19. ASSUME NEW i \in 1..Len(stack'[t]), stack'[t][i].kind = "bh"
       PROVE  info'[stack'[t][i].upd] = "BLACKHOLE"
  <2>1. i + 1 \in 1..Len(stack[t]) /\ p[i] = stack[t][i + 1] BY <1>7, <1>8, <1>9, PopFrames
  <2>2. info[p[i].upd] = "BLACKHOLE" BY <1>7, <1>9, <1>14, <1>19, <2>1 DEF Claiming
  <2>3. p[i].upd \in Closures
    <3>1. p[i].kind # "stop" BY <1>9, <1>19
    <3> QED BY <1>8, <2>1, <3>1 DEF StackOK
  <2> QED BY <1>9, <1>10, <2>2, <2>3
<1>20. PICK f, k0 : f = stack'[t][at'[c]] /\ k0 = stack'[t][1].upd OBVIOUS
<1>21. WorkAt(c, t, f, k0)'
  <2>1. CASE pc'[c] = "run" BY <2>1 DEF WorkAt, Storing
  <2>2. CASE pc'[c] # "run"
    <3>1. pc'[c] = "freeze" /\ at'[c] = at[c] - 1 /\ at[c] \in 2..Len(stack[t])
            /\ upd[c].val # Value
      BY <1>11, <2>2
    <3>2. f = stack[t][at[c]] BY <1>7, <1>8, <1>9, <1>20, <3>1, PopFrames
    <3>3. ASSUME f.kind # "stop" PROVE Owner(f.upd)' # t
      <4>1. f.upd \in Closures
        <5>1. at[c] \in 1..Len(stack[t]) BY <3>1
        <5> QED BY <1>8, <3>2, <3>3, <5>1, FrameUpd
      <4>2. Owner(f.upd) # t BY <1>7, <1>15, <3>1, <3>2, <3>3 DEF WorkAt, Storing
      <4>3. Owner(f.upd)' = Owner(f.upd) BY <1>1, <1>7, <1>13, <4>1, OwnerSame
      <4> QED BY <4>2, <4>3
    <3> QED BY <3>1, <3>3 DEF WorkAt, Storing
  <2> QED BY <2>1, <2>2
<1>22. Shared' BY <1>1, <1>7, <1>12, <1>13, <1>17, <1>18, <1>19, <1>20, <1>21, OwnStepOK DEF Shared
<1>23. APsOnce'
  <2>1. ASSUME NEW i \in 1..Len(stack'[t])
        PROVE  \E j \in 1..Len(stack[t]) : stack[t][j].upd = stack'[t][i].upd
    <3>1. i + 1 \in 1..Len(stack[t]) /\ p[i] = stack[t][i + 1] BY <1>7, <1>8, <1>9, PopFrames
    <3> QED BY <1>9, <3>1
  <2>2. ASSUME NEW u \in Threads, NEW x \in APs, NEW i \in 1..Len(stack'[u]), stack'[u][i].upd = x
        PROVE  \E j \in 1..Len(stack[u]) : stack[u][j].upd = x
    <3>1. CASE u = t BY <2>1, <2>2, <3>1
    <3>2. CASE u # t BY <1>9, <2>2, <3>2
    <3> QED BY <3>1, <3>2
  <2>3. \A x \in APs : info'[x] = info[x] \/ info'[x] = "BLACKHOLE" BY <1>10, Distinct
  <2> QED BY <1>1, <2>2, <2>3, APStep DEF Sharing
<1> QED BY <1>22, <1>23

\* What threadPaused and raiseAsync do with the thread that c runs: the stack becomes p.
LEMMA OwnStackStep ==
  ASSUME Types, StacksOK, Sharing, Types', NEW c \in Caps, NEW t, t = running[c],
         pc[c] \notin {"sched", "queue"}, pc[c] \notin Claiming, pc'[c] # "queue", NEW p,
         UNCHANGED <<running, home, cur, inbox, msg, bq, ind>>,
         \A d \in Caps \ {c} : pc'[d] = pc[d] /\ at'[d] = at[d] /\ upd'[d] = upd[d],
         stack'[t] = p, \A u \in Threads \ {t} : stack'[u] = stack[u],
         \A k \in Closures : info[k] = "BLACKHOLE" => info'[k] = "BLACKHOLE",
         \A k \in Closures : info'[k] = "BLACKHOLE" => info[k] = "BLACKHOLE",
         \A q \in Queues : bq[q].live /\ bq[q].owner = t => HasIn(p, bq[q].bh, {"marked"}),
         \A k \in Closures : Owner(k) = t => HasIn(p, k, {"bh", "marked"}),
         \A i \in 1..Len(p) : p[i].kind = "bh" =>
             \/ \E j \in 1..Len(stack[t]) : stack[t][j].kind = "bh" /\ stack[t][j].upd = p[i].upd
             \/ i = 1 /\ pc'[c] \in Claiming /\ at'[c] = 1,
         NEW f, NEW k0, f = p[at'[c]], k0 = p[1].upd, WorkAt(c, t, f, k0)'
  PROVE  Shared'
<1>1. OwnStep(c, t, {}) BY PlainOwn
<1>2. /\ \A q \in Queues : bq[q].live /\ bq[q].owner = t => ind[bq[q].bh] # TSO(t)
      /\ \A x \in Closures : info[x] = "BLACKHOLE" => ind[x] # Null
      /\ \A i \in 1..Len(stack[t]) : stack[t][i].kind = "bh" => stack[t][i].upd \in Closures
           /\ info[stack[t][i].upd] = "BLACKHOLE"
  BY OwnFacts
<1>3. \A q \in Queues : Stays(q, t, {}) => HasIn(stack'[t], bq[q].bh, {"marked"})
        /\ ind'[bq[q].bh] # TSO(t)
  BY <1>2 DEF Stays
<1>4. ASSUME NEW x \in Closures
      PROVE  /\ Owner(x)' = t => HasIn(stack'[t], x, {"bh", "marked"})
             /\ info'[x] = "BLACKHOLE" => ind'[x] # Null
  <2>1. Owner(x)' = Owner(x) BY <1>1, OwnerSame
  <2> QED BY <1>2, <2>1
<1>5. \A i \in 1..Len(stack'[t]) : stack'[t][i].kind = "bh" =>
         info'[stack'[t][i].upd] = "BLACKHOLE" \/ (i = 1 /\ pc'[c] \in Claiming /\ at'[c] = 1)
  BY <1>2
<1> QED BY <1>1, <1>3, <1>4, <1>5, OwnStepOK DEF Shared

\* What is there after a frame has been marked
LEMMA AllHasMarked ==
  ASSUME NEW s, NEW p, NEW n \in 1..Len(s), Marked(s, p, n)
  PROVE  /\ \A x : HasIn(s, x, {"marked"}) => HasIn(p, x, {"marked"})
         /\ \A x : HasIn(s, x, {"bh", "marked"}) => HasIn(p, x, {"bh", "marked"})
         /\ \A i \in 1..Len(p) : /\ i \in 1..Len(s) /\ p[i].upd = s[i].upd
                                 /\ p[i].kind = "bh" => s[i].kind = "bh"
<1>1. \A x : HasIn(s, x, {"marked"}) => HasIn(p, x, {"marked"}) BY MarkHas
<1>2. \A x : HasIn(s, x, {"bh", "marked"}) => HasIn(p, x, {"bh", "marked"}) BY MarkHas
<1> QED BY <1>1, <1>2 DEF Marked

\* A step of threadPaused keeps what threads share right.
LEMMA PauseFrameShares ==
  ASSUME Types, StacksOK, Ranked, Sharing, NEW c \in Caps, PauseFrame(c), running' = running
  PROVE  Shared' /\ APsOnce'
<1>1. Types' /\ StacksOK' BY PauseFrameTypes
<1>2. PICK t, n : t = running[c] /\ n = at[c] OBVIOUS
<1>3. PauseAny(c, t, n) /\ (PauseEnd(c, t, n) \/ PauseFreeze(c, t, n) \/ PauseOwn(c, t, n)
        \/ PauseClaim(c, t, n))
  BY <1>2, PauseDoes
<1>4. /\ t \in Threads /\ running[c] = t /\ pc[c] = "pause" /\ at[c] = n /\ n \in 1..Len(stack[t])
      /\ UNCHANGED <<ind, code, bq, msg, inbox, enter, why, block_info, upd, cur, home, events>>
  BY <1>3 DEF PauseAny, blocking
<1>5. /\ StackOK(stack[t]) /\ pc \in [Caps -> Places] /\ at \in [Caps -> Nat \ {0}] /\ t # NoThread
      /\ stack \in [Threads -> Seq(Frames)]
  BY <1>2, <1>4, RunsOn
<1>6. /\ \A q \in Queues : bq[q].live /\ bq[q].owner = t
           => HasIn(stack[t], bq[q].bh, {"marked"}) /\ info[bq[q].bh] = "BLACKHOLE"
      /\ \A x \in Closures : Owner(x) = t => HasIn(stack[t], x, {"bh", "marked"})
      /\ \A i \in 1..Len(stack[t]) : stack[t][i].kind = "bh" =>
               stack[t][i].upd \in Closures /\ info[stack[t][i].upd] = "BLACKHOLE"
  <2>1. pc[c] \notin {"sched", "queue"} /\ pc[c] \notin Claiming BY <1>4 DEF Claiming
  <2> QED BY <1>2, <2>1, OwnFacts
<1>7. CASE PauseEnd(c, t, n)
  <2>1. running' = [running EXCEPT ![c] = NoThread] BY <1>7 DEF PauseEnd
  <2>2. running \in [Caps -> Threads \cup {NoThread}] BY DEF Types
  <2> QED BY <1>4, <1>5, <2>1, <2>2
<1>8. CASE PauseFreeze(c, t, n)
  <2>1. PICK k \in Closures : k = stack[t][n].upd BY <1>8 DEF PauseFreeze
  <2>2. /\ stack[t][n].kind \in {"upd", "bh"}
        /\ info[k] = "WHITEHOLE" \/ (info[k] = "BLACKHOLE" /\ Owner(k) # t)
        /\ pc' = [pc EXCEPT ![c] = "freeze"] /\ UNCHANGED <<info, stack, running, at>>
    BY <1>8, <2>1 DEF PauseFreeze
  <2>3. pc'[c] = "freeze" /\ \A d \in Caps \ {c} : pc'[d] = pc[d] BY <1>5, <2>2
  <2>4. Owner(k) # t
    <3>1. ASSUME Owner(k) = t, info[k] = "WHITEHOLE" PROVE FALSE
      <4>1. HasIn(stack[t], k, {"bh", "marked"}) BY <1>6, <3>1
      <4>2. PICK j \in 1..Len(stack[t]) : stack[t][j].upd = k
              /\ stack[t][j].kind \in {"bh", "marked"}
        BY <4>1 DEF HasIn
      <4>3. stack[t][n].kind # "stop" BY <2>2
      <4>4. j = n BY <1>4, <2>1, <4>2, <4>3, DistinctFrames
      <4>5. stack[t][n].kind = "bh" BY <2>2, <4>2, <4>4
      <4> QED BY <1>4, <1>6, <2>1, <3>1, <4>5
    <3> QED BY <2>2, <3>1
  <2>5. PICK f, k0 : f = stack[t][at'[c]] /\ k0 = stack[t][1].upd OBVIOUS
  <2>6. WorkAt(c, t, f, k0)'
    <3>1. Owner(k)' # t BY <1>4, <2>4 DEF Owner
    <3>2. f.upd = k BY <1>4, <2>1, <2>2, <2>5
    <3> QED BY <2>3, <3>1, <3>2 DEF WorkAt, Storing
  <2>7. \A d \in Caps \ {c} : pc'[d] = pc[d] /\ at'[d] = at[d] /\ upd'[d] = upd[d]
    BY <1>4, <2>2, <2>3
  <2>8. PICK p : p = stack[t] OBVIOUS
  <2>9. stack'[t] = p /\ (\A u \in Threads \ {t} : stack'[u] = stack[u]) BY <2>2, <2>8
  <2>10. pc[c] \notin {"sched", "queue"} /\ pc[c] \notin Claiming /\ pc'[c] # "queue"
    BY <1>4, <2>3 DEF Claiming
  <2>11. Shared' BY <1>1, <1>2, <1>4, <1>6, <2>2, <2>5, <2>6, <2>7, <2>8, <2>9, <2>10, OwnStackStep
  <2>12. APsOnce' BY <1>1, <2>2, APStep DEF Sharing
  <2> QED BY <2>11, <2>12
<1>9. CASE PauseOwn(c, t, n) \/ PauseClaim(c, t, n)
  <2>1. PICK p : p = [stack[t] EXCEPT ![n].kind = "marked"] OBVIOUS
  <2>2. stack' = [stack EXCEPT ![t] = p] BY <1>9, <2>1 DEF PauseOwn, PauseClaim
  <2>3. Marked(stack[t], p, n) BY <1>4, <1>5, <2>1, MarkOK
  <2>4. /\ \A x : HasIn(stack[t], x, {"marked"}) => HasIn(p, x, {"marked"})
        /\ \A x : HasIn(stack[t], x, {"bh", "marked"}) => HasIn(p, x, {"bh", "marked"})
        /\ \A i \in 1..Len(p) : /\ i \in 1..Len(stack[t]) /\ p[i].upd = stack[t][i].upd
                                /\ p[i].kind = "bh" => stack[t][i].kind = "bh"
    BY <1>4, <2>3, AllHasMarked
  <2>5. stack'[t] = p /\ (\A u \in Threads \ {t} : stack'[u] = stack[u]) BY <1>4, <1>5, <2>2
  <2>6. PICK k \in Closures : k = stack[t][n].upd BY <1>9 DEF PauseOwn, PauseClaim
  <2>7. \/ info' = info
        \/ info[k] = "THUNK" /\ info' = [info EXCEPT ![k] = "WHITEHOLE"]
    BY <1>9, <2>6 DEF PauseOwn, PauseClaim
  <2>8. \A x \in Closures : (info[x] = "BLACKHOLE" <=> info'[x] = "BLACKHOLE")
          /\ (info'[x] = info[x] \/ info'[x] = "WHITEHOLE")
    <3>1. info \in [Closures -> {"unallocated", "THUNK", "AP_STACK", "WHITEHOLE", "BLACKHOLE"}]
      BY DEF Types
    <3> QED BY <2>7, <3>1
  <2>9. /\ \A d \in Caps \ {c} : pc'[d] = pc[d] /\ at'[d] = at[d] /\ upd'[d] = upd[d]
        /\ pc'[c] = "pause" \/ (pc'[c] = "claim_ind" /\ at'[c] = n /\ info[k] = "THUNK")
    <3>1. CASE PauseOwn(c, t, n)
      <4>1. at' = [at EXCEPT ![c] = n + 1] /\ pc' = pc BY <3>1 DEF PauseOwn
      <4> QED BY <1>4, <1>5, <4>1
    <3>2. CASE PauseClaim(c, t, n)
      <4>1. at' = at /\ pc' = [pc EXCEPT ![c] = "claim_ind"] /\ info[k] = "THUNK"
        BY <2>6, <3>2 DEF PauseClaim
      <4> QED BY <1>4, <1>5, <4>1
    <3> QED BY <1>9, <3>1, <3>2
  <2>10. PICK f, k0 : f = p[at'[c]] /\ k0 = p[1].upd OBVIOUS
  <2>11. WorkAt(c, t, f, k0)'
    <3>1. CASE pc'[c] = "pause" BY <3>1 DEF WorkAt, Storing
    <3>2. CASE pc'[c] # "pause"
      <4>1. pc'[c] = "claim_ind" /\ at'[c] = n /\ info[k] = "THUNK" BY <2>9, <3>2
      <4>2. f.upd = k BY <1>4, <2>3, <2>6, <2>10, <4>1 DEF Marked
      <4>3. NoQueue(t, k)' BY <1>4, <1>6, <4>1 DEF NoQueue
      <4> QED BY <4>1, <4>2, <4>3 DEF WorkAt, Storing
    <3> QED BY <3>1, <3>2
  <2>12. pc[c] \notin {"sched", "queue"} /\ pc[c] \notin Claiming /\ pc'[c] # "queue"
    BY <1>4, <2>9 DEF Claiming
  <2>13. UNCHANGED <<running, home, cur, inbox, msg, bq, ind>> BY <1>4
  <2>14. /\ \A q \in Queues : bq[q].live /\ bq[q].owner = t => HasIn(p, bq[q].bh, {"marked"})
         /\ \A x \in Closures : Owner(x) = t => HasIn(p, x, {"bh", "marked"})
         /\ \A i \in 1..Len(p) : p[i].kind = "bh" =>
             \E j \in 1..Len(stack[t]) : stack[t][j].kind = "bh" /\ stack[t][j].upd = p[i].upd
    BY <1>6, <2>4
  <2>15. Shared' BY <1>1, <1>2, <2>5, <2>8, <2>9, <2>10, <2>11, <2>12, <2>13, <2>14, OwnStackStep
  <2>16. APsOnce'
    <3>1. ASSUME NEW u \in Threads, NEW x \in APs, NEW i \in 1..Len(stack'[u]), stack'[u][i].upd = x
          PROVE  \E j \in 1..Len(stack[u]) : stack[u][j].upd = x
      <4>1. CASE u = t BY <2>4, <2>5, <3>1, <4>1
      <4>2. CASE u # t BY <2>5, <3>1, <4>2
      <4> QED BY <4>1, <4>2
    <3>2. \A x \in APs : info'[x] = info[x] \/ info'[x] = "WHITEHOLE" BY <2>8, Distinct
    <3> QED BY <1>1, <3>1, <3>2, APStep DEF Sharing
  <2> QED BY <2>15, <2>16
<1> QED BY <1>3, <1>7, <1>8, <1>9

\* raiseAsync, that makes an AP_STACK, keeps what threads share right.
LEMMA FreezeShares ==
  ASSUME Types, StacksOK, Ranked, Sharing, NEW c \in Caps, Freeze(c)
  PROVE  Shared' /\ APsOnce'
<1>1. Types' /\ StacksOK' BY FreezeTypes
<1>2. PICK t : t = running[c] OBVIOUS
<1>3. PICK a \in APs : FreezeTo(c, t, a) BY <1>2, FreezeDoes
<1>4. PICK k \in Closures : k = stack[t][1].upd BY <1>3 DEF FreezeTo
<1>5. /\ t \in Threads /\ running[c] = t /\ pc[c] = "freeze" /\ at[c] \in 2..Len(stack[t])
      /\ a \in Closures /\ info[a] = "unallocated"
      /\ info' = [info EXCEPT ![a] = "AP_STACK"]
      /\ upd' = [upd EXCEPT ![c] = Update(Closure(a), ind[k])]
      /\ pc' = [pc EXCEPT ![c] = "store_ind"]
      /\ UNCHANGED <<ind, bq, msg, inbox, stack, running, at, cur, home>>
  BY <1>3, <1>4, Distinct DEF FreezeTo, blocking
<1>6. pc \in [Caps -> Places] /\ StackOK(stack[t]) BY <1>2, <1>5, RunsOn
<1>7. pc'[c] = "store_ind" /\ \A d \in Caps \ {c} : pc'[d] = pc[d] BY <1>5, <1>6
<1>8. PICK seen \in Pointers : seen = ind[k] BY DEF Types
<1>9. upd'[c].val = Closure(a) /\ upd'[c].seen = seen /\ \A d \in Caps \ {c} : upd'[d] = upd[d]
  <2>1. PICK val \in Pointers : val = Closure(a) BY <1>5, PointerKinds
  <2>2. upd' = [upd EXCEPT ![c] = Update(val, seen)] BY <1>5, <1>8, <2>1
  <2>3. upd'[c].val = val /\ upd'[c].seen = seen /\ \A d \in Caps \ {c} : upd'[d] = upd[d]
    BY <2>2, UpdTypes
  <2> QED BY <2>1, <2>3
<1>10. \A x \in Closures : /\ info[x] = "BLACKHOLE" <=> info'[x] = "BLACKHOLE"
                           /\ info'[x] = info[x] \/ (info[x] = "unallocated"
                                /\ info'[x] = "AP_STACK")
  <2>1. info \in [Closures -> {"unallocated", "THUNK", "AP_STACK", "WHITEHOLE", "BLACKHOLE"}]
    BY DEF Types
  <2> QED BY <1>5, <2>1
<1>11. pc[c] \notin {"sched", "queue"} /\ pc[c] \notin Claiming /\ pc'[c] # "queue"
  BY <1>5, <1>7 DEF Claiming
<1>12. /\ \A q \in Queues : bq[q].live /\ bq[q].owner = t
            => HasIn(stack[t], bq[q].bh, {"marked"}) /\ ind[bq[q].bh] # TSO(t)
       /\ \A x \in Closures : /\ Owner(x) = t => HasIn(stack[t], x, {"bh", "marked"})
                              /\ \A q \in Queues : ind[x] = BQ(q) => bq[q].live /\ bq[q].bh = x
       /\ WorkAt(c, t, stack[t][at[c]], stack[t][1].upd)
  BY <1>2, <1>11, OwnFacts
<1>13. PICK f, p : f = stack[t][at[c]] /\ p = stack[t] OBVIOUS
<1>14. WorkAt(c, t, f, k)'
  <2>1. seen = TSO(t) => NoQueue(t, k)' BY <1>5, <1>8, <1>12 DEF NoQueue
  <2>2. \A q \in Queues : seen = BQ(q) => bq'[q].bh = k BY <1>5, <1>8, <1>12
  <2>3. f.kind # "stop" => Owner(f.upd)' # t
    <3>1. f.kind # "stop" => Owner(f.upd) # t BY <1>5, <1>12, <1>13 DEF WorkAt
    <3> QED BY <1>5, <3>1 DEF Owner
  <2> QED BY <1>7, <1>9, <2>1, <2>2, <2>3 DEF WorkAt
<1>15. stack'[t] = p /\ (\A u \in Threads \ {t} : stack'[u] = stack[u]) /\ f = p[at'[c]]
         /\ k = p[1].upd
  BY <1>4, <1>5, <1>13
<1>16. \A d \in Caps \ {c} : pc'[d] = pc[d] /\ at'[d] = at[d] /\ upd'[d] = upd[d]
  BY <1>5, <1>7, <1>9
<1>17. Shared' BY <1>1, <1>2, <1>5, <1>10, <1>11, <1>12, <1>13, <1>14, <1>15, <1>16, OwnStackStep
<1>18. APsOnce'
  <2>1. \A x \in APs : info'[x] = info[x] \/ (info[x] = "unallocated" /\ info'[x] = "AP_STACK")
    BY <1>10, Distinct
  <2> QED BY <1>1, <1>5, <2>1, APStep DEF Sharing
<1> QED BY <1>17, <1>18

\* threadPaused may drop the frame of work that it has suspended: its thunk has another owner.
LEMMA FrozenDroppedShares ==
  ASSUME Types, StacksOK, Ranked, Sharing, NEW c \in Caps, Frozen(c), running' = running
  PROVE  Shared' /\ APsOnce'
<1>1. Types' /\ StacksOK' BY FrozenTypes
<1>2. PICK t : t = running[c] OBVIOUS
<1>3. FrozenAny(c, t) /\ (FrozenCaught(c, t) \/ FrozenDropped(c, t)) BY <1>2, FrozenDoes
<1>4. /\ t \in Threads /\ running[c] = t /\ pc[c] = "freeze" /\ at[c] = 1
      /\ UNCHANGED <<info, ind, bq, msg, inbox, upd, cur, home>>
  BY <1>3 DEF FrozenAny, heap, blocking
<1>5. /\ StackOK(stack[t]) /\ pc \in [Caps -> Places] /\ at \in [Caps -> Nat \ {0}] /\ t # NoThread
      /\ stack \in [Threads -> Seq(Frames)] /\ Len(stack[t]) \in Nat /\ Len(stack[t]) > 0
  BY <1>2, <1>4, RunsOn
<1>6. FrozenDropped(c, t)
  <2>1. running \in [Caps -> Threads \cup {NoThread}] BY DEF Types
  <2>2. FrozenCaught(c, t) => running' = [running EXCEPT ![c] = NoThread] BY DEF FrozenCaught
  <2> QED BY <1>3, <1>4, <1>5, <2>1, <2>2
<1>7. PICK p : p = Tail(stack[t]) OBVIOUS
<1>8. PICK k \in Closures : k = stack[t][1].upd BY <1>6 DEF FrozenDropped
<1>9. /\ stack[t][1].kind \in {"upd", "bh"} /\ Popped(stack[t], p)
      /\ stack' = [stack EXCEPT ![t] = p]
      /\ pc' = [pc EXCEPT ![c] = "pause"] /\ UNCHANGED <<running, at>>
  BY <1>6, <1>7 DEF FrozenDropped
<1>10. stack'[t] = p /\ \A u \in Threads \ {t} : stack'[u] = stack[u] BY <1>4, <1>5, <1>9
<1>11. pc'[c] = "pause" /\ \A d \in Caps \ {c} : pc'[d] = pc[d] /\ at'[d] = at[d]
         /\ upd'[d] = upd[d]
  BY <1>4, <1>5, <1>9
<1>12. pc[c] \notin {"sched", "queue"} /\ pc[c] \notin Claiming /\ pc'[c] # "queue"
  BY <1>4, <1>11 DEF Claiming
<1>13. /\ \A q \in Queues : bq[q].live /\ bq[q].owner = t => HasIn(stack[t], bq[q].bh, {"marked"})
       /\ \A x \in Closures : Owner(x) = t => HasIn(stack[t], x, {"bh", "marked"})
       /\ WorkAt(c, t, stack[t][at[c]], stack[t][1].upd)
  BY <1>2, <1>12, OwnFacts
<1>14. Owner(k) # t BY <1>4, <1>8, <1>9, <1>13 DEF WorkAt
<1>15. ASSUME NEW x, NEW kinds, HasIn(stack[t], x, kinds), x # k PROVE HasIn(p, x, kinds)
  BY <1>5, <1>8, <1>9, <1>15, PopHas
<1>16. ~HasIn(stack[t], k, {"marked"})
  <2> SUFFICES ASSUME HasIn(stack[t], k, {"marked"}) PROVE FALSE OBVIOUS
  <2>1. PICK j \in 1..Len(stack[t]) : stack[t][j].upd = k /\ stack[t][j].kind = "marked"
    BY DEF HasIn
  <2>2. 1 \in 1..Len(stack[t]) /\ stack[t][1].kind # "stop" BY <1>5, <1>9
  <2>3. j = 1 BY <1>4, <1>8, <2>1, <2>2, DistinctFrames
  <2> QED BY <1>9, <2>1, <2>3
<1>17. /\ \A q \in Queues : bq[q].live /\ bq[q].owner = t => HasIn(p, bq[q].bh, {"marked"})
       /\ \A x \in Closures : Owner(x) = t => HasIn(p, x, {"bh", "marked"})
  BY <1>13, <1>14, <1>15, <1>16
<1>18. ASSUME NEW i \in 1..Len(p) PROVE i + 1 \in 1..Len(stack[t]) /\ p[i] = stack[t][i + 1]
  <2>1. stack[t][1].kind # "stop" BY <1>9
  <2> QED BY <1>5, <1>9, <2>1, PopFrames
<1>19. ASSUME NEW i \in 1..Len(p) PROVE \E j \in 1..Len(stack[t]) : p[i] = stack[t][j] BY <1>18
<1>20. PICK f, k0 : f = p[at'[c]] /\ k0 = p[1].upd OBVIOUS
<1>21. WorkAt(c, t, f, k0)' BY <1>11 DEF WorkAt, Storing
<1>22. \A i \in 1..Len(p) : p[i].kind = "bh" =>
             \E j \in 1..Len(stack[t]) : stack[t][j].kind = "bh" /\ stack[t][j].upd = p[i].upd
  BY <1>19
<1>23. Shared'
  BY <1>1, <1>2, <1>4, <1>9, <1>10, <1>11, <1>12, <1>17, <1>20, <1>21, <1>22, OwnStackStep
<1>24. APsOnce'
  <2>1. ASSUME NEW u \in Threads, NEW x \in APs, NEW i \in 1..Len(stack'[u]), stack'[u][i].upd = x
        PROVE  \E j \in 1..Len(stack[u]) : stack[u][j].upd = x
    <3>1. CASE u = t BY <1>10, <1>19, <2>1, <3>1
    <3>2. CASE u # t BY <1>10, <2>1, <3>2
    <3> QED BY <3>1, <3>2
  <2> QED BY <1>1, <1>4, <2>1, APStep DEF Sharing
<1> QED BY <1>23, <1>24

\* The entry of a thunk or an AP_STACK keeps what threads share right.
LEMMA EnterThunkShares ==
  ASSUME Types, StacksOK, Ranked, Sharing, NEW c \in Caps, NEW t, t = running[c], NEW k,
         k = Next1(t), k # None, pc[c] = "run",
         EnterThunk(c, t, k) \/ EnterAPStack(c, t, k),
         UNCHANGED <<blocking, why, block_info, at, cur, ind, code, running, upd, home, events>>
  PROVE  Shared' /\ APsOnce'
<1>1. Types' /\ StacksOK' BY EnterThunkTypes
<1>2. PICK kind \in {"upd", "bh"}, p \in Seq(Frames) : Enters(c, t, k, kind, p) BY EnterThunkDoes
<1>3. /\ k \in Closures /\ Pushed(stack[t], p, kind, k) /\ stack' = [stack EXCEPT ![t] = p]
      /\ pc' = [pc EXCEPT ![c] = IF kind = "bh" THEN "claim_ind" ELSE "run"]
      /\ info[k] \in {"THUNK", "AP_STACK"}
      /\ info[k] = "THUNK" => info' = info
      /\ info[k] = "AP_STACK" => info' = [info EXCEPT ![k] = "WHITEHOLE"]
  BY <1>2 DEF Enters
<1>4. /\ t \in Threads /\ StackOK(stack[t]) /\ Len(stack[t]) \in Nat /\ Len(stack[t]) > 0
      /\ pc \in [Caps -> Places]
      /\ stack \in [Threads -> Seq(Frames)] /\ AtOK(c, stack[t], at[c])
  BY RunsOn
<1>5. at[c] = 1
  <2>1. running[c] # NoThread BY <1>4, Distinct
  <2> QED BY <2>1 DEF StacksOK, CapOK
<1>6. stack'[t] = p /\ \A u \in Threads \ {t} : stack'[u] = stack[u] BY <1>3, <1>4
<1>7. /\ \A d \in Caps \ {c} : pc'[d] = pc[d]
      /\ pc'[c] = IF kind = "bh" THEN "claim_ind" ELSE "run"
  BY <1>3, <1>4
<1>8. \A x \in Closures : /\ info[x] = "BLACKHOLE" <=> info'[x] = "BLACKHOLE"
                          /\ x # k => info'[x] = info[x]
                          /\ x = k /\ info[k] = "AP_STACK" => info'[x] = "WHITEHOLE"
  <2>1. info \in [Closures -> {"unallocated", "THUNK", "AP_STACK", "WHITEHOLE", "BLACKHOLE"}]
    BY DEF Types
  <2> QED BY <1>3, <2>1
<1>9. pc[c] \notin {"sched", "queue"} /\ pc[c] \notin Claiming /\ pc'[c] # "queue"
  BY <1>7 DEF Claiming
<1>10. /\ \A q \in Queues : bq[q].live /\ bq[q].owner = t
            => HasIn(stack[t], bq[q].bh, {"marked"}) /\ info[bq[q].bh] = "BLACKHOLE"
       /\ \A x \in Closures : Owner(x) = t => HasIn(stack[t], x, {"bh", "marked"})
  BY <1>9, OwnFacts
<1>11. \A x, kinds : HasIn(p, x, kinds) <=> HasIn(stack[t], x, kinds) \/ (x = k /\ kind \in kinds)
  BY <1>3, <1>4, PushHas
<1>12. ASSUME NEW i \in 1..Len(p)
       PROVE  \/ i = 1 /\ p[i].upd = k /\ p[i].kind = kind
              \/ \E j \in 1..Len(stack[t]) : p[i].upd = stack[t][j].upd
                   /\ p[i].kind = stack[t][j].kind
  <2>1. CASE i = 1 BY <1>3, <2>1 DEF Pushed
  <2>2. CASE i # 1
    <3>1. PICK j : j = i - 1 OBVIOUS
    <3>2. j \in 1..Len(stack[t]) /\ i = j + 1 BY <1>3, <1>4, <2>2, <3>1 DEF Pushed
    <3> QED BY <1>3, <3>2 DEF Pushed
  <2> QED BY <2>1, <2>2
<1>13. PICK f, k0 : f = p[at'[c]] /\ k0 = p[1].upd OBVIOUS
<1>14. WorkAt(c, t, f, k0)'
  <2>1. CASE kind = "bh"
    <3>1. f.upd = k BY <1>3, <1>5, <1>13 DEF Pushed
    <3>2. NoQueue(t, k)' BY <1>3, <1>10 DEF NoQueue, blocking
    <3> QED BY <1>7, <2>1, <3>1, <3>2 DEF WorkAt, Storing
  <2>2. CASE kind # "bh" BY <1>7, <2>2 DEF WorkAt, Storing
  <2> QED BY <2>1, <2>2
<1>15. /\ \A q \in Queues : bq[q].live /\ bq[q].owner = t => HasIn(p, bq[q].bh, {"marked"})
       /\ \A x \in Closures : Owner(x) = t => HasIn(p, x, {"bh", "marked"})
  BY <1>10, <1>11
<1>16. \A i \in 1..Len(p) : p[i].kind = "bh" =>
             \/ \E j \in 1..Len(stack[t]) : stack[t][j].kind = "bh" /\ stack[t][j].upd = p[i].upd
             \/ i = 1 /\ pc'[c] \in Claiming /\ at'[c] = 1
  BY <1>5, <1>7, <1>12 DEF Claiming
<1>17. \A d \in Caps \ {c} : pc'[d] = pc[d] /\ at'[d] = at[d] /\ upd'[d] = upd[d] BY <1>7
<1>18. UNCHANGED <<running, home, cur, inbox, msg, bq, ind>> BY DEF blocking
<1>19. Shared' BY <1>1, <1>6, <1>8, <1>9, <1>13, <1>14, <1>15, <1>16, <1>17, <1>18, OwnStackStep
<1>20. ASSUME NEW u \in Threads, NEW x \in APs, x # k, NEW i \in 1..Len(stack'[u]),
              stack'[u][i].upd = x
       PROVE  \E j \in 1..Len(stack[u]) : stack[u][j].upd = x
  <2>1. CASE u = t BY <1>6, <1>12, <1>20, <2>1
  <2>2. CASE u # t BY <1>6, <1>20, <2>2
  <2> QED BY <2>1, <2>2
<1>21. APsOnce'
  <2>1. \A x \in APs : x \in Closures BY Distinct
  <2>2. CASE k \notin APs BY <1>1, <1>8, <1>20, <2>1, <2>2, APStep DEF Sharing
  <2>3. CASE k \in APs
    <3>1. info[k] = "AP_STACK" BY <1>3, <2>3 DEF Sharing, APsOnce
    <3>2. \A u \in Threads : ~Evaluates(u, k) BY <2>3, <3>1 DEF Sharing, APsOnce
    <3>3. info'[k] = "WHITEHOLE" BY <1>8, <2>1, <2>3, <3>1
    <3>4. \A u \in Threads : DOMAIN stack[u] = 1..Len(stack[u])
            /\ DOMAIN stack'[u] = 1..Len(stack'[u])
      <4>1. \A u \in Threads : stack[u] \in Seq(Frames) /\ stack'[u] \in Seq(Frames)
        BY <1>1 DEF Types
      <4> QED BY <4>1
    <3>5. \A u \in Threads : \A x \in APs \ {k} : Evaluates(u, x)' => Evaluates(u, x)
      BY <1>20, <3>4 DEF Evaluates
    <3>6. \A u \in Threads : Evaluates(u, k)' => u = t BY <1>6, <3>2 DEF Evaluates
    <3>7. \A x \in APs \ {k} : info'[x] = info[x] BY <1>8, <2>1
    <3>8. ASSUME NEW x \in APs
          PROVE  /\ info'[x] # "THUNK"
                 /\ \A u, v \in Threads : Evaluates(u, x)' /\ Evaluates(v, x)' => u = v
                 /\ info'[x] \in {"unallocated", "AP_STACK"} => \A u \in Threads : ~Evaluates(u, x)'
      <4>1. CASE x = k BY <3>3, <3>6, <4>1
      <4>2. CASE x # k BY <3>5, <3>7, <4>2 DEF Sharing, APsOnce
      <4> QED BY <4>1, <4>2
    <3> QED BY <3>8 DEF APsOnce
  <2> QED BY <2>2, <2>3
<1> QED BY <1>19, <1>21

\* What is there when only what is left to do has changed
LEMMA SameFramesHave ==
  ASSUME NEW s, NEW p, SameFrames(s, p)
  PROVE  /\ \A x : HasIn(s, x, {"marked"}) => HasIn(p, x, {"marked"})
         /\ \A x : HasIn(s, x, {"bh", "marked"}) => HasIn(p, x, {"bh", "marked"})
         /\ \A i \in 1..Len(p) : i \in 1..Len(s) /\ p[i].upd = s[i].upd /\ p[i].kind = s[i].kind
<1>1. \A x : HasIn(s, x, {"marked"}) => HasIn(p, x, {"marked"}) BY SameHas
<1>2. \A x : HasIn(s, x, {"bh", "marked"}) => HasIn(p, x, {"bh", "marked"}) BY SameHas
<1> QED BY <1>1, <1>2 DEF SameFrames

\* A thread that runs and changes no closure and no queue
LEMMA RunsQuietly ==
  ASSUME Types, StacksOK, Sharing, Types', NEW c \in Caps, NEW t, t = running[c], pc[c] = "run",
         pc'[c] \in {"run", "pause"}, NEW p, SameFrames(stack[t], p),
         UNCHANGED <<running, home, cur, inbox, msg, bq, ind, info, at, upd>>,
         \A d \in Caps \ {c} : pc'[d] = pc[d],
         stack'[t] = p, \A u \in Threads \ {t} : stack'[u] = stack[u]
  PROVE  Shared' /\ APsOnce'
<1>1. /\ \A x : HasIn(stack[t], x, {"marked"}) => HasIn(p, x, {"marked"})
      /\ \A x : HasIn(stack[t], x, {"bh", "marked"}) => HasIn(p, x, {"bh", "marked"})
      /\ \A i \in 1..Len(p) : i \in 1..Len(stack[t]) /\ p[i].upd = stack[t][i].upd
           /\ p[i].kind = stack[t][i].kind
  BY SameFramesHave
<1>2. pc[c] \notin {"sched", "queue"} /\ pc[c] \notin Claiming /\ pc'[c] # "queue" BY DEF Claiming
<1>3. /\ \A q \in Queues : bq[q].live /\ bq[q].owner = t => HasIn(stack[t], bq[q].bh, {"marked"})
      /\ \A x \in Closures : Owner(x) = t => HasIn(stack[t], x, {"bh", "marked"})
  BY <1>2, OwnFacts
<1>4. PICK f, k0 : f = p[at'[c]] /\ k0 = p[1].upd OBVIOUS
<1>5. WorkAt(c, t, f, k0)' BY DEF WorkAt, Storing
<1>6. /\ \A q \in Queues : bq[q].live /\ bq[q].owner = t => HasIn(p, bq[q].bh, {"marked"})
      /\ \A x \in Closures : Owner(x) = t => HasIn(p, x, {"bh", "marked"})
      /\ \A i \in 1..Len(p) : p[i].kind = "bh" =>
             \E j \in 1..Len(stack[t]) : stack[t][j].kind = "bh" /\ stack[t][j].upd = p[i].upd
  BY <1>1, <1>3
<1>7. \A d \in Caps \ {c} : pc'[d] = pc[d] /\ at'[d] = at[d] /\ upd'[d] = upd[d] OBVIOUS
<1>8. Shared' BY <1>2, <1>4, <1>5, <1>6, <1>7, OwnStackStep
<1>9. ASSUME NEW u \in Threads, NEW x \in APs, NEW i \in 1..Len(stack'[u]), stack'[u][i].upd = x
      PROVE  \E j \in 1..Len(stack[u]) : stack[u][j].upd = x
  <2>1. CASE u = t BY <1>1, <1>9, <2>1
  <2>2. CASE u # t BY <1>9, <2>2
  <2> QED BY <2>1, <2>2
<1>10. APsOnce' BY <1>9, APStep DEF Sharing
<1> QED BY <1>8, <1>10

\* The entry of an indirection keeps what threads share right.
LEMMA EnterIndirectionShares ==
  ASSUME Types, StacksOK, Sharing, NEW c \in Caps, NEW t, t = running[c], NEW k, k = Next1(t),
         k # None, pc[c] = "run",
         EnterIndirection(c, t, k),
         UNCHANGED <<blocking, why, block_info, at, cur, ind, code, running, upd, home, events>>
  PROVE  Shared' /\ APsOnce'
<1>1. Types' /\ StacksOK' BY EnterIndirectionTypes
<1>2. PICK p : p = NextDone(t) OBVIOUS
<1>3. SameFrames(stack[t], p) /\ stack' = [stack EXCEPT ![t] = p] /\ info' = info /\ pc' = pc
  BY <1>2, EnterIndirectionDoes
<1>4. t \in Threads /\ stack \in [Threads -> Seq(Frames)] BY RunsOn
<1>5. stack'[t] = p /\ \A u \in Threads \ {t} : stack'[u] = stack[u] BY <1>3, <1>4
<1>6. UNCHANGED <<running, home, cur, inbox, msg, bq, ind, info, at, upd>> BY <1>3 DEF blocking
<1> QED BY <1>1, <1>3, <1>5, <1>6, RunsQuietly

\* The end of a time slice keeps what threads share right.
LEMMA YieldShares ==
  ASSUME Types, StacksOK, Sharing, NEW c \in Caps, Yield(c)
  PROVE  Shared' /\ APsOnce'
<1>1. Types' /\ StacksOK' BY YieldTypes
<1>2. pc[c] = "run" /\ pc' = [pc EXCEPT ![c] = "pause"]
        /\ UNCHANGED <<heap, blocking, thread, running, at, upd, cur>>
  BY DEF Yield, Goto
<1>3. PICK t, p : t = running[c] /\ p = stack[t] OBVIOUS
<1>4. t \in Threads /\ pc \in [Caps -> Places] /\ stack[t] \in Seq(Frames) BY <1>2, <1>3, RunsOn
<1>5. SameFrames(stack[t], p) BY <1>3, <1>4 DEF SameFrames
<1>6. pc'[c] = "pause" /\ \A d \in Caps \ {c} : pc'[d] = pc[d] BY <1>2, <1>4
<1>7. /\ stack' = stack /\ stack'[t] = p
      /\ UNCHANGED <<running, home, cur, inbox, msg, bq, ind, info, at, upd>>
  BY <1>2, <1>3 DEF heap, blocking, thread
<1> QED BY <1>1, <1>2, <1>3, <1>5, <1>6, <1>7, RunsQuietly

\* No closure, no queue and no stack changes; a capability goes on with what it does, or
\* leaves its thread, or takes one up.
LEMMA QuietShares ==
  ASSUME Types, StacksOK, Sharing, Types', UNCHANGED <<info, ind, bq, cur, stack>>,
         \A d \in Caps : inbox'[d] \subseteq inbox[d],
         \A m \in Msgs : msg'[m].live => msg[m].live /\ msg'[m].bh = msg[m].bh,
         \A u \in Threads : home'[u] = home[u] \/ pc[home[u]] # "queue",
         \A d \in Caps :
            \/ pc'[d] = pc[d] /\ running'[d] = running[d] /\ at'[d] = at[d] /\ upd'[d] = upd[d]
            \/ /\ pc[d] \notin Claiming /\ pc[d] # "queue" /\ pc'[d] # "queue"
               /\ \/ running'[d] = NoThread
                  \/ pc'[d] = "run"
                  \/ pc'[d] = "freeze" /\ stack[running'[d]][at'[d]].kind = "stop"
  PROVE  Sharing'
<1>1. MessagesOnce' BY DEF Sharing, MessagesOnce
<1>2. \A d \in Caps : pc'[d] = "queue" => pc[d] = "queue" /\ running'[d] = running[d] OBVIOUS
<1>3. \A d \in Caps : pc[d] = "queue" => pc'[d] = "queue" OBVIOUS
<1>4. \A k \in Closures : Owner(k)' = Owner(k) BY DEF Owner
<1>5. QueuesOK'
  <2>1. ASSUME NEW q \in Queues, bq[q].live PROVE QueueOK(q)'
    <3>1. QueueOK(q) BY <2>1 DEF Sharing, QueuesOK
    <3>2. ASSUME Pending(q) PROVE Pending(q)'
      <4>1. PICK d \in Caps : pc[d] = "queue" /\ cur[d] \in bq[q].queue /\ home[bq[q].owner] = d
        BY <3>2 DEF Pending
      <4>2. home'[bq[q].owner] = d BY <3>1, <4>1 DEF QueueOK
      <4> QED BY <1>3, <4>1, <4>2 DEF Pending
    <3> QED BY <3>1, <3>2 DEF QueueOK
  <2>2. ASSUME NEW d \in Caps, pc'[d] = "queue" PROVE \E q \in Queues : Storable(d, q)'
    <3>1. pc[d] = "queue" /\ running'[d] = running[d] BY <1>2, <2>2
    <3>2. PICK q \in Queues : Storable(d, q) BY <3>1 DEF Sharing, QueuesOK
    <3>3. bq[q].owner \in Threads BY <3>2 DEF Sharing, QueuesOK, QueueOK, Storable
    <3>4. home'[bq[q].owner] = d BY <3>1, <3>2, <3>3 DEF Storable
    <3> QED BY <3>1, <3>2, <3>4 DEF Storable
  <2>3. /\ \A q \in Queues : bq'[q].live => QueueOK(q)'
        /\ \A d \in Caps : pc'[d] = "queue" => \E q \in Queues : Storable(d, q)'
    BY <2>1, <2>2
  <2> QED BY <2>3 DEF Sharing, QueuesOK
<1>6. OwnersOK' BY <1>4 DEF Sharing, OwnersOK
<1>7. WorkOK'
  <2> SUFFICES ASSUME NEW d \in Caps, running'[d] # NoThread
               PROVE  WorkAt(d, running[d], stack[running[d]][at[d]], stack[running[d]][1].upd)'
    BY DEF WorkOK
  <2>1. CASE pc'[d] = pc[d] /\ running'[d] = running[d] /\ at'[d] = at[d] /\ upd'[d] = upd[d]
    <3>1. PICK t, f, k : t = running[d] /\ f = stack[t][at[d]] /\ k = stack[t][1].upd OBVIOUS
    <3>2. WorkAt(d, t, f, k) BY <2>1, <3>1 DEF Sharing, WorkOK
    <3>3. NoQueue(t, f.upd) => NoQueue(t, f.upd)' BY DEF NoQueue
    <3>4. NoQueue(t, k) => NoQueue(t, k)' BY DEF NoQueue
    <3>5. \A x : Owner(x)' = Owner(x) BY DEF Owner
    <3>6. WorkAt(d, t, f, k)' BY <2>1, <3>2, <3>3, <3>4, <3>5 DEF WorkAt
    <3> QED BY <2>1, <3>1, <3>6
  <2>2. CASE pc'[d] = "run" BY <2>2 DEF WorkAt, Storing
  <2>3. CASE pc'[d] = "freeze" /\ stack[running'[d]][at'[d]].kind = "stop"
    BY <2>3 DEF WorkAt, Storing
  <2> QED BY <2>1, <2>2, <2>3
<1>8. EagerOK'
  <2>1. ASSUME NEW u \in Threads, ClaimsFirst(u) PROVE ClaimsFirst(u)'
    <3>1. PICK d \in Caps : running[d] = u /\ pc[d] \in Claiming /\ at[d] = 1
      BY <2>1 DEF ClaimsFirst
    <3> QED BY <3>1 DEF ClaimsFirst
  <2> QED BY <2>1 DEF Sharing, EagerOK
<1>9. APsOnce' BY DEF Sharing, APsOnce, Evaluates
<1> QED BY <1>1, <1>5, <1>6, <1>7, <1>8, <1>9 DEF Sharing

\* A capability that leaves its thread
LEMMA LeavesQuietly ==
  ASSUME Types, StacksOK, Sharing, Types', NEW c \in Caps, pc[c] \notin Claiming, pc[c] # "queue",
         running' = [running EXCEPT ![c] = NoThread], at' = [at EXCEPT ![c] = 1],
         pc' = [pc EXCEPT ![c] = "sched"],
         UNCHANGED <<info, ind, bq, inbox, cur, stack, msg, home, upd>>
  PROVE  Sharing'
<1>1. running \in [Caps -> Threads \cup {NoThread}] /\ at \in [Caps -> Nat \ {0}]
        /\ pc \in [Caps -> Places]
  BY DEF Types
<1>2. running'[c] = NoThread /\ pc'[c] = "sched" BY <1>1
<1>3. \A d \in Caps \ {c} : pc'[d] = pc[d] /\ running'[d] = running[d] /\ at'[d] = at[d]
        /\ upd'[d] = upd[d]
  BY <1>1
<1>4. \A d \in Caps :
            \/ pc'[d] = pc[d] /\ running'[d] = running[d] /\ at'[d] = at[d] /\ upd'[d] = upd[d]
            \/ /\ pc[d] \notin Claiming /\ pc[d] # "queue" /\ pc'[d] # "queue"
               /\ \/ running'[d] = NoThread
                  \/ pc'[d] = "run"
                  \/ pc'[d] = "freeze" /\ stack[running'[d]][at'[d]].kind = "stop"
  BY <1>2, <1>3
<1>5. \A m \in Msgs : msg'[m].live => msg[m].live /\ msg'[m].bh = msg[m].bh OBVIOUS
<1> QED BY <1>4, <1>5, QuietShares

\* threadPaused keeps Sharing.
LEMMA PauseShares ==
  ASSUME Types, StacksOK, Ranked, Sharing, NEW c \in Caps, PauseFrame(c)
  PROVE  Sharing'
<1>1. Types' /\ StacksOK' BY PauseFrameTypes
<1>2. PICK t, n : t = running[c] /\ n = at[c] OBVIOUS
<1>3. PauseAny(c, t, n) /\ (PauseEnd(c, t, n) \/ PauseFreeze(c, t, n) \/ PauseOwn(c, t, n)
        \/ PauseClaim(c, t, n))
  BY <1>2, PauseDoes
<1>4. pc[c] = "pause" /\ UNCHANGED <<ind, bq, msg, inbox, upd, cur, home>>
  BY <1>3 DEF PauseAny, blocking
<1>5. CASE PauseEnd(c, t, n)
  <2>1. /\ running' = [running EXCEPT ![c] = NoThread] /\ at' = [at EXCEPT ![c] = 1]
        /\ pc' = [pc EXCEPT ![c] = "sched"]
        /\ UNCHANGED <<info, stack>>
    BY <1>5 DEF PauseEnd
  <2>2. pc[c] \notin Claiming /\ pc[c] # "queue" BY <1>4 DEF Claiming
  <2> QED BY <1>1, <1>4, <2>1, <2>2, LeavesQuietly
<1>6. CASE PauseFreeze(c, t, n) \/ PauseOwn(c, t, n) \/ PauseClaim(c, t, n)
  <2>1. running' = running BY <1>6 DEF PauseFreeze, PauseOwn, PauseClaim
  <2> QED BY <2>1, PauseFrameShares DEF Shared, Sharing
<1> QED BY <1>3, <1>5, <1>6

\* The end of raiseAsync keeps Sharing.
LEMMA FrozenShares ==
  ASSUME Types, StacksOK, Ranked, Sharing, NEW c \in Caps, Frozen(c)
  PROVE  Sharing'
<1>1. Types' /\ StacksOK' BY FrozenTypes
<1>2. PICK t : t = running[c] OBVIOUS
<1>3. FrozenAny(c, t) /\ (FrozenCaught(c, t) \/ FrozenDropped(c, t)) BY <1>2, FrozenDoes
<1>4. pc[c] = "freeze" /\ UNCHANGED <<info, ind, bq, msg, inbox, upd, cur, home>>
  BY <1>3 DEF FrozenAny, heap, blocking
<1>5. CASE FrozenCaught(c, t)
  <2>1. /\ running' = [running EXCEPT ![c] = NoThread] /\ at' = [at EXCEPT ![c] = 1]
        /\ pc' = [pc EXCEPT ![c] = "sched"]
        /\ UNCHANGED stack
    BY <1>5 DEF FrozenCaught
  <2>2. pc[c] \notin Claiming /\ pc[c] # "queue" BY <1>4 DEF Claiming
  <2> QED BY <1>1, <1>4, <2>1, <2>2, LeavesQuietly
<1>6. CASE FrozenDropped(c, t)
  <2>1. running' = running BY <1>6 DEF FrozenDropped
  <2> QED BY <2>1, FrozenDroppedShares DEF Shared, Sharing
<1> QED BY <1>3, <1>5, <1>6

\* The end of a thread keeps what threads share right.
LEMMA FinishShares ==
  ASSUME Types, StacksOK, Sharing, NEW c \in Caps, Finish(c)
  PROVE  Sharing'
<1>1. Types' /\ StacksOK' BY FinishTypes
<1>2. /\ pc[c] = "run" /\ running' = [running EXCEPT ![c] = NoThread]
      /\ at' = [at EXCEPT ![c] = 1] /\ pc' = [pc EXCEPT ![c] = "sched"]
      /\ UNCHANGED <<info, ind, bq, inbox, cur, stack, msg, home, upd>>
  BY DEF Finish, LeaveThread, Goto, heap, blocking
<1>3. pc[c] \notin Claiming /\ pc[c] # "queue" BY <1>2 DEF Claiming
<1> QED BY <1>1, <1>2, <1>3, LeavesQuietly

\* A capability that takes up a thread
LEMMA TakesUpQuietly ==
  ASSUME Types, StacksOK, Sharing, Types', NEW c \in Caps, pc[c] = "sched", NEW l,
         l = "run" \/ (l = "freeze"
           /\ stack[running'[c]][at'[c]].kind = "stop"), pc' = [pc EXCEPT ![c] = l],
         \A d \in Caps \ {c} : running'[d] = running[d] /\ at'[d] = at[d],
         \A m \in Msgs : msg'[m].live => msg[m].live /\ msg'[m].bh = msg[m].bh,
         UNCHANGED <<info, ind, bq, inbox, cur, stack, home, upd>>
  PROVE  Sharing'
<1>1. pc \in [Caps -> Places] BY DEF Types
<1>2. pc'[c] = l /\ \A d \in Caps \ {c} : pc'[d] = pc[d] BY <1>1
<1>3. \A d \in Caps :
            \/ pc'[d] = pc[d] /\ running'[d] = running[d] /\ at'[d] = at[d] /\ upd'[d] = upd[d]
            \/ /\ pc[d] \notin Claiming /\ pc[d] # "queue" /\ pc'[d] # "queue"
               /\ \/ running'[d] = NoThread
                  \/ pc'[d] = "run"
                  \/ pc'[d] = "freeze" /\ stack[running'[d]][at'[d]].kind = "stop"
  BY <1>2 DEF Claiming
<1> QED BY <1>3, QuietShares

\* A thread taken from the run queue keeps what threads share right.
LEMMA DispatchShares ==
  ASSUME Types, StacksOK, Sharing, NEW c \in Caps, Dispatch(c)
  PROVE  Sharing'
<1>1. Types' /\ StacksOK' BY DispatchTypes
<1>2. PICK t \in Threads : running' = [running EXCEPT ![c] = t] BY DEF Dispatch
<1>3. /\ pc[c] = "sched" /\ pc' = [pc EXCEPT ![c] = "run"]
      /\ UNCHANGED <<info, ind, bq, inbox, cur, stack, home, upd, msg, at>>
  BY DEF Dispatch, Goto, heap, blocking, thread
<1>4. running \in [Caps -> Threads \cup {NoThread}] BY DEF Types
<1>5. \A d \in Caps \ {c} : running'[d] = running[d] /\ at'[d] = at[d] BY <1>2, <1>3, <1>4
<1>6. \A m \in Msgs : msg'[m].live => msg[m].live /\ msg'[m].bh = msg[m].bh BY <1>3
<1> QED BY <1>1, <1>3, <1>5, <1>6, TakesUpQuietly

\* throwToMsg keeps what threads share right.
LEMMA RaiseShares ==
  ASSUME Types, StacksOK, Sharing, NEW c \in Caps, NEW t \in Threads, Raise(c, t)
  PROVE  Sharing'
<1>1. Types' /\ StacksOK' BY RaiseTypes
<1>2. PICK n : n = Len(stack[t]) OBVIOUS
<1>3. /\ pc[c] = "sched" /\ pc' = [pc EXCEPT ![c] = "freeze"]
      /\ running' = [running EXCEPT ![c] = t] /\ at' = [at EXCEPT ![c] = n]
      /\ msg' = msg \/ msg' = [msg EXCEPT ![block_info[t]].live = FALSE]
      /\ UNCHANGED <<info, ind, bq, inbox, cur, stack, home, upd>>
  BY <1>2 DEF Raise, Goto, heap, blocking, thread
<1>4. /\ running \in [Caps -> Threads \cup {NoThread}] /\ at \in [Caps -> Nat \ {0}]
      /\ msg \in [Msgs -> [live : BOOLEAN, tso : Threads \cup {NoThread}, bh :
           Closures \cup {None}]]
  BY DEF Types
<1>5. running'[c] = t /\ at'[c] = n /\ \A d \in Caps \ {c} : running'[d] = running[d]
        /\ at'[d] = at[d]
  BY <1>3, <1>4
<1>6. stack[t][n].kind = "stop"
  <2>1. StackOK(stack[t]) /\ n \in 1..Len(stack[t]) BY <1>2, StackTypes
  <2> QED BY <1>2, <2>1 DEF StackOK
<1>7. \A m \in Msgs : msg'[m].live => msg[m].live /\ msg'[m].bh = msg[m].bh
  <2>1. CASE msg' = msg BY <2>1
  <2>2. CASE msg' = [msg EXCEPT ![block_info[t]].live = FALSE]
    <3>1. PICK b : b = block_info[t] OBVIOUS
    <3>2. ASSUME NEW m \in Msgs, m = b PROVE ~msg'[m].live BY <1>4, <2>2, <3>1, <3>2
    <3>3. ASSUME NEW m \in Msgs, m # b PROVE msg'[m] = msg[m] BY <1>4, <2>2, <3>1, <3>3
    <3> QED BY <3>2, <3>3
  <2> QED BY <1>3, <2>1, <2>2
<1>8. stack[running'[c]][at'[c]].kind = "stop" BY <1>5, <1>6
<1>9. \A d \in Caps \ {c} : running'[d] = running[d] /\ at'[d] = at[d] BY <1>5
<1> QED BY <1>1, <1>3, <1>7, <1>8, <1>9, TakesUpQuietly

\* Wakeups and migration keep Sharing.
LEMMA OtherShares ==
  ASSUME Types, StacksOK, Sharing, Types',
         \/ \E c \in Caps : \E t \in Threads : DeliverWakeup(c, t)
         \/ \E c \in Caps : \E d \in Caps : \E t \in Threads : Migrate(c, d, t)
         \/ UNCHANGED vars
  PROVE  Sharing'
<1>1. UNCHANGED <<info, ind, bq, inbox, cur, stack, msg, pc, running, at, upd>>
  BY DEF DeliverWakeup, Migrate, vars, heap, blocking, thread, cap
<1>2. \A u \in Threads : home'[u] = home[u] \/ pc[home[u]] # "queue"
  <2>1. home \in [Threads -> Caps] BY DEF Types
  <2>2. CASE \E c \in Caps : \E d \in Caps : \E t \in Threads : Migrate(c, d, t)
    <3>1. PICK c \in Caps, d \in Caps, t \in Threads : Migrate(c, d, t) BY <2>2
    <3>2. pc[c] = "sched" /\ home[t] = c /\ home' = [home EXCEPT ![t] = d] BY <3>1 DEF Migrate
    <3> QED BY <2>1, <3>2
  <2>3. CASE home' = home BY <2>3
  <2>4. \/ \E c \in Caps : \E d \in Caps : \E t \in Threads : Migrate(c, d, t)
        \/ home' = home
    BY DEF DeliverWakeup, vars, thread
  <2> QED BY <2>2, <2>3, <2>4
<1>3. \A d \in Caps :
            \/ pc'[d] = pc[d] /\ running'[d] = running[d] /\ at'[d] = at[d] /\ upd'[d] = upd[d]
            \/ /\ pc[d] \notin Claiming /\ pc[d] # "queue" /\ pc'[d] # "queue"
               /\ \/ running'[d] = NoThread
                  \/ pc'[d] = "run"
                  \/ pc'[d] = "freeze" /\ stack[running'[d]][at'[d]].kind = "stop"
  BY <1>1
<1>4. \A m \in Msgs : msg'[m].live => msg[m].live /\ msg'[m].bh = msg[m].bh BY <1>1
<1> QED BY <1>1, <1>2, <1>3, <1>4, QuietShares

\* What a capability is in the middle of is not disturbed by what others do.
LEMMA OtherWork ==
  ASSUME NEW d \in Caps, NEW u, NEW f, NEW g, NEW k, WorkAt(d, u, f, k), pc'[d] = pc[d],
         upd'[d] = upd[d],
         g.upd = f.upd, g.kind = f.kind, f.kind # "stop" => f.upd \in Closures,
         pc[d] = "claim_info" => f.upd \in Closures, pc[d] = "store_info" => k \in Closures,
         \A q \in Queues : bq'[q].live /\ bq'[q].owner = u => bq[q].live /\ bq[q].owner = u
           /\ bq'[q].bh = bq[q].bh,
         \A x \in Closures : (Owner(x)' = u => Owner(x) = u) /\ (ind[x] # Null => ind'[x] # Null)
  PROVE  WorkAt(d, u, g, k)'
<1>1. \A x : NoQueue(u, x) => NoQueue(u, x)' BY DEF NoQueue
<1>2. pc[d] = "claim_ind" => NoQueue(u, f.upd)' BY <1>1 DEF WorkAt
<1>3. pc[d] = "claim_info" => ind'[f.upd] # Null BY DEF WorkAt
<1>4. (pc[d] = "freeze" \/ (pc[d] \in Storing /\ upd[d].val # Value)) /\ f.kind # "stop"
        => Owner(f.upd)' # u
  BY DEF WorkAt
<1>5. pc[d] \in Storing /\ upd[d].seen = TSO(u) => NoQueue(u, k)' BY <1>1 DEF WorkAt
<1>6. pc[d] \in Storing => \A q \in Queues : upd[d].seen = BQ(q) /\ bq'[q].live
        /\ bq'[q].owner = u => bq'[q].bh = k
  BY DEF WorkAt
<1>7. pc[d] = "store_info" => Owner(k)' # u /\ ind'[k] # Null BY DEF WorkAt
<1>8. Owner(g.upd)' = Owner(f.upd)' BY DEF Owner
<1> QED BY <1>2, <1>3, <1>4, <1>5, <1>6, <1>7, <1>8 DEF WorkAt

\* The frames that the work of a capability is about are update frames.
LEMMA WorkFrames ==
  ASSUME Types, StacksOK, NEW d \in Caps, NEW u, u = running[d], u # NoThread
  PROVE  /\ u \in Threads /\ home[u] = d /\ Len(stack[u]) > 0 /\ at[d] \in 1..Len(stack[u])
         /\ stack[u][at[d]].kind # "stop" => stack[u][at[d]].upd \in Closures
         /\ pc[d] \in Claiming => stack[u][at[d]].upd \in Closures
         /\ pc[d] \in Storing => stack[u][1].upd \in Closures
<1>1. u \in Threads /\ home[u] = d /\ AtOK(d, stack[u], at[d]) BY RunsItsThread
<1>2. StackOK(stack[u]) /\ Len(stack[u]) \in Nat /\ Len(stack[u]) > 0 /\ at[d] \in 1..Len(stack[u])
  BY <1>1, StackTypes DEF AtOK
<1>3. stack[u][at[d]].kind # "stop" => stack[u][at[d]].upd \in Closures BY <1>2, FrameUpd
<1>4. pc[d] \in Claiming => stack[u][at[d]].kind # "stop" BY <1>1 DEF AtOK
<1>5. pc[d] \in Storing => stack[u][1].upd \in Closures
  <2>1. 1 \in 1..Len(stack[u]) BY <1>2
  <2> QED BY <1>1, <1>2, <2>1, FrameUpd DEF AtOK
<1> QED BY <1>1, <1>2, <1>3, <1>4, <1>5

\* The BLOCKING_QUEUE that messageBlackHole makes
NewQueue(k, o, m) == [live |-> TRUE, bh |-> k, owner |-> o, queue |-> {m}]

\* q has got the message m, or not.
Joined(q, m) ==
    /\ bq'[q].live = bq[q].live /\ bq'[q].bh = bq[q].bh /\ bq'[q].owner = bq[q].owner
    /\ bq[q].queue \subseteq bq'[q].queue /\ bq'[q].queue \subseteq bq[q].queue \cup {m}
    /\ m \in bq'[q].queue => bq[q].live

\* q is the new queue of the thread o for the closure k.
Created(c, q, k, o, m) ==
    /\ q \in Queues /\ k \in Closures /\ o \in Threads
    /\ ~bq[q].live /\ \A x \in Closures : ind[x] # BQ(q)
    /\ bq'[q] = NewQueue(k, o, m)
    /\ ind[k] = TSO(o) /\ info[k] = "BLACKHOLE" /\ home[o] = c /\ o # running[c]
    /\ pc'[c] = "queue" /\ cur'[c] = m

\* Where a message is after messageBlackHole
MovedTo(m, q0) ==
    \/ /\ \A q \in Queues : m \notin bq'[q].queue
       /\ \A d, e \in Caps : m \in inbox'[d] /\ m \in inbox'[e] => d = e
    \/ /\ \A d \in Caps : m \notin inbox'[d]
       /\ \A q \in Queues : m \in bq'[q].queue => q = q0

\* The message m of nobody, or from the inbox of c, is dealt with: queue q0 is the one that
\* gets it or, if new holds, is new.
MessageStep(c, m, q0, new, k, o) ==
    /\ pc[c] \in {"sched", "run"} /\ pc'[c] \in {"sched", "pause", "queue"}
    /\ pc'[c] = "queue" => new
    /\ UNCHANGED <<info, ind, home, running, at, upd>>
    /\ \A d \in Caps \ {c} : pc'[d] = pc[d] /\ cur'[d] = cur[d]
    /\ \A u \in Threads : SameFrames(stack[u], stack'[u])
    /\ \A q \in Queues : m \notin bq[q].queue
    /\ \A q \in Queues : ~(new /\ q = q0) => Joined(q, m)
    /\ new => Created(c, q0, k, o, m)
    /\ \A d \in Caps : inbox'[d] \subseteq inbox[d] \cup {m}
    /\ MovedTo(m, q0)
    /\ \A x \in Msgs : msg'[x].live => msg'[x].bh \in Closures /\ info[msg'[x].bh] = "BLACKHOLE"

\* A message stays in one place.
LEMMA MessagesStay ==
  ASSUME Types, MessagesOnce, NEW c, NEW m, NEW q0, NEW new \in BOOLEAN, NEW k, NEW o,
         MessageStep(c, m, q0, new, k, o)
  PROVE  MessagesOnce'
<1>1. \A d \in Caps : \A x \in Msgs : x \in inbox'[d] /\ x # m => x \in inbox[d] BY DEF MessageStep
<1>2. \A q \in Queues : \A x \in Msgs : x \in bq'[q].queue /\ x # m => x \in bq[q].queue
        /\ bq'[q].live = bq[q].live
  BY DEF MessageStep, Joined, Created, NewQueue
<1>3. \A q \in Queues : m \in bq'[q].queue => bq'[q].live
  BY DEF MessageStep, Joined, Created, NewQueue
<1>4. MovedTo(m, q0) /\ \A x \in Msgs : msg'[x].live => msg'[x].bh \in Closures
        /\ info'[msg'[x].bh] = "BLACKHOLE"
  BY DEF MessageStep
<1>5. ASSUME NEW d \in Caps, NEW e \in Caps, NEW x \in Msgs, x \in inbox'[d], x \in inbox'[e]
      PROVE  d = e
  BY <1>1, <1>4, <1>5 DEF MessagesOnce, MovedTo
<1>6. ASSUME NEW p \in Queues, NEW q \in Queues, NEW x \in Msgs, x \in bq'[p].queue,
             x \in bq'[q].queue
      PROVE  p = q
  BY <1>2, <1>4, <1>6 DEF MessagesOnce, MovedTo
<1>7. ASSUME NEW d \in Caps, NEW q \in Queues, NEW x \in Msgs, x \in inbox'[d], x \in bq'[q].queue
      PROVE  FALSE
  BY <1>1, <1>2, <1>4, <1>7 DEF MessagesOnce, MovedTo
<1>8. ASSUME NEW q \in Queues, NEW x \in Msgs, x \in bq'[q].queue PROVE bq'[q].live
  BY <1>2, <1>3, <1>8 DEF MessagesOnce
<1> QED BY <1>4, <1>5, <1>6, <1>7, <1>8 DEF MessagesOnce

\* Owners are as before.
LEMMA MessageOwners ==
  ASSUME Types, NEW c, NEW m, NEW q0, NEW new \in BOOLEAN, NEW k, NEW o, MessageStep(c, m, q0,
         new, k, o), NEW x \in Closures
  PROVE  Owner(x)' = Owner(x)
<1>1. ind[x] \in Pointers BY DEF Types
<1>2. ind' = ind BY DEF MessageStep
<1>3. CASE ind[x].to = "bq"
  <2>1. PICK q \in Queues : q = ind[x].id /\ ind[x] = BQ(q) BY <1>1, <1>3, PointerKinds, PointerTags
  <2>2. ~(new /\ q = q0) BY <2>1 DEF MessageStep, Created
  <2>3. bq'[q].owner = bq[q].owner BY <2>1, <2>2 DEF MessageStep, Joined
  <2>4. bq'[ind[x].id].owner = bq[ind[x].id].owner BY <2>1, <2>3
  <2> QED BY <1>2, <1>3, <2>4 DEF Owner
<1>4. CASE ind[x].to # "bq" BY <1>2, <1>4 DEF Owner
<1> QED BY <1>3, <1>4

\* The queues are right after messageBlackHole.
LEMMA MessageQueues ==
  ASSUME Types, StacksOK, Sharing, NEW c \in Caps, NEW m \in Msgs, NEW q0, NEW new \in BOOLEAN,
         NEW k, NEW o, MessageStep(c, m, q0, new, k, o)
  PROVE  QueuesOK'
<1>1. /\ \A q \in Queues : ~(new /\ q = q0) => Joined(q, m)
      /\ new => Created(c, q0, k, o, m)
      /\ UNCHANGED <<info, ind, home, running>> /\ pc[c] # "queue"
      /\ \A d \in Caps \ {c} : pc'[d] = pc[d] /\ cur'[d] = cur[d]
      /\ pc'[c] = "queue" => new
  BY DEF MessageStep
<1>2. \A u \in Threads : \A x : HasIn(stack'[u], x, {"marked"}) <=> HasIn(stack[u], x, {"marked"})
  <2>1. \A u \in Threads : SameFrames(stack[u], stack'[u]) BY DEF MessageStep
  <2> QED BY <2>1, SameHas
<1>3. \A q \in Queues : ~(new /\ q = q0) => bq'[q].live = bq[q].live /\ bq'[q].bh = bq[q].bh
        /\ bq'[q].owner = bq[q].owner /\ bq[q].queue \subseteq bq'[q].queue
  BY <1>1 DEF Joined
<1>4. new => /\ bq'[q0].live /\ bq'[q0].bh = k /\ bq'[q0].owner = o /\ bq'[q0].queue = {m}
             /\ ~bq[q0].live /\ q0 \in Queues
             /\ k \in Closures /\ o \in Threads /\ info[k] = "BLACKHOLE" /\ ind[k] = TSO(o)
             /\ home[o] = c /\ o # running[c]
             /\ pc'[c] = "queue" /\ cur'[c] = m /\ \A x \in Closures : ind[x] # BQ(q0)
  BY <1>1 DEF Created, NewQueue
<1>5. ASSUME NEW x \in Closures, NEW q \in Queues, ind'[x] = BQ(q)
      PROVE  bq'[q].live /\ bq'[q].bh = x
  <2>1. ~(new /\ q = q0) BY <1>1, <1>4, <1>5
  <2> QED BY <1>1, <1>3, <1>5, <2>1 DEF Sharing, QueuesOK
<1>6. ASSUME NEW q \in Queues, ~(new /\ q = q0), bq'[q].live PROVE QueueOK(q)'
  <2>1. QueueOK(q) BY <1>3, <1>6 DEF Sharing, QueuesOK
  <2>2. ASSUME Pending(q) PROVE Pending(q)'
    <3>1. PICK d \in Caps : pc[d] = "queue" /\ cur[d] \in bq[q].queue /\ home[bq[q].owner] = d
      BY <2>2 DEF Pending
    <3>2. d # c BY <1>1, <3>1
    <3> QED BY <1>1, <1>3, <1>6, <3>1, <3>2 DEF Pending
  <2>3. bq'[q].bh = bq[q].bh /\ bq'[q].owner = bq[q].owner BY <1>3, <1>6
  <2>4. HasIn(stack'[bq[q].owner], bq[q].bh, {"marked"}) BY <1>2, <2>1 DEF QueueOK
  <2> QED BY <1>1, <2>1, <2>2, <2>3, <2>4 DEF QueueOK
<1>7. ASSUME new PROVE QueueOK(q0)'
  <2>1. Pending(q0)' BY <1>1, <1>4, <1>7 DEF Pending
  <2>2. HasIn(stack[o], k, {"marked"})
    <3>1. Owner(k) = o BY <1>4, <1>7, PointerTags DEF Owner
    <3>2. HasIn(stack[o], k, {"bh", "marked"}) BY <1>4, <1>7, <3>1 DEF Sharing, OwnersOK
    <3>3. PICK i \in 1..Len(stack[o]) : stack[o][i].upd = k /\ stack[o][i].kind \in {"bh", "marked"}
      BY <3>2 DEF HasIn
    <3>4. Parked(stack[o]) BY <1>4, <1>7 DEF StacksOK, ThreadOK
    <3>5. stack[o][i].kind \in {"marked", "stop"} BY <3>4 DEF Parked
    <3> QED BY <3>3, <3>5 DEF HasIn
  <2>3. HasIn(stack'[o], k, {"marked"}) BY <1>2, <1>4, <1>7, <2>2
  <2> QED BY <1>1, <1>4, <1>7, <2>1, <2>3 DEF QueueOK
<1>8. ASSUME NEW p \in Queues, new, p # q0, bq'[p].live, bq'[p].owner = o, bq'[p].bh = k PROVE FALSE
  <2>1. bq[p].live /\ bq[p].owner = o /\ bq[p].bh = k BY <1>3, <1>8
  <2>2. Pending(p) BY <1>4, <1>8, <2>1 DEF Sharing, QueuesOK, QueueOK
  <2>3. PICK d \in Caps : pc[d] = "queue" /\ home[bq[p].owner] = d BY <2>2 DEF Pending
  <2> QED BY <1>1, <1>4, <1>8, <2>1, <2>3
<1>9. ASSUME NEW p \in Queues, NEW q \in Queues, bq'[p].live, bq'[q].live,
             bq'[p].owner = bq'[q].owner, bq'[p].bh = bq'[q].bh
      PROVE  p = q
  <2>1. CASE new /\ p = q0 BY <1>4, <1>8, <1>9, <2>1
  <2>2. CASE new /\ q = q0 BY <1>4, <1>8, <1>9, <2>2
  <2>3. CASE ~(new /\ p = q0) /\ ~(new /\ q = q0) BY <1>3, <1>9, <2>3 DEF Sharing, QueuesOK
  <2> QED BY <2>1, <2>2, <2>3
<1>10. ASSUME NEW d \in Caps, pc'[d] = "queue" PROVE \E q \in Queues : Storable(d, q)'
  <2>1. CASE d = c
    <3>1. new BY <1>1, <1>10, <2>1
    <3> QED BY <1>1, <1>4, <2>1, <3>1 DEF Storable
  <2>2. CASE d # c
    <3>1. pc[d] = "queue" /\ cur'[d] = cur[d] BY <1>1, <1>10, <2>2
    <3>2. PICK q \in Queues : Storable(d, q) BY <3>1 DEF Sharing, QueuesOK
    <3>3. ~(new /\ q = q0) BY <1>4, <3>2 DEF Storable
    <3> QED BY <1>1, <1>3, <3>1, <3>2, <3>3 DEF Storable
  <2> QED BY <2>1, <2>2
<1>11. \A q \in Queues : bq'[q].live => QueueOK(q)' BY <1>6, <1>7
<1> QED BY <1>5, <1>9, <1>10, <1>11 DEF QueuesOK

\* messageBlackHole keeps Sharing.
LEMMA MessageShares ==
  ASSUME Types, StacksOK, Sharing, Types', NEW c \in Caps, NEW m \in Msgs, NEW q0,
         NEW new \in BOOLEAN, NEW k, NEW o,
         MessageStep(c, m, q0, new, k, o)
  PROVE  Sharing'
<1>1. MessagesOnce' BY MessagesStay DEF Sharing
<1>2. QueuesOK' BY MessageQueues
<1>3. \A x \in Closures : Owner(x)' = Owner(x) BY MessageOwners
<1>4. \A u \in Threads : SameFrames(stack[u], stack'[u]) BY DEF MessageStep
<1>5. /\ UNCHANGED <<info, ind, home, running, at, upd>> /\ pc[c] \in {"sched", "run"}
      /\ \A d \in Caps \ {c} : pc'[d] = pc[d]
      /\ pc'[c] \in {"sched", "pause", "queue"}
      /\ \A q \in Queues : ~(new /\ q = q0) => Joined(q, m)
      /\ new => Created(c, q0, k, o, m)
  BY DEF MessageStep
<1>6. OwnersOK'
  <2>1. ASSUME NEW x \in Closures, Owner(x)' \in Threads
        PROVE  HasIn(stack'[Owner(x)], x, {"bh", "marked"})
    <3>1. PICK u \in Threads : u = Owner(x) /\ u = Owner(x)' BY <1>3, <2>1
    <3>2. HasIn(stack[u], x, {"bh", "marked"}) BY <3>1 DEF Sharing, OwnersOK
    <3>3. SameFrames(stack[u], stack'[u]) BY <1>4
    <3>4. HasIn(stack'[u], x, {"bh", "marked"}) BY <3>2, <3>3, SameHas
    <3> QED BY <3>1, <3>4
  <2>2. \A x \in Closures : (Owner(x) \in Threads => HasIn(stack[Owner(x)], x, {"bh", "marked"}))'
    <3> SUFFICES ASSUME NEW x \in Closures, Owner(x)' \in Threads
                 PROVE  HasIn(stack'[Owner(x)'], x, {"bh", "marked"})
      OBVIOUS
    <3>1. Owner(x)' = Owner(x) BY <1>3
    <3> QED BY <2>1, <3>1
  <2> QED BY <1>5, <2>2 DEF Sharing, OwnersOK
<1>7. WorkOK'
  <2> SUFFICES ASSUME NEW d \in Caps, running'[d] # NoThread
               PROVE  WorkAt(d, running[d], stack[running[d]][at[d]], stack[running[d]][1].upd)'
    BY DEF WorkOK
  <2>1. CASE d = c BY <1>5, <2>1 DEF WorkAt, Storing
  <2>2. CASE d # c
    <3>1. PICK u : u = running[d] /\ u # NoThread BY <1>5
    <3>2. /\ u \in Threads /\ home[u] = d /\ Len(stack[u]) > 0 /\ at[d] \in 1..Len(stack[u])
          /\ stack[u][at[d]].kind # "stop" => stack[u][at[d]].upd \in Closures
          /\ pc[d] \in Claiming => stack[u][at[d]].upd \in Closures
          /\ pc[d] \in Storing => stack[u][1].upd \in Closures
      BY <3>1, WorkFrames
    <3>3. SameFrames(stack[u], stack'[u]) BY <1>4, <3>2
    <3>4. PICK f, g, k0 : f = stack[u][at[d]] /\ g = stack'[u][at[d]] /\ k0 = stack[u][1].upd
      OBVIOUS
    <3>5. g.upd = f.upd /\ g.kind = f.kind BY <3>2, <3>3, <3>4 DEF SameFrames
    <3>6. k0 = stack'[u][1].upd
      <4>1. 1 \in 1..Len(stack[u]) BY <3>2
      <4> QED BY <3>3, <3>4, <4>1 DEF SameFrames
    <3>7. WorkAt(d, u, f, k0) BY <3>1, <3>4 DEF Sharing, WorkOK
    <3>8. \A q \in Queues : bq'[q].live /\ bq'[q].owner = u => bq[q].live /\ bq[q].owner = u
            /\ bq'[q].bh = bq[q].bh
      <4>1. \A q \in Queues : new /\ q = q0 => bq'[q].owner # u
        BY <1>5, <2>2, <3>2 DEF Created, NewQueue
      <4> QED BY <1>5, <4>1 DEF Joined
    <3>9. pc'[d] = pc[d] /\ upd'[d] = upd[d] BY <1>5, <2>2
    <3>10. \A x \in Closures : (Owner(x)' = u => Owner(x) = u) /\ (ind[x] # Null => ind'[x] # Null)
      BY <1>3, <1>5
    <3>11. WorkAt(d, u, g, k0)'
      BY <3>2, <3>4, <3>5, <3>7, <3>8, <3>9, <3>10, OtherWork DEF Claiming, Storing
    <3> QED BY <1>5, <3>1, <3>4, <3>6, <3>11
  <2> QED BY <2>1, <2>2
<1>8. EagerOK'
  <2>1. ASSUME NEW u \in Threads, ClaimsFirst(u) PROVE ClaimsFirst(u)'
    <3>1. PICK d \in Caps : running[d] = u /\ pc[d] \in Claiming /\ at[d] = 1
      BY <2>1 DEF ClaimsFirst
    <3>2. d # c BY <1>5, <3>1 DEF Claiming
    <3> QED BY <1>5, <3>1, <3>2 DEF ClaimsFirst
  <2>2. ASSUME NEW u \in Threads, NEW i \in 1..Len(stack'[u]), stack'[u][i].kind = "bh"
        PROVE  info[stack'[u][i].upd] = "BLACKHOLE" \/ (i = 1 /\ ClaimsFirst(u))
    <3>1. i \in 1..Len(stack[u]) /\ stack'[u][i].kind = stack[u][i].kind
            /\ stack'[u][i].upd = stack[u][i].upd
      BY <1>4 DEF SameFrames
    <3> QED BY <2>2, <3>1 DEF Sharing, EagerOK
  <2> QED BY <1>5, <2>1, <2>2 DEF EagerOK
<1>9. APsOnce'
  <2>1. ASSUME NEW u \in Threads, NEW x \in APs, NEW i \in 1..Len(stack'[u]), stack'[u][i].upd = x
        PROVE  \E j \in 1..Len(stack[u]) : stack[u][j].upd = x
    BY <1>4, <2>1 DEF SameFrames
  <2> QED BY <1>5, <2>1, APStep DEF Sharing
<1> QED BY <1>1, <1>2, <1>6, <1>7, <1>8, <1>9 DEF Sharing

\* messageBlackHole is a MessageStep.
LEMMA MessageMoves ==
  ASSUME Types, StacksOK, Sharing, NEW c \in Caps, NEW m \in Msgs, NEW t, NEW k \in Closures,
         MessageBlackHole(c, m, t, k),
         info[k] = "BLACKHOLE", Owner(k) # running[c], pc[c] \in {"sched", "run"},
         \A q \in Queues : m \notin bq[q].queue, \A d \in Caps \ {c} : m \notin inbox[d],
         UNCHANGED <<info, ind, home, running, at, upd>>,
         \A u \in Threads : SameFrames(stack[u], stack'[u]),
         \A x \in Msgs : msg'[x].live => msg'[x].bh \in Closures /\ info[msg'[x].bh] = "BLACKHOLE"
  PROVE  \E q0, o : \E new \in BOOLEAN : MessageStep(c, m, q0, new, k, o)
<1>1. PICK o : o = Owner(k) OBVIOUS
<1>2. /\ o \in Threads /\ ind[k] \in Pointers
      /\ ind[k].to = "tso" => ind[k] = TSO(o)
      /\ ind[k].to = "bq" => ind[k].id \in Queues /\ ind[k] = BQ(ind[k].id)
  BY <1>1, OwnerIs DEF MessageBlackHole
<1>3. /\ inbox \in [Caps -> SUBSET Msgs] /\ pc \in [Caps -> Places]
      /\ cur \in [Caps -> Msgs \cup {None}] /\ home \in [Threads -> Caps]
      /\ bq \in [Queues -> [live : BOOLEAN, bh : Closures \cup {None}, owner :
           Threads \cup {NoThread}, queue : SUBSET Msgs]]
  BY DEF Types
<1>4. ASSUME StillBlocked(c, m)
      PROVE  /\ pc'[c] \in {"sched", "pause"} /\ \A d \in Caps \ {c} : pc'[d] = pc[d]
                  /\ cur'[d] = cur[d]
  <2>1. cur' = [cur EXCEPT ![c] = None] /\ (pc' = [pc EXCEPT ![c] = "sched"]
          \/ pc' = [pc EXCEPT ![c] = "pause"])
    BY <1>4 DEF StillBlocked, Goto
  <2> QED BY <1>3, <2>1
<1>5. \/ /\ home[o] # c
         /\ inbox' = [d \in Caps |-> IF d = home[o] THEN inbox[d] \cup {m} ELSE inbox[d] \ {m}]
         /\ StillBlocked(c, m) /\ UNCHANGED bq
      \/ /\ home[o] = c /\ ind[k].to = "bq"
         /\ bq' = [bq EXCEPT ![ind[k].id].queue = @ \cup {m}]
         /\ inbox' = [inbox EXCEPT ![c] = @ \ {m}]
         /\ StillBlocked(c, m)
      \/ /\ home[o] = c /\ ind[k].to = "tso" /\ FreeQueues # {}
         /\ bq' = [bq EXCEPT ![First(FreeQueues)] = NewQueue(k, o, m)]
         /\ inbox' = [inbox EXCEPT ![c] = @ \ {m}]
         /\ cur' = [cur EXCEPT ![c] = m] /\ pc' = [pc EXCEPT ![c] = "queue"]
  BY <1>1 DEF MessageBlackHole, Goto, NewQueue
<1>6. CASE /\ home[o] # c
           /\ inbox' = [d \in Caps |-> IF d = home[o] THEN inbox[d] \cup {m} ELSE inbox[d] \ {m}]
           /\ StillBlocked(c, m) /\ UNCHANGED bq
  <2>1. \A d \in Caps : inbox'[d] \subseteq inbox[d] \cup {m} /\ (m \in inbox'[d] => d = home[o])
    BY <1>6
  <2>2. MovedTo(m, None) BY <1>6, <2>1 DEF MovedTo
  <2>3. \A q \in Queues : Joined(q, m) BY <1>6 DEF Joined
  <2>4. MessageStep(c, m, None, FALSE, k, o) BY <1>4, <1>6, <2>1, <2>2, <2>3 DEF MessageStep
  <2> QED BY <2>4
<1>7. CASE /\ home[o] = c /\ ind[k].to = "bq"
           /\ bq' = [bq EXCEPT ![ind[k].id].queue = @ \cup {m}]
           /\ inbox' = [inbox EXCEPT ![c] = @ \ {m}]
           /\ StillBlocked(c, m)
  <2>1. PICK q0 \in Queues : q0 = ind[k].id /\ ind[k] = BQ(q0)
    <3>1. ind[k].id \in Queues /\ ind[k] = BQ(ind[k].id) BY <1>7, OwnerIs
    <3> QED BY <3>1
  <2>2. bq[q0].live
    <3>1. \A x \in Closures : \A q \in Queues : ind[x] = BQ(q) => bq[q].live
      BY DEF Sharing, QueuesOK
    <3> QED BY <2>1, <3>1
  <2>3. inbox'[c] = inbox[c] \ {m} /\ \A d \in Caps \ {c} : inbox'[d] = inbox[d] BY <1>3, <1>7
  <2>4. \A d \in Caps : inbox'[d] \subseteq inbox[d] \cup {m} /\ m \notin inbox'[d] BY <2>3
  <2>5. bq' = [bq EXCEPT ![q0].queue = @ \cup {m}] BY <1>7, <2>1
  <2>6. /\ bq'[q0].live = bq[q0].live /\ bq'[q0].bh = bq[q0].bh /\ bq'[q0].owner = bq[q0].owner
        /\ bq'[q0].queue = bq[q0].queue \cup {m} /\ \A q \in Queues \ {q0} : bq'[q] = bq[q]
    BY <1>3, <2>5
  <2>7. MovedTo(m, q0) BY <2>4, <2>6 DEF MovedTo
  <2>8. \A q \in Queues : Joined(q, m) BY <2>2, <2>6 DEF Joined
  <2>9. MessageStep(c, m, q0, FALSE, k, o) BY <1>4, <1>7, <2>4, <2>7, <2>8 DEF MessageStep
  <2> QED BY <2>9
<1>8. CASE /\ home[o] = c /\ ind[k].to = "tso" /\ FreeQueues # {}
           /\ bq' = [bq EXCEPT ![First(FreeQueues)] = NewQueue(k, o, m)]
           /\ inbox' = [inbox EXCEPT ![c] = @ \ {m}]
           /\ cur' = [cur EXCEPT ![c] = m] /\ pc' = [pc EXCEPT ![c] = "queue"]
  <2>1. PICK q0 \in Queues : q0 = First(FreeQueues) /\ ~bq[q0].live
          /\ \A x \in Closures : ind[x] # BQ(q0)
    <3>1. FreeQueues \subseteq Nat BY Distinct DEF FreeQueues
    <3>2. First(FreeQueues) \in FreeQueues BY <1>8, <3>1, FirstOK
    <3> QED BY <3>2 DEF FreeQueues
  <2>2. bq' = [bq EXCEPT ![q0] = NewQueue(k, o, m)] BY <1>8, <2>1
  <2>3. bq'[q0] = NewQueue(k, o, m) /\ \A q \in Queues \ {q0} : bq'[q] = bq[q] BY <1>3, <2>2
  <2>4. inbox'[c] = inbox[c] \ {m} /\ \A d \in Caps \ {c} : inbox'[d] = inbox[d] BY <1>3, <1>8
  <2>5. \A d \in Caps : inbox'[d] \subseteq inbox[d] \cup {m} /\ m \notin inbox'[d] BY <2>4
  <2>6. pc'[c] = "queue" /\ cur'[c] = m /\ \A d \in Caps \ {c} : pc'[d] = pc[d] /\ cur'[d] = cur[d]
    BY <1>3, <1>8
  <2>7. MovedTo(m, q0) BY <2>3, <2>5 DEF MovedTo
  <2>8. \A q \in Queues \ {q0} : Joined(q, m) BY <2>3 DEF Joined
  <2>9. ind[k] = TSO(o) BY <1>2, <1>8
  <2>10. Created(c, q0, k, o, m) BY <1>1, <1>2, <1>8, <2>1, <2>3, <2>6, <2>9 DEF Created
  <2>11. MessageStep(c, m, q0, TRUE, k, o) BY <2>5, <2>6, <2>7, <2>8, <2>10 DEF MessageStep
  <2> QED BY <2>11
<1> QED BY <1>5, <1>6, <1>7, <1>8

\* A stack that has not changed
LEMMA SameFramesReflexive ==
  ASSUME Types, NEW u \in Threads, stack'[u] = stack[u]
  PROVE  SameFrames(stack[u], stack'[u])
<1>1. stack[u] \in Seq(Frames) BY DEF Types
<1> QED BY <1>1 DEF SameFrames

\* stg_BLACKHOLE, entered by a thread, keeps what threads share right.
LEMMA EnterBlackHoleShares ==
  ASSUME Types, StacksOK, Ranked, Sharing, NEW c \in Caps, NEW t, t = running[c], NEW k,
         k = Next1(t), k # None, pc[c] = "run",
         EnterBlackHole(c, t, k), UNCHANGED <<ind, code, running, upd, home, events>>
  PROVE  Sharing'
<1>1. Types' /\ StacksOK' BY EnterBlackHoleTypes
<1>2. t \in Threads /\ home[t] = c /\ t # NoThread /\ at \in [Caps -> Nat \ {0}] BY RunsOn
<1>3. k \in Closures /\ \A kinds : ~HasIn(stack[t], k, kinds) BY <1>2, NextNew
<1>4. PICK m \in Msgs : m \in FreeMsgs /\ m = First(FreeMsgs) BY FreeMsg DEF EnterBlackHole
<1>5. /\ info[k] = "BLACKHOLE" /\ info' = info
      /\ msg' = [msg EXCEPT ![m] = [live |-> TRUE, tso |-> t, bh |-> k]]
      /\ MessageBlackHole(c, m, t, k)
      /\ at' = [at EXCEPT ![c] = 1]
      /\ Later(t, k)
  BY <1>4 DEF EnterBlackHole
<1>6. at' = at
  <2>1. at[c] = 1 BY <1>2 DEF StacksOK, CapOK
  <2> QED BY <1>2, <1>5, <2>1
<1>7. \A u \in Threads : SameFrames(stack[u], stack'[u])
  <2>1. SameFrames(stack[t], NextDone(t)) /\ stack' = [stack EXCEPT ![t] = NextDone(t)]
          /\ stack'[t] = NextDone(t)
    BY <1>2, <1>3, <1>5, LaterDoes
  <2>2. SameFrames(stack[t], stack'[t]) BY <2>1
  <2>3. \A u \in Threads \ {t} : stack'[u] = stack[u]
    <3>1. stack \in [Threads -> Seq(Frames)] BY DEF Types
    <3>2. PICK p : p = NextDone(t) OBVIOUS
    <3>3. stack' = [stack EXCEPT ![t] = p] BY <2>1, <3>2
    <3> QED BY <3>1, <3>3
  <2> QED BY <2>2, <2>3, SameFramesReflexive
<1>8. Owner(k) # running[c]
  <2>1. Owner(k) = t => HasIn(stack[t], k, {"bh", "marked"}) BY <1>2, <1>3 DEF Sharing, OwnersOK
  <2> QED BY <1>3, <2>1
<1>9. (\A q \in Queues : m \notin bq[q].queue) /\ (\A d \in Caps \ {c} : m \notin inbox[d])
  BY <1>4 DEF FreeMsgs
<1>10. ASSUME NEW x \in Msgs, msg'[x].live
       PROVE  msg'[x].bh \in Closures /\ info[msg'[x].bh] = "BLACKHOLE"
  <2>1. msg \in [Msgs -> [live : BOOLEAN, tso : Threads \cup {NoThread}, bh : Closures \cup {None}]]
    BY DEF Types
  <2>2. CASE x = m
    <3>1. msg'[m].bh = k BY <1>5, <2>1
    <3> QED BY <1>3, <1>5, <2>2, <3>1
  <2>3. CASE x # m
    <3>1. msg'[x] = msg[x] BY <1>5, <2>1, <2>3
    <3> QED BY <1>10, <3>1 DEF Sharing, MessagesOnce
  <2> QED BY <2>2, <2>3
<1>11. \E q0, o : \E new \in BOOLEAN : MessageStep(c, m, q0, new, k, o)
  BY <1>3, <1>5, <1>6, <1>7, <1>8, <1>9, <1>10, MessageMoves
<1>12. PICK q0, o : \E new \in BOOLEAN : MessageStep(c, m, q0, new, k, o) BY <1>11
<1>13. PICK new \in BOOLEAN : MessageStep(c, m, q0, new, k, o) BY <1>12
<1> QED BY <1>1, <1>13, MessageShares

\* executeMessage, for a MSG_BLACKHOLE, keeps what threads share right.
LEMMA TakeMessageShares ==
  ASSUME Types, StacksOK, Sharing, NEW c \in Caps, NEW m \in Msgs, TakeMessage(c, m)
  PROVE  Sharing'
<1>1. msg[m].live => msg[m].bh \in Closures /\ info[msg[m].bh] = "BLACKHOLE"
  BY DEF Sharing, MessagesOnce
<1>2. Types' /\ StacksOK' BY <1>1, TakeMessageTypes
<1>3. PICK t, k : t = msg[m].tso /\ k = msg[m].bh OBVIOUS
<1>4. /\ pc[c] = "sched" /\ m \in inbox[c]
      /\ \/ inbox' = [inbox EXCEPT ![c] = @ \ {m}] /\ UNCHANGED <<bq, pc, cur>>
         \/ msg[m].live /\ MessageBlackHole(c, m, t, k)
      /\ UNCHANGED <<info, ind, msg, stack, running, at, upd, home>>
  BY <1>3 DEF TakeMessage, heap
<1>5. CASE inbox' = [inbox EXCEPT ![c] = @ \ {m}] /\ UNCHANGED <<bq, pc, cur>>
  <2>1. inbox \in [Caps -> SUBSET Msgs] BY DEF Types
  <2>2. \A d \in Caps : inbox'[d] \subseteq inbox[d] BY <1>5, <2>1
  <2>3. \A d \in Caps :
            \/ pc'[d] = pc[d] /\ running'[d] = running[d] /\ at'[d] = at[d] /\ upd'[d] = upd[d]
            \/ /\ pc[d] \notin Claiming /\ pc[d] # "queue" /\ pc'[d] # "queue"
               /\ \/ running'[d] = NoThread
                  \/ pc'[d] = "run"
                  \/ pc'[d] = "freeze" /\ stack[running'[d]][at'[d]].kind = "stop"
    BY <1>4, <1>5
  <2>4. /\ \A x \in Msgs : msg'[x].live => msg[x].live /\ msg'[x].bh = msg[x].bh
        /\ \A u \in Threads : home'[u] = home[u] \/ pc[home[u]] # "queue"
    BY <1>4
  <2> QED BY <1>2, <1>4, <1>5, <2>2, <2>3, <2>4, QuietShares
<1>6. CASE msg[m].live /\ MessageBlackHole(c, m, t, k)
  <2>1. k \in Closures /\ info[k] = "BLACKHOLE" BY <1>1, <1>3, <1>6
  <2>2. Owner(k) # running[c]
    <3>1. running[c] = NoThread BY <1>4 DEF StacksOK, CapOK
    <3> QED BY <1>6, <3>1 DEF MessageBlackHole
  <2>3. (\A q \in Queues : m \notin bq[q].queue) /\ (\A d \in Caps \ {c} : m \notin inbox[d])
    BY <1>4 DEF Sharing, MessagesOnce
  <2>4. \A u \in Threads : SameFrames(stack[u], stack'[u]) BY <1>4, SameFramesReflexive
  <2>5. \A x \in Msgs : msg'[x].live => msg'[x].bh \in Closures /\ info[msg'[x].bh] = "BLACKHOLE"
    BY <1>4 DEF Sharing, MessagesOnce
  <2>6. \E q0, o : \E new \in BOOLEAN : MessageStep(c, m, q0, new, k, o)
    BY <1>4, <1>6, <2>1, <2>2, <2>3, <2>4, <2>5, MessageMoves
  <2>7. PICK q0, o : \E new \in BOOLEAN : MessageStep(c, m, q0, new, k, o) BY <2>6
  <2>8. PICK new \in BOOLEAN : MessageStep(c, m, q0, new, k, o) BY <2>7
  <2> QED BY <1>2, <2>8, MessageShares
<1> QED BY <1>4, <1>5, <1>6

\* StoreQueue finds the queue that its message has started.
LEMMA StoreQueueFinds ==
  ASSUME Types, StacksOK, Sharing, NEW c \in Caps, StoreQueue(c)
  PROVE  \E q \in Queues : /\ Storable(c, q)
                           /\ ind' = [ind EXCEPT ![bq[q].bh] = BQ(q)]
                           /\ \A p \in Queues : cur[c] \in bq[p].queue => p = q
<1>1. pc[c] = "queue" BY DEF StoreQueue
<1>2. PICK q \in Queues : Storable(c, q) BY <1>1 DEF Sharing, QueuesOK
<1>3. cur[c] \in Msgs
  <2>1. bq[q].queue \subseteq Msgs BY DEF Types
  <2> QED BY <1>2, <2>1 DEF Storable
<1>4. \A p \in Queues : cur[c] \in bq[p].queue => p = q
  BY <1>2, <1>3 DEF Storable, Sharing, MessagesOnce
<1>5. PICK q1 : q1 = CHOOSE p \in Queues : bq[p].live /\ cur[c] \in bq[p].queue OBVIOUS
<1>6. q1 \in Queues /\ cur[c] \in bq[q1].queue BY <1>2, <1>5 DEF Storable
<1>7. q1 = q BY <1>4, <1>6
<1>8. ind' = [ind EXCEPT ![bq[q].bh] = BQ(q)] BY <1>5, <1>7 DEF StoreQueue
<1> QED BY <1>2, <1>4, <1>8

\* The last store of messageBlackHole keeps what threads share right.
LEMMA StoreQueueShares ==
  ASSUME Types, StacksOK, Sharing, NEW c \in Caps, StoreQueue(c)
  PROVE  Sharing'
<1>1. PICK q \in Queues : /\ Storable(c, q)
                          /\ ind' = [ind EXCEPT ![bq[q].bh] = BQ(q)]
                          /\ \A p \in Queues : cur[c] \in bq[p].queue => p = q
  BY StoreQueueFinds
<1>2. Types' /\ StacksOK'
  <2>1. \E p \in Queues : bq[p].live /\ cur[c] \in bq[p].queue BY <1>1 DEF Storable
  <2> QED BY <2>1, StoreQueueTypes
<1>3. bq[q].live /\ QueueOK(q) BY <1>1 DEF Storable, Sharing, QueuesOK
<1>4. PICK k \in Closures, o \in Threads : k = bq[q].bh /\ o = bq[q].owner BY <1>3 DEF QueueOK
<1>5. home[o] = c /\ o # running[c] BY <1>1, <1>4 DEF Storable
<1>6. ind'[k] = BQ(q) /\ \A x \in Closures \ {k} : ind'[x] = ind[x]
  <2>1. ind \in [Closures -> Pointers] BY DEF Types
  <2> QED BY <1>1, <1>4, <2>1
<1>7. /\ pc[c] = "queue" /\ UNCHANGED <<info, bq, msg, inbox, stack, running, at, upd, home>>
      /\ pc'[c] \in {"sched", "pause"} /\ \A d \in Caps \ {c} : pc'[d] = pc[d] /\ cur'[d] = cur[d]
  <2>1. /\ pc[c] = "queue" /\ UNCHANGED <<info, bq, msg, inbox, stack, running, at, upd, home>>
        /\ cur' = [cur EXCEPT ![c] = None] /\ (pc' = [pc EXCEPT ![c] = "sched"]
             \/ pc' = [pc EXCEPT ![c] = "pause"])
    BY DEF StoreQueue, StillBlocked, Goto, blocking
  <2>2. pc \in [Caps -> Places] /\ cur \in [Caps -> Msgs \cup {None}] BY DEF Types
  <2> QED BY <2>1, <2>2
<1>8. ASSUME NEW x \in Closures, x # k PROVE Owner(x)' = Owner(x) BY <1>6, <1>7, <1>8 DEF Owner
<1>9. Owner(k)' = o BY <1>4, <1>6, <1>7, PointerTags DEF Owner
<1>10. MessagesOnce' BY <1>7 DEF Sharing, MessagesOnce
<1>11. QueuesOK'
  <2>1. ASSUME NEW x \in Closures, NEW p \in Queues, ind'[x] = BQ(p)
        PROVE  bq'[p].live /\ bq'[p].bh = x
    <3>1. CASE x = k
      <4>1. p = q BY <1>6, <2>1, <3>1, PointerTags
      <4> QED BY <1>3, <1>4, <1>7, <3>1, <4>1
    <3>2. CASE x # k BY <1>6, <1>7, <2>1, <3>2 DEF Sharing, QueuesOK
    <3> QED BY <3>1, <3>2
  <2>2. ASSUME NEW p \in Queues, bq'[p].live PROVE QueueOK(p)'
    <3>1. QueueOK(p) BY <1>7, <2>2 DEF Sharing, QueuesOK
    <3>2. ASSUME ind'[bq[p].bh] = TSO(bq[p].owner) PROVE Pending(p)'
      <4>1. bq[p].bh # k BY <1>6, <3>2, PointerTags
      <4>2. Pending(p) BY <1>6, <3>1, <3>2, <4>1 DEF QueueOK
      <4>3. PICK d \in Caps : pc[d] = "queue" /\ cur[d] \in bq[p].queue /\ home[bq[p].owner] = d
        BY <4>2 DEF Pending
      <4>4. d # c BY <1>1, <1>4, <4>1, <4>3
      <4> QED BY <1>7, <4>3, <4>4 DEF Pending
    <3> QED BY <1>7, <3>1, <3>2 DEF QueueOK
  <2>3. ASSUME NEW d \in Caps, pc'[d] = "queue" PROVE \E p \in Queues : Storable(d, p)'
    <3>1. d # c /\ pc[d] = "queue" /\ cur'[d] = cur[d] BY <1>7, <2>3
    <3>2. PICK p \in Queues : Storable(d, p) BY <3>1 DEF Sharing, QueuesOK
    <3> QED BY <1>7, <3>1, <3>2 DEF Storable
  <2>4. /\ \A x \in Closures : \A p \in Queues : ind'[x] = BQ(p) => bq'[p].live /\ bq'[p].bh = x
        /\ \A p \in Queues : bq'[p].live => QueueOK(p)'
        /\ \A d \in Caps : pc'[d] = "queue" => \E p \in Queues : Storable(d, p)'
    BY <2>1, <2>2, <2>3
  <2> QED BY <1>7, <2>4 DEF Sharing, QueuesOK
<1>12. OwnersOK'
  <2>1. ASSUME NEW x \in Closures
        PROVE  /\ (Owner(x) \in Threads => HasIn(stack[Owner(x)], x, {"bh", "marked"}))'
               /\ info'[x] = "BLACKHOLE" => ind'[x] # Null
    <3>1. CASE x = k
      <4>1. HasIn(stack[o], k, {"marked"}) BY <1>3, <1>4 DEF QueueOK
      <4>2. HasIn(stack[o], k, {"bh", "marked"}) BY <4>1 DEF HasIn
      <4> QED BY <1>6, <1>7, <1>9, <3>1, <4>2, PointerTags
    <3>2. CASE x # k
      <4>1. Owner(x)' = Owner(x) /\ ind'[x] = ind[x] BY <1>6, <1>8, <3>2
      <4> QED BY <1>7, <4>1 DEF Sharing, OwnersOK
    <3> QED BY <3>1, <3>2
  <2> QED BY <2>1 DEF OwnersOK
<1>13. WorkOK'
  <2> SUFFICES ASSUME NEW d \in Caps, running'[d] # NoThread
               PROVE  WorkAt(d, running[d], stack[running[d]][at[d]], stack[running[d]][1].upd)'
    BY DEF WorkOK
  <2>1. CASE d = c BY <1>7, <2>1 DEF WorkAt, Storing
  <2>2. CASE d # c
    <3>1. PICK u : u = running[d] /\ u # NoThread BY <1>7
    <3>2. /\ u \in Threads /\ home[u] = d
          /\ stack[u][at[d]].kind # "stop" => stack[u][at[d]].upd \in Closures
          /\ pc[d] \in Claiming => stack[u][at[d]].upd \in Closures
          /\ pc[d] \in Storing => stack[u][1].upd \in Closures
      BY <3>1, WorkFrames
    <3>3. PICK f, k0 : f = stack[u][at[d]] /\ k0 = stack[u][1].upd OBVIOUS
    <3>4. WorkAt(d, u, f, k0) BY <3>1, <3>3 DEF Sharing, WorkOK
    <3>5. pc'[d] = pc[d] /\ upd'[d] = upd[d] BY <1>7, <2>2
    <3>6. \A x \in Closures : (Owner(x)' = u => Owner(x) = u) /\ (ind[x] # Null => ind'[x] # Null)
      BY <1>5, <1>6, <1>8, <1>9, <2>2, <3>2, PointerTags
    <3>7. WorkAt(d, u, f, k0)'
      BY <1>7, <3>2, <3>3, <3>4, <3>5, <3>6, OtherWork DEF Claiming, Storing
    <3> QED BY <1>7, <3>1, <3>3, <3>7
  <2> QED BY <2>1, <2>2
<1>14. EagerOK'
  <2>1. ASSUME NEW u \in Threads, ClaimsFirst(u) PROVE ClaimsFirst(u)'
    <3>1. PICK d \in Caps : running[d] = u /\ pc[d] \in Claiming /\ at[d] = 1
      BY <2>1 DEF ClaimsFirst
    <3>2. d # c BY <1>7, <3>1 DEF Claiming
    <3> QED BY <1>7, <3>1, <3>2 DEF ClaimsFirst
  <2> QED BY <1>7, <2>1 DEF Sharing, EagerOK
<1>15. APsOnce' BY <1>7 DEF Sharing, APsOnce, Evaluates
<1> QED BY <1>10, <1>11, <1>12, <1>13, <1>14, <1>15 DEF Sharing

\* The inductive invariant
BlackHoleInv == Types /\ StacksOK /\ Ranked /\ Sharing

\* The invariant holds at first: types,
LEMMA InitTypes ==
  ASSUME Init
  PROVE  Types
<1>1. \A k \in Thunks : Needs[k] \in Seq(Closures)
  <2> SUFFICES ASSUME NEW k \in Thunks PROVE Needs[k] \in Seq(Closures) OBVIOUS
  <2>1. Thunks = 1..Len(Needs) /\ Len(Needs) \in Nat /\ k \in DOMAIN Needs
    BY BlackHoleAssumption DEF Thunks
  <2>2. Needs[k] \in Seq(Nat \ {0}) BY <2>1, BlackHoleAssumption
  <2>3. ASSUME NEW i \in 1..Len(Needs[k]) PROVE Needs[k][i] \in Closures
    <3>1. i \in DOMAIN Needs[k] BY <2>2
    <3>2. Needs[k][i] \in 1..k - 1 BY <3>1, BlackHoleAssumption
    <3> QED BY <2>1, <3>2 DEF Closures
  <2> QED BY <2>2, <2>3
<1>2. \A t \in Threads : Wants[t] \in Seq(Closures)
  <2>1. Wants \in [Threads -> Seq(Thunks)] BY BlackHoleAssumption
  <2>2. Thunks \subseteq Closures BY Distinct
  <2> QED BY <2>1, <2>2
<1>3. info \in [Closures -> {"unallocated", "THUNK", "AP_STACK", "WHITEHOLE", "BLACKHOLE"}]
  BY DEF Init
<1>4. ind \in [Closures -> Pointers] BY PointerKinds DEF Init
<1>5. code \in [Closures -> Seq(Closures)]
  <2>1. <<>> \in Seq(Closures) OBVIOUS
  <2> QED BY <1>1, <2>1 DEF Init
<1>6. bq \in [Queues -> [live : BOOLEAN, bh : Closures \cup {None}, owner :
        Threads \cup {NoThread}, queue : SUBSET Msgs]]
  BY DEF Init
<1>7. msg \in [Msgs -> [live : BOOLEAN, tso : Threads \cup {NoThread}, bh : Closures \cup {None}]]
  BY DEF Init
<1>8. inbox \in [Caps -> SUBSET Msgs] /\ wakeups \in [Caps -> [Threads -> Nat]] BY DEF Init
<1>9. home \in [Threads -> Caps] BY BlackHoleAssumption DEF Init
<1>10. stack \in [Threads -> Seq(Frames)]
  <2>1. \A t \in Threads : Stop(t) \in Frames BY <1>2 DEF Stop, Frames
  <2>2. \A t \in Threads : <<Stop(t)>> \in Seq(Frames) BY <2>1
  <2> QED BY <2>2 DEF Init
<1>11. /\ enter \in [Threads -> Closures \cup {None}]
       /\ why \in [Threads -> {"NotBlocked", "BlockedOnBlackHole", "Finished"}]
       /\ block_info \in [Threads -> Msgs \cup {None}]
       /\ running \in [Caps -> Threads \cup {NoThread}]
       /\ pc \in [Caps -> Places]
       /\ at \in [Caps -> Nat \ {0}]
       /\ cur \in [Caps -> Msgs \cup {None}]
  BY DEF Init, Places
<1>12. upd \in [Caps -> [val : Pointers, seen : Pointers]]
  <2>1. NoUpdate \in [val : Pointers, seen : Pointers] BY PointerKinds DEF NoUpdate
  <2> QED BY <2>1 DEF Init
<1> QED BY <1>3, <1>4, <1>5, <1>6, <1>7, <1>8, <1>9, <1>10, <1>11, <1>12 DEF Types

\* The stack that a thread starts with
LEMMA FirstStack ==
  ASSUME Init, NEW t \in Threads
  PROVE  /\ Len(stack[t]) = 1 /\ stack[t][1].kind = "stop" /\ stack[t][1].upd = None
         /\ stack[t][1].todo = Wants[t]
BY DEF Init, Stop

\* ... stacks,
LEMMA InitStacks ==
  ASSUME Init, Types
  PROVE  StacksOK
<1>1. ASSUME NEW t \in Threads PROVE ThreadOK(t)
  <2>1. stack[t] \in Seq(Frames) BY DEF Types
  <2>2. /\ Len(stack[t]) = 1 /\ stack[t][1].kind = "stop" /\ stack[t][1].upd = None
    BY FirstStack
  <2>3. \A i \in 1..Len(stack[t]) : i = 1 BY <2>2
  <2>4. Len(stack[t]) > 0 BY <2>2
  <2>5. StackOK(stack[t])
    <3> SUFFICES ASSUME NEW i \in 1..Len(stack[t])
                 PROVE  /\ stack[t][i].kind = "stop" <=> i = Len(stack[t])
                        /\ stack[t][i].kind # "stop" => stack[t][i].upd \in Closures
                        /\ stack[t][i].kind = "stop" => stack[t][i].upd = None
      BY <2>1, <2>4 DEF StackOK
    <3> QED BY <2>2, <2>3
  <2>6. Parked(stack[t]) BY <2>2, <2>3 DEF Parked
  <2> QED BY <2>5, <2>6 DEF ThreadOK
<1>2. ASSUME NEW c \in Caps PROVE CapOK(c) BY DEF Init, CapOK
<1> QED BY <1>1, <1>2 DEF StacksOK

\* ... the order of the closures, which is that of their numbers,
LEMMA InitRanked ==
  ASSUME Init, Types
  PROVE  Ranked
<1>1. PICK r \in [Closures -> Nat] : \A k \in Closures : r[k] = k
  <2>1. [k \in Closures |-> k] \in [Closures -> Nat] BY Distinct
  <2> QED BY <2>1
<1>2. Allocated = Thunks
  <2>1. \A k \in Closures : info[k] # "unallocated" <=> k \in Thunks BY DEF Init
  <2> QED BY <2>1, Distinct DEF Allocated
<1>3. \A k \in Closures : ind[k] = Null BY DEF Init
<1>4. ASSUME NEW k \in Thunks, NEW i \in DOMAIN code[k]
      PROVE  code[k][i] \in Thunks /\ r[code[k][i]] < r[k]
  <2>1. k \in Closures /\ code[k] = Needs[k] BY Distinct DEF Init
  <2>2. Thunks = 1..Len(Needs) /\ Len(Needs) \in Nat BY BlackHoleAssumption DEF Thunks
  <2>3. Needs[k][i] \in 1..k - 1 BY <1>4, <2>1, BlackHoleAssumption
  <2>4. Needs[k][i] \in Thunks /\ Needs[k][i] < k BY <2>2, <2>3
  <2> QED BY <1>1, <2>1, <2>4, Distinct
<1>5. CodeRank(r) BY <1>2, <1>3, <1>4, PointerTags DEF CodeRank
<1>6. ASSUME NEW t \in Threads PROVE StackRank(r, Allocated, stack[t])
  <2>1. Wants[t] \in Seq(Thunks) BY BlackHoleAssumption
  <2>2. \A j \in DOMAIN Wants[t] : Wants[t][j] \in Thunks BY <2>1
  <2>3. Len(stack[t]) = 1 /\ stack[t][1].todo = Wants[t] BY FirstStack
  <2>4. \A i \in 1..Len(stack[t]) : i = 1 BY <2>3
  <2> QED BY <1>2, <2>2, <2>3, <2>4 DEF StackRank, FrameRank
<1>7. \A t \in Threads : EnterRank(r, Allocated, enter[t], stack[t]) BY DEF Init, EnterRank
<1>8. \A c \in Caps : UpdRank(r, c) BY DEF Init, UpdRank, Storing
<1>9. RankOK(r) BY <1>5, <1>6, <1>7, <1>8 DEF RankOK
<1> QED BY <1>1, <1>9 DEF Ranked

\* ... and owners and queues: there are none.
LEMMA InitSharing ==
  ASSUME Init, Types
  PROVE  Sharing
<1>1. MessagesOnce BY DEF Init, MessagesOnce
<1>2. QueuesOK
  <2>1. \A k \in Closures : \A q \in Queues : ind[k] # BQ(q)
    <3>1. \A k \in Closures : ind[k] = Null BY DEF Init
    <3> QED BY <3>1, PointerTags
  <2>2. \A q \in Queues : ~bq[q].live BY DEF Init
  <2>3. \A c \in Caps : pc[c] # "queue" BY DEF Init
  <2> QED BY <2>1, <2>2, <2>3 DEF QueuesOK
<1>3. OwnersOK
  <2>1. \A k \in Closures : ind[k] = Null /\ info[k] # "BLACKHOLE" BY DEF Init
  <2>2. \A k \in Closures : Owner(k) = NoThread BY <2>1, PointerTags DEF Owner
  <2> QED BY <2>1, <2>2, Distinct DEF OwnersOK
<1>4. WorkOK BY DEF Init, WorkOK
<1>5. EagerOK
  <2>1. \A t \in Threads : \A i \in 1..Len(stack[t]) : stack[t][i].kind = "stop" BY FirstStack
  <2> QED BY <2>1 DEF EagerOK
<1>6. APsOnce
  <2>1. \A k \in APs : info[k] # "THUNK"
    <3>1. \A k \in APs : k \in Closures /\ k \notin Thunks BY Distinct
    <3> QED BY <3>1 DEF Init
  <2>2. ASSUME NEW t \in Threads, NEW k \in APs PROVE ~Evaluates(t, k)
    <3>1. stack[t] \in Seq(Frames) BY DEF Types
    <3>2. k # None BY Distinct
    <3> QED BY <3>1, <3>2, FirstStack DEF Evaluates
  <2> QED BY <2>1, <2>2 DEF APsOnce
<1> QED BY <1>1, <1>2, <1>3, <1>4, <1>5, <1>6 DEF Sharing

\* Enter, by cases
LEMMA EnterCases ==
  ASSUME NEW c \in Caps, Enter(c), NEW t, t = running[c], NEW k, k = Next1(t)
  PROVE  /\ pc[c] = "run" /\ k # None /\ UNCHANGED <<ind, code, running, upd, home, events>>
         /\ \/ /\ EnterThunk(c, t, k) \/ EnterAPStack(c, t, k)
               /\ UNCHANGED <<blocking, why, block_info, at, cur>>
            \/ /\ EnterIndirection(c, t, k)
               /\ UNCHANGED <<blocking, why, block_info, at, cur>>
            \/ EnterBlackHole(c, t, k)
BY DEF Enter

\* The entry of a closure keeps the invariant.
LEMMA EnterKeeps ==
  ASSUME BlackHoleInv, NEW c \in Caps, Enter(c)
  PROVE  BlackHoleInv'
<1>1. PICK t, k : t = running[c] /\ k = Next1(t) OBVIOUS
<1>2. /\ pc[c] = "run" /\ k # None /\ UNCHANGED <<ind, code, running, upd, home, events>>
      /\ \/ /\ EnterThunk(c, t, k) \/ EnterAPStack(c, t, k)
            /\ UNCHANGED <<blocking, why, block_info, at, cur>>
         \/ /\ EnterIndirection(c, t, k)
            /\ UNCHANGED <<blocking, why, block_info, at, cur>>
         \/ EnterBlackHole(c, t, k)
  BY <1>1, EnterCases
<1>3. Types /\ StacksOK /\ Ranked /\ Sharing BY DEF BlackHoleInv
<1>4. PICK r \in [Closures -> Nat] : RankOK(r) BY <1>3 DEF Ranked
<1>5. CASE /\ EnterThunk(c, t, k) \/ EnterAPStack(c, t, k)
           /\ UNCHANGED <<blocking, why, block_info, at, cur>>
  <2>1. UNCHANGED <<blocking, why, block_info, at, cur, ind, code, running, upd, home, events>>
    BY <1>2, <1>5
  <2>2. Types' /\ StacksOK' BY <1>1, <1>2, <1>3, <1>5, <2>1, EnterThunkTypes
  <2>3. RankOK(r)' BY <1>1, <1>2, <1>3, <1>4, <1>5, <2>1, EnterThunkRank
  <2>4. Shared' /\ APsOnce' BY <1>1, <1>2, <1>3, <1>5, <2>1, EnterThunkShares
  <2> QED BY <1>4, <2>2, <2>3, <2>4 DEF BlackHoleInv, Ranked, Shared, Sharing
<1>6. CASE /\ EnterIndirection(c, t, k)
           /\ UNCHANGED <<blocking, why, block_info, at, cur>>
  <2>1. UNCHANGED <<blocking, why, block_info, at, cur, ind, code, running, upd, home, events>>
    BY <1>2, <1>6
  <2>2. Types' /\ StacksOK' BY <1>1, <1>2, <1>3, <1>6, <2>1, EnterIndirectionTypes
  <2>3. RankOK(r)' BY <1>1, <1>2, <1>3, <1>4, <1>6, <2>1, EnterIndirectionRank
  <2>4. Shared' /\ APsOnce' BY <1>1, <1>2, <1>3, <1>6, <2>1, EnterIndirectionShares
  <2> QED BY <1>4, <2>2, <2>3, <2>4 DEF BlackHoleInv, Ranked, Shared, Sharing
<1>7. CASE EnterBlackHole(c, t, k)
  <2>1. Types' /\ StacksOK' BY <1>1, <1>2, <1>3, <1>7, EnterBlackHoleTypes
  <2>2. RankOK(r)' BY <1>1, <1>2, <1>3, <1>4, <1>7, EnterBlackHoleRank
  <2>3. Sharing' BY <1>1, <1>2, <1>3, <1>7, EnterBlackHoleShares
  <2> QED BY <1>4, <2>1, <2>2, <2>3 DEF BlackHoleInv, Ranked
<1> QED BY <1>2, <1>5, <1>6, <1>7

\* The steps of a thread that runs
LEMMA RunKeeps ==
  ASSUME BlackHoleInv, NEW c \in Caps,
         \/ ClaimIndirectee(c) \/ ClaimInfo(c) \/ Return(c) \/ StoreIndirectee(c) \/ StoreInfo(c)
  PROVE  BlackHoleInv'
<1>1. Types /\ StacksOK /\ Ranked /\ Sharing BY DEF BlackHoleInv
<1>2. PICK r \in [Closures -> Nat] : RankOK(r) BY <1>1 DEF Ranked
<1>3. Types' /\ StacksOK'
  BY <1>1, ClaimIndirecteeTypes, ClaimInfoTypes, ReturnTypes, StoreIndirecteeTypes, StoreInfoTypes
<1>4. RankOK(r)'
  BY <1>1, <1>2, ClaimIndirecteeRank, ClaimInfoRank, ReturnRank, StoreIndirecteeRank, StoreInfoRank
<1>5. Shared' /\ APsOnce'
  BY <1>1, ClaimIndirecteeShares, ClaimInfoShares, ReturnShares, StoreIndirecteeShares,
     StoreInfoShares
<1> QED BY <1>2, <1>3, <1>4, <1>5 DEF BlackHoleInv, Ranked, Shared, Sharing

\* The steps of threadPaused and raiseAsync
LEMMA SuspendKeeps ==
  ASSUME BlackHoleInv, NEW c \in Caps, PauseFrame(c) \/ Freeze(c) \/ Frozen(c)
  PROVE  BlackHoleInv'
<1>1. Types /\ StacksOK /\ Ranked /\ Sharing BY DEF BlackHoleInv
<1>2. PICK r \in [Closures -> Nat] : RankOK(r) BY <1>1 DEF Ranked
<1>3. Types' /\ StacksOK' BY <1>1, PauseFrameTypes, FreezeTypes, FrozenTypes
<1>4. \E q \in [Closures -> Nat] : RankOK(q)' BY <1>1, <1>2, PauseFrameRank, FreezeRank, FrozenRank
<1>5. Sharing'
  <2>1. CASE PauseFrame(c) BY <1>1, <2>1, PauseShares
  <2>2. CASE Freeze(c) BY <1>1, <2>2, FreezeShares DEF Shared, Sharing
  <2>3. CASE Frozen(c) BY <1>1, <2>3, FrozenShares
  <2> QED BY <2>1, <2>2, <2>3
<1> QED BY <1>3, <1>4, <1>5 DEF BlackHoleInv, Ranked

\* The steps that deal with messages
LEMMA MessageKeeps ==
  ASSUME BlackHoleInv, NEW c \in Caps, StoreQueue(c) \/ \E m \in Msgs : TakeMessage(c, m)
  PROVE  BlackHoleInv'
<1>1. Types /\ StacksOK /\ Ranked /\ Sharing BY DEF BlackHoleInv
<1>2. PICK r \in [Closures -> Nat] : RankOK(r) BY <1>1 DEF Ranked
<1>3. CASE StoreQueue(c)
  <2>1. \E q \in Queues : bq[q].live /\ cur[c] \in bq[q].queue
    <3>1. pc[c] = "queue" BY <1>3 DEF StoreQueue
    <3> QED BY <1>1, <3>1 DEF Sharing, QueuesOK, Storable
  <2>2. \A q \in Queues : bq[q].live => bq[q].bh \in Allocated
    <3>1. \A q \in Queues : bq[q].live => bq[q].bh \in Closures /\ info[bq[q].bh] = "BLACKHOLE"
      BY <1>1 DEF Sharing, QueuesOK, QueueOK
    <3> QED BY <3>1 DEF Allocated
  <2>3. Types' /\ StacksOK' BY <1>1, <1>3, <2>1, StoreQueueTypes
  <2>4. RankOK(r)' BY <1>1, <1>2, <1>3, <2>1, <2>2, StoreQueueRank
  <2>5. Sharing' BY <1>1, <1>3, StoreQueueShares
  <2> QED BY <1>2, <2>3, <2>4, <2>5 DEF BlackHoleInv, Ranked
<1>4. ASSUME NEW m \in Msgs, TakeMessage(c, m) PROVE BlackHoleInv'
  <2>1. msg[m].live => msg[m].bh \in Closures BY <1>1 DEF Sharing, MessagesOnce
  <2>2. Types' /\ StacksOK' BY <1>1, <1>4, <2>1, TakeMessageTypes
  <2>3. RankOK(r)' BY <1>1, <1>2, <1>4, <2>1, TakeMessageRank
  <2>4. Sharing' BY <1>1, <1>4, TakeMessageShares
  <2> QED BY <1>2, <2>2, <2>3, <2>4 DEF BlackHoleInv, Ranked
<1> QED BY <1>3, <1>4

\* Raise changes no heap object and no stack, as the other steps of the scheduler.
LEMMA SchedulerUnchanged ==
  ASSUME \/ \E c \in Caps : Yield(c) \/ Dispatch(c) \/ Finish(c) \/ (\E t \in Threads : Raise(c,
            t) \/ DeliverWakeup(c, t))
         \/ \E c \in Caps : \E d \in Caps : \E t \in Threads : Migrate(c, d, t)
         \/ UNCHANGED vars
  PROVE  UNCHANGED <<heap, stack, enter, upd>>
BY DEF Yield, Dispatch, Finish, Raise, DeliverWakeup, Migrate, vars, thread, cap

\* The steps of the scheduler keep the invariant.
LEMMA SchedulerKeeps ==
  ASSUME BlackHoleInv,
         \/ \E c \in Caps : Yield(c) \/ Dispatch(c) \/ Finish(c) \/ (\E t \in Threads : Raise(c,
              t) \/ DeliverWakeup(c, t))
         \/ \E c \in Caps : \E d \in Caps : \E t \in Threads : Migrate(c, d, t)
         \/ UNCHANGED vars
  PROVE  BlackHoleInv'
<1>1. Types /\ StacksOK /\ Ranked /\ Sharing BY DEF BlackHoleInv
<1>2. PICK r \in [Closures -> Nat] : RankOK(r) BY <1>1 DEF Ranked
<1>3. RankOK(r)' BY <1>1, <1>2, SchedulerUnchanged, OtherRank
<1>4. Types' /\ StacksOK'
  <2>1. UNCHANGED vars => Types' /\ StacksOK'
    <3> SUFFICES ASSUME UNCHANGED vars PROVE Types' /\ StacksOK' OBVIOUS
    <3>1. Types' BY <1>1 DEF Types, vars, heap, blocking, thread, cap
    <3>2. StacksOK' BY <1>1, NoStep DEF vars, thread, cap
    <3> QED BY <3>1, <3>2
  <2> QED
    BY <1>1, <2>1, YieldTypes, DispatchTypes, FinishTypes, RaiseTypes, DeliverWakeupTypes,
       MigrateTypes
<1>5. Sharing'
  <2>1. \A c \in Caps : Yield(c) => Sharing' BY <1>1, YieldShares DEF Shared, Sharing
  <2>2. \A c \in Caps : Dispatch(c) => Sharing' BY <1>1, DispatchShares
  <2>3. \A c \in Caps : Finish(c) => Sharing' BY <1>1, FinishShares
  <2>4. \A c \in Caps : \A t \in Threads : Raise(c, t) => Sharing' BY <1>1, RaiseShares
  <2>5. (\/ \E c \in Caps : \E t \in Threads : DeliverWakeup(c, t)
         \/ \E c \in Caps : \E d \in Caps : \E t \in Threads : Migrate(c, d, t)
         \/ UNCHANGED vars) => Sharing'
    BY <1>1, <1>4, OtherShares
  <2> QED BY <2>1, <2>2, <2>3, <2>4, <2>5
<1> QED BY <1>2, <1>3, <1>4, <1>5 DEF BlackHoleInv, Ranked

\* The invariant holds at first.
LEMMA InvInit == Init => BlackHoleInv
BY InitTypes, InitStacks, InitRanked, InitSharing DEF BlackHoleInv

\* Every step keeps it.
LEMMA InvNext == BlackHoleInv /\ [Next]_vars => BlackHoleInv'
<1> SUFFICES ASSUME BlackHoleInv, [Next]_vars PROVE BlackHoleInv' OBVIOUS
<1>1. CASE UNCHANGED vars BY <1>1, SchedulerKeeps
<1>2. ASSUME NEW c \in Caps, CapStep(c) PROVE BlackHoleInv'
  <2>1. CASE Enter(c) BY <2>1, EnterKeeps
  <2>2. CASE \/ ClaimIndirectee(c) \/ ClaimInfo(c) \/ Return(c) \/ StoreIndirectee(c)
          \/ StoreInfo(c)
    BY <2>2, RunKeeps
  <2>3. CASE PauseFrame(c) \/ Freeze(c) \/ Frozen(c) BY <2>3, SuspendKeeps
  <2>4. CASE StoreQueue(c) \/ \E m \in Msgs : TakeMessage(c, m) BY <2>4, MessageKeeps
  <2>5. CASE Dispatch(c) \/ Finish(c) \/ \E t \in Threads : DeliverWakeup(c, t)
    BY <2>5, SchedulerKeeps
  <2> QED BY <1>2, <2>1, <2>2, <2>3, <2>4, <2>5 DEF CapStep
<1>3. ASSUME NEW c \in Caps, Yield(c) \/ \E t \in Threads : Raise(c, t) PROVE BlackHoleInv'
  BY <1>3, SchedulerKeeps
<1>4. ASSUME NEW c \in Caps, NEW d \in Caps, NEW t \in Threads, Migrate(c, d, t) PROVE BlackHoleInv'
  BY <1>4, SchedulerKeeps
<1> QED BY <1>1, <1>2, <1>3, <1>4 DEF Next

\* The inductive invariant holds in every state, for every program and any number of threads and
\* capabilities.
THEOREM Invariance == Spec => []BlackHoleInv
BY InvInit, InvNext, PTL DEF Spec

\* The invariant implies TypeOK.
LEMMA InvTypeOK == BlackHoleInv => TypeOK
<1> SUFFICES ASSUME BlackHoleInv PROVE TypeOK OBVIOUS
<1>1. Types /\ StacksOK BY DEF BlackHoleInv
<1>2. ASSUME NEW t \in Threads, NEW i \in DOMAIN stack[t]
      PROVE  stack[t][i] \in Frames /\ ((stack[t][i].kind = "stop") = (i = Len(stack[t])))
  <2>1. StackOK(stack[t]) /\ i \in 1..Len(stack[t]) /\ stack[t][i] \in Frames BY <1>1, StackTypes
  <2> QED BY <2>1 DEF StackOK
<1>3. ASSUME NEW c \in Caps
      PROVE  /\ running[c] # NoThread => home[running[c]] = c /\ at[c] \in DOMAIN stack[running[c]]
             /\ pc[c] \notin {"sched", "queue"} => running[c] # NoThread
  <2>1. running[c] # NoThread => running[c] \in Threads /\ home[running[c]] = c
          /\ AtOK(c, stack[running[c]], at[c])
    BY <1>1, RunsItsThread
  <2>2. running[c] # NoThread => DOMAIN stack[running[c]] = 1..Len(stack[running[c]])
    BY <1>1, <2>1, StackTypes
  <2>3. pc[c] \notin {"sched", "queue"} => running[c] # NoThread BY <1>1 DEF StacksOK, CapOK
  <2> QED BY <2>1, <2>2, <2>3 DEF AtOK
<1>4. \A c \in Caps : /\ running[c] # NoThread => home[running[c]] = c
                           /\ at[c] \in DOMAIN stack[running[c]]
                      /\ pc[c] \notin {"sched", "queue"} => running[c] # NoThread
  BY <1>3
<1> QED BY <1>1, <1>2, <1>4 DEF TypeOK, Types

\* The state of closures, queues, messages and stacks is well-typed, a stack is made of update
\* frames over one stop frame, and a capability works on a thread of its own (TypeOK).
THEOREM ThunkTypes == Spec => []TypeOK
BY Invariance, InvTypeOK, PTL

\* The invariant implies OwnerEvaluates.
LEMMA InvOwner == BlackHoleInv => OwnerEvaluates
<1> SUFFICES ASSUME BlackHoleInv, NEW k \in Closures, info[k] = "BLACKHOLE", ~Evaluated(k)
             PROVE  /\ ind[k].to = "bq" => bq[ind[k].id].live
                    /\ Owner(k) \in Threads /\ Evaluates(Owner(k), k)
  BY DEF OwnerEvaluates
<1>1. Types /\ StacksOK /\ QueuesOK /\ OwnersOK BY DEF BlackHoleInv, Sharing
<1>2. ind[k] # Null /\ ind[k] \in Pointers BY <1>1 DEF OwnersOK, Types
<1>3. ind[k].to \in {"tso", "bq"} BY <1>2, PointerKinds, PointerTags DEF Evaluated
<1>4. ind[k].to = "tso" => Owner(k) \in Threads BY <1>1, OwnerIs
<1>5. ASSUME ind[k].to = "bq" PROVE bq[ind[k].id].live /\ Owner(k) \in Threads
  <2>1. PICK q \in Queues : q = ind[k].id /\ ind[k] = BQ(q) /\ Owner(k) = bq[q].owner
    <3>1. ind[k].id \in Queues /\ ind[k] = BQ(ind[k].id) /\ Owner(k) = bq[ind[k].id].owner
      BY <1>1, <1>5, OwnerIs
    <3> QED BY <3>1
  <2>2. bq[q].live
    <3>1. \A x \in Closures : \A p \in Queues : ind[x] = BQ(p) => bq[p].live BY <1>1 DEF QueuesOK
    <3> QED BY <2>1, <3>1
  <2>3. bq[q].owner \in Threads BY <1>1, <2>2 DEF QueuesOK, QueueOK
  <2> QED BY <2>1, <2>2, <2>3
<1>6. Owner(k) \in Threads BY <1>3, <1>4, <1>5
<1>7. HasIn(stack[Owner(k)], k, {"bh", "marked"}) BY <1>1, <1>6 DEF OwnersOK
<1>8. DOMAIN stack[Owner(k)] = 1..Len(stack[Owner(k)]) BY <1>1, <1>6, StackTypes
<1>9. Evaluates(Owner(k), k) BY <1>7, <1>8 DEF HasIn, Evaluates
<1> QED BY <1>5, <1>6, <1>9

\* A black hole without a value names, itself or through a BLOCKING_QUEUE, a thread that has an
\* update frame for it: whoever waits in messageBlackHole does not wait for work that threadPaused
\* or raiseAsync has given up (OwnerEvaluates).
THEOREM BlackHolesAreEvaluated == Spec => []OwnerEvaluates
BY Invariance, InvOwner, PTL

\* The invariant implies OrphansFound.
LEMMA InvOrphans == BlackHoleInv => OrphansFound
<1> SUFFICES ASSUME BlackHoleInv, NEW q \in Queues, bq[q].live
             PROVE  \E i \in DOMAIN stack[bq[q].owner] :
                       stack[bq[q].owner][i].upd = bq[q].bh /\ stack[bq[q].owner][i].kind = "marked"
  BY DEF OrphansFound
<1>1. Types /\ StacksOK /\ QueueOK(q) BY DEF BlackHoleInv, Sharing, QueuesOK
<1>2. bq[q].owner \in Threads /\ HasIn(stack[bq[q].owner], bq[q].bh, {"marked"}) BY <1>1 DEF QueueOK
<1>3. DOMAIN stack[bq[q].owner] = 1..Len(stack[bq[q].owner]) BY <1>1, <1>2, StackTypes
<1> QED BY <1>2, <1>3 DEF HasIn

\* A BLOCKING_QUEUE belongs to a thread that has a marked update frame for its closure, the return
\* to which looks for queues: no waiter is forgotten when two threads evaluate one thunk, and the
\* thunk does not point to the queue any more (OrphansFound).
THEOREM QueuesAreFound == Spec => []OrphansFound
BY Invariance, InvOrphans, PTL

\* The invariant implies APStackOnce.
LEMMA InvAPs == BlackHoleInv => APStackOnce
<1> SUFFICES ASSUME BlackHoleInv, NEW k \in APs,
                    NEW frames, frames = UNION {{t} \X {i \in DOMAIN stack[t] :
                      stack[t][i].upd = k} : t \in Threads}
             PROVE  Cardinality(frames) <= 1
  BY DEF APStackOnce
<1>1. Types /\ StacksOK /\ Ranked /\ APsOnce BY DEF BlackHoleInv, Sharing
<1>2. ASSUME NEW x \in frames
      PROVE  \E t \in Threads : \E i \in 1..Len(stack[t]) : x = <<t, i>> /\ stack[t][i].upd = k
               /\ Evaluates(t, k)
  <2>1. PICK t \in Threads : x \in {t} \X {i \in DOMAIN stack[t] : stack[t][i].upd = k} OBVIOUS
  <2>2. PICK i \in DOMAIN stack[t] : x = <<t, i>> /\ stack[t][i].upd = k BY <2>1
  <2>3. Evaluates(t, k) BY <2>2 DEF Evaluates
  <2>4. DOMAIN stack[t] = 1..Len(stack[t]) BY <1>1, StackTypes
  <2> QED BY <2>2, <2>3, <2>4
<1>3. ASSUME NEW x \in frames, NEW y \in frames PROVE x = y
  <2>1. PICK t \in Threads : \E i \in 1..Len(stack[t]) : x = <<t, i>> /\ stack[t][i].upd = k
          /\ Evaluates(t, k)
    BY <1>2
  <2>2. PICK i \in 1..Len(stack[t]) : x = <<t, i>> /\ stack[t][i].upd = k /\ Evaluates(t, k) BY <2>1
  <2>3. PICK u \in Threads : \E j \in 1..Len(stack[u]) : y = <<u, j>> /\ stack[u][j].upd = k
          /\ Evaluates(u, k)
    BY <1>2
  <2>4. PICK j \in 1..Len(stack[u]) : y = <<u, j>> /\ stack[u][j].upd = k /\ Evaluates(u, k) BY <2>3
  <2>5. t = u BY <1>1, <2>2, <2>4 DEF APsOnce
  <2>6. stack[t][i].kind # "stop"
    <3>1. StackOK(stack[t]) BY <1>1, StackTypes
    <3>2. k # None BY Distinct
    <3> QED BY <2>2, <3>1, <3>2 DEF StackOK
  <2>7. i = j BY <1>1, <2>2, <2>4, <2>5, <2>6, DistinctFrames
  <2> QED BY <2>2, <2>4, <2>5, <2>7
<1>4. CASE frames = {} BY <1>4, FS_EmptySet
<1>5. CASE frames # {}
  <2>1. PICK x : x \in frames BY <1>5
  <2>2. frames = {x} BY <1>3, <2>1
  <2>3. Cardinality({x}) = 1 BY FS_Singleton
  <2> QED BY <2>2, <2>3
<1> QED BY <1>4, <1>5

\* The stack that raiseAsync has frozen in an AP_STACK is resumed by one thread, once
\* (APStackOnce).
THEOREM APStacksAreResumedOnce == Spec => []APStackOnce
BY Invariance, InvAPs, PTL
==============================================================================
