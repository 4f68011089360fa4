------------------------------ MODULE WSDeque ------------------------------
(***************************************************************************)
(* The work-stealing deque of rts/WSDeque.c, one action per shared memory  *)
(* access.  The deque holds a capability's sparks (rts/Sparks.c) and a GC  *)
(* thread's todo blocks (rts/sm/GCUtils.c).                                *)
(*                                                                         *)
(* Memory model.  The owner's relaxed stores to `bottom' may become        *)
(* visible to the thieves late: they wait in the FIFO store buffer `sb'.   *)
(* A store to an array slot is visible at once, which is no restriction:   *)
(* the RELEASE_FENCE of pushWSDeque makes it visible before the store of   *)
(* `bottom' that lets a thief look at the slot.  `top' is only changed by  *)
(* compare-and-swap, which is atomic, and by discardElements.              *)
(*                                                                         *)
(* The elements pushed are 1, 2, 3, ... in order, so that each can be told *)
(* from all others; the code never looks at an element, so this loses      *)
(* nothing.  `inserted' and `removed' are history variables.               *)
(***************************************************************************)
EXTENDS Integers, Sequences

CONSTANTS
    Thieves,    \* threads that steal; the owner among them when it steals
    Size,       \* q->size, a power of two, so that b & moduloSize = b % size
    SBMax,      \* bound: stores the owner's store buffer can hold
    MaxPushes   \* bound: calls of pushWSDeque

ASSUME WSDequeAssumption ==
    /\ Size \in Nat \ {0}
    /\ SBMax \in Nat \ {0}
    /\ MaxPushes \in Nat
    /\ "owner" \notin Thieves     \* the name of the owner in Abstract

Null == 0       \* the C value NULL, which is never pushed
Full == -1      \* pushWSDeque returning false

VARIABLES
    top, bottom, elements,      \* the fields of WSDeque, as in memory
    sb,                         \* the owner's pending stores to bottom
    opc, ob, ot, ores,          \* owner: program counter, b, t and result
    tpc, tt, tres,              \* thieves: program counter, t and result
    pushes,                     \* number of calls of pushWSDeque
    inserted, removed           \* history: elements put in, and taken out

owner == <<opc, ob, ot, ores>>
thief == <<tpc, tt, tres>>
vars == <<top, bottom, elements, sb, opc, ob, ot, ores, tpc, tt, tres,
          pushes, inserted, removed>>

\* `bottom' as the owner reads it: its own latest store, buffered or not.
OwnBottom == IF sb = <<>> THEN bottom ELSE sb[Len(sb)]

\* The index below which the elements are still in the deque.  A pop has
\* already decremented bottom when it finds out whether it gets the element.
LogicalBottom ==
    IF opc \in {"pop_top", "pop_cas", "pop_restore"} THEN ob + 1 ELSE OwnBottom

\* The elements in the deque, oldest first.
Contents ==
    [k \in 1..(LogicalBottom - top) |-> elements[(top + k - 1) % Size]]

ContentSet == {elements[i % Size] : i \in top..(LogicalBottom - 1)}

\* newWSDeque
Init ==
    /\ top = 0
    /\ bottom = 0
    /\ elements = [i \in 0..(Size - 1) |-> Null]
    /\ sb = <<>>
    /\ opc = "idle" /\ ob = 0 /\ ot = 0 /\ ores = Null
    /\ tpc = [p \in Thieves |-> "idle"]
    /\ tt = [p \in Thieves |-> 0]
    /\ tres = [p \in Thieves |-> Null]
    /\ pushes = 0
    /\ inserted = {} /\ removed = {}

----------------------------------------------------------------------------
(* The store buffer.  A full one stalls the next store.                    *)

StoreBottom(v) ==
    /\ Len(sb) < SBMax
    /\ sb' = Append(sb, v)

Flush ==
    /\ sb # <<>>
    /\ bottom' = Head(sb)
    /\ sb' = Tail(sb)
    /\ UNCHANGED <<top, elements, owner, thief, pushes, inserted, removed>>

NoFence == TRUE     \* mutant: the fence left out

\* SEQ_CST_FENCE: later loads wait until the buffer has drained.
SeqCstFence == sb = <<>>

----------------------------------------------------------------------------
(* pushWSDeque                                                             *)

PushStart ==
    /\ opc = "idle"
    /\ pushes < MaxPushes
    /\ pushes' = pushes + 1
    /\ ob' = OwnBottom
    /\ opc' = "push_top"
    /\ UNCHANGED <<top, bottom, elements, sb, ot, ores, thief, inserted, removed>>

FullLate(b, t) == b - t > Size     \* mutant: one element too many

IsFull(b, t) == b - t > Size - 1

PushTop ==
    /\ opc = "push_top"
    /\ ot' = top
    /\ IF IsFull(ob, top)
       THEN opc' = "return" /\ ores' = Full
       ELSE opc' = "push_elem" /\ UNCHANGED ores
    /\ UNCHANGED <<top, bottom, elements, sb, ob, thief, pushes, inserted, removed>>

PushElem ==
    /\ opc = "push_elem"
    /\ elements' = [elements EXCEPT ![ob % Size] = pushes]
    /\ opc' = "push_bottom"
    /\ UNCHANGED <<top, bottom, sb, ob, ot, ores, thief, pushes, inserted, removed>>

PushBottom ==
    /\ opc = "push_bottom"
    /\ StoreBottom(ob + 1)
    /\ inserted' = inserted \cup {pushes}
    /\ opc' = "idle"
    /\ UNCHANGED <<top, bottom, elements, ob, ot, ores, thief, pushes, removed>>

----------------------------------------------------------------------------
(* popWSDeque                                                              *)

PopStart ==
    /\ opc = "idle"
    /\ ob' = OwnBottom - 1
    /\ StoreBottom(OwnBottom - 1)
    /\ opc' = "pop_top"
    /\ UNCHANGED <<top, bottom, elements, ot, ores, thief, pushes, inserted, removed>>

\* Load top behind the fence, and the element with it: slot b is only ever
\* written by the owner.
PopTop ==
    /\ opc = "pop_top"
    /\ SeqCstFence
    /\ ot' = top
    /\ \/ /\ top < ob
          /\ ores' = elements[ob % Size]
          /\ removed' = removed \cup {ores'}
          /\ opc' = "return"
       \/ /\ top = ob
          /\ ores' = elements[ob % Size]
          /\ opc' = "pop_cas"
          /\ UNCHANGED removed
       \/ /\ top > ob
          /\ ores' = Null
          /\ opc' = "pop_restore"
          /\ UNCHANGED removed
    /\ UNCHANGED <<top, bottom, elements, sb, ob, thief, pushes, inserted>>

\* mutant: the owner takes the last element without competing for it
PopNoCas ==
    /\ opc = "pop_cas"
    /\ top' = ot + 1
    /\ removed' = removed \cup {ores}
    /\ opc' = "pop_restore"
    /\ UNCHANGED <<bottom, elements, sb, ob, ot, ores, thief, pushes, inserted>>

\* The single last element: the thieves may want it too.
PopCas ==
    /\ opc = "pop_cas"
    /\ IF top = ot
       THEN /\ top' = ot + 1
            /\ removed' = removed \cup {ores}
            /\ UNCHANGED ores
       ELSE /\ ores' = Null
            /\ UNCHANGED <<top, removed>>
    /\ opc' = "pop_restore"
    /\ UNCHANGED <<bottom, elements, sb, ob, ot, thief, pushes, inserted>>

PopForget ==        \* mutant: bottom is not put back after a failed pop
    /\ opc = "pop_restore"
    /\ opc' = "return"
    /\ UNCHANGED <<top, bottom, elements, sb, ob, ot, ores, thief, pushes, inserted, removed>>

PopRestore ==
    /\ opc = "pop_restore"
    /\ StoreBottom(ob + 1)
    /\ opc' = "return"
    /\ UNCHANGED <<top, bottom, elements, ob, ot, ores, thief, pushes, inserted, removed>>

\* The owner's call returns ores.
OwnerReturn ==
    /\ opc = "return"
    /\ opc' = "idle"
    /\ ores' = Null
    /\ UNCHANGED <<top, bottom, elements, sb, ob, ot, thief, pushes, inserted, removed>>

\* discardElements: called when every capability is stopped (Schedule.c), so
\* no thief is active and the owner's stores are visible.
DiscardElements ==
    /\ opc = "idle"
    /\ SeqCstFence
    /\ \A p \in Thieves : tpc[p] = "idle"
    /\ top' = bottom
    /\ removed' = removed \cup ContentSet
    /\ UNCHANGED <<bottom, elements, sb, owner, thief, pushes, inserted>>

----------------------------------------------------------------------------
(* stealWSDeque_ and, around it, stealWSDeque                              *)

StealTop(p) ==
    /\ tpc[p] \in {"idle", "again"}
    /\ tpc' = [tpc EXCEPT ![p] = "steal_bottom"]
    /\ tt' = [tt EXCEPT ![p] = top]
    /\ UNCHANGED <<top, bottom, elements, sb, owner, tres, pushes, inserted, removed>>

StealBottom(p) ==
    /\ tpc[p] = "steal_bottom"
    /\ tpc' = [tpc EXCEPT ![p] = IF tt[p] < bottom THEN "steal_elem" ELSE "missed"]
    /\ UNCHANGED <<top, bottom, elements, sb, owner, tt, tres, pushes, inserted, removed>>

StealElem(p) ==
    /\ tpc[p] = "steal_elem"
    /\ tpc' = [tpc EXCEPT ![p] = "steal_cas"]
    /\ tres' = [tres EXCEPT ![p] = elements[tt[p] % Size]]
    /\ UNCHANGED <<top, bottom, elements, sb, owner, tt, pushes, inserted, removed>>

StealCas(p) ==
    /\ tpc[p] = "steal_cas"
    /\ IF top = tt[p]
       THEN /\ top' = tt[p] + 1
            /\ removed' = removed \cup {tres[p]}
            /\ tpc' = [tpc EXCEPT ![p] = "return"]
            /\ UNCHANGED tres
       ELSE /\ tpc' = [tpc EXCEPT ![p] = "missed"]
            /\ tres' = [tres EXCEPT ![p] = Null]
            /\ UNCHANGED <<top, removed>>
    /\ UNCHANGED <<bottom, elements, sb, owner, tt, pushes, inserted>>

\* stealWSDeque_ hands NULL to its caller after one attempt.
StealMiss(p) ==
    /\ tpc[p] = "missed"
    /\ tpc' = [tpc EXCEPT ![p] = "idle"]
    /\ UNCHANGED <<top, bottom, elements, sb, owner, tt, tres, pushes, inserted, removed>>

\* stealWSDeque asks looksEmptyWSDeque first: load top, ...
LooksTop(p) ==
    /\ tpc[p] = "missed"
    /\ tpc' = [tpc EXCEPT ![p] = "looks_bottom"]
    /\ tt' = [tt EXCEPT ![p] = top]
    /\ UNCHANGED <<top, bottom, elements, sb, owner, tres, pushes, inserted, removed>>

\* dequeElements for a top and a bottom read one after the other
DequeElements(t, b) == IF b - t > 0 THEN b - t ELSE 0

NeverLooksEmpty(t, b) == DequeElements(t, b) < 0  \* mutant: < for <=

LooksEmpty(t, b) == DequeElements(t, b) <= 0

\* ... load bottom, and go round again unless the deque looks empty.
LooksBottom(p) ==
    /\ tpc[p] = "looks_bottom"
    /\ tpc' = [tpc EXCEPT ![p] = IF LooksEmpty(tt[p], bottom) THEN "idle" ELSE "again"]
    /\ UNCHANGED <<top, bottom, elements, sb, owner, tt, tres, pushes, inserted, removed>>

ThiefReturn(p) ==
    /\ tpc[p] = "return"
    /\ tpc' = [tpc EXCEPT ![p] = "idle"]
    /\ tres' = [tres EXCEPT ![p] = Null]
    /\ UNCHANGED <<top, bottom, elements, sb, owner, tt, pushes, inserted, removed>>

----------------------------------------------------------------------------
OwnerStep ==
    \/ PushTop \/ PushElem \/ PushBottom
    \/ PopTop \/ PopCas \/ PopRestore
    \/ OwnerReturn

OwnerCall == PushStart \/ PopStart \/ DiscardElements

StealStep(p) ==
    \/ tpc[p] = "again" /\ StealTop(p)
    \/ StealBottom(p) \/ StealElem(p) \/ StealCas(p)
    \/ StealMiss(p) \/ LooksTop(p) \/ LooksBottom(p)
    \/ ThiefReturn(p)

StealCall(p) == tpc[p] = "idle" /\ StealTop(p)

Next ==
    \/ Flush
    \/ OwnerCall
    \/ OwnerStep
    \/ \E p \in Thieves : StealCall(p) \/ StealStep(p)

Spec == Init /\ [][Next]_vars

\* A thread inside a deque operation is running C code and keeps running; a
\* store buffer drains.  Nobody is obliged to start an operation.
Fairness ==
    /\ WF_vars(Flush)
    /\ WF_vars(OwnerStep)
    /\ \A p \in Thieves : WF_vars(StealStep(p))

FairSpec == Spec /\ Fairness

----------------------------------------------------------------------------
(* Properties                                                              *)

OwnerPCs == {"idle", "push_top", "push_elem", "push_bottom",
             "pop_top", "pop_cas", "pop_restore", "return"}
ThiefPCs == {"idle", "again", "steal_bottom", "steal_elem", "steal_cas",
             "missed", "looks_bottom", "return"}

\* The type invariant of the deque's fields and of the locals of its callers.
TypeOK ==
    /\ top \in Nat
    /\ bottom \in Int
    /\ elements \in [0..(Size - 1) -> Nat]
    /\ sb \in Seq(Int)
    /\ opc \in OwnerPCs
    /\ ob \in Int /\ ot \in Nat /\ ores \in Int
    /\ tpc \in [Thieves -> ThiefPCs]
    /\ tt \in [Thieves -> Nat]
    /\ tres \in [Thieves -> Nat]
    /\ pushes \in Nat
    /\ inserted \subseteq Nat /\ removed \subseteq Nat

\* Every element whose push was accepted is either still in the deque or was
\* handed to exactly one caller, and none is in the deque twice: popWSDeque and
\* the steals never lose an element and never give one to two callers.
ExactlyOnce ==
    /\ ContentSet \cup removed = inserted
    /\ ContentSet \cap removed = {}
    /\ \A i, j \in top..(LogicalBottom - 1) :
          elements[i % Size] = elements[j % Size] => i = j

\* The inductive strengthening of ExactlyOnce and StealCandidate, used by
\* WSDequeProofs.  Bounded: what is in the deque fits the array.  BottomBehind:
\* no value of bottom a thief can still see lies beyond the deque's contents;
\* this is what the fence in popWSDeque is for.
Bounded == top <= LogicalBottom /\ LogicalBottom - top <= Size

BottomBehind ==
    /\ bottom <= LogicalBottom
    /\ \A k \in 1..Len(sb) : sb[k] <= LogicalBottom

OwnerLocals ==
    /\ opc \notin {"idle", "return"} => OwnBottom = ob
    /\ opc \in {"pop_cas", "pop_restore"} => sb = <<>>
    /\ opc \in {"push_elem", "push_bottom"} => ob - top < Size
    /\ opc = "push_bottom" => elements[ob % Size] = pushes
    /\ opc = "pop_cas" => ot = ob /\ ob <= top /\ ores = elements[ob % Size]
    /\ opc = "pop_restore" => top = ob + 1

ThiefLocals ==
    \A p \in Thieves :
        /\ tt[p] <= top
        /\ tpc[p] \in {"steal_elem", "steal_cas"} /\ tt[p] = top => top < LogicalBottom
        /\ tpc[p] = "steal_cas" /\ tt[p] = top => tres[p] = elements[top % Size]

FreshElement ==
    /\ inserted \subseteq 1..pushes
    /\ opc \in {"push_top", "push_elem", "push_bottom"} =>
          pushes >= 1 /\ pushes \notin inserted

IndInv ==
    /\ TypeOK /\ Bounded /\ BottomBehind /\ OwnerLocals /\ ThiefLocals
    /\ FreshElement /\ ExactlyOnce

\* A thief about to compare-and-swap either will fail or holds the element that
\* really is the oldest one, even though its reads of top, bottom and the slot
\* happened at three different moments (stealWSDeque_).
StealCandidate ==
    \A p \in Thieves :
        tpc[p] = "steal_cas" /\ tt[p] = top =>
            /\ top < LogicalBottom
            /\ tres[p] = elements[top % Size]

\* top is never taken back, so a compare-and-swap cannot be fooled by top
\* returning to a value a thief has read before (cas_top, discardElements).
TopNeverDecreases == [][top' >= top]_vars

\* What each caller has obtained and not yet returned: the outcome of an
\* operation counts from the step that decides it.
OwnerOutcome ==
    IF opc \in {"pop_restore", "return"}
    THEN IF ores = Null THEN -2 ELSE ores
    ELSE Null

ThiefOutcome(p) == IF tpc[p] = "return" THEN tres[p] ELSE Null

Abstract == INSTANCE Deque WITH
    Elem <- 1..MaxPushes, Owner <- "owner", Capacity <- Size, Empty <- -2,
    q <- Contents,
    ret <- [p \in Thieves \cup {"owner"} |->
              IF p = "owner" THEN OwnerOutcome ELSE ThiefOutcome(p)]

\* The deque is linearizable: every operation of WSDeque.c takes effect at one
\* instant as the bounded double-ended queue of Deque.tla, a push is refused
\* only when it is full, and a pop returns NULL only when it is empty.
Linearizable == Abstract!Spec

\* A steal always comes back, even stealWSDeque with its retry loop: it retries
\* only while the deque does not look empty, and it can only miss a nonempty
\* deque because somebody else got an element.
StealReturns == \A p \in Thieves : tpc[p] # "idle" ~> tpc[p] = "idle"

\* An element whose push was accepted does not stay invisible: the thieves get
\* to see a bottom beyond it, or somebody has taken it (the delayed stores of
\* bottom, and popWSDeque's temporary decrement, do not hide it for good).
PushedBecomesVisible ==
    \A e \in 1..MaxPushes :
        e \in inserted ~> \/ e \in removed
                          \/ \E i \in top..(bottom - 1) : elements[i % Size] = e
============================================================================
