------------------------------- MODULE Deque -------------------------------
(***************************************************************************)
(* What rts/WSDeque.h promises its callers: a bounded double-ended queue.  *)
(* The owner pushes and pops at the back, thieves take from the front, and *)
(* every operation happens at one instant.  ret[p] is the value an         *)
(* operation of p has produced and p has not yet returned to its caller.   *)
(***************************************************************************)
EXTENDS Naturals, Sequences

CONSTANTS
    Elem,       \* what can be pushed
    Thieves,    \* threads that call stealWSDeque or stealWSDeque_
    Owner,      \* the thread that owns the deque
    Capacity,   \* the number of elements the deque can hold
    Null,       \* p has no outcome to return
    Empty,      \* the outcome of a pop that found nothing (popWSDeque gives NULL)
    Full        \* the outcome of a refused push (pushWSDeque gives false)

VARIABLES q, ret

dvars == <<q, ret>>

Procs == Thieves \cup {Owner}

Init ==
    /\ q = <<>>
    /\ ret = [p \in Procs |-> Null]

\* The owner adds an element at the back.
Push ==
    /\ Len(q) < Capacity
    /\ \E x \in Elem : q' = Append(q, x)
    /\ UNCHANGED ret

\* A push may be refused only when the deque really is full.
PushFull ==
    /\ Len(q) = Capacity
    /\ ret[Owner] = Null
    /\ ret' = [ret EXCEPT ![Owner] = Full]
    /\ UNCHANGED q

\* The owner obtains the youngest element.
Pop ==
    /\ q # <<>>
    /\ ret[Owner] = Null
    /\ ret' = [ret EXCEPT ![Owner] = q[Len(q)]]
    /\ q' = SubSeq(q, 1, Len(q) - 1)

\* A pop may come back with nothing only when there is nothing.
PopEmpty ==
    /\ q = <<>>
    /\ ret[Owner] = Null
    /\ ret' = [ret EXCEPT ![Owner] = Empty]
    /\ UNCHANGED q

\* A thief obtains the oldest element.  (A steal that obtains nothing may do so
\* spuriously; it changes neither q nor ret and is a stuttering step here.)
Steal(p) ==
    /\ q # <<>>
    /\ ret[p] = Null
    /\ ret' = [ret EXCEPT ![p] = Head(q)]
    /\ q' = Tail(q)

Return(p) ==
    /\ ret[p] # Null
    /\ ret' = [ret EXCEPT ![p] = Null]
    /\ UNCHANGED q

\* discardElements: the owner drops everything.
Discard ==
    /\ q' = <<>>
    /\ UNCHANGED ret

Next ==
    \/ Push
    \/ PushFull
    \/ Pop
    \/ PopEmpty
    \/ Discard
    \/ \E p \in Procs : Steal(p) \/ Return(p)

Spec == Init /\ [][Next]_dvars
============================================================================
