------------------------------ MODULE MVarSpec ------------------------------
(***************************************************************************)
(* What an MVar promises (the comment before stg_isEmptyMVarzh in          *)
(* rts/PrimOps.cmm): a place that is empty or holds one value.  takeMVar   *)
(* and readMVar wait while it is empty, putMVar while it is full.  Waiting *)
(* threads are served in the order in which they came, readers before the  *)
(* others, and are woken with their operation already performed.           *)
(***************************************************************************)
EXTENDS Naturals, Sequences

CONSTANTS
    Threads,
    Values,
    Empty,          \* the value of an empty MVar
    Pending,        \* what an operation returns while its thread waits
    Done,           \* () or True
    Failed,         \* Nothing or False: a try operation that would have to wait
    Interrupted     \* an exception ended the wait

VARIABLES
    val,        \* the value, or Empty
    waiting,    \* the waiting threads, the next one first: [thread, op, val]
    ret         \* thread -> what its last operation returned

vars == <<val, waiting, ret>>

Init ==
    /\ val = Empty
    /\ waiting = <<>>
    /\ ret = [t \in Threads |-> Done]

Waits(t) == \E i \in DOMAIN waiting : waiting[i].thread = t

Waiter(t, op, v) == [thread |-> t, op |-> op, val |-> v]

Return(t, r) == ret' = [ret EXCEPT ![t] = r]

Wait(w, queue) ==
    /\ Return(w.thread, Pending)
    /\ waiting' = queue
    /\ UNCHANGED val

\* A value arrives in an empty MVar, and `returned' is what operations have
\* returned by then.  The readers in front get it, and the first taker.
Fill(v, returned) ==
    \E n \in 0..Len(waiting) :
        /\ \A i \in 1..(n - 1) : waiting[i].op = "read"
        /\ n = Len(waiting) \/ (n > 0 /\ waiting[n].op = "take")
        /\ val' = IF \E i \in 1..n : waiting[i].op = "take" THEN Empty ELSE v
        /\ ret' = [t \in Threads |-> IF \E i \in 1..n : waiting[i].thread = t
                                     THEN v ELSE returned[t]]
        /\ waiting' = SubSeq(waiting, n + 1, Len(waiting))

\* A value is taken out of a full MVar: the first waiting putMVar goes ahead.
Drain(t) ==
    IF waiting = <<>>
    THEN /\ val' = Empty
         /\ Return(t, val)
         /\ UNCHANGED waiting
    ELSE /\ val' = Head(waiting).val
         /\ waiting' = Tail(waiting)
         /\ ret' = [ret EXCEPT ![t] = val, ![Head(waiting).thread] = Done]

Take(t) ==
    IF val = Empty
    THEN Wait(Waiter(t, "take", Empty), Append(waiting, Waiter(t, "take", Empty)))
    ELSE Drain(t)

Read(t) ==
    IF val = Empty
    THEN Wait(Waiter(t, "read", Empty), <<Waiter(t, "read", Empty)>> \o waiting)
    ELSE Return(t, val) /\ UNCHANGED <<val, waiting>>

Put(t, v) ==
    IF val # Empty
    THEN Wait(Waiter(t, "put", v), Append(waiting, Waiter(t, "put", v)))
    ELSE Fill(v, [ret EXCEPT ![t] = Done])

\* tryTakeMVar, tryReadMVar and tryPutMVar do what these do when that is possible
\* at once, and else nothing.
TryFails(t) == Return(t, Failed) /\ UNCHANGED <<val, waiting>>

\* hs_try_putmvar, which tells nobody whether the MVar was empty
ForeignPut(v) ==
    /\ val = Empty
    /\ Fill(v, ret)

\* An exception reaches a waiting thread.
Interrupt(t) ==
    /\ \E i \in DOMAIN waiting :
          /\ waiting[i].thread = t
          /\ waiting' = SubSeq(waiting, 1, i - 1) \o SubSeq(waiting, i + 1, Len(waiting))
    /\ Return(t, Interrupted)
    /\ UNCHANGED val

Operation(t) ==
    /\ ~Waits(t)
    /\ Take(t) \/ Read(t) \/ TryFails(t) \/ \E v \in Values : Put(t, v)

Next ==
    \/ \E t \in Threads : Operation(t) \/ Interrupt(t)
    \/ \E v \in Values : ForeignPut(v)

Spec == Init /\ [][Next]_vars

----------------------------------------------------------------------------
\* Nobody waits without need: only putMVars wait for a full MVar, only takeMVars
\* and readMVars for an empty one (the invariant the comment starts from).
WaitsForReason ==
    \A i \in DOMAIN waiting : waiting[i].op = "put" <=> val # Empty
============================================================================
