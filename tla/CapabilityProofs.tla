--------------------------- MODULE CapabilityProofs ---------------------------
(***************************************************************************)
(* Capabilities have one owner, threads are neither lost nor run twice,    *)
(* and no work is stranded on an idle capability, for any number of        *)
(* capabilities, workers, callers and threads.                             *)
(*                                                                         *)
(* The argument, in the order of the module:                               *)
(*                                                                         *)
(*   - owners (Types, TasksOK): a task that holds a capability is its      *)
(*     running_task, and whoever is a running_task knows it, also with     *)
(*     what schedulePushWork has grabbed and a collection has acquired;    *)
(*   - places (KindsOK, PlacesOK): a thread that can run is on the run     *)
(*     queue of its capability, or is run by a task of it, and a bound     *)
(*     thread by its own task;                                             *)
(*   - queues of tasks (QueuesOK): who sleeps until it is given a          *)
(*     capability is in the queue that releaseCapability_ looks at, once;  *)
(*   - hence NothingStranded: a release with work left finds a task in     *)
(*     these queues to wake, or makes a worker, or leaves the work to the  *)
(*     collection that is waiting for it.                                  *)
(*                                                                         *)
(* Each part rests on those before it.  An action has one lemma in each    *)
(* part it can disturb: ...Owners, ...Places, ...Queues, ...Stranded.      *)
(* All callers of releaseCapability_ are of one form, GivesUp, for which   *)
(* the last two parts are proved once.                                     *)
(***************************************************************************)
EXTENDS Capability, FiniteSetTheorems, WellFoundedInduction, TLAPS

\* x is in the queue q.
In(x, q) == \E i \in DOMAIN q : q[i] = x

\* Nothing is in the queue q twice.
OnceIn(q) == \A i, j \in DOMAIN q : q[i] = q[j] => i = j

\* A set of naturals that is not empty has a least member.
LEMMA LeastOfNaturals ==
  ASSUME NEW T, T \subseteq Nat, T # {}
  PROVE \E x \in T : \A y \in T : x <= y
<1>1. \E x \in T : \A y \in T : ~ (<<y, x>> \in OpToRel(<, Nat))
  BY WFMin, NatLessThanWellFounded
<1>2. PICK x \in T : \A y \in T : ~ (<<y, x>> \in OpToRel(<, Nat))
  BY <1>1
<1>3. ASSUME NEW y \in T PROVE x <= y
  <2>1. ~(<<y, x>> \in OpToRel(<, Nat))
    BY <1>2
  <2>2. <<y, x>> \in Nat \X Nat
    OBVIOUS
  <2>3. ~ (y < x)
    BY <2>1, <2>2 DEF OpToRel
  <2> QED BY <2>3
<1> QED BY <1>3

\* Induction along an interval, on the set of the numbers for which something holds
LEMMA ByInduction ==
  ASSUME NEW S, NEW n \in Nat, 0 \in S,
         \A i \in 0..n : i < n /\ i \in S => i + 1 \in S
  PROVE \A i \in 0..n : i \in S
<1> SUFFICES ASSUME NEW j \in 0..n, j \notin S PROVE FALSE
  OBVIOUS
<1> DEFINE T == {i \in 0..n : i \notin S}
<1>1. PICK x \in T : \A y \in T : x <= y
  <2>1. T \subseteq Nat /\ j \in T OBVIOUS
  <2> HIDE DEF T
  <2> QED BY <2>1, LeastOfNaturals
<1>2. x # 0 OBVIOUS
<1>3. x - 1 \in 0..n /\ x - 1 \in S
  BY <1>1, <1>2
<1> QED BY <1>3

\* f is the result of n steps of the loop G, starting from x0.
Recurs(f, n, X, x0, G) ==
  f \in [0..n -> X] /\ f[0] = x0 /\ \A i \in 1..n : f[i] = G[i][f[i - 1]]

\* A loop that stays in X has such a result: this is what a recursive function needs in order
\* to be equal to its definition.
LEMMA RecursionExists ==
  ASSUME NEW n \in Nat, NEW X, NEW x0 \in X, NEW G \in [1..n -> [X -> X]]
  PROVE  \E f : Recurs(f, n, X, x0, G)
<1> DEFINE S == {m \in 0..n : \E f : Recurs(f, m, X, x0, G)}
<1>1. 0 \in S
  <2>1. PICK g : g = [i \in 0..0 |-> x0] OBVIOUS
  <2>2. Recurs(g, 0, X, x0, G) BY <2>1 DEF Recurs
  <2> QED BY <2>2
<1>2. ASSUME NEW m \in 0..n, m < n, m \in S PROVE m + 1 \in S
  <2>1. PICK f : Recurs(f, m, X, x0, G) BY <1>2
  <2>2. PICK g : g = [i \in 0..(m + 1) |-> IF i <= m THEN f[i] ELSE G[m + 1][f[m]]] OBVIOUS
  <2>3. f[m] \in X /\ \A i \in 0..m : f[i] \in X BY <1>2, <2>1 DEF Recurs
  <2>4. m + 1 \in 1..n BY <1>2
  <2>5. G[m + 1] \in [X -> X] BY <2>4
  <2>6. G[m + 1][f[m]] \in X BY <2>3, <2>5
  <2>7. g \in [0..(m + 1) -> X] BY <2>2, <2>3, <2>6
  <2>8. \A i \in 0..m : g[i] = f[i] BY <2>2
  <2>9. g[m + 1] = G[m + 1][g[m]] BY <2>2, <2>8
  <2>10. \A i \in 1..(m + 1) : g[i] = G[i][g[i - 1]]
    <3> SUFFICES ASSUME NEW i \in 1..(m + 1) PROVE g[i] = G[i][g[i - 1]] OBVIOUS
    <3>1. CASE i = m + 1 BY <2>9, <3>1
    <3>2. CASE i # m + 1
      <4>1. i \in 1..m /\ i - 1 \in 0..m BY <3>2
      <4> QED BY <2>1, <2>8, <4>1 DEF Recurs
    <3> QED BY <3>1, <3>2
  <2>11. Recurs(g, m + 1, X, x0, G) BY <2>1, <2>7, <2>8, <2>10 DEF Recurs
  <2> QED BY <2>4, <2>11
<1>3. n \in S
  <2> HIDE DEF S
  <2>1. \A i \in 0..n : i < n /\ i \in S => i + 1 \in S BY <1>2
  <2>2. \A i \in 0..n : i \in S BY <1>1, <2>1, ByInduction, Zenon
  <2> QED BY <2>2
<1> QED BY <1>3

----------------------------------------------------------------------------

\* What has been kept of the first i elements of q
KeptSoFar(q, S, T, f, i) ==
  /\ f[i] \in Seq(T)
  /\ \A x : In(x, f[i]) <=> x \in S /\ \E j \in 1..i : q[j] = x
  /\ OnceIn(q) => OnceIn(f[i])

\* Keep returns, in their order, those elements that are in S: SelectSeq in the source's loop.
LEMMA KeepAll ==
  ASSUME NEW T, NEW q \in Seq(T), NEW S
  PROVE  /\ Keep(q, S) \in Seq(T)
         /\ \A x : In(x, Keep(q, S)) <=> In(x, q) /\ x \in S
         /\ OnceIn(q) => OnceIn(Keep(q, S))
<1> DEFINE n == Len(q)
           IsKept(f) == f = [i \in 0..n |-> IF i = 0 THEN <<>>
                                            ELSE IF q[i] \in S THEN Append(f[i - 1],
                                            q[i]) ELSE f[i - 1]]
<1>0. n \in Nat /\ DOMAIN q = 1..n /\ \A i \in 1..n : q[i] \in T OBVIOUS
<1>1. PICK G : G = [i \in 1..n |-> [a \in Seq(T) |-> IF q[i] \in S THEN Append(a, q[i]) ELSE a]]
  OBVIOUS
<1>2. G \in [1..n -> [Seq(T) -> Seq(T)]] BY <1>0, <1>1
<1>3. <<>> \in Seq(T) OBVIOUS
<1>4. PICK f : Recurs(f, n, Seq(T), <<>>, G)
  <2> HIDE DEF n
  <2> QED BY <1>0, <1>2, <1>3, RecursionExists
<1>5. IsKept(f)
  <2>1. \A i \in 1..n : f[i] = IF q[i] \in S THEN Append(f[i - 1], q[i]) ELSE f[i - 1]
    <3> SUFFICES ASSUME NEW i \in 1..n
                 PROVE  f[i] = IF q[i] \in S THEN Append(f[i - 1], q[i]) ELSE f[i - 1]
      OBVIOUS
    <3>1. i - 1 \in 0..n /\ f[i - 1] \in Seq(T) BY <1>0, <1>4 DEF Recurs
    <3>2. f[i] = G[i][f[i - 1]] BY <1>4 DEF Recurs
    <3> QED BY <1>1, <3>1, <3>2
  <2> HIDE DEF n
  <2>2. f \in [0..n -> Seq(T)] /\ f[0] = <<>> BY <1>4 DEF Recurs
  <2>3. f = [i \in 0..n |-> f[i]] BY <2>2
  <2>4. \A i \in 0..n : f[i] = IF i = 0 THEN <<>>
                              ELSE IF q[i] \in S THEN Append(f[i - 1], q[i]) ELSE f[i - 1]
    <3> SUFFICES ASSUME NEW i \in 0..n
                 PROVE  f[i] = IF i = 0 THEN <<>>
                               ELSE IF q[i] \in S THEN Append(f[i - 1], q[i]) ELSE f[i - 1]
      OBVIOUS
    <3>1. CASE i = 0 BY <2>2, <3>1
    <3>2. CASE i # 0
      <4>1. i \in 1..n BY <1>0, <3>2
      <4> QED BY <2>1, <3>2, <4>1
    <3> QED BY <3>1, <3>2
  <2> QED BY <2>3, <2>4
<1>6. PICK k : k = CHOOSE g : IsKept(g) OBVIOUS
<1>7. IsKept(k) BY <1>5, <1>6
<1>8. Keep(q, S) = k[n] BY <1>6 DEF Keep
<1>9. /\ k[0] = <<>>
      /\ \A i \in 1..n : k[i] = IF q[i] \in S THEN Append(k[i - 1], q[i]) ELSE k[i - 1]
  <2> HIDE DEF n
  <2>1. \A i \in 0..n : k[i] = IF i = 0 THEN <<>>
                              ELSE IF q[i] \in S THEN Append(k[i - 1], q[i]) ELSE k[i - 1]
    BY <1>7
  <2>2. 0 \in 0..n /\ \A i \in 1..n : i \in 0..n /\ i # 0 BY <1>0
  <2> QED BY <2>1, <2>2
<1> DEFINE I == {i \in 0..n : KeptSoFar(q, S, T, k, i)}
<1> HIDE DEF n
<1>10. 0 \in I
  <2>1. k[0] = <<>> BY <1>9
  <2>2. KeptSoFar(q, S, T, k, 0) BY <2>1 DEF KeptSoFar, In, OnceIn
  <2> QED BY <1>0, <2>2
<1>11. ASSUME NEW i \in 0..n, i < n, i \in I PROVE i + 1 \in I
  <2>0. i \in Nat /\ i + 1 \in 1..n /\ (i + 1) - 1 = i /\ KeptSoFar(q, S, T, k, i) BY <1>0, <1>11
  <2>1. PICK a : a = k[i] OBVIOUS
  <2>2. PICK x : x = q[i + 1] OBVIOUS
  <2>3. a \in Seq(T) /\ x \in T /\ (\A y : In(y, a) <=> y \in S /\ \E j \in 1..i : q[j] = y)
        /\ (OnceIn(q) => OnceIn(a))
    BY <1>0, <2>0, <2>1, <2>2 DEF KeptSoFar
  <2>4. k[i + 1] = IF x \in S THEN Append(a, x) ELSE a BY <1>9, <2>0, <2>1, <2>2
  <2>5. \A y : (\E j \in 1..(i + 1) : q[j] = y) <=> y = x \/ \E j \in 1..i : q[j] = y
    BY <2>0, <2>2
  <2> SUFFICES KeptSoFar(q, S, T, k, i + 1)
    <3>1. i + 1 \in 0..n BY <1>0, <2>0
    <3> QED BY <3>1 DEF I
  <2>6. CASE x \notin S
    <3>1. k[i + 1] = a BY <2>4, <2>6
    <3>2. \A y : In(y, a) <=> y \in S /\ \E j \in 1..(i + 1) : q[j] = y BY <2>3, <2>5, <2>6
    <3> QED BY <2>3, <3>1, <3>2 DEF KeptSoFar
  <2>7. CASE x \in S
    <3>1. k[i + 1] = Append(a, x) BY <2>4, <2>7
    <3>2. /\ Append(a, x) \in Seq(T) /\ Len(a) \in Nat /\ DOMAIN a = 1..Len(a)
          /\ DOMAIN Append(a, x) = 1..(Len(a) + 1)
          /\ \A j \in 1..Len(a) : Append(a, x)[j] = a[j]
          /\ Append(a, x)[Len(a) + 1] = x
      BY <2>3
    <3>3. \A y : In(y, Append(a, x)) <=> y = x \/ In(y, a) BY <3>2 DEF In
    <3>4. OnceIn(q) => OnceIn(Append(a, x))
      <4> SUFFICES ASSUME OnceIn(q) PROVE OnceIn(Append(a, x)) OBVIOUS
      <4>1. OnceIn(a) BY <2>3
      <4>2. ~In(x, a)
        <5> SUFFICES ASSUME In(x, a) PROVE FALSE OBVIOUS
        <5>1. PICK j \in 1..i : q[j] = x BY <2>3
        <5>2. j \in DOMAIN q /\ i + 1 \in DOMAIN q /\ j # i + 1 BY <1>0, <2>0
        <5> QED BY <2>2, <5>1, <5>2 DEF OnceIn
      <4> QED BY <3>2, <4>1, <4>2 DEF OnceIn, In
    <3>5. \A y : In(y, Append(a, x)) <=> y \in S /\ \E j \in 1..(i + 1) : q[j] = y
      BY <2>3, <2>5, <2>7, <3>3
    <3>6. Append(a, x) \in Seq(T) BY <3>2
    <3> QED BY <3>1, <3>4, <3>5, <3>6 DEF KeptSoFar
  <2> QED BY <2>6, <2>7
<1>12. n \in I
  <2>1. \A i \in 0..n : i < n /\ i \in I => i + 1 \in I BY <1>11
  <2>2. \A i \in 0..n : i \in I
    <3> HIDE DEF I
    <3> QED BY <1>0, <1>10, <2>1, ByInduction, Zenon
  <2> QED BY <1>0, <2>2
<1>13. KeptSoFar(q, S, T, k, n) BY <1>12
<1> QED BY <1>0, <1>8, <1>13 DEF KeptSoFar, In

\* appendToRunQueue
LEMMA InAppend ==
  ASSUME NEW T, NEW q \in Seq(T), NEW x \in T
  PROVE  /\ Append(q, x) \in Seq(T) /\ Append(q, x) # <<>>
         /\ \A y : In(y, Append(q, x)) <=> y = x \/ In(y, q)
         /\ OnceIn(q) /\ ~In(x, q) => OnceIn(Append(q, x))
<1>1. /\ Append(q, x) \in Seq(T) /\ Len(q) \in Nat /\ DOMAIN q = 1..Len(q)
      /\ DOMAIN Append(q, x) = 1..(Len(q) + 1)
      /\ \A j \in 1..Len(q) : Append(q, x)[j] = q[j]
      /\ Append(q, x)[Len(q) + 1] = x
  OBVIOUS
<1>2. \A y : In(y, Append(q, x)) <=> y = x \/ In(y, q) BY <1>1 DEF In
<1>3. OnceIn(q) /\ ~In(x, q) => OnceIn(Append(q, x)) BY <1>1 DEF OnceIn, In
<1> QED BY <1>1, <1>2, <1>3

\* What is in a concatenation
LEMMA InConcat ==
  ASSUME NEW T, NEW p \in Seq(T), NEW q \in Seq(T)
  PROVE  /\ p \o q \in Seq(T)
         /\ \A y : In(y, p \o q) <=> In(y, p) \/ In(y, q)
         /\ OnceIn(p) /\ OnceIn(q) /\ (\A y : ~(In(y, p) /\ In(y, q))) => OnceIn(p \o q)
<1>1. /\ p \o q \in Seq(T) /\ Len(q) \in Nat /\ DOMAIN q = 1..Len(q) /\ Len(p) \in Nat
           /\ DOMAIN p = 1..Len(p)
      /\ DOMAIN (p \o q) = 1..(Len(p) + Len(q))
      /\ \A j \in 1..Len(p) : (p \o q)[j] = p[j]
      /\ \A j \in 1..(Len(p) + Len(q)) : j > Len(p) => (p \o q)[j] = q[j - Len(p)]
  OBVIOUS
<1>2. \A j \in 1..Len(q) : Len(p) + j \in 1..(Len(p) + Len(q)) /\ (p \o q)[Len(p) + j] = q[j]
  <2> SUFFICES ASSUME NEW j \in 1..Len(q)
               PROVE  Len(p) + j \in 1..(Len(p) + Len(q)) /\ (p \o q)[Len(p) + j] = q[j]
    OBVIOUS
  <2>1. Len(p) + j \in 1..(Len(p) + Len(q)) /\ Len(p) + j > Len(p) /\ (Len(p) + j) - Len(p) = j
    BY <1>1
  <2> QED BY <1>1, <2>1
<1>3. \A j \in 1..(Len(p) + Len(q)) : j > Len(p) => j - Len(p) \in 1..Len(q) BY <1>1
<1>4. \A y : In(y, p \o q) <=> In(y, p) \/ In(y, q)
  <2> SUFFICES ASSUME NEW y PROVE In(y, p \o q) <=> In(y, p) \/ In(y, q) OBVIOUS
  <2>1. ASSUME In(y, p) PROVE In(y, p \o q)
    <3>1. PICK j \in 1..Len(p) : p[j] = y BY <1>1, <2>1 DEF In
    <3>2. j \in 1..(Len(p) + Len(q)) BY <1>1
    <3> QED BY <1>1, <3>1, <3>2 DEF In
  <2>2. ASSUME In(y, q) PROVE In(y, p \o q)
    <3>1. PICK j \in 1..Len(q) : q[j] = y BY <1>1, <2>2 DEF In
    <3> QED BY <1>1, <1>2, <3>1 DEF In
  <2>3. ASSUME In(y, p \o q) PROVE In(y, p) \/ In(y, q)
    <3>1. PICK j \in 1..(Len(p) + Len(q)) : (p \o q)[j] = y BY <1>1, <2>3 DEF In
    <3>2. CASE j > Len(p) BY <1>1, <1>3, <3>1, <3>2 DEF In
    <3>3. CASE ~(j > Len(p))
      <4>1. j \in 1..Len(p) BY <1>1, <3>3
      <4> QED BY <1>1, <3>1, <4>1 DEF In
    <3> QED BY <3>2, <3>3
  <2> QED BY <2>1, <2>2, <2>3
<1>5. ASSUME OnceIn(p), OnceIn(q), \A y : ~(In(y, p) /\ In(y, q)) PROVE OnceIn(p \o q)
  <2> SUFFICES ASSUME NEW i \in 1..(Len(p) + Len(q)), NEW j \in 1..(Len(p) + Len(q)),
                      (p \o q)[i] = (p \o q)[j]
               PROVE  i = j
    BY <1>1 DEF OnceIn
  <2>1. \A k \in 1..(Len(p) + Len(q)) : k <= Len(p) => k \in 1..Len(p) BY <1>1
  <2>2. CASE i <= Len(p) /\ j <= Len(p) BY <1>1, <1>5, <2>1, <2>2 DEF OnceIn
  <2>3. CASE i > Len(p) /\ j > Len(p)
    <3>1. i - Len(p) = j - Len(p) BY <1>1, <1>3, <1>5, <2>3 DEF OnceIn
    <3> QED BY <1>1, <3>1
  <2>4. CASE i <= Len(p) /\ j > Len(p) BY <1>1, <1>3, <1>5, <2>1, <2>4 DEF In
  <2>5. CASE j <= Len(p) /\ i > Len(p) BY <1>1, <1>3, <1>5, <2>1, <2>5 DEF In
  <2> QED BY <1>1, <2>2, <2>3, <2>4, <2>5
<1> QED BY <1>1, <1>4, <1>5

\* pushOnRunQueue
LEMMA InPrepend ==
  ASSUME NEW T, NEW q \in Seq(T), NEW x \in T
  PROVE  /\ <<x>> \o q \in Seq(T) /\ <<x>> \o q # <<>> /\ Head(<<x>> \o q) = x
         /\ \A y : In(y, <<x>> \o q) <=> y = x \/ In(y, q)
         /\ OnceIn(q) /\ ~In(x, q) => OnceIn(<<x>> \o q)
<1>1. <<x>> \in Seq(T) /\ DOMAIN <<x>> = 1..1 /\ <<x>>[1] = x OBVIOUS
<1>2. (\A y : In(y, <<x>>) <=> y = x) /\ OnceIn(<<x>>) BY <1>1 DEF In, OnceIn
<1>3. <<x>> \o q # <<>> /\ Head(<<x>> \o q) = x OBVIOUS
<1> HIDE DEF In, OnceIn
<1> QED BY <1>1, <1>2, <1>3, InConcat

\* popRunQueue
LEMMA InTail ==
  ASSUME NEW T, NEW q \in Seq(T), q # <<>>
  PROVE  /\ Head(q) \in T /\ Tail(q) \in Seq(T)
         /\ \A y : In(y, q) <=> y = Head(q) \/ In(y, Tail(q))
         /\ OnceIn(q) => OnceIn(Tail(q)) /\ ~In(Head(q), Tail(q))
<1>1. /\ Head(q) \in T /\ Tail(q) \in Seq(T) /\ Len(q) \in Nat /\ Len(q) > 0 /\ DOMAIN q = 1..Len(q)
      /\ DOMAIN Tail(q) = 1..(Len(q) - 1) /\ Head(q) = q[1]
      /\ \A j \in 1..(Len(q) - 1) : Tail(q)[j] = q[j + 1] /\ j + 1 \in 1..Len(q)
      /\ \A j \in 1..Len(q) : j # 1 => j - 1 \in 1..(Len(q) - 1) /\ (j - 1) + 1 = j
      /\ 1 \in 1..Len(q)
  OBVIOUS
<1>2. \A y : In(y, q) <=> y = Head(q) \/ In(y, Tail(q))
  <2> SUFFICES ASSUME NEW y PROVE In(y, q) <=> y = Head(q) \/ In(y, Tail(q)) OBVIOUS
  <2>1. ASSUME In(y, q) PROVE y = Head(q) \/ In(y, Tail(q))
    <3>1. PICK j \in 1..Len(q) : q[j] = y BY <1>1, <2>1 DEF In
    <3>2. CASE j = 1 BY <1>1, <3>1, <3>2
    <3>3. CASE j # 1 BY <1>1, <3>1, <3>3 DEF In
    <3> QED BY <3>2, <3>3
  <2>2. ASSUME y = Head(q) PROVE In(y, q) BY <1>1, <2>2 DEF In
  <2>3. ASSUME In(y, Tail(q)) PROVE In(y, q) BY <1>1, <2>3 DEF In
  <2> QED BY <2>1, <2>2, <2>3
<1>3. ASSUME OnceIn(q) PROVE OnceIn(Tail(q)) /\ ~In(Head(q), Tail(q)) BY <1>1, <1>3 DEF OnceIn, In
<1> QED BY <1>1, <1>2, <1>3

\* The empty queue
LEMMA InNothing == (\A x : ~In(x, <<>>)) /\ OnceIn(<<>>)
BY DEF In, OnceIn

\* A queue with something in it has a head.
LEMMA InSomething ==
  ASSUME NEW T, NEW q \in Seq(T)
  PROVE  q # <<>> <=> \E x : In(x, q)
<1>1. q # <<>> => 1 \in DOMAIN q OBVIOUS
<1> QED BY <1>1, InNothing DEF In

----------------------------------------------------------------------------

\* The state of the loop of schedulePushWork
Shares == [keep : Nat, left : Nat, rest : Seq(Threads), moved : Seq(Threads)]

\* A step of the loop is well-typed.
LEMMA ShareNextType ==
  ASSUME NEW t, NEW a \in Shares, NEW h \in Threads
  PROVE  /\ ShareNext(t, a, h) \in Shares
         /\ \/ ShareNext(t, a, h).rest = Append(a.rest, h) /\ ShareNext(t, a, h).moved = a.moved
            \/ /\ ShareNext(t, a, h).rest = a.rest /\ ShareNext(t, a, h).moved = Append(a.moved, h)
               /\ ~Stays(t, h)
<1>0. a.keep \in Nat /\ a.left \in Nat /\ a.rest \in Seq(Threads) /\ a.moved \in Seq(Threads)
      /\ a = [keep |-> a.keep, left |-> a.left, rest |-> a.rest, moved |-> a.moved]
  BY DEF Shares
<1>1. Append(a.rest, h) \in Seq(Threads) /\ Append(a.moved, h) \in Seq(Threads) BY <1>0
<1>2. CASE a.left <= a.keep
  <2>1. ShareNext(t, a, h) = [keep |-> a.keep, left |-> a.left, rest |-> Append(a.rest, h),
        moved |-> a.moved]
    BY <1>0, <1>2 DEF ShareNext
  <2> QED BY <1>0, <1>1, <2>1 DEF Shares
<1>3. CASE ~(a.left <= a.keep) /\ Stays(t, h)
  <2>1. PICK k : k = IF a.keep > 0 THEN a.keep - 1 ELSE 0 OBVIOUS
  <2>2. k \in Nat BY <1>0, <2>1
  <2>3. ShareNext(t, a, h) = [keep |-> k, left |-> a.left, rest |-> Append(a.rest, h),
        moved |-> a.moved]
    BY <1>0, <1>3, <2>1 DEF ShareNext
  <2> QED BY <1>0, <1>1, <2>2, <2>3 DEF Shares
<1>4. CASE ~(a.left <= a.keep) /\ ~Stays(t, h)
  <2>1. a.left - 1 \in Nat BY <1>0, <1>4
  <2>2. ShareNext(t, a, h) = [keep |-> a.keep, left |-> a.left - 1, rest |-> a.rest,
        moved |-> Append(a.moved, h)]
    BY <1>0, <1>4 DEF ShareNext
  <2> QED BY <1>0, <1>1, <1>4, <2>1, <2>2 DEF Shares
<1> QED BY <1>2, <1>3, <1>4

\* What is to be known of the first i steps of the loop on the queue q
SharedSoFar(t, q, f, i) ==
  /\ f[i] \in Shares
  /\ \A x : (\E j \in 1..i : q[j] = x) <=> In(x, f[i].rest) \/ In(x, f[i].moved)
  /\ \A x : In(x, f[i].moved) => ~Stays(t, x)
  /\ OnceIn(q) => /\ OnceIn(f[i].rest) /\ OnceIn(f[i].moved)
                  /\ \A x : ~(In(x, f[i].rest) /\ In(x, f[i].moved))

\* schedulePushWork splits the run queue: each thread stays or goes, and those that go may go.
LEMMA ShareAll ==
  ASSUME NEW t, runq[cap[t]] \in Seq(Threads), grabbed[t] \in Seq(Caps)
  PROVE  /\ Share(t) \in Shares
         /\ \A x : In(x, runq[cap[t]]) <=> In(x, Share(t).rest) \/ In(x, Share(t).moved)
         /\ \A x : In(x, Share(t).moved) => ~Stays(t, x)
         /\ OnceIn(runq[cap[t]]) => /\ OnceIn(Share(t).rest) /\ OnceIn(Share(t).moved)
                                    /\ \A x : ~(In(x, Share(t).rest) /\ In(x, Share(t).moved))
<1>a. PICK q : q = runq[cap[t]] OBVIOUS
<1>b. PICK s : s = [keep |-> (Len(q) + Len(grabbed[t])) \div (Len(grabbed[t]) + 1), left |-> Len(q),
                    rest |-> <<>>, moved |-> <<>>]
  OBVIOUS
<1> DEFINE n == Len(q)
           IsPass(f) == f = [i \in 0..n |-> IF i = 0 THEN s ELSE ShareNext(t, f[i - 1], q[i])]
<1>0. n \in Nat /\ DOMAIN q = 1..n /\ \A i \in 1..n : q[i] \in Threads BY <1>a
<1>c. s \in Shares
  <2>1. Len(grabbed[t]) \in Nat OBVIOUS
  <2>2. (n + Len(grabbed[t])) \div (Len(grabbed[t]) + 1) \in Nat
    <3>1. \A x, y \in Nat : (x + y) \div (y + 1) \in Nat OBVIOUS
    <3> QED BY <1>0, <2>1, <3>1
  <2>3. <<>> \in Seq(Threads) OBVIOUS
  <2> QED BY <1>0, <1>b, <2>2, <2>3 DEF Shares
<1>1. PICK G : G = [i \in 1..n |-> [a \in Shares |-> ShareNext(t, a, q[i])]] OBVIOUS
<1>2. G \in [1..n -> [Shares -> Shares]] BY <1>0, <1>1, ShareNextType
<1>4. PICK f : Recurs(f, n, Shares, s, G)
  <2> HIDE DEF n
  <2> QED BY <1>0, <1>2, <1>c, RecursionExists
<1>5. IsPass(f)
  <2>1. \A i \in 1..n : f[i] = ShareNext(t, f[i - 1], q[i])
    <3> SUFFICES ASSUME NEW i \in 1..n PROVE f[i] = ShareNext(t, f[i - 1], q[i]) OBVIOUS
    <3>1. i - 1 \in 0..n /\ f[i - 1] \in Shares BY <1>0, <1>4 DEF Recurs
    <3>2. f[i] = G[i][f[i - 1]] BY <1>4 DEF Recurs
    <3> QED BY <1>1, <3>1, <3>2
  <2> HIDE DEF n
  <2>2. f \in [0..n -> Shares] /\ f[0] = s BY <1>4 DEF Recurs
  <2>3. f = [i \in 0..n |-> f[i]] BY <2>2
  <2>4. \A i \in 0..n : f[i] = IF i = 0 THEN s ELSE ShareNext(t, f[i - 1], q[i])
    <3> SUFFICES ASSUME NEW i \in 0..n PROVE f[i] = IF i = 0 THEN s ELSE ShareNext(t, f[i - 1],
                        q[i])
      OBVIOUS
    <3>1. CASE i = 0 BY <2>2, <3>1
    <3>2. CASE i # 0
      <4>1. i \in 1..n BY <1>0, <3>2
      <4> QED BY <2>1, <3>2, <4>1
    <3> QED BY <3>1, <3>2
  <2> QED BY <2>3, <2>4
<1>6. PICK k : k = CHOOSE g : IsPass(g) OBVIOUS
<1>7. IsPass(k) BY <1>5, <1>6
<1>8. Share(t) = k[n] BY <1>6, <1>a, <1>b DEF Share
<1>9. /\ k[0] = s
      /\ \A i \in 1..n : k[i] = ShareNext(t, k[i - 1], q[i])
  <2> HIDE DEF n
  <2>1. \A i \in 0..n : k[i] = IF i = 0 THEN s ELSE ShareNext(t, k[i - 1], q[i]) BY <1>7
  <2>2. 0 \in 0..n /\ \A i \in 1..n : i \in 0..n /\ i # 0 BY <1>0
  <2> QED BY <2>1, <2>2
<1> DEFINE I == {i \in 0..n : SharedSoFar(t, q, k, i)}
<1> HIDE DEF n
<1>10. 0 \in I
  <2>1. k[0].rest = <<>> /\ k[0].moved = <<>> BY <1>9, <1>b
  <2>2. ~\E j \in 1..0 : TRUE OBVIOUS
  <2>3. SharedSoFar(t, q, k, 0) BY <1>9, <1>c, <2>1, <2>2, InNothing DEF SharedSoFar
  <2> QED BY <1>0, <2>3
<1>11. ASSUME NEW i \in 0..n, i < n, i \in I PROVE i + 1 \in I
  <2>0. i \in Nat /\ i + 1 \in 1..n /\ (i + 1) - 1 = i /\ SharedSoFar(t, q, k, i) BY <1>0, <1>11
  <2>1. PICK a : a = k[i] OBVIOUS
  <2>2. PICK x : x = q[i + 1] OBVIOUS
  <2>b. PICK b : b = k[i + 1] OBVIOUS
  <2>3. a \in Shares /\ x \in Threads
        /\ (\A y : (\E j \in 1..i : q[j] = y) <=> In(y, a.rest) \/ In(y, a.moved))
        /\ (\A y : In(y, a.moved) => ~Stays(t, y))
        /\ (OnceIn(q) => /\ OnceIn(a.rest) /\ OnceIn(a.moved)
                         /\ \A y : ~(In(y, a.rest) /\ In(y, a.moved)))
    BY <1>0, <2>0, <2>1, <2>2 DEF SharedSoFar
  <2>4. b = ShareNext(t, a, x) BY <1>9, <2>0, <2>1, <2>2, <2>b
  <2>5. \A y : (\E j \in 1..(i + 1) : q[j] = y) <=> y = x \/ \E j \in 1..i : q[j] = y
    BY <2>0, <2>2
  <2>6. OnceIn(q) => ~In(x, a.rest) /\ ~In(x, a.moved)
    <3> SUFFICES ASSUME OnceIn(q), In(x, a.rest) \/ In(x, a.moved) PROVE FALSE OBVIOUS
    <3>1. PICK j \in 1..i : q[j] = x BY <2>3
    <3>2. j \in DOMAIN q /\ i + 1 \in DOMAIN q /\ j # i + 1 BY <1>0, <2>0
    <3> QED BY <2>2, <3>1, <3>2 DEF OnceIn
  <2>7. a.rest \in Seq(Threads) /\ a.moved \in Seq(Threads) BY <2>3 DEF Shares
  <2>8. b \in Shares BY <2>3, <2>4, ShareNextType
  <2>9. \/ b.rest = Append(a.rest, x) /\ b.moved = a.moved
        \/ b.rest = a.rest /\ b.moved = Append(a.moved, x) /\ ~Stays(t, x)
    <3>1. a \in Shares /\ x \in Threads BY <2>3
    <3>2. \/ ShareNext(t, a, x).rest = Append(a.rest, x) /\ ShareNext(t, a, x).moved = a.moved
          \/ /\ ShareNext(t, a, x).rest = a.rest /\ ShareNext(t, a, x).moved = Append(a.moved, x)
             /\ ~Stays(t, x)
      BY <3>1, ShareNextType
    <3> QED BY <2>4, <3>2
  <2>10. /\ \A y : In(y, Append(a.rest, x)) <=> y = x \/ In(y, a.rest)
         /\ OnceIn(a.rest) /\ ~In(x, a.rest) => OnceIn(Append(a.rest, x))
         /\ \A y : In(y, Append(a.moved, x)) <=> y = x \/ In(y, a.moved)
         /\ OnceIn(a.moved) /\ ~In(x, a.moved) => OnceIn(Append(a.moved, x))
    BY <2>3, <2>7, InAppend
  <2>11. /\ \A y : (\E j \in 1..(i + 1) : q[j] = y) <=> In(y, b.rest) \/ In(y, b.moved)
         /\ \A y : In(y, b.moved) => ~Stays(t, y)
         /\ OnceIn(q) => /\ OnceIn(b.rest) /\ OnceIn(b.moved)
                         /\ \A y : ~(In(y, b.rest) /\ In(y, b.moved))
    <3>1. CASE b.rest = Append(a.rest, x) /\ b.moved = a.moved BY <2>3, <2>5, <2>6, <2>10, <3>1
    <3>2. CASE b.rest = a.rest /\ b.moved = Append(a.moved, x) /\ ~Stays(t, x)
      BY <2>3, <2>5, <2>6, <2>10, <3>2
    <3> QED BY <2>9, <3>1, <3>2
  <2>12. SharedSoFar(t, q, k, i + 1) BY <2>8, <2>11, <2>b DEF SharedSoFar
  <2>13. i + 1 \in 0..n BY <1>0, <2>0
  <2> QED BY <2>12, <2>13
<1>12. n \in I
  <2>1. \A i \in 0..n : i < n /\ i \in I => i + 1 \in I BY <1>11
  <2>2. \A i \in 0..n : i \in I
    <3> HIDE DEF I
    <3> QED BY <1>0, <1>10, <2>1, ByInduction, Zenon
  <2> QED BY <1>0, <2>2
<1>13. SharedSoFar(t, q, k, n) BY <1>12
<1>14. \A x : In(x, q) <=> \E j \in 1..n : q[j] = x BY <1>0 DEF In
<1> QED BY <1>8, <1>13, <1>14, <1>a DEF SharedSoFar

\* Where a task can be
Locations == Holding \cup Sleeping \cup {"ccall", "out", "dead"}

\* Type correctness
Types ==
    /\ running \in [Caps -> Tasks \cup {NoTask}]
    /\ returning \in [Caps -> Seq(Tasks)]
    /\ spare \in [Caps -> Seq(Tasks)]
    /\ runq \in [Caps -> Seq(Threads)]
    /\ inbox \in [Caps -> Seq(Threads)]
    /\ home \in [Threads -> Caps]
    /\ blocked \subseteq live /\ live \subseteq Threads
    /\ sync \in Tasks \cup {NoTask}
    /\ tcap \in [Tasks -> Caps]
    /\ wakeup \in [Tasks -> BOOLEAN]
    /\ pc \in [Tasks -> Locations]
    /\ cap \in [Tasks -> Caps]
    /\ seen \in [Tasks -> Caps]
    /\ then \in [Tasks -> {"loop", "yielded", "run", "enter", "sync", "sync_wait", "acquire"}]
    /\ thr \in [Tasks -> Threads \cup {NoThread}]
    /\ looked \in [Tasks -> Nat]
    /\ grabbed \in [Tasks -> Seq(Caps)]

\* t may own c, from where it is.
Reach(t, c) ==
    \/ cap[t] = c
    \/ Acquiring(t) \/ pc[t] = "release"
    \/ pc[t] = "push_back" /\ c = Candidate(t)
    \/ \E i \in DOMAIN grabbed[t] : grabbed[t][i] = c

\* Who believes to hold a capability owns it, and who owns one knows it.
OwnerOK(t) ==
    /\ Holds(t) => running[cap[t]] = t
    /\ \A c \in Caps : running[c] = t => Holds(t) /\ Reach(t, c)

\* schedulePushWork owns the capabilities it has grabbed, each once, beside its own.
PushOK(t) ==
    /\ pc[t] \notin {"push", "push_back", "push_release"} => grabbed[t] = <<>>
    /\ \A i \in DOMAIN grabbed[t] :
          /\ running[grabbed[t][i]] = t /\ grabbed[t][i] # cap[t]
          /\ pc[t] = "push_back" => grabbed[t][i] # Candidate(t)
          /\ \A j \in DOMAIN grabbed[t] : grabbed[t][i] = grabbed[t][j] => i = j
    /\ pc[t] = "push_back" => running[Candidate(t)] = t /\ Candidate(t) # cap[t]

\* t and its capabilities
TaskOK(t) == OwnerOK(t) /\ PushOK(t)

\* Who owns what
TasksOK == \A t \in Tasks : TaskOK(t)

----------------------------------------------------------------------------

\* Names that cannot be mistaken for one another
LEMMA Distinct == NoTask \notin Tasks /\ NoThread \notin Threads /\ Workers \subseteq Tasks
      /\ Callers \subseteq Tasks
                  /\ Callers \subseteq Threads /\ Workers \cap Callers = {}
BY CapabilityAssumption DEF Tasks, Threads

\* The loop of schedulePushWork looks at a capability.
LEMMA CandidateOK ==
  ASSUME Types, NEW t \in Tasks
  PROVE  Candidate(t) \in Caps
<1>2. NCaps \in Nat \ {0} BY CapabilityAssumption
<1>0. cap[t] \in Caps /\ looked[t] \in Nat BY DEF Types
<1>1. cap[t] + looked[t] + 1 \in Nat BY <1>0, <1>2 DEF Caps
<1>3. \A x \in Nat, y \in Nat \ {0} : x % y \in 0..(y - 1) OBVIOUS
<1> QED BY <1>1, <1>2, <1>3 DEF Candidate, Caps

\* Goto changes one location.
LEMMA GotoOK ==
  ASSUME Types, NEW t \in Tasks, NEW p \in Locations
  PROVE  Goto(t, p) \in [Tasks -> Locations] /\ Goto(t, p)[t] = p /\ \A u \in Tasks \ {t} :
           Goto(t, p)[u] = pc[u]
BY DEF Types, Goto

\* The step leaves the task u alone.
SameTask(u) ==
  /\ pc'[u] = pc[u] /\ cap'[u] = cap[u] /\ then'[u] = then[u] /\ looked'[u] = looked[u]
       /\ grabbed'[u] = grabbed[u]
  /\ \A c \in Caps : running'[c] = u <=> running[c] = u

\* What is left alone stays right.
LEMMA SameTaskStep ==
  ASSUME Types, NEW u \in Tasks, TaskOK(u), SameTask(u)
  PROVE  TaskOK(u)'
<1>1. Candidate(u) \in Caps /\ Candidate(u)' = Candidate(u) BY CandidateOK DEF SameTask, Candidate
<1>2. (\A c \in Caps : Reach(u, c) <=> Reach(u, c)') /\ (Holds(u) <=> Holds(u)')
  BY <1>1 DEF SameTask, Reach, Holds, Acquiring
<1>3. cap[u] \in Caps /\ \A i \in DOMAIN grabbed[u] : grabbed[u][i] \in Caps
  <2>1. grabbed[u] \in Seq(Caps) BY DEF Types
  <2> QED BY <2>1 DEF Types
<1>4. OwnerOK(u)' BY <1>2, <1>3 DEF SameTask, TaskOK, OwnerOK
<1>5. PushOK(u)' BY <1>1, <1>3 DEF SameTask, TaskOK, PushOK
<1> QED BY <1>4, <1>5 DEF TaskOK

\* t works with cap[t] only.
Single(t) == pc[t] \in Holding \ {"push_back", "acquire", "release"} /\ grabbed[t] = <<>>

\* Such a task owns one capability.
LEMMA SingleOwns ==
  ASSUME Types, NEW t \in Tasks, TaskOK(t), Single(t)
  PROVE  \A c \in Caps : running[c] = t <=> c = cap[t]
<1>1. DOMAIN grabbed[t] = {} BY DEF Single
<1>2. Holds(t) /\ ~Acquiring(t) BY DEF Single, Holds, Acquiring, Holding
<1>3. cap[t] \in Caps BY DEF Types
<1> QED BY <1>1, <1>2, <1>3 DEF TaskOK, OwnerOK, Reach, Single

\* Most places of a task with a capability are of this kind.
LEMMA PlainSingle ==
  ASSUME NEW t \in Tasks, TaskOK(t), pc[t] \in Holding \ {"push", "push_back", "push_release",
         "acquire", "release"}
  PROVE  Single(t)
BY DEF TaskOK, PushOK, Single, Holding

\* A task that holds none owns none.
LEMMA EmptyOwns ==
  ASSUME NEW t \in Tasks, TaskOK(t), ~Holds(t)
  PROVE  grabbed[t] = <<>> /\ \A c \in Caps : running[c] # t
BY DEF TaskOK, OwnerOK, PushOK, Holds, Holding

\* A task that ends up with one capability, and owns just that, is right.
LEMMA SingleOK ==
  ASSUME NEW t \in Tasks, pc'[t] \in Holding \ {"push_back"}, grabbed'[t] = <<>>, cap'[t] \in Caps,
         \A c \in Caps : running'[c] = t <=> c = cap'[t]
  PROVE  TaskOK(t)'
<1>1. DOMAIN grabbed'[t] = {} OBVIOUS
<1> QED BY <1>1 DEF TaskOK, OwnerOK, PushOK, Holds, Reach, Holding

\* A task that ends up without a capability is right.
LEMMA EmptyOK ==
  ASSUME NEW t \in Tasks, pc'[t] \in Locations, ~Holds(t)', grabbed'[t] = <<>>, \A c \in Caps :
         running'[c] # t
  PROVE  TaskOK(t)'
<1>1. DOMAIN grabbed'[t] = {} OBVIOUS
<1> QED BY <1>1 DEF TaskOK, OwnerOK, PushOK, Holds, Reach, Holding

\* t goes on with its one capability.
LEMMA PlainStep ==
  ASSUME Types, TasksOK, NEW t \in Tasks, Single(t), NEW p \in Holding \ {"push_back"},
         pc' = Goto(t, p),
         UNCHANGED <<running, cap, grabbed>>,
         \A u \in Tasks \ {t} : then'[u] = then[u] /\ looked'[u] = looked[u]
  PROVE  TasksOK'
<1>1. p \in Locations BY DEF Locations
<1>2. pc'[t] = p /\ \A u \in Tasks \ {t} : pc'[u] = pc[u] BY <1>1, GotoOK
<1>3. \A u \in Tasks \ {t} : SameTask(u) BY <1>2 DEF SameTask
<1>4. TaskOK(t)'
  <2>1. TaskOK(t) BY DEF TasksOK
  <2>2. \A c \in Caps : running[c] = t <=> c = cap[t] BY <2>1, SingleOwns
  <2> QED BY <1>2, <2>2, SingleOK DEF Types, Single
<1> QED BY <1>3, <1>4, SameTaskStep DEF TasksOK

----------------------------------------------------------------------------
\* What releaseCapability_ does to those who own capabilities
Released(c, pcs, tcaps) ==
  \/ running' = [running EXCEPT ![c] = NoTask] /\ pc' = pcs /\ tcap' = tcaps /\ cap' = cap
  \/ \E w \in Workers : /\ pcs[w] = "dead"
                        /\ running' = [running EXCEPT ![c] = w] /\ pc' = [pcs EXCEPT ![w] = "loop"]
                        /\ tcap' = [tcaps EXCEPT ![w] = c] /\ cap' = [cap EXCEPT ![w] = c]

\* releaseCapability_ is one of the two, and is well-typed.
LEMMA ReleaseDoes ==
  ASSUME Types, NEW c \in Caps, NEW aw, NEW sp \in Seq(Tasks), NEW q \in Seq(Threads),
         NEW ib \in Seq(Threads),
         NEW late \in Seq(Tasks), NEW pcs \in [Tasks -> Locations], NEW tcaps \in [Tasks -> Caps],
         Release(c, aw, sp, q, ib, late, pcs, tcaps)
  PROVE  /\ Released(c, pcs, tcaps)
         /\ running' \in [Caps -> Tasks \cup {NoTask}] /\ returning' \in [Caps -> Seq(Tasks)]
         /\ spare' \in [Caps -> Seq(Tasks)] /\ runq' \in [Caps -> Seq(Threads)]
              /\ inbox' \in [Caps -> Seq(Threads)]
         /\ wakeup' \in [Tasks -> BOOLEAN] /\ pc' \in [Tasks -> Locations]
         /\ tcap' \in [Tasks -> Caps] /\ cap' \in [Tasks -> Caps]
<1>1. PICK s : s = Successor(aw, returning[c], sp, q, ib) OBVIOUS
<1>2. /\ returning' = [returning EXCEPT ![c] = @ \o late]
      /\ spare' = [spare EXCEPT ![c] = sp]
      /\ runq' = [runq EXCEPT ![c] = q]
      /\ inbox' = [inbox EXCEPT ![c] = ib]
      /\ wakeup' = IF s.how = "give" THEN [wakeup EXCEPT ![s.task] = TRUE] ELSE wakeup
  BY <1>1 DEF Release
<1>3. Released(c, pcs, tcaps) BY DEF Release, Released
<1>4. /\ returning' \in [Caps -> Seq(Tasks)] /\ spare' \in [Caps -> Seq(Tasks)]
      /\ runq' \in [Caps -> Seq(Threads)] /\ inbox' \in [Caps -> Seq(Threads)]
  <2>1. returning \in [Caps -> Seq(Tasks)] /\ spare \in [Caps -> Seq(Tasks)]
        /\ runq \in [Caps -> Seq(Threads)] /\ inbox \in [Caps -> Seq(Threads)]
    BY DEF Types
  <2>2. returning[c] \o late \in Seq(Tasks) BY <2>1
  <2> QED BY <1>2, <2>1, <2>2
<1>5. wakeup' \in [Tasks -> BOOLEAN] BY <1>2 DEF Types
<1>6. /\ running' \in [Caps -> Tasks \cup {NoTask}] /\ pc' \in [Tasks -> Locations]
      /\ tcap' \in [Tasks -> Caps] /\ cap' \in [Tasks -> Caps]
  <2>0. running \in [Caps -> Tasks \cup {NoTask}] /\ cap \in [Tasks -> Caps] BY DEF Types
  <2>1. CASE running' = [running EXCEPT ![c] = NoTask] /\ pc' = pcs /\ tcap' = tcaps /\ cap' = cap
    BY <2>0, <2>1
  <2>2. ASSUME NEW w \in Workers,
               /\ running' = [running EXCEPT ![c] = w] /\ pc' = [pcs EXCEPT ![w] = "loop"]
               /\ tcap' = [tcaps EXCEPT ![w] = c] /\ cap' = [cap EXCEPT ![w] = c]
        PROVE  /\ running' \in [Caps -> Tasks \cup {NoTask}] /\ pc' \in [Tasks -> Locations]
               /\ tcap' \in [Tasks -> Caps] /\ cap' \in [Tasks -> Caps]
    <3>1. w \in Tasks BY Distinct
    <3>2. "loop" \in Locations BY DEF Locations, Holding
    <3> QED BY <2>0, <2>2, <3>1, <3>2
  <2> QED BY <1>3, <2>1, <2>2 DEF Released
<1> QED BY <1>3, <1>4, <1>5, <1>6

\* releaseCapability_ that is not to look for work makes no worker.
LEMMA ReleasePlainDoes ==
  ASSUME Types, NEW c \in Caps, NEW pcs \in [Tasks -> Locations], NEW tcaps \in [Tasks -> Caps],
         ReleasePlain(c, pcs, tcaps)
  PROVE  /\ Released(c, pcs, tcaps)
         /\ running' \in [Caps -> Tasks \cup {NoTask}] /\ returning' \in [Caps -> Seq(Tasks)]
         /\ spare' \in [Caps -> Seq(Tasks)] /\ runq' \in [Caps -> Seq(Threads)]
              /\ inbox' \in [Caps -> Seq(Threads)]
         /\ wakeup' \in [Tasks -> BOOLEAN] /\ pc' \in [Tasks -> Locations]
         /\ tcap' \in [Tasks -> Caps] /\ cap' \in [Tasks -> Caps]
<1>1. spare[c] \in Seq(Tasks) /\ runq[c] \in Seq(Threads) /\ inbox[c] \in Seq(Threads) BY DEF Types
<1>2. <<>> \in Seq(Tasks) OBVIOUS
<1>3. Release(c, FALSE, spare[c], runq[c], inbox[c], <<>>, pcs, tcaps) BY DEF ReleasePlain
<1> QED BY <1>1, <1>2, <1>3, ReleaseDoes

\* The other tasks are right after a release, a new worker among them.
LEMMA ReleasedTasks ==
  ASSUME Types, TasksOK, NEW t \in Tasks, NEW c \in Caps, running[c] \in {t, NoTask},
         NEW p \in Locations, NEW pcs, pcs = Goto(t, p), NEW tcaps, Released(c, pcs, tcaps),
         then' = then, \A u \in Tasks \ {t} : looked'[u] = looked[u] /\ grabbed'[u] = grabbed[u],
         p = "dead" => pc[t] = "yield_lock" /\ c = cap[t] /\ grabbed'[t] = grabbed[t],
         pc'[t] = p /\ cap'[t] = cap[t] /\ (\A d \in Caps : running'[d] = t <=> running[d] = t
           /\ d # c) => TaskOK(t)'
  PROVE  TasksOK'
<1> USE Distinct
<1>0. /\ running \in [Caps -> Tasks \cup {NoTask}] /\ cap \in [Tasks -> Caps]
      /\ pcs \in [Tasks -> Locations] /\ pcs[t] = p /\ \A u \in Tasks \ {t} : pcs[u] = pc[u]
  <2>1. running \in [Caps -> Tasks \cup {NoTask}] /\ cap \in [Tasks -> Caps] BY DEF Types
  <2>2. pcs \in [Tasks -> Locations] /\ pcs[t] = p /\ \A u \in Tasks \ {t} : pcs[u] = pc[u]
    <3>1. /\ Goto(t, p) \in [Tasks -> Locations] /\ Goto(t, p)[t] = p
          /\ \A u \in Tasks \ {t} : Goto(t, p)[u] = pc[u]
      BY GotoOK
    <3> QED BY <3>1
  <2> QED BY <2>1, <2>2
<1>1. CASE running' = [running EXCEPT ![c] = NoTask] /\ pc' = pcs /\ tcap' = tcaps /\ cap' = cap
  <2>1. \A d \in Caps : running'[d] = IF d = c THEN NoTask ELSE running[d] BY <1>0, <1>1
  <2>2. TaskOK(t)' BY <1>0, <1>1, <2>1
  <2>3. \A u \in Tasks \ {t} : SameTask(u) BY <1>0, <1>1, <2>1 DEF SameTask
  <2> QED BY <2>2, <2>3, SameTaskStep DEF TasksOK
<1>2. ASSUME NEW w \in Workers, pcs[w] = "dead",
             running' = [running EXCEPT ![c] = w], pc' = [pcs EXCEPT ![w] = "loop"],
             cap' = [cap EXCEPT ![w] = c]
      PROVE  TasksOK'
  <2>1. \A d \in Caps : running'[d] = IF d = c THEN w ELSE running[d] BY <1>0, <1>2
  <2>2. /\ pc'[w] = "loop" /\ \A u \in Tasks \ {w} : pc'[u] = pcs[u]
        /\ cap'[w] = c /\ \A u \in Tasks \ {w} : cap'[u] = cap[u]
    BY <1>0, <1>2
  <2>3. ASSUME NEW u \in Tasks \ {t, w} PROVE TaskOK(u)'
    <3>1. SameTask(u) BY <1>0, <2>1, <2>2 DEF SameTask
    <3> QED BY <3>1, SameTaskStep DEF TasksOK
  <2>4. CASE w # t
    <3>1. TaskOK(w) /\ pc[w] = "dead" BY <1>0, <1>2, <2>4 DEF TasksOK
    <3>2. grabbed[w] = <<>> /\ \A d \in Caps : running[d] # w
      BY <3>1, EmptyOwns DEF Holds, Holding, Acquiring
    <3>3. TaskOK(w)'
      <4>1. \A d \in Caps : running'[d] = w <=> d = cap'[w] BY <2>1, <2>2, <3>2
      <4>2. "loop" \in Holding \ {"push_back"} BY DEF Holding
      <4>3. grabbed'[w] = <<>> /\ w \in Tasks BY <2>4, <3>2
      <4> QED BY <2>2, <4>1, <4>2, <4>3, SingleOK
    <3>4. TaskOK(t)' BY <1>0, <2>1, <2>2, <2>4
    <3> QED BY <2>3, <3>3, <3>4 DEF TasksOK
  <2>5. CASE w = t
    <3>1. pc[t] = "yield_lock" /\ c = cap[t] /\ grabbed'[t] = grabbed[t] /\ TaskOK(t)
      BY <1>0, <1>2, <2>5 DEF TasksOK
    <3>2. Single(t) BY <3>1, PlainSingle DEF Holding
    <3>3. \A d \in Caps : running[d] = t <=> d = cap[t] BY <3>1, <3>2, SingleOwns
    <3>4. \A d \in Caps : running'[d] = t <=> d = cap'[t] BY <2>1, <2>2, <2>5, <3>1, <3>3
    <3>5. "loop" \in Holding \ {"push_back"} BY DEF Holding
    <3>6. TaskOK(t)' BY <2>2, <2>5, <3>1, <3>2, <3>4, <3>5, SingleOK DEF Single
    <3> QED BY <2>3, <2>5, <3>6 DEF TasksOK
  <2> QED BY <2>4, <2>5
<1> QED BY <1>1, <1>2 DEF Released

\* The queues of threads keep their types.
LEMMA NothingMoves ==
  ASSUME Types, TasksOK, UNCHANGED <<running, pc, cap, then, looked, grabbed>>
  PROVE  TasksOK'
<1>1. \A u \in Tasks : SameTask(u) BY DEF SameTask
<1> QED BY <1>1, SameTaskStep DEF TasksOK

\* Goto to any place is well-typed.
LEMMA PlainMoves ==
  ASSUME Types, TasksOK, NEW t \in Tasks,
         pc[t] \in Holding \ {"push", "push_back", "push_release", "acquire", "release"},
         NEW p \in Holding \ {"push_back"}, pc' = Goto(t, p),
         UNCHANGED <<running, cap, grabbed>>,
         \A u \in Tasks \ {t} : then'[u] = then[u] /\ looked'[u] = looked[u]
  PROVE  TasksOK'
<1>1. TaskOK(t) BY DEF TasksOK
<1>2. Single(t) BY <1>1, PlainSingle
<1> QED BY <1>2, PlainStep

\* t changes places, but holds what it held and waits for all or not as before.
LEMMA StaysAside ==
  ASSUME Types, TasksOK, NEW t \in Tasks, pc[t] \in Sleeping,
         NEW p \in Sleeping, pc' = Goto(t, p),
         p \in {"ret_sleep", "ret_woken"} <=> pc[t] \in {"ret_sleep", "ret_woken"},
         UNCHANGED <<running, cap, then, looked, grabbed>>
  PROVE  TasksOK'
<1>1. p \in Locations BY DEF Locations
<1>2. pc'[t] = p /\ \A u \in Tasks \ {t} : pc'[u] = pc[u] BY <1>1, GotoOK
<1>3. \A u \in Tasks \ {t} : SameTask(u) BY <1>2 DEF SameTask
<1>4. TaskOK(t)'
  <2>1. TaskOK(t) BY DEF TasksOK
  <2>2. Acquiring(t) <=> Acquiring(t)' BY <1>2 DEF Acquiring, Sleeping
  <2>3. pc[t] \notin Holding /\ pc'[t] \notin Holding BY <1>2 DEF Holding, Sleeping
  <2>4. Holds(t) <=> Holds(t)' BY <2>2, <2>3 DEF Holds
  <2>5. \A c \in Caps : Reach(t, c) => Reach(t, c)' BY <2>2, <2>3 DEF Reach, Holding
  <2>6. OwnerOK(t)' BY <2>1, <2>4, <2>5 DEF TaskOK, OwnerOK
  <2>7. grabbed'[t] = <<>> /\ DOMAIN grabbed'[t] = {} BY <2>1, <2>3 DEF TaskOK, PushOK, Holding
  <2>8. PushOK(t)' BY <2>3, <2>7 DEF PushOK, Holding
  <2> QED BY <2>6, <2>8 DEF TaskOK
<1> QED BY <1>3, <1>4, SameTaskStep DEF TasksOK

----------------------------------------------------------------------------
\* All that the types need to know of a step that leaves the rest alone
LEMMA AwakeOwners ==
  ASSUME Types, TasksOK, NEW t \in Tasks, pc[t] \in {"sleep", "ret_sleep"}, Awake(t)
  PROVE  Types' /\ TasksOK'
<1>1. PICK p : p = IF pc[t] = "sleep" THEN "woken" ELSE "ret_woken" OBVIOUS
<1>2. p \in Sleeping /\ pc[t] \in Sleeping /\ p \in Locations BY <1>1 DEF Sleeping, Locations
<1>3. pc' = Goto(t, p) /\ UNCHANGED <<running, cap, then, looked, grabbed>> BY <1>1 DEF Awake, push
<1>4. p \in {"ret_sleep", "ret_woken"} <=> pc[t] \in {"ret_sleep", "ret_woken"} BY <1>1
<1>5. TasksOK' BY <1>2, <1>3, <1>4, StaysAside
<1>6. pc' \in [Tasks -> Locations] BY <1>2, <1>3, GotoOK
<1> QED BY <1>5, <1>6 DEF Types, Awake, queues, threads, push

\* waitForCapability keeps to who owns what.
LEMMA TakeReturningOwners ==
  ASSUME Types, TasksOK, NEW t \in Tasks, TakeReturning(t)
  PROVE  Types' /\ TasksOK'
<1>1. PICK c : c = seen[t] OBVIOUS
<1>2. c \in Caps /\ pc[t] = "ret_woken" /\ "ret_sleep" \in Locations
        /\ "ret_sleep" \in Sleeping /\ pc[t] \in Sleeping
  BY <1>1 DEF Types, TakeReturning, Locations, Sleeping
<1>3. seen' = [seen EXCEPT ![t] = 0] /\ UNCHANGED <<spare, runq, inbox, threads, sync, tcap, thr,
      push>>
  BY DEF TakeReturning
<1>4. CASE FirstInLine(t, c)
  <2>1. /\ running' = [running EXCEPT ![c] = t]
        /\ returning' = [returning EXCEPT ![c] = Tail(@)]
        /\ cap' = [cap EXCEPT ![t] = IF then[t] = "acquire" THEN @ ELSE c]
        /\ pc' = Goto(t, then[t])
        /\ then' = [then EXCEPT ![t] = "loop"]
        /\ UNCHANGED wakeup
    BY <1>1, <1>4 DEF TakeReturning
  <2>2. then[t] \in Holding \ {"push_back"} /\ then[t] \in Locations
    BY DEF Types, Holding, Locations
  <2>3. running[c] = NoTask /\ running \in [Caps -> Tasks \cup {NoTask}] /\ cap \in [Tasks -> Caps]
    BY <1>4 DEF FirstInLine, Types
  <2>4. pc' \in [Tasks -> Locations] /\ pc'[t] = then[t] /\ \A u \in Tasks \ {t} : pc'[u] = pc[u]
    BY <2>1, <2>2, GotoOK
  <2>5. \A d \in Caps : running'[d] = IF d = c THEN t ELSE running[d] BY <2>1, <2>3
  <2>6. cap'[t] = (IF then[t] = "acquire" THEN cap[t] ELSE c) /\ \A u \in Tasks \ {t} :
          cap'[u] = cap[u]
    BY <2>1, <2>3
  <2>7. \A u \in Tasks \ {t} : then'[u] = then[u] /\ looked'[u] = looked[u]
          /\ grabbed'[u] = grabbed[u]
    BY <2>1, <1>3 DEF Types, push
  <2>8. \A u \in Tasks \ {t} : SameTask(u) BY <2>3, <2>4, <2>5, <2>6, <2>7, Distinct DEF SameTask
  <2>9. TaskOK(t) /\ grabbed' = grabbed BY <1>3 DEF TasksOK, push
  <2>10. ASSUME then[t] = "acquire" PROVE TaskOK(t)'
    <3>1. Acquiring(t) BY <1>2, <2>10 DEF Acquiring
    <3>2. running[cap[t]] = t BY <2>9, <3>1 DEF TaskOK, OwnerOK, Holds
    <3>3. pc'[t] = "acquire" /\ running'[cap'[t]] = t /\ cap'[t] \in Caps
      BY <2>3, <2>4, <2>5, <2>6, <2>10, <3>2
    <3>4. OwnerOK(t)' BY <3>3 DEF OwnerOK, Holds, Reach, Acquiring
    <3>5. grabbed'[t] = <<>> /\ DOMAIN grabbed'[t] = {} BY <2>9, <1>2 DEF TaskOK, PushOK
    <3>6. PushOK(t)' BY <3>3, <3>5 DEF PushOK
    <3> QED BY <3>4, <3>6 DEF TaskOK
  <2>11. ASSUME then[t] # "acquire" PROVE TaskOK(t)'
    <3>1. ~Holds(t) BY <1>2, <2>11 DEF Holds, Acquiring, Holding
    <3>2. grabbed[t] = <<>> /\ \A d \in Caps : running[d] # t BY <2>9, <3>1, EmptyOwns
    <3>3. cap'[t] = c /\ \A d \in Caps : running'[d] = t <=> d = cap'[t] BY <2>5, <2>6, <2>11, <3>2
    <3>4. pc'[t] \in Holding \ {"push_back"} /\ grabbed'[t] = <<>> BY <2>2, <2>4, <2>9, <3>2
    <3> QED BY <1>2, <3>3, <3>4, SingleOK
  <2>12. TasksOK' BY <2>8, <2>10, <2>11, SameTaskStep DEF TasksOK
  <2>13. Types'
    <3>1. returning[c] \in Seq(Tasks) BY <1>2 DEF Types
    <3>2. returning' \in [Caps -> Seq(Tasks)]
      <4>1. CASE returning[c] # <<>> BY <2>1, <3>1, <4>1, InTail DEF Types
      <4>2. CASE returning[c] = <<>>
        <5>1. Tail(returning[c]) \in Seq(Tasks) BY <4>2
        <5> QED BY <2>1, <5>1 DEF Types
      <4> QED BY <4>1, <4>2
    <3>3. running' \in [Caps -> Tasks \cup {NoTask}] /\ cap' \in [Tasks -> Caps] BY <1>2, <2>1, <2>3
    <3>4. then' \in [Tasks -> {"loop", "yielded", "run", "enter", "sync", "sync_wait", "acquire"}]
      BY <2>1 DEF Types
    <3>5. seen' \in [Tasks -> Caps]
      <4>1. 0 \in Caps BY CapabilityAssumption DEF Caps
      <4> QED BY <1>3, <4>1 DEF Types
    <3> QED BY <1>3, <2>1, <2>4, <3>2, <3>3, <3>4, <3>5 DEF Types, threads, push
  <2> QED BY <2>12, <2>13
<1>5. CASE ~FirstInLine(t, c)
  <2>1. /\ pc' = Goto(t, "ret_sleep")
        /\ wakeup' = PassOn(c, returning[c])
        /\ UNCHANGED <<running, returning, cap, then>>
    BY <1>1, <1>5 DEF TakeReturning
  <2>2. TasksOK' BY <1>2, <1>3, <2>1, StaysAside DEF push
  <2>3. pc' \in [Tasks -> Locations] BY <1>2, <2>1, GotoOK
  <2>4. wakeup' \in [Tasks -> BOOLEAN] BY <2>1 DEF PassOn, Types
  <2>5. seen' \in [Tasks -> Caps]
    <3>1. 0 \in Caps BY CapabilityAssumption DEF Caps
    <3> QED BY <1>3, <3>1 DEF Types
  <2> QED BY <1>3, <2>1, <2>2, <2>3, <2>4, <2>5 DEF Types, threads, push
<1> QED BY <1>4, <1>5

\* waitForWorkerCapability keeps to who owns what.
LEMMA TakeWorkerOwners ==
  ASSUME Types, TasksOK, NEW t \in Tasks, TakeWorker(t)
  PROVE  Types' /\ TasksOK'
<1>1. PICK c : c = seen[t] OBVIOUS
<1>2. c \in Caps /\ pc[t] = "woken" /\ "sleep" \in Locations /\ "sleep" \in Sleeping
        /\ pc[t] \in Sleeping
  BY <1>1 DEF Types, TakeWorker, Locations, Sleeping
<1>3. seen' = [seen EXCEPT ![t] = 0] /\ UNCHANGED <<returning, runq, inbox, threads, sync, tcap,
      thr, push>>
  BY DEF TakeWorker
<1>0. seen' \in [Tasks -> Caps]
  <2>1. 0 \in Caps BY CapabilityAssumption DEF Caps
  <2> QED BY <1>3, <2>1 DEF Types
<1>4. CASE FreeFor(t, c) /\ (IsBound(t) \/ Head(spare[c]) = t)
  <2>1. /\ running' = [running EXCEPT ![c] = t]
        /\ spare' = SpareWithout(t, c)
        /\ cap' = [cap EXCEPT ![t] = c]
        /\ pc' = Goto(t, then[t])
        /\ then' = [then EXCEPT ![t] = "loop"]
        /\ UNCHANGED wakeup
    BY <1>1, <1>4 DEF TakeWorker
  <2>2. then[t] \in Holding \ {"push_back"} /\ then[t] \in Locations
    BY DEF Types, Holding, Locations
  <2>3. running[c] = NoTask /\ running \in [Caps -> Tasks \cup {NoTask}] /\ cap \in [Tasks -> Caps]
    BY <1>4 DEF FreeFor, Types
  <2>4. pc' \in [Tasks -> Locations] /\ pc'[t] = then[t] /\ \A u \in Tasks \ {t} : pc'[u] = pc[u]
    BY <2>1, <2>2, GotoOK
  <2>5. \A d \in Caps : running'[d] = IF d = c THEN t ELSE running[d] BY <2>1, <2>3
  <2>6. cap'[t] = c /\ \A u \in Tasks \ {t} : cap'[u] = cap[u]
    BY <2>1, <2>3
  <2>7. \A u \in Tasks \ {t} : then'[u] = then[u] /\ looked'[u] = looked[u]
          /\ grabbed'[u] = grabbed[u]
    BY <2>1, <1>3 DEF Types, push
  <2>8. \A u \in Tasks \ {t} : SameTask(u) BY <2>3, <2>4, <2>5, <2>6, <2>7, Distinct DEF SameTask
  <2>9. TaskOK(t) /\ grabbed' = grabbed BY <1>3 DEF TasksOK, push
  <2>11. TaskOK(t)'
    <3>1. ~Holds(t) BY <1>2 DEF Holds, Acquiring, Holding
    <3>2. grabbed[t] = <<>> /\ \A d \in Caps : running[d] # t BY <2>9, <3>1, EmptyOwns
    <3>3. cap'[t] = c /\ \A d \in Caps : running'[d] = t <=> d = cap'[t] BY <2>5, <2>6, <3>2
    <3>4. pc'[t] \in Holding \ {"push_back"} /\ grabbed'[t] = <<>> BY <2>2, <2>4, <2>9, <3>2
    <3> QED BY <1>2, <3>3, <3>4, SingleOK
  <2>12. TasksOK' BY <2>8, <2>11, SameTaskStep DEF TasksOK
  <2>13. Types'
    <3>1. spare[c] \in Seq(Tasks) BY <1>2 DEF Types
    <3>2. spare' \in [Caps -> Seq(Tasks)]
      <4>1. Tail(spare[c]) \in Seq(Tasks)
        <5>1. CASE spare[c] # <<>> BY <3>1, <5>1, InTail
        <5>2. CASE spare[c] = <<>> BY <5>2
        <5> QED BY <5>1, <5>2
      <4> QED BY <2>1, <4>1 DEF Types, SpareWithout
    <3>3. running' \in [Caps -> Tasks \cup {NoTask}] /\ cap' \in [Tasks -> Caps] BY <1>2, <2>1, <2>3
    <3>4. then' \in [Tasks -> {"loop", "yielded", "run", "enter", "sync", "sync_wait", "acquire"}]
      BY <2>1 DEF Types
    <3> QED BY <1>3, <1>0, <2>1, <2>4, <3>2, <3>3, <3>4 DEF Types, threads, push
  <2> QED BY <2>12, <2>13
<1>5. CASE ~(FreeFor(t, c) /\ (IsBound(t) \/ Head(spare[c]) = t))
  <2>1. /\ pc' = Goto(t, "sleep")
        /\ wakeup' = IF FreeFor(t, c) THEN PassOn(c, spare[c]) ELSE wakeup
        /\ UNCHANGED <<running, spare, cap, then>>
    BY <1>1, <1>5 DEF TakeWorker
  <2>2. TasksOK' BY <1>2, <1>3, <2>1, StaysAside DEF push
  <2>3. pc' \in [Tasks -> Locations] BY <1>2, <2>1, GotoOK
  <2>4. wakeup' \in [Tasks -> BOOLEAN] BY <2>1 DEF PassOn, Types
  <2> QED BY <1>0, <1>3, <2>1, <2>2, <2>3, <2>4 DEF Types, threads, push
<1> QED BY <1>4, <1>5

\* A task that does not get the capability at once keeps to who owns what.
LEMMA WaitOwners ==
  ASSUME Types, TasksOK, NEW t \in Tasks, NEW c \in Caps, running[c] # t,
         NEW p, (p = "acquire" /\ pc[t] = "acquire") \/ (p \in {"run", "enter", "sync"}
           /\ ~Holds(t)),
         WaitForCapability(t, c, p), UNCHANGED <<threads, thr>>
  PROVE  Types' /\ TasksOK'
<1>1. /\ tcap' = [tcap EXCEPT ![t] = c]
      /\ UNCHANGED <<spare, runq, inbox, sync, wakeup, seen, push>>
  BY DEF WaitForCapability
<1>2. p \in Holding \ {"push_back"} /\ p \in Locations /\ "ret_sleep" \in Locations
      /\ p \in {"loop", "yielded", "run", "enter", "sync", "sync_wait", "acquire"}
  BY DEF Holding, Locations, Sleeping
<1>3. running \in [Caps -> Tasks \cup {NoTask}] /\ cap \in [Tasks -> Caps] /\ TaskOK(t)
        /\ grabbed' = grabbed
  BY <1>1 DEF Types, TasksOK, push
<1>4. CASE /\ running[c] = NoTask
           /\ running' = [running EXCEPT ![c] = t]
           /\ cap' = [cap EXCEPT ![t] = IF p = "acquire" THEN @ ELSE c]
           /\ pc' = Goto(t, p)
           /\ UNCHANGED <<returning, then>>
  <2>4. pc' \in [Tasks -> Locations] /\ pc'[t] = p /\ \A u \in Tasks \ {t} : pc'[u] = pc[u]
    BY <1>2, <1>4, GotoOK
  <2>5. \A d \in Caps : running'[d] = IF d = c THEN t ELSE running[d] BY <1>3, <1>4
  <2>6. cap'[t] = (IF p = "acquire" THEN cap[t] ELSE c) /\ \A u \in Tasks \ {t} : cap'[u] = cap[u]
    BY <1>3, <1>4
  <2>8. \A u \in Tasks \ {t} : SameTask(u)
    BY <1>1, <1>4, <2>4, <2>5, <2>6, Distinct DEF SameTask, push
  <2>10. ASSUME p = "acquire" /\ pc[t] = "acquire" PROVE TaskOK(t)'
    <3>2. running[cap[t]] = t BY <1>3, <2>10 DEF TaskOK, OwnerOK, Holds, Holding
    <3>3. pc'[t] = "acquire" /\ running'[cap'[t]] = t /\ cap'[t] \in Caps
      BY <1>3, <2>4, <2>5, <2>6, <2>10, <3>2
    <3>4. OwnerOK(t)' BY <3>3 DEF OwnerOK, Holds, Reach, Acquiring
    <3>5. grabbed'[t] = <<>> /\ DOMAIN grabbed'[t] = {} BY <1>3, <2>10 DEF TaskOK, PushOK
    <3>6. PushOK(t)' BY <3>3, <3>5 DEF PushOK
    <3> QED BY <3>4, <3>6 DEF TaskOK
  <2>11. ASSUME p # "acquire" /\ ~Holds(t) PROVE TaskOK(t)'
    <3>2. grabbed[t] = <<>> /\ \A d \in Caps : running[d] # t BY <1>3, <2>11, EmptyOwns
    <3>3. cap'[t] = c /\ \A d \in Caps : running'[d] = t <=> d = cap'[t] BY <2>5, <2>6, <2>11, <3>2
    <3>4. pc'[t] \in Holding \ {"push_back"} /\ grabbed'[t] = <<>> BY <1>2, <1>3, <2>4, <3>2
    <3> QED BY <3>3, <3>4, SingleOK
  <2>12. TasksOK' BY <2>8, <2>10, <2>11, SameTaskStep DEF TasksOK
  <2>13. running' \in [Caps -> Tasks \cup {NoTask}] /\ cap' \in [Tasks -> Caps]
           /\ tcap' \in [Tasks -> Caps]
    BY <1>1, <1>3, <1>4 DEF Types
  <2> QED BY <1>1, <1>4, <2>4, <2>12, <2>13 DEF Types, threads, push
<1>5. CASE /\ running[c] # NoTask
           /\ returning' = [returning EXCEPT ![c] = Append(@, t)]
           /\ pc' = Goto(t, "ret_sleep")
           /\ then' = [then EXCEPT ![t] = p]
           /\ UNCHANGED <<running, cap>>
  <2>1. pc' \in [Tasks -> Locations] /\ pc'[t] = "ret_sleep" /\ \A u \in Tasks \ {t} :
          pc'[u] = pc[u]
    BY <1>2, <1>5, GotoOK
  <2>2. then'[t] = p /\ \A u \in Tasks \ {t} : then'[u] = then[u] BY <1>5 DEF Types
  <2>3. \A u \in Tasks \ {t} : SameTask(u) BY <1>1, <1>5, <2>1, <2>2 DEF SameTask, push
  <2>4. ASSUME p = "acquire" /\ pc[t] = "acquire" PROVE TaskOK(t)'
    <3>1. running[cap[t]] = t BY <1>3, <2>4 DEF TaskOK, OwnerOK, Holds, Holding
    <3>2. Acquiring(t)' BY <2>1, <2>2, <2>4 DEF Acquiring
    <3>3. OwnerOK(t)' BY <1>5, <3>1, <3>2 DEF OwnerOK, Holds, Reach
    <3>4. grabbed'[t] = <<>> /\ DOMAIN grabbed'[t] = {} BY <1>3, <2>4 DEF TaskOK, PushOK
    <3>5. PushOK(t)' BY <2>1, <3>4 DEF PushOK
    <3> QED BY <3>3, <3>5 DEF TaskOK
  <2>5. ASSUME p # "acquire" /\ ~Holds(t) PROVE TaskOK(t)'
    <3>1. grabbed[t] = <<>> /\ \A d \in Caps : running[d] # t BY <1>3, <2>5, EmptyOwns
    <3>2. ~Holds(t)' BY <2>1, <2>2, <2>5 DEF Holds, Acquiring, Holding
    <3> QED BY <1>3, <1>5, <2>1, <3>1, <3>2, EmptyOK
  <2>6. TasksOK' BY <2>3, <2>4, <2>5, SameTaskStep DEF TasksOK
  <2>7. returning' \in [Caps -> Seq(Tasks)]
    <3>1. Append(returning[c], t) \in Seq(Tasks) BY DEF Types
    <3> QED BY <1>5, <3>1 DEF Types
  <2>8. tcap' \in [Tasks -> Caps] /\ then' \in [Tasks -> {"loop", "yielded", "run", "enter",
        "sync", "sync_wait", "acquire"}]
    BY <1>1, <1>2, <1>5 DEF Types
  <2> QED BY <1>1, <1>5, <2>1, <2>6, <2>7, <2>8 DEF Types, threads, push
<1> QED BY <1>4, <1>5 DEF WaitForCapability

\* yieldCapability keeps to who owns what.
LEMMA YieldCapabilityOwners ==
  ASSUME Types, TasksOK, NEW t \in Tasks,
         pc[t] \in Holding \ {"push", "push_back", "push_release", "acquire", "release"},
         NEW p \in {"yielded", "sync_wait"}, YieldCapability(t, p)
  PROVE  Types' /\ TasksOK'
<1>1. /\ wakeup' = [wakeup EXCEPT ![t] = FALSE]
      /\ then' = [then EXCEPT ![t] = p]
      /\ pc' = Goto(t, "yield_lock")
      /\ UNCHANGED <<running, queues, threads, sync, tcap, cap, seen, thr, push>>
  BY DEF YieldCapability
<1>2. "yield_lock" \in Holding \ {"push_back"} /\ "yield_lock" \in Locations
  BY DEF Holding, Locations
<1>3. \A u \in Tasks \ {t} : then'[u] = then[u] /\ looked'[u] = looked[u] BY <1>1 DEF Types, push
<1>4. TasksOK' BY <1>1, <1>2, <1>3, PlainMoves DEF push
<1>5. pc' \in [Tasks -> Locations] BY <1>1, <1>2, GotoOK
<1>6. then' \in [Tasks -> {"loop", "yielded", "run", "enter", "sync", "sync_wait", "acquire"}]
  BY <1>1 DEF Types
<1>7. wakeup' \in [Tasks -> BOOLEAN] BY <1>1 DEF Types
<1> QED BY <1>1, <1>4, <1>5, <1>6, <1>7 DEF Types, queues, threads, push

\* The steps of schedule() that leave the ownership of capabilities alone.
LEMMA ScheduleOwners ==
  ASSUME Types, TasksOK, NEW t \in Tasks,
         ScheduleYield(t) \/ Yielded(t) \/ RequestSync(t) \/ SyncWait(t)
  PROVE  Types' /\ TasksOK'
<1>1. pc[t] \in Holding \ {"push", "push_back", "push_release", "acquire", "release"}
  BY DEF ScheduleYield, Yielded, RequestSync, SyncWait, Holding
<1>2. CASE YieldCapability(t, "yielded") \/ YieldCapability(t, "sync_wait")
  BY <1>1, <1>2, YieldCapabilityOwners
<1>3. ASSUME NEW p \in Holding \ {"push_back"}, pc' = Goto(t, p), sync' \in {sync, t, NoTask},
             UNCHANGED <<running, queues, threads, tcap, wakeup, cap, seen, then, thr, push>>
      PROVE  Types' /\ TasksOK'
  <2>1. TasksOK' BY <1>1, <1>3, PlainMoves DEF push
  <2>2. p \in Locations BY DEF Locations
  <2>3. pc' \in [Tasks -> Locations] BY <1>3, <2>2, GotoOK
  <2> QED BY <1>3, <2>1, <2>3 DEF Types, queues, threads, push
<1>4. "pick" \in Holding \ {"push_back"} /\ "acquire" \in Holding \ {"push_back"} BY DEF Holding
<1>5. CASE ScheduleYield(t) BY <1>2, <1>3, <1>4, <1>5 DEF ScheduleYield
<1>6. CASE Yielded(t) BY <1>2, <1>3, <1>4, <1>6 DEF Yielded
<1>7. CASE RequestSync(t) BY <1>2, <1>3, <1>4, <1>7 DEF RequestSync
<1>8. CASE SyncWait(t)
  <2>1. AfterGC(t) \in Holding \ {"push_back"} BY DEF AfterGC, Holding
  <2> QED BY <1>2, <1>3, <1>8, <2>1 DEF SyncWait
<1> QED BY <1>5, <1>6, <1>7, <1>8

\* scheduleProcessInbox keeps to who owns what.
LEMMA ProcessInboxOwners ==
  ASSUME Types, TasksOK, NEW t \in Tasks, ProcessInbox(t) \/ InboxBusy(t)
  PROVE  Types' /\ TasksOK'
<1>1. pc[t] \in Holding \ {"push", "push_back", "push_release", "acquire", "release"}
  BY DEF ProcessInbox, InboxBusy, Holding
<1>2. pc' = Goto(t, "push") /\ UNCHANGED <<running, cap, then, looked, grabbed>>
  BY DEF ProcessInbox, InboxBusy, push
<1>3. "push" \in Holding \ {"push_back"} /\ "push" \in Locations BY DEF Holding, Locations
<1>4. TasksOK' BY <1>1, <1>2, <1>3, PlainMoves
<1>5. pc' \in [Tasks -> Locations] BY <1>2, <1>3, GotoOK
<1>6. CASE InboxBusy(t) BY <1>4, <1>5, <1>6 DEF Types, InboxBusy, queues, threads, push
<1>7. CASE ProcessInbox(t)
  <2>1. PICK c : c = cap[t] OBVIOUS
  <2>2. PICK woken : woken = Keep(inbox[c], blocked) OBVIOUS
  <2>3. c \in Caps /\ inbox[c] \in Seq(Threads) /\ runq[c] \in Seq(Threads) /\ <<>> \in Seq(Threads)
    BY <2>1 DEF Types
  <2>4. woken \in Seq(Threads) BY <2>2, <2>3, KeepAll
  <2>5. runq[c] \o woken \in Seq(Threads) BY <2>3, <2>4
  <2>6. /\ runq' = [runq EXCEPT ![c] = @ \o woken]
        /\ blocked' = blocked \ ToSet(woken)
        /\ inbox' = [inbox EXCEPT ![c] = <<>>]
        /\ UNCHANGED <<running, returning, spare, home, live, sync, tcap, wakeup, cap,
                        seen, then, thr, push>>
    BY <1>7, <2>1, <2>2 DEF ProcessInbox
  <2>7. runq' \in [Caps -> Seq(Threads)] /\ inbox' \in [Caps -> Seq(Threads)]
    BY <2>3, <2>5, <2>6 DEF Types
  <2> QED BY <1>4, <1>5, <2>6, <2>7 DEF Types, push
<1> QED BY <1>6, <1>7

\* popRunQueue keeps to who owns what.
LEMMA PickOwners ==
  ASSUME Types, TasksOK, NEW t \in Tasks, Pick(t)
  PROVE  Types' /\ TasksOK'
<1>1. pc[t] \in Holding \ {"push", "push_back", "push_release", "acquire", "release"}
  BY DEF Pick, Holding
<1>2. PICK p \in {"run", "loop"} : pc' = Goto(t, p) BY DEF Pick
<1>3. UNCHANGED <<running, returning, spare, inbox, threads, sync, tcap, wakeup, cap, seen, then,
      push>>
  BY DEF Pick
<1>4. p \in Holding \ {"push_back"} /\ p \in Locations BY DEF Holding, Locations
<1>5. TasksOK' BY <1>1, <1>2, <1>3, <1>4, PlainMoves DEF push
<1>6. pc' \in [Tasks -> Locations] BY <1>2, <1>4, GotoOK
<1>7. PICK c : c = cap[t] OBVIOUS
<1>8. c \in Caps /\ runq[c] \in Seq(Threads) BY <1>7 DEF Types
<1>9. \/ UNCHANGED <<thr, runq>>
      \/ /\ runq[c] # <<>>
         /\ thr' = [thr EXCEPT ![t] = Head(runq[c])]
         /\ runq' = [runq EXCEPT ![c] = Tail(@)]
  BY <1>7 DEF Pick
<1>10. runq' \in [Caps -> Seq(Threads)] /\ thr' \in [Tasks -> Threads \cup {NoThread}]
  <2>1. CASE UNCHANGED <<thr, runq>> BY <2>1 DEF Types
  <2>2. CASE /\ runq[c] # <<>>
             /\ thr' = [thr EXCEPT ![t] = Head(runq[c])]
             /\ runq' = [runq EXCEPT ![c] = Tail(@)]
    <3>1. Head(runq[c]) \in Threads /\ Tail(runq[c]) \in Seq(Threads) BY <1>8, <2>2, InTail
    <3> QED BY <1>8, <2>2, <3>1 DEF Types
  <2> QED BY <1>9, <2>1, <2>2
<1> QED BY <1>3, <1>5, <1>6, <1>10 DEF Types, threads, push

\* The thread stops running.
LEMMA ThreadStopsOwners ==
  ASSUME Types, TasksOK, NEW t \in Tasks,
         ThreadYields(t) \/ ThreadBlocks(t) \/ ThreadFinishes(t) \/ HeapOverflow(t),
         thr[t] \in live \ blocked
  PROVE  Types' /\ TasksOK'
<1>1. pc[t] \in Holding \ {"push", "push_back", "push_release", "acquire", "release"}
  BY DEF ThreadYields, ThreadBlocks, ThreadFinishes, HeapOverflow, Holding
<1>2. PICK p \in {"loop", "exit", "sync"} : pc' = Goto(t, p)
  BY DEF ThreadYields, ThreadBlocks, ThreadFinishes, HeapOverflow
<1>3. UNCHANGED <<running, returning, spare, inbox, home, sync, tcap, wakeup, cap, seen, then,
      push>>
  BY DEF ThreadYields, ThreadBlocks, ThreadFinishes, HeapOverflow, queues, threads
<1>4. p \in Holding \ {"push_back"} /\ p \in Locations BY DEF Holding, Locations
<1>5. TasksOK' BY <1>1, <1>2, <1>3, <1>4, PlainMoves DEF push
<1>6. pc' \in [Tasks -> Locations] BY <1>2, <1>4, GotoOK
<1>7. PICK c : c = cap[t] OBVIOUS
<1>8. PICK h : h = thr[t] OBVIOUS
<1>9. c \in Caps /\ runq[c] \in Seq(Threads) /\ h \in Threads /\ h \in live \ blocked
  BY <1>7, <1>8 DEF Types
<1>10. Append(runq[c], h) \in Seq(Threads) /\ <<h>> \o runq[c] \in Seq(Threads) BY <1>9
<1>11. \/ runq' = runq \/ runq' = [runq EXCEPT ![c] = Append(@, h)]
            \/ runq' = [runq EXCEPT ![c] = <<h>> \o @]
  BY <1>7, <1>8 DEF ThreadYields, ThreadBlocks, ThreadFinishes, HeapOverflow, queues
<1>12. runq' \in [Caps -> Seq(Threads)] BY <1>9, <1>10, <1>11 DEF Types
<1>13. thr' = [thr EXCEPT ![t] = NoThread]
  BY DEF ThreadYields, ThreadBlocks, ThreadFinishes, HeapOverflow
<1>14. blocked' \subseteq live' /\ live' \subseteq Threads
  BY <1>8, <1>9 DEF ThreadYields, ThreadBlocks, ThreadFinishes, HeapOverflow, threads, Types
<1> QED BY <1>3, <1>5, <1>6, <1>12, <1>13, <1>14 DEF Types, push

\* What Types says of the variables that no releaseCapability_ changes
LEMMA ReleaseTypes ==
  ASSUME Types, NEW c \in Caps, NEW aw, NEW sp \in Seq(Tasks), NEW q \in Seq(Threads),
         NEW ib \in Seq(Threads),
         NEW late \in Seq(Tasks), NEW pcs \in [Tasks -> Locations], NEW tcaps \in [Tasks -> Caps],
         Release(c, aw, sp, q, ib, late, pcs, tcaps),
         UNCHANGED <<threads, sync, seen, then, thr>>,
         looked' \in [Tasks -> Nat], grabbed' \in [Tasks -> Seq(Caps)]
  PROVE  Types' /\ Released(c, pcs, tcaps)
<1>1. /\ Released(c, pcs, tcaps)
      /\ running' \in [Caps -> Tasks \cup {NoTask}] /\ returning' \in [Caps -> Seq(Tasks)]
      /\ spare' \in [Caps -> Seq(Tasks)] /\ runq' \in [Caps -> Seq(Threads)]
           /\ inbox' \in [Caps -> Seq(Threads)]
      /\ wakeup' \in [Tasks -> BOOLEAN] /\ pc' \in [Tasks -> Locations]
      /\ tcap' \in [Tasks -> Caps] /\ cap' \in [Tasks -> Caps]
  BY ReleaseDoes
<1>2. /\ home' = home /\ blocked' = blocked /\ live' = live /\ sync' = sync /\ seen' = seen
           /\ then' = then /\ thr' = thr
  BY DEF threads
<1> QED BY <1>1, <1>2 DEF Types

\* ... and so is the one that makes no worker.
LEMMA ReleasePlainTypes ==
  ASSUME Types, NEW c \in Caps, NEW pcs \in [Tasks -> Locations], NEW tcaps \in [Tasks -> Caps],
         ReleasePlain(c, pcs, tcaps), UNCHANGED <<threads, sync, seen, then, thr>>,
         looked' \in [Tasks -> Nat], grabbed' \in [Tasks -> Seq(Caps)]
  PROVE  Types' /\ Released(c, pcs, tcaps)
<1>1. spare[c] \in Seq(Tasks) /\ runq[c] \in Seq(Threads) /\ inbox[c] \in Seq(Threads) BY DEF Types
<1>2. <<>> \in Seq(Tasks) OBVIOUS
<1>3. Release(c, FALSE, spare[c], runq[c], inbox[c], <<>>, pcs, tcaps) BY DEF ReleasePlain
<1> QED BY <1>1, <1>2, <1>3, ReleaseTypes

\* t lets go of its only capability.
LEMMA LetsGo ==
  ASSUME Types, TasksOK, NEW t \in Tasks, pc[t] \in {"yield_lock", "run", "exit"},
         NEW p \in {"sleep", "ret_sleep", "dead", "ccall", "out"},
         p = "dead" => pc[t] = "yield_lock",
         p = "ret_sleep" => then[t] # "acquire",
         NEW tcaps, Released(cap[t], Goto(t, p), tcaps), UNCHANGED <<then, looked, grabbed>>
  PROVE  TasksOK'
<1>1. pc[t] \in Holding \ {"push", "push_back", "push_release", "acquire", "release"} BY DEF Holding
<1>2. TaskOK(t) BY DEF TasksOK
<1>3. Single(t) BY <1>1, <1>2, PlainSingle
<1>4. \A d \in Caps : running[d] = t <=> d = cap[t] BY <1>2, <1>3, SingleOwns
<1>5. cap[t] \in Caps BY DEF Types
<1>6. p \in Locations /\ p \notin Holding BY DEF Locations, Holding, Sleeping
<1>7. ASSUME pc'[t] = p, \A d \in Caps : running'[d] = t <=> running[d] = t /\ d # cap[t]
      PROVE  TaskOK(t)'
  <2>1. grabbed'[t] = <<>> BY <1>3 DEF Single
  <2>2. ~Holds(t)' BY <1>6, <1>7 DEF Holds, Acquiring
  <2>3. \A d \in Caps : running'[d] # t BY <1>4, <1>7
  <2> QED BY <1>6, <1>7, <2>1, <2>2, <2>3, EmptyOK
<1>8. running[cap[t]] \in {t, NoTask} BY <1>4, <1>5
<1>9. PICK pcs : pcs = Goto(t, p) OBVIOUS
<1>10. PICK c \in Caps : c = cap[t] BY <1>5
<1>11. Released(c, pcs, tcaps) /\ running[c] \in {t, NoTask} BY <1>8, <1>9, <1>10
<1>12. pc'[t] = p /\ cap'[t] = cap[t] /\ (\A d \in Caps : running'[d] = t <=> running[d] = t
         /\ d # c) => TaskOK(t)'
  BY <1>7, <1>10
<1>13. p = "dead" => pc[t] = "yield_lock" /\ c = cap[t] /\ grabbed'[t] = grabbed[t] BY <1>10
<1>14. then' = then /\ \A u \in Tasks \ {t} : looked'[u] = looked[u] /\ grabbed'[u] = grabbed[u]
  OBVIOUS
<1> QED BY <1>6, <1>9, <1>11, <1>12, <1>13, <1>14, ReleasedTasks

\* The release in yieldCapability keeps to who owns what.
LEMMA YieldReleaseOwners ==
  ASSUME Types, TasksOK, NEW t \in Tasks, YieldRelease(t), t \in Callers /\ ~IsBound(t)
         => then[t] # "acquire"
  PROVE  Types' /\ TasksOK'
<1>1. pc[t] = "yield_lock" /\ UNCHANGED <<threads, sync, seen, then, thr, push>> BY DEF YieldRelease
<1>2. cap[t] \in Caps /\ tcap \in [Tasks -> Caps] /\ looked' \in [Tasks -> Nat]
        /\ grabbed' \in [Tasks -> Seq(Caps)]
      /\ UNCHANGED <<then, looked, grabbed>> /\ UNCHANGED <<threads, sync, seen, then, thr>>
  BY <1>1 DEF Types, push
<1>3. {"sleep", "ret_sleep", "dead"} \subseteq Locations BY DEF Locations, Sleeping
<1>4. /\ Goto(t, "sleep") \in [Tasks -> Locations] /\ Goto(t, "ret_sleep") \in [Tasks -> Locations]
      /\ Goto(t, "dead") \in [Tasks -> Locations]
  BY <1>3, GotoOK
<1>5. /\ <<t>> \o spare[cap[t]] \in Seq(Tasks) /\ spare[cap[t]] \in Seq(Tasks)
           /\ runq[cap[t]] \in Seq(Threads)
      /\ inbox[cap[t]] \in Seq(Threads) /\ <<>> \in Seq(Tasks) /\ <<t>> \in Seq(Tasks)
  BY <1>2 DEF Types
<1>6. CASE Release(cap[t], FALSE, <<t>> \o spare[cap[t]], runq[cap[t]], inbox[cap[t]], <<>>,
      Goto(t, "sleep"), tcap)
  <2>1. Types' /\ Released(cap[t], Goto(t, "sleep"), tcap) BY <1>2, <1>4, <1>5, <1>6, ReleaseTypes
  <2>2. TasksOK' BY <1>1, <1>2, <2>1, LetsGo
  <2> QED BY <2>1, <2>2
<1>7. CASE ReleasePlain(cap[t], Goto(t, "dead"), tcap)
  <2>1. Types' /\ Released(cap[t], Goto(t, "dead"), tcap) BY <1>2, <1>4, <1>7, ReleasePlainTypes
  <2>2. TasksOK' BY <1>1, <1>2, <2>1, LetsGo
  <2> QED BY <2>1, <2>2
<1>8. CASE ReleasePlain(cap[t], Goto(t, "sleep"), tcap)
  <2>1. Types' /\ Released(cap[t], Goto(t, "sleep"), tcap) BY <1>2, <1>4, <1>8, ReleasePlainTypes
  <2>2. TasksOK' BY <1>1, <1>2, <2>1, LetsGo
  <2> QED BY <2>1, <2>2
<1>9. CASE t \in Callers /\ ~IsBound(t)
           /\ Release(cap[t], FALSE, spare[cap[t]], runq[cap[t]], inbox[cap[t]], <<t>>, Goto(t,
                "ret_sleep"), tcap)
  <2>1. Types' /\ Released(cap[t], Goto(t, "ret_sleep"), tcap)
    BY <1>2, <1>4, <1>5, <1>9, ReleaseTypes
  <2>2. TasksOK' BY <1>1, <1>2, <1>9, <2>1, LetsGo
  <2> QED BY <2>1, <2>2
<1> QED BY <1>6, <1>7, <1>8, <1>9 DEF YieldRelease

\* A task that leaves keeps to who owns what.
LEMMA LeaveOwners ==
  ASSUME Types, TasksOK, NEW t \in Tasks, SuspendThread(t) \/ Exit(t)
  PROVE  Types' /\ TasksOK'
<1>1. PICK p \in {"ccall", "out"} : pc[t] \in {"run", "exit"} /\ ReleasePlain(cap[t], Goto(t, p),
      tcap)
  BY DEF SuspendThread, Exit
<1>2. UNCHANGED <<threads, sync, seen, then, thr>> /\ UNCHANGED <<then, looked, grabbed>>
  BY DEF SuspendThread, Exit, push
<1>3. cap[t] \in Caps /\ tcap \in [Tasks -> Caps] /\ looked' \in [Tasks -> Nat]
        /\ grabbed' \in [Tasks -> Seq(Caps)]
      /\ p \in Locations
  BY <1>2 DEF Types, Locations
<1>4. Goto(t, p) \in [Tasks -> Locations] BY <1>3, GotoOK
<1>5. Types' /\ Released(cap[t], Goto(t, p), tcap) BY <1>1, <1>2, <1>3, <1>4, ReleasePlainTypes
<1>6. TasksOK' BY <1>1, <1>2, <1>5, LetsGo
<1> QED BY <1>5, <1>6

\* Waking a thread of this or another capability keeps to who owns what.
LEMMA WakeThreadOwners ==
  ASSUME Types, TasksOK, NEW t \in Tasks, NEW h, WakeThread(t, h)
  PROVE  Types' /\ TasksOK'
<1>1. PICK c : c = cap[t] OBVIOUS
<1>2. PICK d : d = home[h] OBVIOUS
<1>3. pc[t] = "run" /\ h \in blocked /\ UNCHANGED <<home, live, sync, seen, then, thr, push>>
  BY DEF WakeThread
<1>4. h \in Threads /\ c \in Caps /\ d \in Caps /\ runq[c] \in Seq(Threads)
        /\ inbox[d] \in Seq(Threads)
      /\ runq[d] \in Seq(Threads) /\ spare[d] \in Seq(Tasks)
  BY <1>1, <1>2, <1>3 DEF Types
<1>5. CASE d = c
  <2>1. /\ runq' = [runq EXCEPT ![c] = Append(@, h)]
        /\ blocked' = blocked \ {h}
        /\ UNCHANGED <<running, returning, spare, inbox, tcap, wakeup, pc, cap>>
    BY <1>1, <1>2, <1>5 DEF WakeThread
  <2>2. TasksOK' BY <1>3, <2>1, NothingMoves DEF push
  <2>3. Append(runq[c], h) \in Seq(Threads) BY <1>4
  <2>4. runq' \in [Caps -> Seq(Threads)] BY <1>4, <2>1, <2>3 DEF Types
  <2> QED BY <1>3, <2>1, <2>2, <2>4 DEF Types, push
<1>6. CASE d # c /\ running[d] = NoTask
  <2>1. Release(d, TRUE, spare[d], runq[d], <<h>> \o inbox[d], <<>>, pc, tcap) /\ blocked' = blocked
    BY <1>1, <1>2, <1>6 DEF WakeThread
  <2>2. <<h>> \o inbox[d] \in Seq(Threads) /\ <<>> \in Seq(Tasks) /\ UNCHANGED <<threads, sync,
        seen, then, thr>>
        /\ pc \in [Tasks -> Locations] /\ tcap \in [Tasks -> Caps]
        /\ looked' \in [Tasks -> Nat] /\ grabbed' \in [Tasks -> Seq(Caps)]
    <3>1. <<h>> \o inbox[d] \in Seq(Threads) /\ <<>> \in Seq(Tasks) BY <1>4
    <3>2. UNCHANGED <<threads, sync, seen, then, thr>> BY <1>3, <2>1 DEF threads
    <3>3. looked' = looked /\ grabbed' = grabbed BY <1>3 DEF push
    <3>4. pc \in [Tasks -> Locations] /\ tcap \in [Tasks -> Caps] /\ looked \in [Tasks -> Nat]
          /\ grabbed \in [Tasks -> Seq(Caps)]
      BY DEF Types
    <3> QED BY <3>1, <3>2, <3>3, <3>4
  <2>3. Types' /\ Released(d, pc, tcap) BY <1>4, <2>1, <2>2, ReleaseTypes
  <2>4. TaskOK(t) /\ running \in [Caps -> Tasks \cup {NoTask}] BY DEF TasksOK, Types
  <2>5. pc[t] \in Holding \ {"push", "push_back", "push_release", "acquire", "release"}
    BY <1>3 DEF Holding
  <2>6. Single(t) BY <2>4, <2>5, PlainSingle
  <2>7. \A e \in Caps : running[e] = t <=> e = cap[t] BY <2>4, <2>6, SingleOwns
  <2>8. ASSUME pc'[t] = "run", cap'[t] = cap[t], \A e \in Caps :
                 running'[e] = t <=> running[e] = t /\ e # d
        PROVE  TaskOK(t)'
    <3>1. \A e \in Caps : running'[e] = t <=> e = cap'[t] BY <1>1, <1>6, <2>7, <2>8
    <3>2. grabbed'[t] = <<>> /\ cap'[t] \in Caps /\ pc'[t] \in Holding \ {"push_back"}
      BY <1>1, <1>3, <1>4, <2>6, <2>8 DEF Single, push, Holding
    <3> QED BY <3>1, <3>2, SingleOK
  <2>9. pc = Goto(t, "run") BY <1>3 DEF Goto, Types
  <2>10. "run" \in Locations /\ then' = then /\ \A u \in Tasks \ {t} : looked'[u] = looked[u]
           /\ grabbed'[u] = grabbed[u]
    BY <1>3 DEF push, Locations, Holding
  <2>11. running[d] \in {t, NoTask} BY <1>6
  <2>12. TasksOK'
    <3>1. PICK pcs : pcs = pc OBVIOUS
    <3>2. Released(d, pcs, tcap) /\ pcs = Goto(t, "run") BY <2>3, <2>9, <3>1
    <3>3. pc'[t] = "run" /\ cap'[t] = cap[t] /\ (\A e \in Caps :
            running'[e] = t <=> running[e] = t /\ e # d) => TaskOK(t)'
      BY <2>8
    <3> QED BY <1>4, <2>10, <2>11, <3>2, <3>3, ReleasedTasks
  <2> QED BY <2>3, <2>12
<1>7. CASE d # c /\ running[d] # NoTask
  <2>1. /\ inbox' = [inbox EXCEPT ![d] = <<h>> \o @]
        /\ UNCHANGED <<running, returning, spare, runq, tcap, wakeup, pc, cap, blocked>>
    BY <1>1, <1>2, <1>7 DEF WakeThread
  <2>2. TasksOK' BY <1>3, <2>1, NothingMoves DEF push
  <2>3. <<h>> \o inbox[d] \in Seq(Threads) BY <1>4
  <2>4. inbox' \in [Caps -> Seq(Threads)] BY <1>4, <2>1, <2>3 DEF Types
  <2> QED BY <1>3, <2>1, <2>2, <2>4 DEF Types, push
<1> QED BY <1>5, <1>6, <1>7

\* A new thread keeps to who owns what.
LEMMA ForkOwners ==
  ASSUME Types, TasksOK, NEW t \in Tasks, NEW h, Fork(t, h)
  PROVE  Types' /\ TasksOK'
<1>1. PICK c : c = cap[t] OBVIOUS
<1>2. /\ h \in Unbound \ live /\ live' = live \cup {h} /\ home' = [home EXCEPT ![h] = c]
      /\ runq' = [runq EXCEPT ![c] = Append(@, h)]
      /\ UNCHANGED <<running, returning, spare, inbox, blocked, sync, tcap, wakeup, pc, cap, seen,
           then, thr, push>>
  BY <1>1 DEF Fork
<1>3. h \in Threads /\ c \in Caps /\ runq[c] \in Seq(Threads) BY <1>1, <1>2 DEF Types, Threads
<1>4. TasksOK' BY <1>2, NothingMoves DEF push
<1>5. Append(runq[c], h) \in Seq(Threads) BY <1>3
<1>6. runq' \in [Caps -> Seq(Threads)] /\ home' \in [Threads -> Caps] BY <1>2, <1>3, <1>5 DEF Types
<1> QED BY <1>2, <1>3, <1>4, <1>6 DEF Types, push

\* A call from outside keeps to who owns what.
LEMMA EnterOwners ==
  ASSUME Types, TasksOK, NEW t \in Callers, Enter(t)
  PROVE  Types' /\ TasksOK'
<1>0. t \in Tasks /\ t \in Threads BY Distinct
<1>1. PICK c : c = cap[t] OBVIOUS
<1>2. /\ pc[t] = "enter" /\ live' = live \cup {t} /\ home' = [home EXCEPT ![t] = c]
      /\ runq' = [runq EXCEPT ![c] = Append(@, t)] /\ pc' = Goto(t, "loop")
      /\ UNCHANGED <<running, returning, spare, inbox, blocked, sync, tcap, wakeup, cap, seen,
           then, thr, push>>
  BY <1>1 DEF Enter
<1>3. c \in Caps /\ runq[c] \in Seq(Threads) BY <1>0, <1>1, <1>2 DEF Types, Threads
<1>4. "loop" \in Holding \ {"push_back"} /\ "loop" \in Locations
      /\ pc[t] \in Holding \ {"push", "push_back", "push_release", "acquire", "release"}
  BY <1>2 DEF Holding, Locations
<1>5. TasksOK' BY <1>0, <1>2, <1>4, PlainMoves DEF push
<1>6. Append(runq[c], t) \in Seq(Threads) BY <1>0, <1>3
<1>7. runq' \in [Caps -> Seq(Threads)] /\ home' \in [Threads -> Caps]
  BY <1>0, <1>2, <1>3, <1>6 DEF Types
<1>8. pc' \in [Tasks -> Locations] BY <1>0, <1>2, <1>4, GotoOK
<1> QED BY <1>0, <1>2, <1>3, <1>5, <1>7, <1>8 DEF Types, push

\* schedulePushWork that finds a capability taken keeps to who owns what.
LEMMA GrabFailsOwners ==
  ASSUME Types, TasksOK, NEW t \in Tasks, GrabFails(t)
  PROVE  Types' /\ TasksOK'
<1>1. /\ pc[t] = "push" /\ looked' = [looked EXCEPT ![t] = @ + 1]
      /\ UNCHANGED <<running, queues, threads, sync, tcap, wakeup, pc, cap, seen, then, thr,
           grabbed>>
  BY DEF GrabFails
<1>2. looked' \in [Tasks -> Nat] /\ \A u \in Tasks \ {t} : looked'[u] = looked[u]
  <2>0. looked \in [Tasks -> Nat] BY DEF Types
  <2>1. looked[t] + 1 \in Nat BY <2>0
  <2>2. looked' = [looked EXCEPT ![t] = looked[t] + 1] BY <1>1
  <2> QED BY <2>0, <2>1, <2>2
<1>3. \A u \in Tasks \ {t} : SameTask(u) BY <1>1, <1>2 DEF SameTask
<1>4. TaskOK(t)'
  <2>1. TaskOK(t) BY DEF TasksOK
  <2>2. \A c \in Caps : Reach(t, c) => Reach(t, c)' BY <1>1 DEF Reach, Acquiring
  <2>3. Holds(t) /\ Holds(t)' BY <1>1 DEF Holds, Holding
  <2>4. OwnerOK(t)' BY <1>1, <2>1, <2>2, <2>3 DEF TaskOK, OwnerOK
  <2>5. PushOK(t)' BY <1>1, <2>1 DEF TaskOK, PushOK
  <2> QED BY <2>4, <2>5 DEF TaskOK
<1>5. TasksOK' BY <1>3, <1>4, SameTaskStep DEF TasksOK
<1> QED BY <1>1, <1>2, <1>5 DEF Types, queues, threads

\* schedulePushWork that takes a capability keeps to who owns what.
LEMMA GrabOwners ==
  ASSUME Types, TasksOK, NEW t \in Tasks, Grab(t)
  PROVE  Types' /\ TasksOK'
<1>1. PICK d : d = Candidate(t) OBVIOUS
<1>2. /\ pc[t] = "push" /\ running[d] = NoTask
      /\ running' = [running EXCEPT ![d] = t]
      /\ tcap' = [tcap EXCEPT ![t] = d]
      /\ UNCHANGED <<queues, threads, sync, wakeup, cap, seen, then, thr>>
      /\ \/ pc' = Goto(t, "push_back") /\ UNCHANGED push
         \/ /\ grabbed' = [grabbed EXCEPT ![t] = Append(@, d)]
            /\ looked' = [looked EXCEPT ![t] = @ + 1]
            /\ UNCHANGED pc
  BY <1>1 DEF Grab
<1>3. d \in Caps /\ running \in [Caps -> Tasks \cup {NoTask}] /\ grabbed[t] \in Seq(Caps)
        /\ cap[t] \in Caps
  BY <1>1, CandidateOK DEF Types
<1>4. running' \in [Caps -> Tasks \cup {NoTask}] /\ tcap' \in [Tasks -> Caps]
  BY <1>2, <1>3 DEF Types
<1>5. \A e \in Caps : running'[e] = IF e = d THEN t ELSE running[e] BY <1>2, <1>3
<1>6. TaskOK(t) /\ Holds(t) BY <1>2 DEF TasksOK, Holds, Holding
<1>7. running[cap[t]] = t /\ cap[t] # d /\ \A i \in DOMAIN grabbed[t] : grabbed[t][i] # d
        /\ running[grabbed[t][i]] = t
  BY <1>2, <1>6, Distinct DEF TaskOK, OwnerOK, PushOK
<1>8. \A i \in DOMAIN grabbed[t] : grabbed[t][i] \in Caps BY <1>3
<1>9. CASE pc' = Goto(t, "push_back") /\ UNCHANGED push
  <2>1. "push_back" \in Locations BY DEF Locations, Holding
  <2>2. pc' \in [Tasks -> Locations] /\ pc'[t] = "push_back" /\ \A u \in Tasks \ {t} :
          pc'[u] = pc[u]
    BY <1>9, <2>1, GotoOK
  <2>3. \A u \in Tasks \ {t} : SameTask(u)
    BY <1>2, <1>3, <1>5, <1>9, <2>2, Distinct DEF SameTask, push
  <2>4. TaskOK(t)'
    <3>1. Candidate(t)' = d BY <1>1, <1>2, <1>9 DEF Candidate, push
    <3>2. Holds(t)' /\ running'[cap'[t]] = t BY <1>2, <1>3, <1>5, <1>7, <2>2 DEF Holds, Holding
    <3>3. ASSUME NEW e \in Caps, running'[e] = t PROVE Reach(t, e)'
      <4>1. CASE e = d BY <2>2, <3>1, <4>1 DEF Reach
      <4>2. CASE e # d
        <5>1. running[e] = t BY <1>5, <3>3, <4>2
        <5>2. Reach(t, e) BY <1>6, <5>1 DEF TaskOK, OwnerOK
        <5> QED BY <1>2, <1>9, <5>2 DEF Reach, Acquiring, push
      <4> QED BY <4>1, <4>2
    <3>4. OwnerOK(t)' BY <3>2, <3>3 DEF OwnerOK
    <3>5. PushOK(t)'
      <4>1. grabbed' = grabbed /\ cap' = cap BY <1>2, <1>9 DEF push
      <4>2. \A i \in DOMAIN grabbed[t] : running'[grabbed[t][i]] = t /\ grabbed[t][i] # cap[t]
              /\ grabbed[t][i] # d
            /\ \A j \in DOMAIN grabbed[t] : grabbed[t][i] = grabbed[t][j] => i = j
        BY <1>5, <1>6, <1>7, <1>8 DEF TaskOK, PushOK
      <4>3. running'[d] = t BY <1>3, <1>5
      <4> QED BY <1>7, <2>2, <3>1, <4>1, <4>2, <4>3 DEF PushOK
    <3> QED BY <3>4, <3>5 DEF TaskOK
  <2>5. TasksOK' BY <2>3, <2>4, SameTaskStep DEF TasksOK
  <2> QED BY <1>2, <1>4, <1>9, <2>2, <2>5 DEF Types, queues, threads, push
<1>10. CASE /\ grabbed' = [grabbed EXCEPT ![t] = Append(@, d)]
            /\ looked' = [looked EXCEPT ![t] = @ + 1]
            /\ UNCHANGED pc
  <2>1. looked' \in [Tasks -> Nat] /\ \A u \in Tasks \ {t} : looked'[u] = looked[u]
    BY <1>10 DEF Types
  <2>2. Append(grabbed[t], d) \in Seq(Caps) BY <1>3
  <2>3. /\ grabbed' \in [Tasks -> Seq(Caps)] /\ grabbed'[t] = Append(grabbed[t], d)
        /\ \A u \in Tasks \ {t} : grabbed'[u] = grabbed[u]
    BY <1>10, <2>2 DEF Types
  <2>4. \A u \in Tasks \ {t} : SameTask(u)
    BY <1>2, <1>3, <1>5, <1>10, <2>1, <2>3, Distinct DEF SameTask
  <2>5. PICK g : g = grabbed[t] OBVIOUS
  <2>6. g \in Seq(Caps) /\ ~In(d, g) /\ OnceIn(g) /\ (\A e : In(e, g) => running[e] = t
          /\ e # cap[t] /\ e \in Caps)
    BY <1>3, <1>6, <1>7, <1>8, <2>5 DEF TaskOK, PushOK, In, OnceIn
  <2>7. PICK g2 : g2 = Append(g, d) OBVIOUS
  <2>8. OnceIn(g2) /\ \A e : In(e, g2) <=> e = d \/ In(e, g) BY <1>3, <2>6, <2>7, InAppend
  <2>9. \A e : In(e, g2) => running'[e] = t /\ e # cap[t] BY <1>3, <1>5, <1>7, <2>6, <2>8
  <2>10. grabbed'[t] = g2 /\ pc'[t] = "push" /\ cap' = cap BY <1>2, <1>10, <2>3, <2>5, <2>7
  <2>11. PushOK(t)' BY <2>8, <2>9, <2>10 DEF PushOK, In, OnceIn
  <2>12. ASSUME NEW e \in Caps, running'[e] = t PROVE Reach(t, e)'
    <3>1. CASE e = d
      <4>1. In(d, g2) BY <2>8
      <4> QED BY <2>10, <3>1, <4>1 DEF Reach, In
    <3>2. CASE e # d
      <4>1. running[e] = t BY <1>5, <2>12, <3>2
      <4>2. Reach(t, e) BY <1>6, <4>1 DEF TaskOK, OwnerOK
      <4>3. cap[t] = e \/ In(e, g) BY <1>2, <2>5, <4>2 DEF Reach, Acquiring, In
      <4>4. cap'[t] = e \/ In(e, g2) BY <2>8, <2>10, <4>3
      <4> QED BY <2>10, <4>4 DEF Reach, In
    <3> QED BY <3>1, <3>2
  <2>13. OwnerOK(t)'
    <3>1. Holds(t)' BY <2>10 DEF Holds, Holding
    <3>2. running'[cap'[t]] = t BY <1>3, <1>5, <1>7, <2>10
    <3> QED BY <2>12, <3>1, <3>2 DEF OwnerOK
  <2>14. TasksOK' BY <2>4, <2>11, <2>13, SameTaskStep DEF TasksOK, TaskOK
  <2> QED BY <1>2, <1>4, <1>10, <2>1, <2>3, <2>14 DEF Types, queues, threads
<1> QED BY <1>2, <1>9, <1>10

\* schedulePushWork that gives a capability back at once keeps to who owns what.
LEMMA PushBackOwners ==
  ASSUME Types, TasksOK, NEW t \in Tasks, PushBack(t)
  PROVE  Types' /\ TasksOK'
<1>1. PICK c \in Caps : c = Candidate(t) BY CandidateOK
<1>2. /\ pc[t] = "push_back" /\ looked' = [looked EXCEPT ![t] = @ + 1]
      /\ ReleasePlain(c, Goto(t, "push"), tcap)
      /\ UNCHANGED <<threads, sync, seen, then, thr, grabbed>>
  BY <1>1 DEF PushBack
<1>3. looked' \in [Tasks -> Nat] /\ \A u \in Tasks \ {t} : looked'[u] = looked[u]
  <2>0. looked \in [Tasks -> Nat] BY DEF Types
  <2>1. looked[t] + 1 \in Nat BY <2>0
  <2>2. looked' = [looked EXCEPT ![t] = looked[t] + 1] BY <1>2
  <2> QED BY <2>0, <2>1, <2>2
<1>4. "push" \in Locations BY DEF Locations, Holding
<1>5. Goto(t, "push") \in [Tasks -> Locations] /\ tcap \in [Tasks -> Caps]
        /\ grabbed' \in [Tasks -> Seq(Caps)]
      /\ grabbed[t] \in Seq(Caps) /\ cap[t] \in Caps
  BY <1>2, <1>4, GotoOK DEF Types
<1>6. Types' /\ Released(c, Goto(t, "push"), tcap) BY <1>2, <1>3, <1>5, ReleasePlainTypes
<1>7. TaskOK(t) /\ Holds(t) BY <1>2 DEF TasksOK, Holds, Holding
<1>8. running[c] = t /\ c # cap[t] /\ \A i \in DOMAIN grabbed[t] : grabbed[t][i] # c
  BY <1>1, <1>2, <1>7 DEF TaskOK, PushOK
<1>9. ASSUME pc'[t] = "push", cap'[t] = cap[t], \A d \in Caps :
               running'[d] = t <=> running[d] = t /\ d # c
      PROVE  TaskOK(t)'
  <2>1. ASSUME NEW e \in Caps, running'[e] = t PROVE Reach(t, e)'
    <3>1. Reach(t, e) /\ e # c BY <1>7, <1>9, <2>1 DEF TaskOK, OwnerOK
    <3> QED BY <1>1, <1>2, <1>9, <3>1 DEF Reach, Acquiring
  <2>2. Holds(t)' /\ running'[cap'[t]] = t
    BY <1>5, <1>7, <1>8, <1>9 DEF Holds, Holding, TaskOK, OwnerOK
  <2>3. OwnerOK(t)' BY <2>1, <2>2 DEF OwnerOK
  <2>4. \A i \in DOMAIN grabbed[t] : grabbed[t][i] \in Caps BY <1>5
  <2>5. PushOK(t)' BY <1>2, <1>7, <1>8, <1>9, <2>4 DEF TaskOK, PushOK
  <2> QED BY <2>3, <2>5 DEF TaskOK
<1>10. TasksOK'
  <2>1. PICK pcs : pcs = Goto(t, "push") OBVIOUS
  <2>2. Released(c, pcs, tcap) BY <1>6, <2>1
  <2>3. running[c] \in {t, NoTask} BY <1>8
  <2>4. then' = then /\ \A u \in Tasks \ {t} : looked'[u] = looked[u] /\ grabbed'[u] = grabbed[u]
    BY <1>2, <1>3
  <2>5. pc'[t] = "push" /\ cap'[t] = cap[t] /\ (\A d \in Caps :
          running'[d] = t <=> running[d] = t /\ d # c) => TaskOK(t)'
    BY <1>9
  <2> QED BY <1>4, <2>1, <2>2, <2>3, <2>4, <2>5, ReleasedTasks
<1> QED BY <1>6, <1>10

\* Threads are sent to capabilities that have been grabbed.
LEMMA DestOK ==
  ASSUME Types, NEW t \in Tasks, grabbed[t] # <<>>
  PROVE  /\ Share(t).rest \in Seq(Threads) /\ Share(t).moved \in Seq(Threads)
         /\ DOMAIN Dest(t) = ToSet(Share(t).moved) /\ DOMAIN Dest(t) \subseteq Threads
         /\ \A h : h \in DOMAIN Dest(t) <=> In(h, Share(t).moved)
         /\ \A h \in DOMAIN Dest(t) : Dest(t)[h] \in Caps /\ In(Dest(t)[h], grabbed[t])
<1>1. runq[cap[t]] \in Seq(Threads) /\ grabbed[t] \in Seq(Caps) BY DEF Types
<1>2. Share(t) \in Shares BY <1>1, ShareAll
<1>3. PICK moved : moved = Share(t).moved OBVIOUS
<1>4. moved \in Seq(Threads) /\ Share(t).rest \in Seq(Threads) BY <1>2, <1>3 DEF Shares
<1>5. PICK g : g = grabbed[t] OBVIOUS
<1> DEFINE index(h) == CHOOSE k \in DOMAIN moved : moved[k] = h
<1>6. Dest(t) = [h \in ToSet(moved) |-> g[((index(h) - 1) % Len(g)) + 1]] BY <1>3, <1>5 DEF Dest
<1>7. \A h : h \in ToSet(moved) <=> In(h, moved) BY DEF ToSet, In
<1>8. ASSUME NEW h \in ToSet(moved) PROVE Dest(t)[h] \in Caps /\ In(Dest(t)[h], g)
  <2>1. PICK k : k = index(h) OBVIOUS
  <2>2. k \in DOMAIN moved BY <1>7, <2>1 DEF In
  <2>3. k \in Nat \ {0} BY <1>4, <2>2
  <2>4. Len(g) \in Nat \ {0} /\ DOMAIN g = 1..Len(g) /\ g \in Seq(Caps) BY <1>1, <1>5
  <2>5. \A x \in Nat, y \in Nat \ {0} : x % y \in 0..(y - 1) OBVIOUS
  <2>6. k - 1 \in Nat BY <2>3
  <2>7. PICK m : m = (k - 1) % Len(g) OBVIOUS
  <2>8. m \in 0..(Len(g) - 1) BY <2>4, <2>5, <2>6, <2>7
  <2>9. m + 1 \in DOMAIN g BY <2>4, <2>8
  <2>10. Dest(t)[h] = g[m + 1] BY <1>6, <2>1, <2>7
  <2> QED BY <2>4, <2>9, <2>10 DEF In
<1>9. \A h \in ToSet(moved) : h \in Threads BY <1>4 DEF ToSet
<1>10. DOMAIN Dest(t) = ToSet(moved) BY <1>6
<1> QED BY <1>3, <1>4, <1>5, <1>7, <1>8, <1>9, <1>10

\* schedulePushWork that shares its threads keeps to who owns what.
LEMMA ShareThreadsOwners ==
  ASSUME Types, TasksOK, NEW t \in Tasks, ShareThreads(t)
  PROVE  Types' /\ TasksOK'
<1>1. pc[t] = "push" /\ UNCHANGED <<running, returning, spare, inbox, blocked, live, sync, wakeup,
      cap, seen, then, thr, grabbed>>
  BY DEF ShareThreads
<1>2. TaskOK(t) BY DEF TasksOK
<1>3. {"yield", "push_release"} \subseteq Locations /\ "yield" \in Holding \ {"push_back"}
  BY DEF Locations, Holding
<1>4. CASE grabbed[t] = <<>>
  <2>1. /\ tcap' = [tcap EXCEPT ![t] = cap[t]] /\ looked' = [looked EXCEPT ![t] = 0]
        /\ pc' = Goto(t, "yield") /\ UNCHANGED <<runq, home>>
    BY <1>4 DEF ShareThreads
  <2>2. Single(t) BY <1>1, <1>4 DEF Single, Holding
  <2>3. \A u \in Tasks \ {t} : then'[u] = then[u] /\ looked'[u] = looked[u] BY <1>1, <2>1 DEF Types
  <2>4. TasksOK' BY <1>1, <1>3, <2>1, <2>2, <2>3, PlainStep
  <2>5. pc' \in [Tasks -> Locations] BY <1>3, <2>1, GotoOK
  <2>6. tcap' \in [Tasks -> Caps] /\ looked' \in [Tasks -> Nat] BY <2>1 DEF Types
  <2> QED BY <1>1, <2>1, <2>4, <2>5, <2>6 DEF Types
<1>5. CASE grabbed[t] # <<>>
  <2>1. PICK dest : dest = Dest(t) OBVIOUS
  <2>2. PICK sh : sh = Share(t) OBVIOUS
  <2>3. /\ runq' = [d \in Caps |-> IF d = cap[t] THEN sh.rest
                                   ELSE runq[d] \o Keep(sh.moved, {h \in DOMAIN dest :
                                     dest[h] = d})]
        /\ home' = [h \in Threads |-> IF h \in DOMAIN dest THEN dest[h] ELSE home[h]]
        /\ tcap' = TaskCaps(dest)
        /\ pc' = Goto(t, "push_release")
        /\ UNCHANGED looked
    BY <1>5, <2>1, <2>2 DEF ShareThreads
  <2>4. /\ sh.rest \in Seq(Threads) /\ sh.moved \in Seq(Threads)
        /\ DOMAIN dest \subseteq Threads /\ \A h \in DOMAIN dest : dest[h] \in Caps
    BY <1>5, <2>1, <2>2, DestOK
  <2>5. runq' \in [Caps -> Seq(Threads)]
    <3>1. ASSUME NEW d \in Caps
          PROVE  runq[d] \o Keep(sh.moved, {h \in DOMAIN dest : dest[h] = d}) \in Seq(Threads)
      <4>1. Keep(sh.moved, {h \in DOMAIN dest : dest[h] = d}) \in Seq(Threads) BY <2>4, KeepAll
      <4>2. runq[d] \in Seq(Threads) BY DEF Types
      <4> QED BY <4>1, <4>2
    <3> QED BY <2>3, <2>4, <3>1
  <2>6. home' \in [Threads -> Caps] /\ tcap' \in [Tasks -> Caps] BY <2>3, <2>4 DEF Types, TaskCaps
  <2>7. pc' \in [Tasks -> Locations] /\ pc'[t] = "push_release" /\ \A u \in Tasks \ {t} :
          pc'[u] = pc[u]
    BY <1>3, <2>3, GotoOK
  <2>8. \A u \in Tasks \ {t} : SameTask(u) BY <1>1, <2>3, <2>7 DEF SameTask
  <2>9. TaskOK(t)'
    <3>1. Holds(t) /\ Holds(t)' BY <1>1, <2>7 DEF Holds, Holding
    <3>2. \A c \in Caps : Reach(t, c) => Reach(t, c)' BY <1>1, <2>7 DEF Reach, Acquiring
    <3>3. OwnerOK(t)' BY <1>1, <1>2, <3>1, <3>2 DEF TaskOK, OwnerOK
    <3>4. PushOK(t)' BY <1>1, <1>2, <2>7 DEF TaskOK, PushOK
    <3> QED BY <3>3, <3>4 DEF TaskOK
  <2>10. TasksOK' BY <2>8, <2>9, SameTaskStep DEF TasksOK
  <2> QED BY <1>1, <2>3, <2>5, <2>6, <2>7, <2>10 DEF Types
<1> QED BY <1>4, <1>5

\* schedulePushWork that releases what it has shared with keeps to who owns what.
LEMMA PushReleaseOwners ==
  ASSUME Types, TasksOK, NEW t \in Tasks, PushRelease(t)
  PROVE  Types' /\ TasksOK'
<1>1. pc[t] = "push_release" /\ UNCHANGED <<threads, sync, seen, then, thr>> BY DEF PushRelease
<1>2. TaskOK(t) /\ pc \in [Tasks -> Locations] /\ grabbed[t] \in Seq(Caps) /\ cap[t] \in Caps
  BY DEF TasksOK, Types
<1>4. CASE grabbed[t] = <<>>
  <2>0. "yield" \in Locations /\ "yield" \in Holding \ {"push_back"} BY DEF Locations, Holding
  <2>1. /\ tcap' = [tcap EXCEPT ![t] = cap[t]] /\ looked' = [looked EXCEPT ![t] = 0]
        /\ pc' = Goto(t, "yield") /\ UNCHANGED <<running, queues, wakeup, cap, grabbed>>
    BY <1>4 DEF PushRelease
  <2>2. Single(t) BY <1>1, <1>4 DEF Single, Holding
  <2>3. \A u \in Tasks \ {t} : then'[u] = then[u] /\ looked'[u] = looked[u] BY <1>1, <2>1 DEF Types
  <2>4. TasksOK' BY <2>0, <2>1, <2>2, <2>3, PlainStep
  <2>5. pc' \in [Tasks -> Locations] BY <2>0, <2>1, GotoOK
  <2>6. tcap' \in [Tasks -> Caps] /\ looked' \in [Tasks -> Nat] BY <2>1 DEF Types
  <2> QED BY <1>1, <2>1, <2>4, <2>5, <2>6 DEF Types, queues, threads
<1>5. CASE grabbed[t] # <<>>
  <2>1. PICK c : c = Head(grabbed[t]) OBVIOUS
  <2>2. PICK g : g = grabbed[t] OBVIOUS
  <2>3. PICK g2 : g2 = Tail(g) OBVIOUS
  <2>4. PICK tcaps : tcaps = [tcap EXCEPT ![t] = c] OBVIOUS
  <2>5. /\ grabbed' = [grabbed EXCEPT ![t] = g2] /\ looked' = looked /\ ReleasePlain(c, pc, tcaps)
    BY <1>5, <2>1, <2>2, <2>3, <2>4 DEF PushRelease
  <2>6. /\ c \in Caps /\ g2 \in Seq(Caps) /\ g \in Seq(Caps)
        /\ \A y : In(y, g) <=> y = c \/ In(y, g2)
        /\ OnceIn(g) => OnceIn(g2) /\ ~In(c, g2)
    BY <1>2, <1>5, <2>1, <2>2, <2>3, InTail
  <2>7. OnceIn(g) /\ \A e : In(e, g) => running[e] = t /\ e # cap[t] /\ e \in Caps
    BY <1>2, <2>2 DEF TaskOK, PushOK, In, OnceIn
  <2>8. /\ tcaps \in [Tasks -> Caps] /\ looked' \in [Tasks -> Nat]
             /\ grabbed' \in [Tasks -> Seq(Caps)]
        /\ grabbed'[t] = g2 /\ \A u \in Tasks \ {t} : grabbed'[u] = grabbed[u]
    BY <2>4, <2>5, <2>6 DEF Types
  <2>9. Types' /\ Released(c, pc, tcaps) BY <1>1, <1>2, <2>5, <2>6, <2>8, ReleasePlainTypes
  <2>10. ASSUME pc'[t] = "push_release", cap'[t] = cap[t], \A d \in Caps :
                  running'[d] = t <=> running[d] = t /\ d # c
         PROVE  TaskOK(t)'
    <3>1. ASSUME NEW e \in Caps, running'[e] = t PROVE Reach(t, e)'
      <4>1. Reach(t, e) /\ e # c BY <1>2, <2>10, <3>1 DEF TaskOK, OwnerOK
      <4>2. cap[t] = e \/ In(e, g) BY <1>1, <2>2, <4>1 DEF Reach, Acquiring, In
      <4>3. cap'[t] = e \/ In(e, g2) BY <2>6, <2>10, <4>1, <4>2
      <4> QED BY <2>8, <4>3 DEF Reach, In
    <3>2. Holds(t)' /\ Holds(t) BY <1>1, <2>10 DEF Holds, Holding
    <3>3. running'[cap'[t]] = t BY <1>2, <2>6, <2>7, <2>10, <3>2 DEF TaskOK, OwnerOK
    <3>4. OwnerOK(t)' BY <3>1, <3>2, <3>3 DEF OwnerOK
    <3>5. \A e : In(e, g2) => running'[e] = t /\ e # cap'[t] BY <2>6, <2>7, <2>10
    <3>6. PushOK(t)' BY <2>6, <2>7, <2>8, <2>10, <3>5 DEF PushOK, In, OnceIn
    <3> QED BY <3>4, <3>6 DEF TaskOK
  <2>11. TasksOK'
    <3>1. PICK pcs : pcs = pc OBVIOUS
    <3>2. Released(c, pcs, tcaps) /\ pcs = Goto(t, "push_release") /\ "push_release" \in Locations
      BY <1>1, <1>2, <2>9, <3>1 DEF Goto, Locations, Holding
    <3>3. running[c] \in {t, NoTask} BY <2>6, <2>7
    <3>4. then' = then /\ \A u \in Tasks \ {t} : looked'[u] = looked[u] /\ grabbed'[u] = grabbed[u]
      BY <1>1, <2>5, <2>8
    <3>5. pc'[t] = "push_release" /\ cap'[t] = cap[t] /\ (\A d \in Caps :
            running'[d] = t <=> running[d] = t /\ d # c) => TaskOK(t)'
      BY <2>10
    <3> QED BY <2>6, <3>2, <3>3, <3>4, <3>5, ReleasedTasks
  <2> QED BY <2>9, <2>11
<1> QED BY <1>4, <1>5

\* There is a lowest-numbered capability that is not held yet.
LEMMA MinOK ==
  ASSUME NEW S, S \subseteq Caps, S # {}
  PROVE  Min(S) \in S
<1>1. S \subseteq Nat BY CapabilityAssumption DEF Caps
<1>2. \E x \in S : \A y \in S : x <= y BY <1>1, LeastOfNaturals
<1> QED BY <1>2 DEF Min

\* acquireAllCapabilities, first step keeps to who owns what.
LEMMA AcquireOwners ==
  ASSUME Types, TasksOK, NEW t \in Tasks, Acquire(t)
  PROVE  Types' /\ TasksOK'
<1>1. pc[t] = "acquire" /\ Missing(t) # {} /\ WaitForCapability(t, Min(Missing(t)), "acquire")
        /\ UNCHANGED <<threads, thr>>
  BY DEF Acquire
<1>2. PICK c : c = Min(Missing(t)) OBVIOUS
<1>3. c \in Caps /\ running[c] # t
  <2>1. Missing(t) \subseteq Caps BY DEF Missing
  <2>2. c \in Missing(t) BY <1>1, <1>2, <2>1, MinOK
  <2> QED BY <2>2 DEF Missing
<1>4. WaitForCapability(t, c, "acquire") BY <1>1, <1>2
<1> QED BY <1>1, <1>3, <1>4, WaitOwners

\* A collection keeps to who owns what.
LEMMA CollectOwners ==
  ASSUME Types, TasksOK, NEW t \in Tasks, Collect(t)
  PROVE  Types' /\ TasksOK'
<1>1. /\ pc[t] = "acquire" /\ tcap' = [tcap EXCEPT ![t] = cap[t]] /\ sync' = NoTask
           /\ pc' = Goto(t, "release")
      /\ UNCHANGED <<running, queues, threads, wakeup, cap, seen, then, thr, push>>
  BY DEF Collect
<1>2. "release" \in Locations BY DEF Locations, Holding
<1>3. pc' \in [Tasks -> Locations] /\ pc'[t] = "release" /\ \A u \in Tasks \ {t} : pc'[u] = pc[u]
  BY <1>1, <1>2, GotoOK
<1>4. \A u \in Tasks \ {t} : SameTask(u) BY <1>1, <1>3 DEF SameTask, push
<1>5. TaskOK(t)'
  <2>1. TaskOK(t) BY DEF TasksOK
  <2>2. Holds(t) /\ Holds(t)' /\ \A c \in Caps : Reach(t, c)'
    BY <1>1, <1>3 DEF Holds, Holding, Reach
  <2>3. OwnerOK(t)' BY <1>1, <2>1, <2>2 DEF TaskOK, OwnerOK
  <2>4. grabbed[t] = <<>> /\ grabbed' = grabbed BY <1>1, <2>1 DEF TaskOK, PushOK, push
  <2>5. DOMAIN grabbed'[t] = {} BY <2>4
  <2>6. PushOK(t)' BY <1>3, <2>4, <2>5 DEF PushOK
  <2> QED BY <2>3, <2>6 DEF TaskOK
<1>6. TasksOK' BY <1>4, <1>5, SameTaskStep DEF TasksOK
<1>7. tcap' \in [Tasks -> Caps] BY <1>1 DEF Types
<1> QED BY <1>1, <1>3, <1>6, <1>7 DEF Types, queues, threads, push

\* releaseAllCapabilities keeps to who owns what.
LEMMA ReleaseAllOwners ==
  ASSUME Types, TasksOK, NEW t \in Tasks, ReleaseAll(t)
  PROVE  Types' /\ TasksOK'
<1>1. PICK others : others = {c \in Caps : running[c] = t} \ {cap[t]} OBVIOUS
<1>2. pc[t] = "release" /\ UNCHANGED <<threads, sync, seen, then, thr, push>> BY DEF ReleaseAll
<1>3. TaskOK(t) /\ pc \in [Tasks -> Locations] /\ cap[t] \in Caps BY DEF TasksOK, Types
<1>4. running[cap[t]] = t /\ grabbed[t] = <<>> /\ grabbed' = grabbed /\ looked' = looked
  BY <1>2, <1>3 DEF TaskOK, OwnerOK, PushOK, Holds, Holding, push
<1>5. CASE others = {}
  <2>1. /\ tcap' = [tcap EXCEPT ![t] = cap[t]] /\ pc' = Goto(t, AfterGC(t))
             /\ UNCHANGED <<running, queues, wakeup, cap>>
    BY <1>1, <1>5 DEF ReleaseAll
  <2>2. AfterGC(t) \in Holding \ {"push_back"} /\ AfterGC(t) \in Locations
    BY DEF AfterGC, Holding, Locations
  <2>3. pc' \in [Tasks -> Locations] /\ pc'[t] = AfterGC(t) /\ \A u \in Tasks \ {t} : pc'[u] = pc[u]
    BY <2>1, <2>2, GotoOK
  <2>4. \A u \in Tasks \ {t} : SameTask(u) BY <1>2, <1>4, <2>1, <2>3 DEF SameTask
  <2>5. \A c \in Caps : running'[c] = t <=> c = cap'[t] BY <1>1, <1>4, <1>5, <2>1
  <2>6. TaskOK(t)' BY <1>3, <1>4, <2>1, <2>2, <2>3, <2>5, SingleOK
  <2>7. TasksOK' BY <2>4, <2>6, SameTaskStep DEF TasksOK
  <2>8. tcap' \in [Tasks -> Caps] BY <2>1 DEF Types
  <2> QED BY <1>2, <2>1, <2>3, <2>7, <2>8 DEF Types, queues, threads, push
<1>6. CASE others # {}
  <2>1. PICK c : c = Min(others) OBVIOUS
  <2>2. PICK tcaps : tcaps = [tcap EXCEPT ![t] = c] OBVIOUS
  <2>3. ReleasePlain(c, pc, tcaps) BY <1>1, <1>6, <2>1, <2>2 DEF ReleaseAll
  <2>4. c \in others BY <1>1, <1>6, <2>1, MinOK
  <2>5. c \in Caps /\ running[c] = t /\ c # cap[t] BY <1>1, <2>4
  <2>6. tcaps \in [Tasks -> Caps] /\ looked' \in [Tasks -> Nat] /\ grabbed' \in [Tasks -> Seq(Caps)]
    BY <1>4, <2>2, <2>5 DEF Types
  <2>7. Types' /\ Released(c, pc, tcaps) BY <1>2, <1>3, <2>3, <2>5, <2>6, ReleasePlainTypes
  <2>8. ASSUME pc'[t] = "release", cap'[t] = cap[t], \A d \in Caps :
                 running'[d] = t <=> running[d] = t /\ d # c
        PROVE  TaskOK(t)'
    <3>1. Holds(t)' /\ \A d \in Caps : Reach(t, d)' BY <2>8 DEF Holds, Holding, Reach
    <3>2. running'[cap'[t]] = t BY <1>3, <1>4, <2>5, <2>8
    <3>3. OwnerOK(t)' BY <3>1, <3>2 DEF OwnerOK
    <3>4. grabbed'[t] = <<>> /\ DOMAIN grabbed'[t] = {} BY <1>4
    <3>5. PushOK(t)' BY <2>8, <3>4 DEF PushOK
    <3> QED BY <3>3, <3>5 DEF TaskOK
  <2>9. TasksOK'
    <3>1. PICK pcs : pcs = pc OBVIOUS
    <3>2. Released(c, pcs, tcaps) /\ pcs = Goto(t, "release") /\ "release" \in Locations
      BY <1>2, <1>3, <2>7, <3>1 DEF Goto, Locations, Holding
    <3>3. running[c] \in {t, NoTask} BY <2>5
    <3>4. then' = then /\ \A u \in Tasks \ {t} : looked'[u] = looked[u] /\ grabbed'[u] = grabbed[u]
      BY <1>2, <1>4
    <3>5. pc'[t] = "release" /\ cap'[t] = cap[t] /\ (\A d \in Caps :
            running'[d] = t <=> running[d] = t /\ d # c) => TaskOK(t)'
      BY <2>8
    <3> QED BY <2>5, <3>2, <3>3, <3>4, <3>5, ReleasedTasks
  <2> QED BY <2>7, <2>9
<1> QED BY <1>5, <1>6

\* A step of a foreign call or of an API call keeps to who owns what.
LEMMA CallsOwners ==
  ASSUME Types, TasksOK, NEW t \in Tasks, NEW c \in Caps, ResumeThread(t) \/ RtsLock(t, c)
         \/ PerformGC(t, c)
  PROVE  Types' /\ TasksOK'
<1>1. PICK p \in {"run", "enter", "sync"}, d \in Caps :
        pc[t] \in {"ccall", "out"} /\ WaitForCapability(t, d, p) /\ UNCHANGED <<threads, thr>>
  BY DEF ResumeThread, RtsLock, PerformGC, Types
<1>2. ~Holds(t) BY <1>1 DEF Holds, Holding, Acquiring
<1>3. running[d] # t BY <1>2, EmptyOwns DEF TasksOK
<1> QED BY <1>1, <1>2, <1>3, WaitOwners

\* The places of a task that has its own capability
AtHomeAt == {"loop", "yield", "yield_lock", "yielded", "pick", "run", "enter", "sync", "sync_wait"}

\* t waits to go on at p.
WaitsTo(t, p) == pc[t] \in {"ret_sleep", "ret_woken"} /\ then[t] = p

\* t has a thread: it runs one, or waits to after a foreign call.
HasThreadAt(t) == pc[t] \in {"run", "ccall"} \/ WaitsTo(t, "run")

\* Which task is where: workers never leave, callers do; task->cap is the capability that a
\* task has or queues for.
KindOK(t) ==
    /\ t \in Workers => pc[t] \notin {"out", "enter", "exit"}
    /\ t \in Workers /\ pc[t] \in {"ret_sleep", "ret_woken"} => then[t] \in {"run", "acquire"}
    /\ t \in Callers => pc[t] # "dead"
    /\ pc[t] \in {"sleep", "woken", "yield_lock"} => then[t] \in {"yielded", "sync_wait"}
    /\ pc[t] \in AtHomeAt \/ WaitsTo(t, "run") => tcap[t] = cap[t]
    /\ pc[t] = "ret_woken" \/ (pc[t] = "woken" /\ t \in Workers) => seen[t] = tcap[t]
    /\ thr[t] # NoThread <=> HasThreadAt(t)

\* A caller with a bound thread follows that thread.
InsideOK(t) ==
    /\ pc[t] \notin {"out", "enter", "exit"}
    /\ pc[t] \in {"ret_sleep", "ret_woken"} => then[t] \in {"run", "acquire"}
    /\ Holds(t) => home[t] = cap[t]
    /\ pc[t] \in Sleeping /\ ~Acquiring(t) => tcap[t] = home[t]

\* A caller without a thread comes and goes, or collects.
OutsideOK(t) ==
    /\ pc[t] \in {"out", "enter", "exit", "sync", "sync_wait", "yield_lock", "acquire", "release",
         "ret_sleep", "ret_woken"}
    /\ pc[t] \in {"yield_lock", "ret_sleep", "ret_woken"} => then[t] \in {"enter", "sync",
         "sync_wait", "acquire"}

\* A caller is one or the other.
CallerOK(t) == t \in Callers => IF t \in live THEN InsideOK(t) ELSE OutsideOK(t)

\* Each thread that can run is in one place, at home: on the run queue of its capability, or
\* run by a task of it.  Wakeups go to the capability of the thread.
PlacesOK ==
    /\ blocked \subseteq live
    /\ \A c \in Caps : OnceIn(runq[c]) /\ OnceIn(inbox[c])
    /\ \A c \in Caps : \A h : In(h, runq[c]) => h \in live \ blocked /\ home[h] = c
    /\ \A c \in Caps : \A h : In(h, inbox[c]) => h \in blocked /\ home[h] = c
    /\ \A t \in Tasks : thr[t] # NoThread =>
          /\ thr[t] \in live \ blocked /\ home[thr[t]] = cap[t] /\ ~In(thr[t], runq[cap[t]])
          /\ thr[t] = t \/ (thr[t] \in Unbound /\ t \in Workers)
    /\ \A t, u \in Tasks : thr[t] # NoThread /\ thr[t] = thr[u] => t = u
    /\ \A h \in live \ blocked : In(h, runq[home[h]]) \/ \E t \in Tasks : thr[t] = h

\* The threads and their places are left alone.
LEMMA PlacesSame ==
  ASSUME PlacesOK, UNCHANGED <<runq, inbox, home, blocked, live, thr>>,
         \A u \in Tasks : thr[u] # NoThread => cap'[u] = cap[u]
  PROVE  PlacesOK'
BY DEF PlacesOK

\* u and its thread are left alone.
SamePlaces(u) ==
  /\ pc'[u] = pc[u] /\ then'[u] = then[u] /\ tcap'[u] = tcap[u] /\ cap'[u] = cap[u]
       /\ seen'[u] = seen[u]
  /\ thr'[u] = thr[u]
  /\ u \in Callers => (u \in live' <=> u \in live) /\ home'[u] = home[u]

\* What is left alone stays right.
LEMMA SamePlacesOK ==
  ASSUME NEW u, KindOK(u), CallerOK(u), SamePlaces(u)
  PROVE  KindOK(u)' /\ CallerOK(u)'
<1>1. KindOK(u)' BY DEF KindOK, SamePlaces, HasThreadAt, WaitsTo
<1>2. Holds(u) <=> Holds(u)' BY DEF SamePlaces, Holds, Acquiring
<1>3. Acquiring(u) <=> Acquiring(u)' BY DEF SamePlaces, Acquiring
<1>4. InsideOK(u) /\ u \in Callers => InsideOK(u)' BY <1>2, <1>3 DEF SamePlaces, InsideOK
<1>5. OutsideOK(u) => OutsideOK(u)' BY DEF SamePlaces, OutsideOK
<1>6. CallerOK(u)' BY <1>4, <1>5 DEF CallerOK, SamePlaces
<1> QED BY <1>1, <1>6

\* Where tasks are
KindsOK == \A t \in Tasks : KindOK(t) /\ CallerOK(t)

\* releaseCapability_ may start a worker.
LEMMA ReleasedKinds ==
  ASSUME Types, KindsOK, NEW t \in Tasks, NEW c \in Caps, NEW p \in Locations, NEW pcs,
         pcs = Goto(t, p),
         NEW tcaps \in [Tasks -> Caps], Released(c, pcs, tcaps), \A u \in Tasks \ {t} :
           tcaps[u] = tcap[u],
         UNCHANGED <<seen, then, thr, home, live>>,
         p = "dead" => pc[t] = "yield_lock",
         pc'[t] = p /\ cap'[t] = cap[t] /\ tcap'[t] = tcaps[t] => KindOK(t)' /\ CallerOK(t)'
  PROVE  KindsOK' /\ \A u \in Tasks : thr[u] # NoThread => cap'[u] = cap[u]
<1> USE Distinct
<1>0. /\ cap \in [Tasks -> Caps] /\ pcs \in [Tasks -> Locations] /\ pcs[t] = p
      /\ \A u \in Tasks \ {t} : pcs[u] = pc[u]
  <2>1. cap \in [Tasks -> Caps] BY DEF Types
  <2>2. pcs \in [Tasks -> Locations] /\ pcs[t] = p /\ \A u \in Tasks \ {t} : pcs[u] = pc[u]
    <3>1. /\ Goto(t, p) \in [Tasks -> Locations] /\ Goto(t, p)[t] = p
          /\ \A u \in Tasks \ {t} : Goto(t, p)[u] = pc[u]
      BY GotoOK
    <3> QED BY <3>1
  <2> QED BY <2>1, <2>2
<1>1. CASE running' = [running EXCEPT ![c] = NoTask] /\ pc' = pcs /\ tcap' = tcaps /\ cap' = cap
  <2>1. KindOK(t)' /\ CallerOK(t)' BY <1>0, <1>1
  <2>2. \A u \in Tasks \ {t} : SamePlaces(u) BY <1>0, <1>1 DEF SamePlaces
  <2> QED BY <1>1, <2>1, <2>2, SamePlacesOK DEF KindsOK
<1>2. ASSUME NEW w \in Workers, pcs[w] = "dead",
             pc' = [pcs EXCEPT ![w] = "loop"], cap' = [cap EXCEPT ![w] = c],
             tcap' = [tcaps EXCEPT ![w] = c]
      PROVE  KindsOK' /\ \A u \in Tasks : thr[u] # NoThread => cap'[u] = cap[u]
  <2>1. /\ pc'[w] = "loop" /\ \A u \in Tasks \ {w} : pc'[u] = pcs[u]
        /\ cap'[w] = c /\ \A u \in Tasks \ {w} : cap'[u] = cap[u]
        /\ tcap'[w] = c /\ \A u \in Tasks \ {w} : tcap'[u] = tcaps[u]
    BY <1>0, <1>2
  <2>2. w \in Tasks /\ pc[w] \in {"dead", "yield_lock"} BY <1>0, <1>2
  <2>3. KindOK(w) BY <2>2 DEF KindsOK
  <2>4. thr[w] = NoThread BY <2>2, <2>3 DEF KindOK, HasThreadAt, WaitsTo
  <2>5. KindOK(w)' /\ CallerOK(w)'
    <3>1. KindOK(w)' BY <2>1, <2>4 DEF KindOK, HasThreadAt, WaitsTo
    <3>2. CallerOK(w)' BY <1>2 DEF CallerOK
    <3> QED BY <3>1, <3>2
  <2>6. ASSUME NEW u \in Tasks, u # w PROVE KindOK(u)' /\ CallerOK(u)'
    <3>1. CASE u = t BY <1>0, <2>1, <2>6, <3>1
    <3>2. CASE u # t
      <4>1. SamePlaces(u) BY <1>0, <2>1, <2>6, <3>2 DEF SamePlaces
      <4> QED BY <4>1, SamePlacesOK DEF KindsOK
    <3> QED BY <3>1, <3>2
  <2>7. KindsOK' BY <2>5, <2>6 DEF KindsOK
  <2>8. \A u \in Tasks : thr[u] # NoThread => cap'[u] = cap[u] BY <2>1, <2>4
  <2> QED BY <2>7, <2>8
<1> QED BY <1>1, <1>2 DEF Released

\* Where a task goes afterwards is a place.
LEMMA Everywhere ==
  {"sleep", "woken", "ret_sleep", "ret_woken", "loop", "push", "push_back", "push_release",
  "yield", "yield_lock", "yielded",
   "pick", "run", "enter", "exit", "sync", "sync_wait", "acquire", "release", "ccall", "out",
   "dead"} = Locations
BY DEF Locations, Holding, Sleeping

\* t moves, and the others stay.
LEMMA OneMoves ==
  ASSUME KindsOK, NEW t \in Tasks, \A u \in Tasks \ {t} : SamePlaces(u), KindOK(t)', CallerOK(t)'
  PROVE  KindsOK'
BY SamePlacesOK DEF KindsOK

\* t goes somewhere, and only that.
LEMMA GoesPlaces ==
  ASSUME Types, KindsOK, NEW t \in Tasks, NEW p \in Locations, pc' = Goto(t, p),
         UNCHANGED <<cap, thr, home, live>>,
         \A u \in Tasks \ {t} : then'[u] = then[u] /\ tcap'[u] = tcap[u] /\ seen'[u] = seen[u],
         pc'[t] = p => KindOK(t)' /\ CallerOK(t)'
  PROVE  KindsOK'
<1>1. pc'[t] = p /\ \A u \in Tasks \ {t} : pc'[u] = pc[u] BY GotoOK
<1>2. \A u \in Tasks \ {t} : SamePlaces(u) BY <1>1 DEF SamePlaces
<1> QED BY <1>1, <1>2, OneMoves

\* A task that wakes up keeps each thread in its place.
LEMMA AwakePlaces ==
  ASSUME Types, KindsOK, PlacesOK, NEW t \in Tasks, pc[t] \in {"sleep", "ret_sleep"}, Awake(t)
  PROVE  KindsOK' /\ PlacesOK'
<1>1. PICK p \in {"woken", "ret_woken"} : pc' = Goto(t, p) /\ (p = "woken" <=> pc[t] = "sleep")
  BY DEF Awake
<1>2. /\ seen' = [seen EXCEPT ![t] = tcap[t]]
      /\ UNCHANGED <<running, queues, threads, sync, tcap, cap, then, thr, push>>
  BY DEF Awake
<1>3. seen'[t] = tcap[t] /\ \A u \in Tasks \ {t} : seen'[u] = seen[u] BY <1>2 DEF Types
<1>4. KindOK(t) /\ CallerOK(t) BY DEF KindsOK
<1>5. ASSUME pc'[t] = p PROVE KindOK(t)' /\ CallerOK(t)'
  <2>1. KindOK(t)' BY <1>1, <1>2, <1>3, <1>4, <1>5 DEF KindOK, HasThreadAt, WaitsTo, AtHomeAt
  <2>2. pc[t] \in Sleeping /\ (Acquiring(t)' <=> Acquiring(t)) /\ (Holds(t)' <=> Holds(t))
    BY <1>1, <1>2, <1>5 DEF Sleeping, Holds, Acquiring, Holding
  <2>3. t \in Callers /\ t \in live => InsideOK(t)'
    BY <1>1, <1>2, <1>4, <1>5, <2>2 DEF CallerOK, InsideOK, threads
  <2>4. t \in Callers /\ t \notin live => OutsideOK(t)'
    BY <1>1, <1>2, <1>4, <1>5 DEF CallerOK, OutsideOK, threads
  <2>5. live' = live BY <1>2 DEF threads
  <2> QED BY <2>1, <2>3, <2>4, <2>5 DEF CallerOK
<1>6. p \in Locations BY Everywhere
<1>7. KindsOK' BY <1>1, <1>2, <1>3, <1>5, <1>6, GoesPlaces DEF threads
<1>8. PlacesOK' BY <1>2, PlacesSame DEF queues, threads
<1> QED BY <1>7, <1>8

\* waitForCapability keeps each thread in its place.
LEMMA TakeReturningPlaces ==
  ASSUME Types, TasksOK, KindsOK, PlacesOK, NEW t \in Tasks, TakeReturning(t)
  PROVE  KindsOK' /\ PlacesOK'
<1>1. PICK c : c = seen[t] OBVIOUS
<1>2. pc[t] = "ret_woken" /\ seen' = [seen EXCEPT ![t] = 0] /\ UNCHANGED <<spare, runq, inbox,
      threads, sync, tcap, thr, push>>
  BY DEF TakeReturning
<1>3. KindOK(t) /\ CallerOK(t) BY DEF KindsOK
<1>4. c = tcap[t] /\ tcap[t] \in Caps BY <1>1, <1>2, <1>3 DEF KindOK, Types
<1>5. \A u \in Tasks \ {t} : seen'[u] = seen[u] BY <1>2 DEF Types
<1>6. home' = home /\ live' = live /\ blocked' = blocked /\ tcap' = tcap /\ thr' = thr
  BY <1>2 DEF threads
<1>7. CASE FirstInLine(t, c)
  <2>1. /\ cap' = [cap EXCEPT ![t] = IF then[t] = "acquire" THEN @ ELSE c]
        /\ pc' = Goto(t, then[t])
        /\ then' = [then EXCEPT ![t] = "loop"]
    BY <1>1, <1>7 DEF TakeReturning
  <2>2. PICK p : p = then[t] OBVIOUS
  <2>3. p \in {"loop", "yielded", "run", "enter", "sync", "sync_wait", "acquire"} BY <2>2 DEF Types
  <2>4. p \in Locations BY <2>3, Everywhere
  <2>5. pc'[t] = p /\ \A u \in Tasks \ {t} : pc'[u] = pc[u] BY <2>1, <2>2, <2>4, GotoOK
  <2>6. /\ cap'[t] = (IF p = "acquire" THEN cap[t] ELSE c) /\ \A u \in Tasks \ {t} :
             cap'[u] = cap[u]
        /\ \A u \in Tasks \ {t} : then'[u] = then[u]
    BY <2>1, <2>2 DEF Types
  <2>7. \A u \in Tasks \ {t} : SamePlaces(u) BY <1>5, <1>6, <2>5, <2>6 DEF SamePlaces
  <2>8. KindOK(t)'
    BY <1>2, <1>3, <1>4, <1>6, <2>2, <2>3, <2>5, <2>6 DEF KindOK, HasThreadAt, WaitsTo, AtHomeAt
  <2>9. ASSUME t \in Callers, t \in live PROVE InsideOK(t)'
    <3>1. InsideOK(t) BY <1>3, <2>9 DEF CallerOK
    <3>2. p \in {"run", "acquire"} BY <1>2, <2>2, <3>1 DEF InsideOK
    <3>3. p = "acquire" <=> Acquiring(t) BY <1>2, <2>2 DEF Acquiring
    <3>4. home[t] = cap'[t]
      BY <1>2, <1>4, <2>6, <3>1, <3>2, <3>3 DEF InsideOK, Holds, Sleeping
    <3> QED BY <1>6, <2>5, <3>2, <3>4 DEF InsideOK, Sleeping
  <2>10. ASSUME t \in Callers, t \notin live PROVE OutsideOK(t)'
    <3>1. OutsideOK(t) BY <1>3, <2>10 DEF CallerOK
    <3>2. p \in {"enter", "sync", "sync_wait", "acquire"} BY <1>2, <2>2, <3>1 DEF OutsideOK
    <3> QED BY <2>5, <3>2 DEF OutsideOK
  <2>11. KindsOK' BY <1>6, <2>7, <2>8, <2>9, <2>10, OneMoves DEF CallerOK
  <2>12. \A u \in Tasks : thr[u] # NoThread => cap'[u] = cap[u]
    <3>1. ASSUME thr[t] # NoThread PROVE cap'[t] = cap[t]
      <4>1. p = "run" /\ tcap[t] = cap[t] BY <1>2, <1>3, <2>2, <3>1 DEF KindOK, HasThreadAt, WaitsTo
      <4> QED BY <1>4, <2>6, <4>1
    <3> QED BY <2>6, <3>1
  <2>13. PlacesOK' BY <1>2, <1>6, <2>12, PlacesSame
  <2> QED BY <2>11, <2>13
<1>8. CASE ~FirstInLine(t, c)
  <2>1. pc' = Goto(t, "ret_sleep") /\ UNCHANGED <<running, returning, cap, then>>
    BY <1>1, <1>8 DEF TakeReturning
  <2>2. ASSUME pc'[t] = "ret_sleep" PROVE KindOK(t)' /\ CallerOK(t)'
    <3>1. KindOK(t)' BY <1>2, <1>3, <1>6, <2>1, <2>2 DEF KindOK, HasThreadAt, WaitsTo, AtHomeAt
    <3>2. "ret_sleep" \in Sleeping /\ pc[t] \in Sleeping /\ (Acquiring(t)' <=> Acquiring(t))
            /\ (Holds(t)' <=> Holds(t))
      BY <1>2, <2>1, <2>2 DEF Sleeping, Holds, Acquiring, Holding
    <3>3. t \in Callers /\ t \in live => InsideOK(t)'
      BY <1>2, <1>3, <1>6, <2>1, <2>2, <3>2 DEF CallerOK, InsideOK
    <3>4. t \in Callers /\ t \notin live => OutsideOK(t)'
      BY <1>2, <1>3, <1>6, <2>1, <2>2 DEF CallerOK, OutsideOK
    <3> QED BY <1>6, <3>1, <3>3, <3>4 DEF CallerOK
  <2>3. "ret_sleep" \in Locations BY Everywhere
  <2>4. KindsOK' BY <1>5, <1>6, <2>1, <2>2, <2>3, GoesPlaces
  <2>5. PlacesOK' BY <1>2, <1>6, <2>1, PlacesSame
  <2> QED BY <2>4, <2>5
<1> QED BY <1>7, <1>8

\* waitForWorkerCapability keeps each thread in its place.
LEMMA TakeWorkerPlaces ==
  ASSUME Types, TasksOK, KindsOK, PlacesOK, NEW t \in Tasks, TakeWorker(t)
  PROVE  KindsOK' /\ PlacesOK'
<1>1. PICK c : c = seen[t] OBVIOUS
<1>2. pc[t] = "woken" /\ seen' = [seen EXCEPT ![t] = 0] /\ UNCHANGED <<returning, runq, inbox,
      threads, sync, tcap, thr, push>>
  BY DEF TakeWorker
<1>3. KindOK(t) /\ CallerOK(t) BY DEF KindsOK
<1>5. \A u \in Tasks \ {t} : seen'[u] = seen[u] BY <1>2 DEF Types
<1>6. home' = home /\ live' = live /\ blocked' = blocked /\ tcap' = tcap /\ thr' = thr
  BY <1>2 DEF threads
<1>7. thr[t] = NoThread BY <1>2, <1>3 DEF KindOK, HasThreadAt, WaitsTo
<1>8. CASE FreeFor(t, c) /\ (IsBound(t) \/ Head(spare[c]) = t)
  <2>1. /\ cap' = [cap EXCEPT ![t] = c] /\ tcap[t] = c
        /\ pc' = Goto(t, then[t])
        /\ then' = [then EXCEPT ![t] = "loop"]
    BY <1>1, <1>8 DEF TakeWorker, FreeFor
  <2>2. PICK p : p = then[t] OBVIOUS
  <2>3. p \in {"yielded", "sync_wait"} BY <1>2, <1>3, <2>2 DEF KindOK
  <2>4. p \in Locations BY <2>3, Everywhere
  <2>5. pc'[t] = p /\ \A u \in Tasks \ {t} : pc'[u] = pc[u] BY <2>1, <2>2, <2>4, GotoOK
  <2>6. /\ cap'[t] = c /\ \A u \in Tasks \ {t} : cap'[u] = cap[u]
        /\ \A u \in Tasks \ {t} : then'[u] = then[u]
    BY <2>1, <2>2 DEF Types
  <2>7. \A u \in Tasks \ {t} : SamePlaces(u) BY <1>5, <1>6, <2>5, <2>6 DEF SamePlaces
  <2>8. KindOK(t)' BY <1>6, <1>7, <2>1, <2>3, <2>5, <2>6 DEF KindOK, HasThreadAt, WaitsTo, AtHomeAt
  <2>9. ASSUME t \in Callers PROVE t \in live /\ InsideOK(t)'
    <3>1. t \in live /\ InsideOK(t) BY <1>2, <1>3, <2>9 DEF CallerOK, OutsideOK
    <3>2. home[t] = c BY <1>2, <2>1, <3>1 DEF InsideOK, Sleeping, Acquiring
    <3> QED BY <1>6, <2>3, <2>5, <2>6, <3>1, <3>2 DEF InsideOK, Sleeping
  <2>11. KindsOK' BY <1>6, <2>7, <2>8, <2>9, OneMoves DEF CallerOK
  <2>12. \A u \in Tasks : thr[u] # NoThread => cap'[u] = cap[u] BY <1>7, <2>6
  <2>13. PlacesOK' BY <1>2, <1>6, <2>12, PlacesSame
  <2> QED BY <2>11, <2>13
<1>9. CASE ~(FreeFor(t, c) /\ (IsBound(t) \/ Head(spare[c]) = t))
  <2>1. pc' = Goto(t, "sleep") /\ UNCHANGED <<running, spare, cap, then>>
    BY <1>1, <1>9 DEF TakeWorker
  <2>2. ASSUME pc'[t] = "sleep" PROVE KindOK(t)' /\ CallerOK(t)'
    <3>1. KindOK(t)' BY <1>2, <1>3, <1>6, <2>1, <2>2 DEF KindOK, HasThreadAt, WaitsTo, AtHomeAt
    <3>2. pc[t] \in Sleeping /\ ~Acquiring(t)' /\ ~Acquiring(t) /\ ~Holds(t)'
      BY <1>2, <2>1, <2>2 DEF Sleeping, Holds, Acquiring, Holding
    <3>3. t \in Callers => t \in live /\ InsideOK(t)'
      BY <1>2, <1>3, <1>6, <2>1, <2>2, <3>2 DEF CallerOK, InsideOK, OutsideOK
    <3> QED BY <1>6, <3>1, <3>3 DEF CallerOK
  <2>3. "sleep" \in Locations BY Everywhere
  <2>4. KindsOK' BY <1>5, <1>6, <2>1, <2>2, <2>3, GoesPlaces
  <2>5. PlacesOK' BY <1>2, <1>6, <2>1, PlacesSame
  <2> QED BY <2>4, <2>5
<1> QED BY <1>8, <1>9

\* yieldCapability keeps each thread in its place.
LEMMA YieldCapabilityPlaces ==
  ASSUME Types, KindsOK, PlacesOK, NEW t \in Tasks, pc[t] \in {"yield", "yielded", "sync",
         "sync_wait"},
         NEW p \in {"yielded", "sync_wait"}, pc[t] \in {"sync", "sync_wait"} => p = "sync_wait",
         YieldCapability(t, p)
  PROVE  KindsOK' /\ PlacesOK'
<1>1. /\ then' = [then EXCEPT ![t] = p]
      /\ pc' = Goto(t, "yield_lock")
      /\ UNCHANGED <<running, queues, threads, sync, tcap, cap, seen, thr, push>>
  BY DEF YieldCapability
<1>2. then'[t] = p /\ \A u \in Tasks \ {t} : then'[u] = then[u] BY <1>1 DEF Types
<1>3. KindOK(t) /\ CallerOK(t) BY DEF KindsOK
<1>4. ASSUME pc'[t] = "yield_lock" PROVE KindOK(t)' /\ CallerOK(t)'
  <2>1. KindOK(t)' BY <1>1, <1>2, <1>3, <1>4 DEF KindOK, HasThreadAt, WaitsTo, AtHomeAt
  <2>2. Holds(t) BY DEF Holds, Holding
  <2>3. t \in Callers /\ t \in live => InsideOK(t)'
    BY <1>1, <1>3, <1>4, <2>2 DEF CallerOK, InsideOK, threads, Sleeping
  <2>4. t \in Callers /\ t \notin live => OutsideOK(t)'
    BY <1>1, <1>2, <1>3, <1>4 DEF CallerOK, OutsideOK
  <2>5. live' = live BY <1>1 DEF threads
  <2> QED BY <2>1, <2>3, <2>4, <2>5 DEF CallerOK
<1>5. "yield_lock" \in Locations BY Everywhere
<1>6. KindsOK' BY <1>1, <1>2, <1>4, <1>5, GoesPlaces DEF threads
<1>7. PlacesOK' BY <1>1, PlacesSame DEF queues, threads
<1> QED BY <1>6, <1>7

\* From one place of schedule() to the next
LEMMA GoesOnPlaces ==
  ASSUME Types, KindsOK, PlacesOK, NEW t \in Tasks,
         NEW p \in {"pick", "push", "loop", "exit", "acquire"}, pc' = Goto(t, p),
         \/ pc[t] \in {"loop", "yield", "yielded"} /\ p \in {"pick", "push"}
         \/ pc[t] = "sync_wait" /\ p = AfterGC(t)
         \/ pc[t] = "sync" /\ p = "acquire",
         UNCHANGED <<queues, threads, tcap, cap, seen, then, thr>>
  PROVE  KindsOK' /\ PlacesOK'
<1>1. KindOK(t) /\ CallerOK(t) BY DEF KindsOK
<1>2. home' = home /\ live' = live BY DEF threads
<1>3. ASSUME pc'[t] = p PROVE KindOK(t)' /\ CallerOK(t)'
  <2>1. KindOK(t)' BY <1>1, <1>3 DEF KindOK, HasThreadAt, WaitsTo, AtHomeAt, AfterGC, IsBound
  <2>2. Holds(t) BY DEF Holds, Holding
  <2>3. t \in Callers /\ t \in live => InsideOK(t)'
    BY <1>1, <1>2, <1>3, <2>2 DEF CallerOK, InsideOK, Sleeping, AfterGC, IsBound
  <2>4. t \in Callers /\ t \notin live => OutsideOK(t)'
    BY <1>1, <1>2, <1>3, Distinct DEF CallerOK, OutsideOK, AfterGC, IsBound
  <2> QED BY <1>2, <2>1, <2>3, <2>4 DEF CallerOK
<1>4. p \in Locations BY Everywhere
<1>5. KindsOK' BY <1>2, <1>3, <1>4, GoesPlaces
<1>6. PlacesOK' BY PlacesSame DEF queues, threads
<1> QED BY <1>5, <1>6

\* A step of schedule() that keeps the capability keeps each thread in its place.
LEMMA SchedulePlaces ==
  ASSUME Types, KindsOK, PlacesOK, NEW t \in Tasks,
         ScheduleYield(t) \/ Yielded(t) \/ RequestSync(t) \/ SyncWait(t) \/ InboxBusy(t)
  PROVE  KindsOK' /\ PlacesOK'
<1>1. CASE YieldCapability(t, "yielded") /\ pc[t] \in {"yield", "yielded"}
  BY <1>1, YieldCapabilityPlaces
<1>2. CASE YieldCapability(t, "sync_wait") /\ pc[t] \in {"sync", "sync_wait"}
  BY <1>2, YieldCapabilityPlaces
<1>3. CASE ScheduleYield(t) BY <1>1, <1>3, GoesOnPlaces DEF ScheduleYield
<1>4. CASE Yielded(t) BY <1>1, <1>4, GoesOnPlaces DEF Yielded
<1>5. CASE RequestSync(t) BY <1>2, <1>5, GoesOnPlaces DEF RequestSync
<1>6. CASE SyncWait(t)
  <2>1. AfterGC(t) \in {"loop", "exit"} BY DEF AfterGC
  <2> QED BY <1>2, <1>6, <2>1, GoesOnPlaces DEF SyncWait
<1>7. CASE InboxBusy(t) BY <1>7, GoesOnPlaces DEF InboxBusy
<1> QED BY <1>3, <1>4, <1>5, <1>6, <1>7

\* What Types says of the queues of threads
LEMMA QueuesAreSequences ==
  ASSUME Types
  PROVE  /\ runq \in [Caps -> Seq(Threads)] /\ inbox \in [Caps -> Seq(Threads)]
         /\ \A c \in Caps : runq[c] \in Seq(Threads) /\ inbox[c] \in Seq(Threads)
         /\ \A t \in Tasks : cap[t] \in Caps /\ tcap[t] \in Caps
         /\ \A h \in Threads : home[h] \in Caps
         /\ live \subseteq Threads /\ blocked \subseteq Threads
BY DEF Types

\* scheduleProcessInbox keeps each thread in its place.
LEMMA ProcessInboxPlaces ==
  ASSUME Types, KindsOK, PlacesOK, NEW t \in Tasks, ProcessInbox(t)
  PROVE  KindsOK' /\ PlacesOK'
<1>1. PICK c : c = cap[t] OBVIOUS
<1>2. PICK woken : woken = Keep(inbox[c], blocked) OBVIOUS
<1>3. /\ pc[t] = "loop"
      /\ runq' = [runq EXCEPT ![c] = @ \o woken]
      /\ blocked' = blocked \ ToSet(woken)
      /\ inbox' = [inbox EXCEPT ![c] = <<>>]
      /\ pc' = Goto(t, "push")
      /\ UNCHANGED <<home, live, tcap, cap, seen, then, thr>>
  BY <1>1, <1>2 DEF ProcessInbox
<1>4. c \in Caps /\ inbox[c] \in Seq(Threads) /\ runq[c] \in Seq(Threads)
  BY <1>1, QueuesAreSequences
<1>5. KindsOK'
  <2>1. KindOK(t) /\ CallerOK(t) BY DEF KindsOK
  <2>2. ASSUME pc'[t] = "push" PROVE KindOK(t)' /\ CallerOK(t)'
    <3>1. KindOK(t)' BY <1>3, <2>1, <2>2 DEF KindOK, HasThreadAt, WaitsTo, AtHomeAt
    <3>2. Holds(t) BY <1>3 DEF Holds, Holding
    <3>3. CallerOK(t)' BY <1>3, <2>1, <2>2, <3>2 DEF CallerOK, InsideOK, OutsideOK, Sleeping
    <3> QED BY <3>1, <3>3
  <2>3. "push" \in Locations BY Everywhere
  <2> QED BY <1>3, <2>2, <2>3, GoesPlaces
<1>6. /\ woken \in Seq(Threads) /\ (\A h : In(h, woken) <=> In(h, inbox[c]) /\ h \in blocked)
      /\ (OnceIn(inbox[c]) => OnceIn(woken))
  BY <1>2, <1>4, KeepAll
<1>7. /\ \A h : In(h, runq[c] \o woken) <=> In(h, runq[c]) \/ In(h, woken)
      /\ OnceIn(runq[c]) /\ OnceIn(woken) /\ (\A h : ~(In(h, runq[c]) /\ In(h, woken)))
           => OnceIn(runq[c] \o woken)
  BY <1>4, <1>6, InConcat
<1>8. \A h : In(h, woken) <=> In(h, inbox[c]) BY <1>4, <1>6 DEF PlacesOK
<1>9. \A d \in Caps : runq'[d] = IF d = c THEN runq[c] \o woken ELSE runq[d]
  BY <1>3, <1>4, QueuesAreSequences
<1>10. \A d \in Caps : inbox'[d] = IF d = c THEN <<>> ELSE inbox[d]
  BY <1>3, <1>4, QueuesAreSequences
<1>11. \A h : h \in blocked' <=> h \in blocked /\ ~In(h, inbox[c])
  <2>1. \A h : h \in ToSet(woken) <=> In(h, woken) BY DEF ToSet, In
  <2> QED BY <1>3, <1>8, <2>1
<1>12. OnceIn(runq[c] \o woken)
  <2>1. \A h : ~(In(h, runq[c]) /\ In(h, woken)) BY <1>4, <1>8 DEF PlacesOK
  <2> QED BY <1>4, <1>6, <1>7, <2>1 DEF PlacesOK
<1>13. (\A h : ~In(h, <<>>)) /\ OnceIn(<<>>) BY InNothing
<1>14. \A d \in Caps : \A h : In(h, runq'[d]) <=> In(h, runq[d]) \/ (d = c /\ In(h, inbox[c]))
  BY <1>7, <1>8, <1>9
<1>15. \A d \in Caps : \A h : In(h, inbox'[d]) <=> d # c /\ In(h, inbox[d]) BY <1>10, <1>13
<1>16. \A d \in Caps : OnceIn(runq'[d]) /\ OnceIn(inbox'[d])
  BY <1>9, <1>10, <1>12, <1>13 DEF PlacesOK
<1>17. \A h : In(h, inbox[c]) => h \in blocked /\ home[h] = c BY <1>4 DEF PlacesOK
<1>18. PlacesOK'
  <2>1. blocked' \subseteq live' BY <1>3, <1>11 DEF PlacesOK
  <2>2. \A d \in Caps : \A h : In(h, runq'[d]) => h \in live' \ blocked' /\ home'[h] = d
    BY <1>3, <1>11, <1>14, <1>17 DEF PlacesOK
  <2>3. \A d \in Caps : \A h : In(h, inbox'[d]) => h \in blocked' /\ home'[h] = d
    <3> SUFFICES ASSUME NEW d \in Caps, NEW h, In(h, inbox'[d]) PROVE h \in blocked' /\ home[h] = d
      BY <1>3
    <3>1. d # c /\ In(h, inbox[d]) BY <1>15
    <3>2. h \in blocked /\ home[h] = d BY <3>1 DEF PlacesOK
    <3> QED BY <1>11, <1>17, <3>1, <3>2
  <2>4. \A u \in Tasks : thr'[u] # NoThread =>
          /\ thr'[u] \in live' \ blocked' /\ home'[thr'[u]] = cap'[u] /\ ~In(thr'[u],
               runq'[cap'[u]])
          /\ thr'[u] = u \/ (thr'[u] \in Unbound /\ u \in Workers)
    BY <1>3, <1>11, <1>14, <1>17, QueuesAreSequences DEF PlacesOK
  <2>5. \A h \in live' \ blocked' : In(h, runq'[home'[h]]) \/ \E u \in Tasks : thr'[u] = h
    <3> SUFFICES ASSUME NEW h \in live \ blocked'
                 PROVE  In(h, runq'[home[h]]) \/ \E u \in Tasks : thr[u] = h
      BY <1>3
    <3>1. home[h] \in Caps BY QueuesAreSequences
    <3>2. CASE h \in blocked
      <4>1. In(h, inbox[c]) BY <1>11, <3>2
      <4> QED BY <1>4, <1>14, <1>17, <4>1
    <3>3. CASE h \notin blocked BY <1>14, <3>1, <3>3 DEF PlacesOK
    <3> QED BY <3>2, <3>3
  <2> QED BY <1>3, <1>16, <2>1, <2>2, <2>3, <2>4, <2>5 DEF PlacesOK
<1> QED BY <1>5, <1>18

\* popRunQueue keeps each thread in its place.
LEMMA PickPlaces ==
  ASSUME Types, KindsOK, PlacesOK, NEW t \in Tasks, Pick(t)
  PROVE  KindsOK' /\ PlacesOK'
<1>1. PICK c : c = cap[t] OBVIOUS
<1>2. pc[t] = "pick" /\ UNCHANGED <<running, returning, spare, inbox, threads, sync, tcap, wakeup,
      cap, seen, then, push>>
  BY DEF Pick
<1>3. home' = home /\ live' = live /\ blocked' = blocked BY <1>2 DEF threads
<1>4. c \in Caps /\ runq[c] \in Seq(Threads) BY <1>1, QueuesAreSequences
<1>5. KindOK(t) /\ CallerOK(t) BY DEF KindsOK
<1>6. Holds(t) /\ thr[t] = NoThread BY <1>2, <1>5 DEF Holds, Holding, KindOK, HasThreadAt, WaitsTo
<1>7. CASE pc' = Goto(t, "loop") /\ UNCHANGED <<thr, runq>>
  <2>1. ASSUME pc'[t] = "loop" PROVE KindOK(t)' /\ CallerOK(t)'
    <3>1. KindOK(t)' BY <1>2, <1>5, <1>7, <2>1 DEF KindOK, HasThreadAt, WaitsTo, AtHomeAt
    <3>2. CallerOK(t)' BY <1>2, <1>3, <1>5, <1>6, <2>1 DEF CallerOK, InsideOK, OutsideOK, Sleeping
    <3> QED BY <3>1, <3>2
  <2>2. "loop" \in Locations BY Everywhere
  <2>3. KindsOK' BY <1>2, <1>3, <1>7, <2>1, <2>2, GoesPlaces
  <2>4. PlacesOK' BY <1>2, <1>3, <1>7, PlacesSame
  <2> QED BY <2>3, <2>4
<1>8. CASE ~(pc' = Goto(t, "loop") /\ UNCHANGED <<thr, runq>>)
  <2>1. PICK h : h = Head(runq[c]) OBVIOUS
  <2>2. /\ runq[c] # <<>> /\ (IF IsBound(t) THEN h = t ELSE h \in Unbound)
        /\ thr' = [thr EXCEPT ![t] = h]
        /\ runq' = [runq EXCEPT ![c] = Tail(@)]
        /\ pc' = Goto(t, "run")
    BY <1>1, <1>8, <2>1 DEF Pick
  <2>3. "run" \in Locations BY Everywhere
  <2>4. pc'[t] = "run" /\ \A u \in Tasks \ {t} : pc'[u] = pc[u] BY <2>2, <2>3, GotoOK
  <2>5. thr'[t] = h /\ \A u \in Tasks \ {t} : thr'[u] = thr[u] BY <2>2 DEF Types
  <2>6. /\ h \in Threads /\ Tail(runq[c]) \in Seq(Threads)
        /\ \A y : In(y, runq[c]) <=> y = h \/ In(y, Tail(runq[c]))
        /\ OnceIn(runq[c]) => OnceIn(Tail(runq[c])) /\ ~In(h, Tail(runq[c]))
    BY <1>4, <2>1, <2>2, InTail
  <2>7. h # NoThread BY <2>6, Distinct
  <2>8. \A d \in Caps : runq'[d] = IF d = c THEN Tail(runq[c]) ELSE runq[d]
    BY <1>4, <2>2, QueuesAreSequences
  <2>9. In(h, runq[c]) /\ h \in live \ blocked /\ home[h] = c /\ OnceIn(runq[c])
    BY <1>4, <2>6 DEF PlacesOK
  <2>10. \A d \in Caps : \A y : In(y, runq'[d]) <=> In(y, runq[d]) /\ y # h
    <3> SUFFICES ASSUME NEW d \in Caps, NEW y PROVE In(y, runq'[d]) <=> In(y, runq[d]) /\ y # h
      OBVIOUS
    <3>1. CASE d = c BY <2>6, <2>8, <2>9, <3>1
    <3>2. CASE d # c
      <4>1. ~In(h, runq[d]) BY <2>9, <3>2 DEF PlacesOK
      <4> QED BY <2>8, <3>2, <4>1
    <3> QED BY <3>1, <3>2
  <2>11. \A d \in Caps : OnceIn(runq'[d]) BY <2>6, <2>8, <2>9 DEF PlacesOK
  <2>12. \A u \in Tasks : thr[u] # h
    <3> SUFFICES ASSUME NEW u \in Tasks, thr[u] = h PROVE FALSE OBVIOUS
    <3>1. home[h] = cap[u] /\ ~In(h, runq[cap[u]]) BY <2>7 DEF PlacesOK
    <3> QED BY <2>9, <3>1
  <2>13. h = t \/ (h \in Unbound /\ t \in Workers)
    <3>1. IsBound(t) \/ t \in Workers BY <1>2, <1>5 DEF IsBound, CallerOK, OutsideOK, Tasks
    <3>2. t \in Workers => ~IsBound(t) BY Distinct DEF IsBound
    <3> QED BY <2>2, <3>1, <3>2
  <2>14. KindOK(t)' BY <1>2, <1>5, <2>4, <2>5, <2>7 DEF KindOK, HasThreadAt, WaitsTo, AtHomeAt
  <2>15. CallerOK(t)' BY <1>2, <1>3, <1>5, <1>6, <2>4 DEF CallerOK, InsideOK, OutsideOK, Sleeping
  <2>16. \A u \in Tasks \ {t} : SamePlaces(u) BY <1>2, <1>3, <2>4, <2>5 DEF SamePlaces
  <2>17. KindsOK' BY <2>14, <2>15, <2>16, OneMoves
  <2>18. PlacesOK'
    <3>1. \A d \in Caps : \A y : In(y, runq'[d]) => y \in live' \ blocked' /\ home'[y] = d
      BY <1>3, <2>10 DEF PlacesOK
    <3>2. \A u \in Tasks : thr'[u] # NoThread =>
          /\ thr'[u] \in live' \ blocked' /\ home'[thr'[u]] = cap'[u] /\ ~In(thr'[u],
               runq'[cap'[u]])
          /\ thr'[u] = u \/ (thr'[u] \in Unbound /\ u \in Workers)
      <4> SUFFICES ASSUME NEW u \in Tasks, thr'[u] # NoThread
                   PROVE  /\ thr'[u] \in live' \ blocked' /\ home'[thr'[u]] = cap'[u]
                               /\ ~In(thr'[u], runq'[cap'[u]])
                          /\ thr'[u] = u \/ (thr'[u] \in Unbound /\ u \in Workers)
        OBVIOUS
      <4>1. CASE u = t BY <1>1, <1>2, <1>3, <1>4, <2>5, <2>9, <2>10, <2>13, <4>1
      <4>2. CASE u # t
        <5>1. thr'[u] = thr[u] /\ cap'[u] = cap[u] /\ cap[u] \in Caps
          BY <1>2, <2>5, <4>2, QueuesAreSequences
        <5>2. /\ thr[u] \in live \ blocked /\ home[thr[u]] = cap[u] /\ ~In(thr[u], runq[cap[u]])
              /\ thr[u] = u \/ (thr[u] \in Unbound /\ u \in Workers)
          BY <5>1 DEF PlacesOK
        <5> QED BY <1>3, <2>10, <5>1, <5>2
      <4> QED BY <4>1, <4>2
    <3>3. \A u, v \in Tasks : thr'[u] # NoThread /\ thr'[u] = thr'[v] => u = v
      BY <2>5, <2>12 DEF PlacesOK
    <3>4. \A y \in live' \ blocked' : In(y, runq'[home'[y]]) \/ \E u \in Tasks : thr'[u] = y
      <4> SUFFICES ASSUME NEW y \in live \ blocked
                   PROVE  In(y, runq'[home[y]]) \/ \E u \in Tasks : thr'[u] = y
        BY <1>3
      <4>1. CASE y = h BY <2>5, <4>1
      <4>2. CASE y # h
        <5>1. home[y] \in Caps BY QueuesAreSequences
        <5>2. In(y, runq[home[y]]) \/ \E u \in Tasks : thr[u] = y BY DEF PlacesOK
        <5>3. \A u \in Tasks : thr[u] = y => thr'[u] = y
          <6>1. y \in Threads BY QueuesAreSequences
          <6>2. y # NoThread BY <6>1, Distinct
          <6> QED BY <1>6, <2>5, <6>2
        <5> QED BY <2>10, <4>2, <5>1, <5>2, <5>3
      <4> QED BY <4>1, <4>2
    <3> QED BY <1>2, <1>3, <2>11, <3>1, <3>2, <3>3, <3>4 DEF PlacesOK
  <2> QED BY <2>17, <2>18
<1> QED BY <1>7, <1>8

\* h comes into the run queue of c.
Queued(c, h) ==
  /\ \A d \in Caps : \A y : In(y, runq'[d]) <=> In(y, runq[d]) \/ (d = c /\ y = h)
  /\ \A d \in Caps : OnceIn(runq'[d])

\* A thread that nobody has is put on the run queue at its home.
LEMMA Enqueued ==
  ASSUME Types, PlacesOK, NEW c \in Caps, NEW h \in Threads, ~In(h, runq[c]),
         runq' = [runq EXCEPT ![c] = Append(@, h)] \/ runq' = [runq EXCEPT ![c] = <<h>> \o @]
  PROVE  Queued(c, h)
<1>1. runq[c] \in Seq(Threads) /\ runq \in [Caps -> Seq(Threads)] BY QueuesAreSequences
<1>2. OnceIn(runq[c]) /\ \A d \in Caps : OnceIn(runq[d]) BY DEF PlacesOK
<1>3. /\ \A y : In(y, Append(runq[c], h)) <=> y = h \/ In(y, runq[c])
      /\ OnceIn(Append(runq[c], h))
  BY <1>1, <1>2, InAppend
<1>4. /\ \A y : In(y, <<h>> \o runq[c]) <=> y = h \/ In(y, runq[c])
      /\ OnceIn(<<h>> \o runq[c])
  BY <1>1, <1>2, InPrepend
<1>5. PICK q : (\A d \in Caps : runq'[d] = IF d = c THEN q ELSE runq[d]) /\ q \in {Append(runq[c],
      h), <<h>> \o runq[c]}
  BY <1>1
<1>6. (\A y : In(y, q) <=> y = h \/ In(y, runq[c])) /\ OnceIn(q) BY <1>3, <1>4, <1>5
<1> QED BY <1>2, <1>5, <1>6 DEF Queued

\* A thread that is blocked is sent a wakeup at its home.
LEMMA Mailed ==
  ASSUME Types, PlacesOK, NEW c \in Caps, NEW h \in Threads, ~In(h, inbox[c]),
         inbox' = [inbox EXCEPT ![c] = <<h>> \o @]
  PROVE  /\ \A d \in Caps : \A y : In(y, inbox'[d]) <=> In(y, inbox[d]) \/ (d = c /\ y = h)
         /\ \A d \in Caps : OnceIn(inbox'[d])
<1>1. inbox[c] \in Seq(Threads) /\ inbox \in [Caps -> Seq(Threads)] BY QueuesAreSequences
<1>2. OnceIn(inbox[c]) /\ \A d \in Caps : OnceIn(inbox[d]) BY DEF PlacesOK
<1>4. /\ \A y : In(y, <<h>> \o inbox[c]) <=> y = h \/ In(y, inbox[c])
      /\ OnceIn(<<h>> \o inbox[c])
  BY <1>1, <1>2, InPrepend
<1>5. PICK q : q = <<h>> \o inbox[c] OBVIOUS
<1>6. \A d \in Caps : inbox'[d] = IF d = c THEN q ELSE inbox[d] BY <1>1, <1>5
<1>7. (\A y : In(y, q) <=> y = h \/ In(y, inbox[c])) /\ OnceIn(q) BY <1>4, <1>5
<1> QED BY <1>2, <1>6, <1>7

\* The thread a task has
LEMMA HasThread ==
  ASSUME Types, PlacesOK, NEW t \in Tasks, thr[t] # NoThread
  PROVE  /\ thr[t] \in live \ blocked /\ home[thr[t]] = cap[t] /\ thr[t] \in Threads
         /\ \A d \in Caps : ~In(thr[t], runq[d])
         /\ \A d \in Caps : ~In(thr[t], inbox[d])
         /\ \A u \in Tasks : thr[u] = thr[t] => u = t
         /\ thr[t] = t \/ (thr[t] \in Unbound /\ t \in Workers)
<1>1. /\ thr[t] \in live \ blocked /\ home[thr[t]] = cap[t] /\ ~In(thr[t], runq[cap[t]])
      /\ thr[t] = t \/ (thr[t] \in Unbound /\ t \in Workers)
      /\ \A u \in Tasks : thr[u] = thr[t] => u = t
  BY DEF PlacesOK
<1>2. \A d \in Caps : In(thr[t], runq[d]) => d = cap[t] BY <1>1 DEF PlacesOK
<1>3. \A d \in Caps : ~In(thr[t], inbox[d]) BY <1>1 DEF PlacesOK
<1> QED BY <1>1, <1>2, <1>3, QueuesAreSequences

\* A thread that stops keeps each thread in its place.
LEMMA ThreadStopsPlaces ==
  ASSUME Types, KindsOK, PlacesOK, NEW t \in Tasks,
         ThreadYields(t) \/ ThreadBlocks(t) \/ ThreadFinishes(t) \/ HeapOverflow(t)
  PROVE  KindsOK' /\ PlacesOK'
<1>1. PICK c : c = cap[t] OBVIOUS
<1>2. PICK h : h = thr[t] OBVIOUS
<1>3. KindOK(t) /\ CallerOK(t) /\ c \in Caps BY <1>1, QueuesAreSequences DEF KindsOK
<1>4. /\ pc[t] = "run" /\ thr' = [thr EXCEPT ![t] = NoThread]
      /\ UNCHANGED <<inbox, home, tcap, cap, seen, then>>
  BY DEF ThreadYields, ThreadBlocks, ThreadFinishes, HeapOverflow, queues, threads
<1>5. h # NoThread BY <1>2, <1>3, <1>4 DEF KindOK, HasThreadAt
<1>6. /\ h \in live \ blocked /\ home[h] = c /\ h \in Threads
      /\ \A d \in Caps : ~In(h, runq[d])
      /\ \A d \in Caps : ~In(h, inbox[d])
      /\ \A u \in Tasks : thr[u] = h => u = t
      /\ h = t \/ (h \in Unbound /\ t \in Workers)
  BY <1>1, <1>2, <1>5, HasThread
<1>7. thr'[t] = NoThread /\ \A u \in Tasks \ {t} : thr'[u] = thr[u] /\ thr[u] # h
  BY <1>4, <1>6 DEF Types
<1>8. Holds(t) BY <1>4 DEF Holds, Holding
<1>9. ASSUME NEW p \in {"loop", "exit", "sync"}, pc' = Goto(t, p), p = "exit" => t \in Callers
      PROVE  pc'[t] = p /\ (\A u \in Tasks \ {t} : pc'[u] = pc[u]) /\ KindOK(t)'
  <2>1. p \in Locations BY Everywhere
  <2>2. pc'[t] = p /\ \A u \in Tasks \ {t} : pc'[u] = pc[u] BY <1>9, <2>1, GotoOK
  <2>3. KindOK(t)'
    BY <1>3, <1>4, <1>7, <1>9, <2>2, Distinct DEF KindOK, HasThreadAt, WaitsTo, AtHomeAt
  <2> QED BY <2>2, <2>3
<1>13. CASE ThreadYields(t) \/ HeapOverflow(t)
  <2>1. /\ runq' = [runq EXCEPT ![c] = Append(@, h)] \/ runq' = [runq EXCEPT ![c] = <<h>> \o @]
        /\ blocked' = blocked /\ live' = live
    BY <1>1, <1>2, <1>13 DEF ThreadYields, HeapOverflow, threads
  <2>2. Queued(c, h) BY <1>3, <1>6, <2>1, Enqueued
  <2>3. PICK p \in {"loop", "sync"} : pc' = Goto(t, p) BY <1>13 DEF ThreadYields, HeapOverflow
  <2>0. pc'[t] = p /\ (\A u \in Tasks \ {t} : pc'[u] = pc[u]) /\ KindOK(t)' BY <1>9, <2>3
  <2>4. CallerOK(t)'
    BY <1>3, <1>4, <1>8, <2>0, <2>1, <2>3 DEF CallerOK, InsideOK, OutsideOK, Sleeping
  <2>5. \A u \in Tasks \ {t} : SamePlaces(u) BY <1>4, <1>7, <2>0, <2>1 DEF SamePlaces
  <2>6. KindsOK' BY <2>0, <2>4, <2>5, OneMoves
  <2>7. PlacesOK'
    <3>1. \A d \in Caps : \A y : In(y, runq'[d]) => y \in live' \ blocked' /\ home'[y] = d
      <4> SUFFICES ASSUME NEW d \in Caps, NEW y, In(y, runq'[d])
                   PROVE  y \in live \ blocked /\ home[y] = d
        BY <1>4, <2>1
      <4>1. In(y, runq[d]) \/ (d = c /\ y = h) BY <2>2 DEF Queued
      <4> QED BY <1>6, <4>1 DEF PlacesOK
    <3>2. \A u \in Tasks : thr'[u] # NoThread =>
          /\ thr'[u] \in live' \ blocked' /\ home'[thr'[u]] = cap'[u] /\ ~In(thr'[u],
               runq'[cap'[u]])
          /\ thr'[u] = u \/ (thr'[u] \in Unbound /\ u \in Workers)
      BY <1>4, <1>7, <2>1, <2>2, QueuesAreSequences DEF PlacesOK, Queued
    <3>3. \A u, v \in Tasks : thr'[u] # NoThread /\ thr'[u] = thr'[v] => u = v BY <1>7 DEF PlacesOK
    <3>4. \A y \in live' \ blocked' : In(y, runq'[home'[y]]) \/ \E u \in Tasks : thr'[u] = y
      <4> SUFFICES ASSUME NEW y \in live \ blocked
                   PROVE  In(y, runq'[home[y]]) \/ \E u \in Tasks : thr'[u] = y
        BY <1>4, <2>1
      <4>1. home[y] \in Caps BY QueuesAreSequences
      <4>2. CASE y = h BY <1>3, <1>6, <2>2, <4>2 DEF Queued
      <4>3. CASE y # h
        <5>1. In(y, runq[home[y]]) \/ \E u \in Tasks : thr[u] = y BY DEF PlacesOK
        <5> QED BY <1>2, <1>7, <2>2, <4>1, <4>3, <5>1 DEF Queued
      <4> QED BY <4>2, <4>3
    <3>5. \A d \in Caps : OnceIn(runq'[d]) BY <2>2 DEF Queued
    <3> QED BY <1>4, <2>1, <3>1, <3>2, <3>3, <3>4, <3>5 DEF PlacesOK
  <2> QED BY <2>6, <2>7
<1>14. CASE ThreadBlocks(t)
  <2>1. runq' = runq /\ live' = live /\ blocked' = blocked \cup {h}
    BY <1>2, <1>14 DEF ThreadBlocks, queues
  <2>3. pc' = Goto(t, "loop") BY <1>14 DEF ThreadBlocks
  <2>0. pc'[t] = "loop" /\ (\A u \in Tasks \ {t} : pc'[u] = pc[u]) /\ KindOK(t)' BY <1>9, <2>3
  <2>4. CallerOK(t)'
    BY <1>3, <1>4, <1>8, <2>0, <2>1, <2>3 DEF CallerOK, InsideOK, OutsideOK, Sleeping
  <2>5. \A u \in Tasks \ {t} : SamePlaces(u) BY <1>4, <1>7, <2>0, <2>1 DEF SamePlaces
  <2>6. KindsOK' BY <2>0, <2>4, <2>5, OneMoves
  <2>7. PlacesOK'
    <3>1. \A d \in Caps : \A y : In(y, runq'[d]) => y \in live' \ blocked' /\ home'[y] = d
      BY <1>4, <1>6, <2>1 DEF PlacesOK
    <3>2. \A u \in Tasks : thr'[u] # NoThread =>
          /\ thr'[u] \in live' \ blocked' /\ home'[thr'[u]] = cap'[u] /\ ~In(thr'[u],
               runq'[cap'[u]])
          /\ thr'[u] = u \/ (thr'[u] \in Unbound /\ u \in Workers)
      BY <1>4, <1>7, <2>1 DEF PlacesOK
    <3>3. \A u, v \in Tasks : thr'[u] # NoThread /\ thr'[u] = thr'[v] => u = v BY <1>7 DEF PlacesOK
    <3>4. \A y \in live' \ blocked' : In(y, runq'[home'[y]]) \/ \E u \in Tasks : thr'[u] = y
      BY <1>2, <1>4, <1>7, <2>1 DEF PlacesOK
    <3>5. \A d \in Caps : \A y : In(y, inbox'[d]) => y \in blocked' /\ home'[y] = d
      BY <1>4, <2>1 DEF PlacesOK
    <3> QED BY <1>4, <1>6, <2>1, <3>1, <3>2, <3>3, <3>4, <3>5 DEF PlacesOK
  <2> QED BY <2>6, <2>7
<1>15. CASE ThreadFinishes(t)
  <2>1. runq' = runq /\ blocked' = blocked /\ live' = live \ {h}
    BY <1>2, <1>15 DEF ThreadFinishes, queues
  <2>2. \A u \in Callers \ {t} : u \in live' <=> u \in live BY <1>6, <2>1, CapabilityAssumption
  <2>3. PICK p : p = IF h \in Callers THEN "exit" ELSE "loop" OBVIOUS
  <2>8. pc' = Goto(t, p) /\ p \in {"loop", "exit", "sync"} /\ (p = "exit" => t \in Callers)
    BY <1>2, <1>6, <1>15, <2>3, CapabilityAssumption DEF ThreadFinishes
  <2>0. pc'[t] = p /\ (\A u \in Tasks \ {t} : pc'[u] = pc[u]) /\ KindOK(t)' BY <1>9, <2>8
  <2>4. CallerOK(t)'
    <3> SUFFICES ASSUME t \in Callers PROVE CallerOK(t)' BY DEF CallerOK
    <3>1. h = t /\ p = "exit" BY <1>6, <2>3, Distinct
    <3> QED BY <2>0, <2>1, <3>1 DEF CallerOK, OutsideOK
  <2>5. \A u \in Tasks \ {t} : SamePlaces(u) BY <1>4, <1>7, <2>0, <2>2 DEF SamePlaces
  <2>6. KindsOK' BY <2>0, <2>4, <2>5, OneMoves
  <2>7. PlacesOK'
    <3>1. \A d \in Caps : \A y : In(y, runq'[d]) => y \in live' \ blocked' /\ home'[y] = d
      BY <1>4, <1>6, <2>1 DEF PlacesOK
    <3>2. \A u \in Tasks : thr'[u] # NoThread =>
          /\ thr'[u] \in live' \ blocked' /\ home'[thr'[u]] = cap'[u] /\ ~In(thr'[u],
               runq'[cap'[u]])
          /\ thr'[u] = u \/ (thr'[u] \in Unbound /\ u \in Workers)
      BY <1>4, <1>7, <2>1 DEF PlacesOK
    <3>3. \A u, v \in Tasks : thr'[u] # NoThread /\ thr'[u] = thr'[v] => u = v BY <1>7 DEF PlacesOK
    <3>4. \A y \in live' \ blocked' : In(y, runq'[home'[y]]) \/ \E u \in Tasks : thr'[u] = y
      BY <1>2, <1>4, <1>7, <2>1 DEF PlacesOK
    <3> QED BY <1>4, <1>6, <2>1, <3>1, <3>2, <3>3, <3>4 DEF PlacesOK
  <2> QED BY <2>6, <2>7
<1> QED BY <1>13, <1>14, <1>15

\* A thread h that waits nowhere becomes ready on its capability c.
LEMMA Readied ==
  ASSUME Types, PlacesOK, NEW c \in Caps, NEW h \in Threads, Queued(c, h),
         h \in live', h \notin blocked', home'[h] = c,
         live' \subseteq live \cup {h}, live \subseteq live', blocked' \subseteq blocked,
         blocked \subseteq blocked' \cup {h},
         \A d \in Caps : ~In(h, inbox[d]) /\ ~In(h, runq[d]), \A u \in Tasks : thr[u] # h,
         \A y \in Threads \ {h} : home'[y] = home[y],
         UNCHANGED <<inbox, thr, cap>>
  PROVE  PlacesOK'
<1>1. \A d \in Caps : \A y : In(y, runq'[d]) => y \in live' \ blocked' /\ home'[y] = d
  <2> SUFFICES ASSUME NEW d \in Caps, NEW y, In(y, runq'[d])
               PROVE  y \in live' \ blocked' /\ home'[y] = d
    OBVIOUS
  <2>1. In(y, runq[d]) \/ (d = c /\ y = h) BY DEF Queued
  <2>2. CASE y = h BY <2>1, <2>2
  <2>3. CASE y # h
    <3>1. y \in live \ blocked /\ home[y] = d /\ y \in Threads
      BY <2>1, <2>3, QueuesAreSequences DEF PlacesOK
    <3> QED BY <2>3, <3>1
  <2> QED BY <2>2, <2>3
<1>2. \A d \in Caps : \A y : In(y, inbox'[d]) => y \in blocked' /\ home'[y] = d
  <2> SUFFICES ASSUME NEW d \in Caps, NEW y, In(y, inbox[d]) PROVE y \in blocked' /\ home'[y] = d
    OBVIOUS
  <2>1. y \in blocked /\ home[y] = d /\ y # h BY DEF PlacesOK
  <2> QED BY <2>1, QueuesAreSequences
<1>3. ASSUME NEW u \in Tasks, thr'[u] # NoThread
      PROVE  /\ thr'[u] \in live' \ blocked' /\ home'[thr'[u]] = cap'[u] /\ ~In(thr'[u],
                runq'[cap'[u]])
             /\ thr'[u] = u \/ (thr'[u] \in Unbound /\ u \in Workers)
  <2>1. PICK y : y = thr[u] OBVIOUS
  <2>2. /\ y \in live \ blocked /\ home[y] = cap[u] /\ ~In(y, runq[cap[u]]) /\ y # h
        /\ y = u \/ (y \in Unbound /\ u \in Workers)
    BY <1>3, <2>1 DEF PlacesOK
  <2>3. cap[u] \in Caps /\ y \in Threads BY <2>2, QueuesAreSequences
  <2>4. ~In(y, runq'[cap[u]]) BY <2>2, <2>3 DEF Queued
  <2> QED BY <2>1, <2>2, <2>3, <2>4
<1>4. \A y \in live' \ blocked' : In(y, runq'[home'[y]]) \/ \E u \in Tasks : thr'[u] = y
  <2> SUFFICES ASSUME NEW y \in live' \ blocked'
               PROVE  In(y, runq'[home'[y]]) \/ \E u \in Tasks : thr[u] = y
    OBVIOUS
  <2>1. CASE y = h BY <2>1 DEF Queued
  <2>2. CASE y # h
    <3>1. y \in live \ blocked /\ home'[y] = home[y] /\ home[y] \in Caps BY <2>2, QueuesAreSequences
    <3>2. In(y, runq[home[y]]) \/ \E u \in Tasks : thr[u] = y BY <3>1 DEF PlacesOK
    <3> QED BY <3>1, <3>2 DEF Queued
  <2> QED BY <2>1, <2>2
<1>5. blocked' \subseteq live' BY DEF PlacesOK
<1>6. \A t, u \in Tasks : thr'[t] # NoThread /\ thr'[t] = thr'[u] => t = u BY DEF PlacesOK
<1>7. \A d \in Caps : OnceIn(runq'[d]) /\ OnceIn(inbox'[d]) BY DEF PlacesOK, Queued
<1> QED BY <1>1, <1>2, <1>3, <1>4, <1>5, <1>6, <1>7 DEF PlacesOK

\* Waking a thread of this or another capability keeps each thread in its place.
LEMMA WakeThreadPlaces ==
  ASSUME Types, TasksOK, KindsOK, PlacesOK, NEW t \in Tasks, NEW h, WakeThread(t, h)
  PROVE  KindsOK' /\ PlacesOK'
<1>1. PICK c : c = cap[t] OBVIOUS
<1>2. PICK d : d = home[h] OBVIOUS
<1>3. pc[t] = "run" /\ h \in blocked /\ UNCHANGED <<home, live, sync, seen, then, thr, push>>
      /\ \A e \in Caps : ~In(h, inbox[e])
  <2>1. \A e \in Caps : h \notin ToSet(inbox[e]) => ~In(h, inbox[e]) BY DEF ToSet, In
  <2> QED BY <2>1 DEF WakeThread
<1>4. h \in Threads /\ c \in Caps /\ d \in Caps /\ h \in live
  BY <1>1, <1>2, <1>3, QueuesAreSequences DEF PlacesOK
<1>5. (\A e \in Caps : ~In(h, runq[e])) /\ \A u \in Tasks : thr[u] # h
  <2>1. \A e \in Caps : ~In(h, runq[e]) BY <1>3 DEF PlacesOK
  <2>2. h # NoThread BY <1>4, Distinct
  <2>3. \A u \in Tasks : thr[u] # h BY <1>3, <2>2 DEF PlacesOK
  <2> QED BY <2>1, <2>3
<1>6. CASE d = c
  <2>1. /\ runq' = [runq EXCEPT ![c] = Append(@, h)]
        /\ blocked' = blocked \ {h}
        /\ UNCHANGED <<running, returning, spare, inbox, tcap, wakeup, pc, cap>>
    BY <1>1, <1>2, <1>6 DEF WakeThread
  <2>2. \A u \in Tasks : SamePlaces(u) BY <1>3, <2>1 DEF SamePlaces
  <2>3. KindsOK' BY <2>2, SamePlacesOK DEF KindsOK
  <2>4. Queued(c, h) BY <1>4, <1>5, <2>1, Enqueued
  <2>5. PlacesOK' BY <1>2, <1>3, <1>4, <1>5, <1>6, <2>1, <2>4, Readied
  <2> QED BY <2>3, <2>5
<1>7. ASSUME blocked' = blocked, runq' = runq, inbox' = [inbox EXCEPT ![d] = <<h>> \o @],
             \A u \in Tasks : thr[u] # NoThread => cap'[u] = cap[u]
      PROVE  PlacesOK'
  <2>1. /\ \A e \in Caps : \A y : In(y, inbox'[e]) <=> In(y, inbox[e]) \/ (e = d /\ y = h)
        /\ \A e \in Caps : OnceIn(inbox'[e])
    BY <1>3, <1>4, <1>7, Mailed
  <2>2. \A e \in Caps : \A y : In(y, inbox'[e]) => y \in blocked' /\ home'[y] = e
    <3> SUFFICES ASSUME NEW e \in Caps, NEW y, In(y, inbox'[e]) PROVE y \in blocked /\ home[y] = e
      BY <1>3, <1>7
    <3> QED BY <1>2, <1>3, <2>1 DEF PlacesOK
  <2> QED BY <1>3, <1>7, <2>1, <2>2 DEF PlacesOK
<1>8. CASE d # c /\ running[d] # NoTask
  <2>1. /\ inbox' = [inbox EXCEPT ![d] = <<h>> \o @]
        /\ UNCHANGED <<running, returning, spare, runq, tcap, wakeup, pc, cap, blocked>>
    BY <1>1, <1>2, <1>8 DEF WakeThread
  <2>2. \A u \in Tasks : SamePlaces(u) BY <1>3, <2>1 DEF SamePlaces
  <2>3. KindsOK' BY <2>2, SamePlacesOK DEF KindsOK
  <2>4. PlacesOK' BY <1>7, <2>1
  <2> QED BY <2>3, <2>4
<1>9. CASE d # c /\ running[d] = NoTask
  <2>1. Release(d, TRUE, spare[d], runq[d], <<h>> \o inbox[d], <<>>, pc, tcap) /\ blocked' = blocked
    BY <1>1, <1>2, <1>9 DEF WakeThread
  <2>2. inbox' = [inbox EXCEPT ![d] = <<h>> \o inbox[d]]
          /\ runq' = [runq EXCEPT ![d] = runq[d]] /\ Released(d, pc, tcap)
    BY <2>1 DEF Release, Released
  <2>3. runq' = runq BY <1>4, <2>2, QueuesAreSequences
  <2>4. KindsOK' /\ \A u \in Tasks : thr[u] # NoThread => cap'[u] = cap[u]
    <3>1. PICK pcs : pcs = pc OBVIOUS
    <3>2. pcs = Goto(t, "run") /\ Released(d, pcs, tcap) /\ "run" \in Locations
            /\ tcap \in [Tasks -> Caps]
      <4>1. pc = Goto(t, "run") BY <1>3 DEF Goto, Types
      <4>2. "run" \in Locations BY Everywhere
      <4> QED BY <2>2, <3>1, <4>1, <4>2 DEF Types
    <3>3. ASSUME pc'[t] = "run", cap'[t] = cap[t], tcap'[t] = tcap[t]
          PROVE  KindOK(t)' /\ CallerOK(t)'
      <4>1. SamePlaces(t) BY <1>3, <3>3 DEF SamePlaces
      <4> QED BY <4>1, SamePlacesOK DEF KindsOK
    <3> QED BY <1>3, <1>4, <3>2, <3>3, ReleasedKinds
  <2>5. PlacesOK' BY <1>7, <2>1, <2>2, <2>3, <2>4
  <2> QED BY <2>4, <2>5
<1> QED BY <1>6, <1>8, <1>9

\* A new thread keeps each thread in its place.
LEMMA ForkPlaces ==
  ASSUME Types, KindsOK, PlacesOK, NEW t \in Tasks, NEW h, Fork(t, h)
  PROVE  KindsOK' /\ PlacesOK'
<1>1. PICK c : c = cap[t] OBVIOUS
<1>2. /\ h \in Unbound \ live /\ live' = live \cup {h} /\ home' = [home EXCEPT ![h] = c]
      /\ runq' = [runq EXCEPT ![c] = Append(@, h)]
      /\ UNCHANGED <<running, returning, spare, inbox, blocked, sync, tcap, wakeup, pc, cap, seen,
           then, thr, push>>
  BY <1>1 DEF Fork
<1>3. h \in Threads /\ c \in Caps /\ h \notin Callers
  BY <1>1, <1>2, QueuesAreSequences, CapabilityAssumption DEF Threads
<1>4. home'[h] = c /\ \A y \in Threads \ {h} : home'[y] = home[y] BY <1>2, <1>3 DEF Types
<1>5. \A u \in Tasks : SamePlaces(u) BY <1>2, <1>3, <1>4, Distinct DEF SamePlaces
<1>6. KindsOK' BY <1>5, SamePlacesOK DEF KindsOK
<1>7. (\A d \in Caps : ~In(h, inbox[d]) /\ ~In(h, runq[d])) /\ h \notin blocked BY <1>2 DEF PlacesOK
<1>8. \A u \in Tasks : thr[u] # h
  <2>1. h # NoThread BY <1>3, Distinct
  <2> QED BY <1>2, <2>1 DEF PlacesOK
<1>9. Queued(c, h) BY <1>2, <1>3, <1>7, Enqueued
<1>10. PlacesOK' BY <1>2, <1>3, <1>4, <1>7, <1>8, <1>9, Readied
<1> QED BY <1>6, <1>10

\* A call from outside keeps each thread in its place.
LEMMA EnterPlaces ==
  ASSUME Types, TasksOK, KindsOK, PlacesOK, NEW t \in Tasks, Enter(t)
  PROVE  t \in Callers /\ KindsOK' /\ PlacesOK'
<1>1. PICK c : c = cap[t] OBVIOUS
<1>2. /\ pc[t] = "enter" /\ live' = live \cup {t} /\ home' = [home EXCEPT ![t] = c]
      /\ runq' = [runq EXCEPT ![c] = Append(@, t)] /\ pc' = Goto(t, "loop")
      /\ UNCHANGED <<running, returning, spare, inbox, blocked, sync, tcap, wakeup, cap, seen,
           then, thr, push>>
  BY <1>1 DEF Enter
<1>3. KindOK(t) /\ CallerOK(t) BY DEF KindsOK
<1>4. t \in Callers /\ t \in Threads BY <1>2, <1>3 DEF KindOK, Tasks, Threads
<1>5. t \notin live BY <1>2, <1>3, <1>4 DEF CallerOK, InsideOK
<1>6. c \in Caps BY <1>1, QueuesAreSequences
<1>7. home'[t] = c /\ \A y \in Threads \ {t} : home'[y] = home[y] BY <1>2, <1>4 DEF Types
<1>8. "loop" \in Locations BY Everywhere
<1>9. pc'[t] = "loop" /\ \A u \in Tasks \ {t} : pc'[u] = pc[u] BY <1>2, <1>8, GotoOK
<1>10. \A u \in Tasks \ {t} : SamePlaces(u) BY <1>2, <1>7, <1>9, Distinct DEF SamePlaces
<1>11. KindOK(t)' BY <1>2, <1>3, <1>9 DEF KindOK, HasThreadAt, WaitsTo, AtHomeAt
<1>12. CallerOK(t)' BY <1>1, <1>2, <1>7, <1>9 DEF CallerOK, InsideOK, Sleeping
<1>13. KindsOK' BY <1>10, <1>11, <1>12, OneMoves
<1>14. (\A d \in Caps : ~In(t, inbox[d]) /\ ~In(t, runq[d])) /\ t \notin blocked
  BY <1>5 DEF PlacesOK
<1>15. \A u \in Tasks : thr[u] # t
  <2>1. t # NoThread BY <1>4, Distinct
  <2> QED BY <1>5, <2>1 DEF PlacesOK
<1>16. Queued(c, t) BY <1>2, <1>4, <1>6, <1>14, Enqueued
<1>17. PlacesOK' BY <1>2, <1>4, <1>6, <1>7, <1>14, <1>15, <1>16, Readied
<1> QED BY <1>4, <1>13, <1>17

\* releaseCapability_ with the threads where they are
LEMMA ReleasePlaces ==
  ASSUME Types, KindsOK, PlacesOK, NEW t \in Tasks, NEW c \in Caps, NEW p \in Locations,
         NEW aw, NEW sp, NEW late, NEW tcaps \in [Tasks -> Caps],
         Release(c, aw, sp, runq[c], inbox[c], late, Goto(t, p), tcaps),
         \A u \in Tasks \ {t} : tcaps[u] = tcap[u],
         UNCHANGED <<seen, then, thr, threads>>,
         p = "dead" => pc[t] = "yield_lock",
         pc'[t] = p /\ cap'[t] = cap[t] /\ tcap'[t] = tcaps[t] => KindOK(t)' /\ CallerOK(t)'
  PROVE  KindsOK' /\ PlacesOK'
<1>1. /\ inbox' = [inbox EXCEPT ![c] = inbox[c]] /\ runq' = [runq EXCEPT ![c] = runq[c]]
      /\ Released(c, Goto(t, p), tcaps)
  BY DEF Release, Released
<1>2. runq' = runq /\ inbox' = inbox BY <1>1, QueuesAreSequences
<1>3. home' = home /\ live' = live /\ blocked' = blocked BY DEF threads
<1>4. KindsOK' /\ \A u \in Tasks : thr[u] # NoThread => cap'[u] = cap[u]
  <2>1. PICK pcs : pcs = Goto(t, p) OBVIOUS
  <2>2. Released(c, pcs, tcaps) BY <1>1, <2>1
  <2> QED BY <1>3, <2>1, <2>2, ReleasedKinds
<1> QED BY <1>2, <1>3, <1>4, PlacesSame

\* The release in yieldCapability keeps each thread in its place.
LEMMA YieldReleasePlaces ==
  ASSUME Types, KindsOK, PlacesOK, NEW t \in Tasks, YieldRelease(t)
  PROVE  /\ KindsOK' /\ PlacesOK'
         /\ t \in Callers /\ ~IsBound(t) => then[t] # "acquire"
<1>1. pc[t] = "yield_lock" /\ UNCHANGED <<threads, sync, seen, then, thr, push>> BY DEF YieldRelease
<1>2. KindOK(t) /\ CallerOK(t) /\ cap[t] \in Caps /\ tcap \in [Tasks -> Caps] BY DEF KindsOK, Types
<1>3. home' = home /\ live' = live /\ Holds(t) BY <1>1 DEF threads, Holds, Holding
<1>4. then[t] # "acquire" BY <1>1, <1>2 DEF KindOK
<1>5. PICK c : c = cap[t] OBVIOUS
<1>6. ASSUME NEW p \in {"sleep", "dead", "ret_sleep"}, pc'[t] = p, tcap'[t] = tcap[t],
             cap'[t] = cap[t],
             p = "dead" => t \in Workers, p = "sleep" => t \in Workers \/ IsBound(t),
             p = "ret_sleep" => t \in Callers \ live
      PROVE  KindOK(t)' /\ CallerOK(t)'
  <2>0. t \in Callers => t \notin Workers BY Distinct
  <2>1. KindOK(t)'
    <3>1. p = "ret_sleep" => t \in Callers /\ then[t] = "sync_wait"
      BY <1>1, <1>2, <1>6 DEF CallerOK, OutsideOK, KindOK
    <3> QED BY <1>1, <1>2, <1>6, <2>0, <3>1 DEF KindOK, HasThreadAt, WaitsTo, AtHomeAt
  <2>2. ASSUME t \in Callers, t \in live PROVE InsideOK(t)'
    <3>1. pc'[t] = "sleep" BY <1>6, <2>0, <2>2
    <3>2. home[t] = cap[t] /\ tcap[t] = cap[t]
      BY <1>1, <1>2, <1>3, <2>2 DEF CallerOK, InsideOK, KindOK, AtHomeAt
    <3> QED BY <1>1, <1>3, <1>6, <3>1, <3>2 DEF InsideOK, Holds, Holding, Acquiring
  <2>3. ASSUME t \in Callers, t \notin live PROVE OutsideOK(t)'
    <3>1. pc'[t] = "ret_sleep" /\ then[t] = "sync_wait"
      BY <1>1, <1>2, <1>6, <2>0, <2>3 DEF IsBound, CallerOK, OutsideOK, KindOK
    <3> QED BY <1>1, <3>1 DEF OutsideOK
  <2> QED BY <1>3, <2>1, <2>2, <2>3 DEF CallerOK
<1>7. {"sleep", "dead", "ret_sleep"} \subseteq Locations BY Everywhere
<1>8. PICK p \in {"sleep", "dead", "ret_sleep"} : \E sp, late :
        /\ Release(c, FALSE, sp, runq[c], inbox[c], late, Goto(t, p), tcap)
        /\ p = "dead" => t \in Workers
        /\ p = "sleep" => t \in Workers \/ IsBound(t)
        /\ p = "ret_sleep" => t \in Callers \ live
  BY <1>5 DEF YieldRelease, ReleasePlain, IsBound
<1>9. KindsOK' /\ PlacesOK' BY <1>1, <1>2, <1>5, <1>6, <1>7, <1>8, ReleasePlaces
<1> QED BY <1>4, <1>9

\* A task that leaves keeps each thread in its place.
LEMMA LeavePlaces ==
  ASSUME Types, KindsOK, PlacesOK, NEW t \in Tasks, SuspendThread(t) \/ Exit(t)
  PROVE  KindsOK' /\ PlacesOK'
<1>1. PICK p \in {"ccall", "out"} : /\ pc[t] = (IF p = "ccall" THEN "run" ELSE "exit")
                                    /\ ReleasePlain(cap[t], Goto(t, p), tcap)
  BY DEF SuspendThread, Exit
<1>2. UNCHANGED <<threads, sync, seen, then, thr>> BY DEF SuspendThread, Exit
<1>3. KindOK(t) /\ CallerOK(t) /\ cap[t] \in Caps /\ tcap \in [Tasks -> Caps] BY DEF KindsOK, Types
<1>4. ASSUME pc'[t] = p, cap'[t] = cap[t], tcap'[t] = tcap[t] PROVE KindOK(t)' /\ CallerOK(t)'
  <2>1. KindOK(t)' BY <1>1, <1>2, <1>3, <1>4 DEF KindOK, HasThreadAt, WaitsTo, AtHomeAt
  <2>2. ASSUME t \in Callers, t \in live PROVE InsideOK(t)'
    BY <1>1, <1>3, <1>4, <2>2 DEF CallerOK, InsideOK, Sleeping, Holds, Holding, Acquiring
  <2>3. ASSUME t \in Callers, t \notin live PROVE OutsideOK(t)'
    BY <1>1, <1>3, <1>4, <2>3 DEF CallerOK, OutsideOK
  <2> QED BY <1>2, <2>1, <2>2, <2>3 DEF CallerOK, threads
<1>5. p \in Locations BY Everywhere
<1>6. PICK c \in Caps : c = cap[t] BY <1>3
<1>7. Release(c, FALSE, spare[c], runq[c], inbox[c], <<>>, Goto(t, p), tcap)
  BY <1>1, <1>6 DEF ReleasePlain
<1> QED BY <1>2, <1>3, <1>4, <1>5, <1>7, ReleasePlaces

\* t stays where what it has on its mind makes no difference.
LEMMA BusyPlaces ==
  ASSUME NEW t \in Tasks, KindOK(t), CallerOK(t),
         pc[t] \in {"push", "push_back", "push_release", "release", "acquire"},
         pc'[t] \in {"push", "push_back", "push_release", "release", "acquire"},
         pc[t] \in {"push", "push_back", "push_release"} <=> pc'[t] \in {"push", "push_back",
         "push_release"},
         cap'[t] = cap[t], UNCHANGED <<thr, home, live, then>>
  PROVE  KindOK(t)' /\ CallerOK(t)'
<1>1. KindOK(t)' BY DEF KindOK, HasThreadAt, WaitsTo, AtHomeAt
<1>2. Holds(t) BY DEF Holds, Holding
<1>3. CallerOK(t)' BY <1>2 DEF CallerOK, InsideOK, OutsideOK, Sleeping
<1> QED BY <1>1, <1>3

\* schedulePushWork that takes a capability keeps each thread in its place.
LEMMA GrabPlaces ==
  ASSUME Types, KindsOK, PlacesOK, NEW t \in Tasks, Grab(t) \/ GrabFails(t)
  PROVE  KindsOK' /\ PlacesOK'
<1>1. pc[t] = "push" /\ UNCHANGED <<queues, threads, cap, seen, then, thr>> BY DEF Grab, GrabFails
<1>2. home' = home /\ live' = live BY <1>1 DEF threads
<1>3. PICK p \in {"push", "push_back"} : pc' = Goto(t, p)
  <2>1. pc = Goto(t, "push") BY <1>1 DEF Goto, Types
  <2> QED BY <2>1 DEF Grab, GrabFails
<1>4. \A u \in Tasks \ {t} : tcap'[u] = tcap[u] BY DEF Grab, GrabFails, Types
<1>5. KindOK(t) /\ CallerOK(t) BY DEF KindsOK
<1>6. p \in Locations BY Everywhere
<1>7. ASSUME pc'[t] = p PROVE KindOK(t)' /\ CallerOK(t)' BY <1>1, <1>2, <1>5, <1>7, BusyPlaces
<1>8. KindsOK' BY <1>1, <1>2, <1>3, <1>4, <1>6, <1>7, GoesPlaces
<1>9. PlacesOK' BY <1>1, PlacesSame DEF queues, threads
<1> QED BY <1>8, <1>9

\* Back home from the grabbed capabilities, or from the collection
LEMMA HomeAgainPlaces ==
  ASSUME Types, KindsOK, PlacesOK, NEW t \in Tasks, tcap' = [tcap EXCEPT ![t] = cap[t]],
         NEW p \in {"yield", "release", "loop", "exit"}, pc' = Goto(t, p),
         \/ pc[t] \in {"push", "push_release"} /\ p = "yield"
         \/ pc[t] = "acquire" /\ p = "release"
         \/ pc[t] = "release" /\ p = AfterGC(t),
         UNCHANGED <<queues, threads, cap, seen, then, thr>>
  PROVE  KindsOK' /\ PlacesOK'
<1>1. KindOK(t) /\ CallerOK(t) BY DEF KindsOK
<1>2. home' = home /\ live' = live BY DEF threads
<1>3. tcap'[t] = cap[t] /\ \A u \in Tasks \ {t} : tcap'[u] = tcap[u] BY DEF Types
<1>4. ASSUME pc'[t] = p PROVE KindOK(t)' /\ CallerOK(t)'
  <2>1. KindOK(t)' BY <1>1, <1>3, <1>4 DEF KindOK, HasThreadAt, WaitsTo, AtHomeAt, AfterGC, IsBound
  <2>2. Holds(t) BY DEF Holds, Holding
  <2>3. t \in Callers /\ t \in live => InsideOK(t)'
    BY <1>1, <1>2, <1>4, <2>2 DEF CallerOK, InsideOK, Sleeping, AfterGC, IsBound
  <2>4. t \in Callers /\ t \notin live => OutsideOK(t)'
    BY <1>1, <1>2, <1>4, Distinct DEF CallerOK, OutsideOK, AfterGC, IsBound
  <2> QED BY <1>2, <2>1, <2>3, <2>4 DEF CallerOK
<1>5. p \in Locations BY Everywhere
<1>6. KindsOK' BY <1>2, <1>3, <1>4, <1>5, GoesPlaces
<1>7. PlacesOK' BY PlacesSame DEF queues, threads
<1> QED BY <1>6, <1>7

\* schedulePushWork that gives a capability back at once keeps each thread in its place.
LEMMA PushBackPlaces ==
  ASSUME Types, KindsOK, PlacesOK, NEW t \in Tasks, PushBack(t)
  PROVE  KindsOK' /\ PlacesOK'
<1>1. PICK c \in Caps : c = Candidate(t) BY CandidateOK
<1>2. pc[t] = "push_back" /\ UNCHANGED <<threads, sync, seen, then, thr, grabbed>>
      /\ Release(c, FALSE, spare[c], runq[c], inbox[c], <<>>, Goto(t, "push"), tcap)
  BY <1>1 DEF PushBack, ReleasePlain
<1>3. KindOK(t) /\ CallerOK(t) /\ tcap \in [Tasks -> Caps] BY DEF KindsOK, Types
<1>4. home' = home /\ live' = live BY <1>2 DEF threads
<1>5. ASSUME pc'[t] = "push", cap'[t] = cap[t] PROVE KindOK(t)' /\ CallerOK(t)'
  BY <1>2, <1>3, <1>4, <1>5, BusyPlaces
<1>6. "push" \in Locations BY Everywhere
<1> QED BY <1>2, <1>3, <1>5, <1>6, ReleasePlaces

\* One of several capabilities is released.
LEMMA ReleaseOnePlaces ==
  ASSUME Types, KindsOK, PlacesOK, NEW t \in Tasks, NEW c \in Caps, pc[t] \in {"push_release",
         "release"},
         ReleasePlain(c, pc, [tcap EXCEPT ![t] = c]), UNCHANGED <<threads, sync, seen, then, thr>>
  PROVE  KindsOK' /\ PlacesOK'
<1>1. pc = Goto(t, pc[t]) /\ pc[t] \in Locations BY DEF Goto, Types
<1>2. PICK p \in Locations : p = pc[t] BY <1>1
<1>3. PICK tcaps : tcaps = [tcap EXCEPT ![t] = c] OBVIOUS
<1>4. tcaps \in [Tasks -> Caps] /\ \A u \in Tasks \ {t} : tcaps[u] = tcap[u] BY <1>3 DEF Types
<1>5. Release(c, FALSE, spare[c], runq[c], inbox[c], <<>>, Goto(t, p), tcaps)
  BY <1>1, <1>2, <1>3 DEF ReleasePlain
<1>6. KindOK(t) /\ CallerOK(t) /\ home' = home /\ live' = live BY DEF KindsOK, threads
<1>7. ASSUME pc'[t] = p, cap'[t] = cap[t] PROVE KindOK(t)' /\ CallerOK(t)'
  BY <1>2, <1>6, <1>7, BusyPlaces
<1>8. p # "dead" BY <1>2
<1> QED BY <1>4, <1>5, <1>7, <1>8, ReleasePlaces

\* schedulePushWork that releases what it has shared with keeps each thread in its place.
LEMMA PushReleasePlaces ==
  ASSUME Types, TasksOK, KindsOK, PlacesOK, NEW t \in Tasks, PushRelease(t)
  PROVE  KindsOK' /\ PlacesOK'
<1>1. CASE grabbed[t] = <<>> BY <1>1, HomeAgainPlaces DEF PushRelease
<1>2. CASE grabbed[t] # <<>>
  <2>1. grabbed[t] \in Seq(Caps) BY DEF Types
  <2>2. Head(grabbed[t]) \in Caps BY <1>2, <2>1, InTail
  <2> QED BY <1>2, <2>2, ReleaseOnePlaces DEF PushRelease
<1> QED BY <1>1, <1>2

\* A collection keeps each thread in its place.
LEMMA CollectPlaces ==
  ASSUME Types, TasksOK, KindsOK, PlacesOK, NEW t \in Tasks, Collect(t) \/ ReleaseAll(t)
  PROVE  KindsOK' /\ PlacesOK'
<1>1. CASE Collect(t) BY <1>1, HomeAgainPlaces DEF Collect
<1>2. CASE ReleaseAll(t)
  <2>1. PICK others : others = {c \in Caps : running[c] = t} \ {cap[t]} OBVIOUS
  <2>2. CASE others = {}
    <3>1. AfterGC(t) \in {"loop", "exit"} BY DEF AfterGC
    <3> QED BY <1>2, <2>1, <2>2, <3>1, HomeAgainPlaces DEF ReleaseAll
  <2>3. CASE others # {}
    <3>1. PICK c \in Caps : c = Min(others) BY <2>1, <2>3, MinOK
    <3>2. pc[t] = "release" /\ ReleasePlain(c, pc, [tcap EXCEPT ![t] = c]) /\ UNCHANGED <<threads,
          sync, seen, then, thr>>
      BY <1>2, <2>1, <2>3, <3>1 DEF ReleaseAll
    <3> QED BY <3>2, ReleaseOnePlaces
  <2> QED BY <2>2, <2>3
<1> QED BY <1>1, <1>2

\* A task that does not get the capability at once keeps each thread in its place.
LEMMA WaitPlaces ==
  ASSUME Types, TasksOK, KindsOK, PlacesOK, NEW t \in Tasks, NEW c \in Caps, NEW p,
         \/ p = "acquire" /\ pc[t] = "acquire"
         \/ p = "run" /\ pc[t] = "ccall" /\ c = cap[t]
         \/ p \in {"enter", "sync"} /\ pc[t] = "out",
         WaitForCapability(t, c, p), UNCHANGED <<threads, thr>>
  PROVE  KindsOK' /\ PlacesOK'
<1>1. /\ tcap' = [tcap EXCEPT ![t] = c]
      /\ UNCHANGED <<spare, runq, inbox, sync, wakeup, seen, push>>
      /\ \/ /\ cap' = [cap EXCEPT ![t] = IF p = "acquire" THEN @ ELSE c]
            /\ pc' = Goto(t, p) /\ then' = then
         \/ /\ pc' = Goto(t, "ret_sleep") /\ then' = [then EXCEPT ![t] = p] /\ cap' = cap
  BY DEF WaitForCapability
<1>2. tcap'[t] = c /\ \A u \in Tasks \ {t} : tcap'[u] = tcap[u] BY <1>1 DEF Types
<1>3. home' = home /\ live' = live /\ blocked' = blocked BY DEF threads
<1>4. KindOK(t) /\ CallerOK(t) BY DEF KindsOK
<1>5. p \in Locations /\ "ret_sleep" \in Locations BY Everywhere
<1>6. PICK q \in {p, "ret_sleep"} : pc' = Goto(t, q) /\ (q = "ret_sleep" => then'[t] = p
        /\ cap' = cap)
                                    /\ (q = p => cap'[t] = (IF p = "acquire" THEN cap[t] ELSE c))
                                    /\ \A u \in Tasks \ {t} : then'[u] = then[u] /\ cap'[u] = cap[u]
  <2>1. CASE /\ cap' = [cap EXCEPT ![t] = IF p = "acquire" THEN @ ELSE c]
             /\ pc' = Goto(t, p) /\ then' = then
    <3>1. p # "ret_sleep" OBVIOUS
    <3>2. /\ cap'[t] = (IF p = "acquire" THEN cap[t] ELSE c)
          /\ \A u \in Tasks \ {t} : then'[u] = then[u] /\ cap'[u] = cap[u]
      BY <2>1 DEF Types
    <3> QED BY <2>1, <3>1, <3>2
  <2>2. CASE pc' = Goto(t, "ret_sleep") /\ then' = [then EXCEPT ![t] = p] /\ cap' = cap
    <3>1. p # "ret_sleep" OBVIOUS
    <3>2. then'[t] = p /\ \A u \in Tasks \ {t} : then'[u] = then[u] /\ cap'[u] = cap[u]
      BY <2>2 DEF Types
    <3> QED BY <2>2, <3>1, <3>2
  <2> QED BY <1>1, <2>1, <2>2
<1>7. q \in Locations BY <1>5
<1>8. pc'[t] = q /\ \A u \in Tasks \ {t} : pc'[u] = pc[u] BY <1>6, <1>7, GotoOK
<1>9. \A u \in Tasks \ {t} : SamePlaces(u) BY <1>1, <1>2, <1>3, <1>6, <1>8 DEF SamePlaces
<1>10. thr' = thr /\ (thr[t] # NoThread <=> p = "run") BY <1>4 DEF KindOK, HasThreadAt, WaitsTo
<1>11. KindOK(t)' BY <1>2, <1>4, <1>6, <1>8, <1>10 DEF KindOK, HasThreadAt, WaitsTo, AtHomeAt
<1>12. ASSUME t \in Callers, t \in live PROVE InsideOK(t)'
  <2>1. InsideOK(t) BY <1>4, <1>12 DEF CallerOK
  <2>2. p \in {"acquire", "run"} BY <2>1 DEF InsideOK
  <2>3. home[t] = cap[t]
    <3>1. CASE p = "acquire"
      <4>1. Holds(t) BY <3>1 DEF Holds, Holding
      <4> QED BY <2>1, <4>1 DEF InsideOK
    <3>2. CASE p = "run"
      <4>1. thr[t] # NoThread BY <1>10, <3>2
      <4>2. thr[t] = t BY <1>12, <4>1, HasThread, Distinct
      <4> QED BY <4>1, <4>2, HasThread
    <3> QED BY <2>2, <3>1, <3>2
  <2>4. cap'[t] = cap[t] BY <1>6, <2>2
  <2>5. CASE q = "ret_sleep" /\ p = "acquire"
    BY <1>3, <1>6, <1>8, <2>3, <2>4, <2>5 DEF InsideOK, Acquiring
  <2>6. CASE q = "ret_sleep" /\ p = "run"
    BY <1>2, <1>3, <1>6, <1>8, <2>3, <2>4, <2>6 DEF InsideOK, Acquiring
  <2>7. CASE q = p BY <1>3, <1>8, <2>2, <2>3, <2>4, <2>7 DEF InsideOK, Sleeping
  <2> QED BY <2>2, <2>5, <2>6, <2>7
<1>13. ASSUME t \in Callers, t \notin live PROVE OutsideOK(t)'
  <2>1. OutsideOK(t) BY <1>4, <1>13 DEF CallerOK
  <2> QED BY <1>6, <1>8, <2>1 DEF OutsideOK
<1>14. KindsOK' BY <1>3, <1>9, <1>11, <1>12, <1>13, OneMoves DEF CallerOK
<1>15. \A u \in Tasks : thr[u] # NoThread => cap'[u] = cap[u] BY <1>6, <1>10
<1>16. PlacesOK' BY <1>1, <1>3, <1>10, <1>15, PlacesSame
<1> QED BY <1>14, <1>16

\* A step of a foreign call or of an API call keeps each thread in its place.
LEMMA CallsPlaces ==
  ASSUME Types, TasksOK, KindsOK, PlacesOK, NEW t \in Tasks, NEW c \in Caps,
         ResumeThread(t) \/ RtsLock(t, c) \/ PerformGC(t, c) \/ Acquire(t)
  PROVE  KindsOK' /\ PlacesOK'
<1>1. cap[t] \in Caps BY DEF Types
<1>2. CASE ResumeThread(t) BY <1>1, <1>2, WaitPlaces DEF ResumeThread
<1>3. CASE RtsLock(t, c) BY <1>3, WaitPlaces DEF RtsLock
<1>4. CASE PerformGC(t, c) BY <1>4, WaitPlaces DEF PerformGC
<1>5. CASE Acquire(t)
  <2>1. Missing(t) \subseteq Caps BY DEF Missing
  <2>2. PICK d \in Caps : d = Min(Missing(t)) BY <1>5, <2>1, MinOK DEF Acquire
  <2>3. pc[t] = "acquire" /\ WaitForCapability(t, d, "acquire") /\ UNCHANGED <<threads, thr>>
    BY <1>5, <2>2 DEF Acquire
  <2> QED BY <2>3, WaitPlaces
<1> QED BY <1>2, <1>3, <1>4, <1>5

\* A bound thread that is ready waits for its task, and the task is asleep.
LEMMA QueuedTask ==
  ASSUME Types, KindsOK, PlacesOK, NEW c \in Caps, NEW u \in Callers, In(u, runq[c]), ~Holds(u)
  PROVE  u \in Tasks /\ u \in live /\ thr[u] = NoThread /\ pc[u] \in {"sleep", "woken"}
           /\ tcap[u] = c
<1>1. u \in live /\ home[u] = c BY DEF PlacesOK
<1>2. u \in Tasks BY Distinct
<1>3. KindOK(u) /\ InsideOK(u) BY <1>1, <1>2 DEF KindsOK, CallerOK
<1>4. thr[u] = NoThread
  <2> SUFFICES ASSUME thr[u] # NoThread PROVE FALSE OBVIOUS
  <2>1. thr[u] = u BY <1>2, HasThread, Distinct
  <2>2. ~In(thr[u], runq[c]) BY <1>2, HasThread
  <2> QED BY <2>1, <2>2
<1>5. pc[u] \in {"sleep", "woken"}
  <2>1. pc[u] \in Locations BY <1>2 DEF Types
  <2>2. pc[u] \notin Holding /\ ~Acquiring(u) BY DEF Holds
  <2>3. pc[u] \notin {"ret_sleep", "ret_woken"}
    BY <1>3, <1>4, <2>2 DEF InsideOK, KindOK, HasThreadAt, WaitsTo, Acquiring
  <2>4. pc[u] \notin {"ccall", "out", "dead"} BY <1>3, <1>4 DEF InsideOK, KindOK, HasThreadAt
  <2> QED BY <2>1, <2>2, <2>3, <2>4 DEF Locations, Sleeping
<1>6. tcap[u] = c BY <1>1, <1>3, <1>5 DEF InsideOK, Sleeping, Holds
<1> QED BY <1>1, <1>2, <1>4, <1>5, <1>6

\* schedulePushWork moves threads that are ready, and the tasks of the bound ones sleep.
LEMMA Pushed ==
  ASSUME Types, TasksOK, KindsOK, PlacesOK, NEW t \in Tasks, ShareThreads(t), grabbed[t] # <<>>,
         NEW dest, dest = Dest(t), NEW c \in Caps, c = cap[t]
  PROVE  /\ \A h \in DOMAIN dest : /\ In(h, runq[c]) /\ h \in live \ blocked /\ home[h] = c
                                        /\ dest[h] # c /\ h # t
                                  /\ dest[h] \in Caps
         /\ \A u \in Tasks : u \in DOMAIN dest =>
              u \in Callers /\ u \in live /\ u # t /\ ~Holds(u) /\ thr[u] = NoThread
                /\ pc[u] \in {"sleep", "woken"}
         /\ \A u \in Tasks : tcap'[u] = IF u \in DOMAIN dest THEN dest[u] ELSE tcap[u]
<1>1. PICK moved : moved = Share(t).moved OBVIOUS
<1>2. pc[t] = "push" /\ tcap' = TaskCaps(dest) BY DEF ShareThreads
<1>3. /\ moved \in Seq(Threads)
      /\ DOMAIN dest \subseteq Threads /\ \A h : h \in DOMAIN dest <=> In(h, moved)
      /\ \A h \in DOMAIN dest : dest[h] \in Caps /\ In(dest[h], grabbed[t])
  BY <1>1, DestOK
<1>4. TaskOK(t) BY DEF TasksOK
<1>5. /\ \A x : In(x, moved) => In(x, runq[c]) /\ ~Stays(t, x)
  <2>1. runq[cap[t]] \in Seq(Threads) /\ grabbed[t] \in Seq(Caps) BY DEF Types
  <2> QED BY <1>1, <2>1, ShareAll
<1>6. ASSUME NEW h \in DOMAIN dest
      PROVE  In(h, runq[c]) /\ h \in live \ blocked /\ home[h] = c /\ dest[h] # c /\ h # t
  <2>1. In(h, runq[c]) /\ h # t BY <1>3, <1>5 DEF Stays
  <2>2. h \in live \ blocked /\ home[h] = c BY <2>1 DEF PlacesOK
  <2>3. dest[h] # c BY <1>3, <1>4 DEF TaskOK, PushOK, In
  <2> QED BY <2>1, <2>2, <2>3
<1>7. ASSUME NEW u \in Tasks, u \in DOMAIN dest
      PROVE  u \in Callers /\ u \in live /\ u # t /\ ~Holds(u) /\ thr[u] = NoThread
               /\ pc[u] \in {"sleep", "woken"}
  <2>1. u \in live /\ u # t /\ home[u] = c /\ In(u, runq[c]) BY <1>6, <1>7
  <2>2. u \in Callers
    <3>1. u \in Threads BY <2>1, QueuesAreSequences
    <3>2. u \in Workers \/ u \in Callers BY DEF Tasks
    <3> QED BY <3>1, <3>2, CapabilityAssumption DEF Threads
  <2>3. InsideOK(u) /\ TaskOK(u) BY <2>1, <2>2 DEF KindsOK, CallerOK, TasksOK
  <2>4. ~Holds(u)
    <3>1. running[c] = t BY <1>2, <1>4 DEF TaskOK, OwnerOK, Holds, Holding
    <3>2. Holds(u) => running[c] = u BY <2>1, <2>3 DEF InsideOK, TaskOK, OwnerOK
    <3> QED BY <2>1, <3>1, <3>2
  <2> QED BY <2>1, <2>2, <2>4, QueuedTask
<1>8. \A u \in Tasks : tcap'[u] = IF u \in DOMAIN dest THEN dest[u] ELSE tcap[u]
  BY <1>2 DEF TaskCaps
<1> QED BY <1>3, <1>6, <1>7, <1>8

\* schedulePushWork that shares its threads keeps each thread in its place.
LEMMA ShareThreadsPlaces ==
  ASSUME Types, TasksOK, KindsOK, PlacesOK, NEW t \in Tasks, ShareThreads(t)
  PROVE  KindsOK' /\ PlacesOK'
<1>1. PICK c \in Caps : c = cap[t] BY DEF Types
<1>2. pc[t] = "push" /\ UNCHANGED <<running, returning, spare, inbox, blocked, live, sync, wakeup,
      cap, seen, then, thr, grabbed>>
  BY DEF ShareThreads
<1>3. CASE grabbed[t] = <<>>
  <2>1. tcap' = [tcap EXCEPT ![t] = cap[t]] /\ pc' = Goto(t, "yield") /\ UNCHANGED <<runq, home>>
    BY <1>3 DEF ShareThreads
  <2> QED BY <1>2, <2>1, HomeAgainPlaces DEF queues, threads
<1>4. CASE grabbed[t] # <<>>
  <2>1. PICK dest : dest = Dest(t) OBVIOUS
  <2>2. PICK rest, moved : rest = Share(t).rest /\ moved = Share(t).moved OBVIOUS
  <2>3. /\ runq' = [d \in Caps |-> IF d = c THEN rest
                                   ELSE runq[d] \o Keep(moved, {h \in DOMAIN dest : dest[h] = d})]
        /\ home' = [h \in Threads |-> IF h \in DOMAIN dest THEN dest[h] ELSE home[h]]
        /\ tcap' = TaskCaps(dest)
        /\ pc' = Goto(t, "push_release")
    BY <1>1, <1>4, <2>1, <2>2 DEF ShareThreads
  <2>4. /\ rest \in Seq(Threads) /\ moved \in Seq(Threads)
        /\ DOMAIN dest \subseteq Threads /\ \A h : h \in DOMAIN dest <=> In(h, moved)
        /\ \A h \in DOMAIN dest : dest[h] \in Caps /\ In(dest[h], grabbed[t])
    BY <1>4, <2>1, <2>2, DestOK
  <2>5. runq[c] \in Seq(Threads) /\ OnceIn(runq[c]) /\ TaskOK(t)
    BY QueuesAreSequences DEF PlacesOK, TasksOK
  <2>6. /\ \A x : In(x, runq[c]) <=> In(x, rest) \/ In(x, moved)
        /\ \A x : In(x, moved) => ~Stays(t, x)
        /\ OnceIn(rest) /\ OnceIn(moved) /\ \A x : ~(In(x, rest) /\ In(x, moved))
    <3>1. runq[cap[t]] \in Seq(Threads) /\ grabbed[t] \in Seq(Caps) BY DEF Types
    <3> QED BY <1>1, <2>2, <2>5, <3>1, ShareAll
  <2>7. \A h \in DOMAIN dest : /\ In(h, runq[c]) /\ h \in live \ blocked /\ home[h] = c
                                    /\ dest[h] # c /\ h # t
                               /\ dest[h] \in Caps
    BY <1>1, <1>4, <2>1, Pushed
  <2>8. \A d \in Caps : d # c =>
          /\ \A x : In(x, runq'[d]) <=> In(x, runq[d]) \/ (x \in DOMAIN dest /\ dest[x] = d)
          /\ OnceIn(runq'[d])
    <3> SUFFICES ASSUME NEW d \in Caps, d # c
                 PROVE  /\ \A x : In(x, runq'[d]) <=> In(x, runq[d]) \/ (x \in DOMAIN dest
                             /\ dest[x] = d)
                        /\ OnceIn(runq'[d])
      OBVIOUS
    <3>1. PICK k : k = Keep(moved, {h \in DOMAIN dest : dest[h] = d}) OBVIOUS
    <3>2. /\ k \in Seq(Threads) /\ (\A x : In(x, k) <=> In(x, moved) /\ x \in {h \in DOMAIN dest :
               dest[h] = d})
          /\ OnceIn(k)
      BY <2>4, <2>6, <3>1, KeepAll
    <3>3. runq[d] \in Seq(Threads) /\ OnceIn(runq[d]) /\ runq'[d] = runq[d] \o k
      BY <2>3, <3>1, QueuesAreSequences DEF PlacesOK
    <3>4. \A x : ~(In(x, runq[d]) /\ In(x, k))
      <4> SUFFICES ASSUME NEW x, In(x, runq[d]), In(x, k) PROVE FALSE OBVIOUS
      <4>1. home[x] = d BY DEF PlacesOK
      <4>2. x \in DOMAIN dest BY <3>2
      <4> QED BY <2>7, <4>1, <4>2
    <3>5. /\ \A x : In(x, runq[d] \o k) <=> In(x, runq[d]) \/ In(x, k)
          /\ OnceIn(runq[d] \o k)
      BY <3>2, <3>3, <3>4, InConcat
    <3>6. \A x : In(x, k) <=> x \in DOMAIN dest /\ dest[x] = d BY <2>4, <3>2
    <3> QED BY <3>3, <3>5, <3>6
  <2>9. /\ \A x : In(x, runq'[c]) <=> In(x, runq[c]) /\ x \notin DOMAIN dest
        /\ OnceIn(runq'[c])
    <3>1. runq'[c] = rest BY <2>3
    <3> QED BY <2>4, <2>6, <3>1
  <2>10. \A h \in Threads : home'[h] = IF h \in DOMAIN dest THEN dest[h] ELSE home[h] BY <2>3
  <2>11. \A u \in Tasks : tcap'[u] = IF u \in DOMAIN dest THEN dest[u] ELSE tcap[u]
    BY <2>3 DEF TaskCaps
  <2>12. "push_release" \in Locations BY Everywhere
  <2>13. pc'[t] = "push_release" /\ \A u \in Tasks \ {t} : pc'[u] = pc[u] BY <2>3, <2>12, GotoOK
  <2>14. \A u \in Tasks : u \in DOMAIN dest =>
           u \in Callers /\ u \in live /\ u # t /\ ~Holds(u) /\ thr[u] = NoThread
             /\ pc[u] \in {"sleep", "woken"}
    BY <1>1, <1>4, <2>1, Pushed
  <2>15. KindsOK'
    <3>1. ASSUME NEW u \in Tasks, u \in DOMAIN dest PROVE KindOK(u)' /\ CallerOK(u)'
      <4>1. u \in Callers /\ u \in live /\ u # t /\ ~Holds(u) /\ thr[u] = NoThread
              /\ pc[u] \in {"sleep", "woken"}
        BY <2>14, <3>1
      <4>2. KindOK(u) /\ InsideOK(u) BY <4>1 DEF KindsOK, CallerOK
      <4>3. pc'[u] = pc[u] /\ tcap'[u] = dest[u] /\ home'[u] = dest[u]
        BY <2>4, <2>10, <2>11, <2>13, <3>1, <4>1
      <4>4. u \notin Workers BY <4>1, Distinct
      <4>5. KindOK(u)' BY <1>2, <4>1, <4>2, <4>3, <4>4 DEF KindOK, HasThreadAt, WaitsTo, AtHomeAt
      <4>6. InsideOK(u)' BY <1>2, <4>1, <4>2, <4>3 DEF InsideOK, Holds, Holding, Acquiring
      <4> QED BY <1>2, <4>1, <4>5, <4>6 DEF CallerOK
    <3>2. ASSUME NEW u \in Tasks \ {t}, u \notin DOMAIN dest PROVE KindOK(u)' /\ CallerOK(u)'
      <4>1. u \in Callers => home'[u] = home[u] BY <2>10, <3>2, Distinct
      <4>2. SamePlaces(u) BY <1>2, <2>11, <2>13, <3>2, <4>1 DEF SamePlaces
      <4> QED BY <4>2, SamePlacesOK DEF KindsOK
    <3>3. KindOK(t)' /\ CallerOK(t)'
      <4>1. t \notin DOMAIN dest BY <2>7
      <4>2. KindOK(t) /\ CallerOK(t) /\ Holds(t) BY <1>2 DEF KindsOK, Holds, Holding
      <4>3. KindOK(t)' BY <1>2, <2>13, <4>2 DEF KindOK, HasThreadAt, WaitsTo, AtHomeAt
      <4>4. t \in Callers => home'[t] = home[t] BY <2>10, <4>1, Distinct
      <4>5. CallerOK(t)' BY <1>2, <2>13, <4>2, <4>4 DEF CallerOK, InsideOK, OutsideOK, Sleeping
      <4> QED BY <4>3, <4>5
    <3> QED BY <3>1, <3>2, <3>3 DEF KindsOK
  <2>16. \A d \in Caps : \A x : In(x, runq'[d]) <=> \/ In(x, runq[d]) /\ x \notin DOMAIN dest
                                                    \/ x \in DOMAIN dest /\ dest[x] = d
    <3> SUFFICES ASSUME NEW d \in Caps, NEW x
                 PROVE  In(x, runq'[d]) <=> \/ In(x, runq[d]) /\ x \notin DOMAIN dest
                                            \/ x \in DOMAIN dest /\ dest[x] = d
      OBVIOUS
    <3>1. CASE d = c BY <2>7, <2>9, <3>1
    <3>2. CASE d # c
      <4>1. In(x, runq[d]) => home[x] = d BY DEF PlacesOK
      <4> QED BY <2>7, <2>8, <3>2, <4>1
    <3> QED BY <3>1, <3>2
  <2>17. \A d \in Caps : OnceIn(runq'[d]) BY <2>8, <2>9
  <2>18. PlacesOK'
    <3>1. \A d \in Caps : \A x : In(x, runq'[d]) => x \in live' \ blocked' /\ home'[x] = d
      <4> SUFFICES ASSUME NEW d \in Caps, NEW x, In(x, runq'[d])
                   PROVE  x \in live \ blocked /\ home'[x] = d
        BY <1>2
      <4>1. CASE x \in DOMAIN dest BY <2>4, <2>7, <2>10, <2>16, <4>1
      <4>2. CASE x \notin DOMAIN dest
        <5>1. In(x, runq[d]) BY <2>16, <4>2
        <5>2. x \in live \ blocked /\ home[x] = d BY <5>1 DEF PlacesOK
        <5>3. x \in Threads BY <5>2, QueuesAreSequences
        <5> QED BY <2>10, <4>2, <5>2, <5>3
      <4> QED BY <4>1, <4>2
    <3>2. \A d \in Caps : \A x : In(x, inbox'[d]) => x \in blocked' /\ home'[x] = d
      <4> SUFFICES ASSUME NEW d \in Caps, NEW x, In(x, inbox[d]) PROVE x \in blocked /\ home'[x] = d
        BY <1>2
      <4>1. x \in blocked /\ home[x] = d BY DEF PlacesOK
      <4>2. x \notin DOMAIN dest /\ x \in Threads BY <2>7, <4>1, QueuesAreSequences
      <4> QED BY <2>10, <4>1, <4>2
    <3>3. ASSUME NEW u \in Tasks, thr'[u] # NoThread
          PROVE  /\ thr'[u] \in live' \ blocked' /\ home'[thr'[u]] = cap'[u] /\ ~In(thr'[u],
                    runq'[cap'[u]])
                 /\ thr'[u] = u \/ (thr'[u] \in Unbound /\ u \in Workers)
      <4>1. PICK x : x = thr[u] OBVIOUS
      <4>2. /\ x \in live \ blocked /\ home[x] = cap[u] /\ x \in Threads
            /\ \A d \in Caps : ~In(x, runq[d])
            /\ x = u \/ (x \in Unbound /\ u \in Workers)
        BY <1>2, <3>3, <4>1, HasThread
      <4>3. x \notin DOMAIN dest BY <2>7, <4>2
      <4>4. cap[u] \in Caps BY QueuesAreSequences
      <4>5. ~In(x, runq'[cap[u]]) BY <2>16, <4>2, <4>3, <4>4
      <4>6. home'[x] = home[x] BY <2>10, <4>2, <4>3
      <4> QED BY <1>2, <4>1, <4>2, <4>5, <4>6
    <3>4. \A x \in live' \ blocked' : In(x, runq'[home'[x]]) \/ \E u \in Tasks : thr'[u] = x
      <4> SUFFICES ASSUME NEW x \in live \ blocked
                   PROVE  In(x, runq'[home'[x]]) \/ \E u \in Tasks : thr[u] = x
        BY <1>2
      <4>1. x \in Threads /\ home[x] \in Caps BY QueuesAreSequences
      <4>2. CASE x \in DOMAIN dest
        <5>1. home'[x] = dest[x] /\ dest[x] \in Caps BY <2>4, <2>10, <4>1, <4>2
        <5> QED BY <2>16, <4>2, <5>1
      <4>3. CASE x \notin DOMAIN dest
        <5>1. home'[x] = home[x] BY <2>10, <4>1, <4>3
        <5>2. In(x, runq[home[x]]) \/ \E u \in Tasks : thr[u] = x BY DEF PlacesOK
        <5> QED BY <2>16, <4>1, <4>3, <5>1, <5>2
      <4> QED BY <4>2, <4>3
    <3>5. blocked' \subseteq live' /\ \A d \in Caps : OnceIn(inbox'[d]) BY <1>2 DEF PlacesOK
    <3>6. \A u, v \in Tasks : thr'[u] # NoThread /\ thr'[u] = thr'[v] => u = v BY <1>2 DEF PlacesOK
    <3> QED BY <2>17, <3>1, <3>2, <3>3, <3>4, <3>5, <3>6 DEF PlacesOK
  <2> QED BY <2>15, <2>18
<1> QED BY <1>3, <1>4

----------------------------------------------------------------------------

\* The first half of the inductive invariant: owners, and places
PlacesInv == Types /\ TasksOK /\ KindsOK /\ PlacesOK

\* It holds initially.
LEMMA InitPlaces ==
  Init => PlacesInv
<1> SUFFICES ASSUME Init PROVE PlacesInv OBVIOUS
<1>1. PICK w \in [Caps -> Workers] :
        /\ \A c, d \in Caps : w[c] = w[d] => c = d
        /\ running = w
        /\ pc = [t \in Tasks |-> IF t \in Callers THEN "out"
                                 ELSE IF \E c \in Caps : w[c] = t THEN "loop" ELSE "dead"]
        /\ cap = [t \in Tasks |-> IF \E c \in Caps : w[c] = t
                                  THEN CHOOSE c \in Caps : w[c] = t ELSE 0]
  BY DEF Init
<1>2. /\ tcap = cap
      /\ returning = [c \in Caps |-> <<>>]
      /\ spare = [c \in Caps |-> <<>>]
      /\ runq = [c \in Caps |-> <<>>]
      /\ inbox = [c \in Caps |-> <<>>]
      /\ home = [h \in Threads |-> 0]
      /\ blocked = {} /\ live = {}
      /\ sync = NoTask
      /\ wakeup = [t \in Tasks |-> FALSE]
      /\ seen = [t \in Tasks |-> 0]
      /\ then = [t \in Tasks |-> "loop"]
      /\ thr = [t \in Tasks |-> NoThread]
      /\ looked = [t \in Tasks |-> 0]
      /\ grabbed = [t \in Tasks |-> <<>>]
  BY DEF Init
<1>3. 0 \in Caps BY CapabilityAssumption DEF Caps
<1>4. \A c \in Caps : w[c] \in Workers /\ w[c] \in Tasks /\ w[c] \notin Callers BY Distinct
<1>5. \A t \in Tasks, c \in Caps : w[c] = t => cap[t] = c
  <2> SUFFICES ASSUME NEW t \in Tasks, NEW c \in Caps, w[c] = t PROVE cap[t] = c OBVIOUS
  <2>1. cap[t] = CHOOSE d \in Caps : w[d] = t BY <1>1
  <2>2. cap[t] \in Caps /\ w[cap[t]] = t BY <2>1
  <2> QED BY <1>1, <2>2
<1>6. \A t \in Tasks : cap[t] \in Caps
  <2> SUFFICES ASSUME NEW t \in Tasks PROVE cap[t] \in Caps OBVIOUS
  <2>1. CASE \E c \in Caps : w[c] = t BY <1>5, <2>1
  <2>2. CASE ~\E c \in Caps : w[c] = t BY <1>1, <1>3, <2>2
  <2> QED BY <2>1, <2>2
<1>7. \A t \in Tasks : pc[t] \in {"out", "loop", "dead"} /\ (pc[t] = "loop" <=> \E c \in Caps :
        w[c] = t)
                       /\ (t \in Callers <=> pc[t] = "out")
  BY <1>1, <1>4
<1>8. Types
  <2>1. pc \in [Tasks -> Locations]
    <3>1. {"out", "loop", "dead"} \subseteq Locations BY Everywhere
    <3> QED BY <1>1, <3>1
  <2>2. cap \in [Tasks -> Caps]
    <3>1. cap = [t \in Tasks |-> cap[t]] BY <1>1
    <3> QED BY <1>6, <3>1
  <2>3. running \in [Caps -> Tasks \cup {NoTask}] BY <1>1, <1>4
  <2>4. /\ returning \in [Caps -> Seq(Tasks)] /\ spare \in [Caps -> Seq(Tasks)]
        /\ runq \in [Caps -> Seq(Threads)] /\ inbox \in [Caps -> Seq(Threads)]
        /\ grabbed \in [Tasks -> Seq(Caps)]
    <3>1. <<>> \in Seq(Tasks) /\ <<>> \in Seq(Threads) /\ <<>> \in Seq(Caps) OBVIOUS
    <3> QED BY <1>2, <3>1
  <2>5. /\ home \in [Threads -> Caps] /\ tcap \in [Tasks -> Caps] /\ seen \in [Tasks -> Caps]
        /\ wakeup \in [Tasks -> BOOLEAN]
        /\ then \in [Tasks -> {"loop", "yielded", "run", "enter", "sync", "sync_wait", "acquire"}]
        /\ thr \in [Tasks -> Threads \cup {NoThread}] /\ looked \in [Tasks -> Nat]
    BY <1>2, <1>3, <2>2
  <2> QED BY <1>2, <2>1, <2>2, <2>3, <2>4, <2>5 DEF Types
<1>9. TasksOK
  <2> SUFFICES ASSUME NEW t \in Tasks PROVE TaskOK(t) BY DEF TasksOK
  <2>1. grabbed[t] = <<>> /\ DOMAIN grabbed[t] = {} BY <1>2
  <2>2. PushOK(t) BY <1>7, <2>1 DEF PushOK
  <2>3. Holds(t) <=> \E c \in Caps : w[c] = t BY <1>7 DEF Holds, Holding, Acquiring
  <2>4. OwnerOK(t) BY <1>1, <1>5, <2>3 DEF OwnerOK, Reach
  <2> QED BY <2>2, <2>4 DEF TaskOK
<1>10. KindsOK
  <2> SUFFICES ASSUME NEW t \in Tasks PROVE KindOK(t) /\ CallerOK(t) BY DEF KindsOK
  <2>1. KindOK(t) BY <1>2, <1>7, Distinct DEF KindOK, HasThreadAt, WaitsTo
  <2>2. CallerOK(t) BY <1>2, <1>7 DEF CallerOK, OutsideOK
  <2> QED BY <2>1, <2>2
<1>11. PlacesOK
  <2>1. \A c \in Caps : runq[c] = <<>> /\ inbox[c] = <<>> BY <1>2
  <2>2. \A t \in Tasks : thr[t] = NoThread BY <1>2
  <2> QED BY <1>2, <2>1, <2>2, InNothing DEF PlacesOK
<1> QED BY <1>8, <1>9, <1>10, <1>11 DEF PlacesInv

\* It is preserved by a stuttering step.
LEMMA StutterPlaces ==
  PlacesInv /\ UNCHANGED vars => PlacesInv'
<1> SUFFICES ASSUME PlacesInv, UNCHANGED vars PROVE PlacesInv' OBVIOUS
<1>1. /\ running' = running /\ returning' = returning /\ spare' = spare /\ runq' = runq
           /\ inbox' = inbox
      /\ home' = home /\ blocked' = blocked /\ live' = live /\ sync' = sync /\ tcap' = tcap
           /\ wakeup' = wakeup
      /\ pc' = pc /\ cap' = cap /\ seen' = seen /\ then' = then /\ thr' = thr
           /\ looked' = looked /\ grabbed' = grabbed
  BY DEF vars, queues, threads, push
<1>2. Types' BY <1>1 DEF PlacesInv, Types
<1>3. TasksOK' BY <1>1, NothingMoves DEF PlacesInv
<1>4. \A u \in Tasks : SamePlaces(u) BY <1>1 DEF SamePlaces
<1>5. KindsOK' BY <1>4, SamePlacesOK DEF PlacesInv, KindsOK
<1>6. PlacesOK' BY <1>1, PlacesSame DEF PlacesInv
<1> QED BY <1>2, <1>3, <1>5, <1>6 DEF PlacesInv

\* It is preserved by every step.
LEMMA NextPlaces ==
  PlacesInv /\ Next => PlacesInv'
<1> SUFFICES ASSUME Types, TasksOK, KindsOK, PlacesOK, NEW t \in Tasks,
                    Step(t) \/ Program(t) \/ SpuriousWakeUp(t) \/ InboxBusy(t)
             PROVE  Types' /\ TasksOK' /\ KindsOK' /\ PlacesOK'
  BY DEF Next, PlacesInv
<1>1. CASE WakeUp(t) \/ SpuriousWakeUp(t)
  BY <1>1, AwakeOwners, AwakePlaces DEF WakeUp, SpuriousWakeUp
<1>2. CASE TakeReturning(t) BY <1>2, TakeReturningOwners, TakeReturningPlaces
<1>3. CASE TakeWorker(t) BY <1>3, TakeWorkerOwners, TakeWorkerPlaces
<1>4. CASE YieldRelease(t) BY <1>4, YieldReleaseOwners, YieldReleasePlaces
<1>5. CASE ProcessInbox(t) BY <1>5, ProcessInboxOwners, ProcessInboxPlaces
<1>6. CASE InboxBusy(t) BY <1>6, ProcessInboxOwners, SchedulePlaces
<1>7. CASE ScheduleYield(t) \/ Yielded(t) \/ RequestSync(t) \/ SyncWait(t)
  BY <1>7, ScheduleOwners, SchedulePlaces
<1>8. CASE Pick(t) BY <1>8, PickOwners, PickPlaces
<1>9. CASE Grab(t) BY <1>9, GrabOwners, GrabPlaces
<1>10. CASE GrabFails(t) BY <1>10, GrabFailsOwners, GrabPlaces
<1>11. CASE PushBack(t) BY <1>11, PushBackOwners, PushBackPlaces
<1>12. CASE ShareThreads(t) BY <1>12, ShareThreadsOwners, ShareThreadsPlaces
<1>13. CASE PushRelease(t) BY <1>13, PushReleaseOwners, PushReleasePlaces
<1>14. CASE Enter(t) BY <1>14, EnterOwners, EnterPlaces
<1>15. CASE Exit(t) \/ SuspendThread(t) BY <1>15, LeaveOwners, LeavePlaces
<1>16. CASE Acquire(t)
  <2>1. 0 \in Caps BY CapabilityAssumption DEF Caps
  <2> QED BY <1>16, <2>1, AcquireOwners, CallsPlaces
<1>17. CASE Collect(t) BY <1>17, CollectOwners, CollectPlaces
<1>18. CASE ReleaseAll(t) BY <1>18, ReleaseAllOwners, CollectPlaces
<1>19. CASE ThreadYields(t) \/ ThreadBlocks(t) \/ ThreadFinishes(t) \/ HeapOverflow(t)
  <2>1. pc[t] = "run" BY <1>19 DEF ThreadYields, ThreadBlocks, ThreadFinishes, HeapOverflow
  <2>2. thr[t] # NoThread BY <2>1 DEF KindsOK, KindOK, HasThreadAt
  <2>3. thr[t] \in live \ blocked BY <2>2, HasThread
  <2> QED BY <1>19, <2>3, ThreadStopsOwners, ThreadStopsPlaces
<1>20. ASSUME NEW h \in Threads, WakeThread(t, h) PROVE Types' /\ TasksOK' /\ KindsOK' /\ PlacesOK'
  BY <1>20, WakeThreadOwners, WakeThreadPlaces
<1>21. ASSUME NEW h \in Threads, Fork(t, h) PROVE Types' /\ TasksOK' /\ KindsOK' /\ PlacesOK'
  BY <1>21, ForkOwners, ForkPlaces
<1>22. ASSUME NEW c \in Caps, ResumeThread(t) \/ RtsLock(t, c) \/ PerformGC(t, c)
       PROVE  Types' /\ TasksOK' /\ KindsOK' /\ PlacesOK'
  BY <1>22, CallsOwners, CallsPlaces
<1>23. CASE ResumeThread(t)
  <2>1. 0 \in Caps BY CapabilityAssumption DEF Caps
  <2> QED BY <1>22, <1>23, <2>1
<1> QED
  BY <1>1, <1>2, <1>3, <1>4, <1>5, <1>6, <1>7, <1>8, <1>9, <1>10, <1>11, <1>12, <1>13, <1>14,
     <1>15, <1>16, <1>17, <1>18,
     <1>19, <1>20, <1>21, <1>22, <1>23
  DEF Step, Program, Slice

\* Capability.c and Schedule.c keep to it, for any number of capabilities, workers, callers
\* and threads.
THEOREM PlacesInvariance == Spec => []PlacesInv
<1>1. PlacesInv /\ [Next]_vars => PlacesInv' BY NextPlaces, StutterPlaces
<1> QED BY InitPlaces, <1>1, PTL DEF Spec

\* A capability has one owner: no two tasks run Haskell code on one capability, whatever
\* the order of grabs, releases, returns and collections.
THEOREM CapabilitiesOwnedOnce == Spec => []OneOwner
<1>1. PlacesInv => OneOwner
  <2> SUFFICES ASSUME PlacesInv PROVE OneOwner OBVIOUS
  <2>1. \A t \in Tasks : TaskOK(t) BY DEF PlacesInv, TasksOK
  <2>2. \A t \in Tasks : Holds(t) => running[cap[t]] = t BY <2>1 DEF TaskOK, OwnerOK
  <2>3. ASSUME NEW c \in Caps, running[c] # NoTask
        PROVE  LET t == running[c]
               IN  /\ Holds(t)
                   /\ \/ cap[t] = c
                      \/ Acquiring(t) \/ pc[t] = "release"
                      \/ pc[t] = "push_back" /\ c = Candidate(t)
                      \/ c \in ToSet(grabbed[t])
    <3>1. PICK t \in Tasks : running[c] = t BY <2>3 DEF PlacesInv, Types
    <3>2. Holds(t) /\ Reach(t, c) BY <2>1, <3>1 DEF TaskOK, OwnerOK
    <3> QED BY <3>1, <3>2 DEF Reach, ToSet
  <2> QED BY <2>2, <2>3 DEF OneOwner
<1> QED BY PlacesInvariance, <1>1, PTL

\* A thread runs on its own capability, tso->cap, and a bound thread in its own task:
\* migration moves both or none.
THEOREM ThreadsRunAtHome == Spec => []RunsAtHome
<1>1. PlacesInv => RunsAtHome
  <2> SUFFICES ASSUME PlacesInv, NEW t \in Tasks
               PROVE  /\ pc[t] \in {"loop", "yield", "yield_lock", "yielded", "pick", "run",
                         "sync_wait"} => tcap[t] = cap[t]
                      /\ pc[t] = "run" => home[thr[t]] = cap[t]
                      /\ pc[t] = "run" => thr[t] = t \/ (thr[t] \in Unbound /\ t \in Workers)
    BY DEF RunsAtHome
  <2>1. KindOK(t) BY DEF PlacesInv, KindsOK
  <2>2. pc[t] = "run" => thr[t] # NoThread BY <2>1 DEF KindOK, HasThreadAt
  <2>3. Types /\ PlacesOK BY DEF PlacesInv
  <2> QED BY <2>1, <2>2, <2>3, HasThread DEF KindOK, AtHomeAt
<1> QED BY PlacesInvariance, <1>1, PTL

\* A thread that can run is on one run queue, once, or run by one task: schedulePushWork,
\* wakeups and foreign calls neither lose nor double it.
THEOREM ThreadsNeverLost == Spec => []ThreadsInOnePlace
<1>1. PlacesInv => ThreadsInOnePlace
  <2> SUFFICES ASSUME PlacesInv, NEW h \in live,
                      NEW queued, queued = UNION {{c} \X {i \in DOMAIN runq[c] : runq[c][i] = h} :
                        c \in Caps},
                      NEW with, with = {t \in Tasks : thr[t] = h}
               PROVE  /\ Cardinality(queued) + Cardinality(with) + (IF h \in blocked THEN 1 ELSE 0) = 1
                      /\ \A p \in queued : home[h] = p[1]
                      /\ h \in Callers /\ pc[h] \in Sleeping /\ ~Acquiring(h) => tcap[h] = home[h]
    BY DEF ThreadsInOnePlace
  <2>1. Types /\ KindsOK /\ PlacesOK BY DEF PlacesInv
  <2>2. h \in Threads /\ h # NoThread /\ home[h] \in Caps BY <2>1, QueuesAreSequences, Distinct
  <2>3. PICK c \in Caps : c = home[h] BY <2>2
  <2>4. \A d \in Caps : In(h, runq[d]) => d = c /\ h \notin blocked BY <2>1, <2>3 DEF PlacesOK
  <2>5. \A p : p \in queued <=> \E d \in Caps : \E i \in DOMAIN runq[d] : p = <<d, i>>
          /\ runq[d][i] = h
    OBVIOUS
  <2>6. \A d \in Caps : \A i \in DOMAIN runq[d] : runq[d][i] = h => d = c BY <2>4 DEF In
  <2>7. \A p \in queued : home[h] = p[1] BY <2>3, <2>5, <2>6
  <2>8. In(h, runq[c]) => Cardinality(queued) = 1
    <3> SUFFICES ASSUME In(h, runq[c]) PROVE Cardinality(queued) = 1 OBVIOUS
    <3>1. PICK i \in DOMAIN runq[c] : runq[c][i] = h BY DEF In
    <3>2. OnceIn(runq[c]) BY <2>1 DEF PlacesOK
    <3>3. \A j \in DOMAIN runq[c] : runq[c][j] = h => j = i BY <3>1, <3>2 DEF OnceIn
    <3>4. queued = {<<c, i>>} BY <2>5, <2>6, <3>1, <3>3
    <3> QED BY <3>4, FS_Singleton
  <2>9. ~In(h, runq[c]) => Cardinality(queued) = 0
    <3> SUFFICES ASSUME ~In(h, runq[c]) PROVE Cardinality(queued) = 0 OBVIOUS
    <3>1. \A j \in DOMAIN runq[c] : runq[c][j] # h BY DEF In
    <3>2. queued = {} BY <2>5, <2>6, <3>1
    <3> QED BY <3>2, FS_EmptySet
  <2>10. \A t \in Tasks : thr[t] = h => /\ h \notin blocked /\ ~In(h, runq[c])
                                       /\ \A u \in Tasks : thr[u] = h => u = t
    BY <2>1, <2>2, HasThread
  <2>11. (\E t \in Tasks : thr[t] = h) => Cardinality(with) = 1
    <3> SUFFICES ASSUME NEW t \in Tasks, thr[t] = h PROVE Cardinality(with) = 1 OBVIOUS
    <3>1. with = {t} BY <2>10
    <3> QED BY <3>1, FS_Singleton
  <2>12. (~\E t \in Tasks : thr[t] = h) => Cardinality(with) = 0
    <3> SUFFICES ASSUME ~\E t \in Tasks : thr[t] = h PROVE Cardinality(with) = 0 OBVIOUS
    <3>1. with = {} OBVIOUS
    <3> QED BY <3>1, FS_EmptySet
  <2>13. h \notin blocked => In(h, runq[c]) \/ \E t \in Tasks : thr[t] = h
    BY <2>1, <2>3 DEF PlacesOK
  <2>14. Cardinality(queued) + Cardinality(with) + (IF h \in blocked THEN 1 ELSE 0) = 1
    <3>1. CASE h \in blocked
      <4>1. Cardinality(queued) = 0 /\ Cardinality(with) = 0 BY <2>4, <2>9, <2>10, <2>12, <3>1
      <4> QED BY <3>1, <4>1
    <3>2. CASE h \notin blocked /\ In(h, runq[c])
      <4>1. Cardinality(queued) = 1 /\ Cardinality(with) = 0 BY <2>8, <2>10, <2>12, <3>2
      <4> QED BY <3>2, <4>1
    <3>3. CASE h \notin blocked /\ ~In(h, runq[c])
      <4>1. Cardinality(queued) = 0 /\ Cardinality(with) = 1 BY <2>9, <2>11, <2>13, <3>3
      <4> QED BY <3>3, <4>1
    <3> QED BY <3>1, <3>2, <3>3
  <2>15. h \in Callers /\ pc[h] \in Sleeping /\ ~Acquiring(h) => tcap[h] = home[h]
    <3>1. h \in Callers => InsideOK(h) BY <2>1, Distinct DEF KindsOK, CallerOK
    <3> QED BY <3>1 DEF InsideOK
  <2> QED BY <2>7, <2>14, <2>15
<1> QED BY PlacesInvariance, <1>1, PTL

\* t gives up the capability c, and goes on at p: what all callers of releaseCapability_ have
\* in common.
GivesUp(t, c, aw, sp, ib, late, p, tcaps) ==
  /\ pc[t] \in Holding /\ c \in Caps /\ p \in Locations \ {"woken", "ret_woken", "yield_lock"}
  /\ running[c] \in {t, NoTask}
  /\ tcaps \in [Tasks -> Caps] /\ \A u \in Tasks \ {t} : tcaps[u] = tcap[u]
  /\ Release(c, aw, sp, runq[c], ib, late, Goto(t, p), tcaps)
  /\ UNCHANGED <<threads, sync, seen, then, thr>>
  /\ \/ sp = spare[c] /\ late = <<>> /\ p # "ret_sleep" /\ (p = "sleep" => t \in Callers
       /\ tcaps[t] = c)
     \/ sp = <<t>> \o spare[c] /\ late = <<>> /\ p = "sleep" /\ t \in Workers /\ tcaps[t] = c
     \/ sp = spare[c] /\ late = <<t>> /\ p = "ret_sleep" /\ tcaps[t] = c /\ sync # NoTask
  /\ ib = inbox[c] \/ (aw /\ ib \in Seq(Threads))
  /\ In(t, runq[c]) => p = "sleep"

\* A collection is under way as long as a caller without a thread waits for it.
WaitsForSync == \A t \in Callers \ live : pc[t] = "yield_lock" => sync # NoTask

\* A thread with its task inside is on the run queue of the capability of that task.
LEMMA OwnThread ==
  ASSUME Types, KindsOK, PlacesOK, NEW t \in Tasks, NEW c \in Caps, Holds(t), In(t, runq[c])
  PROVE  t \in Callers /\ t \in live /\ c = cap[t] /\ pc[t] \notin {"run", "exit"}
<1>1. t \in live /\ home[t] = c BY DEF PlacesOK
<1>2. t \in Callers
  <2>1. t \in Threads BY <1>1, QueuesAreSequences
  <2> QED BY <2>1, CapabilityAssumption DEF Tasks, Threads
<1>3. InsideOK(t) BY <1>1, <1>2 DEF KindsOK, CallerOK
<1>4. pc[t] # "run"
  <2> SUFFICES ASSUME pc[t] = "run" PROVE FALSE OBVIOUS
  <2>1. thr[t] # NoThread BY DEF KindsOK, KindOK, HasThreadAt
  <2>2. thr[t] = t BY <1>2, <2>1, HasThread, Distinct
  <2> QED BY <2>1, <2>2, HasThread
<1> QED BY <1>1, <1>2, <1>3, <1>4 DEF InsideOK

\* yieldCapability gives the capability up in this form.
LEMMA YieldGivesUp ==
  ASSUME Types, TasksOK, KindsOK, PlacesOK, WaitsForSync, NEW t \in Tasks, YieldRelease(t)
  PROVE  \E c, aw, sp, ib, late, p, tcaps : GivesUp(t, c, aw, sp, ib, late, p, tcaps)
<1>1. pc[t] = "yield_lock" /\ UNCHANGED <<threads, sync, seen, then, thr, push>> BY DEF YieldRelease
<1>2. Holds(t) /\ pc[t] \in Holding BY <1>1 DEF Holds, Holding
<1>3. PICK c \in Caps : c = cap[t] BY DEF Types
<1>4. KindOK(t) /\ tcap \in [Tasks -> Caps] BY DEF KindsOK, Types
<1>5. tcap[t] = c /\ running[c] = t
  <2>1. TaskOK(t) BY DEF TasksOK
  <2> QED BY <1>1, <1>2, <1>3, <1>4, <2>1 DEF KindOK, AtHomeAt, TaskOK, OwnerOK
<1>6. In(t, runq[c]) => IsBound(t) BY <1>2, OwnThread DEF IsBound
<1>7. {"sleep", "dead", "ret_sleep"} \subseteq Locations \ {"woken", "ret_woken", "yield_lock"}
  BY Everywhere
<1>8. CASE /\ t \in Workers
           /\ Release(c, FALSE, <<t>> \o spare[c], runq[c], inbox[c], <<>>, Goto(t, "sleep"), tcap)
  <2>1. GivesUp(t, c, FALSE, <<t>> \o spare[c], inbox[c], <<>>, "sleep", tcap)
    BY <1>1, <1>2, <1>4, <1>5, <1>7, <1>8 DEF GivesUp
  <2> QED BY <2>1
<1>9. CASE t \in Workers /\ Release(c, FALSE, spare[c], runq[c], inbox[c], <<>>, Goto(t, "dead"),
      tcap)
  <2>0. ~In(t, runq[c]) BY <1>6, <1>9, Distinct DEF IsBound
  <2>1. GivesUp(t, c, FALSE, spare[c], inbox[c], <<>>, "dead", tcap)
    BY <1>1, <1>2, <1>4, <1>5, <1>7, <1>9, <2>0 DEF GivesUp
  <2> QED BY <2>1
<1>10. CASE IsBound(t) /\ Release(c, FALSE, spare[c], runq[c], inbox[c], <<>>, Goto(t, "sleep"),
       tcap)
  <2>1. GivesUp(t, c, FALSE, spare[c], inbox[c], <<>>, "sleep", tcap)
    BY <1>1, <1>2, <1>4, <1>5, <1>7, <1>10 DEF GivesUp, IsBound
  <2> QED BY <2>1
<1>11. CASE /\ t \in Callers /\ ~IsBound(t)
            /\ Release(c, FALSE, spare[c], runq[c], inbox[c], <<t>>, Goto(t, "ret_sleep"), tcap)
  <2>0. ~In(t, runq[c]) BY <1>6, <1>11
  <2>1. sync # NoTask BY <1>1, <1>11 DEF WaitsForSync, IsBound
  <2>2. GivesUp(t, c, FALSE, spare[c], inbox[c], <<t>>, "ret_sleep", tcap)
    BY <1>1, <1>2, <1>4, <1>5, <1>7, <1>11, <2>0, <2>1 DEF GivesUp
  <2> QED BY <2>2
<1> QED BY <1>3, <1>8, <1>9, <1>10, <1>11 DEF YieldRelease, ReleasePlain

\* suspendThread, and a call that returns, give the capability up in this form.
LEMMA LeaveGivesUp ==
  ASSUME Types, TasksOK, KindsOK, PlacesOK, NEW t \in Tasks, SuspendThread(t) \/ Exit(t)
  PROVE  \E c, aw, sp, ib, late, p, tcaps : GivesUp(t, c, aw, sp, ib, late, p, tcaps)
<1>1. PICK p \in {"ccall", "out"} : /\ pc[t] = (IF p = "ccall" THEN "run" ELSE "exit")
                                    /\ ReleasePlain(cap[t], Goto(t, p), tcap)
  BY DEF SuspendThread, Exit
<1>2. UNCHANGED <<threads, sync, seen, then, thr>> BY DEF SuspendThread, Exit
<1>3. PICK c \in Caps : c = cap[t] BY DEF Types
<1>4. Release(c, FALSE, spare[c], runq[c], inbox[c], <<>>, Goto(t, p), tcap)
  BY <1>1, <1>3 DEF ReleasePlain
<1>5. Holds(t) /\ pc[t] \in Holding BY <1>1 DEF Holds, Holding
<1>6. ~In(t, runq[c]) BY <1>1, <1>5, OwnThread
<1>7. p \in Locations \ {"woken", "ret_woken", "yield_lock"} BY Everywhere
<1>8. tcap \in [Tasks -> Caps] /\ running[c] = t
  <2>1. TaskOK(t) BY DEF TasksOK
  <2> QED BY <1>3, <1>5, <2>1 DEF Types, TaskOK, OwnerOK
<1>9. GivesUp(t, c, FALSE, spare[c], inbox[c], <<>>, p, tcap)
  BY <1>1, <1>2, <1>4, <1>5, <1>6, <1>7, <1>8 DEF GivesUp
<1> QED BY <1>9

\* t gives up a capability that is not its own, and stays where it is.
LEMMA OtherGivesUp ==
  ASSUME Types, KindsOK, PlacesOK, NEW t \in Tasks, NEW c \in Caps, c # cap[t], pc[t] \in Holding,
         NEW p \in Holding \ {"yield_lock"}, running[c] \in {t, NoTask}, NEW aw, NEW ib,
         ib = inbox[c] \/ (aw /\ ib \in Seq(Threads)),
         NEW tcaps \in [Tasks -> Caps], \A u \in Tasks \ {t} : tcaps[u] = tcap[u],
         Release(c, aw, spare[c], runq[c], ib, <<>>, Goto(t, p), tcaps),
         UNCHANGED <<threads, sync, seen, then, thr>>
  PROVE  GivesUp(t, c, aw, spare[c], ib, <<>>, p, tcaps)
<1>1. Holds(t) BY DEF Holds
<1>2. ~In(t, runq[c]) BY <1>1, OwnThread
<1>3. p \in Locations \ {"woken", "ret_woken", "yield_lock"} /\ p \notin {"sleep", "ret_sleep"}
  BY DEF Locations, Holding
<1> QED BY <1>2, <1>3 DEF GivesUp

\* schedulePushWork gives back what it has shared with in this form.
LEMMA PushGivesUp ==
  ASSUME Types, TasksOK, KindsOK, PlacesOK, NEW t \in Tasks, PushBack(t) \/ (PushRelease(t)
         /\ grabbed[t] # <<>>)
  PROVE  \E c, aw, sp, ib, late, p, tcaps : GivesUp(t, c, aw, sp, ib, late, p, tcaps)
<1>0. TaskOK(t) /\ tcap \in [Tasks -> Caps] BY DEF TasksOK, Types
<1>1. CASE PushBack(t)
  <2>1. PICK c \in Caps : c = Candidate(t) BY CandidateOK
  <2>2. pc[t] = "push_back" /\ UNCHANGED <<threads, sync, seen, then, thr>>
        /\ Release(c, FALSE, spare[c], runq[c], inbox[c], <<>>, Goto(t, "push"), tcap)
    BY <1>1, <2>1 DEF PushBack, ReleasePlain
  <2>3. c # cap[t] /\ running[c] = t BY <1>0, <2>1, <2>2 DEF TaskOK, PushOK
  <2>4. pc[t] \in Holding /\ "push" \in Holding \ {"yield_lock"} BY <2>2 DEF Holding
  <2>5. GivesUp(t, c, FALSE, spare[c], inbox[c], <<>>, "push", tcap)
    BY <1>0, <2>2, <2>3, <2>4, OtherGivesUp
  <2> QED BY <2>5
<1>2. CASE PushRelease(t) /\ grabbed[t] # <<>>
  <2>1. grabbed[t] \in Seq(Caps) BY DEF Types
  <2>2. PICK c \in Caps : c = Head(grabbed[t]) /\ In(c, grabbed[t]) BY <1>2, <2>1, InTail
  <2>3. PICK tcaps : tcaps = [tcap EXCEPT ![t] = c] OBVIOUS
  <2>4. /\ pc[t] = "push_release" /\ UNCHANGED <<threads, sync, seen, then, thr>>
        /\ Release(c, FALSE, spare[c], runq[c], inbox[c], <<>>, pc, tcaps)
    BY <1>2, <2>2, <2>3 DEF PushRelease, ReleasePlain
  <2>5. pc = Goto(t, "push_release") BY <2>4 DEF Goto, Types
  <2>6. c # cap[t] /\ running[c] = t BY <1>0, <2>2 DEF TaskOK, PushOK, In
  <2>7. pc[t] \in Holding /\ "push_release" \in Holding \ {"yield_lock"} BY <2>4 DEF Holding
  <2>8. tcaps \in [Tasks -> Caps] /\ \A u \in Tasks \ {t} : tcaps[u] = tcap[u] BY <1>0, <2>3
  <2>9. GivesUp(t, c, FALSE, spare[c], inbox[c], <<>>, "push_release", tcaps)
    BY <2>4, <2>5, <2>6, <2>7, <2>8, OtherGivesUp
  <2> QED BY <2>9
<1> QED BY <1>1, <1>2

\* releaseAllCapabilities gives back each capability in this form.
LEMMA ReleaseAllGivesUp ==
  ASSUME Types, TasksOK, KindsOK, PlacesOK, NEW t \in Tasks, ReleaseAll(t),
         {c \in Caps : running[c] = t} \ {cap[t]} # {}
  PROVE  \E c, aw, sp, ib, late, p, tcaps : GivesUp(t, c, aw, sp, ib, late, p, tcaps)
<1>1. PICK others : others = {c \in Caps : running[c] = t} \ {cap[t]} OBVIOUS
<1>2. PICK c : c = Min(others) OBVIOUS
<1>3. c \in Caps /\ c # cap[t] /\ running[c] = t BY <1>1, <1>2, MinOK
<1>4. PICK tcaps : tcaps = [tcap EXCEPT ![t] = c] OBVIOUS
<1>5. /\ pc[t] = "release" /\ UNCHANGED <<threads, sync, seen, then, thr>>
      /\ Release(c, FALSE, spare[c], runq[c], inbox[c], <<>>, pc, tcaps)
  BY <1>1, <1>2, <1>4 DEF ReleaseAll, ReleasePlain
<1>6. pc = Goto(t, "release") BY <1>5 DEF Goto, Types
<1>7. pc[t] \in Holding /\ "release" \in Holding \ {"yield_lock"} BY <1>5 DEF Holding
<1>8. tcaps \in [Tasks -> Caps] /\ \A u \in Tasks \ {t} : tcaps[u] = tcap[u] BY <1>3, <1>4 DEF Types
<1>9. GivesUp(t, c, FALSE, spare[c], inbox[c], <<>>, "release", tcaps)
  BY <1>3, <1>5, <1>6, <1>7, <1>8, OtherGivesUp
<1> QED BY <1>9

\* A wakeup for a thread of another capability releases that one, if it was idle.
LEMMA WakeThreadGivesUp ==
  ASSUME Types, TasksOK, KindsOK, PlacesOK, NEW t \in Tasks, NEW h \in Threads, WakeThread(t, h),
         home[h] # cap[t], running[home[h]] = NoTask
  PROVE  \E c, aw, sp, ib, late, p, tcaps : GivesUp(t, c, aw, sp, ib, late, p, tcaps)
<1>1. PICK c \in Caps : c = home[h] BY QueuesAreSequences
<1>2. PICK ib : ib = <<h>> \o inbox[c] OBVIOUS
<1>3. /\ pc[t] = "run" /\ UNCHANGED <<threads, sync, seen, then, thr>>
      /\ Release(c, TRUE, spare[c], runq[c], ib, <<>>, pc, tcap)
  BY <1>1, <1>2 DEF WakeThread, threads
<1>4. pc = Goto(t, "run") BY <1>3 DEF Goto, Types
<1>5. pc[t] \in Holding /\ "run" \in Holding \ {"yield_lock"} BY <1>3 DEF Holding
<1>6. ib \in Seq(Threads) /\ tcap \in [Tasks -> Caps]
  <2>1. inbox[c] \in Seq(Threads) BY QueuesAreSequences
  <2> QED BY <1>2, <2>1, InPrepend DEF Types
<1>7. GivesUp(t, c, TRUE, spare[c], ib, <<>>, "run", tcap)
  BY <1>1, <1>3, <1>4, <1>5, <1>6, OtherGivesUp
<1> QED BY <1>7

\* Where a task queues.
Returns(u) == pc[u] \in {"ret_sleep", "ret_woken"}

\* u is to be found on spare_workers.
Spares(u) == u \in Workers /\ pc[u] \in {"sleep", "woken"}

\* Whoever sleeps in waitForCapability is on returning_tasks, and a worker that sleeps is on
\* spare_workers, once, at the capability it waits for; nobody else is.
QueuesOK ==
  \A c \in Caps :
    /\ OnceIn(returning[c]) /\ OnceIn(spare[c])
    /\ \A u \in Tasks : /\ In(u, returning[c]) <=> Returns(u) /\ tcap[u] = c
                        /\ In(u, spare[c]) <=> Spares(u) /\ tcap[u] = c

\* A task queues where it did.
QueuesAsBefore(u) ==
  /\ Returns(u)' <=> Returns(u)
  /\ Spares(u)' <=> Spares(u)
  /\ Returns(u) \/ Spares(u) => tcap'[u] = tcap[u]

\* Nothing has happened to the queues of tasks.
LEMMA SameQueues ==
  ASSUME QueuesOK, UNCHANGED <<returning, spare>>, \A u \in Tasks : QueuesAsBefore(u)
  PROVE  QueuesOK'
BY DEF QueuesOK, QueuesAsBefore

\* t goes somewhere, and does not queue before or after.
LEMMA GoesQueues ==
  ASSUME Types, QueuesOK, NEW t \in Tasks, NEW p \in Locations, pc' = Goto(t, p),
         pc[t] \notin Sleeping, p \notin Sleeping, UNCHANGED <<returning, spare>>,
         \A u \in Tasks \ {t} : Returns(u) \/ Spares(u) => tcap'[u] = tcap[u]
  PROVE  QueuesOK'
<1>1. pc'[t] = p /\ \A u \in Tasks \ {t} : pc'[u] = pc[u] BY GotoOK
<1>2. \A u \in Tasks : QueuesAsBefore(u) BY <1>1 DEF QueuesAsBefore, Returns, Spares, Sleeping
<1> QED BY <1>2, SameQueues

\* What Types says of the queues of tasks.
LEMMA TaskQueues ==
  ASSUME Types
  PROVE  /\ returning \in [Caps -> Seq(Tasks)] /\ spare \in [Caps -> Seq(Tasks)]
         /\ \A c \in Caps : returning[c] \in Seq(Tasks) /\ spare[c] \in Seq(Tasks)
BY DEF Types

\* Giving up a capability keeps the queues of tasks right.
LEMMA GivesUpQueues ==
  ASSUME Types, QueuesOK, NEW t \in Tasks, NEW c, NEW aw, NEW sp, NEW ib, NEW late, NEW p,
         NEW tcaps,
         GivesUp(t, c, aw, sp, ib, late, p, tcaps)
  PROVE  QueuesOK'
<1>1. /\ pc[t] \in Holding /\ c \in Caps /\ p \in Locations \ {"woken", "ret_woken"}
      /\ tcaps \in [Tasks -> Caps] /\ \A u \in Tasks \ {t} : tcaps[u] = tcap[u]
      /\ returning' = [returning EXCEPT ![c] = @ \o late] /\ spare' = [spare EXCEPT ![c] = sp]
      /\ Released(c, Goto(t, p), tcaps)
  BY DEF GivesUp, Release, Released
<1>2. PICK pcs : pcs = Goto(t, p) OBVIOUS
<1>3. pcs \in [Tasks -> Locations] /\ pcs[t] = p /\ \A u \in Tasks \ {t} : pcs[u] = pc[u]
  <2>1. /\ Goto(t, p) \in [Tasks -> Locations] /\ Goto(t, p)[t] = p
        /\ \A u \in Tasks \ {t} : Goto(t, p)[u] = pc[u]
    BY <1>1, GotoOK
  <2> QED BY <1>2, <2>1
<1>4. Released(c, pcs, tcaps) BY <1>1, <1>2
\* A worker that is made does not queue before or after.
<1>5. \A u \in Tasks : \/ pc'[u] = pcs[u] /\ tcap'[u] = tcaps[u]
                       \/ pcs[u] = "dead" /\ pc'[u] = "loop"
  <2>1. CASE pc' = pcs /\ tcap' = tcaps BY <2>1
  <2>2. ASSUME NEW w \in Workers, pcs[w] = "dead", pc' = [pcs EXCEPT ![w] = "loop"],
               tcap' = [tcaps EXCEPT ![w] = c]
        PROVE  \A u \in Tasks : \/ pc'[u] = pcs[u] /\ tcap'[u] = tcaps[u]
                                \/ pcs[u] = "dead" /\ pc'[u] = "loop"
    BY <1>1, <1>3, <2>2, Distinct
  <2> QED BY <1>4, <2>1, <2>2 DEF Released
<1>6. \A u \in Tasks \ {t} : QueuesAsBefore(u)
  BY <1>1, <1>3, <1>5 DEF QueuesAsBefore, Returns, Spares
<1>7. /\ ~Returns(t) /\ ~Spares(t)
      /\ Returns(t)' <=> p = "ret_sleep"
      /\ Spares(t)' <=> p = "sleep" /\ t \in Workers
      /\ p \in {"sleep", "ret_sleep"} => tcap'[t] = tcaps[t]
  BY <1>1, <1>3, <1>5 DEF Returns, Spares, Holding
<1>8. \A d \in Caps : /\ returning'[d] = IF d = c THEN returning[c] \o late ELSE returning[d]
                      /\ spare'[d] = IF d = c THEN sp ELSE spare[d]
  BY <1>1, TaskQueues
<1>9. \A d \in Caps : ~In(t, returning[d]) /\ ~In(t, spare[d]) BY <1>7 DEF QueuesOK
<1>10. returning[c] \in Seq(Tasks) /\ spare[c] \in Seq(Tasks) BY <1>1, TaskQueues
<1>11. CASE sp = spare[c] /\ late = <<>> /\ p # "ret_sleep" /\ (p = "sleep" => t \in Callers)
  <2>1. UNCHANGED <<returning, spare>>
    <3>1. returning[c] \o <<>> = returning[c] BY <1>10
    <3> QED BY <1>1, <1>11, <3>1, TaskQueues
  <2>2. QueuesAsBefore(t) BY <1>7, <1>11, Distinct DEF QueuesAsBefore
  <2> QED BY <1>6, <2>1, <2>2, SameQueues
<1>12. CASE sp = <<t>> \o spare[c] /\ late = <<>> /\ p = "sleep" /\ t \in Workers /\ tcaps[t] = c
  <2>1. returning' = returning
    <3>1. returning[c] \o <<>> = returning[c] BY <1>10
    <3> QED BY <1>1, <1>12, <3>1, TaskQueues
  <2>2. (\A u : In(u, sp) <=> u = t \/ In(u, spare[c])) /\ (OnceIn(spare[c]) => OnceIn(sp))
    BY <1>1, <1>9, <1>10, <1>12, InPrepend
  <2>3. tcap'[t] = c /\ Spares(t)' /\ ~Returns(t)' BY <1>7, <1>12
  <2>4. PICK q : q = sp OBVIOUS
  <2>5. \A d \in Caps : spare'[d] = IF d = c THEN q ELSE spare[d] BY <1>8, <2>4
  <2>6. (\A u : In(u, q) <=> u = t \/ In(u, spare[c])) /\ (OnceIn(spare[c]) => OnceIn(q))
    BY <2>2, <2>4
  <2>7. \A d \in Caps : OnceIn(spare'[d]) /\ OnceIn(returning'[d])
    <3> SUFFICES ASSUME NEW d \in Caps PROVE OnceIn(spare'[d]) /\ OnceIn(returning'[d]) OBVIOUS
    <3>1. OnceIn(spare[d]) /\ OnceIn(returning[d]) /\ OnceIn(q) BY <1>1, <2>6 DEF QueuesOK
    <3> QED BY <2>1, <2>5, <3>1
  <2>8. \A d \in Caps, u \in Tasks : In(u, returning'[d]) <=> Returns(u)' /\ tcap'[u] = d
    BY <1>6, <1>9, <2>1, <2>3 DEF QueuesOK, QueuesAsBefore
  <2>9. \A d \in Caps, u \in Tasks : In(u, spare'[d]) <=> Spares(u)' /\ tcap'[u] = d
    <3> SUFFICES ASSUME NEW d \in Caps, NEW u \in Tasks PROVE In(u, spare'[d]) <=> Spares(u)'
                          /\ tcap'[u] = d
      OBVIOUS
    <3>1. CASE u = t BY <1>1, <1>9, <2>3, <2>5, <2>6, <3>1
    <3>2. CASE u # t
      <4>1. In(u, spare'[d]) <=> In(u, spare[d]) BY <2>5, <2>6, <3>2
      <4> QED BY <1>6, <3>2, <4>1 DEF QueuesOK, QueuesAsBefore
    <3> QED BY <3>1, <3>2
  <2> QED BY <2>7, <2>8, <2>9 DEF QueuesOK
<1>13. CASE sp = spare[c] /\ late = <<t>> /\ p = "ret_sleep" /\ tcaps[t] = c
  <2>1. spare' = spare BY <1>1, <1>13, TaskQueues
  <2>2. PICK r : r = returning[c] \o <<t>> OBVIOUS
  <2>3. (\A u : In(u, r) <=> u = t \/ In(u, returning[c])) /\ (OnceIn(returning[c]) => OnceIn(r))
    <3>1. r = Append(returning[c], t) BY <1>10, <2>2
    <3>2. ~In(t, returning[c]) BY <1>1, <1>9
    <3> QED BY <1>10, <3>1, <3>2, InAppend
  <2>4. tcap'[t] = c /\ Returns(t)' /\ ~Spares(t)' BY <1>7, <1>13
  <2>5. \A d \in Caps : returning'[d] = IF d = c THEN r ELSE returning[d] BY <1>8, <1>13, <2>2
  <2> QED BY <1>1, <1>6, <1>9, <2>1, <2>3, <2>4, <2>5 DEF QueuesOK, QueuesAsBefore
<1> QED BY <1>11, <1>12, <1>13 DEF GivesUp

\* A task that does not get the capability at once keeps the queues of tasks right.
LEMMA WaitQueues ==
  ASSUME Types, QueuesOK, NEW t \in Tasks, NEW c \in Caps, NEW p \in Locations, p \notin Sleeping,
         pc[t] \notin Sleeping, WaitForCapability(t, c, p)
  PROVE  QueuesOK'
<1>1. tcap' = [tcap EXCEPT ![t] = c] /\ spare' = spare BY DEF WaitForCapability
<1>2. tcap'[t] = c /\ \A u \in Tasks \ {t} : tcap'[u] = tcap[u] BY <1>1 DEF Types
<1>3. CASE pc' = Goto(t, p) /\ returning' = returning BY <1>1, <1>2, <1>3, GoesQueues
<1>4. CASE pc' = Goto(t, "ret_sleep") /\ returning' = [returning EXCEPT ![c] = Append(@, t)]
  <2>1. "ret_sleep" \in Locations BY Everywhere
  <2>2. pc'[t] = "ret_sleep" /\ \A u \in Tasks \ {t} : pc'[u] = pc[u] BY <1>4, <2>1, GotoOK
  <2>3. ~Returns(t) /\ ~Spares(t) /\ Returns(t)' /\ ~Spares(t)'
    BY <2>2 DEF Returns, Spares, Sleeping
  <2>4. \A d \in Caps : ~In(t, returning[d]) /\ ~In(t, spare[d]) BY <2>3 DEF QueuesOK
  <2>5. PICK r : r = Append(returning[c], t) OBVIOUS
  <2>6. (\A u : In(u, r) <=> u = t \/ In(u, returning[c])) /\ (OnceIn(returning[c]) => OnceIn(r))
    BY <2>4, <2>5, TaskQueues, InAppend
  <2>7. \A d \in Caps : returning'[d] = IF d = c THEN r ELSE returning[d] BY <1>4, <2>5, TaskQueues
  <2>8. \A u \in Tasks \ {t} : QueuesAsBefore(u) BY <1>2, <2>2 DEF QueuesAsBefore, Returns, Spares
  <2> QED BY <1>1, <1>2, <2>3, <2>4, <2>6, <2>7, <2>8 DEF QueuesOK, QueuesAsBefore
<1> QED BY <1>3, <1>4 DEF WaitForCapability

\* A task that wakes up keeps the queues of tasks right.
LEMMA AwakeQueues ==
  ASSUME Types, QueuesOK, NEW t \in Tasks, pc[t] \in {"sleep", "ret_sleep"}, Awake(t)
  PROVE  QueuesOK'
<1>1. PICK p \in {"woken", "ret_woken"} : pc' = Goto(t, p) /\ (p = "woken" <=> pc[t] = "sleep")
  BY DEF Awake
<1>2. p \in Locations BY Everywhere
<1>3. pc'[t] = p /\ \A u \in Tasks \ {t} : pc'[u] = pc[u] BY <1>1, <1>2, GotoOK
<1>4. returning' = returning /\ spare' = spare /\ tcap' = tcap BY DEF Awake, queues
<1>5. \A u \in Tasks : QueuesAsBefore(u) BY <1>1, <1>3, <1>4 DEF QueuesAsBefore, Returns, Spares
<1> QED BY <1>4, <1>5, SameQueues

\* The first in a queue leaves it.
LEMMA TakeReturningQueues ==
  ASSUME Types, KindsOK, QueuesOK, NEW t \in Tasks, TakeReturning(t)
  PROVE  QueuesOK'
<1>1. PICK c : c = seen[t] OBVIOUS
<1>2. pc[t] = "ret_woken" /\ tcap' = tcap /\ spare' = spare BY DEF TakeReturning
<1>3. c = tcap[t] /\ c \in Caps /\ Returns(t) /\ ~Spares(t)
  BY <1>1, <1>2 DEF KindsOK, KindOK, Types, Returns, Spares
<1>4. CASE FirstInLine(t, c)
  <2>1. returning' = [returning EXCEPT ![c] = Tail(@)] /\ pc' = Goto(t, then[t])
          /\ Head(returning[c]) = t
    BY <1>1, <1>4 DEF TakeReturning, FirstInLine
  <2>2. then[t] \in Locations /\ then[t] \notin Sleeping BY Everywhere DEF Types, Sleeping
  <2>3. pc'[t] = then[t] /\ \A u \in Tasks \ {t} : pc'[u] = pc[u] BY <2>1, <2>2, GotoOK
  <2>4. ~Returns(t)' /\ ~Spares(t)' BY <2>2, <2>3 DEF Returns, Spares, Sleeping
  <2>5. In(t, returning[c]) BY <1>3 DEF QueuesOK
  <2>6. PICK r : r = Tail(returning[c]) OBVIOUS
  <2>7. (\A u : In(u, returning[c]) <=> u = t \/ In(u, r)) /\ (OnceIn(returning[c])
          => OnceIn(r) /\ ~In(t, r))
    <3>1. returning[c] # <<>> BY <2>5, InNothing
    <3> QED BY <1>3, <2>1, <2>6, <3>1, TaskQueues, InTail
  <2>8. \A d \in Caps : returning'[d] = IF d = c THEN r ELSE returning[d] BY <2>1, <2>6, TaskQueues
  <2>9. \A u \in Tasks \ {t} : QueuesAsBefore(u) BY <1>2, <2>3 DEF QueuesAsBefore, Returns, Spares
  <2> QED BY <1>2, <1>3, <2>4, <2>7, <2>8, <2>9 DEF QueuesOK, QueuesAsBefore
<1>5. CASE ~FirstInLine(t, c)
  <2>1. returning' = returning /\ pc' = Goto(t, "ret_sleep") BY <1>1, <1>5 DEF TakeReturning
  <2>2. "ret_sleep" \in Locations BY Everywhere
  <2>3. pc'[t] = "ret_sleep" /\ \A u \in Tasks \ {t} : pc'[u] = pc[u] BY <2>1, <2>2, GotoOK
  <2>4. \A u \in Tasks : QueuesAsBefore(u) BY <1>2, <2>3 DEF QueuesAsBefore, Returns, Spares
  <2> QED BY <1>2, <2>1, <2>4, SameQueues
<1> QED BY <1>4, <1>5

\* Those that wait as workers do are workers and bound tasks.
LEMMA WorkerOrBound ==
  ASSUME KindsOK, NEW t \in Tasks, pc[t] \in {"sleep", "woken"}
  PROVE  IsBound(t) <=> t \notin Workers
<1>1. t \in Workers \/ t \in Callers BY DEF Tasks
<1>2. t \in Callers => t \in live BY DEF KindsOK, CallerOK, OutsideOK
<1> QED BY <1>1, <1>2, Distinct DEF IsBound

\* waitForWorkerCapability keeps the queues of tasks right.
LEMMA TakeWorkerQueues ==
  ASSUME Types, KindsOK, QueuesOK, NEW t \in Tasks, TakeWorker(t)
  PROVE  QueuesOK'
<1>1. PICK c : c = seen[t] OBVIOUS
<1>2. pc[t] = "woken" /\ tcap' = tcap /\ returning' = returning BY DEF TakeWorker
<1>3. IsBound(t) <=> t \notin Workers BY <1>2, WorkerOrBound
<1>4. CASE FreeFor(t, c) /\ (IsBound(t) \/ Head(spare[c]) = t)
  <2>1. spare' = SpareWithout(t, c) /\ pc' = Goto(t, then[t]) /\ c = tcap[t]
    BY <1>1, <1>4 DEF TakeWorker, FreeFor
  <2>2. then[t] \in Locations /\ then[t] \notin Sleeping /\ c \in Caps
    BY <2>1, Everywhere DEF Types, Sleeping
  <2>3. pc'[t] = then[t] /\ \A u \in Tasks \ {t} : pc'[u] = pc[u] BY <2>1, <2>2, GotoOK
  <2>4. ~Returns(t)' /\ ~Spares(t)' /\ ~Returns(t) BY <1>2, <2>2, <2>3 DEF Returns, Spares, Sleeping
  <2>5. \A u \in Tasks \ {t} : QueuesAsBefore(u) BY <1>2, <2>3 DEF QueuesAsBefore, Returns, Spares
  <2>6. CASE IsBound(t)
    <3>1. spare' = spare /\ ~Spares(t) BY <1>3, <2>1, <2>6 DEF SpareWithout, Spares
    <3>2. QueuesAsBefore(t) BY <2>4, <3>1 DEF QueuesAsBefore
    <3> QED BY <1>2, <2>5, <3>1, <3>2, SameQueues
  <2>7. CASE ~IsBound(t)
    <3>1. Spares(t) /\ spare' = [spare EXCEPT ![c] = Tail(@)] /\ Head(spare[c]) = t
      BY <1>2, <1>3, <1>4, <2>1, <2>7 DEF SpareWithout, Spares
    <3>2. In(t, spare[c]) BY <2>1, <2>2, <3>1 DEF QueuesOK
    <3>3. PICK r : r = Tail(spare[c]) OBVIOUS
    <3>4. (\A u : In(u, spare[c]) <=> u = t \/ In(u, r)) /\ (OnceIn(spare[c]) => OnceIn(r)
            /\ ~In(t, r))
      <4>1. spare[c] # <<>> BY <3>2, InNothing
      <4> QED BY <2>2, <3>1, <3>3, <4>1, TaskQueues, InTail
    <3>5. \A d \in Caps : spare'[d] = IF d = c THEN r ELSE spare[d] BY <3>1, <3>3, TaskQueues
    <3> QED BY <1>2, <2>1, <2>2, <2>4, <2>5, <3>1, <3>4, <3>5 DEF QueuesOK, QueuesAsBefore
  <2> QED BY <2>6, <2>7
<1>5. CASE ~(FreeFor(t, c) /\ (IsBound(t) \/ Head(spare[c]) = t))
  <2>1. spare' = spare /\ pc' = Goto(t, "sleep") BY <1>1, <1>5 DEF TakeWorker
  <2>2. "sleep" \in Locations BY Everywhere
  <2>3. pc'[t] = "sleep" /\ \A u \in Tasks \ {t} : pc'[u] = pc[u] BY <2>1, <2>2, GotoOK
  <2>4. \A u \in Tasks : QueuesAsBefore(u) BY <1>2, <2>3 DEF QueuesAsBefore, Returns, Spares
  <2> QED BY <1>2, <2>1, <2>4, SameQueues
<1> QED BY <1>4, <1>5

\* Steps of a task that has a capability, and goes on with it.
LEMMA ScheduleQueues ==
  ASSUME Types, QueuesOK, NEW t \in Tasks,
         \/ ProcessInbox(t) \/ InboxBusy(t) \/ ScheduleYield(t) \/ Yielded(t) \/ Pick(t)
         \/ Grab(t) \/ GrabFails(t)
         \/ ThreadYields(t) \/ ThreadBlocks(t) \/ ThreadFinishes(t) \/ HeapOverflow(t)
         \/ Enter(t) \/ RequestSync(t) \/ SyncWait(t) \/ Collect(t)
         \/ (PushRelease(t) /\ grabbed[t] = <<>>)
         \/ (ReleaseAll(t) /\ {c \in Caps : running[c] = t} \ {cap[t]} = {})
  PROVE  QueuesOK'
<1>1. pc[t] \in Holding /\ returning' = returning /\ spare' = spare /\ \A u \in Tasks \ {t} :
        tcap'[u] = tcap[u]
  BY DEF ProcessInbox, InboxBusy, ScheduleYield, Yielded, YieldCapability, Pick, Grab,
     GrabFails, ThreadYields, ThreadBlocks,
         ThreadFinishes, HeapOverflow, Enter, RequestSync, SyncWait, Collect, PushRelease,
         ReleaseAll, queues, threads,
         Holding, Types
<1>2. \E p \in Holding : pc' = Goto(t, p)
  <2>1. CASE ProcessInbox(t) \/ InboxBusy(t) \/ ScheduleYield(t) \/ Yielded(t) \/ Pick(t)
    BY <2>1 DEF ProcessInbox, InboxBusy, ScheduleYield, Yielded, YieldCapability, Pick, Holding
  <2>2. CASE Grab(t) \/ GrabFails(t)
    <3>1. pc[t] = "push" BY <2>2 DEF Grab, GrabFails
    <3>2. pc = Goto(t, "push") BY <3>1 DEF Goto, Types
    <3> QED BY <2>2, <3>2 DEF Grab, GrabFails, Holding
  <2>3. CASE ThreadYields(t) \/ ThreadBlocks(t) \/ ThreadFinishes(t) \/ HeapOverflow(t)
    BY <2>3 DEF ThreadYields, ThreadBlocks, ThreadFinishes, HeapOverflow, Holding
  <2>4. CASE Enter(t) \/ RequestSync(t) \/ SyncWait(t) \/ Collect(t)
    BY <2>4 DEF Enter, RequestSync, SyncWait, Collect, YieldCapability, AfterGC, Holding
  <2>5. CASE PushRelease(t) /\ grabbed[t] = <<>> BY <2>5 DEF PushRelease, Holding
  <2>6. CASE ReleaseAll(t) /\ {c \in Caps : running[c] = t} \ {cap[t]} = {}
    BY <2>6 DEF ReleaseAll, AfterGC, Holding
  <2> QED BY <2>1, <2>2, <2>3, <2>4, <2>5, <2>6
<1>3. \A p \in Holding : p \in Locations /\ p \notin Sleeping BY DEF Locations, Holding, Sleeping
<1> QED BY <1>1, <1>2, <1>3, GoesQueues

\* A new thread keeps the queues of tasks right.
LEMMA ForkQueues ==
  ASSUME Types, QueuesOK, NEW t \in Tasks, NEW h \in Threads,
         Fork(t, h) \/ (WakeThread(t, h) /\ ~(home[h] # cap[t] /\ running[home[h]] = NoTask))
  PROVE  QueuesOK'
<1>1. pc' = pc /\ tcap' = tcap /\ returning' = returning /\ spare' = spare BY DEF Fork, WakeThread
<1> QED BY <1>1, SameQueues DEF QueuesAsBefore, Returns, Spares

\* schedulePushWork that shares its threads keeps the queues of tasks right.
LEMMA ShareThreadsQueues ==
  ASSUME Types, TasksOK, KindsOK, PlacesOK, QueuesOK, NEW t \in Tasks, ShareThreads(t)
  PROVE  QueuesOK'
<1>1. pc[t] = "push" /\ returning' = returning /\ spare' = spare BY DEF ShareThreads
<1>2. PICK p \in {"yield", "push_release"} : pc' = Goto(t, p) BY DEF ShareThreads
<1>3. p \in Locations /\ p \notin Sleeping /\ pc[t] \notin Sleeping BY <1>1, Everywhere DEF Sleeping
<1>4. \A u \in Tasks \ {t} : Returns(u) \/ Spares(u) => tcap'[u] = tcap[u]
  <2>1. CASE grabbed[t] = <<>> BY <2>1 DEF ShareThreads, Types
  <2>2. CASE grabbed[t] # <<>>
    <3>1. PICK dest : dest = Dest(t) OBVIOUS
    <3>2. PICK c \in Caps : c = cap[t] BY DEF Types
    <3>3. \A u \in Tasks : /\ u \in DOMAIN dest => u \in Callers /\ pc[u] \in {"sleep", "woken"}
                           /\ tcap'[u] = IF u \in DOMAIN dest THEN dest[u] ELSE tcap[u]
      BY <2>2, <3>1, <3>2, Pushed
    <3> QED BY <3>3, Distinct DEF Returns, Spares
  <2> QED BY <2>1, <2>2
<1> QED BY <1>1, <1>2, <1>3, <1>4, GoesQueues

\* A step of a foreign call or of an API call keeps the queues of tasks right.
LEMMA CallsQueues ==
  ASSUME Types, QueuesOK, NEW t \in Tasks, NEW c \in Caps,
         ResumeThread(t) \/ RtsLock(t, c) \/ PerformGC(t, c) \/ Acquire(t)
  PROVE  QueuesOK'
<1>1. cap[t] \in Caps BY DEF Types
<1>2. PICK p \in {"run", "enter", "sync", "acquire"}, d \in Caps : WaitForCapability(t, d, p)
  <2>1. CASE Acquire(t)
    <3>1. Missing(t) \subseteq Caps BY DEF Missing
    <3> QED BY <2>1, <3>1, MinOK DEF Acquire
  <2> QED BY <1>1, <2>1 DEF ResumeThread, RtsLock, PerformGC
<1>3. pc[t] \notin Sleeping BY DEF ResumeThread, RtsLock, PerformGC, Acquire, Sleeping
<1>4. p \in Locations /\ p \notin Sleeping BY Everywhere DEF Sleeping
<1> QED BY <1>2, <1>3, <1>4, WaitQueues

\* The task u is on the way to the capability c.
OnWay(u, c) ==
  \/ pc[u] \in Sleeping /\ wakeup[u] /\ tcap[u] = c
  \/ pc[u] \in {"woken", "ret_woken"} /\ seen[u] = c /\ tcap[u] = c
  \/ sync = u

\* OnTheWay, task by task
LEMMA OnWayOK ==
  /\ \A c : OnTheWay(c) <=> \E u \in Tasks : OnWay(u, c)
  /\ \A c : OnTheWay(c)' <=> \E u \in Tasks : OnWay(u, c)'
BY DEF OnTheWay, OnWay

\* What is free was free before, with the same queues.
StaysFree(c) ==
  running[c] = NoTask /\ returning'[c] = returning[c] /\ runq'[c] = runq[c] /\ inbox'[c] = inbox[c]

\* If whatever is free was free before, with the same in its queues and somebody on the way,
\* nothing is stranded.
LEMMA SameStranded ==
  ASSUME NothingStranded,
         \A c \in Caps : running'[c] = NoTask => StaysFree(c),
         \A c \in Caps : running'[c] = NoTask => \A u \in Tasks : OnWay(u, c) => OnTheWay(c)'
  PROVE  NothingStranded'
<1> SUFFICES ASSUME NEW c \in Caps, running'[c] = NoTask,
                    returning'[c] # <<>> \/ runq'[c] # <<>> \/ inbox'[c] # <<>>
             PROVE  OnTheWay(c)'
  BY DEF NothingStranded
<1>1. OnTheWay(c) BY DEF StaysFree, NothingStranded
<1> QED BY <1>1, OnWayOK

\* A task that does not sleep takes a step; those that wait for a free capability are left
\* alone.
LEMMA AwakeStepStranded ==
  ASSUME NothingStranded, NEW t \in Tasks, pc[t] \notin Sleeping,
         \A c \in Caps : running'[c] = NoTask => StaysFree(c),
         \A u \in Tasks \ {t} : /\ pc'[u] = pc[u] /\ wakeup'[u] = wakeup[u] /\ seen'[u] = seen[u]
                                /\ tcap'[u] = tcap[u] \/ running'[tcap[u]] # NoTask,
         sync # NoTask => sync' = sync
  PROVE  NothingStranded'
<1>1. ASSUME NEW c \in Caps, running'[c] = NoTask, NEW u \in Tasks, OnWay(u, c)
      PROVE  OnTheWay(c)'
  <2>1. CASE sync = u
    <3>1. sync' = u BY <2>1, Distinct
    <3> QED BY <3>1, OnWayOK DEF OnWay
  <2>2. CASE sync # u
    <3>1. u # t /\ tcap[u] = c BY <1>1, <2>2 DEF OnWay, Sleeping
    <3>2. tcap'[u] = tcap[u] BY <1>1, <3>1
    <3>3. OnWay(u, c)' BY <1>1, <2>2, <3>1, <3>2 DEF OnWay
    <3> QED BY <3>3, OnWayOK
  <2> QED BY <2>1, <2>2
<1> QED BY <1>1, SameStranded

\* ... one that has a capability, and goes on with it.
LEMMA ScheduleStranded ==
  ASSUME Types, TasksOK, NothingStranded, NEW t \in Tasks,
         \/ ProcessInbox(t) \/ InboxBusy(t) \/ ScheduleYield(t) \/ Yielded(t) \/ Pick(t)
         \/ Grab(t) \/ GrabFails(t)
         \/ ThreadYields(t) \/ ThreadBlocks(t) \/ ThreadFinishes(t) \/ HeapOverflow(t)
         \/ Enter(t) \/ RequestSync(t) \/ SyncWait(t)
         \/ (PushRelease(t) /\ grabbed[t] = <<>>)
         \/ (ReleaseAll(t) /\ {c \in Caps : running[c] = t} \ {cap[t]} = {})
  PROVE  NothingStranded'
<1>1. pc[t] \in Holding /\ returning' = returning
  BY DEF ProcessInbox, InboxBusy, ScheduleYield, Yielded, YieldCapability, Pick, Grab,
     GrabFails, ThreadYields, ThreadBlocks,
         ThreadFinishes, HeapOverflow, Enter, RequestSync, SyncWait, PushRelease, ReleaseAll,
         queues, Holding
<1>2. \A u \in Tasks \ {t} : pc'[u] = pc[u] /\ wakeup'[u] = wakeup[u] /\ seen'[u] = seen[u]
        /\ tcap'[u] = tcap[u]
  <2>1. /\ pc \in [Tasks -> Locations] /\ wakeup \in [Tasks -> BOOLEAN] /\ seen \in [Tasks -> Caps]
        /\ tcap \in [Tasks -> Caps]
    BY DEF Types
  <2>2. \A u \in Tasks \ {t} : pc'[u] = pc[u]
    BY <2>1 DEF ProcessInbox, InboxBusy, ScheduleYield, Yielded, YieldCapability, Pick, Grab,
       GrabFails, ThreadYields,
                ThreadBlocks, ThreadFinishes, HeapOverflow, Enter, RequestSync, SyncWait,
                PushRelease, ReleaseAll, Goto
  <2>3. \A u \in Tasks \ {t} : wakeup'[u] = wakeup[u] /\ seen'[u] = seen[u] /\ tcap'[u] = tcap[u]
    BY <2>1 DEF ProcessInbox, InboxBusy, ScheduleYield, Yielded, YieldCapability, Pick, Grab,
       GrabFails, ThreadYields,
                ThreadBlocks, ThreadFinishes, HeapOverflow, Enter, RequestSync, SyncWait,
                PushRelease, ReleaseAll
  <2> QED BY <2>2, <2>3
<1>3. sync # NoTask => sync' = sync
  BY DEF ProcessInbox, InboxBusy, ScheduleYield, Yielded, YieldCapability, Pick, Grab,
     GrabFails, ThreadYields, ThreadBlocks,
         ThreadFinishes, HeapOverflow, Enter, RequestSync, SyncWait, PushRelease, ReleaseAll,
         queues, threads
<1>4. PICK c \in Caps : c = cap[t] BY DEF Types
<1>5. running[c] = t BY <1>1, <1>4 DEF TasksOK, TaskOK, OwnerOK, Holds
<1>6. /\ running \in [Caps -> Tasks \cup {NoTask}] /\ runq \in [Caps -> Seq(Threads)]
           /\ inbox \in [Caps -> Seq(Threads)]
  BY DEF Types
<1>7. running' = running \/ \E d \in Caps : running' = [running EXCEPT ![d] = t]
  <2>1. CASE Grab(t)
    <3>1. Candidate(t) \in Caps BY CandidateOK
    <3> QED BY <2>1, <3>1 DEF Grab
  <2>2. CASE ~Grab(t)
    BY <2>2 DEF ProcessInbox, InboxBusy, ScheduleYield, Yielded, YieldCapability, Pick,
       GrabFails, ThreadYields, ThreadBlocks,
                ThreadFinishes, HeapOverflow, Enter, RequestSync, SyncWait, PushRelease, ReleaseAll
  <2> QED BY <2>1, <2>2
<1>8. \A d \in Caps : running'[d] = NoTask => running[d] = NoTask /\ d # c
  BY <1>5, <1>6, <1>7, Distinct
<1>9. \A d \in Caps : d # c => runq'[d] = runq[d] /\ inbox'[d] = inbox[d]
  BY <1>4, <1>6 DEF ProcessInbox, InboxBusy, ScheduleYield, Yielded, YieldCapability, Pick,
     Grab, GrabFails, ThreadYields,
         ThreadBlocks, ThreadFinishes, HeapOverflow, Enter, RequestSync, SyncWait, PushRelease,
         ReleaseAll, queues
<1>10. \A d \in Caps : running'[d] = NoTask => StaysFree(d) BY <1>1, <1>8, <1>9 DEF StaysFree
<1>11. pc[t] \notin Sleeping BY <1>1 DEF Holding, Sleeping
<1> QED BY <1>2, <1>3, <1>10, <1>11, AwakeStepStranded

\* Before the collection, the task has every capability.
LEMMA CollectStranded ==
  ASSUME Types, NEW t \in Tasks, Collect(t)
  PROVE  NothingStranded'
<1>1. running' = running /\ \A c \in Caps : running[c] = t BY DEF Collect, Missing
<1> QED BY <1>1, Distinct DEF NothingStranded

\* The program gives threads only to capabilities with an owner, or with a wakeup.
LEMMA ForkStranded ==
  ASSUME Types, TasksOK, NothingStranded, NEW t \in Tasks, NEW h \in Threads,
         Fork(t, h) \/ (WakeThread(t, h) /\ ~(home[h] # cap[t] /\ running[home[h]] = NoTask))
  PROVE  NothingStranded'
<1>1. /\ pc[t] = "run" /\ UNCHANGED <<running, returning, pc, tcap, wakeup, seen, sync>>
  BY DEF Fork, WakeThread
<1>2. PICK c \in Caps : c = cap[t] BY DEF Types
<1>3. running[c] = t BY <1>1, <1>2 DEF TasksOK, TaskOK, OwnerOK, Holds, Holding
<1>4. runq \in [Caps -> Seq(Threads)] /\ inbox \in [Caps -> Seq(Threads)] BY QueuesAreSequences
<1>5. PICK e : e = home[h] OBVIOUS
<1>6. /\ runq' = runq \/ runq' = [runq EXCEPT ![c] = Append(@, h)]
      /\ inbox' = inbox \/ (running[e] # NoTask /\ inbox' = [inbox EXCEPT ![e] = <<h>> \o @])
  BY <1>2, <1>5 DEF Fork, WakeThread
<1>7. \A d \in Caps : running'[d] = NoTask => StaysFree(d)
  BY <1>1, <1>3, <1>4, <1>6, Distinct DEF StaysFree
<1>8. pc[t] \notin Sleeping BY <1>1 DEF Sleeping
<1> QED BY <1>1, <1>7, <1>8, AwakeStepStranded

\* Threads are pushed to capabilities that the task has got hold of, and their tasks waited for
\* its own.
LEMMA ShareThreadsStranded ==
  ASSUME Types, TasksOK, KindsOK, PlacesOK, NothingStranded, NEW t \in Tasks, ShareThreads(t)
  PROVE  NothingStranded'
<1>1. pc[t] = "push" /\ UNCHANGED <<running, returning, inbox, sync, wakeup, seen>>
  BY DEF ShareThreads
<1>2. PICK p \in {"yield", "push_release"} : pc' = Goto(t, p) BY DEF ShareThreads
<1>3. \A u \in Tasks \ {t} : pc'[u] = pc[u]
  <2>1. p \in Locations BY Everywhere
  <2> QED BY <1>2, <2>1, GotoOK
<1>4. PICK c \in Caps : c = cap[t] BY DEF Types
<1>5. TaskOK(t) /\ running[c] = t BY <1>1, <1>4 DEF TasksOK, TaskOK, OwnerOK, Holds, Holding
<1>6. PICK dest : dest = Dest(t) OBVIOUS
<1>7. CASE grabbed[t] = <<>>
  <2>1. runq' = runq /\ \A u \in Tasks \ {t} : tcap'[u] = tcap[u] BY <1>7 DEF ShareThreads, Types
  <2>2. \A d \in Caps : running'[d] = NoTask => StaysFree(d) BY <1>1, <2>1 DEF StaysFree
  <2> QED BY <1>1, <1>3, <2>1, <2>2, AwakeStepStranded DEF Sleeping
<1>8. CASE grabbed[t] # <<>>
  <2>1. /\ \A h \in DOMAIN dest : In(h, runq[c])
        /\ \A u \in Tasks : u \in DOMAIN dest => u \in Callers /\ ~Holds(u)
        /\ \A u \in Tasks : tcap'[u] = IF u \in DOMAIN dest THEN dest[u] ELSE tcap[u]
    BY <1>4, <1>6, <1>8, Pushed
  <2>2. \A u \in Tasks : u \in DOMAIN dest => tcap[u] = c BY <2>1, QueuedTask
  <2>3. \A u \in Tasks \ {t} : tcap'[u] = tcap[u] \/ running'[tcap[u]] # NoTask
    BY <1>1, <1>5, <2>1, <2>2, Distinct
  <2>4. \A d \in Caps : running[d] = NoTask => runq'[d] = runq[d]
    <3> SUFFICES ASSUME NEW d \in Caps, running[d] = NoTask PROVE runq'[d] = runq[d] OBVIOUS
    <3>1. PICK rest, moved : rest = Share(t).rest /\ moved = Share(t).moved OBVIOUS
    <3>2. PICK k : k = Keep(moved, {h \in DOMAIN dest : dest[h] = d}) OBVIOUS
    <3>3. d # c BY <1>5, Distinct
    <3>4. runq'[d] = runq[d] \o k
      <4>1. runq' = [e \in Caps |-> IF e = c THEN rest
                                    ELSE runq[e] \o Keep(moved, {h \in DOMAIN dest : dest[h] = e})]
        BY <1>4, <1>6, <1>8, <3>1 DEF ShareThreads
      <4> QED BY <3>2, <3>3, <4>1
    <3>5. \A h \in DOMAIN dest : dest[h] # d
      <4>1. \A h \in DOMAIN dest : In(dest[h], grabbed[t]) BY <1>6, <1>8, DestOK
      <4>2. \A e : In(e, grabbed[t]) => running[e] = t BY <1>5 DEF TaskOK, PushOK, In
      <4> QED BY <4>1, <4>2, Distinct
    <3>6. moved \in Seq(Threads) BY <1>6, <1>8, <3>1, DestOK
    <3>7. k \in Seq(Threads) /\ \A x : In(x, k) => x \in {h \in DOMAIN dest : dest[h] = d}
      BY <3>2, <3>6, KeepAll
    <3>8. k = <<>> BY <3>5, <3>7, InSomething
    <3> QED BY <3>4, <3>8, QueuesAreSequences
  <2>5. \A d \in Caps : running'[d] = NoTask => StaysFree(d) BY <1>1, <2>4 DEF StaysFree
  <2> QED BY <1>1, <1>3, <2>3, <2>5, AwakeStepStranded DEF Sleeping
<1> QED BY <1>7, <1>8

\* Whoever queues for a capability queues for one that has an owner.
LEMMA CallsStranded ==
  ASSUME Types, NothingStranded, NEW t \in Tasks, NEW c \in Caps,
         ResumeThread(t) \/ RtsLock(t, c) \/ PerformGC(t, c) \/ Acquire(t)
  PROVE  NothingStranded'
<1>1. cap[t] \in Caps BY DEF Types
<1>2. PICK p \in {"run", "enter", "sync", "acquire"}, d \in Caps : WaitForCapability(t, d, p)
  <2>1. CASE Acquire(t)
    <3>1. Missing(t) \subseteq Caps BY DEF Missing
    <3> QED BY <2>1, <3>1, MinOK DEF Acquire
  <2> QED BY <1>1, <2>1 DEF ResumeThread, RtsLock, PerformGC
<1>3. pc[t] \notin Sleeping BY DEF ResumeThread, RtsLock, PerformGC, Acquire, Sleeping
<1>4. /\ running \in [Caps -> Tasks \cup {NoTask}] /\ returning \in [Caps -> Seq(Tasks)]
           /\ tcap \in [Tasks -> Caps]
      /\ pc \in [Tasks -> Locations]
  BY DEF Types
<1>5. UNCHANGED <<runq, inbox, sync, wakeup, seen>> BY <1>2 DEF WaitForCapability
<1>6. \A u \in Tasks \ {t} : pc'[u] = pc[u] /\ tcap'[u] = tcap[u]
  BY <1>2, <1>4 DEF WaitForCapability, Goto
<1>7. \A e \in Caps : running'[e] = NoTask => running[e] = NoTask /\ returning'[e] = returning[e]
  BY <1>2, <1>4, Distinct DEF WaitForCapability
<1>8. \A e \in Caps : running'[e] = NoTask => StaysFree(e) BY <1>5, <1>7 DEF StaysFree
<1> QED BY <1>3, <1>5, <1>6, <1>8, AwakeStepStranded

\* Awake, the task is still on its way.
LEMMA AwakeStranded ==
  ASSUME Types, NothingStranded, NEW t \in Tasks, pc[t] \in {"sleep", "ret_sleep"}, Awake(t)
  PROVE  NothingStranded'
<1>1. PICK p \in {"woken", "ret_woken"} : pc' = Goto(t, p) BY DEF Awake
<1>2. p \in Locations BY Everywhere
<1>3. pc'[t] = p /\ \A u \in Tasks \ {t} : pc'[u] = pc[u] BY <1>1, <1>2, GotoOK
<1>4. UNCHANGED <<running, returning, runq, inbox, sync, tcap>> BY DEF Awake, queues
<1>5. seen'[t] = tcap[t] /\ \A u \in Tasks \ {t} : seen'[u] = seen[u] /\ wakeup'[u] = wakeup[u]
  BY DEF Awake, Types
<1>6. ASSUME NEW c \in Caps, NEW u \in Tasks, OnWay(u, c) PROVE OnWay(u, c)'
  <2>1. CASE u = t BY <1>3, <1>4, <1>5, <1>6, <2>1 DEF OnWay
  <2>2. CASE u # t BY <1>3, <1>4, <1>5, <1>6, <2>2 DEF OnWay
  <2> QED BY <2>1, <2>2
<1>7. \A c \in Caps : running'[c] = NoTask => StaysFree(c) BY <1>4 DEF StaysFree
<1> QED BY <1>6, <1>7, OnWayOK, SameStranded

\* The task t looks at c; if it goes to sleep again, either c is taken, or t has woken the one
\* whose turn it is.
LEMMA LooksStranded ==
  ASSUME Types, NothingStranded, NEW t \in Tasks, NEW c \in Caps, seen[t] = c, pc[t] \in {"woken",
         "ret_woken"},
         NEW p \in {"sleep", "ret_sleep"}, pc' = Goto(t, p),
         UNCHANGED <<running, returning, runq, inbox, sync, tcap>>, seen' = [seen EXCEPT ![t] = 0],
         \A u \in Tasks : wakeup[u] => wakeup'[u],
         running[c] = NoTask /\ tcap[t] = c =>
            \E u \in Tasks \ {t} : pc[u] \in Sleeping /\ tcap[u] = c /\ wakeup'[u]
  PROVE  NothingStranded'
<1>1. p \in Locations BY Everywhere
<1>2. pc'[t] = p /\ \A u \in Tasks \ {t} : pc'[u] = pc[u] BY <1>1, GotoOK
<1>3. \A u \in Tasks \ {t} : seen'[u] = seen[u] BY DEF Types
<1>4. ASSUME NEW d \in Caps, running'[d] = NoTask, NEW u \in Tasks, OnWay(u, d) PROVE OnTheWay(d)'
  <2>1. CASE u # t
    <3>1. OnWay(u, d)' BY <1>2, <1>3, <1>4, <2>1 DEF OnWay
    <3> QED BY <3>1, OnWayOK
  <2>2. CASE u = t /\ sync = t
    <3>1. OnWay(u, d)' BY <2>2 DEF OnWay
    <3> QED BY <3>1, OnWayOK
  <2>3. CASE u = t /\ sync # t /\ wakeup[t]
    <3>1. tcap[t] = d BY <1>4, <2>3 DEF OnWay
    <3>2. OnWay(u, d)' BY <1>2, <2>3, <3>1 DEF OnWay, Sleeping
    <3> QED BY <3>2, OnWayOK
  <2>4. CASE u = t /\ sync # t /\ ~wakeup[t]
    <3>1. d = c /\ tcap[t] = c BY <1>4, <2>4 DEF OnWay
    <3>2. PICK v \in Tasks \ {t} : pc[v] \in Sleeping /\ tcap[v] = c /\ wakeup'[v] BY <1>4, <3>1
    <3>3. OnWay(v, d)' BY <1>2, <3>1, <3>2 DEF OnWay
    <3> QED BY <3>3, OnWayOK
  <2> QED BY <2>1, <2>2, <2>3, <2>4
<1>5. \A d \in Caps : running'[d] = NoTask => StaysFree(d) BY DEF StaysFree
<1> QED BY <1>4, <1>5, SameStranded

\* The task t takes c.
LEMMA TakesStranded ==
  ASSUME Types, NothingStranded, NEW t \in Tasks, NEW c \in Caps, seen[t] = c, tcap[t] = c,
         pc[t] \in {"woken", "ret_woken"},
         NEW p \in Locations, pc' = Goto(t, p), running' = [running EXCEPT ![c] = t],
         \A d \in Caps : d # c => returning'[d] = returning[d],
         UNCHANGED <<runq, inbox, sync, tcap, wakeup>>, seen' = [seen EXCEPT ![t] = 0]
  PROVE  NothingStranded'
<1>1. pc'[t] = p /\ \A u \in Tasks \ {t} : pc'[u] = pc[u] BY GotoOK
<1>2. \A u \in Tasks \ {t} : seen'[u] = seen[u] BY DEF Types
<1>3. \A d \in Caps : running'[d] = NoTask => d # c /\ running[d] = NoTask BY Distinct DEF Types
<1>4. ASSUME NEW d \in Caps, running'[d] = NoTask, NEW u \in Tasks, OnWay(u, d) PROVE OnWay(u, d)'
  <2>1. CASE u # t BY <1>1, <1>2, <1>4, <2>1 DEF OnWay
  <2>2. CASE u = t BY <1>3, <1>4, <2>2 DEF OnWay
  <2> QED BY <2>1, <2>2
<1>5. \A d \in Caps : running'[d] = NoTask => StaysFree(d) BY <1>3 DEF StaysFree
<1> QED BY <1>4, <1>5, OnWayOK, SameStranded

\* The first in a queue, which is not empty, is in it.
LEMMA InFirst ==
  ASSUME NEW T, NEW q \in Seq(T), q # <<>>
  PROVE  Head(q) \in T /\ In(Head(q), q)
BY InTail

\* waitForCapability strands nothing.
LEMMA TakeReturningStranded ==
  ASSUME Types, KindsOK, QueuesOK, NothingStranded, NEW t \in Tasks, TakeReturning(t)
  PROVE  NothingStranded'
<1>1. PICK c : c = seen[t] OBVIOUS
<1>2. pc[t] = "ret_woken" /\ UNCHANGED <<runq, inbox, sync, tcap>> /\ seen' = [seen EXCEPT ![t] = 0]
  BY DEF TakeReturning
<1>3. c = tcap[t] /\ c \in Caps BY <1>1, <1>2 DEF KindsOK, KindOK, Types
<1>4. CASE FirstInLine(t, c)
  <2>1. /\ running' = [running EXCEPT ![c] = t] /\ returning' = [returning EXCEPT ![c] = Tail(@)]
        /\ pc' = Goto(t, then[t]) /\ wakeup' = wakeup
    BY <1>1, <1>4 DEF TakeReturning
  <2>2. then[t] \in Locations BY Everywhere DEF Types
  <2>3. \A d \in Caps : d # c => returning'[d] = returning[d] BY <2>1, TaskQueues
  <2> QED BY <1>1, <1>2, <1>3, <2>1, <2>2, <2>3, TakesStranded
<1>5. CASE ~FirstInLine(t, c)
  <2>1. /\ running' = running /\ returning' = returning /\ pc' = Goto(t, "ret_sleep")
        /\ wakeup' = IF running[c] = NoTask THEN [wakeup EXCEPT ![Head(returning[c])] = TRUE] ELSE wakeup
    BY <1>1, <1>5 DEF TakeReturning, PassOn
  <2>2. wakeup \in [Tasks -> BOOLEAN] BY DEF Types
  <2>3. In(t, returning[c]) BY <1>2, <1>3 DEF QueuesOK, Returns
  <2>4. PICK u : u = Head(returning[c]) OBVIOUS
  <2>5. u \in Tasks /\ In(u, returning[c])
    <3>1. returning[c] # <<>> BY <2>3, InNothing
    <3> QED BY <1>3, <2>4, <3>1, TaskQueues, InFirst
  <2>6. pc[u] \in Sleeping /\ tcap[u] = c BY <1>3, <2>5 DEF QueuesOK, Returns, Sleeping
  <2>7. \A v \in Tasks : wakeup[v] => wakeup'[v] BY <2>1, <2>2
  <2>8. running[c] = NoTask => u # t /\ wakeup'[u] BY <1>5, <2>1, <2>2, <2>4, <2>5 DEF FirstInLine
  <2>9. running[c] = NoTask /\ tcap[t] = c => \E v \in Tasks \ {t} : pc[v] \in Sleeping
          /\ tcap[v] = c /\ wakeup'[v]
    BY <2>5, <2>6, <2>8
  <2> QED BY <1>1, <1>2, <1>3, <2>1, <2>7, <2>9, LooksStranded
<1> QED BY <1>4, <1>5

\* waitForWorkerCapability strands nothing.
LEMMA TakeWorkerStranded ==
  ASSUME Types, KindsOK, QueuesOK, NothingStranded, NEW t \in Tasks, TakeWorker(t)
  PROVE  NothingStranded'
<1>1. PICK c \in Caps : c = seen[t] BY DEF Types
<1>2. pc[t] = "woken" /\ UNCHANGED <<returning, runq, inbox, sync, tcap>>
        /\ seen' = [seen EXCEPT ![t] = 0]
  BY DEF TakeWorker
<1>3. IsBound(t) <=> t \notin Workers BY <1>2, WorkerOrBound
<1>4. CASE FreeFor(t, c) /\ (IsBound(t) \/ Head(spare[c]) = t)
  <2>1. running' = [running EXCEPT ![c] = t] /\ pc' = Goto(t, then[t]) /\ wakeup' = wakeup
          /\ tcap[t] = c
    BY <1>1, <1>4 DEF TakeWorker, FreeFor
  <2>2. then[t] \in Locations BY Everywhere DEF Types
  <2> QED BY <1>1, <1>2, <2>1, <2>2, TakesStranded
<1>5. CASE ~(FreeFor(t, c) /\ (IsBound(t) \/ Head(spare[c]) = t))
  <2>1. /\ running' = running /\ pc' = Goto(t, "sleep")
        /\ wakeup' = IF FreeFor(t, c)
             /\ running[c] = NoTask THEN [wakeup EXCEPT ![Head(spare[c])] = TRUE] ELSE wakeup
    BY <1>1, <1>5 DEF TakeWorker, PassOn
  <2>2. wakeup \in [Tasks -> BOOLEAN] BY DEF Types
  <2>3. \A v \in Tasks : wakeup[v] => wakeup'[v] BY <2>1, <2>2
  <2>4. ASSUME running[c] = NoTask, tcap[t] = c
        PROVE  \E v \in Tasks \ {t} : pc[v] \in Sleeping /\ tcap[v] = c /\ wakeup'[v]
    <3>1. FreeFor(t, c) /\ t \in Workers /\ Head(spare[c]) # t BY <1>3, <1>5, <2>4 DEF FreeFor
    <3>2. In(t, spare[c]) BY <1>2, <2>4, <3>1 DEF QueuesOK, Spares
    <3>3. PICK u : u = Head(spare[c]) OBVIOUS
    <3>4. u \in Tasks /\ In(u, spare[c])
      <4>1. spare[c] # <<>> BY <3>2, InNothing
      <4> QED BY <3>3, <4>1, TaskQueues, InFirst
    <3>5. pc[u] \in Sleeping /\ tcap[u] = c BY <3>4 DEF QueuesOK, Spares, Sleeping
    <3>6. u # t /\ wakeup'[u] BY <2>1, <2>2, <2>4, <3>1, <3>3, <3>4
    <3> QED BY <3>4, <3>5, <3>6
  <2> QED BY <1>1, <1>2, <2>1, <2>3, <2>4, LooksStranded
<1> QED BY <1>4, <1>5

\* releaseCapability_ leaves the capability to someone on the way, or there is nothing to do
\* for it.
LEMMA GivesUpStranded ==
  ASSUME Types, TasksOK, KindsOK, PlacesOK, QueuesOK, NothingStranded, NEW t \in Tasks,
         NEW c, NEW aw, NEW sp, NEW ib, NEW late, NEW p, NEW tcaps,
         GivesUp(t, c, aw, sp, ib, late, p, tcaps)
  PROVE  NothingStranded'
<1>1. PICK s : s = Successor(aw, returning[c], sp, runq[c], ib) OBVIOUS
<1>2. /\ pc[t] \in Holding /\ c \in Caps /\ p \in Locations
      /\ tcaps \in [Tasks -> Caps] /\ \A u \in Tasks \ {t} : tcaps[u] = tcap[u]
      /\ sync' = sync /\ seen' = seen
      /\ running[c] \in {t, NoTask}
  BY DEF GivesUp
<1>3. /\ returning' = [returning EXCEPT ![c] = @ \o late]
      /\ runq' = [runq EXCEPT ![c] = runq[c]]
      /\ inbox' = [inbox EXCEPT ![c] = ib]
      /\ wakeup' = IF s.how = "give" THEN [wakeup EXCEPT ![s.task] = TRUE] ELSE wakeup
  BY <1>1 DEF GivesUp, Release
<1>4. PICK pcs : pcs = Goto(t, p) OBVIOUS
<1>5. \/ /\ s.how # "start" /\ running' = [running EXCEPT ![c] = NoTask] /\ pc' = pcs
           /\ tcap' = tcaps
      \/ /\ s.how = "start"
         /\ \E w \in Workers : /\ pcs[w] = "dead" /\ running' = [running EXCEPT ![c] = w]
                               /\ pc' = [pcs EXCEPT ![w] = "loop"]
                                    /\ tcap' = [tcaps EXCEPT ![w] = c]
  BY <1>1, <1>4 DEF GivesUp, Release
<1>6. pcs \in [Tasks -> Locations] /\ pcs[t] = p /\ \A u \in Tasks \ {t} : pcs[u] = pc[u]
  <2>1. /\ Goto(t, p) \in [Tasks -> Locations] /\ Goto(t, p)[t] = p
        /\ \A u \in Tasks \ {t} : Goto(t, p)[u] = pc[u]
    BY <1>2, GotoOK
  <2> QED BY <1>4, <2>1
<1>7. /\ running \in [Caps -> Tasks \cup {NoTask}] /\ wakeup \in [Tasks -> BOOLEAN]
      /\ runq \in [Caps -> Seq(Threads)] /\ inbox \in [Caps -> Seq(Threads)]
  BY DEF Types
<1>8. \A u \in Tasks : wakeup[u] => wakeup'[u] BY <1>3, <1>7
<1>9. \A u \in Tasks \ {t} : \/ pc'[u] = pc[u] /\ tcap'[u] = tcap[u]
                             \/ pc[u] = "dead"
  BY <1>2, <1>5, <1>6, Distinct
<1>10. ASSUME NEW d \in Caps, NEW u \in Tasks, OnWay(u, d) PROVE OnWay(u, d)'
  <2>1. CASE sync = u BY <1>2, <2>1 DEF OnWay
  <2>2. CASE sync # u
    <3>1. pc[u] \in Sleeping BY <1>10, <2>2 DEF OnWay, Sleeping
    <3>2. u # t /\ pc[u] # "dead" BY <1>2, <3>1 DEF Holding, Sleeping
    <3> QED BY <1>2, <1>8, <1>9, <1>10, <2>2, <3>2 DEF OnWay
  <2> QED BY <2>1, <2>2
<1>11. ASSUME NEW d \in Caps, d # c, running'[d] = NoTask,
              returning'[d] # <<>> \/ runq'[d] # <<>> \/ inbox'[d] # <<>>
       PROVE  OnTheWay(d)'
  <2>1. running[d] = NoTask BY <1>2, <1>5, <1>7, <1>11
  <2>2. returning'[d] = returning[d] /\ runq'[d] = runq[d] /\ inbox'[d] = inbox[d]
    BY <1>2, <1>3, <1>7, <1>11, TaskQueues
  <2>3. OnTheWay(d) BY <1>11, <2>1, <2>2 DEF NothingStranded
  <2> QED BY <1>10, <2>3, OnWayOK
<1>12. ASSUME running'[c] = NoTask, returning'[c] # <<>> \/ runq'[c] # <<>> \/ inbox'[c] # <<>>
       PROVE  OnTheWay(c)'
  <2>1. s.how # "start" /\ pc' = pcs /\ tcap' = tcaps BY <1>2, <1>5, <1>7, <1>12, Distinct
  <2>2. returning[c] \in Seq(Tasks) /\ runq[c] \in Seq(Threads)
    BY <1>2, TaskQueues, QueuesAreSequences
  \* Who is signalled, sleeps for c.
  <2>3. ASSUME NEW u \in Tasks, s = Give(u), pc'[u] \in Sleeping, tcap'[u] = c PROVE OnTheWay(c)'
    <3>1. wakeup'[u] BY <1>3, <1>7, <2>3 DEF Give
    <3>2. OnWay(u, c)' BY <2>3, <3>1 DEF OnWay
    <3> QED BY <3>2, OnWayOK
  <2>4. \A u \in Tasks \ {t} : pc'[u] = pc[u] /\ tcap'[u] = tcap[u] BY <1>2, <1>6, <2>1
  <2>5. CASE returning[c] # <<>>
    <3>1. PICK u : u = Head(returning[c]) OBVIOUS
    <3>2. u \in Tasks /\ In(u, returning[c]) BY <2>2, <2>5, <3>1, InFirst
    <3>3. pc[u] \in {"ret_sleep", "ret_woken"} /\ tcap[u] = c BY <1>2, <3>2 DEF QueuesOK, Returns
    <3>4. u # t BY <1>2, <3>3 DEF Holding
    <3>5. s = Give(u) BY <1>1, <2>5, <3>1 DEF Successor
    <3> QED BY <2>3, <2>4, <3>2, <3>3, <3>4, <3>5 DEF Sleeping
  <2>6. CASE sync # NoTask
    <3>1. PICK u \in Tasks : sync = u BY <2>6 DEF Types
    <3>2. OnWay(u, c)' BY <1>2, <3>1 DEF OnWay
    <3> QED BY <3>2, OnWayOK
  <2>7. CASE returning[c] = <<>> /\ sync = NoTask
    <3>1. \/ sp = spare[c] /\ late = <<>> /\ (p = "sleep" => t \in Callers /\ tcaps[t] = c)
          \/ sp = <<t>> \o spare[c] /\ late = <<>> /\ p = "sleep" /\ t \in Workers /\ tcaps[t] = c
      BY <2>7 DEF GivesUp
    <3>2. spare[c] \in Seq(Tasks) BY <1>2, TaskQueues
    <3>3. CASE runq[c] # <<>> /\ Head(runq[c]) \in Callers
      <4>1. PICK u \in Callers : u = Head(runq[c]) /\ In(u, runq[c]) BY <2>2, <3>3, InFirst
      <4>2. s = Give(u) BY <1>1, <2>7, <3>3, <4>1 DEF Successor
      <4>3. u \in Tasks BY Distinct
      <4>4. CASE u = t
        <5>1. p = "sleep" BY <4>1, <4>4 DEF GivesUp
        <5>2. tcaps[t] = c BY <3>1, <5>1
        <5>3. pc'[u] = "sleep" /\ tcap'[u] = c BY <1>6, <2>1, <4>4, <5>1, <5>2
        <5> QED BY <2>3, <4>2, <4>3, <5>3 DEF Sleeping
      <4>5. CASE u # t
        <5>1. ~Holds(u)
          <6> SUFFICES ASSUME Holds(u) PROVE FALSE OBVIOUS
          <6>1. c = cap[u] BY <1>2, <4>1, <4>3, OwnThread
          <6>2. running[c] = u BY <4>3, <6>1 DEF TasksOK, TaskOK, OwnerOK
          <6> QED BY <1>2, <4>3, <4>5, <6>2, Distinct
        <5>2. pc[u] \in {"sleep", "woken"} /\ tcap[u] = c BY <1>2, <4>1, <5>1, QueuedTask
        <5> QED BY <2>3, <2>4, <4>2, <4>3, <4>5, <5>2 DEF Sleeping
      <4> QED BY <4>4, <4>5
    <3>4. CASE ~(runq[c] # <<>> /\ Head(runq[c]) \in Callers)
      <4>1. sp # <<>>
        <5> SUFFICES ASSUME sp = <<>> PROVE FALSE OBVIOUS
        <5>1. s = StartWorker BY <1>1, <2>7, <3>4 DEF Successor
        <5> QED BY <2>1, <5>1 DEF StartWorker
      <4>2. CASE Work(aw, runq[c], ib)
        <5>1. PICK u : u = Head(sp) OBVIOUS
        <5>2. s = Give(u) BY <1>1, <2>7, <3>4, <4>1, <4>2, <5>1 DEF Successor
        <5>3. CASE sp = spare[c]
          <6>1. u \in Tasks /\ In(u, spare[c]) BY <3>2, <4>1, <5>1, <5>3, InFirst
          <6>2. pc[u] \in {"sleep", "woken"} /\ tcap[u] = c BY <1>2, <6>1 DEF QueuesOK, Spares
          <6>3. u # t BY <1>2, <6>2 DEF Holding
          <6> QED BY <2>3, <2>4, <5>2, <6>1, <6>2, <6>3 DEF Sleeping
        <5>4. CASE sp = <<t>> \o spare[c] /\ p = "sleep" /\ tcaps[t] = c
          <6>1. u = t BY <3>2, <5>1, <5>4, InPrepend
          <6>2. pc'[u] = "sleep" /\ tcap'[u] = c BY <1>6, <2>1, <5>4, <6>1
          <6> QED BY <2>3, <5>2, <6>1, <6>2 DEF Sleeping
        <5> QED BY <3>1, <5>3, <5>4
      <4>3. CASE ~Work(aw, runq[c], ib)
        <5>1. runq[c] = <<>> /\ ib = <<>> BY <4>3 DEF Work
        <5>2. returning'[c] = <<>>
          <6>1. late = <<>> BY <3>1
          <6>2. returning'[c] = returning[c] \o late BY <1>2, <1>3, TaskQueues
          <6> QED BY <2>7, <6>1, <6>2
        <5>3. runq'[c] = <<>> /\ inbox'[c] = <<>> BY <1>2, <1>3, <1>7, <5>1
        <5> QED BY <1>12, <5>2, <5>3
      <4> QED BY <4>2, <4>3
    <3> QED BY <3>3, <3>4
  <2> QED BY <2>5, <2>6, <2>7
<1> QED BY <1>11, <1>12 DEF NothingStranded

\* Nobody starts to wait, and the collection goes on.
LEMMA SameWaits ==
  ASSUME WaitsForSync,
         \A u \in Callers : pc'[u] = "yield_lock" /\ u \notin live' =>
            (pc[u] = "yield_lock" /\ u \notin live /\ sync' = sync) \/ sync' # NoTask
  PROVE  WaitsForSync'
BY DEF WaitsForSync

\* Only a task that has a bound thread, or finds a collection under way, gives its capability
\* up to have it back.
LEMMA GoesWaits ==
  ASSUME Types, WaitsForSync, NEW t \in Tasks, NEW p \in Locations, pc' = Goto(t, p),
         UNCHANGED live, sync' = sync \/ sync' # NoTask,
         p = "yield_lock" => t \in live \/ t \notin Callers \/ sync' # NoTask
  PROVE  WaitsForSync'
<1>1. pc'[t] = p /\ \A u \in Tasks \ {t} : pc'[u] = pc[u] BY GotoOK
<1> QED BY <1>1, SameWaits, Distinct

\* Giving up a capability keeps to WaitsForSync.
LEMMA GivesUpWaits ==
  ASSUME Types, WaitsForSync, NEW t \in Tasks, NEW c, NEW aw, NEW sp, NEW ib, NEW late, NEW p,
         NEW tcaps,
         GivesUp(t, c, aw, sp, ib, late, p, tcaps)
  PROVE  WaitsForSync'
<1>1. /\ p \in Locations /\ p # "yield_lock" /\ sync' = sync /\ live' = live
      /\ Released(c, Goto(t, p), tcaps)
  BY DEF GivesUp, Release, Released, threads
<1>2. PICK pcs : pcs = Goto(t, p) OBVIOUS
<1>3. pcs \in [Tasks -> Locations] /\ pcs[t] = p /\ \A u \in Tasks \ {t} : pcs[u] = pc[u]
  <2>1. /\ Goto(t, p) \in [Tasks -> Locations] /\ Goto(t, p)[t] = p
        /\ \A u \in Tasks \ {t} : Goto(t, p)[u] = pc[u]
    BY <1>1, GotoOK
  <2> QED BY <1>2, <2>1
<1>4. \A u \in Tasks : pc'[u] = pcs[u] \/ pc'[u] = "loop"
  <2>1. Released(c, pcs, tcaps) BY <1>1, <1>2
  <2> QED BY <1>3, <2>1, Distinct DEF Released
<1> QED BY <1>1, <1>3, <1>4, SameWaits, Distinct

\* The other steps
LEMMA WaitsOK ==
  ASSUME Types, TasksOK, KindsOK, PlacesOK, WaitsForSync, NEW t \in Tasks,
         \/ Awake(t) /\ pc[t] \in {"sleep", "ret_sleep"}
         \/ TakeReturning(t) \/ TakeWorker(t)
         \/ ProcessInbox(t) \/ InboxBusy(t) \/ ScheduleYield(t) \/ Yielded(t) \/ Pick(t)
         \/ Grab(t) \/ GrabFails(t) \/ ShareThreads(t)
         \/ ThreadYields(t) \/ ThreadBlocks(t) \/ HeapOverflow(t)
         \/ RequestSync(t) \/ SyncWait(t)
         \/ (PushRelease(t) /\ grabbed[t] = <<>>)
         \/ (ReleaseAll(t) /\ {c \in Caps : running[c] = t} \ {cap[t]} = {})
  PROVE  WaitsForSync'
<1>1. live' = live
  BY DEF Awake, TakeReturning, TakeWorker, ProcessInbox, InboxBusy, ScheduleYield, Yielded,
     YieldCapability, Pick, Grab,
         GrabFails, ShareThreads, ThreadYields, ThreadBlocks, HeapOverflow, RequestSync, SyncWait,
         PushRelease, ReleaseAll,
         threads
<1>2. sync' = sync \/ sync' # NoTask
  BY Distinct DEF Awake, TakeReturning, TakeWorker, ProcessInbox, InboxBusy, ScheduleYield,
     Yielded, YieldCapability, Pick, Grab,
         GrabFails, ShareThreads, ThreadYields, ThreadBlocks, HeapOverflow, RequestSync, SyncWait,
         PushRelease, ReleaseAll,
         threads
<1>3. \E p \in Locations : pc' = Goto(t, p) /\ (p = "yield_lock" => t \in live
        \/ t \notin Callers \/ sync' # NoTask)
  <2>1. then[t] \in Locations /\ then[t] # "yield_lock" BY Everywhere DEF Types
  <2>2. CASE \/ Awake(t) /\ pc[t] \in {"sleep", "ret_sleep"}
             \/ TakeReturning(t) \/ TakeWorker(t)
    BY <2>1, <2>2, Everywhere DEF Awake, TakeReturning, TakeWorker
  <2>3. CASE ProcessInbox(t) \/ InboxBusy(t) \/ Pick(t) \/ ShareThreads(t)
             \/ (PushRelease(t) /\ grabbed[t] = <<>>)
             \/ (ReleaseAll(t) /\ {c \in Caps : running[c] = t} \ {cap[t]} = {})
    BY <2>3, Everywhere DEF ProcessInbox, InboxBusy, Pick, ShareThreads, PushRelease,
       ReleaseAll, AfterGC
  <2>4. CASE ScheduleYield(t) \/ Yielded(t)
    <3>1. pc[t] \in {"yield", "yielded"} BY <2>4 DEF ScheduleYield, Yielded
    <3>2. t \in live \/ t \notin Callers BY <3>1 DEF KindsOK, CallerOK, OutsideOK
    <3> QED BY <2>4, <3>2, Everywhere DEF ScheduleYield, Yielded, YieldCapability
  <2>5. CASE Grab(t) \/ GrabFails(t)
    <3>1. pc[t] = "push" BY <2>5 DEF Grab, GrabFails
    <3>2. pc = Goto(t, "push") BY <3>1 DEF Goto, Types
    <3> QED BY <2>5, <3>2, Everywhere DEF Grab, GrabFails
  <2>6. CASE ThreadYields(t) \/ ThreadBlocks(t) \/ HeapOverflow(t)
    BY <2>6, Everywhere DEF ThreadYields, ThreadBlocks, HeapOverflow
  <2>7. CASE RequestSync(t) \/ SyncWait(t)
    BY <2>7, Everywhere DEF RequestSync, SyncWait, YieldCapability, AfterGC
  <2> QED BY <2>2, <2>3, <2>4, <2>5, <2>6, <2>7
<1> QED BY <1>1, <1>2, <1>3, GoesWaits

\* The bound thread of a task comes and goes with the task inside.
LEMMA InOutWaits ==
  ASSUME Types, KindsOK, PlacesOK, WaitsForSync, NEW t \in Tasks, Enter(t) \/ ThreadFinishes(t)
  PROVE  WaitsForSync'
<1>1. PICK p \in {"loop", "exit"} : pc' = Goto(t, p) BY DEF Enter, ThreadFinishes
<1>2. p \in Locations BY Everywhere
<1>3. pc'[t] = p /\ \A u \in Tasks \ {t} : pc'[u] = pc[u] BY <1>1, <1>2, GotoOK
<1>4. sync' = sync BY DEF Enter, ThreadFinishes
<1>5. \A u \in Callers \ {t} : u \in live => u \in live'
  <2>1. CASE Enter(t) BY <2>1 DEF Enter
  <2>2. CASE ThreadFinishes(t)
    <3>1. pc[t] = "run" /\ live' = live \ {thr[t]} BY <2>2 DEF ThreadFinishes
    <3>2. thr[t] # NoThread BY <3>1 DEF KindsOK, KindOK, HasThreadAt
    <3>3. thr[t] = t \/ thr[t] \in Unbound BY <3>2, HasThread
    <3> QED BY <3>1, <3>3, CapabilityAssumption
  <2> QED BY <2>1, <2>2
<1> QED BY <1>3, <1>4, <1>5, SameWaits, Distinct

\* The task that has every capability need not mind others that wait.
LEMMA CollectWaits ==
  ASSUME Types, TasksOK, NEW t \in Tasks, Collect(t)
  PROVE  WaitsForSync'
<1>1. pc[t] = "acquire" /\ pc' = Goto(t, "release") /\ \A c \in Caps : running[c] = t
  BY DEF Collect, Missing
<1>2. "release" \in Locations BY Everywhere
<1>3. pc'[t] = "release" /\ \A u \in Tasks \ {t} : pc'[u] = pc[u] BY <1>1, <1>2, GotoOK
<1>4. \A u \in Tasks \ {t} : pc[u] # "yield_lock"
  <2> SUFFICES ASSUME NEW u \in Tasks \ {t}, pc[u] = "yield_lock" PROVE FALSE OBVIOUS
  <2>1. running[cap[u]] = u BY DEF TasksOK, TaskOK, OwnerOK, Holds, Holding
  <2>2. cap[u] \in Caps BY DEF Types
  <2> QED BY <1>1, <2>1, <2>2
<1> QED BY <1>3, <1>4, Distinct DEF WaitsForSync

\* A step of a foreign call or of an API call keeps to WaitsForSync.
LEMMA CallsWaits ==
  ASSUME Types, WaitsForSync, NEW t \in Tasks, NEW c \in Caps,
         ResumeThread(t) \/ RtsLock(t, c) \/ PerformGC(t, c) \/ Acquire(t)
  PROVE  WaitsForSync'
<1>1. live' = live BY DEF ResumeThread, RtsLock, PerformGC, Acquire, threads
<1>2. PICK p, d : p \in {"run", "enter", "sync", "acquire"} /\ WaitForCapability(t, d, p)
  BY DEF ResumeThread, RtsLock, PerformGC, Acquire
<1>3. PICK q \in {"run", "enter", "sync", "acquire", "ret_sleep"} : pc' = Goto(t, q)
  BY <1>2 DEF WaitForCapability
<1>4. sync' = sync /\ q \in Locations BY <1>2, Everywhere DEF WaitForCapability
<1> QED BY <1>1, <1>3, <1>4, GoesWaits

\* A new thread keeps to WaitsForSync.
LEMMA ForkWaits ==
  ASSUME Types, WaitsForSync, NEW t \in Tasks, NEW h \in Threads,
         Fork(t, h) \/ (WakeThread(t, h) /\ ~(home[h] # cap[t] /\ running[home[h]] = NoTask))
  PROVE  WaitsForSync'
<1>1. pc' = pc /\ sync' = sync /\ live \subseteq live' BY DEF Fork, WakeThread
<1> QED BY <1>1, SameWaits

----------------------------------------------------------------------------

\* The inductive invariant
CapabilityInv == PlacesInv /\ QueuesOK /\ WaitsForSync /\ NothingStranded

\* It holds initially.
LEMMA InitInv ==
  Init => CapabilityInv
<1> SUFFICES ASSUME Init PROVE CapabilityInv OBVIOUS
<1>1. PlacesInv BY InitPlaces
<1>2. /\ \A c \in Caps : returning[c] = <<>> /\ spare[c] = <<>> /\ runq[c] = <<>> /\ inbox[c] = <<>>
      /\ \A u \in Tasks : pc[u] \in {"out", "loop", "dead"}
  BY DEF Init
<1>3. QueuesOK BY <1>2, InNothing DEF QueuesOK, Returns, Spares
<1>4. WaitsForSync BY <1>2, Distinct DEF WaitsForSync
<1>5. NothingStranded BY <1>2 DEF NothingStranded
<1> QED BY <1>1, <1>3, <1>4, <1>5 DEF CapabilityInv

\* It is preserved by a stuttering step.
LEMMA StutterInv ==
  CapabilityInv /\ UNCHANGED vars => CapabilityInv'
<1> SUFFICES ASSUME CapabilityInv, UNCHANGED vars PROVE CapabilityInv' OBVIOUS
<1>1. /\ running' = running /\ returning' = returning /\ spare' = spare /\ runq' = runq
           /\ inbox' = inbox
      /\ live' = live /\ sync' = sync /\ tcap' = tcap /\ wakeup' = wakeup /\ pc' = pc
           /\ seen' = seen
  BY DEF vars, queues, threads
<1>2. PlacesInv' BY StutterPlaces DEF CapabilityInv
<1>3. QueuesOK' BY <1>1, SameQueues DEF CapabilityInv, QueuesAsBefore, Returns, Spares
<1>4. WaitsForSync' BY <1>1 DEF CapabilityInv, WaitsForSync
<1>5. NothingStranded' BY <1>1 DEF CapabilityInv, NothingStranded, OnTheWay
<1> QED BY <1>2, <1>3, <1>4, <1>5 DEF CapabilityInv

\* It is preserved by every step.
LEMMA NextInv ==
  CapabilityInv /\ Next => CapabilityInv'
<1> SUFFICES ASSUME CapabilityInv, Next PROVE QueuesOK' /\ WaitsForSync' /\ NothingStranded'
  BY NextPlaces DEF CapabilityInv
<1> USE DEF CapabilityInv, PlacesInv
<1>0. PICK t \in Tasks : Step(t) \/ Program(t) \/ SpuriousWakeUp(t) \/ InboxBusy(t) BY DEF Next
<1>1. CASE WakeUp(t) \/ SpuriousWakeUp(t)
  BY <1>1, AwakeQueues, AwakeStranded, WaitsOK DEF WakeUp, SpuriousWakeUp
<1>2. CASE TakeReturning(t) BY <1>2, TakeReturningQueues, TakeReturningStranded, WaitsOK
<1>3. CASE TakeWorker(t) BY <1>3, TakeWorkerQueues, TakeWorkerStranded, WaitsOK
<1>4. CASE ShareThreads(t) BY <1>4, ShareThreadsQueues, ShareThreadsStranded, WaitsOK
<1>5. CASE Collect(t) BY <1>5, ScheduleQueues, CollectStranded, CollectWaits
<1>6. CASE Enter(t) \/ ThreadFinishes(t) BY <1>6, ScheduleQueues, ScheduleStranded, InOutWaits
<1>7. ASSUME NEW c \in Caps, ResumeThread(t) \/ RtsLock(t, c) \/ PerformGC(t, c) \/ Acquire(t)
      PROVE  QueuesOK' /\ WaitsForSync' /\ NothingStranded'
  BY <1>7, CallsQueues, CallsStranded, CallsWaits
<1>8. CASE ResumeThread(t) \/ Acquire(t)
  <2>1. 0 \in Caps BY CapabilityAssumption DEF Caps
  <2> QED BY <1>7, <1>8, <2>1
<1>9. ASSUME \E c, aw, sp, ib, late, p, tcaps : GivesUp(t, c, aw, sp, ib, late, p, tcaps)
      PROVE  QueuesOK' /\ WaitsForSync' /\ NothingStranded'
  BY <1>9, GivesUpQueues, GivesUpStranded, GivesUpWaits
<1>10. CASE YieldRelease(t) BY <1>9, <1>10, YieldGivesUp
<1>11. CASE SuspendThread(t) \/ Exit(t) BY <1>9, <1>11, LeaveGivesUp
<1>12. CASE PushBack(t) \/ (PushRelease(t) /\ grabbed[t] # <<>>) BY <1>9, <1>12, PushGivesUp
<1>13. CASE ReleaseAll(t) /\ {c \in Caps : running[c] = t} \ {cap[t]} # {}
  BY <1>9, <1>13, ReleaseAllGivesUp
<1>14. CASE \/ ProcessInbox(t) \/ InboxBusy(t) \/ ScheduleYield(t) \/ Yielded(t) \/ Pick(t)
            \/ Grab(t) \/ GrabFails(t) \/ ThreadYields(t) \/ ThreadBlocks(t) \/ HeapOverflow(t)
            \/ RequestSync(t) \/ SyncWait(t)
            \/ (PushRelease(t) /\ grabbed[t] = <<>>)
            \/ (ReleaseAll(t) /\ {c \in Caps : running[c] = t} \ {cap[t]} = {})
  BY <1>14, ScheduleQueues, ScheduleStranded, WaitsOK
<1>15. ASSUME NEW h \in Threads, Fork(t, h) \/ WakeThread(t, h)
       PROVE  QueuesOK' /\ WaitsForSync' /\ NothingStranded'
  <2>1. CASE WakeThread(t, h) /\ home[h] # cap[t] /\ running[home[h]] = NoTask
    BY <1>9, <2>1, WakeThreadGivesUp
  <2>2. CASE Fork(t, h) \/ (WakeThread(t, h) /\ ~(home[h] # cap[t] /\ running[home[h]] = NoTask))
    BY <2>2, ForkQueues, ForkStranded, ForkWaits
  <2> QED BY <1>15, <2>1, <2>2
<1> QED
  BY <1>0, <1>1, <1>2, <1>3, <1>4, <1>5, <1>6, <1>7, <1>8, <1>10, <1>11, <1>12, <1>13, <1>14, <1>15
  DEF Step, Program, Slice

\* Capability.c and Schedule.c keep to the whole of it.
THEOREM Invariance == Spec => []CapabilityInv
<1>1. CapabilityInv /\ [Next]_vars => CapabilityInv' BY NextInv, StutterInv
<1> QED BY InitInv, <1>1, PTL DEF Spec

\* A task that sleeps until it is given a capability is in the queue that
\* releaseCapability_ of this capability looks at.
THEOREM SleepersCanBeFound == Spec => []QueuedWhileAsleep
<1>1. CapabilityInv => QueuedWhileAsleep
  <2>1. ASSUME NEW q, OnceIn(q), NEW t, NEW n, n = Cardinality({i \in DOMAIN q : q[i] = t})
        PROVE  n = IF In(t, q) THEN 1 ELSE 0
    <3>1. CASE In(t, q)
      <4>1. PICK i \in DOMAIN q : q[i] = t BY <3>1 DEF In
      <4>2. {j \in DOMAIN q : q[j] = t} = {i} BY <2>1, <4>1 DEF OnceIn
      <4> QED BY <2>1, <3>1, <4>2, FS_Singleton
    <3>2. CASE ~In(t, q)
      <4>1. {j \in DOMAIN q : q[j] = t} = {} BY <3>2 DEF In
      <4> QED BY <2>1, <3>2, <4>1, FS_EmptySet
    <3> QED BY <3>1, <3>2
  <2> SUFFICES ASSUME CapabilityInv, NEW t \in Tasks, NEW c \in Caps
               PROVE  /\ Cardinality({i \in DOMAIN returning[c] : returning[c][i] = t}) =
                           IF pc[t] \in {"ret_sleep", "ret_woken"} /\ tcap[t] = c THEN 1 ELSE 0
                      /\ Cardinality({i \in DOMAIN spare[c] : spare[c][i] = t}) =
                           IF t \in Workers /\ pc[t] \in {"sleep", "woken"}
                             /\ tcap[t] = c THEN 1 ELSE 0
    BY DEF QueuedWhileAsleep
  <2>2. /\ OnceIn(returning[c]) /\ OnceIn(spare[c])
        /\ In(t, returning[c]) <=> pc[t] \in {"ret_sleep", "ret_woken"} /\ tcap[t] = c
        /\ In(t, spare[c]) <=> t \in Workers /\ pc[t] \in {"sleep", "woken"} /\ tcap[t] = c
    BY DEF CapabilityInv, QueuesOK, Returns, Spares
  <2>3. Cardinality({i \in DOMAIN returning[c] : returning[c][i] = t}) = IF In(t,
        returning[c]) THEN 1 ELSE 0
    BY <2>1, <2>2
  <2>4. Cardinality({i \in DOMAIN spare[c] : spare[c][i] = t}) = IF In(t, spare[c]) THEN 1 ELSE 0
    BY <2>1, <2>2
  <2> QED BY <2>2, <2>3, <2>4
<1> QED BY Invariance, <1>1, PTL

\* No capability is idle with threads, messages or returning tasks waiting: releaseCapability_
\* has woken somebody, who is on the way.
THEOREM NoWorkStranded == Spec => []NothingStranded
<1>1. CapabilityInv => NothingStranded BY DEF CapabilityInv
<1> QED BY Invariance, <1>1, PTL
==============================================================================
