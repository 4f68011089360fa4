----------------------------- MODULE MVarProofs -----------------------------
(***************************************************************************)
(* The MVars of PrimOps.cmm implement those of MVarSpec, for any number of *)
(* capabilities, threads, values, queue entries, calls and exceptions.     *)
(*                                                                         *)
(* The argument: the queue in the heap is a path s of distinct entries     *)
(* from the head to the tail, the only entries in use (Heap), and the live *)
(* ones on it and the threads whose operations have not been done point to *)
(* each other (Linked).  What the code finds when it walks along the links *)
(* and skips entries is a part of s in its order (FindAll), so that every  *)
(* way of changing the queue (SetQueue) is a change of a sequence: an      *)
(* entry joins at one end (TailJoins, HeadJoins), the first live one       *)
(* leaves with the dead ones before it (FirstLeaves), one anywhere is      *)
(* overwritten (RemovedLeaves), INDs are shorted out (CollectedLeaves).    *)
(*                                                                         *)
(* With who has locked the MVar, which threads are blocked and for what,   *)
(* this is an inductive invariant (IndInv).  Under it, every step is one   *)
(* of MVarSpec or is not seen there: while putMVar goes round its loop,    *)
(* the value it has not handed out yet has already gone to those who are   *)
(* due (Handing, ServeMaps).                                               *)
(*                                                                         *)
(* Find is defined by recursion along the links: the facts about it are    *)
(* proved by induction over sets of naturals (DownwardInduction).          *)
(***************************************************************************)
EXTENDS MVar, WellFoundedInduction, TLAPS

\* A set of naturals that is not empty has a least member.
LEMMA LeastOfNaturals ==
  ASSUME NEW T, T \subseteq Nat, T # {}
  PROVE \E x \in T : \A y \in T : x <= y
<1>1. \E x \in T : \A y \in T : ~ (<<y, x>> \in OpToRel(<, Nat))
  BY WFMin, NatLessThanWellFounded
<1>2. PICK x \in T : \A y \in T : ~ (<<y, x>> \in OpToRel(<, Nat))
  BY <1>1
<1>3. ASSUME NEW y \in T PROVE x <= y
  <2>1. ~(<<y, x>> \in OpToRel(<, Nat))
    BY <1>2
  <2>2. <<y, x>> \in Nat \X Nat
    OBVIOUS
  <2>3. ~ (y < x)
    BY <2>1, <2>2 DEF OpToRel
  <2> QED BY <2>3
<1> QED BY <1>3

\* What holds of n, and of i whenever it holds of i + 1, holds of all numbers below n.
LEMMA DownwardInduction ==
  ASSUME NEW S, NEW n \in Nat, n \in S,
         \A i \in 1..n : i < n /\ i + 1 \in S => i \in S
  PROVE \A i \in 1..n : i \in S
<1> SUFFICES ASSUME NEW j \in 1..n, j \notin S PROVE FALSE
  OBVIOUS
<1> DEFINE T == {d \in 0..n : n - d \in 1..n /\ n - d \notin S}
<1>1. PICK x \in T : \A y \in T : x <= y
  <2>1. T \subseteq Nat /\ n - j \in T OBVIOUS
  <2> HIDE DEF T
  <2> QED BY <2>1, LeastOfNaturals
<1>2. x # 0 OBVIOUS
<1>3. x - 1 \in 0..n /\ x - 1 \notin T
  BY <1>1, <1>2
<1>4. n - (x - 1) \in S /\ n - (x - 1) = (n - x) + 1 /\ n - x < n
  BY <1>1, <1>2, <1>3
<1> QED BY <1>1, <1>4

----------------------------------------------------------------------------
(* Sequences                                                               *)

On(s) == {s[i] : i \in 1..Len(s)}

\* No entry twice
Once(s) == \A i, j \in 1..Len(s) : s[i] = s[j] => i = j

Before(s, x, y) == \E i, j \in 1..Len(s) : i < j /\ s[i] = x /\ s[j] = y

\* The i-th of the entries in s, or what the last one's link says
At(s, i) == IF i <= Len(s) THEN s[i] ELSE END

Last(s) == IF s = <<>> THEN END ELSE s[Len(s)]

From(s, k) == SubSeq(s, k, Len(s))

\* The sequence a holds those entries on s that are in S, in their order.
Lists(a, s, S) ==
    /\ a \in Seq(Entries)
    /\ \A i \in 1..Len(a) : a[i] \in S /\ a[i] \in On(s)
    /\ \A x \in On(s) : x \in S => x \in On(a)
    /\ \A i, j \in 1..Len(a) : i < j => Before(s, a[i], a[j])

\* Sequences with the same elements in the same order are equal.
LEMMA SequenceExtension ==
    ASSUME NEW S, NEW s \in Seq(S), NEW t \in Seq(S), Len(s) = Len(t),
           \A k \in 1..Len(s) : s[k] = t[k]
    PROVE  s = t
OBVIOUS

\* The order of a queue is strict.
LEMMA Strict ==
    ASSUME NEW s \in Seq(Entries), Once(s), NEW x, NEW y, Before(s, x, y)
    PROVE  x # y /\ ~Before(s, y, x)
<1>1. PICK i \in 1..Len(s), j \in 1..Len(s) : i < j /\ s[i] = x /\ s[j] = y
  BY DEF Before
<1>2. x # y
  BY <1>1 DEF Once
<1>3. ASSUME Before(s, y, x) PROVE FALSE
  <2>1. PICK k \in 1..Len(s), l \in 1..Len(s) : k < l /\ s[k] = y /\ s[l] = x
    BY <1>3 DEF Before
  <2>2. k = j /\ l = i
    BY <1>1, <2>1 DEF Once
  <2> QED BY <1>1, <2>1, <2>2
<1> QED BY <1>2, <1>3

\* Of two entries one comes first.
LEMMA Ordered ==
    ASSUME NEW s \in Seq(Entries), NEW x \in On(s), NEW y \in On(s), x # y
    PROVE  Before(s, x, y) \/ Before(s, y, x)
<1>1. PICK i \in 1..Len(s), j \in 1..Len(s) : s[i] = x /\ s[j] = y
  BY DEF On
<1>2. i < j \/ j < i
  BY <1>1
<1> QED BY <1>1, <1>2 DEF Before

\* What is listed is listed once.
LEMMA ListsOnce ==
    ASSUME NEW s \in Seq(Entries), Once(s), NEW a, NEW S, Lists(a, s, S)
    PROVE  Once(a)
<1> SUFFICES ASSUME NEW i \in 1..Len(a), NEW j \in 1..Len(a), a[i] = a[j], i < j
             PROVE  FALSE
  BY DEF Once, Lists
<1>1. Before(s, a[i], a[j])
  BY DEF Lists
<1> QED BY <1>1, Strict

\* There is one way to list them: up to position i.
LEMMA ListedAlike ==
    ASSUME NEW s \in Seq(Entries), Once(s), NEW S, NEW a, NEW b,
           Lists(a, s, S), Lists(b, s, S),
           NEW i \in 1..Len(a), \A j \in 1..(i - 1) : j <= Len(b) /\ a[j] = b[j]
    PROVE  i <= Len(b) /\ a[i] = b[i]
<1>1. Once(a) /\ Once(b)
  BY ListsOnce
<1>2. a \in Seq(Entries) /\ b \in Seq(Entries)
  BY DEF Lists
<1>3. PICK m \in 1..Len(b) : b[m] = a[i]
  BY DEF Lists, On
<1>4. m >= i
  <2> SUFFICES ASSUME m < i PROVE FALSE
    BY <1>2
  <2>1. m \in 1..(i - 1) /\ m \in 1..Len(a)
    BY <1>2
  <2> QED BY <1>1, <1>3, <2>1 DEF Once
<1>5. i <= Len(b) /\ i \in 1..Len(b)
  BY <1>2, <1>4
<1>6. PICK n \in 1..Len(a) : a[n] = b[i]
  BY <1>5 DEF Lists, On
<1>7. n >= i
  <2> SUFFICES ASSUME n < i PROVE FALSE
    BY <1>2
  <2>1. n \in 1..(i - 1) /\ n \in 1..Len(b)
    BY <1>2, <1>5
  <2> QED BY <1>1, <1>5, <1>6, <2>1 DEF Once
<1>8. CASE m = i
  BY <1>3, <1>5, <1>8
<1>9. CASE n = i
  BY <1>5, <1>6, <1>9
<1>10. CASE m > i /\ n > i
  <2>1. Before(s, b[i], b[m])
    BY <1>5, <1>10 DEF Lists
  <2>2. Before(s, a[i], a[n])
    BY <1>10 DEF Lists
  <2> QED BY <2>1, <2>2, <1>3, <1>6, Strict
<1> QED BY <1>2, <1>4, <1>7, <1>8, <1>9, <1>10

\* There is one way to list them.
LEMMA ListedPrefix ==
    ASSUME NEW s \in Seq(Entries), Once(s), NEW S, NEW a, NEW b,
           Lists(a, s, S), Lists(b, s, S)
    PROVE  \A i \in 1..Len(a) : i <= Len(b) /\ a[i] = b[i]
<1> SUFFICES ASSUME NEW k \in 1..Len(a), ~(k <= Len(b) /\ a[k] = b[k]) PROVE FALSE
  OBVIOUS
<1> DEFINE T == {i \in 1..Len(a) : ~(i <= Len(b) /\ a[i] = b[i])}
<1>1. Len(a) \in Nat /\ Len(b) \in Nat
  BY DEF Lists
<1>2. PICK i \in T : \A j \in T : i <= j
  <2>1. T \subseteq Nat /\ T # {}
    BY <1>1
  <2> HIDE DEF T
  <2> QED BY <2>1, LeastOfNaturals
<1>3. \A j \in 1..(i - 1) : j <= Len(b) /\ a[j] = b[j]
  BY <1>1, <1>2
<1> QED BY <1>2, <1>3, ListedAlike

\* There is one way to list them.
LEMMA ListsUnique ==
    ASSUME NEW s \in Seq(Entries), Once(s), NEW S, NEW a, NEW b,
           Lists(a, s, S), Lists(b, s, S)
    PROVE  a = b
<1>1. a \in Seq(Entries) /\ b \in Seq(Entries)
  BY DEF Lists
<1>2. \A i \in 1..Len(a) : i <= Len(b) /\ a[i] = b[i]
  BY ListedPrefix
<1>3. \A i \in 1..Len(b) : i <= Len(a) /\ b[i] = a[i]
  BY ListedPrefix
<1>4. Len(a) = Len(b)
  BY <1>1, <1>2, <1>3
<1> QED BY <1>1, <1>2, <1>4, SequenceExtension

\* An entry in front of s is listed first, if at all.
LEMMA ListsCons ==
    ASSUME NEW s \in Seq(Entries), NEW S, NEW a, Lists(a, s, S), NEW x \in Entries
    PROVE  Lists(IF x \in S THEN <<x>> \o a ELSE a, <<x>> \o s, S)
<1> DEFINE t == <<x>> \o s
           b == <<x>> \o a
<1>0. a \in Seq(Entries)
  BY DEF Lists
<1>1. /\ t \in Seq(Entries) /\ Len(t) = Len(s) + 1 /\ t[1] = x
      /\ \A i \in 1..Len(s) : t[i + 1] = s[i]
  OBVIOUS
<1>2. /\ b \in Seq(Entries) /\ Len(b) = Len(a) + 1 /\ b[1] = x
      /\ \A i \in 1..Len(a) : b[i + 1] = a[i]
  BY <1>0
<1> HIDE DEF t, b
<1>3. On(t) = On(s) \cup {x}
  <2>1. \A i \in 1..Len(t) : i = 1 \/ (i - 1 \in 1..Len(s) /\ (i - 1) + 1 = i)
    BY <1>1
  <2>2. ASSUME NEW y \in On(t) PROVE y \in On(s) \cup {x}
    <3>1. PICK i \in 1..Len(t) : t[i] = y BY <2>2 DEF On
    <3>2. CASE i = 1 BY <3>1, <3>2, <1>1
    <3>3. CASE i # 1
      <4>1. PICK k \in 1..Len(s) : k + 1 = i BY <2>1, <3>3
      <4>2. y = s[k] BY <3>1, <4>1, <1>1
      <4> QED BY <4>2 DEF On
    <3> QED BY <3>2, <3>3
  <2>3. ASSUME NEW y \in On(s) PROVE y \in On(t)
    <3>1. PICK i \in 1..Len(s) : s[i] = y BY DEF On
    <3>2. i + 1 \in 1..Len(t) BY <1>1
    <3> QED BY <3>1, <3>2, <1>1 DEF On
  <2>4. x \in On(t)
    <3>1. 1 \in 1..Len(t) BY <1>1
    <3> QED BY <3>1, <1>1 DEF On
  <2> QED BY <2>2, <2>3, <2>4
<1>4. \A y, z : Before(s, y, z) => Before(t, y, z)
  <2> SUFFICES ASSUME NEW y, NEW z, Before(s, y, z) PROVE Before(t, y, z)
    OBVIOUS
  <2>1. PICK i \in 1..Len(s), j \in 1..Len(s) : i < j /\ s[i] = y /\ s[j] = z
    BY DEF Before
  <2>2. i + 1 \in 1..Len(t) /\ j + 1 \in 1..Len(t) /\ i + 1 < j + 1
        /\ t[i + 1] = y /\ t[j + 1] = z
    BY <1>1, <2>1
  <2> QED BY <2>2 DEF Before
<1>5. \A y \in On(s) : Before(t, x, y)
  <2> SUFFICES ASSUME NEW y \in On(s) PROVE Before(t, x, y)
    OBVIOUS
  <2>1. PICK i \in 1..Len(s) : s[i] = y BY DEF On
  <2>2. 1 \in 1..Len(t) /\ i + 1 \in 1..Len(t) /\ 1 < i + 1 /\ t[1] = x /\ t[i + 1] = y
    BY <1>1, <2>1
  <2> QED BY <2>2 DEF Before
<1>6. CASE x \notin S
  <2>1. \A i \in 1..Len(a) : a[i] \in S /\ a[i] \in On(t)
    BY <1>3 DEF Lists
  <2>2. \A y \in On(t) : y \in S => y \in On(a)
    BY <1>3, <1>6 DEF Lists
  <2>3. \A i, j \in 1..Len(a) : i < j => Before(t, a[i], a[j])
    BY <1>4 DEF Lists
  <2>4. Lists(a, t, S)
    BY <1>0, <2>1, <2>2, <2>3 DEF Lists
  <2> QED BY <2>4, <1>6 DEF t
<1>7. CASE x \in S
  <2>1. \A i \in 1..Len(b) : i = 1 \/ (i - 1 \in 1..Len(a) /\ b[i] = a[i - 1])
    <3> SUFFICES ASSUME NEW i \in 1..Len(b), i # 1 PROVE i - 1 \in 1..Len(a) /\ b[i] = a[i - 1]
      OBVIOUS
    <3>1. i - 1 \in 1..Len(a) /\ (i - 1) + 1 = i
      BY <1>0, <1>2
    <3> QED BY <3>1, <1>2
  <2>2. \A i \in 1..Len(b) : b[i] \in S /\ b[i] \in On(t)
    BY <2>1, <1>2, <1>3, <1>7 DEF Lists
  <2>3. \A y \in On(t) : y \in S => y \in On(b)
    <3> SUFFICES ASSUME NEW y \in On(t), y \in S PROVE y \in On(b)
      OBVIOUS
    <3>1. CASE y = x
      <4>1. 1 \in 1..Len(b) BY <1>0, <1>2
      <4> QED BY <4>1, <3>1, <1>2 DEF On
    <3>2. CASE y \in On(s)
      <4>1. PICK i \in 1..Len(a) : a[i] = y BY <3>2 DEF Lists, On
      <4>2. i + 1 \in 1..Len(b) /\ b[i + 1] = y BY <1>0, <1>2, <4>1
      <4> QED BY <4>2 DEF On
    <3> QED BY <3>1, <3>2, <1>3
  <2>4. \A i, j \in 1..Len(b) : i < j => Before(t, b[i], b[j])
    <3> SUFFICES ASSUME NEW i \in 1..Len(b), NEW j \in 1..Len(b), i < j
                 PROVE  Before(t, b[i], b[j])
      OBVIOUS
    <3>0. j # 1 /\ j - 1 \in 1..Len(a) /\ b[j] = a[j - 1]
      BY <1>0, <1>2, <2>1
    <3>1. CASE i = 1
      BY <3>0, <3>1, <1>2, <1>5 DEF Lists
    <3>2. CASE i # 1
      <4>1. i - 1 \in 1..Len(a) /\ b[i] = a[i - 1] /\ i - 1 < j - 1
        BY <3>2, <2>1, <1>0, <1>2
      <4> QED BY <3>0, <4>1, <1>4 DEF Lists
    <3> QED BY <3>1, <3>2
  <2>5. Lists(b, t, S)
    BY <1>2, <2>2, <2>3, <2>4 DEF Lists
  <2> QED BY <2>5, <1>7 DEF b, t
<1> QED BY <1>6, <1>7 DEF t

----------------------------------------------------------------------------
(* Walking along the queue                                                 *)

\* s is the queue that begins at s[1], in the heap h.
IsPath(h, s) ==
    /\ s \in Seq(Entries)
    /\ Once(s)
    /\ \A i \in 1..Len(s) : h[s[i]].link = At(s, i + 1)

\* Other entries link to it, or nowhere.
Closed(h, s) == \A q \in Entries : q \notin On(s) => h[q].link \in On(s) \cup {END}

\* What the walk adds to g, found from the next entry on, when it comes past p
Step(h, skipped, p, g) == IF h[p].info \in skipped THEN g ELSE <<p>> \o g

Finder(h, skipped, f) ==
    f = [p \in 0..MaxEntries |->
            IF p = END THEN <<>>
            ELSE IF h[p].info \in skipped THEN f[h[p].link]
            ELSE <<p>> \o f[h[p].link]]

\* The walk along s, backwards
Walk(h, skipped, s, g, k) ==
    /\ g[Len(s) + 1] = <<>>
    /\ \A i \in k..Len(s) : g[i] = Step(h, skipped, s[i], g[i + 1])

\* There is a function that walks as far as one likes.
LEMMA WalkExists ==
    ASSUME NEW h, NEW s \in Seq(Entries), NEW skipped
    PROVE  \E g : Walk(h, skipped, s, g, 1)
<1> DEFINE n == Len(s) + 1
           S == {k \in 1..n : \E g : Walk(h, skipped, s, g, k)}
<1>1. n \in S
  <2>1. PICK g : g = [i \in 1..n |-> <<>>] OBVIOUS
  <2>2. Walk(h, skipped, s, g, n)
    BY <2>1 DEF Walk
  <2> QED BY <2>2
<1>2. ASSUME NEW i \in 1..n, i < n, i + 1 \in S PROVE i \in S
  <2>1. PICK f : Walk(h, skipped, s, f, i + 1) BY <1>2
  <2>2. PICK g : g = [j \in 1..n |-> IF j = i THEN Step(h, skipped, s[i], f[i + 1]) ELSE f[j]]
    OBVIOUS
  <2>3. /\ \A j \in 1..n : j # i => g[j] = f[j]
        /\ g[i] = Step(h, skipped, s[i], f[i + 1])
    BY <1>2, <2>2
  <2>4. g[n] = <<>>
    BY <1>2, <2>1, <2>3 DEF Walk
  <2>5. \A j \in i..Len(s) : g[j] = Step(h, skipped, s[j], g[j + 1])
    <3> SUFFICES ASSUME NEW j \in i..Len(s) PROVE g[j] = Step(h, skipped, s[j], g[j + 1])
      OBVIOUS
    <3>1. j \in 1..n /\ j + 1 \in 1..n /\ j + 1 # i
      BY <1>2
    <3>2. g[j + 1] = f[j + 1]
      BY <2>3, <3>1
    <3>3. CASE j = i
      BY <3>2, <3>3, <2>3
    <3>4. CASE j # i
      <4>1. j \in (i + 1)..Len(s) BY <3>4, <1>2
      <4>2. f[j] = Step(h, skipped, s[j], f[j + 1])
        BY <4>1, <2>1 DEF Walk
      <4> QED BY <4>2, <3>1, <3>2, <3>4, <2>3
    <3> QED BY <3>3, <3>4
  <2>6. Walk(h, skipped, s, g, i)
    BY <2>4, <2>5 DEF Walk
  <2> QED BY <2>6
<1>3. n \in Nat OBVIOUS
<1>4. 1 \in S
  <2>1. 1 \in 1..n OBVIOUS
  <2> HIDE DEF S, n
  <2>2. \A i \in 1..n : i < n /\ i + 1 \in S => i \in S BY <1>2
  <2>3. \A i \in 1..n : i \in S BY <1>1, <1>3, <2>2, DownwardInduction, Zenon
  <2> QED BY <2>1, <2>3
<1> QED BY <1>4

\* The function that Find uses exists: it need not be defined on a heap with a cycle.
LEMMA FinderExists ==
    ASSUME NEW h, NEW s, IsPath(h, s), Closed(h, s), NEW skipped
    PROVE  \E f : Finder(h, skipped, f)
<1> DEFINE n == Len(s)
           Pos(p) == CHOOSE i \in 1..(n + 1) : At(s, i) = p
<1>1. s \in Seq(Entries) /\ n \in Nat
  BY DEF IsPath
<1>2. PICK g : Walk(h, skipped, s, g, 1)
  BY <1>1, WalkExists
<1>3. PICK f : f = [p \in 0..MaxEntries |->
                      IF p = END \/ p \in On(s) THEN g[Pos(p)]
                      ELSE Step(h, skipped, p, g[Pos(h[p].link)])]
  OBVIOUS
<1>4. END \notin Entries /\ Entries \subseteq 0..MaxEntries /\ END \in 0..MaxEntries
  BY MVarAssumption DEF END, Entries
<1>5. \A i \in 1..(n + 1) : Pos(At(s, i)) = i
  <2> SUFFICES ASSUME NEW i \in 1..(n + 1), NEW j \in 1..(n + 1), At(s, i) = At(s, j)
               PROVE  i = j
    <3>1. \A i \in 1..(n + 1) : Pos(At(s, i)) \in 1..(n + 1) /\ At(s, Pos(At(s, i))) = At(s, i)
      OBVIOUS
    <3> QED BY <3>1
  <2>1. CASE i = n + 1
    BY <1>1, <1>4, <2>1 DEF At
  <2>2. CASE j = n + 1
    BY <1>1, <1>4, <2>2 DEF At
  <2>3. CASE i # n + 1 /\ j # n + 1
    <3>1. i \in 1..Len(s) /\ j \in 1..Len(s) /\ s[i] = s[j]
      BY <1>1, <2>3 DEF At
    <3> QED BY <3>1 DEF IsPath, Once
  <2> QED BY <2>1, <2>2, <2>3
<1> HIDE DEF Pos
<1>6. \A i \in 1..(n + 1) : f[At(s, i)] = g[i]
  <2> SUFFICES ASSUME NEW i \in 1..(n + 1) PROVE f[At(s, i)] = g[i]
    OBVIOUS
  <2>1. At(s, i) \in 0..MaxEntries /\ (At(s, i) = END \/ At(s, i) \in On(s))
    <3>1. CASE i = n + 1
      BY <1>1, <1>4, <3>1 DEF At
    <3>2. CASE i # n + 1
      <4>1. i \in 1..Len(s) /\ s[i] \in Entries /\ At(s, i) = s[i]
        BY <1>1, <3>2 DEF At
      <4> QED BY <4>1, <1>4 DEF On
    <3> QED BY <3>1, <3>2
  <2> QED BY <2>1, <1>3, <1>5
<1>7. f[END] = <<>>
  <2>1. n + 1 \in 1..(n + 1) /\ At(s, n + 1) = END
    BY <1>1 DEF At
  <2> QED BY <2>1, <1>2, <1>6 DEF Walk
<1>8. \A p \in Entries : f[p] = Step(h, skipped, p, f[h[p].link])
  <2> SUFFICES ASSUME NEW p \in Entries PROVE f[p] = Step(h, skipped, p, f[h[p].link])
    OBVIOUS
  <2>1. CASE p \in On(s)
    <3>1. PICK i \in 1..n : s[i] = p BY <2>1 DEF On
    <3>2. i \in 1..(n + 1) /\ i + 1 \in 1..(n + 1) /\ At(s, i) = p
      BY <1>1, <3>1 DEF At
    <3>3. h[p].link = At(s, i + 1)
      BY <3>1 DEF IsPath
    <3>4. g[i] = Step(h, skipped, p, g[i + 1])
      BY <1>2, <3>1 DEF Walk
    <3> QED BY <3>2, <3>3, <3>4, <1>6
  <2>2. CASE p \notin On(s)
    <3>1. h[p].link \in On(s) \cup {END}
      BY <2>2 DEF Closed
    <3>2. PICK i \in 1..(n + 1) : At(s, i) = h[p].link
      <4>1. CASE h[p].link = END
        <5>1. n + 1 \in 1..(n + 1) /\ At(s, n + 1) = END
          BY <1>1 DEF At
        <5> QED BY <4>1, <5>1
      <4>2. CASE h[p].link \in On(s)
        <5>1. PICK i \in 1..n : s[i] = h[p].link BY <4>2 DEF On
        <5>2. i \in 1..(n + 1) /\ At(s, i) = h[p].link
          BY <1>1, <5>1 DEF At
        <5> QED BY <5>2
      <4> QED BY <3>1, <4>1, <4>2
    <3>3. f[h[p].link] = g[i] /\ Pos(h[p].link) = i
      BY <3>2, <1>5, <1>6
    <3>4. p \in 0..MaxEntries /\ p # END
      BY <1>4
    <3> QED BY <3>3, <3>4, <2>2, <1>3
  <2> QED BY <2>1, <2>2
<1>9. f = [p \in 0..MaxEntries |-> f[p]]
  BY <1>3
<1>10. \A p \in 0..MaxEntries : f[p] = IF p = END THEN <<>>
                                      ELSE IF h[p].info \in skipped THEN f[h[p].link]
                                      ELSE <<p>> \o f[h[p].link]
  <2> SUFFICES ASSUME NEW p \in 0..MaxEntries, p # END
               PROVE  f[p] = IF h[p].info \in skipped THEN f[h[p].link] ELSE <<p>> \o f[h[p].link]
    BY <1>7
  <2>1. p \in Entries
    BY MVarAssumption DEF END, Entries
  <2> QED BY <2>1, <1>8 DEF Step
<1>11. Finder(h, skipped, f)
  BY <1>9, <1>10 DEF Finder
<1> QED BY <1>11

Kept(h, skipped) == {q \in Entries : h[q].info \notin skipped}

\* Find satisfies its equation.
LEMMA FindStep ==
    ASSUME NEW h, NEW s, IsPath(h, s), Closed(h, s), NEW skipped
    PROVE  /\ Find(h, END, skipped) = <<>>
           /\ \A p \in Entries : Find(h, p, skipped) =
                 IF p \in Kept(h, skipped) THEN <<p>> \o Find(h, h[p].link, skipped)
                 ELSE Find(h, h[p].link, skipped)
<1>1. PICK f : f = CHOOSE g : Finder(h, skipped, g)
  OBVIOUS
<1>2. Finder(h, skipped, f)
  BY <1>1, FinderExists
<1>3. \A q : Find(h, q, skipped) = f[q]
  BY <1>1 DEF Find, Finder
<1>4. END \notin Entries /\ Entries \subseteq 0..MaxEntries /\ END \in 0..MaxEntries
  BY MVarAssumption DEF END, Entries
<1>5. \A p \in 0..MaxEntries : f[p] = IF p = END THEN <<>>
                                      ELSE IF h[p].info \in skipped THEN f[h[p].link]
                                      ELSE <<p>> \o f[h[p].link]
  BY <1>2 DEF Finder
<1>6. f[END] = <<>>
  BY <1>4, <1>5
<1>7. ASSUME NEW p \in Entries
      PROVE  f[p] = IF p \in Kept(h, skipped) THEN <<p>> \o f[h[p].link] ELSE f[h[p].link]
  <2>1. p \in 0..MaxEntries /\ p # END
    BY <1>4
  <2> QED BY <2>1, <1>5 DEF Kept
<1> QED BY <1>3, <1>6, <1>7

\* The queue without its first entries
LEMMA FromSequence ==
    ASSUME NEW s \in Seq(Entries), NEW k \in 1..(Len(s) + 1)
    PROVE  /\ From(s, k) \in Seq(Entries)
           /\ Len(From(s, k)) = Len(s) - (k - 1)
           /\ \A i \in 1..(Len(s) - (k - 1)) : From(s, k)[i] = s[i + (k - 1)]
BY DEF From

\* An entry in front of a sequence
LEMMA ConsSequence ==
    ASSUME NEW s \in Seq(Entries), NEW x \in Entries
    PROVE  /\ <<x>> \o s \in Seq(Entries) /\ Len(<<x>> \o s) = Len(s) + 1
           /\ (<<x>> \o s)[1] = x
           /\ \A i \in 1..Len(s) : (<<x>> \o s)[i + 1] = s[i]
OBVIOUS

\* What follows from the k-th entry on begins with it.
LEMMA FromStep ==
    ASSUME NEW s \in Seq(Entries), NEW k \in 1..Len(s)
    PROVE  From(s, k) = <<s[k]>> \o From(s, k + 1)
<1>1. k \in 1..(Len(s) + 1) /\ k + 1 \in 1..(Len(s) + 1) /\ s[k] \in Entries
  OBVIOUS
<1>2. PICK a : a = From(s, k) OBVIOUS
<1>3. PICK b : b = From(s, k + 1) OBVIOUS
<1>4. /\ a \in Seq(Entries) /\ Len(a) = Len(s) - (k - 1)
      /\ \A i \in 1..(Len(s) - (k - 1)) : a[i] = s[i + (k - 1)]
  BY <1>1, <1>2, FromSequence
<1>5. /\ b \in Seq(Entries) /\ Len(b) = Len(s) - k
      /\ \A i \in 1..(Len(s) - k) : b[i] = s[i + k]
  <2>1. PICK m : m = k + 1
    OBVIOUS
  <2>2. m \in 1..(Len(s) + 1) /\ m - 1 = k /\ b = From(s, m)
    BY <1>1, <1>3, <2>1
  <2>3. /\ From(s, m) \in Seq(Entries) /\ Len(From(s, m)) = Len(s) - (m - 1)
        /\ \A i \in 1..(Len(s) - (m - 1)) : From(s, m)[i] = s[i + (m - 1)]
    BY <2>2, FromSequence
  <2> QED BY <2>2, <2>3
<1>6. PICK t : t = <<s[k]>> \o b OBVIOUS
<1>7. /\ t \in Seq(Entries) /\ Len(t) = Len(b) + 1 /\ t[1] = s[k]
      /\ \A i \in 1..Len(b) : t[i + 1] = b[i]
  BY <1>1, <1>5, <1>6, ConsSequence
<1>8. ASSUME NEW i \in 1..Len(a) PROVE a[i] = t[i]
  <2>1. CASE i = 1
    BY <2>1, <1>4, <1>7
  <2>2. CASE i # 1
    <3>1. i - 1 \in 1..Len(b) /\ (i - 1) + 1 = i /\ (i - 1) + k = i + (k - 1)
      BY <2>2, <1>4, <1>5
    <3> QED BY <3>1, <1>4, <1>5, <1>7
  <2> QED BY <2>1, <2>2
<1>9. Len(a) = Len(t)
  BY <1>4, <1>5, <1>7
<1> QED BY <1>2, <1>3, <1>4, <1>6, <1>7, <1>8, <1>9, SequenceExtension

\* What is found from the k-th entry on
LEMMA FindFrom ==
    ASSUME NEW h, NEW s, IsPath(h, s), Closed(h, s), NEW skipped
    PROVE  \A k \in 1..(Len(s) + 1) :
              Lists(Find(h, At(s, k), skipped), From(s, k), Kept(h, skipped))
<1> DEFINE n == Len(s) + 1
           S == {k \in 1..n : Lists(Find(h, At(s, k), skipped), From(s, k), Kept(h, skipped))}
<1>1. s \in Seq(Entries) /\ n \in Nat /\ n \in 1..n
  BY DEF IsPath
<1>2. n \in S
  <2>1. At(s, n) = END
    BY <1>1 DEF At
  <2>2. Find(h, END, skipped) = <<>>
    BY FindStep
  <2>3. Len(From(s, n)) = 0
    BY <1>1, FromSequence
  <2>4. Lists(<<>>, From(s, n), Kept(h, skipped))
    BY <2>3 DEF Lists, On
  <2> QED BY <1>1, <2>1, <2>2, <2>4
<1>3. ASSUME NEW k \in 1..n, k < n, k + 1 \in S PROVE k \in S
  <2>1. k \in 1..Len(s) /\ k + 1 \in 1..n
    BY <1>1, <1>3
  <2>2. s[k] \in Entries /\ At(s, k) = s[k] /\ h[s[k]].link = At(s, k + 1)
    BY <1>1, <2>1 DEF At, IsPath
  <2>3. PICK a : a = Find(h, At(s, k + 1), skipped) OBVIOUS
  <2>4. PICK t : t = From(s, k + 1) OBVIOUS
  <2>5. t \in Seq(Entries)
    BY <1>1, <2>1, <2>4, FromSequence
  <2>6. Lists(a, t, Kept(h, skipped))
    BY <1>3, <2>3, <2>4
  <2>7. Find(h, s[k], skipped) = IF s[k] \in Kept(h, skipped) THEN <<s[k]>> \o a ELSE a
    BY <2>2, <2>3, FindStep
  <2>8. From(s, k) = <<s[k]>> \o t
    BY <1>1, <2>1, <2>4, FromStep
  <2>9. Lists(Find(h, s[k], skipped), From(s, k), Kept(h, skipped))
    BY <2>2, <2>5, <2>6, <2>7, <2>8, ListsCons
  <2> QED BY <2>2, <2>9
<1>4. \A k \in 1..n : k \in S
  <2> HIDE DEF S, n
  <2>1. \A i \in 1..n : i < n /\ i + 1 \in S => i \in S BY <1>3
  <2> QED BY <1>1, <1>2, <2>1, DownwardInduction, Zenon
<1> QED BY <1>4

First(s) == At(s, 1)

\* What is found from the head on; all of it, if nothing is skipped
LEMMA FindAll ==
    ASSUME NEW h, NEW s, IsPath(h, s), Closed(h, s)
    PROVE  /\ \A skipped : Lists(Find(h, First(s), skipped), s, Kept(h, skipped))
           /\ Chain(h, First(s)) = s
<1>1. s \in Seq(Entries) /\ 1 \in 1..(Len(s) + 1) /\ Once(s)
  BY DEF IsPath
<1>2. From(s, 1) = s
  <2>1. /\ From(s, 1) \in Seq(Entries) /\ Len(From(s, 1)) = Len(s)
        /\ \A i \in 1..Len(s) : From(s, 1)[i] = s[i]
    BY <1>1, FromSequence
  <2> QED BY <1>1, <2>1, SequenceExtension
<1>3. ASSUME NEW skipped PROVE Lists(Find(h, First(s), skipped), s, Kept(h, skipped))
  <2>1. Lists(Find(h, At(s, 1), skipped), From(s, 1), Kept(h, skipped))
    BY <1>1, FindFrom
  <2> QED BY <1>2, <2>1 DEF First
<1>4. Lists(s, s, Kept(h, {}))
  BY <1>1 DEF Lists, Kept, On, Before
<1>5. Lists(Chain(h, First(s)), s, Kept(h, {}))
  BY <1>3 DEF Chain
<1> QED BY <1>1, <1>3, <1>4, <1>5, ListsUnique

----------------------------------------------------------------------------
(* What becomes of a list when the queue changes                           *)

\* Whether entries elsewhere are in S does not matter.
LEMMA ListsSame ==
    ASSUME NEW a, NEW s, NEW S, NEW T, Lists(a, s, S), \A x \in On(s) : x \in S <=> x \in T
    PROVE  Lists(a, s, T)
BY DEF Lists

\* An entry at the end of a sequence
LEMMA SnocSequence ==
    ASSUME NEW s \in Seq(Entries), NEW x \in Entries
    PROVE  /\ Append(s, x) \in Seq(Entries) /\ Len(Append(s, x)) = Len(s) + 1
           /\ Append(s, x)[Len(s) + 1] = x
           /\ \A i \in 1..Len(s) : Append(s, x)[i] = s[i]
OBVIOUS

\* Which entries are then on it
LEMMA SnocOn ==
    ASSUME NEW s \in Seq(Entries), NEW x \in Entries
    PROVE  On(Append(s, x)) = On(s) \cup {x}
<1>1. PICK t : t = Append(s, x) OBVIOUS
<1>2. /\ t \in Seq(Entries) /\ Len(t) = Len(s) + 1 /\ t[Len(s) + 1] = x
      /\ \A i \in 1..Len(s) : t[i] = s[i]
  BY <1>1, SnocSequence
<1>3. ASSUME NEW y \in On(t) PROVE y \in On(s) \cup {x}
  <2>1. PICK i \in 1..Len(t) : t[i] = y BY <1>3 DEF On
  <2>2. CASE i = Len(s) + 1 BY <2>1, <2>2, <1>2
  <2>3. CASE i # Len(s) + 1
    <3>1. i \in 1..Len(s) BY <2>3, <1>2
    <3> QED BY <3>1, <2>1, <1>2 DEF On
  <2> QED BY <2>2, <2>3
<1>4. ASSUME NEW y \in On(s) PROVE y \in On(t)
  <2>1. PICK i \in 1..Len(s) : s[i] = y BY DEF On
  <2>2. i \in 1..Len(t) /\ t[i] = y BY <1>2, <2>1
  <2> QED BY <2>2 DEF On
<1>5. x \in On(t)
  <2>1. Len(s) + 1 \in 1..Len(t) BY <1>2
  <2> QED BY <2>1, <1>2 DEF On
<1> QED BY <1>1, <1>3, <1>4, <1>5

\* An entry in front of a sequence
LEMMA ConsOn ==
    ASSUME NEW s \in Seq(Entries), NEW x \in Entries
    PROVE  On(<<x>> \o s) = On(s) \cup {x}
<1>1. PICK t : t = <<x>> \o s OBVIOUS
<1>2. /\ t \in Seq(Entries) /\ Len(t) = Len(s) + 1 /\ t[1] = x
      /\ \A i \in 1..Len(s) : t[i + 1] = s[i]
  BY <1>1, ConsSequence
<1>3. ASSUME NEW y \in On(t) PROVE y \in On(s) \cup {x}
  <2>1. PICK i \in 1..Len(t) : t[i] = y BY <1>3 DEF On
  <2>2. CASE i = 1 BY <2>1, <2>2, <1>2
  <2>3. CASE i # 1
    <3>1. PICK k \in 1..Len(s) : k + 1 = i
      <4>1. i - 1 \in 1..Len(s) /\ (i - 1) + 1 = i BY <2>3, <1>2
      <4> QED BY <4>1
    <3>2. y = s[k] BY <2>1, <3>1, <1>2
    <3> QED BY <3>2 DEF On
  <2> QED BY <2>2, <2>3
<1>4. ASSUME NEW y \in On(s) PROVE y \in On(t)
  <2>1. PICK i \in 1..Len(s) : s[i] = y BY DEF On
  <2>2. i + 1 \in 1..Len(t) /\ t[i + 1] = y BY <1>2, <2>1
  <2> QED BY <2>2 DEF On
<1>5. x \in On(t)
  <2>1. 1 \in 1..Len(t) BY <1>2
  <2> QED BY <2>1, <1>2 DEF On
<1> QED BY <1>1, <1>3, <1>4, <1>5

\* An entry that is new stays the only one of its kind.
LEMMA OnceMore ==
    ASSUME NEW s \in Seq(Entries), Once(s), NEW x \in Entries, x \notin On(s)
    PROVE  Once(Append(s, x)) /\ Once(<<x>> \o s)
<1>1. Once(Append(s, x))
  <2>1. PICK t : t = Append(s, x) OBVIOUS
  <2>2. /\ Len(t) = Len(s) + 1 /\ t[Len(s) + 1] = x
        /\ \A i \in 1..Len(s) : t[i] = s[i]
    BY <2>1, SnocSequence
  <2>3. \A i \in 1..Len(s) : s[i] # x
    BY DEF On
  <2>4. \A i \in 1..Len(t) : i = Len(s) + 1 \/ i \in 1..Len(s)
    BY <2>2
  <2>5. Once(t)
    BY <2>2, <2>3, <2>4 DEF Once
  <2> QED BY <2>1, <2>5
<1>2. Once(<<x>> \o s)
  <2>1. PICK t : t = <<x>> \o s OBVIOUS
  <2>2. /\ Len(t) = Len(s) + 1 /\ t[1] = x
        /\ \A i \in 1..Len(s) : t[i + 1] = s[i]
    BY <2>1, ConsSequence
  <2>3. \A i \in 1..Len(s) : s[i] # x
    BY DEF On
  <2>4. \A i \in 1..Len(t) : i = 1 \/ \E k \in 1..Len(s) : k + 1 = i
    <3> SUFFICES ASSUME NEW i \in 1..Len(t), i # 1 PROVE \E k \in 1..Len(s) : k + 1 = i
      OBVIOUS
    <3>1. i - 1 \in 1..Len(s) /\ (i - 1) + 1 = i BY <2>2
    <3> QED BY <3>1
  <2>5. ASSUME NEW i \in 1..Len(t), NEW j \in 1..Len(t), t[i] = t[j] PROVE i = j
    <3>1. CASE i = 1 /\ j = 1 BY <3>1
    <3>2. CASE i = 1 /\ j # 1
      <4>1. PICK k \in 1..Len(s) : k + 1 = j BY <3>2, <2>4
      <4> QED BY <4>1, <3>2, <2>2, <2>3, <2>5
    <3>3. CASE i # 1 /\ j = 1
      <4>1. PICK k \in 1..Len(s) : k + 1 = i BY <3>3, <2>4
      <4> QED BY <4>1, <3>3, <2>2, <2>3, <2>5
    <3>4. CASE i # 1 /\ j # 1
      <4>1. PICK k \in 1..Len(s) : k + 1 = i BY <3>4, <2>4
      <4>2. PICK l \in 1..Len(s) : l + 1 = j BY <3>4, <2>4
      <4>3. s[k] = s[l] BY <4>1, <4>2, <2>2, <2>5
      <4>4. k = l BY <4>3 DEF Once
      <4> QED BY <4>1, <4>2, <4>4
    <3> QED BY <3>1, <3>2, <3>3, <3>4
  <2>6. Once(t) BY <2>5 DEF Once
  <2> QED BY <2>1, <2>6
<1> QED BY <1>1, <1>2

\* An entry behind s is listed last.
LEMMA ListsSnoc ==
    ASSUME NEW s \in Seq(Entries), NEW S, NEW a, Lists(a, s, S), NEW x \in Entries, x \in S
    PROVE  Lists(Append(a, x), Append(s, x), S)
<1>0. a \in Seq(Entries)
  BY DEF Lists
<1>1. PICK t : t = Append(s, x) OBVIOUS
<1>2. PICK b : b = Append(a, x) OBVIOUS
<1>3. /\ t \in Seq(Entries) /\ Len(t) = Len(s) + 1 /\ t[Len(s) + 1] = x
      /\ \A i \in 1..Len(s) : t[i] = s[i]
  BY <1>1, SnocSequence
<1>4. /\ b \in Seq(Entries) /\ Len(b) = Len(a) + 1 /\ b[Len(a) + 1] = x
      /\ \A i \in 1..Len(a) : b[i] = a[i]
  BY <1>0, <1>2, SnocSequence
<1>5. On(t) = On(s) \cup {x} /\ On(b) = On(a) \cup {x}
  BY <1>0, <1>1, <1>2, SnocOn
<1>6. \A i \in 1..Len(b) : i = Len(a) + 1 \/ i \in 1..Len(a)
  BY <1>0, <1>4
<1>7. \A y, z : Before(s, y, z) => Before(t, y, z)
  <2> SUFFICES ASSUME NEW y, NEW z, Before(s, y, z) PROVE Before(t, y, z)
    OBVIOUS
  <2>1. PICK i \in 1..Len(s), j \in 1..Len(s) : i < j /\ s[i] = y /\ s[j] = z
    BY DEF Before
  <2>2. i \in 1..Len(t) /\ j \in 1..Len(t) /\ t[i] = y /\ t[j] = z
    BY <1>3, <2>1
  <2> QED BY <2>1, <2>2 DEF Before
<1>8. \A y \in On(s) : Before(t, y, x)
  <2> SUFFICES ASSUME NEW y \in On(s) PROVE Before(t, y, x)
    OBVIOUS
  <2>1. PICK i \in 1..Len(s) : s[i] = y BY DEF On
  <2>2. Len(s) + 1 \in 1..Len(t) /\ i \in 1..Len(t) /\ i < Len(s) + 1 /\ t[i] = y
    BY <1>3, <2>1
  <2> QED BY <2>2, <1>3 DEF Before
<1>9. \A i \in 1..Len(a) : a[i] \in S /\ a[i] \in On(s)
  BY DEF Lists
<1>10. \A i \in 1..Len(b) : b[i] \in S /\ b[i] \in On(t)
  BY <1>4, <1>5, <1>6, <1>9
<1>11. \A y \in On(t) : y \in S => y \in On(b)
  BY <1>5 DEF Lists
<1>12. \A i, j \in 1..Len(b) : i < j => Before(t, b[i], b[j])
  <2> SUFFICES ASSUME NEW i \in 1..Len(b), NEW j \in 1..Len(b), i < j
               PROVE  Before(t, b[i], b[j])
    OBVIOUS
  <2>0. i \in 1..Len(a) /\ b[i] = a[i]
    BY <1>0, <1>4
  <2>1. CASE j = Len(a) + 1
    BY <2>0, <2>1, <1>4, <1>8, <1>9
  <2>2. CASE j \in 1..Len(a)
    <3>1. Before(s, a[i], a[j]) /\ b[j] = a[j]
      BY <2>0, <2>2, <1>4 DEF Lists
    <3> QED BY <3>1, <2>0, <1>7
  <2> QED BY <2>1, <2>2, <1>6
<1>13. Lists(b, t, S)
  BY <1>4, <1>10, <1>11, <1>12 DEF Lists
<1> QED BY <1>1, <1>2, <1>13

\* Behind s[k] comes what follows it, in the same order.
LEMMA FromOrder ==
    ASSUME NEW s \in Seq(Entries), Once(s), NEW k \in 0..Len(s)
    PROVE  /\ \A x : x \in On(From(s, k + 1)) <=> \E i \in (k + 1)..Len(s) : s[i] = x
           /\ \A x \in On(From(s, k + 1)) : x \in On(s) /\ (k > 0 => Before(s, s[k], x))
           /\ k > 0 => \A x : Before(s, s[k], x) => x \in On(From(s, k + 1))
           /\ \A x, y \in On(From(s, k + 1)) : Before(s, x, y) => Before(From(s, k + 1), x, y)
           /\ \A x, y : Before(From(s, k + 1), x, y) => Before(s, x, y)
           /\ Once(From(s, k + 1))
<1>1. PICK m : m = k + 1 OBVIOUS
<1>2. m \in 1..(Len(s) + 1) /\ m - 1 = k /\ Len(s) \in Nat
  BY <1>1
<1>3. PICK t : t = From(s, m) OBVIOUS
<1>4. /\ t \in Seq(Entries) /\ Len(t) = Len(s) - k
      /\ \A i \in 1..(Len(s) - k) : t[i] = s[i + k]
  <2>1. /\ From(s, m) \in Seq(Entries) /\ Len(From(s, m)) = Len(s) - (m - 1)
        /\ \A i \in 1..(Len(s) - (m - 1)) : From(s, m)[i] = s[i + (m - 1)]
    BY <1>2, FromSequence
  <2> QED BY <2>1, <1>2, <1>3
<1>5. \A x : x \in On(t) <=> \E i \in m..Len(s) : s[i] = x
  <2>1. ASSUME NEW x \in On(t) PROVE \E i \in m..Len(s) : s[i] = x
    <3>1. PICK i \in 1..Len(t) : t[i] = x BY <2>1 DEF On
    <3>2. i \in 1..(Len(s) - k) /\ i + k \in m..Len(s)
      BY <3>1, <1>1, <1>2, <1>4
    <3>3. s[i + k] = x
      BY <3>1, <3>2, <1>4
    <3> QED BY <3>2, <3>3
  <2>2. ASSUME NEW i \in m..Len(s) PROVE s[i] \in On(t)
    <3>1. i - k \in 1..Len(t) /\ (i - k) + k = i BY <1>1, <1>4
    <3>2. t[i - k] = s[i] BY <3>1, <1>4
    <3> QED BY <3>1, <3>2 DEF On
  <2> QED BY <2>1, <2>2
<1>6. \A x \in On(t) : x \in On(s) /\ (k > 0 => Before(s, s[k], x))
  <2> SUFFICES ASSUME NEW x \in On(t) PROVE x \in On(s) /\ (k > 0 => Before(s, s[k], x))
    OBVIOUS
  <2>1. PICK i \in m..Len(s) : s[i] = x BY <1>5
  <2>2. i \in 1..Len(s) /\ k < i /\ (k > 0 => k \in 1..Len(s)) BY <1>1
  <2>3. x \in On(s) BY <2>1, <2>2 DEF On
  <2>4. k > 0 => Before(s, s[k], x) BY <2>1, <2>2 DEF Before
  <2> QED BY <2>3, <2>4
<1>7. ASSUME k > 0, NEW x, Before(s, s[k], x) PROVE x \in On(t)
  <2>1. PICK i \in 1..Len(s), j \in 1..Len(s) : i < j /\ s[i] = s[k] /\ s[j] = x
    BY <1>7 DEF Before
  <2>2. i = k
    <3>1. k \in 1..Len(s) BY <1>7
    <3> QED BY <2>1, <3>1 DEF Once
  <2>3. j \in m..Len(s) BY <2>1, <2>2, <1>1
  <2> QED BY <2>1, <2>3, <1>5
<1>8. ASSUME NEW x \in On(t), NEW y \in On(t), Before(s, x, y) PROVE Before(t, x, y)
  <2>1. PICK i \in 1..Len(s), j \in 1..Len(s) : i < j /\ s[i] = x /\ s[j] = y
    BY <1>8 DEF Before
  <2>2. PICK i2 \in m..Len(s) : s[i2] = x BY <1>5
  <2>3. i2 = i
    <3>1. i2 \in 1..Len(s) BY <1>2
    <3> QED BY <2>1, <2>2, <3>1 DEF Once
  <2>4. /\ i - k \in 1..Len(t) /\ j - k \in 1..Len(t) /\ i - k < j - k
        /\ (i - k) + k = i /\ (j - k) + k = j
    BY <2>1, <2>3, <1>1, <1>2, <1>4
  <2>5. t[i - k] = x /\ t[j - k] = y
    BY <2>1, <2>4, <1>4
  <2> QED BY <2>4, <2>5 DEF Before
<1>9. ASSUME NEW x, NEW y, Before(t, x, y) PROVE Before(s, x, y)
  <2>1. PICK i \in 1..Len(t), j \in 1..Len(t) : i < j /\ t[i] = x /\ t[j] = y
    BY <1>9 DEF Before
  <2>2. i + k \in 1..Len(s) /\ j + k \in 1..Len(s) /\ i + k < j + k
        /\ s[i + k] = x /\ s[j + k] = y
    BY <2>1, <1>4
  <2> QED BY <2>2 DEF Before
<1>10. Once(t)
  <2> SUFFICES ASSUME NEW i \in 1..Len(t), NEW j \in 1..Len(t), t[i] = t[j] PROVE i = j
    BY DEF Once
  <2>1. i + k \in 1..Len(s) /\ j + k \in 1..Len(s) /\ s[i + k] = s[j + k]
    BY <1>4
  <2>2. i + k = j + k BY <2>1 DEF Once
  <2> QED BY <2>2, <1>4
<1> QED BY <1>1, <1>3, <1>5, <1>6, <1>7, <1>8, <1>9, <1>10

\* When the first one leaves with all that is before it, the others are still listed.
LEMMA ListsTail ==
    ASSUME NEW s \in Seq(Entries), Once(s), NEW S, NEW a, Lists(a, s, S), a # <<>>,
           NEW k \in 1..Len(s), s[k] = a[1]
    PROVE  Lists(Tail(a), From(s, k + 1), S)
<1>0. a \in Seq(Entries)
  BY DEF Lists
<1>1. PICK b : b = Tail(a) OBVIOUS
<1>2. /\ b \in Seq(Entries) /\ Len(b) = Len(a) - 1 /\ 1 \in 1..Len(a)
      /\ \A i \in 1..Len(b) : b[i] = a[i + 1] /\ i + 1 \in 1..Len(a) /\ 1 < i + 1
  BY <1>0, <1>1
<1>3. PICK t : t = From(s, k + 1) OBVIOUS
<1>4. k \in 0..Len(s) /\ k > 0
  OBVIOUS
<1>5. /\ \A x \in On(t) : x \in On(s) /\ Before(s, s[k], x)
      /\ \A x : Before(s, s[k], x) => x \in On(t)
      /\ \A x, y \in On(t) : Before(s, x, y) => Before(t, x, y)
  BY <1>3, <1>4, FromOrder
<1>6. \A i \in 1..Len(b) : b[i] \in S /\ b[i] \in On(t)
  <2> SUFFICES ASSUME NEW i \in 1..Len(b) PROVE b[i] \in S /\ b[i] \in On(t)
    OBVIOUS
  <2>1. b[i] = a[i + 1] /\ i + 1 \in 1..Len(a) /\ 1 < i + 1
    BY <1>2
  <2>2. a[i + 1] \in S /\ Before(s, a[1], a[i + 1])
    BY <2>1, <1>2 DEF Lists
  <2> QED BY <2>1, <2>2, <1>5
<1>7. \A x \in On(t) : x \in S => x \in On(b)
  <2> SUFFICES ASSUME NEW x \in On(t), x \in S PROVE x \in On(b)
    OBVIOUS
  <2>1. x \in On(s) /\ Before(s, a[1], x)
    BY <1>5
  <2>2. PICK i \in 1..Len(a) : a[i] = x
    BY <2>1 DEF Lists, On
  <2>3. i # 1
    BY <2>1, <2>2, Strict
  <2>4. i - 1 \in 1..Len(b) /\ (i - 1) + 1 = i
    BY <2>3, <1>0, <1>2
  <2>5. b[i - 1] = x
    BY <2>2, <2>4, <1>2
  <2> QED BY <2>4, <2>5 DEF On
<1>8. \A i, j \in 1..Len(b) : i < j => Before(t, b[i], b[j])
  <2> SUFFICES ASSUME NEW i \in 1..Len(b), NEW j \in 1..Len(b), i < j
               PROVE  Before(t, b[i], b[j])
    OBVIOUS
  <2>1. b[i] = a[i + 1] /\ b[j] = a[j + 1] /\ i + 1 \in 1..Len(a) /\ j + 1 \in 1..Len(a)
    BY <1>2
  <2>2. i + 1 < j + 1
    OBVIOUS
  <2>3. Before(s, a[i + 1], a[j + 1])
    BY <2>1, <2>2 DEF Lists
  <2> QED BY <2>1, <2>3, <1>5, <1>6
<1>9. Lists(b, t, S)
  BY <1>2, <1>6, <1>7, <1>8 DEF Lists
<1> QED BY <1>1, <1>3, <1>9

\* The first one that is listed behind a[i] is the next one.
LEMMA FirstAfter ==
    ASSUME NEW s \in Seq(Entries), Once(s), NEW S, NEW a, Lists(a, s, S),
           NEW i \in 1..Len(a), NEW k \in 1..Len(s), s[k] = a[i],
           NEW b, Lists(b, From(s, k + 1), S)
    PROVE  First(b) = At(a, i + 1)
<1>0. a \in Seq(Entries) /\ b \in Seq(Entries)
  BY DEF Lists
<1>3. PICK t : t = From(s, k + 1) OBVIOUS
<1>4. k \in 0..Len(s) /\ k > 0
  OBVIOUS
<1>5. /\ \A x \in On(t) : x \in On(s) /\ Before(s, s[k], x)
      /\ \A x : Before(s, s[k], x) => x \in On(t)
      /\ \A x, y : Before(t, x, y) => Before(s, x, y)
  BY <1>3, <1>4, FromOrder
<1>6. \A j \in 1..Len(b) : \E m \in 1..Len(a) : m > i /\ a[m] = b[j]
  <2> SUFFICES ASSUME NEW j \in 1..Len(b) PROVE \E m \in 1..Len(a) : m > i /\ a[m] = b[j]
    OBVIOUS
  <2>1. b[j] \in S /\ b[j] \in On(t)
    BY <1>3 DEF Lists
  <2>2. b[j] \in On(s) /\ Before(s, a[i], b[j])
    BY <2>1, <1>5
  <2>3. PICK m \in 1..Len(a) : a[m] = b[j]
    BY <2>1, <2>2 DEF Lists, On
  <2>4. m # i
    BY <2>2, <2>3, Strict
  <2>5. ~(m < i)
    <3> SUFFICES ASSUME m < i PROVE FALSE
      OBVIOUS
    <3>1. Before(s, a[m], a[i])
      BY DEF Lists
    <3> QED BY <3>1, <2>2, <2>3, Strict
  <2>6. m > i
    BY <2>4, <2>5
  <2> QED BY <2>3, <2>6
<1>7. \A m \in 1..Len(a) : m > i => \E j \in 1..Len(b) : a[m] = b[j]
  <2> SUFFICES ASSUME NEW m \in 1..Len(a), m > i PROVE \E j \in 1..Len(b) : a[m] = b[j]
    OBVIOUS
  <2>1. Before(s, a[i], a[m])
    BY DEF Lists
  <2>2. a[m] \in On(t) /\ a[m] \in S
    BY <2>1, <1>5 DEF Lists
  <2> QED BY <2>2, <1>3 DEF Lists, On
<1>8. CASE b = <<>>
  <2>1. ~(i + 1 <= Len(a))
    <3> SUFFICES ASSUME i + 1 <= Len(a) PROVE FALSE
      OBVIOUS
    <3>1. i + 1 \in 1..Len(a) /\ i + 1 > i
      BY <1>0
    <3> QED BY <3>1, <1>7, <1>8
  <2> QED BY <2>1, <1>8 DEF First, At
<1>9. CASE b # <<>>
  <2>1. 1 \in 1..Len(b) /\ First(b) = b[1]
    BY <1>0, <1>9 DEF First, At
  <2>2. PICK m \in 1..Len(a) : m > i /\ a[m] = b[1]
    BY <2>1, <1>6
  <2>3. i + 1 \in 1..Len(a) /\ i + 1 > i /\ At(a, i + 1) = a[i + 1]
    BY <2>2, <1>0 DEF At
  <2>4. m = i + 1
    <3> SUFFICES ASSUME m # i + 1 PROVE FALSE
      OBVIOUS
    <3>1. i + 1 < m
      BY <2>2, <1>0
    <3>2. Before(s, a[i + 1], b[1])
      BY <3>1, <2>2, <2>3 DEF Lists
    <3>3. PICK j \in 1..Len(b) : a[i + 1] = b[j]
      BY <2>3, <1>7
    <3>4. j # 1
      BY <3>2, <3>3, Strict
    <3>5. Before(t, b[1], b[j])
      BY <3>4, <2>1, <1>0, <1>3 DEF Lists
    <3> QED BY <3>2, <3>3, <3>5, <1>5, Strict
  <2> QED BY <2>1, <2>2, <2>3, <2>4
<1> QED BY <1>8, <1>9

\* If the last one is listed it is listed last.
LEMMA LastListed ==
    ASSUME NEW s \in Seq(Entries), Once(s), NEW S, NEW a, Lists(a, s, S),
           s # <<>>, Last(s) \in S
    PROVE  a # <<>> /\ Last(a) = Last(s)
<1>0. a \in Seq(Entries) /\ Len(s) \in 1..Len(s) /\ Last(s) = s[Len(s)]
  BY DEF Lists, Last
<1>1. PICK i \in 1..Len(a) : a[i] = s[Len(s)]
  <2>1. s[Len(s)] \in On(s)
    BY <1>0 DEF On
  <2> QED BY <2>1, <1>0 DEF Lists, On
<1>2. a # <<>> /\ Last(a) = a[Len(a)] /\ Len(a) \in 1..Len(a)
  BY <1>0, <1>1 DEF Last
<1>3. i = Len(a)
  <2> SUFFICES ASSUME i # Len(a) PROVE FALSE
    OBVIOUS
  <2>1. i < Len(a)
    BY <1>0
  <2>2. Before(s, s[Len(s)], a[Len(a)])
    BY <2>1, <1>1, <1>2 DEF Lists
  <2>3. PICK k \in 1..Len(s), l \in 1..Len(s) : k < l /\ s[k] = s[Len(s)]
    BY <2>2 DEF Before
  <2>4. k = Len(s)
    BY <2>3, <1>0 DEF Once
  <2> QED BY <2>3, <2>4
<1> QED BY <1>0, <1>1, <1>2, <1>3

\* What remains of a without its i-th element
Without(a, i) == SubSeq(a, 1, i - 1) \o SubSeq(a, i + 1, Len(a))

\* Two parts of a sequence
LEMMA ConcatSequence ==
    ASSUME NEW T, NEW p \in Seq(T), NEW q \in Seq(T)
    PROVE  /\ p \o q \in Seq(T) /\ Len(p \o q) = Len(p) + Len(q)
           /\ \A j \in 1..Len(p) : (p \o q)[j] = p[j]
           /\ \A j \in 1..Len(q) : (p \o q)[j + Len(p)] = q[j]
OBVIOUS

\* A sequence without its i-th element
LEMMA WithoutSequence ==
    ASSUME NEW T, NEW a \in Seq(T), NEW i \in 1..Len(a)
    PROVE  /\ Without(a, i) \in Seq(T) /\ Len(Without(a, i)) = Len(a) - 1
           /\ \A j \in 1..(Len(a) - 1) :
                 Without(a, i)[j] = IF j < i THEN a[j] ELSE a[j + 1]
<1>1. PICK p : p = SubSeq(a, 1, i - 1) OBVIOUS
<1>2. PICK q : q = SubSeq(a, i + 1, Len(a)) OBVIOUS
<1>3. /\ p \in Seq(T) /\ Len(p) = i - 1
      /\ \A j \in 1..(i - 1) : p[j] = a[j]
  BY <1>1
<1>4. /\ q \in Seq(T) /\ Len(q) = Len(a) - i
      /\ \A j \in 1..(Len(a) - i) : q[j] = a[i + j]
  BY <1>2
<1>5. PICK b : b = p \o q OBVIOUS
<1>6. /\ b \in Seq(T) /\ Len(b) = Len(p) + Len(q)
      /\ \A j \in 1..Len(p) : b[j] = p[j]
      /\ \A j \in 1..Len(q) : b[j + Len(p)] = q[j]
  <2>1. p \in Seq(T) /\ q \in Seq(T)
    BY <1>3, <1>4
  <2> HIDE <1>3, <1>4
  <2>2. /\ p \o q \in Seq(T) /\ Len(p \o q) = Len(p) + Len(q)
        /\ \A j \in 1..Len(p) : (p \o q)[j] = p[j]
        /\ \A j \in 1..Len(q) : (p \o q)[j + Len(p)] = q[j]
    BY <2>1, ConcatSequence
  <2> QED BY <2>2, <1>5
<1>7. Len(b) = Len(a) - 1
  BY <1>3, <1>4, <1>6
<1>8. ASSUME NEW j \in 1..(Len(a) - 1) PROVE b[j] = IF j < i THEN a[j] ELSE a[j + 1]
  <2>1. CASE j < i
    <3>1. j \in 1..Len(p) /\ j \in 1..(i - 1) BY <2>1, <1>3
    <3> QED BY <3>1, <2>1, <1>3, <1>6
  <2>2. CASE ~(j < i)
    <3>1. PICK m : m = j - (i - 1) OBVIOUS
    <3>2. m \in 1..Len(q) /\ m \in 1..(Len(a) - i) /\ m + Len(p) = j /\ i + m = j + 1
      BY <3>1, <2>2, <1>3, <1>4
    <3> QED BY <3>2, <2>2, <1>4, <1>6
  <2> QED BY <2>1, <2>2
<1> QED BY <1>1, <1>2, <1>5, <1>6, <1>7, <1>8 DEF Without

\* One that leaves the list alone
LEMMA ListsWithout ==
    ASSUME NEW s \in Seq(Entries), Once(s), NEW S, NEW a, Lists(a, s, S),
           NEW i \in 1..Len(a)
    PROVE  Lists(Without(a, i), s, S \ {a[i]})
<1>0. a \in Seq(Entries) /\ Once(a)
  BY ListsOnce DEF Lists
<1>1. PICK b : b = Without(a, i) OBVIOUS
<1>2. PICK n : n = Len(a) - 1 OBVIOUS
<1>3. /\ b \in Seq(Entries) /\ Len(b) = n /\ n \in Nat /\ Len(a) = n + 1
      /\ \A j \in 1..n : b[j] = IF j < i THEN a[j] ELSE a[j + 1]
  BY <1>0, <1>1, <1>2, WithoutSequence
<1>4. \A j \in 1..n : \E m \in 1..Len(a) :
         m # i /\ b[j] = a[m] /\ m = IF j < i THEN j ELSE j + 1
  <2> SUFFICES ASSUME NEW j \in 1..n
               PROVE \E m \in 1..Len(a) : m # i /\ b[j] = a[m] /\ m = IF j < i THEN j ELSE j + 1
    OBVIOUS
  <2>1. PICK m : m = IF j < i THEN j ELSE j + 1 OBVIOUS
  <2>2. m \in 1..Len(a) /\ m # i /\ b[j] = a[m]
    BY <2>1, <1>3
  <2> QED BY <2>1, <2>2
<1>5. \A j \in 1..Len(b) : b[j] \in S \ {a[i]} /\ b[j] \in On(s)
  <2> SUFFICES ASSUME NEW j \in 1..Len(b) PROVE b[j] \in S \ {a[i]} /\ b[j] \in On(s)
    OBVIOUS
  <2>1. PICK m \in 1..Len(a) : m # i /\ b[j] = a[m]
    BY <1>3, <1>4
  <2>2. a[m] # a[i]
    BY <2>1, <1>0 DEF Once
  <2> QED BY <2>1, <2>2 DEF Lists
<1>6. \A x \in On(s) : x \in S \ {a[i]} => x \in On(b)
  <2> SUFFICES ASSUME NEW x \in On(s), x \in S, x # a[i] PROVE x \in On(b)
    OBVIOUS
  <2>1. PICK m \in 1..Len(a) : a[m] = x
    BY DEF Lists, On
  <2>2. m # i
    BY <2>1
  <2>3. CASE m < i
    <3>1. m \in 1..Len(b) /\ b[m] = x
      BY <2>1, <2>3, <1>3
    <3> QED BY <3>1 DEF On
  <2>4. CASE m > i
    <3>1. PICK l : l = m - 1 OBVIOUS
    <3>2. l \in 1..n /\ ~(l < i) /\ l + 1 = m
      BY <3>1, <2>4, <1>3
    <3>3. l \in 1..Len(b) /\ b[l] = x
      BY <3>2, <2>1, <1>3
    <3> QED BY <3>3 DEF On
  <2> QED BY <2>2, <2>3, <2>4, <1>3
<1>7. \A j, k \in 1..Len(b) : j < k => Before(s, b[j], b[k])
  <2> SUFFICES ASSUME NEW j \in 1..Len(b), NEW k \in 1..Len(b), j < k
               PROVE  Before(s, b[j], b[k])
    OBVIOUS
  <2>1. PICK m \in 1..Len(a) : b[j] = a[m] /\ m = IF j < i THEN j ELSE j + 1
    BY <1>3, <1>4
  <2>2. PICK l \in 1..Len(a) : b[k] = a[l] /\ l = IF k < i THEN k ELSE k + 1
    BY <1>3, <1>4
  <2>3. m < l
    BY <2>1, <2>2, <1>3
  <2> QED BY <2>1, <2>2, <2>3 DEF Lists
<1>8. Lists(b, s, S \ {a[i]})
  BY <1>3, <1>5, <1>6, <1>7 DEF Lists
<1> QED BY <1>1, <1>8

----------------------------------------------------------------------------
(* The shape of the queue                                                  *)

Infos == {"TSO_QUEUE", "IND", "MSG_NULL"}
Cells == [info : Infos \cup {"free"}, link : 0..MaxEntries, tso : Threads \cup {NoThread}]

\* The entries on s, and no others, are in use, and they are the queue of the MVar;
\* its last one is no IND, so that it can be reached through the tail.
Heap(h, hd, tl, s) ==
    /\ h \in [Entries -> Cells]
    /\ IsPath(h, s)
    /\ hd = First(s) /\ tl = Last(s)
    /\ \A q \in Entries : q \notin On(s) => h[q] = NoEntry
    /\ \A q \in On(s) : h[q].info \in Infos
    /\ s # <<>> => h[tl].info # "IND"

\* Live entries and the threads whose operations have not been done point to each
\* other.
Linked(h, lk, s) ==
    /\ lk \in [Threads -> 0..MaxEntries]
    /\ \A q \in On(s) : h[q].info = "TSO_QUEUE" => h[q].tso \in Threads /\ lk[h[q].tso] = q
    /\ \A t \in Threads : lk[t] # END => /\ lk[t] \in On(s)
                                         /\ h[lk[t]].info = "TSO_QUEUE"
                                         /\ h[lk[t]].tso = t

Alive(h) == Kept(h, Overwritten)

\* END is no entry.
LEMMA EntriesAre == END \notin Entries /\ Entries \subseteq Nat /\ Entries \subseteq 0..MaxEntries
                    /\ END \in 0..MaxEntries
BY MVarAssumption DEF END, Entries

\* What is found in a queue of that shape
LEMMA HeapFinds ==
    ASSUME NEW h, NEW hd, NEW tl, NEW s, Heap(h, hd, tl, s)
    PROVE  /\ s \in Seq(Entries) /\ Once(s) /\ Closed(h, s) /\ Chain(h, hd) = s
           /\ \A skipped : Lists(Find(h, hd, skipped), s, Kept(h, skipped))
<1>1. Closed(h, s)
  BY DEF Heap, Closed, NoEntry
<1>2. s \in Seq(Entries) /\ Once(s)
  BY DEF Heap, IsPath
<1>3. IsPath(h, s) /\ hd = First(s)
  BY DEF Heap
<1> QED BY <1>1, <1>2, <1>3, FindAll

\* The entries that can be reached from the k-th one
LEMMA ReachableFrom ==
    ASSUME NEW h, NEW s, IsPath(h, s), Closed(h, s), NEW k \in 1..(Len(s) + 1)
    PROVE  Reachable(h, At(s, k)) = On(From(s, k))
<1>1. PICK a : a = Find(h, At(s, k), {}) OBVIOUS
<1>2. PICK t : t = From(s, k) OBVIOUS
<1>3. Lists(a, t, Kept(h, {}))
  BY <1>1, <1>2, FindFrom
<1>4. Reachable(h, At(s, k)) = On(a)
  <2>1. a \in Seq(Entries)
    BY <1>3 DEF Lists
  <2>2. DOMAIN a = 1..Len(a)
    BY <2>1
  <2> QED BY <2>2, <1>1 DEF Reachable, Chain, On
<1>5. t \in Seq(Entries)
  BY <1>2, FromSequence DEF IsPath
<1>6. On(t) \subseteq Entries
  BY <1>5 DEF On
<1>7. On(a) = On(t)
  BY <1>3, <1>6 DEF Lists, Kept, On
<1> QED BY <1>2, <1>4, <1>7

\* SetQueue to what follows from the k-th entry on
LEMMA SetQueueFrom ==
    ASSUME NEW h \in [Entries -> Cells], NEW s, IsPath(h, s), Closed(h, s),
           NEW k \in 1..(Len(s) + 1), NEW tl,
           tl = IF k = Len(s) + 1 THEN END ELSE Last(s),
           SetQueue(h, At(s, k), tl)
    PROVE  /\ head' = First(From(s, k)) /\ tail' = Last(From(s, k))
           /\ entry' = [q \in Entries |-> IF q \in On(From(s, k)) THEN h[q] ELSE NoEntry]
           /\ entry' \in [Entries -> Cells]
           /\ IsPath(entry', From(s, k))
           /\ On(From(s, k)) \subseteq On(s)
<1>0. s \in Seq(Entries) /\ Once(s) /\ Len(s) \in Nat
  BY DEF IsPath
<1>1. PICK t : t = From(s, k) OBVIOUS
<1>2. PICK m : m = k - 1 OBVIOUS
<1>3. m \in 0..Len(s) /\ m + 1 = k
  BY <1>0, <1>2
<1>4. /\ t \in Seq(Entries) /\ Len(t) = Len(s) - m
      /\ \A i \in 1..(Len(s) - m) : t[i] = s[i + m]
  BY <1>0, <1>1, <1>2, FromSequence
<1>5. /\ \A x : x \in On(t) <=> \E i \in k..Len(s) : s[i] = x
      /\ \A x \in On(t) : x \in On(s)
      /\ Once(t)
  BY <1>0, <1>1, <1>3, FromOrder
<1>6. First(t) = At(s, k)
  <2>1. CASE k = Len(s) + 1
    BY <2>1, <1>0, <1>2, <1>4 DEF First, At
  <2>2. CASE k # Len(s) + 1
    <3>1. k \in 1..Len(s) /\ 1 \in 1..(Len(s) - m) /\ 1 + m = k
      BY <2>2, <1>0, <1>2
    <3> QED BY <3>1, <1>4 DEF First, At
  <2> QED BY <2>1, <2>2
<1>7. tl = Last(t)
  <2>1. CASE k = Len(s) + 1
    <3>1. t = <<>>
      BY <2>1, <1>0, <1>2, <1>4
    <3> QED BY <2>1, <3>1 DEF Last
  <2>2. CASE k # Len(s) + 1
    <3>1. /\ Len(t) \in 1..(Len(s) - m) /\ Len(t) + m = Len(s) /\ t # <<>>
      BY <2>2, <1>0, <1>2, <1>4
    <3>2. t[Len(t)] = s[Len(s)] /\ s # <<>>
      <4>1. t[Len(t)] = s[Len(t) + m]
        BY <3>1, <1>4
      <4>2. Len(s) # 0
        BY <3>1, <1>0, <1>3
      <4> QED BY <4>1, <4>2, <3>1
    <3> QED BY <2>2, <3>1, <3>2 DEF Last
  <2> QED BY <2>1, <2>2
<1>8. Reachable(h, At(s, k)) \cup Reachable(h, tl) = On(t)
  <2>1. Reachable(h, At(s, k)) = On(t)
    BY <1>1, ReachableFrom
  <2>2. CASE k = Len(s) + 1
    <3>1. tl = At(s, k)
      BY <2>2, <1>0 DEF At
    <3> QED BY <2>1, <3>1
  <2>3. CASE k # Len(s) + 1
    <3>1. Len(s) \in 1..(Len(s) + 1) /\ Len(s) \in k..Len(s) /\ s # <<>>
      BY <2>3, <1>0
    <3>2. tl = At(s, Len(s))
      BY <2>3, <3>1 DEF At, Last
    <3>3. Reachable(h, tl) = On(From(s, Len(s)))
      BY <3>1, <3>2, ReachableFrom
    <3>4. PICK j : j = Len(s) - 1 OBVIOUS
    <3>5. j \in 0..Len(s) /\ j + 1 = Len(s)
      BY <3>1, <3>4, <1>0
    <3>6. \A x : x \in On(From(s, Len(s))) <=> \E i \in Len(s)..Len(s) : s[i] = x
      <4>1. \A x : x \in On(From(s, j + 1)) <=> \E i \in (j + 1)..Len(s) : s[i] = x
        BY <3>5, <1>0, FromOrder
      <4> QED BY <4>1, <3>5
    <3>7. On(From(s, Len(s))) \subseteq On(t)
      BY <3>1, <3>6, <1>5
    <3> QED BY <2>1, <3>3, <3>7
  <2> QED BY <2>2, <2>3
<1>9. /\ head' = First(t) /\ tail' = Last(t)
      /\ entry' = [q \in Entries |-> IF q \in On(t) THEN h[q] ELSE NoEntry]
  BY <1>6, <1>7, <1>8 DEF SetQueue
<1>10. NoEntry \in Cells
  BY EntriesAre DEF NoEntry, Cells
<1>11. entry' \in [Entries -> Cells]
  BY <1>9, <1>10
<1>12. \A i \in 1..Len(t) : entry'[t[i]].link = At(t, i + 1)
  <2> SUFFICES ASSUME NEW i \in 1..Len(t) PROVE entry'[t[i]].link = At(t, i + 1)
    OBVIOUS
  <2>1. t[i] \in On(t) /\ t[i] \in Entries
    BY <1>4 DEF On
  <2>2. entry'[t[i]] = h[t[i]]
    BY <2>1, <1>9
  <2>3. PICK j : j = i + m OBVIOUS
  <2>4. j \in 1..Len(s) /\ t[i] = s[j]
    BY <2>3, <1>0, <1>3, <1>4
  <2>5. h[t[i]].link = At(s, j + 1)
    BY <2>4 DEF IsPath
  <2>6. CASE i = Len(t)
    <3>1. ~(i + 1 <= Len(t)) /\ ~(j + 1 <= Len(s))
      BY <2>3, <2>6, <1>0, <1>3, <1>4
    <3> QED BY <3>1, <2>2, <2>5 DEF At
  <2>7. CASE i # Len(t)
    <3>1. i + 1 <= Len(t) /\ i + 1 \in 1..(Len(s) - m) /\ (i + 1) + m = j + 1 /\ j + 1 <= Len(s)
      BY <2>3, <2>7, <1>0, <1>3, <1>4
    <3>2. t[i + 1] = s[j + 1]
      BY <3>1, <1>4
    <3> QED BY <3>1, <3>2, <2>2, <2>5 DEF At
  <2> QED BY <2>6, <2>7
<1>13. IsPath(entry', t)
  BY <1>4, <1>5, <1>12 DEF IsPath
<1> QED BY <1>1, <1>5, <1>9, <1>11, <1>13

\* From the first entry on it is the whole queue.
LEMMA FromFirst ==
    ASSUME NEW s \in Seq(Entries)
    PROVE  From(s, 1) = s
<1>1. 1 \in 1..(Len(s) + 1) OBVIOUS
<1>2. /\ From(s, 1) \in Seq(Entries) /\ Len(From(s, 1)) = Len(s)
      /\ \A i \in 1..Len(s) : From(s, 1)[i] = s[i]
  BY <1>1, FromSequence
<1> QED BY <1>2, SequenceExtension

\* SetQueue to the whole of a queue
LEMMA SetQueueAll ==
    ASSUME NEW h \in [Entries -> Cells], NEW s, IsPath(h, s), Closed(h, s),
           SetQueue(h, First(s), Last(s))
    PROVE  /\ head' = First(s) /\ tail' = Last(s)
           /\ entry' = [q \in Entries |-> IF q \in On(s) THEN h[q] ELSE NoEntry]
           /\ entry' \in [Entries -> Cells]
           /\ IsPath(entry', s)
<1>1. s \in Seq(Entries) /\ 1 \in 1..(Len(s) + 1)
  BY DEF IsPath
<1>2. Last(s) = IF 1 = Len(s) + 1 THEN END ELSE Last(s)
  BY <1>1 DEF Last
<1>3. First(s) = At(s, 1) /\ From(s, 1) = s
  BY <1>1, FromFirst DEF First
<1>4. SetQueue(h, At(s, 1), Last(s))
  BY <1>3
<1>5. /\ head' = First(From(s, 1)) /\ tail' = Last(From(s, 1))
      /\ entry' = [q \in Entries |-> IF q \in On(From(s, 1)) THEN h[q] ELSE NoEntry]
      /\ entry' \in [Entries -> Cells]
      /\ IsPath(entry', From(s, 1))
  BY <1>1, <1>2, <1>4, SetQueueFrom
<1> QED BY <1>3, <1>5

\* Where a new entry comes from
LEMMA FreshEntry ==
    ASSUME Unused # {}
    PROVE  Fresh \in Unused
<1>1. Unused \subseteq Nat
  BY EntriesAre DEF Unused
<1>2. \E q \in Unused : \A p \in Unused : q <= p
  BY <1>1, LeastOfNaturals
<1> QED BY <1>2 DEF Fresh

----------------------------------------------------------------------------
(* A thread queues up                                                      *)

\* A queue that ends in a new entry
LEMMA PathSnoc ==
    ASSUME NEW h, NEW s, IsPath(h, s), NEW g, NEW x \in Entries, x \notin On(s),
           \A q \in On(s) : q # Last(s) => g[q].link = h[q].link,
           s # <<>> => g[Last(s)].link = x, g[x].link = END
    PROVE  /\ IsPath(g, Append(s, x))
           /\ First(Append(s, x)) = (IF s = <<>> THEN x ELSE First(s))
           /\ Last(Append(s, x)) = x
<1>0. s \in Seq(Entries) /\ Once(s) /\ Len(s) \in Nat
  BY DEF IsPath
<1>1. PICK t : t = Append(s, x) OBVIOUS
<1>2. /\ t \in Seq(Entries) /\ Len(t) = Len(s) + 1 /\ t[Len(s) + 1] = x
      /\ \A i \in 1..Len(s) : t[i] = s[i]
  BY <1>0, <1>1, SnocSequence
<1>3. Once(t)
  BY <1>0, <1>1, OnceMore
<1>4. \A i \in 1..Len(t) : g[t[i]].link = At(t, i + 1)
  <2> SUFFICES ASSUME NEW i \in 1..Len(t) PROVE g[t[i]].link = At(t, i + 1)
    OBVIOUS
  <2>1. CASE i = Len(s) + 1
    BY <2>1, <1>0, <1>2 DEF At
  <2>2. CASE i = Len(s)
    <3>1. i \in 1..Len(s) /\ s # <<>> /\ t[i] = Last(s) /\ i + 1 <= Len(t)
      BY <2>2, <1>0, <1>2 DEF Last
    <3> QED BY <3>1, <2>2, <1>2 DEF At
  <2>3. CASE i < Len(s)
    <3>1. i \in 1..Len(s) /\ i + 1 \in 1..Len(s) /\ i + 1 <= Len(t) /\ s # <<>>
          /\ Len(s) \in 1..Len(s)
      BY <2>3, <1>0, <1>2
    <3>2. s[i] \in On(s) /\ s[i] # Last(s)
      BY <3>1, <2>3, <1>0 DEF On, Once, Last
    <3>3. h[s[i]].link = s[i + 1]
      BY <3>1 DEF IsPath, At
    <3> QED BY <3>1, <3>2, <3>3, <1>2 DEF At
  <2> QED BY <2>1, <2>2, <2>3, <1>0, <1>2
<1>5. IsPath(g, t)
  BY <1>2, <1>3, <1>4 DEF IsPath
<1>6. Last(t) = x
  <2>1. t # <<>> BY <1>0, <1>2
  <2> QED BY <2>1, <1>2 DEF Last
<1>7. First(t) = IF s = <<>> THEN x ELSE First(s)
  <2>1. CASE s = <<>>
    <3>1. Len(s) = 0 BY <2>1
    <3> QED BY <2>1, <3>1, <1>2 DEF First, At
  <2>2. CASE s # <<>>
    <3>1. 1 \in 1..Len(s) BY <2>2, <1>0
    <3>2. 1 <= Len(t) /\ 1 <= Len(s) BY <3>1, <1>0, <1>2
    <3> QED BY <2>2, <3>1, <3>2, <1>2 DEF First, At
  <2> QED BY <2>1, <2>2
<1> QED BY <1>1, <1>5, <1>6, <1>7

\* A queue that begins with a new entry
LEMMA PathCons ==
    ASSUME NEW h, NEW s, IsPath(h, s), NEW g, NEW x \in Entries, x \notin On(s),
           \A q \in On(s) : g[q].link = h[q].link, g[x].link = First(s)
    PROVE  /\ IsPath(g, <<x>> \o s)
           /\ First(<<x>> \o s) = x
           /\ Last(<<x>> \o s) = (IF s = <<>> THEN x ELSE Last(s))
<1>0. s \in Seq(Entries) /\ Once(s) /\ Len(s) \in Nat
  BY DEF IsPath
<1>1. PICK t : t = <<x>> \o s OBVIOUS
<1>2. /\ t \in Seq(Entries) /\ Len(t) = Len(s) + 1 /\ t[1] = x
      /\ \A i \in 1..Len(s) : t[i + 1] = s[i]
  BY <1>0, <1>1, ConsSequence
<1>3. Once(t)
  BY <1>0, <1>1, OnceMore
<1>4. \A i \in 1..(Len(s) + 1) : At(t, i + 1) = At(s, i)
  <2> SUFFICES ASSUME NEW i \in 1..(Len(s) + 1) PROVE At(t, i + 1) = At(s, i)
    OBVIOUS
  <2>1. CASE i = Len(s) + 1
    BY <2>1, <1>0, <1>2 DEF At
  <2>2. CASE i # Len(s) + 1
    <3>1. i \in 1..Len(s) /\ i + 1 <= Len(t)
      BY <2>2, <1>0, <1>2
    <3> QED BY <3>1, <1>2 DEF At
  <2> QED BY <2>1, <2>2
<1>5. \A i \in 1..Len(t) : g[t[i]].link = At(t, i + 1)
  <2> SUFFICES ASSUME NEW i \in 1..Len(t) PROVE g[t[i]].link = At(t, i + 1)
    OBVIOUS
  <2>1. CASE i = 1
    <3>1. At(t, i + 1) = At(s, 1)
      BY <2>1, <1>0, <1>4
    <3> QED BY <3>1, <2>1, <1>2 DEF First
  <2>2. CASE i # 1
    <3>1. PICK j : j = i - 1 OBVIOUS
    <3>2. j \in 1..Len(s) /\ j + 1 = i /\ i \in 1..(Len(s) + 1)
      BY <3>1, <2>2, <1>0, <1>2
    <3>3. t[i] = s[j] /\ At(t, i + 1) = At(s, i)
      BY <3>2, <1>2, <1>4
    <3>4. h[s[j]].link = At(s, j + 1) /\ s[j] \in On(s)
      BY <3>2 DEF IsPath, On
    <3> QED BY <3>2, <3>3, <3>4
  <2> QED BY <2>1, <2>2
<1>6. IsPath(g, t)
  BY <1>2, <1>3, <1>5 DEF IsPath
<1>7. First(t) = x
  BY <1>0, <1>2 DEF First, At
<1>8. Last(t) = IF s = <<>> THEN x ELSE Last(s)
  <2>1. t # <<>> BY <1>0, <1>2
  <2>2. CASE s = <<>>
    <3>1. Len(s) = 0 BY <2>2
    <3> QED BY <2>1, <2>2, <3>1, <1>2 DEF Last
  <2>3. CASE s # <<>>
    <3>1. Len(s) \in 1..Len(s) BY <2>3, <1>0
    <3> QED BY <2>1, <2>3, <3>1, <1>2 DEF Last
  <2> QED BY <2>2, <2>3
<1> QED BY <1>1, <1>6, <1>7, <1>8

\* An entry x for thread t has been added to the queue s, which is now s2.
Joined(t, x, s, s2) ==
    /\ x \in Entries /\ x \notin On(s)
    /\ On(s2) = On(s) \cup {x}
    /\ Heap(entry', head', tail', s2)
    /\ entry'[x].info = "TSO_QUEUE" /\ entry'[x].tso = t
    /\ \A q \in On(s) : entry'[q].info = entry[q].info /\ entry'[q].tso = entry[q].tso

\* takeMVar and putMVar, whether somebody is in the queue or not
LEMMA TailJoins ==
    ASSUME NEW s, Heap(entry, head, tail, s), NEW c, NEW t \in Threads, BlockAtTail(c, t)
    PROVE  /\ Joined(t, Fresh, s, Append(s, Fresh))
           /\ Find(entry', head', Overwritten) = Append(Live, Fresh)
<1> DEFINE q0 == [info |-> "TSO_QUEUE", link |-> END, tso |-> t]
<1>1. PICK x : x = Fresh OBVIOUS
<1>2. x \in Entries /\ entry[x] = NoEntry
  BY <1>1, FreshEntry DEF BlockAtTail, Unused
<1>3. s \in Seq(Entries) /\ Once(s) /\ IsPath(entry, s) /\ entry \in [Entries -> Cells]
      /\ head = First(s) /\ tail = Last(s)
  BY DEF Heap, IsPath
<1>4. x \notin On(s)
  BY <1>2 DEF Heap, NoEntry, Infos
<1>5. s = <<>> <=> head = END
  BY <1>3, EntriesAre DEF First, At
<1>6. s # <<>> => tail \in On(s) /\ tail \in Entries
  <2> SUFFICES ASSUME s # <<>> PROVE tail \in On(s) /\ tail \in Entries
    OBVIOUS
  <2>1. Len(s) \in 1..Len(s) BY <1>3
  <2> QED BY <2>1, <1>3 DEF On, Last
<1>7. PICK h : h = IF head = END THEN [entry EXCEPT ![x] = q0]
                   ELSE [entry EXCEPT ![x] = q0, ![tail].link = x]
  OBVIOUS
<1>8. SetQueue(h, IF head = END THEN x ELSE head, x)
  BY <1>1, <1>7 DEF BlockAtTail
<1>9. q0 \in Cells
  BY EntriesAre DEF Cells, Infos
<1>10. /\ h \in [Entries -> Cells]
       /\ h[x] = q0
       /\ \A q \in Entries : q # x /\ q # tail => h[q] = entry[q]
       /\ s # <<>> => h[tail] = [entry[tail] EXCEPT !.link = x]
  <2>1. CASE s = <<>>
    <3>1. h = [entry EXCEPT ![x] = q0]
      BY <2>1, <1>5, <1>7
    <3> HIDE DEF q0
    <3> QED BY <3>1, <2>1, <1>2, <1>3, <1>9
  <2>2. CASE s # <<>>
    <3>1. h = [entry EXCEPT ![x] = q0, ![tail].link = x] /\ tail # x
      BY <2>2, <1>4, <1>5, <1>6, <1>7
    <3>2. [entry[tail] EXCEPT !.link = x] \in Cells
      BY <2>2, <1>2, <1>3, <1>6, EntriesAre DEF Cells
    <3> HIDE DEF q0
    <3> QED BY <3>1, <3>2, <2>2, <1>2, <1>3, <1>6, <1>9
  <2> QED BY <2>1, <2>2
<1>11. \A q \in On(s) : /\ q \in Entries /\ q # x
                        /\ h[q].info = entry[q].info /\ h[q].tso = entry[q].tso
                        /\ q # tail => h[q].link = entry[q].link
  <2> SUFFICES ASSUME NEW q \in On(s)
               PROVE  /\ q \in Entries /\ q # x
                      /\ h[q].info = entry[q].info /\ h[q].tso = entry[q].tso
                      /\ q # tail => h[q].link = entry[q].link
    OBVIOUS
  <2>1. q \in Entries /\ q # x /\ s # <<>>
    BY <1>3, <1>4 DEF On
  <2>2. CASE q = tail
    <3>1. entry[tail] \in Cells
      BY <2>1, <2>2, <1>3
    <3> QED BY <2>1, <2>2, <3>1, <1>10 DEF Cells
  <2>3. CASE q # tail
    BY <2>1, <2>3, <1>10
  <2> QED BY <2>2, <2>3
<1>12. PICK t2 : t2 = Append(s, x) OBVIOUS
<1>13. /\ IsPath(h, t2)
       /\ First(t2) = (IF s = <<>> THEN x ELSE First(s))
       /\ Last(t2) = x
  <2>1. s # <<>> => h[Last(s)].link = x
    <3> SUFFICES ASSUME s # <<>> PROVE h[tail].link = x
      BY <1>3
    <3>1. entry[tail] \in Cells
      BY <1>3, <1>6
    <3> QED BY <3>1, <1>10 DEF Cells
  <2>2. h[x].link = END
    BY <1>10
  <2> QED BY <2>1, <2>2, <1>2, <1>3, <1>4, <1>11, <1>12, PathSnoc
<1>14. On(t2) = On(s) \cup {x}
  BY <1>2, <1>3, <1>12, SnocOn
<1>15. Closed(h, t2)
  <2> SUFFICES ASSUME NEW q \in Entries, q \notin On(t2) PROVE h[q].link = END
    BY DEF Closed
  <2>1. q # x /\ q \notin On(s)
    BY <1>14
  <2>2. entry[q] = NoEntry
    BY <2>1 DEF Heap
  <2>3. h[q] = entry[q]
    <3>1. CASE s = <<>>
      <4>1. tail = END
        BY <3>1, <1>3 DEF Last
      <4>2. q # tail
        BY <4>1, EntriesAre
      <4> QED BY <4>2, <2>1, <1>10
    <3>2. CASE s # <<>>
      BY <3>2, <2>1, <1>6, <1>10
    <3> QED BY <3>1, <3>2
  <2> QED BY <2>2, <2>3 DEF NoEntry
<1>16. SetQueue(h, First(t2), Last(t2))
  BY <1>3, <1>5, <1>8, <1>13
<1>17. /\ head' = First(t2) /\ tail' = Last(t2)
       /\ entry' = [q \in Entries |-> IF q \in On(t2) THEN h[q] ELSE NoEntry]
       /\ entry' \in [Entries -> Cells]
       /\ IsPath(entry', t2)
  BY <1>10, <1>13, <1>15, <1>16, SetQueueAll
<1>18. entry'[x] = q0
  BY <1>2, <1>10, <1>14, <1>17
<1>19. \A q \in On(s) : entry'[q].info = entry[q].info /\ entry'[q].tso = entry[q].tso
  <2> SUFFICES ASSUME NEW q \in On(s)
               PROVE  entry'[q].info = entry[q].info /\ entry'[q].tso = entry[q].tso
    OBVIOUS
  <2>1. q \in Entries /\ q \in On(t2)
    BY <1>11, <1>14
  <2>2. entry'[q] = h[q]
    BY <2>1, <1>17
  <2> QED BY <2>2, <1>11
<1>20. Heap(entry', head', tail', t2)
  <2>1. \A q \in Entries : q \notin On(t2) => entry'[q] = NoEntry
    BY <1>17
  <2>2. \A q \in On(t2) : entry'[q].info \in Infos
    BY <1>14, <1>18, <1>19 DEF Heap, Infos
  <2>3. entry'[tail'].info # "IND"
    BY <1>13, <1>17, <1>18
  <2> QED BY <2>1, <2>2, <2>3, <1>17 DEF Heap
<1>21. Joined(t, x, s, t2)
  BY <1>2, <1>4, <1>14, <1>18, <1>19, <1>20 DEF Joined
<1>22. Find(entry', head', Overwritten) = Append(Live, x)
  <2>1. Lists(Live, s, Alive(entry))
    BY HeapFinds DEF Live, Alive
  <2>2. \A q \in On(s) : q \in Alive(entry) <=> q \in Alive(entry')
    BY <1>11, <1>19 DEF Alive, Kept
  <2>3. Lists(Live, s, Alive(entry'))
    BY <2>1, <2>2, ListsSame
  <2>4. x \in Alive(entry')
    BY <1>2, <1>18 DEF Alive, Kept, Overwritten
  <2>5. Lists(Append(Live, x), t2, Alive(entry'))
    BY <2>3, <2>4, <1>2, <1>3, <1>12, ListsSnoc
  <2>6. /\ Lists(Find(entry', head', Overwritten), t2, Alive(entry'))
        /\ t2 \in Seq(Entries) /\ Once(t2)
    BY <1>20, HeapFinds DEF Alive
  <2> QED BY <2>5, <2>6, ListsUnique
<1> QED BY <1>1, <1>12, <1>21, <1>22

\* readMVar
LEMMA HeadJoins ==
    ASSUME NEW s, Heap(entry, head, tail, s), NEW c, NEW t \in Threads, BlockAtHead(c, t)
    PROVE  /\ Joined(t, Fresh, s, <<Fresh>> \o s)
           /\ Find(entry', head', Overwritten) = <<Fresh>> \o Live
<1> DEFINE q0 == [info |-> "TSO_QUEUE", link |-> head, tso |-> t]
<1>1. PICK x : x = Fresh OBVIOUS
<1>2. x \in Entries /\ entry[x] = NoEntry
  BY <1>1, FreshEntry DEF BlockAtHead, Unused
<1>3. s \in Seq(Entries) /\ Once(s) /\ IsPath(entry, s) /\ entry \in [Entries -> Cells]
      /\ head = First(s) /\ tail = Last(s)
  BY DEF Heap, IsPath
<1>4. x \notin On(s)
  BY <1>2 DEF Heap, NoEntry, Infos
<1>5. head \in 0..MaxEntries /\ (s = <<>> <=> tail = END)
  <2>1. CASE s = <<>>
    BY <2>1, <1>3, EntriesAre DEF First, At, Last
  <2>2. CASE s # <<>>
    <3>1. 1 \in 1..Len(s) /\ Len(s) \in 1..Len(s) BY <2>2, <1>3
    <3>2. head \in Entries /\ tail \in Entries
      BY <2>2, <3>1, <1>3 DEF First, At, Last
    <3> QED BY <2>2, <3>2, EntriesAre
  <2> QED BY <2>1, <2>2
<1>6. s # <<>> => tail \in On(s)
  <2> SUFFICES ASSUME s # <<>> PROVE tail \in On(s)
    OBVIOUS
  <2>1. Len(s) \in 1..Len(s) BY <1>3
  <2> QED BY <2>1, <1>3 DEF On, Last
<1>7. PICK h : h = [entry EXCEPT ![x] = q0]
  OBVIOUS
<1>8. SetQueue(h, x, IF tail = END THEN x ELSE tail)
  BY <1>1, <1>7 DEF BlockAtHead
<1>9. q0 \in Cells
  BY <1>5 DEF Cells, Infos
<1>10. /\ h \in [Entries -> Cells]
       /\ h[x] = q0
       /\ \A q \in Entries : q # x => h[q] = entry[q]
  <2> HIDE DEF q0
  <2> QED BY <1>2, <1>3, <1>7, <1>9
<1>11. \A q \in On(s) : q \in Entries /\ q # x /\ h[q] = entry[q]
  BY <1>3, <1>4, <1>10 DEF On
<1>12. PICK t2 : t2 = <<x>> \o s OBVIOUS
<1>13. /\ IsPath(h, t2)
       /\ First(t2) = x
       /\ Last(t2) = (IF s = <<>> THEN x ELSE Last(s))
  BY <1>2, <1>3, <1>4, <1>10, <1>11, <1>12, PathCons
<1>14. On(t2) = On(s) \cup {x}
  BY <1>2, <1>3, <1>12, ConsOn
<1>15. Closed(h, t2)
  BY <1>10, <1>14 DEF Closed, Heap, NoEntry
<1>16. SetQueue(h, First(t2), Last(t2))
  BY <1>3, <1>5, <1>8, <1>13
<1>17. /\ head' = First(t2) /\ tail' = Last(t2)
       /\ entry' = [q \in Entries |-> IF q \in On(t2) THEN h[q] ELSE NoEntry]
       /\ entry' \in [Entries -> Cells]
       /\ IsPath(entry', t2)
  BY <1>10, <1>13, <1>15, <1>16, SetQueueAll
<1>18. entry'[x] = q0
  BY <1>2, <1>10, <1>14, <1>17
<1>19. \A q \in On(s) : entry'[q] = entry[q]
  BY <1>11, <1>14, <1>17
<1>20. Heap(entry', head', tail', t2)
  <2>1. \A q \in Entries : q \notin On(t2) => entry'[q] = NoEntry
    BY <1>17
  <2>2. \A q \in On(t2) : entry'[q].info \in Infos
    BY <1>14, <1>18, <1>19 DEF Heap, Infos
  <2>3. entry'[tail'].info # "IND"
    <3>1. CASE s = <<>>
      BY <3>1, <1>13, <1>17, <1>18
    <3>2. CASE s # <<>>
      BY <3>2, <1>3, <1>6, <1>13, <1>17, <1>19 DEF Heap
    <3> QED BY <3>1, <3>2
  <2> QED BY <2>1, <2>2, <2>3, <1>17 DEF Heap
<1>21. Joined(t, x, s, t2)
  BY <1>2, <1>4, <1>14, <1>18, <1>19, <1>20 DEF Joined
<1>22. Find(entry', head', Overwritten) = <<x>> \o Live
  <2>1. Lists(Live, s, Alive(entry))
    BY HeapFinds DEF Live, Alive
  <2>2. \A q \in On(s) : q \in Alive(entry) <=> q \in Alive(entry')
    BY <1>11, <1>19 DEF Alive, Kept
  <2>3. Lists(Live, s, Alive(entry'))
    BY <2>1, <2>2, ListsSame
  <2>4. x \in Alive(entry')
    BY <1>2, <1>18 DEF Alive, Kept, Overwritten
  <2>5. Lists(<<x>> \o Live, t2, Alive(entry'))
    BY <2>3, <2>4, <1>2, <1>3, <1>12, ListsCons
  <2>6. /\ Lists(Find(entry', head', Overwritten), t2, Alive(entry'))
        /\ t2 \in Seq(Entries) /\ Once(t2)
    BY <1>20, HeapFinds DEF Alive
  <2> QED BY <2>5, <2>6, ListsUnique
<1> QED BY <1>1, <1>12, <1>21, <1>22

----------------------------------------------------------------------------
(* An operation leaves the queue                                           *)

\* The entry x has left the queue s, or is dead; the queue is now s2, and none but
\* dead entries have left with it.
Left(x, s, s2) ==
    /\ On(s2) \subseteq On(s)
    /\ Heap(entry', head', tail', s2)
    /\ x \in On(s2) => entry'[x].info # "TSO_QUEUE"
    /\ \A q \in On(s) : q # x /\ entry[q].info = "TSO_QUEUE" => q \in On(s2)
    /\ \A q \in On(s2) : q # x => entry'[q].info = entry[q].info /\ entry'[q].tso = entry[q].tso

\* Live entries of the queue
LEMMA LiveEntries ==
    ASSUME NEW s, Heap(entry, head, tail, s)
    PROVE  /\ Lists(Live, s, Alive(entry)) /\ Once(Live) /\ Live \in Seq(Entries)
           /\ \A i \in 1..Len(Live) : Live[i] \in On(s) /\ entry[Live[i]].info = "TSO_QUEUE"
           /\ \A q \in On(s) : entry[q].info = "TSO_QUEUE" => q \in On(Live)
<1>1. Lists(Live, s, Alive(entry)) /\ s \in Seq(Entries) /\ Once(s)
  BY HeapFinds DEF Live, Alive
<1>2. Once(Live) /\ Live \in Seq(Entries)
  BY <1>1, ListsOnce DEF Lists
<1>3. ASSUME NEW i \in 1..Len(Live) PROVE Live[i] \in On(s) /\ entry[Live[i]].info = "TSO_QUEUE"
  <2>1. Live[i] \in On(s) /\ Live[i] \in Alive(entry)
    BY <1>1 DEF Lists
  <2>2. entry[Live[i]].info \in Infos
    BY <2>1 DEF Heap
  <2> QED BY <2>1, <2>2 DEF Infos, Alive, Kept, Overwritten
<1>4. ASSUME NEW q \in On(s), entry[q].info = "TSO_QUEUE" PROVE q \in On(Live)
  <2>1. q \in Alive(entry)
    BY <1>1, <1>4 DEF On, Alive, Kept, Overwritten
  <2> QED BY <2>1, <1>1 DEF Lists
<1> QED BY <1>1, <1>2, <1>3, <1>4

\* takeMVar and putMVar perform the first blocked operation.
LEMMA FirstLeaves ==
    ASSUME NEW s, Heap(entry, head, tail, s), Live # <<>>,
           NEW tl, SetQueue(entry, entry[Live[1]].link, tl),
           tl = IF entry[Live[1]].link = END THEN END ELSE tail
    PROVE  \E s2 : /\ Left(Live[1], s, s2)
                   /\ Find(entry', head', Overwritten) = Tail(Live)
<1>1. /\ Lists(Live, s, Alive(entry)) /\ Once(Live) /\ Live \in Seq(Entries)
      /\ \A i \in 1..Len(Live) : Live[i] \in On(s) /\ entry[Live[i]].info = "TSO_QUEUE"
      /\ \A q \in On(s) : entry[q].info = "TSO_QUEUE" => q \in On(Live)
  BY LiveEntries
<1>2. s \in Seq(Entries) /\ Once(s) /\ Closed(entry, s) /\ IsPath(entry, s)
      /\ entry \in [Entries -> Cells] /\ head = First(s) /\ tail = Last(s)
  BY HeapFinds DEF Heap
<1>3. 1 \in 1..Len(Live)
  BY <1>1
<1>4. PICK k \in 1..Len(s) : s[k] = Live[1]
  BY <1>1, <1>3 DEF On
<1>5. entry[Live[1]].link = At(s, k + 1)
  BY <1>2, <1>4 DEF IsPath
<1>6. PICK m : m = k + 1 OBVIOUS
<1>7. m \in 1..(Len(s) + 1) /\ k \in 0..Len(s) /\ k > 0
  BY <1>6
<1>8. tl = IF m = Len(s) + 1 THEN END ELSE Last(s)
  <2>1. CASE m = Len(s) + 1
    BY <2>1, <1>2, <1>5, <1>6 DEF At
  <2>2. CASE m # Len(s) + 1
    <3>1. m \in 1..Len(s) /\ At(s, m) = s[m] /\ s[m] # END
      BY <2>2, <1>2, <1>7, EntriesAre DEF At
    <3> QED BY <3>1, <2>2, <1>2, <1>5, <1>6
  <2> QED BY <2>1, <2>2
<1>9. PICK t : t = From(s, m) OBVIOUS
<1>10. SetQueue(entry, At(s, m), tl)
  BY <1>5, <1>6
<1>11. /\ head' = First(t) /\ tail' = Last(t)
       /\ entry' = [q \in Entries |-> IF q \in On(t) THEN entry[q] ELSE NoEntry]
       /\ entry' \in [Entries -> Cells]
       /\ IsPath(entry', t)
       /\ On(t) \subseteq On(s)
  BY <1>2, <1>7, <1>8, <1>9, <1>10, SetQueueFrom
<1>12. /\ \A x \in On(t) : Before(s, s[k], x)
       /\ \A x : Before(s, s[k], x) => x \in On(t)
  BY <1>2, <1>6, <1>7, <1>9, FromOrder
<1>13. \A q \in On(t) : entry'[q] = entry[q] /\ q # Live[1]
  <2> SUFFICES ASSUME NEW q \in On(t) PROVE entry'[q] = entry[q] /\ q # Live[1]
    OBVIOUS
  <2>1. q \in Entries
    BY <1>2, <1>11 DEF On
  <2>2. q # s[k]
    BY <1>2, <1>12, Strict
  <2> QED BY <2>1, <2>2, <1>4, <1>11
<1>14. Heap(entry', head', tail', t)
  <2>1. t \in Seq(Entries)
    BY <1>11 DEF IsPath
  <2>2. t # <<>> => tail' = tail /\ tail' \in On(t)
    <3> SUFFICES ASSUME t # <<>> PROVE tail' = tail /\ tail' \in On(t)
      OBVIOUS
    <3>1. Len(t) \in 1..Len(t) BY <2>1
    <3>2. tail' \in On(t) /\ tail' # END
      BY <3>1, <2>1, <1>11, EntriesAre DEF Last, On
    <3>3. tail' = tl
      BY DEF SetQueue
    <3> QED BY <3>2, <3>3, <1>2, <1>8
  <2>3. t # <<>> => entry'[tail'].info # "IND"
    <3> SUFFICES ASSUME t # <<>> PROVE entry'[tail'].info # "IND"
      OBVIOUS
    <3>1. s # <<>>
      BY <1>4, <1>2
    <3>2. entry[tail].info # "IND"
      BY <3>1 DEF Heap
    <3> QED BY <3>2, <2>2, <1>13
  <2>4. \A q \in On(t) : entry'[q].info \in Infos
    BY <1>11, <1>13 DEF Heap
  <2> QED BY <2>3, <2>4, <1>11 DEF Heap
<1>15. \A q \in On(s) : q # Live[1] /\ entry[q].info = "TSO_QUEUE" => q \in On(t)
  <2> SUFFICES ASSUME NEW q \in On(s), q # Live[1], entry[q].info = "TSO_QUEUE"
               PROVE  q \in On(t)
    OBVIOUS
  <2>1. PICK i \in 1..Len(Live) : Live[i] = q
    BY <1>1 DEF On
  <2>2. 1 < i
    BY <2>1, <1>1
  <2>3. Before(s, Live[1], Live[i])
    BY <2>2, <1>1, <1>3 DEF Lists
  <2> QED BY <2>1, <2>3, <1>4, <1>12
<1>16. Left(Live[1], s, t)
  BY <1>11, <1>13, <1>14, <1>15 DEF Left
<1>17. Lists(Tail(Live), t, Alive(entry))
  BY <1>1, <1>2, <1>4, <1>6, <1>9, ListsTail
<1>18. Lists(Tail(Live), t, Alive(entry'))
  <2>1. \A q \in On(t) : q \in Alive(entry) <=> q \in Alive(entry')
    BY <1>13 DEF Alive, Kept
  <2> QED BY <2>1, <1>17, ListsSame
<1>19. Find(entry', head', Overwritten) = Tail(Live)
  <2>1. /\ Lists(Find(entry', head', Overwritten), t, Alive(entry'))
        /\ t \in Seq(Entries) /\ Once(t)
    BY <1>14, HeapFinds DEF Alive
  <2> QED BY <2>1, <1>18, ListsUnique
<1> QED BY <1>16, <1>19

\* Without its first element
LEMMA WithoutFirst ==
    ASSUME NEW T, NEW a \in Seq(T), a # <<>>
    PROVE  Without(a, 1) = Tail(a)
<1>1. 1 \in 1..Len(a) OBVIOUS
<1>2. /\ Without(a, 1) \in Seq(T) /\ Len(Without(a, 1)) = Len(a) - 1
      /\ \A j \in 1..(Len(a) - 1) : Without(a, 1)[j] = IF j < 1 THEN a[j] ELSE a[j + 1]
  BY <1>1, WithoutSequence
<1>3. /\ Tail(a) \in Seq(T) /\ Len(Tail(a)) = Len(a) - 1
      /\ \A j \in 1..(Len(a) - 1) : Tail(a)[j] = a[j + 1]
  OBVIOUS
<1>4. \A j \in 1..(Len(a) - 1) : Without(a, 1)[j] = Tail(a)[j]
  BY <1>2, <1>3
<1> QED BY <1>2, <1>3, <1>4, SequenceExtension

\* removeFromMVarBlockedQueue, wherever the entry is
LEMMA RemovedLeaves ==
    ASSUME NEW s, Heap(entry, head, tail, s), NEW i \in 1..Len(Live), Remove(Live[i])
    PROVE  \E s2 : /\ Left(Live[i], s, s2)
                   /\ Find(entry', head', Overwritten) = Without(Live, i)
<1>1. /\ Lists(Live, s, Alive(entry)) /\ Once(Live) /\ Live \in Seq(Entries)
      /\ \A j \in 1..Len(Live) : Live[j] \in On(s) /\ entry[Live[j]].info = "TSO_QUEUE"
      /\ \A q \in On(s) : entry[q].info = "TSO_QUEUE" => q \in On(Live)
  BY LiveEntries
<1>2. s \in Seq(Entries) /\ Once(s) /\ Closed(entry, s) /\ IsPath(entry, s)
      /\ entry \in [Entries -> Cells] /\ head = First(s) /\ tail = Last(s)
  BY HeapFinds DEF Heap
<1>3. PICK x : x = Live[i] OBVIOUS
<1>4. x \in On(s) /\ x \in Entries /\ entry[x].info = "TSO_QUEUE"
  BY <1>1, <1>2, <1>3 DEF On
<1>5. Len(s) \in 1..Len(s) /\ 1 \in 1..Len(s) /\ s # <<>> /\ head = s[1] /\ tail = s[Len(s)]
  <2>1. PICK k \in 1..Len(s) : s[k] = x
    BY <1>4 DEF On
  <2>2. Len(s) \in 1..Len(s) /\ 1 \in 1..Len(s) /\ s # <<>>
    BY <2>1, <1>2
  <2> QED BY <2>2, <1>2 DEF First, At, Last
<1>6. CASE x = head
  <2>1. SetQueue(entry, entry[x].link, IF tail = x THEN END ELSE tail)
    BY <1>3, <1>6 DEF Remove
  <2>2. i = 1
    <3> SUFFICES ASSUME i # 1 PROVE FALSE
      OBVIOUS
    <3>1. 1 < i /\ 1 \in 1..Len(Live)
      BY <1>1
    <3>2. Before(s, Live[1], s[1])
      BY <3>1, <1>1, <1>3, <1>5, <1>6 DEF Lists
    <3>3. PICK k \in 1..Len(s), l \in 1..Len(s) : k < l /\ s[l] = s[1]
      BY <3>2 DEF Before
    <3>4. l = 1
      BY <3>3, <1>2, <1>5 DEF Once
    <3> QED BY <3>3, <3>4
  <2>3. entry[x].link = END <=> tail = x
    <3>1. entry[x].link = At(s, 1 + 1)
      BY <1>2, <1>5, <1>6 DEF IsPath
    <3>2. CASE Len(s) = 1
      BY <3>1, <3>2, <1>5, <1>6 DEF At
    <3>3. CASE Len(s) # 1
      <4>1. 2 \in 1..Len(s) /\ At(s, 1 + 1) = s[2]
        <5>0. Len(s) \in Nat
          BY <1>2
        <5>1. 2 \in 1..Len(s) /\ 1 + 1 = 2 /\ 2 <= Len(s)
          <6>1. PICK n : n = Len(s) OBVIOUS
          <6>2. n \in Nat /\ n # 1 /\ 1 \in 1..n
            BY <6>1, <5>0, <3>3, <1>5
          <6>3. 2 \in 1..n /\ 1 + 1 = 2 /\ 2 <= n
            BY <6>2
          <6> QED BY <6>1, <6>3
        <5>2. At(s, 2) = s[2]
          BY <5>1 DEF At
        <5> QED BY <5>1, <5>2
      <4>2. s[2] # END
        BY <4>1, <1>2, EntriesAre
      <4>3. tail # x
        BY <3>3, <1>2, <1>5, <1>6 DEF Once
      <4> QED BY <3>1, <4>1, <4>2, <4>3
    <3> QED BY <3>2, <3>3
  <2>4. Live # <<>> /\ Live[1] = x
    BY <2>2, <1>1, <1>3
  <2>5. PICK tl : tl = IF entry[Live[1]].link = END THEN END ELSE tail OBVIOUS
  <2>6. SetQueue(entry, entry[Live[1]].link, tl)
    BY <2>1, <2>3, <2>4, <2>5
  <2>7. \E s2 : /\ Left(Live[1], s, s2)
                /\ Find(entry', head', Overwritten) = Tail(Live)
    BY <2>4, <2>5, <2>6, FirstLeaves
  <2>8. Tail(Live) = Without(Live, i)
    BY <2>2, <2>4, <1>1, WithoutFirst
  <2> QED BY <2>2, <2>7, <2>8
<1>7. CASE x # head
  <2>1. PICK dead : dead = IF x = tail THEN "MSG_NULL" ELSE "IND" OBVIOUS
  <2>2. PICK h : h = [entry EXCEPT ![x].info = dead] OBVIOUS
  <2>3. SetQueue(h, First(s), Last(s))
    BY <2>1, <2>2, <1>2, <1>3, <1>7 DEF Remove
  <2>4. dead \in Infos /\ dead \in Overwritten /\ dead # "TSO_QUEUE"
    BY <2>1 DEF Infos, Overwritten
  <2>5. /\ h \in [Entries -> Cells]
        /\ h[x].info = dead /\ h[x].link = entry[x].link /\ h[x].tso = entry[x].tso
        /\ \A q \in Entries : q # x => h[q] = entry[q]
    <3>1. entry[x] \in Cells
      BY <1>2, <1>4
    <3>2. PICK r : r = [entry[x] EXCEPT !.info = dead] OBVIOUS
    <3>3. r \in Cells /\ r.info = dead /\ r.link = entry[x].link /\ r.tso = entry[x].tso
      BY <3>1, <3>2, <2>4 DEF Cells
    <3>4. h = [entry EXCEPT ![x] = r]
      BY <2>2, <3>2
    <3> QED BY <3>3, <3>4, <1>2, <1>4
  <2>6. \A q \in Entries : h[q].link = entry[q].link
    BY <2>5
  <2>7. IsPath(h, s)
    BY <2>6, <1>2 DEF IsPath
  <2>8. Closed(h, s)
    BY <2>6, <1>2 DEF Closed
  <2>9. /\ head' = First(s) /\ tail' = Last(s)
        /\ entry' = [q \in Entries |-> IF q \in On(s) THEN h[q] ELSE NoEntry]
        /\ entry' \in [Entries -> Cells]
        /\ IsPath(entry', s)
    BY <2>3, <2>5, <2>7, <2>8, SetQueueAll
  <2>10. \A q \in On(s) : q \in Entries /\ entry'[q] = h[q]
    BY <2>9, <1>2 DEF On
  <2>11. Heap(entry', head', tail', s)
    <3>1. \A q \in On(s) : entry'[q].info \in Infos
      BY <2>4, <2>5, <2>10 DEF Heap
    <3>2. entry'[tail'].info # "IND"
      <4>1. tail' = tail /\ tail \in On(s)
        BY <2>9, <1>2, <1>5 DEF On
      <4>2. entry[tail].info # "IND"
        BY <1>5 DEF Heap
      <4> QED BY <4>1, <4>2, <2>1, <2>5, <2>10
    <3> QED BY <3>1, <3>2, <2>9 DEF Heap
  <2>12. Left(x, s, s)
    BY <2>4, <2>5, <2>10, <2>11 DEF Left
  <2>13. Lists(Without(Live, i), s, Alive(entry) \ {x})
    BY <1>1, <1>2, <1>3, ListsWithout
  <2>14. \A q \in On(s) : q \in Alive(entry) \ {x} <=> q \in Alive(entry')
    BY <2>4, <2>5, <2>10 DEF Alive, Kept
  <2>15. Lists(Without(Live, i), s, Alive(entry'))
    BY <2>13, <2>14, ListsSame
  <2>16. Lists(Find(entry', head', Overwritten), s, Alive(entry'))
    BY <2>11, HeapFinds DEF Alive
  <2>17. Find(entry', head', Overwritten) = Without(Live, i)
    BY <2>15, <2>16, <1>2, ListsUnique
  <2> QED BY <2>12, <2>17, <1>3
<1> QED BY <1>6, <1>7

----------------------------------------------------------------------------
(* The collector                                                           *)

NotIND == Kept(entry, {"IND"})

\* The queue becomes what is found when INDs are skipped; no live entry is lost.
LEMMA CollectedLeaves ==
    ASSUME NEW s, Heap(entry, head, tail, s), CollectGarbage
    PROVE  \E s2 : /\ Left(END, s, s2)
                   /\ Find(entry', head', Overwritten) = Live
<1>1. /\ Lists(Live, s, Alive(entry)) /\ Once(Live) /\ Live \in Seq(Entries)
      /\ \A j \in 1..Len(Live) : Live[j] \in On(s) /\ entry[Live[j]].info = "TSO_QUEUE"
      /\ \A q \in On(s) : entry[q].info = "TSO_QUEUE" => q \in On(Live)
  BY LiveEntries
<1>2. s \in Seq(Entries) /\ Once(s) /\ Closed(entry, s) /\ IsPath(entry, s)
      /\ entry \in [Entries -> Cells] /\ head = First(s) /\ tail = Last(s)
      /\ Len(s) \in Nat
  BY HeapFinds DEF Heap
<1>3. PICK a : a = Find(entry, head, {"IND"}) OBVIOUS
<1>4. Lists(a, s, NotIND) /\ Once(a) /\ a \in Seq(Entries)
  <2>1. Lists(a, s, NotIND)
    BY <1>3, HeapFinds DEF NotIND
  <2> QED BY <2>1, <1>2, ListsOnce DEF Lists
<1>5. \A k \in 1..(Len(s) + 1) : \E b : Lists(b, From(s, k), NotIND) /\ ShortOut(At(s, k)) = First(b)
  <2> SUFFICES ASSUME NEW k \in 1..(Len(s) + 1)
               PROVE \E b : Lists(b, From(s, k), NotIND) /\ ShortOut(At(s, k)) = First(b)
    OBVIOUS
  <2>1. PICK b : b = Find(entry, At(s, k), {"IND"}) OBVIOUS
  <2>2. Lists(b, From(s, k), NotIND)
    BY <2>1, <1>2, FindFrom DEF NotIND
  <2>3. b \in Seq(Entries)
    BY <2>2 DEF Lists
  <2>4. ShortOut(At(s, k)) = IF b = <<>> THEN END ELSE b[1]
    BY <2>1 DEF ShortOut
  <2>5. First(b) = IF b = <<>> THEN END ELSE b[1]
    <3>1. CASE b = <<>>
      BY <3>1 DEF First, At
    <3>2. CASE b # <<>>
      <4>1. 1 <= Len(b) BY <3>2, <2>3
      <4> QED BY <4>1, <3>2 DEF First, At
    <3> QED BY <3>1, <3>2
  <2> QED BY <2>2, <2>4, <2>5
<1>6. ShortOut(head) = First(a)
  <2>1. PICK b : Lists(b, From(s, 1), NotIND) /\ ShortOut(At(s, 1)) = First(b)
    <3>1. 1 \in 1..(Len(s) + 1) BY <1>2
    <3> QED BY <3>1, <1>5
  <2>2. b = a
    BY <2>1, <1>2, <1>4, FromFirst, ListsUnique
  <2> QED BY <2>1, <2>2, <1>2 DEF First
<1>7. ShortOut(tail) = Last(a)
  <2>1. CASE s = <<>>
    <3>1. On(s) = {} /\ tail = END /\ head = END
      BY <2>1, <1>2 DEF On, Last, First, At
    <3>2. a = <<>>
      <4>1. \A i \in 1..Len(a) : FALSE
        BY <3>1, <1>4 DEF Lists
      <4> QED BY <4>1, <1>4
    <3>3. First(a) = END /\ Last(a) = END
      BY <3>2 DEF First, At, Last
    <3> QED BY <3>1, <3>3, <1>6
  <2>2. CASE s # <<>>
    <3>1. PICK n : n = Len(s) - 1 OBVIOUS
    <3>2. Len(s) \in 1..Len(s) /\ n \in 0..Len(s) /\ n + 1 = Len(s) /\ Len(s) \in 1..(Len(s) + 1)
      BY <3>1, <2>2, <1>2
    <3>3. tail = s[Len(s)] /\ tail = At(s, Len(s)) /\ tail \in On(s)
      BY <3>2, <2>2, <1>2 DEF Last, At, On
    <3>4. tail \in NotIND
      <4>1. entry[tail].info # "IND"
        BY <2>2 DEF Heap
      <4>2. tail \in Entries
        <5>1. \A i \in 1..Len(s) : s[i] \in Entries
          BY <1>2
        <5> QED BY <5>1, <3>2, <3>3
      <4> QED BY <4>1, <4>2 DEF NotIND, Kept
    <3>5. PICK b : Lists(b, From(s, Len(s)), NotIND) /\ ShortOut(tail) = First(b)
      BY <3>2, <3>3, <1>5
    <3>6. \A x : x \in On(From(s, Len(s))) <=> x = tail
      <4>1. \A x : x \in On(From(s, n + 1)) <=> \E i \in (n + 1)..Len(s) : s[i] = x
        BY <3>2, <1>2, FromOrder
      <4>2. \A x : (\E i \in (n + 1)..Len(s) : s[i] = x) <=> x = s[Len(s)]
        <5>1. \A i \in (n + 1)..Len(s) : i = Len(s)
          BY <3>2, <1>2
        <5>2. Len(s) \in (n + 1)..Len(s)
          BY <3>2, <1>2
        <5> QED BY <5>1, <5>2
      <4> QED BY <4>1, <4>2, <3>2, <3>3
    <3>7. tail \in On(b) /\ b \in Seq(Entries) /\ \A i \in 1..Len(b) : b[i] = tail
      BY <3>4, <3>5, <3>6 DEF Lists
    <3>8. 1 \in 1..Len(b) /\ 1 <= Len(b)
      BY <3>7 DEF On
    <3>9. First(b) = tail
      BY <3>7, <3>8 DEF First, At
    <3>10. Last(a) = Last(s)
      BY <3>4, <2>2, <1>2, <1>4, LastListed
    <3> QED BY <3>5, <3>9, <3>10, <1>2
  <2> QED BY <2>1, <2>2
<1>8. PICK h : h = [q \in Entries |-> [entry[q] EXCEPT !.link = ShortOut(@)]] OBVIOUS
<1>9. SetQueue(h, First(a), Last(a))
  BY <1>6, <1>7, <1>8 DEF CollectGarbage
<1>10. \A q \in Entries : ShortOut(entry[q].link) \in On(a) \cup {END}
  <2> SUFFICES ASSUME NEW q \in Entries PROVE ShortOut(entry[q].link) \in On(a) \cup {END}
    OBVIOUS
  <2>1. PICK k \in 0..Len(s) : entry[q].link = At(s, k + 1)
    <3>1. CASE q \in On(s)
      <4>1. PICK k \in 1..Len(s) : s[k] = q BY <3>1 DEF On
      <4>2. k \in 0..Len(s) /\ entry[q].link = At(s, k + 1)
        BY <4>1, <1>2 DEF IsPath
      <4> QED BY <4>2
    <3>2. CASE q \notin On(s)
      <4>1. entry[q].link = END
        BY <3>2 DEF Heap, NoEntry
      <4>2. Len(s) \in 0..Len(s) /\ At(s, Len(s) + 1) = END
        BY <1>2 DEF At
      <4> QED BY <4>1, <4>2
    <3> QED BY <3>1, <3>2
  <2>2. PICK m : m = k + 1 OBVIOUS
  <2>3. m \in 1..(Len(s) + 1)
    BY <2>2, <1>2
  <2>4. PICK b : Lists(b, From(s, m), NotIND) /\ ShortOut(At(s, m)) = First(b)
    BY <2>3, <1>5
  <2>5. \A x \in On(From(s, m)) : x \in On(s)
    BY <2>2, <1>2, FromOrder
  <2>6. b \in Seq(Entries) /\ \A i \in 1..Len(b) : b[i] \in On(a)
    BY <2>4, <2>5, <1>4 DEF Lists
  <2>7. First(b) \in On(a) \cup {END}
    <3>1. CASE b = <<>>
      BY <3>1 DEF First, At
    <3>2. CASE b # <<>>
      <4>1. 1 \in 1..Len(b) /\ 1 <= Len(b) BY <3>2, <2>6
      <4> QED BY <4>1, <2>6 DEF First, At
    <3> QED BY <3>1, <3>2
  <2> QED BY <2>1, <2>2, <2>4, <2>7
<1>11. On(a) \subseteq Entries /\ On(a) \subseteq On(s)
  <2>1. ASSUME NEW x \in On(a) PROVE x \in Entries /\ x \in On(s)
    <3>1. PICK i \in 1..Len(a) : a[i] = x BY <2>1 DEF On
    <3>2. a[i] \in On(s) BY <1>4 DEF Lists
    <3> QED BY <3>1, <3>2, <1>4
  <2> QED BY <2>1
<1>12. /\ h \in [Entries -> Cells]
       /\ \A q \in Entries : /\ h[q].info = entry[q].info /\ h[q].tso = entry[q].tso
                             /\ h[q].link = ShortOut(entry[q].link)
  <2>1. ASSUME NEW q \in Entries
        PROVE  /\ h[q] \in Cells
               /\ h[q].info = entry[q].info /\ h[q].tso = entry[q].tso
               /\ h[q].link = ShortOut(entry[q].link)
    <3>1. entry[q] \in Cells
      BY <1>2
    <3>2. h[q] = [entry[q] EXCEPT !.link = ShortOut(entry[q].link)]
      BY <1>8
    <3>3. ShortOut(entry[q].link) \in 0..MaxEntries
      BY <1>10, <1>11, EntriesAre
    <3> QED BY <3>1, <3>2, <3>3 DEF Cells
  <2> QED BY <2>1, <1>8
<1>13. IsPath(h, a)
  <2>1. ASSUME NEW i \in 1..Len(a) PROVE h[a[i]].link = At(a, i + 1)
    <3>1. a[i] \in On(s) /\ a[i] \in Entries
      BY <1>4 DEF Lists
    <3>2. PICK k \in 1..Len(s) : s[k] = a[i]
      BY <3>1 DEF On
    <3>3. entry[a[i]].link = At(s, k + 1)
      BY <3>2, <1>2 DEF IsPath
    <3>4. PICK m : m = k + 1 OBVIOUS
    <3>5. m \in 1..(Len(s) + 1)
      BY <3>4, <1>2
    <3>6. PICK b : Lists(b, From(s, m), NotIND) /\ ShortOut(At(s, m)) = First(b)
      BY <3>5, <1>5
    <3>7. First(b) = At(a, i + 1)
      BY <3>2, <3>4, <3>6, <1>2, <1>4, FirstAfter
    <3> QED BY <3>1, <3>3, <3>4, <3>6, <3>7, <1>12
  <2> QED BY <2>1, <1>4 DEF IsPath
<1>14. Closed(h, a)
  BY <1>10, <1>12 DEF Closed
<1>15. /\ head' = First(a) /\ tail' = Last(a)
       /\ entry' = [q \in Entries |-> IF q \in On(a) THEN h[q] ELSE NoEntry]
       /\ entry' \in [Entries -> Cells]
       /\ IsPath(entry', a)
  BY <1>9, <1>12, <1>13, <1>14, SetQueueAll
<1>16. \A q \in On(a) : entry'[q].info = entry[q].info /\ entry'[q].tso = entry[q].tso
  BY <1>11, <1>12, <1>15
<1>17. \A q \in On(a) : entry[q].info # "IND"
  BY <1>4 DEF Lists, On, NotIND, Kept
<1>18. Heap(entry', head', tail', a)
  <2>1. a # <<>> => entry'[tail'].info # "IND"
    <3> SUFFICES ASSUME a # <<>> PROVE entry'[tail'].info # "IND"
      OBVIOUS
    <3>1. Len(a) \in 1..Len(a)
      BY <1>4
    <3>2. tail' \in On(a)
      BY <3>1, <1>15 DEF Last, On
    <3> QED BY <3>2, <1>16, <1>17
  <2>2. \A q \in On(a) : entry'[q].info \in Infos
    BY <1>11, <1>16 DEF Heap
  <2> QED BY <2>1, <2>2, <1>15 DEF Heap
<1>19. \A q \in On(s) : entry[q].info = "TSO_QUEUE" => q \in On(a)
  <2> SUFFICES ASSUME NEW q \in On(s), entry[q].info = "TSO_QUEUE" PROVE q \in On(a)
    OBVIOUS
  <2>1. q \in NotIND
    BY <1>2 DEF On, NotIND, Kept
  <2> QED BY <2>1, <1>4 DEF Lists
<1>20. Left(END, s, a)
  <2>1. END \notin On(a)
    BY <1>11, EntriesAre
  <2> QED BY <2>1, <1>11, <1>16, <1>18, <1>19 DEF Left
<1>21. Lists(Live, a, Alive(entry'))
  <2>1. \A i \in 1..Len(Live) : Live[i] \in On(a) /\ Live[i] \in Alive(entry')
    <3> SUFFICES ASSUME NEW i \in 1..Len(Live)
                 PROVE  Live[i] \in On(a) /\ Live[i] \in Alive(entry')
      OBVIOUS
    <3>1. Live[i] \in On(a) /\ entry'[Live[i]].info = "TSO_QUEUE"
      BY <1>1, <1>16, <1>19
    <3> QED BY <3>1, <1>11 DEF Alive, Kept, Overwritten
  <2>2. \A x \in On(a) : x \in Alive(entry') => x \in On(Live)
    <3> SUFFICES ASSUME NEW x \in On(a), x \in Alive(entry') PROVE x \in On(Live)
      OBVIOUS
    <3>1. x \in Alive(entry) /\ x \in On(s)
      BY <1>11, <1>16 DEF Alive, Kept
    <3> QED BY <3>1, <1>1 DEF Lists
  <2>3. ASSUME NEW i \in 1..Len(Live), NEW j \in 1..Len(Live), i < j
        PROVE  Before(a, Live[i], Live[j])
    <3>1. Before(s, Live[i], Live[j])
      BY <2>3, <1>1 DEF Lists
    <3>2. Live[i] # Live[j] /\ ~Before(s, Live[j], Live[i])
      BY <3>1, <1>2, Strict
    <3>3. Before(a, Live[i], Live[j]) \/ Before(a, Live[j], Live[i])
      BY <3>2, <2>1, <1>4, Ordered
    <3>4. ~Before(a, Live[j], Live[i])
      <4> SUFFICES ASSUME Before(a, Live[j], Live[i]) PROVE FALSE
        OBVIOUS
      <4>1. PICK k \in 1..Len(a), l \in 1..Len(a) : k < l /\ a[k] = Live[j] /\ a[l] = Live[i]
        BY DEF Before
      <4>2. Before(s, a[k], a[l])
        BY <4>1, <1>4 DEF Lists
      <4> QED BY <4>1, <4>2, <3>2
    <3> QED BY <3>3, <3>4
  <2> QED BY <2>1, <2>2, <2>3, <1>1 DEF Lists
<1>22. Find(entry', head', Overwritten) = Live
  <2>1. Lists(Find(entry', head', Overwritten), a, Alive(entry'))
    BY <1>18, HeapFinds DEF Alive
  <2> QED BY <2>1, <1>4, <1>21, ListsUnique
<1> QED BY <1>20, <1>22

----------------------------------------------------------------------------
(* The invariant                                                           *)

Results == Everything \cup {Pending, Done, Failed, Interrupted}

TypeOK ==
    /\ lock \in Caps \cup {Free}
    /\ value \in Everything \cup {Empty}
    /\ why \in [Threads -> {"NotBlocked", "BlockedOnMVar", "BlockedOnMVarRead"}]
    /\ arg \in [Threads -> Everything \cup {Empty}]
    /\ ret \in [Threads -> Results \cup {Empty}]
    /\ running \in [Caps -> Threads \cup {NoThread}]
    /\ pc \in [Caps -> {"sched", "run", "serve", "blocking"}]
    /\ offer \in [Caps -> Everything \cup {Empty}]
    /\ inbox \in [Threads -> Nat]
    /\ putMVars \in [Caps -> Nat]

\* Who has locked the MVar is in the middle of something, and nobody else is.
LockOK == \A c \in Caps : lock = c <=> pc[c] \in {"serve", "blocking"}

\* A capability runs threads of its own, that are not blocked; the one that is about
\* to block is in the queue, unless an exception has taken it out.
RunOK ==
    \A c \in Caps :
        /\ pc[c] = "sched" => running[c] = NoThread
        /\ pc[c] \in {"run", "blocking"} => running[c] \in Threads
        /\ running[c] \in Threads => Home[running[c]] = c
        /\ pc[c] \in {"run", "serve"} /\ running[c] \in Threads =>
              why[running[c]] = "NotBlocked"
        /\ pc[c] = "blocking" /\ why[running[c]] # "NotBlocked" =>
              tso_link[running[c]] # END

\* A thread whose operation is not done is blocked; what it puts is on its stack as
\* long as nobody has put it.
ThreadOK ==
    \A t \in Threads :
        /\ why[t] = "NotBlocked" => tso_link[t] = END
        /\ tso_link[t] = END => arg[t] = Empty
        /\ arg[t] # Empty => why[t] = "BlockedOnMVar"

\* Only putMVars wait for a full MVar, and none for an empty one.
ValueOK ==
    /\ value # Empty => \A t \in Threads : tso_link[t] # END => arg[t] # Empty
    /\ value = Empty => \A t \in Threads : arg[t] = Empty
    /\ \A c \in Caps : pc[c] = "serve" => value = Empty /\ offer[c] \in Everything

QueueOK == \E s : Heap(entry, head, tail, s) /\ Linked(entry, tso_link, s)

IndInv == TypeOK /\ LockOK /\ RunOK /\ ThreadOK /\ ValueOK /\ QueueOK

----------------------------------------------------------------------------
(* Threads and their entries                                               *)

\* A thread that queues up points to its entry.
LEMMA JoinLinks ==
    ASSUME NEW s, NEW s2, Linked(entry, tso_link, s), NEW t \in Threads, NEW x,
           Joined(t, x, s, s2), tso_link[t] = END, tso_link' = [tso_link EXCEPT ![t] = x]
    PROVE  Linked(entry', tso_link', s2)
<1>1. tso_link \in [Threads -> 0..MaxEntries] /\ x \in Entries /\ x \notin On(s)
      /\ On(s2) = On(s) \cup {x}
      /\ entry'[x].info = "TSO_QUEUE" /\ entry'[x].tso = t
      /\ \A q \in On(s) : entry'[q].info = entry[q].info /\ entry'[q].tso = entry[q].tso
  BY DEF Linked, Joined
<1>2. x \in 0..MaxEntries /\ x # END
  BY <1>1, EntriesAre
<1>3. tso_link' \in [Threads -> 0..MaxEntries] /\ tso_link'[t] = x
      /\ \A u \in Threads : u # t => tso_link'[u] = tso_link[u]
  BY <1>1, <1>2
<1>4. ASSUME NEW q \in On(s2), entry'[q].info = "TSO_QUEUE"
      PROVE  entry'[q].tso \in Threads /\ tso_link'[entry'[q].tso] = q
  <2>1. CASE q = x
    BY <2>1, <1>1, <1>3
  <2>2. CASE q \in On(s)
    <3>1. entry[q].tso \in Threads /\ tso_link[entry[q].tso] = q /\ entry'[q].tso = entry[q].tso
      BY <2>2, <1>1, <1>4 DEF Linked
    <3>2. q # END
      BY <2>2, <1>1, EntriesAre, <1>4 DEF Joined, Heap, IsPath, On
    <3> QED BY <3>1, <3>2, <1>3
  <2> QED BY <2>1, <2>2, <1>1
<1>5. ASSUME NEW u \in Threads, tso_link'[u] # END
      PROVE  /\ tso_link'[u] \in On(s2)
             /\ entry'[tso_link'[u]].info = "TSO_QUEUE"
             /\ entry'[tso_link'[u]].tso = u
  <2>1. CASE u = t
    BY <2>1, <1>1, <1>3
  <2>2. CASE u # t
    <3>1. tso_link'[u] = tso_link[u]
      BY <2>2, <1>3
    <3>2. /\ tso_link[u] \in On(s)
          /\ entry[tso_link[u]].info = "TSO_QUEUE"
          /\ entry[tso_link[u]].tso = u
      BY <3>1, <1>5 DEF Linked
    <3> QED BY <3>1, <3>2, <1>1
  <2> QED BY <2>1, <2>2
<1> QED BY <1>3, <1>4, <1>5 DEF Linked

\* A thread that leaves the queue points nowhere.
LEMMA LeaveLinks ==
    ASSUME NEW s, NEW s2, Linked(entry, tso_link, s), NEW t \in Threads,
           tso_link[t] # END, Left(tso_link[t], s, s2),
           tso_link' = [tso_link EXCEPT ![t] = END]
    PROVE  Linked(entry', tso_link', s2)
<1>1. PICK x : x = tso_link[t] OBVIOUS
<1>2. tso_link \in [Threads -> 0..MaxEntries]
      /\ On(s2) \subseteq On(s) /\ (x \in On(s2) => entry'[x].info # "TSO_QUEUE")
      /\ (\A q \in On(s) : q # x /\ entry[q].info = "TSO_QUEUE" => q \in On(s2))
      /\ \A q \in On(s2) : q # x => entry'[q].info = entry[q].info /\ entry'[q].tso = entry[q].tso
  BY <1>1 DEF Linked, Left
<1>3. tso_link' \in [Threads -> 0..MaxEntries] /\ tso_link'[t] = END
      /\ \A u \in Threads : u # t => tso_link'[u] = tso_link[u]
  BY <1>2, EntriesAre
<1>4. x \in On(s) /\ entry[x].tso = t
  BY <1>1 DEF Linked
<1>5. ASSUME NEW q \in On(s2), entry'[q].info = "TSO_QUEUE"
      PROVE  entry'[q].tso \in Threads /\ tso_link'[entry'[q].tso] = q
  <2>1. q # x /\ q \in On(s)
    BY <1>2, <1>5
  <2>2. entry[q].tso \in Threads /\ tso_link[entry[q].tso] = q /\ entry'[q].tso = entry[q].tso
    BY <2>1, <1>2, <1>5 DEF Linked
  <2>3. entry[q].tso # t
    BY <2>1, <2>2, <1>1
  <2> QED BY <2>2, <2>3, <1>3
<1>6. ASSUME NEW u \in Threads, tso_link'[u] # END
      PROVE  /\ tso_link'[u] \in On(s2)
             /\ entry'[tso_link'[u]].info = "TSO_QUEUE"
             /\ entry'[tso_link'[u]].tso = u
  <2>1. u # t /\ tso_link'[u] = tso_link[u]
    BY <1>3, <1>6
  <2>2. /\ tso_link[u] \in On(s)
        /\ entry[tso_link[u]].info = "TSO_QUEUE"
        /\ entry[tso_link[u]].tso = u
    BY <2>1, <1>6 DEF Linked
  <2>3. tso_link[u] # x
    BY <2>1, <2>2, <1>4
  <2> QED BY <2>1, <2>2, <2>3, <1>2
<1> QED BY <1>3, <1>5, <1>6 DEF Linked

\* The collector changes none of this.
LEMMA CollectLinks ==
    ASSUME NEW s, NEW s2, Linked(entry, tso_link, s), Heap(entry, head, tail, s),
           Left(END, s, s2), tso_link' = tso_link
    PROVE  Linked(entry', tso_link', s2)
<1>1. \A q \in On(s) : q # END
  BY EntriesAre DEF Heap, IsPath, On
<1>2. /\ On(s2) \subseteq On(s)
      /\ \A q \in On(s) : entry[q].info = "TSO_QUEUE" => q \in On(s2)
      /\ \A q \in On(s2) : entry'[q].info = entry[q].info /\ entry'[q].tso = entry[q].tso
  BY <1>1 DEF Left
<1>3. \A q \in On(s2) : entry'[q].info = "TSO_QUEUE" =>
         entry'[q].tso \in Threads /\ tso_link'[entry'[q].tso] = q
  BY <1>2 DEF Linked
<1>4. \A t \in Threads : tso_link'[t] # END =>
         /\ tso_link'[t] \in On(s2)
         /\ entry'[tso_link'[t]].info = "TSO_QUEUE"
         /\ entry'[tso_link'[t]].tso = t
  BY <1>2 DEF Linked
<1> QED BY <1>3, <1>4 DEF Linked

\* The thread of a live entry, and the entry of a thread in the queue
LEMMA LiveThreads ==
    ASSUME QueueOK
    PROVE  /\ tso_link \in [Threads -> 0..MaxEntries]
           /\ Live \in Seq(Entries)
           /\ \A i \in 1..Len(Live) : /\ entry[Live[i]].tso \in Threads
                                     /\ tso_link[entry[Live[i]].tso] = Live[i]
                                     /\ Live[i] # END
           /\ \A i, j \in 1..Len(Live) : entry[Live[i]].tso = entry[Live[j]].tso => i = j
           /\ \A t \in Threads : tso_link[t] # END =>
                 \E i \in 1..Len(Live) : Live[i] = tso_link[t] /\ entry[Live[i]].tso = t
<1>1. PICK s : Heap(entry, head, tail, s) /\ Linked(entry, tso_link, s)
  BY DEF QueueOK
<1>2. /\ Once(Live) /\ Live \in Seq(Entries)
      /\ \A i \in 1..Len(Live) : Live[i] \in On(s) /\ entry[Live[i]].info = "TSO_QUEUE"
      /\ \A q \in On(s) : entry[q].info = "TSO_QUEUE" => q \in On(Live)
  BY <1>1, LiveEntries
<1>3. \A i \in 1..Len(Live) : /\ entry[Live[i]].tso \in Threads
                              /\ tso_link[entry[Live[i]].tso] = Live[i]
                              /\ Live[i] # END
  <2> SUFFICES ASSUME NEW i \in 1..Len(Live)
               PROVE  /\ entry[Live[i]].tso \in Threads
                      /\ tso_link[entry[Live[i]].tso] = Live[i]
                      /\ Live[i] # END
    OBVIOUS
  <2>1. Live[i] \in On(s) /\ entry[Live[i]].info = "TSO_QUEUE" /\ Live[i] \in Entries
    BY <1>2
  <2> QED BY <2>1, <1>1, EntriesAre DEF Linked
<1>4. \A i, j \in 1..Len(Live) : entry[Live[i]].tso = entry[Live[j]].tso => i = j
  BY <1>2, <1>3 DEF Once
<1>5. ASSUME NEW t \in Threads, tso_link[t] # END
      PROVE  \E i \in 1..Len(Live) : Live[i] = tso_link[t] /\ entry[Live[i]].tso = t
  <2>1. /\ tso_link[t] \in On(s) /\ entry[tso_link[t]].info = "TSO_QUEUE"
        /\ entry[tso_link[t]].tso = t
    BY <1>1, <1>5 DEF Linked
  <2>2. tso_link[t] \in On(Live)
    BY <1>2, <2>1
  <2> QED BY <2>1, <2>2 DEF On
<1>6. tso_link \in [Threads -> 0..MaxEntries]
  BY <1>1 DEF Linked
<1> QED BY <1>2, <1>3, <1>4, <1>5, <1>6

\* A thread queues up.
LEMMA QueueJoins ==
    ASSUME TypeOK, QueueOK, NEW c, NEW t \in Threads, tso_link[t] = END,
           BlockAtTail(c, t) \/ BlockAtHead(c, t)
    PROVE  /\ QueueOK' /\ Fresh # END
           /\ tso_link' = [tso_link EXCEPT ![t] = Fresh]
           /\ entry'[Fresh].tso = t
           /\ \A i \in 1..Len(Live) : Live[i] # Fresh /\ entry'[Live[i]].tso = entry[Live[i]].tso
           /\ BlockAtTail(c, t) => Find(entry', head', Overwritten) = Append(Live, Fresh)
           /\ BlockAtHead(c, t) => Find(entry', head', Overwritten) = <<Fresh>> \o Live
<1>1. PICK s : Heap(entry, head, tail, s) /\ Linked(entry, tso_link, s)
  BY DEF QueueOK
<1>2. PICK x : x = Fresh OBVIOUS
<1>3. tso_link' = [tso_link EXCEPT ![t] = x]
  BY <1>2 DEF BlockAtTail, BlockAtHead, Block
<1>4. PICK s2 : /\ Joined(t, x, s, s2)
                /\ BlockAtTail(c, t) => s2 = Append(s, x) /\ Find(entry', head', Overwritten) = Append(Live, x)
                /\ BlockAtHead(c, t) => s2 = <<x>> \o s /\ Find(entry', head', Overwritten) = <<x>> \o Live
  <2>1. CASE BlockAtTail(c, t) /\ ~BlockAtHead(c, t)
    BY <2>1, <1>1, <1>2, TailJoins
  <2>2. CASE BlockAtHead(c, t) /\ ~BlockAtTail(c, t)
    BY <2>2, <1>1, <1>2, HeadJoins
  <2>3. ~(BlockAtTail(c, t) /\ BlockAtHead(c, t))
    <3>1. BlockAtTail(c, t) => why'[t] = "BlockedOnMVar"
      BY DEF BlockAtTail, Block, TypeOK
    <3>2. BlockAtHead(c, t) => why'[t] = "BlockedOnMVarRead"
      BY DEF BlockAtHead, Block, TypeOK
    <3> QED BY <3>1, <3>2
  <2> QED BY <2>1, <2>2, <2>3
<1>5. Linked(entry', tso_link', s2)
  BY <1>1, <1>3, <1>4, JoinLinks
<1>6. QueueOK'
  BY <1>4, <1>5 DEF QueueOK, Joined
<1>7. \A i \in 1..Len(Live) : Live[i] \in On(s)
  BY <1>1, LiveEntries
<1>8. /\ x # END /\ entry'[x].tso = t
      /\ \A i \in 1..Len(Live) : Live[i] # x /\ entry'[Live[i]].tso = entry[Live[i]].tso
  BY <1>4, <1>7, EntriesAre DEF Joined
<1> QED BY <1>2, <1>3, <1>4, <1>6, <1>8

\* The first one in the queue leaves it.
LEMMA QueueServes ==
    ASSUME QueueOK, Live # <<>>, Dequeue(Live[1]),
           tso_link' = [tso_link EXCEPT ![entry[Live[1]].tso] = END]
    PROVE  /\ QueueOK'
           /\ Find(entry', head', Overwritten) = Tail(Live)
           /\ \A i \in 2..Len(Live) : entry'[Live[i]].tso = entry[Live[i]].tso
<1>1. PICK s : Heap(entry, head, tail, s) /\ Linked(entry, tso_link, s)
  BY DEF QueueOK
<1>2. PICK u : u = entry[Live[1]].tso OBVIOUS
<1>3. 1 \in 1..Len(Live)
  BY LiveThreads
<1>4. u \in Threads /\ tso_link[u] = Live[1] /\ Live[1] # END
  BY <1>2, <1>3, LiveThreads
<1>5. PICK tl : tl = IF entry[Live[1]].link = END THEN END ELSE tail OBVIOUS
<1>6. SetQueue(entry, entry[Live[1]].link, tl)
  BY <1>5 DEF Dequeue
<1>7. PICK s2 : Left(Live[1], s, s2) /\ Find(entry', head', Overwritten) = Tail(Live)
  BY <1>1, <1>5, <1>6, FirstLeaves
<1>8. Left(tso_link[u], s, s2)
  BY <1>4, <1>7
<1>9. Linked(entry', tso_link', s2)
  BY <1>1, <1>2, <1>4, <1>8, LeaveLinks
<1>10. QueueOK'
  BY <1>7, <1>9 DEF QueueOK, Left
<1>11. \A i \in 2..Len(Live) : entry'[Live[i]].tso = entry[Live[i]].tso
  <2> SUFFICES ASSUME NEW i \in 2..Len(Live) PROVE entry'[Live[i]].tso = entry[Live[i]].tso
    OBVIOUS
  <2>1. /\ Once(Live) /\ Live \in Seq(Entries)
        /\ \A j \in 1..Len(Live) : Live[j] \in On(s) /\ entry[Live[j]].info = "TSO_QUEUE"
    BY <1>1, LiveEntries
  <2>2. i \in 1..Len(Live) /\ i # 1
    BY <2>1
  <2>3. Live[i] # Live[1]
    BY <2>1, <2>2, <1>3 DEF Once
  <2> QED BY <2>1, <2>2, <2>3, <1>7 DEF Left
<1> QED BY <1>7, <1>10, <1>11

\* An exception takes a thread out of the queue.
LEMMA QueueRevokes ==
    ASSUME QueueOK, NEW t \in Threads, tso_link[t] # END, Remove(tso_link[t]),
           tso_link' = [tso_link EXCEPT ![t] = END],
           NEW i \in 1..Len(Live), Live[i] = tso_link[t]
    PROVE  /\ QueueOK'
           /\ Find(entry', head', Overwritten) = Without(Live, i)
           /\ \A j \in 1..Len(Live) : j # i => entry'[Live[j]].tso = entry[Live[j]].tso
<1>1. PICK s : Heap(entry, head, tail, s) /\ Linked(entry, tso_link, s)
  BY DEF QueueOK
<1>2. Remove(Live[i])
  OBVIOUS
<1>3. PICK s2 : Left(Live[i], s, s2) /\ Find(entry', head', Overwritten) = Without(Live, i)
  BY <1>1, <1>2, RemovedLeaves
<1>4. Linked(entry', tso_link', s2)
  BY <1>1, <1>3, LeaveLinks
<1>5. QueueOK'
  BY <1>3, <1>4 DEF QueueOK, Left
<1>6. ASSUME NEW j \in 1..Len(Live), j # i PROVE entry'[Live[j]].tso = entry[Live[j]].tso
  <2>1. /\ Once(Live) /\ Live \in Seq(Entries)
        /\ \A k \in 1..Len(Live) : Live[k] \in On(s) /\ entry[Live[k]].info = "TSO_QUEUE"
    BY <1>1, LiveEntries
  <2>2. Live[j] # Live[i]
    BY <2>1, <1>6 DEF Once
  <2> QED BY <2>1, <2>2, <1>3 DEF Left
<1> QED BY <1>3, <1>5, <1>6

\* The collector does not.
LEMMA QueueCollects ==
    ASSUME QueueOK, CollectGarbage
    PROVE  /\ QueueOK'
           /\ Find(entry', head', Overwritten) = Live
           /\ \A i \in 1..Len(Live) : entry'[Live[i]].tso = entry[Live[i]].tso
<1>1. PICK s : Heap(entry, head, tail, s) /\ Linked(entry, tso_link, s)
  BY DEF QueueOK
<1>2. PICK s2 : Left(END, s, s2) /\ Find(entry', head', Overwritten) = Live
  BY <1>1, CollectedLeaves
<1>3. tso_link' = tso_link
  BY DEF CollectGarbage, thread
<1>4. Linked(entry', tso_link', s2)
  BY <1>1, <1>2, <1>3, CollectLinks
<1>5. QueueOK'
  BY <1>2, <1>4 DEF QueueOK, Left
<1>6. \A i \in 1..Len(Live) : entry'[Live[i]].tso = entry[Live[i]].tso
  <2>1. /\ Live \in Seq(Entries)
        /\ \A j \in 1..Len(Live) : Live[j] \in On(s) /\ entry[Live[j]].info = "TSO_QUEUE"
    BY <1>1, LiveEntries
  <2> QED BY <2>1, <1>2, EntriesAre DEF Left
<1> QED BY <1>2, <1>5, <1>6

----------------------------------------------------------------------------
(* Every step keeps it                                                     *)

\* What is assumed of the constants (MVarAssumption)
LEMMA Constants ==
    /\ Home \in [Threads -> Caps] /\ NoThread \notin Threads /\ Free \notin Caps
    /\ Empty \notin Everything /\ Unit \in Everything
    /\ Values \subseteq Everything /\ ForeignValues \subseteq Everything
BY MVarAssumption DEF Everything

\* It holds at the beginning.
LEMMA InitInv == Init => IndInv
<1> SUFFICES ASSUME Init PROVE IndInv
  OBVIOUS
<1>1. TypeOK
  BY DEF Init, TypeOK, Results
<1>2. LockOK /\ RunOK /\ ThreadOK /\ ValueOK
  BY Constants DEF Init, LockOK, RunOK, ThreadOK, ValueOK
<1>3. QueueOK
  <2>1. NoEntry \in Cells
    BY EntriesAre DEF NoEntry, Cells
  <2>2. entry \in [Entries -> Cells] /\ \A q \in Entries : entry[q] = NoEntry
    BY <2>1 DEF Init
  <2>3. IsPath(entry, <<>>) /\ On(<<>>) = {}
    BY DEF IsPath, Once, On
  <2>4. head = First(<<>>) /\ tail = Last(<<>>)
    BY DEF Init, First, At, Last
  <2>5. Heap(entry, head, tail, <<>>)
    BY <2>2, <2>3, <2>4 DEF Heap
  <2>6. Linked(entry, tso_link, <<>>)
    BY <2>3, EntriesAre DEF Init, Linked
  <2> QED BY <2>5, <2>6 DEF QueueOK
<1> QED BY <1>1, <1>2, <1>3 DEF IndInv

\* Who calls an operation is not blocked.
LEMMA Caller ==
    ASSUME IndInv, NEW c \in Caps, NEW t \in Threads, Calls(c, t)
    PROVE  /\ pc[c] = "run" /\ running[c] = t /\ lock = Free
           /\ why[t] = "NotBlocked" /\ tso_link[t] = END /\ arg[t] = Empty
           /\ Home[t] = c
           /\ UNCHANGED <<running, putMVars>>
BY DEF Calls, IndInv, RunOK, ThreadOK

\* The MVar is free as long as everybody is scheduling or running.
LEMMA Unlocked ==
    ASSUME IndInv
    PROVE  /\ lock = Free <=> \A c \in Caps : pc[c] \in {"sched", "run"}
           /\ \A c, d \in Caps :
                 pc[c] \in {"serve", "blocking"} /\ pc[d] \in {"serve", "blocking"} => c = d
<1>1. \A c \in Caps : lock = c <=> pc[c] \in {"serve", "blocking"}
  BY DEF IndInv, LockOK
<1>2. \A c \in Caps : pc[c] \in {"sched", "run", "serve", "blocking"}
  BY DEF IndInv, TypeOK
<1>3. lock \in Caps \cup {Free} /\ Free \notin Caps
  BY Constants DEF IndInv, TypeOK
<1>4. lock = Free => \A c \in Caps : pc[c] \in {"sched", "run"}
  BY <1>1, <1>2, <1>3
<1>5. (\A c \in Caps : pc[c] \in {"sched", "run"}) => lock = Free
  BY <1>1, <1>3
<1> QED BY <1>1, <1>4, <1>5

\* Nothing that the queue is made of changes.
LEMMA QueueSame ==
    ASSUME QueueOK, queue' = queue, tso_link' = tso_link
    PROVE  QueueOK' /\ Live' = Live
<1>1. head' = head /\ tail' = tail /\ entry' = entry
  BY DEF queue
<1>2. QueueOK'
  BY <1>1 DEF QueueOK, Heap, Linked, IsPath
<1> QED BY <1>1, <1>2 DEF Live

\* A thread begins to block.
LEMMA BlockKeeps ==
    ASSUME IndInv, NEW c \in Caps, NEW t \in Threads, Calls(c, t),
           BlockAtTail(c, t) \/ BlockAtHead(c, t),
           UNCHANGED <<value, offer, inbox>>,
           \/ value = Empty /\ arg' = arg
           \/ /\ value # Empty /\ BlockAtTail(c, t)
              /\ \E v \in Values : arg' = [arg EXCEPT ![t] = v]
    PROVE  IndInv'
<1>1. /\ TypeOK /\ LockOK /\ RunOK /\ ThreadOK /\ ValueOK /\ QueueOK
  BY DEF IndInv
<1>2. /\ pc[c] = "run" /\ running[c] = t /\ lock = Free
      /\ why[t] = "NotBlocked" /\ tso_link[t] = END /\ arg[t] = Empty
      /\ Home[t] = c
      /\ UNCHANGED <<running, putMVars>>
  BY Caller
<1>3. QueueOK' /\ tso_link' = [tso_link EXCEPT ![t] = Fresh] /\ Fresh # END
  BY <1>1, <1>2, QueueJoins
<1>4. PICK r : /\ r = "BlockedOnMVar" \/ r = "BlockedOnMVarRead"
               /\ BlockAtTail(c, t) => r = "BlockedOnMVar"
               /\ why' = [why EXCEPT ![t] = r]
               /\ ret' = [ret EXCEPT ![t] = Pending]
               /\ lock' = c /\ pc' = [pc EXCEPT ![c] = "blocking"]
  <2>1. ASSUME BlockAtTail(c, t)
        PROVE  /\ why' = [why EXCEPT ![t] = "BlockedOnMVar"]
               /\ ret' = [ret EXCEPT ![t] = Pending]
               /\ lock' = c /\ pc' = [pc EXCEPT ![c] = "blocking"]
    BY <2>1 DEF BlockAtTail, Block
  <2>2. ASSUME BlockAtHead(c, t)
        PROVE  /\ why' = [why EXCEPT ![t] = "BlockedOnMVarRead"]
               /\ ret' = [ret EXCEPT ![t] = Pending]
               /\ lock' = c /\ pc' = [pc EXCEPT ![c] = "blocking"]
    BY <2>2 DEF BlockAtHead, Block
  <2>3. CASE BlockAtTail(c, t)
    BY <2>1, <2>3
  <2>4. CASE ~BlockAtTail(c, t)
    BY <2>2, <2>4
  <2> QED BY <2>3, <2>4
<1>5. PICK a \in Everything \cup {Empty} :
         /\ arg' = [arg EXCEPT ![t] = a]
         /\ a # Empty <=> value # Empty
         /\ a # Empty => r = "BlockedOnMVar"
  <2>1. CASE value = Empty /\ arg' = arg
    <3>1. arg' = [arg EXCEPT ![t] = Empty]
      BY <2>1, <1>1, <1>2 DEF TypeOK
    <3> QED BY <3>1, <2>1, Zenon
  <2>2. CASE value # Empty /\ BlockAtTail(c, t) /\ \E v \in Values : arg' = [arg EXCEPT ![t] = v]
    BY <2>2, <1>4, Constants
  <2> QED BY <2>1, <2>2
<1>6. tso_link \in [Threads -> 0..MaxEntries]
  BY <1>1, LiveThreads
<1>7. TypeOK'
  <2>1. /\ lock' \in Caps \cup {Free} /\ value' \in Everything \cup {Empty}
        /\ running' \in [Caps -> Threads \cup {NoThread}]
        /\ offer' \in [Caps -> Everything \cup {Empty}]
        /\ inbox' \in [Threads -> Nat] /\ putMVars' \in [Caps -> Nat]
    BY <1>1, <1>2, <1>4 DEF TypeOK
  <2>2. why' \in [Threads -> {"NotBlocked", "BlockedOnMVar", "BlockedOnMVarRead"}]
    BY <1>1, <1>4 DEF TypeOK
  <2>3. arg' \in [Threads -> Everything \cup {Empty}]
    BY <1>1, <1>5 DEF TypeOK
  <2>4. ret' \in [Threads -> Results \cup {Empty}]
    BY <1>1, <1>4 DEF TypeOK, Results
  <2>5. pc' \in [Caps -> {"sched", "run", "serve", "blocking"}]
    BY <1>1, <1>4 DEF TypeOK
  <2> QED BY <2>1, <2>2, <2>3, <2>4, <2>5 DEF TypeOK
<1>8. LockOK'
  BY <1>1, <1>2, <1>4, Constants, Unlocked DEF LockOK, TypeOK
<1>9. RunOK'
  <2> SUFFICES ASSUME NEW d \in Caps
               PROVE  /\ pc'[d] = "sched" => running'[d] = NoThread
                      /\ pc'[d] \in {"run", "blocking"} => running'[d] \in Threads
                      /\ running'[d] \in Threads => Home[running'[d]] = d
                      /\ pc'[d] \in {"run", "serve"} /\ running'[d] \in Threads =>
                            why'[running'[d]] = "NotBlocked"
                      /\ pc'[d] = "blocking" /\ why'[running'[d]] # "NotBlocked" =>
                            tso_link'[running'[d]] # END
    BY DEF RunOK
  <2>1. CASE d = c
    BY <2>1, <1>1, <1>2, <1>3, <1>4, <1>6 DEF TypeOK, RunOK
  <2>2. CASE d # c
    <3>1. running[d] # t
      BY <2>2, <1>1, <1>2 DEF RunOK
    <3>2. pc'[d] = pc[d] /\ running'[d] = running[d] /\ pc[d] # "blocking"
      BY <2>2, <1>1, <1>2, <1>4, Unlocked DEF TypeOK
    <3>3. running[d] \in Threads => why'[running[d]] = why[running[d]]
      BY <3>1, <1>1, <1>4 DEF TypeOK
    <3> QED BY <3>1, <3>2, <3>3, <1>1 DEF RunOK
  <2> QED BY <2>1, <2>2
<1>10. ThreadOK'
  BY <1>1, <1>2, <1>3, <1>4, <1>5, <1>6 DEF TypeOK, ThreadOK
<1>11. ValueOK'
  <2>1. arg' \in [Threads -> Everything \cup {Empty}] /\ arg'[t] = a
        /\ \A u \in Threads : u # t => arg'[u] = arg[u] /\ tso_link'[u] = tso_link[u]
    BY <1>1, <1>3, <1>5, <1>6 DEF TypeOK
  <2>2. value' = value
    OBVIOUS
  <2>3. value' # Empty => \A u \in Threads : tso_link'[u] # END => arg'[u] # Empty
    BY <1>1, <1>5, <2>1, <2>2 DEF ValueOK
  <2>4. value' = Empty => \A u \in Threads : arg'[u] = Empty
    BY <1>1, <1>5, <2>1, <2>2 DEF ValueOK
  <2>5. \A d \in Caps : pc'[d] # "serve"
    BY <1>1, <1>2, <1>4, Unlocked DEF TypeOK
  <2> QED BY <2>3, <2>4, <2>5 DEF ValueOK
<1> QED BY <1>3, <1>7, <1>8, <1>9, <1>10, <1>11 DEF IndInv

\* The thread that is served is not the one that runs.
LEMMA ServedIsBlocked ==
    ASSUME IndInv, Live # <<>>
    PROVE  /\ 1 \in 1..Len(Live)
           /\ entry[Live[1]].tso \in Threads
           /\ tso_link[entry[Live[1]].tso] # END
           /\ why[entry[Live[1]].tso] # "NotBlocked"
           /\ \A c \in Caps : running[c] = entry[Live[1]].tso => pc[c] = "blocking"
<1>1. /\ TypeOK /\ LockOK /\ RunOK /\ ThreadOK /\ ValueOK /\ QueueOK
  BY DEF IndInv
<1>2. 1 \in 1..Len(Live)
  BY <1>1, LiveThreads
<1>3. PICK u : u = entry[Live[1]].tso OBVIOUS
<1>4. u \in Threads /\ tso_link[u] # END
  BY <1>1, <1>2, <1>3, LiveThreads
<1>5. why[u] # "NotBlocked"
  BY <1>1, <1>4 DEF ThreadOK
<1>6. ASSUME NEW c \in Caps, running[c] = u PROVE pc[c] = "blocking"
  <2>1. running[c] \in Threads /\ running[c] # NoThread
    BY <1>4, <1>6, Constants
  <2> QED BY <2>1, <1>1, <1>5, <1>6 DEF RunOK, TypeOK
<1> QED BY <1>2, <1>3, <1>4, <1>5, <1>6

\* Its operation has been done: it is woken, now or by a message.
LEMMA Woken ==
    ASSUME TypeOK, NEW c \in Caps, NEW u \in Threads, TryWakeup(c, u)
    PROVE  /\ why' \in [Threads -> {"NotBlocked", "BlockedOnMVar", "BlockedOnMVarRead"}]
           /\ inbox' \in [Threads -> Nat]
           /\ \A t \in Threads : t # u => why'[t] = why[t]
           /\ \A t \in Threads : why[t] = "NotBlocked" => why'[t] = "NotBlocked"
           /\ why'[u] = why[u] \/ why'[u] = "NotBlocked"
<1>1. CASE Home[u] = c
  BY <1>1 DEF TypeOK, TryWakeup
<1>2. CASE Home[u] # c
  BY <1>2 DEF TypeOK, TryWakeup
<1> QED BY <1>1, <1>2

\* takeMVar of a full MVar
LEMMA TakeValueKeeps ==
    ASSUME IndInv, NEW c \in Caps, NEW t \in Threads, Calls(c, t), TakeValue(c, t)
    PROVE  IndInv'
<1>1. /\ TypeOK /\ LockOK /\ RunOK /\ ThreadOK /\ ValueOK /\ QueueOK
  BY DEF IndInv
<1>2. /\ pc[c] = "run" /\ running[c] = t /\ lock = Free /\ value # Empty
      /\ UNCHANGED <<running, putMVars, lock, pc, offer>>
  BY Caller DEF TakeValue
<1>3. tso_link \in [Threads -> 0..MaxEntries]
  BY <1>1, LiveThreads
<1>4. LockOK' /\ \A d \in Caps : pc[d] \in {"sched", "run"}
  BY <1>1, <1>2, Unlocked DEF LockOK
<1>5. CASE Live = <<>>
  <2>1. /\ value' = Empty /\ ret' = [ret EXCEPT ![t] = value]
        /\ UNCHANGED <<queue, tso_link, why, arg, inbox>>
    BY <1>5 DEF TakeValue
  <2>2. QueueOK'
    BY <2>1, <1>1, QueueSame
  <2>3. TypeOK'
    BY <2>1, <1>1, <1>2 DEF TypeOK, Results
  <2>4. RunOK' /\ ThreadOK'
    BY <2>1, <1>1, <1>2 DEF RunOK, ThreadOK
  <2>5. \A u \in Threads : arg[u] = Empty
    <3> SUFFICES ASSUME NEW u \in Threads PROVE arg[u] = Empty
      OBVIOUS
    <3>1. tso_link[u] = END
      BY <1>1, <1>5, LiveThreads
    <3> QED BY <3>1, <1>1 DEF ThreadOK
  <2>6. ValueOK'
    BY <2>1, <2>5, <1>2, <1>4 DEF ValueOK
  <2> QED BY <2>2, <2>3, <2>4, <2>6, <1>4 DEF IndInv
<1>6. CASE Live # <<>>
  <2>1. PICK u : u = entry[Live[1]].tso OBVIOUS
  <2>2. /\ Dequeue(Live[1]) /\ value' = arg[u]
        /\ arg' = [arg EXCEPT ![u] = Empty]
        /\ tso_link' = [tso_link EXCEPT ![u] = END]
        /\ ret' = [ret EXCEPT ![t] = value, ![u] = Done]
        /\ TryWakeup(c, u)
    BY <2>1, <1>6 DEF TakeValue
  <2>3. QueueOK'
    BY <2>1, <2>2, <1>1, <1>6, QueueServes
  <2>4. /\ u \in Threads /\ tso_link[u] # END /\ why[u] # "NotBlocked"
        /\ \A d \in Caps : running[d] = u => pc[d] = "blocking"
    BY <2>1, <1>6, ServedIsBlocked
  <2>5. /\ why' \in [Threads -> {"NotBlocked", "BlockedOnMVar", "BlockedOnMVarRead"}]
        /\ inbox' \in [Threads -> Nat]
        /\ \A x \in Threads : x # u => why'[x] = why[x]
        /\ \A x \in Threads : why[x] = "NotBlocked" => why'[x] = "NotBlocked"
        /\ why'[u] = why[u] \/ why'[u] = "NotBlocked"
    BY <2>2, <2>4, <1>1, Woken
  <2>6. TypeOK'
    <3>1. value' \in Everything \cup {Empty} /\ arg' \in [Threads -> Everything \cup {Empty}]
      BY <2>2, <2>4, <1>1 DEF TypeOK
    <3>2. ret' \in [Threads -> Results \cup {Empty}]
      BY <2>2, <1>1 DEF TypeOK, Results
    <3> QED BY <3>1, <3>2, <2>5, <1>1, <1>2 DEF TypeOK
  <2>7. RunOK'
    BY <2>5, <1>1, <1>2, <1>4 DEF RunOK
  <2>8. \A x \in Threads : x # u => arg'[x] = arg[x] /\ tso_link'[x] = tso_link[x]
    BY <2>2, <1>1, <1>3 DEF TypeOK
  <2>9. arg'[u] = Empty /\ tso_link'[u] = END
    BY <2>2, <2>4, <1>1, <1>3 DEF TypeOK
  <2>10. ThreadOK'
    BY <2>5, <2>8, <2>9, <1>1 DEF ThreadOK
  <2>11. arg[u] # Empty
    BY <2>4, <1>1, <1>2 DEF ValueOK
  <2>12. ValueOK'
    BY <2>2, <2>8, <2>9, <2>11, <1>1, <1>2, <1>4 DEF ValueOK
  <2> QED BY <2>3, <2>6, <2>7, <2>10, <2>12, <1>4 DEF IndInv
<1> QED BY <1>5, <1>6

\* Only what a thread has returned changes.
LEMMA ReturnKeeps ==
    ASSUME IndInv, NEW c \in Caps, NEW t \in Threads, (ReadValue(c, t) /\ Calls(c, t)) \/ TryFails(c, t)
    PROVE  IndInv'
<1>1. /\ TypeOK /\ LockOK /\ RunOK /\ ThreadOK /\ ValueOK /\ QueueOK
  BY DEF IndInv
<1>2. /\ \E r \in Results \cup {Empty} : ret' = [ret EXCEPT ![t] = r]
      /\ UNCHANGED <<lock, value, queue, tso_link, why, arg, pc, offer, inbox, running, putMVars>>
  <2>1. CASE ReadValue(c, t) /\ Calls(c, t)
    BY <2>1, <1>1 DEF ReadValue, Calls, TypeOK, Results
  <2>2. CASE TryFails(c, t)
    BY <2>2 DEF TryFails, Calls, Results
  <2> QED BY <2>1, <2>2
<1>3. QueueOK'
  BY <1>1, <1>2, QueueSame
<1>4. TypeOK'
  BY <1>1, <1>2 DEF TypeOK
<1>5. LockOK' /\ RunOK' /\ ThreadOK' /\ ValueOK'
  BY <1>1, <1>2 DEF LockOK, RunOK, ThreadOK, ValueOK
<1> QED BY <1>3, <1>4, <1>5 DEF IndInv

\* Somebody begins to put.
LEMMA StartKeeps ==
    ASSUME IndInv, NEW c \in Caps, NEW v \in Everything, StartPut(c, v),
           pc[c] \in {"sched", "run"}, lock = Free,
           running' = running, putMVars' \in [Caps -> Nat]
    PROVE  IndInv'
<1>1. /\ TypeOK /\ LockOK /\ RunOK /\ ThreadOK /\ ValueOK /\ QueueOK
  BY DEF IndInv
<1>2. /\ value = Empty /\ lock' = c
      /\ offer' = [offer EXCEPT ![c] = v] /\ pc' = [pc EXCEPT ![c] = "serve"]
      /\ UNCHANGED <<value, queue, tso_link, why, arg, ret, inbox>>
  BY DEF StartPut, thread
<1>3. QueueOK'
  BY <1>1, <1>2, QueueSame
<1>4. TypeOK'
  BY <1>1, <1>2 DEF TypeOK
<1>5. \A d \in Caps : pc[d] \in {"sched", "run"}
  BY Unlocked
<1>6. /\ pc'[c] = "serve" /\ offer'[c] = v
      /\ \A d \in Caps : d # c => pc'[d] = pc[d] /\ offer'[d] = offer[d]
  BY <1>1, <1>2 DEF TypeOK
<1>7. LockOK'
  BY <1>2, <1>5, <1>6 DEF LockOK
<1>8. RunOK'
  <2> SUFFICES ASSUME NEW d \in Caps
               PROVE  /\ pc'[d] = "sched" => running[d] = NoThread
                      /\ pc'[d] \in {"run", "blocking"} => running[d] \in Threads
                      /\ running[d] \in Threads => Home[running[d]] = d
                      /\ pc'[d] \in {"run", "serve"} /\ running[d] \in Threads =>
                            why[running[d]] = "NotBlocked"
                      /\ pc'[d] = "blocking" /\ why[running[d]] # "NotBlocked" =>
                            tso_link[running[d]] # END
    BY <1>2 DEF RunOK
  <2>1. CASE d = c
    BY <2>1, <1>1, <1>6, Constants DEF RunOK
  <2>2. CASE d # c
    BY <2>2, <1>1, <1>6 DEF RunOK
  <2> QED BY <2>1, <2>2
<1>9. ThreadOK'
  BY <1>1, <1>2 DEF ThreadOK
<1>10. ValueOK'
  BY <1>1, <1>2, <1>6, <1>5 DEF ValueOK
<1> QED BY <1>3, <1>4, <1>7, <1>8, <1>9, <1>10 DEF IndInv

\* One of those that wait for the value gets it, or nobody waits and the MVar is full.
LEMMA ServeKeeps ==
    ASSUME IndInv, NEW c \in Caps, Serve(c)
    PROVE  IndInv'
<1>1. /\ TypeOK /\ LockOK /\ RunOK /\ ThreadOK /\ ValueOK /\ QueueOK
  BY DEF IndInv
<1>2. /\ pc[c] = "serve" /\ lock = c /\ value = Empty /\ offer[c] \in Everything
      /\ UNCHANGED <<arg, running, putMVars>>
  BY <1>1 DEF Serve, LockOK, ValueOK
<1>3. tso_link \in [Threads -> 0..MaxEntries]
  BY <1>1, LiveThreads
<1>4. \A d \in Caps : d # c => pc[d] \in {"sched", "run"}
  BY <1>1, <1>2 DEF LockOK, TypeOK
\* The put may be through.
<1>5. ASSUME NEW r \in [Threads -> Results \cup {Empty}], EndPut(c, r)
      PROVE  /\ lock' = Free /\ offer' \in [Caps -> Everything \cup {Empty}]
             /\ pc' \in [Caps -> {"sched", "run", "serve", "blocking"}]
             /\ pc'[c] = IF running[c] = NoThread THEN "sched" ELSE "run"
             /\ \A d \in Caps : d # c => pc'[d] = pc[d] /\ offer'[d] = offer[d]
             /\ ret' \in [Threads -> Results \cup {Empty}]
             /\ LockOK'
  <2>1. /\ lock' = Free /\ offer' \in [Caps -> Everything \cup {Empty}]
        /\ pc' \in [Caps -> {"sched", "run", "serve", "blocking"}]
        /\ pc'[c] = IF running[c] = NoThread THEN "sched" ELSE "run"
        /\ \A d \in Caps : d # c => pc'[d] = pc[d] /\ offer'[d] = offer[d]
    BY <1>1, <1>5 DEF EndPut, TypeOK
  <2>2. ret' \in [Threads -> Results \cup {Empty}]
    BY <1>5 DEF EndPut, Results
  <2>3. LockOK'
    BY <2>1, <1>4, Constants DEF LockOK
  <2> QED BY <2>1, <2>2, <2>3
<1>6. CASE Live = <<>>
  <2>1. /\ value' = offer[c] /\ EndPut(c, ret)
        /\ UNCHANGED <<queue, tso_link, why, inbox>>
    BY <1>6 DEF Serve
  <2>2. QueueOK'
    BY <2>1, <1>1, QueueSame
  <2>3. /\ lock' = Free /\ offer' \in [Caps -> Everything \cup {Empty}]
        /\ pc' \in [Caps -> {"sched", "run", "serve", "blocking"}]
        /\ pc'[c] = IF running[c] = NoThread THEN "sched" ELSE "run"
        /\ \A d \in Caps : d # c => pc'[d] = pc[d] /\ offer'[d] = offer[d]
        /\ ret' \in [Threads -> Results \cup {Empty}]
        /\ LockOK'
    BY <2>1, <1>1, <1>5 DEF TypeOK
  <2>4. TypeOK'
    BY <2>1, <2>3, <1>1, <1>2 DEF TypeOK
  <2>5. RunOK'
    BY <2>1, <2>3, <1>1, <1>2 DEF RunOK, TypeOK
  <2>6. \A u \in Threads : tso_link[u] = END
    BY <1>1, <1>6, LiveThreads
  <2>7. ThreadOK' /\ ValueOK'
    BY <2>1, <2>3, <2>6, <1>1, <1>2, <1>4, Constants DEF ThreadOK, ValueOK
  <2> QED BY <2>2, <2>3, <2>4, <2>5, <2>7 DEF IndInv
<1>7. CASE Live # <<>>
  <2>1. PICK u : u = entry[Live[1]].tso OBVIOUS
  <2>2. PICK r : r = [ret EXCEPT ![u] = offer[c]] OBVIOUS
  <2>3. /\ Dequeue(Live[1]) /\ tso_link' = [tso_link EXCEPT ![u] = END]
        /\ TryWakeup(c, u) /\ value' = value
        /\ \/ ret' = r /\ UNCHANGED <<lock, pc, offer>>
           \/ EndPut(c, r)
    BY <2>1, <2>2, <1>7 DEF Serve
  <2>4. QueueOK'
    BY <2>1, <2>3, <1>1, <1>7, QueueServes
  <2>5. /\ u \in Threads /\ tso_link[u] # END /\ why[u] # "NotBlocked"
        /\ \A d \in Caps : running[d] = u => pc[d] = "blocking"
    BY <2>1, <1>7, ServedIsBlocked
  <2>6. /\ why' \in [Threads -> {"NotBlocked", "BlockedOnMVar", "BlockedOnMVarRead"}]
        /\ inbox' \in [Threads -> Nat]
        /\ \A x \in Threads : x # u => why'[x] = why[x]
        /\ \A x \in Threads : why[x] = "NotBlocked" => why'[x] = "NotBlocked"
        /\ why'[u] = why[u] \/ why'[u] = "NotBlocked"
    BY <2>3, <2>5, <1>1, Woken
  <2>7. r \in [Threads -> Results \cup {Empty}]
    BY <2>2, <1>1, <1>2 DEF TypeOK, Results
  <2>8. /\ lock' \in Caps \cup {Free}
        /\ offer' \in [Caps -> Everything \cup {Empty}]
        /\ pc' \in [Caps -> {"sched", "run", "serve", "blocking"}]
        /\ (pc'[c] = "serve" /\ offer'[c] = offer[c])
             \/ pc'[c] = (IF running[c] = NoThread THEN "sched" ELSE "run")
        /\ \A d \in Caps : d # c => pc'[d] = pc[d] /\ offer'[d] = offer[d]
        /\ ret' \in [Threads -> Results \cup {Empty}]
        /\ LockOK'
    <3>1. CASE EndPut(c, r)
      BY <3>1, <2>7, <1>5
    <3>2. CASE ret' = r /\ UNCHANGED <<lock, pc, offer>>
      BY <3>2, <2>7, <1>1, <1>2 DEF TypeOK, LockOK
    <3> QED BY <3>1, <3>2, <2>3
  <2>9. TypeOK'
    BY <2>3, <2>6, <2>8, <1>1, <1>2 DEF TypeOK
  <2>10. RunOK'
    <3> SUFFICES ASSUME NEW d \in Caps
                 PROVE  /\ pc'[d] = "sched" => running[d] = NoThread
                        /\ pc'[d] \in {"run", "blocking"} => running[d] \in Threads
                        /\ running[d] \in Threads => Home[running[d]] = d
                        /\ pc'[d] \in {"run", "serve"} /\ running[d] \in Threads =>
                              why'[running[d]] = "NotBlocked"
                        /\ pc'[d] = "blocking" /\ why'[running[d]] # "NotBlocked" =>
                              tso_link'[running[d]] # END
      BY <1>2 DEF RunOK
    <3>1. CASE d = c
      BY <3>1, <2>6, <2>8, <1>1, <1>2 DEF RunOK, TypeOK
    <3>2. CASE d # c
      <4>1. pc'[d] = pc[d] /\ pc[d] # "blocking"
        BY <3>2, <2>8, <1>4
      <4> QED BY <4>1, <2>6, <1>1 DEF RunOK
    <3> QED BY <3>1, <3>2
  <2>11. /\ tso_link'[u] = END
         /\ \A x \in Threads : x # u => tso_link'[x] = tso_link[x]
    BY <2>3, <2>5, <1>3
  <2>12. \A x \in Threads : arg[x] = Empty
    BY <1>1, <1>2 DEF ValueOK
  <2>13. ThreadOK'
    BY <2>6, <2>11, <2>12, <1>1, <1>2 DEF ThreadOK
  <2>14. ValueOK'
    BY <2>3, <2>8, <2>12, <1>1, <1>2, <1>4 DEF ValueOK
  <2> QED BY <2>4, <2>8, <2>9, <2>10, <2>13, <2>14 DEF IndInv
<1> QED BY <1>6, <1>7

\* An exception takes a blocked thread out of the queue.
LEMMA RevokeKeeps ==
    ASSUME IndInv, NEW t \in Threads, tso_link[t] # END, Revoke(t),
           UNCHANGED <<lock, value, running, pc, offer, inbox, putMVars>>
    PROVE  IndInv'
<1>1. /\ TypeOK /\ LockOK /\ RunOK /\ ThreadOK /\ ValueOK /\ QueueOK
  BY DEF IndInv
<1>2. /\ Remove(tso_link[t])
      /\ tso_link' = [tso_link EXCEPT ![t] = END]
      /\ why' = [why EXCEPT ![t] = "NotBlocked"]
      /\ arg' = [arg EXCEPT ![t] = Empty]
      /\ ret' = [ret EXCEPT ![t] = Interrupted]
  BY DEF Revoke
<1>3. PICK i \in 1..Len(Live) : Live[i] = tso_link[t]
  BY <1>1, LiveThreads
<1>4. QueueOK'
  BY <1>1, <1>2, <1>3, QueueRevokes
<1>5. tso_link \in [Threads -> 0..MaxEntries]
  BY <1>1, LiveThreads
<1>6. TypeOK'
  BY <1>1, <1>2 DEF TypeOK, Results
<1>7. LockOK' /\ RunOK'
  BY <1>1, <1>2 DEF TypeOK, LockOK, RunOK
<1>8. /\ tso_link'[t] = END /\ arg'[t] = Empty /\ why'[t] = "NotBlocked"
      /\ \A u \in Threads : u # t =>
            tso_link'[u] = tso_link[u] /\ arg'[u] = arg[u] /\ why'[u] = why[u]
  BY <1>1, <1>2, <1>5 DEF TypeOK
<1>9. ThreadOK'
  BY <1>1, <1>8 DEF ThreadOK
<1>10. ValueOK'
  BY <1>1, <1>8 DEF ValueOK
<1> QED BY <1>4, <1>6, <1>7, <1>9, <1>10 DEF IndInv

\* A thread whose operation has been done is woken.
LEMMA WakeKeeps ==
    ASSUME IndInv, NEW t \in Threads, tso_link[t] = END,
           why' = [why EXCEPT ![t] = "NotBlocked"],
           inbox' \in [Threads -> Nat],
           UNCHANGED <<lock, value, queue, tso_link, arg, ret, running, pc, offer, putMVars>>
    PROVE  IndInv'
<1>1. /\ TypeOK /\ LockOK /\ RunOK /\ ThreadOK /\ ValueOK /\ QueueOK
  BY DEF IndInv
<1>2. QueueOK'
  BY <1>1, QueueSame
<1>3. TypeOK'
  BY <1>1 DEF TypeOK
<1>4. LockOK' /\ RunOK'
  BY <1>1 DEF TypeOK, LockOK, RunOK
<1>5. ThreadOK' /\ ValueOK'
  BY <1>1 DEF TypeOK, ThreadOK, ValueOK
<1> QED BY <1>2, <1>3, <1>4, <1>5 DEF IndInv

\* Messages and deferred calls are counted.
LEMMA CountKeeps ==
    ASSUME IndInv, inbox' \in [Threads -> Nat], putMVars' \in [Caps -> Nat],
           UNCHANGED <<lock, value, queue, thread, running, pc, offer>>
    PROVE  IndInv'
<1>1. /\ TypeOK /\ LockOK /\ RunOK /\ ThreadOK /\ ValueOK /\ QueueOK
  BY DEF IndInv
<1>2. UNCHANGED <<tso_link, why, arg, ret>>
  BY DEF thread
<1>3. QueueOK'
  BY <1>1, <1>2, QueueSame
<1>4. TypeOK'
  BY <1>1, <1>2 DEF TypeOK
<1>5. LockOK' /\ RunOK' /\ ThreadOK' /\ ValueOK'
  BY <1>1, <1>2 DEF LockOK, RunOK, ThreadOK, ValueOK
<1> QED BY <1>3, <1>4, <1>5 DEF IndInv

\* What the running thread does with the MVar
LEMMA OperationKeeps ==
    ASSUME IndInv, NEW c \in Caps, NEW t \in Threads, Operation(c, t)
    PROVE  IndInv'
<1>1. CASE Take(c, t)
  <2>1. Calls(c, t)
    BY <1>1 DEF Take
  <2>2. CASE TakeValue(c, t)
    BY <2>1, <2>2, TakeValueKeeps
  <2>3. CASE TakeBlocks(c, t)
    BY <2>1, <2>3, BlockKeeps DEF TakeBlocks
  <2> QED BY <1>1, <2>2, <2>3 DEF Take
<1>2. CASE Read(c, t)
  <2>1. Calls(c, t)
    BY <1>2 DEF Read
  <2>2. CASE ReadValue(c, t)
    BY <2>1, <2>2, ReturnKeeps
  <2>3. CASE ReadBlocks(c, t)
    BY <2>1, <2>3, BlockKeeps DEF ReadBlocks
  <2> QED BY <1>2, <2>2, <2>3 DEF Read
<1>3. CASE TryTake(c, t)
  BY <1>3, TakeValueKeeps DEF TryTake
<1>4. CASE TryFails(c, t)
  BY <1>4, ReturnKeeps
<1>5. ASSUME NEW v \in Values, Calls(c, t), StartPut(c, v) PROVE IndInv'
  <2>1. pc[c] = "run" /\ lock = Free /\ UNCHANGED <<running, putMVars>>
    BY <1>5, Caller
  <2>2. putMVars' \in [Caps -> Nat]
    BY <2>1 DEF IndInv, TypeOK
  <2> QED BY <1>5, <2>1, <2>2, Constants, StartKeeps
<1>6. ASSUME NEW v \in Values, Put(c, t, v) PROVE IndInv'
  <2>1. Calls(c, t) /\ (StartPut(c, v) \/ PutBlocks(c, t, v))
    BY <1>6 DEF Put
  <2>2. CASE PutBlocks(c, t, v)
    BY <2>1, <2>2, BlockKeeps DEF PutBlocks
  <2> QED BY <2>1, <2>2, <1>5
<1>7. ASSUME NEW v \in Values, TryPut(c, t, v) PROVE IndInv'
  BY <1>5, <1>7 DEF TryPut
<1> QED BY <1>1, <1>2, <1>3, <1>4, <1>6, <1>7 DEF Operation

\* What C code does with it, at once or by way of the scheduler
LEMMA ForeignKeeps ==
    ASSUME IndInv, NEW c \in Caps,
           (\E v \in ForeignValues \cup {Unit} : ForeignPut(c, v)) \/ DeferredPut(c)
    PROVE  IndInv'
<1>1. TypeOK
  BY DEF IndInv
<1>2. CASE DeferredPut(c)
  <2>1. /\ pc[c] = "sched" /\ lock = Free /\ putMVars[c] > 0
        /\ putMVars' = [putMVars EXCEPT ![c] = @ - 1] /\ running' = running
    BY <1>2 DEF DeferredPut
  <2>2. putMVars' \in [Caps -> Nat]
    BY <2>1, <1>1 DEF TypeOK
  <2>3. CASE StartPut(c, Unit)
    BY <2>1, <2>2, <2>3, Constants, StartKeeps
  <2>4. CASE UNCHANGED <<lock, value, queue, thread, pc, offer, inbox>>
    BY <2>1, <2>2, <2>4, <1>1, CountKeeps DEF TypeOK
  <2> QED BY <1>2, <2>3, <2>4 DEF DeferredPut
<1>3. ASSUME NEW v \in ForeignValues \cup {Unit}, ForeignPut(c, v) PROVE IndInv'
  <2>1. running' = running /\ putMVars' \in [Caps -> Nat]
    BY <1>1, <1>3 DEF ForeignPut, TypeOK
  <2>2. CASE pc[c] = "sched" /\ lock = Free /\ StartPut(c, v)
    BY <2>1, <2>2, Constants, StartKeeps
  <2>3. CASE UNCHANGED <<lock, value, queue, thread, pc, offer, inbox>>
    BY <2>1, <2>3, <1>1, CountKeeps DEF TypeOK
  <2> QED BY <1>3, <2>2, <2>3 DEF ForeignPut
<1> QED BY <1>2, <1>3

\* Exceptions
LEMMA ExceptionKeeps ==
    ASSUME IndInv, (\E t \in Threads : ThrowTo(t)) \/ (\E c \in Caps : PausedException(c))
    PROVE  IndInv'
<1>1. /\ TypeOK /\ RunOK
  BY DEF IndInv
<1>2. ASSUME NEW t \in Threads, ThrowTo(t) PROVE IndInv'
  <2>1. UNCHANGED <<lock, value, running, pc, offer, inbox, putMVars>>
    BY <1>2 DEF ThrowTo
  <2>2. CASE tso_link[t] # END /\ Revoke(t)
    BY <2>1, <2>2, RevokeKeeps
  <2>3. CASE /\ tso_link[t] = END
             /\ why' = [why EXCEPT ![t] = "NotBlocked"]
             /\ UNCHANGED <<queue, tso_link, arg, ret>>
    BY <2>1, <2>3, <1>1, WakeKeeps DEF TypeOK
  <2> QED BY <1>2, <2>2, <2>3 DEF ThrowTo, RaiseInBlocked
<1>3. ASSUME NEW c \in Caps, PausedException(c) PROVE IndInv'
  <2>1. /\ pc[c] = "blocking" /\ why[running[c]] # "NotBlocked" /\ Revoke(running[c])
        /\ UNCHANGED <<lock, value, running, pc, offer, inbox, putMVars>>
    BY <1>3 DEF PausedException
  <2>2. running[c] \in Threads /\ tso_link[running[c]] # END
    BY <2>1, <1>1 DEF RunOK
  <2> QED BY <2>1, <2>2, RevokeKeeps
<1> QED BY <1>2, <1>3

\* The scheduler
LEMMA ScheduleKeeps ==
    ASSUME IndInv, NEW c \in Caps, Dispatch(c) \/ Yield(c) \/ Blocked(c)
    PROVE  IndInv'
<1>1. /\ TypeOK /\ LockOK /\ RunOK /\ ThreadOK /\ ValueOK /\ QueueOK
  BY DEF IndInv
<1>2. UNCHANGED <<value, queue, tso_link, why, arg, ret, offer, inbox, putMVars>>
  BY DEF Dispatch, Yield, Blocked, thread
<1>3. PICK r \in Threads \cup {NoThread} :
         /\ running' = [running EXCEPT ![c] = r]
         /\ pc' = [pc EXCEPT ![c] = IF r = NoThread THEN "sched" ELSE "run"]
         /\ r # NoThread => Home[r] = c /\ why[r] = "NotBlocked"
  <2>1. CASE Dispatch(c)
    BY <2>1, Constants DEF Dispatch
  <2>2. CASE Yield(c) \/ Blocked(c)
    BY <2>2 DEF Yield, Blocked
  <2> QED BY <2>1, <2>2
<1>4. /\ running'[c] = r /\ pc'[c] = IF r = NoThread THEN "sched" ELSE "run"
      /\ \A d \in Caps : d # c => running'[d] = running[d] /\ pc'[d] = pc[d]
  BY <1>1, <1>3 DEF TypeOK
<1>5. lock' = IF pc[c] = "blocking" THEN Free ELSE lock
  BY DEF Dispatch, Yield, Blocked
<1>6. pc[c] # "serve"
  BY DEF Dispatch, Yield, Blocked
<1>7. LockOK'
  <2> SUFFICES ASSUME NEW d \in Caps
               PROVE  lock' = d <=> pc'[d] \in {"serve", "blocking"}
    BY DEF LockOK
  <2>1. (lock = c <=> pc[c] \in {"serve", "blocking"}) /\ (lock = d <=> pc[d] \in {"serve", "blocking"})
    BY <1>1 DEF LockOK
  <2> QED BY <2>1, <1>4, <1>5, <1>6, Constants
<1>8. TypeOK'
  <2>1. lock' \in Caps \cup {Free} /\ pc' \in [Caps -> {"sched", "run", "serve", "blocking"}]
    BY <1>1, <1>3, <1>5 DEF TypeOK
  <2> QED BY <2>1, <1>1, <1>2, <1>3 DEF TypeOK
<1>9. RunOK'
  <2> SUFFICES ASSUME NEW d \in Caps
               PROVE  /\ pc'[d] = "sched" => running'[d] = NoThread
                      /\ pc'[d] \in {"run", "blocking"} => running'[d] \in Threads
                      /\ running'[d] \in Threads => Home[running'[d]] = d
                      /\ pc'[d] \in {"run", "serve"} /\ running'[d] \in Threads =>
                            why[running'[d]] = "NotBlocked"
                      /\ pc'[d] = "blocking" /\ why[running'[d]] # "NotBlocked" =>
                            tso_link[running'[d]] # END
    BY <1>2 DEF RunOK
  <2>1. CASE d = c
    BY <2>1, <1>3, <1>4, Constants
  <2>2. CASE d # c
    BY <2>2, <1>1, <1>4 DEF RunOK
  <2> QED BY <2>1, <2>2
<1>10. ThreadOK'
  BY <1>1, <1>2 DEF ThreadOK
<1>11. ValueOK'
  BY <1>1, <1>2, <1>4 DEF ValueOK
<1>12. QueueOK'
  BY <1>1, <1>2, QueueSame
<1> QED BY <1>7, <1>8, <1>9, <1>10, <1>11, <1>12 DEF IndInv

\* Messages
LEMMA DeliverKeeps ==
    ASSUME IndInv, NEW t \in Threads, DeliverWakeup(t)
    PROVE  IndInv'
<1>1. TypeOK
  BY DEF IndInv
<1>2. inbox' \in [Threads -> Nat]
  BY <1>1 DEF DeliverWakeup, TypeOK
<1>3. CASE tso_link[t] = END
  BY <1>2, <1>3, WakeKeeps DEF DeliverWakeup
<1>4. CASE tso_link[t] # END
  BY <1>1, <1>2, <1>4, CountKeeps DEF DeliverWakeup, thread, TypeOK
<1> QED BY <1>3, <1>4

\* The collector
LEMMA CollectKeeps ==
    ASSUME IndInv, CollectGarbage
    PROVE  IndInv'
<1>1. /\ TypeOK /\ LockOK /\ RunOK /\ ThreadOK /\ ValueOK /\ QueueOK
  BY DEF IndInv
<1>2. UNCHANGED <<lock, value, tso_link, why, arg, ret, running, pc, offer, inbox, putMVars>>
  BY DEF CollectGarbage, thread
<1>3. QueueOK'
  BY <1>1, QueueCollects
<1>4. TypeOK'
  BY <1>1, <1>2 DEF TypeOK
<1>5. LockOK' /\ RunOK' /\ ThreadOK' /\ ValueOK'
  BY <1>1, <1>2 DEF LockOK, RunOK, ThreadOK, ValueOK
<1> QED BY <1>3, <1>4, <1>5 DEF IndInv

\* Every step keeps the invariant.
LEMMA NextInv == IndInv /\ [Next]_vars => IndInv'
<1> SUFFICES ASSUME IndInv, [Next]_vars PROVE IndInv'
  OBVIOUS
<1>1. CASE UNCHANGED vars
  BY <1>1, CountKeeps DEF vars, IndInv, TypeOK
<1>2. ASSUME NEW c \in Caps, NEW t \in Threads, Operation(c, t) PROVE IndInv'
  BY <1>2, OperationKeeps
<1>3. ASSUME NEW c \in Caps, Serve(c) PROVE IndInv'
  BY <1>3, ServeKeeps
<1>4. ASSUME NEW c \in Caps, Blocked(c) \/ Dispatch(c) \/ Yield(c) PROVE IndInv'
  BY <1>4, ScheduleKeeps
<1>5. ASSUME NEW c \in Caps, PausedException(c) PROVE IndInv'
  BY <1>5, ExceptionKeeps
<1>6. ASSUME NEW c \in Caps, (\E v \in ForeignValues \cup {Unit} : ForeignPut(c, v)) \/ DeferredPut(c)
      PROVE  IndInv'
  BY <1>6, ForeignKeeps
<1>7. ASSUME NEW t \in Threads, ThrowTo(t) PROVE IndInv'
  BY <1>7, ExceptionKeeps
<1>8. ASSUME NEW t \in Threads, DeliverWakeup(t) PROVE IndInv'
  BY <1>8, DeliverKeeps
<1>9. CASE CollectGarbage
  BY <1>9, CollectKeeps
<1> QED BY <1>1, <1>2, <1>3, <1>4, <1>5, <1>6, <1>7, <1>8, <1>9 DEF Next

\* The invariant: who has locked the MVar, which threads are blocked and in the queue,
\* what they wait for, and the shape of the queue itself, of which the live entries
\* and the threads in it point to each other.
THEOREM Invariance == Spec => []IndInv
BY InitInv, NextInv, PTL DEF Spec

\* The queue is exact: a thread is in it once, and only as long as its operation has
\* not been done, and the tail is the last entry that the head leads to.
THEOREM ExactQueue == Spec => []QueueExact
<1>1. ASSUME QueueOK PROVE QueueExact
  <2>1. PICK s : Heap(entry, head, tail, s) /\ Linked(entry, tso_link, s)
    BY <1>1 DEF QueueOK
  <2>2. s \in Seq(Entries) /\ Chain(entry, head) = s
    BY <2>1, HeapFinds
  <2>3. Reachable(entry, head) = On(s)
    <3>1. DOMAIN s = 1..Len(s)
      BY <2>2
    <3> QED BY <3>1, <2>2 DEF Reachable, On
  <2>4. tail = IF s = <<>> THEN END ELSE s[Len(s)]
    BY <2>1 DEF Heap, Last
  <2>5. ASSUME NEW t \in Threads
        PROVE  {q \in On(s) : ~Dead(q) /\ entry[q].tso = t} = {tso_link[t]} \ {END}
    <3>1. \A q \in On(s) : q # END
      BY <2>2, EntriesAre DEF On
    <3>2. \A q \in On(s) : ~Dead(q) <=> entry[q].info = "TSO_QUEUE"
      BY <2>1 DEF Heap, Dead, Overwritten, Infos
    <3>3. ASSUME NEW q \in On(s), ~Dead(q), entry[q].tso = t
          PROVE  q = tso_link[t] /\ q # END
      BY <2>1, <3>1, <3>2, <3>3 DEF Linked
    <3>4. ASSUME tso_link[t] # END
          PROVE  tso_link[t] \in On(s) /\ ~Dead(tso_link[t]) /\ entry[tso_link[t]].tso = t
      BY <2>1, <3>2, <3>4 DEF Linked
    <3> QED BY <3>3, <3>4
  <2> QED BY <2>2, <2>3, <2>4, <2>5 DEF QueueExact
<1>2. IndInv => QueueExact
  BY <1>1 DEF IndInv
<1> QED BY <1>2, Invariance, PTL

----------------------------------------------------------------------------
(* The queue of MVarSpec                                                   *)

\* What is waiting at the entries of L, in heap h, when the threads are blocked for
\* the reasons y and put what a says
WaiterAt(h, y, a, q) ==
    LET t == h[q].tso
    IN  [thread |-> t,
         op     |-> IF y[t] = "BlockedOnMVarRead" THEN "read"
                    ELSE IF a[t] = Empty THEN "take" ELSE "put",
         val    |-> a[t]]

QueueAt(h, y, a, L) == [i \in 1..Len(L) |-> WaiterAt(h, y, a, L[i])]

Waiters == [thread : Threads, op : {"read", "take", "put"}, val : Everything \cup {Empty}]

\* It is the queue of MVarSpec.
LEMMA QueuedIs ==
    /\ Queued = QueueAt(entry, why, arg, Live)
    /\ Queued' = QueueAt(entry', why', arg', Find(entry', head', Overwritten))
<1>1. Queued = QueueAt(entry, why, arg, Live)
  BY DEF Queued, QueueAt, Waiter, WaiterAt
<1>2. Queued' = QueueAt(entry', why', arg', Find(entry', head', Overwritten))
  BY DEF Queued, QueueAt, Waiter, WaiterAt, Live
<1> QED BY <1>1, <1>2

\* It has a waiter for each entry.
LEMMA QueueAtSequence ==
    ASSUME NEW h, NEW y, NEW a, NEW L \in Seq(Entries), NEW T,
           \A i \in 1..Len(L) : WaiterAt(h, y, a, L[i]) \in T
    PROVE  /\ QueueAt(h, y, a, L) \in Seq(T) /\ Len(QueueAt(h, y, a, L)) = Len(L)
           /\ \A i \in 1..Len(L) : QueueAt(h, y, a, L)[i] = WaiterAt(h, y, a, L[i])
<1>1. PICK n : n = Len(L) OBVIOUS
<1>2. n \in Nat
  BY <1>1
<1>3. PICK w : w = [i \in 1..n |-> WaiterAt(h, y, a, L[i])] OBVIOUS
<1>4. w \in Seq(T) /\ Len(w) = n
  BY <1>1, <1>2, <1>3
<1> QED BY <1>1, <1>3, <1>4 DEF QueueAt

\* It is made of what is in its entries and their threads.
LEMMA QueueAtSame ==
    ASSUME NEW h, NEW y, NEW a, NEW h2, NEW y2, NEW a2, NEW L,
           \A i \in 1..Len(L) : /\ h2[L[i]].tso = h[L[i]].tso
                                /\ y2[h[L[i]].tso] = y[h[L[i]].tso]
                                /\ a2[h[L[i]].tso] = a[h[L[i]].tso]
    PROVE  QueueAt(h2, y2, a2, L) = QueueAt(h, y, a, L)
<1>1. \A i \in 1..Len(L) : WaiterAt(h2, y2, a2, L[i]) = WaiterAt(h, y, a, L[i])
  BY DEF WaiterAt
<1> QED BY <1>1 DEF QueueAt

\* An entry is added at the end,
LEMMA QueueAtSnoc ==
    ASSUME NEW h, NEW y, NEW a, NEW L \in Seq(Entries), NEW x \in Entries,
           NEW T, \A i \in 1..Len(L) : WaiterAt(h, y, a, L[i]) \in T,
           WaiterAt(h, y, a, x) \in T
    PROVE  QueueAt(h, y, a, Append(L, x)) = Append(QueueAt(h, y, a, L), WaiterAt(h, y, a, x))
<1>1. PICK M : M = Append(L, x) OBVIOUS
<1>2. /\ M \in Seq(Entries) /\ Len(M) = Len(L) + 1 /\ M[Len(L) + 1] = x
      /\ \A i \in 1..Len(L) : M[i] = L[i]
  BY <1>1, SnocSequence
<1>3. \A i \in 1..Len(M) : i = Len(L) + 1 \/ i \in 1..Len(L)
  BY <1>2
<1>4. \A i \in 1..Len(M) : WaiterAt(h, y, a, M[i]) \in T
  BY <1>2, <1>3
<1>5. PICK p : p = QueueAt(h, y, a, L) OBVIOUS
<1>6. PICK r : r = QueueAt(h, y, a, M) OBVIOUS
<1>7. PICK w \in T : w = WaiterAt(h, y, a, x) OBVIOUS
<1>8. /\ p \in Seq(T) /\ Len(p) = Len(L)
      /\ \A i \in 1..Len(L) : p[i] = WaiterAt(h, y, a, L[i])
  BY <1>5, QueueAtSequence
<1>9. /\ r \in Seq(T) /\ Len(r) = Len(M)
      /\ \A i \in 1..Len(M) : r[i] = WaiterAt(h, y, a, M[i])
  BY <1>2, <1>4, <1>6, QueueAtSequence
<1>10. /\ Append(p, w) \in Seq(T) /\ Len(Append(p, w)) = Len(p) + 1
       /\ Append(p, w)[Len(p) + 1] = w
       /\ \A i \in 1..Len(p) : Append(p, w)[i] = p[i]
  BY <1>8
<1>11. \A i \in 1..Len(M) : r[i] = Append(p, w)[i]
  BY <1>2, <1>3, <1>7, <1>8, <1>9, <1>10
<1>12. r = Append(p, w)
  BY <1>2, <1>8, <1>9, <1>10, <1>11, SequenceExtension
<1> QED BY <1>1, <1>5, <1>6, <1>7, <1>12

\* or at the front,
LEMMA QueueAtCons ==
    ASSUME NEW h, NEW y, NEW a, NEW L \in Seq(Entries), NEW x \in Entries,
           NEW T, \A i \in 1..Len(L) : WaiterAt(h, y, a, L[i]) \in T,
           WaiterAt(h, y, a, x) \in T
    PROVE  QueueAt(h, y, a, <<x>> \o L) = <<WaiterAt(h, y, a, x)>> \o QueueAt(h, y, a, L)
<1>1. PICK M : M = <<x>> \o L OBVIOUS
<1>2. /\ M \in Seq(Entries) /\ Len(M) = Len(L) + 1 /\ M[1] = x
      /\ \A i \in 1..Len(L) : M[i + 1] = L[i]
  BY <1>1, ConsSequence
<1>3. \A i \in 1..Len(M) : i = 1 \/ \E k \in 1..Len(L) : k + 1 = i
  <2> SUFFICES ASSUME NEW i \in 1..Len(M), i # 1 PROVE \E k \in 1..Len(L) : k + 1 = i
    OBVIOUS
  <2>1. i - 1 \in 1..Len(L) /\ (i - 1) + 1 = i BY <1>2
  <2> QED BY <2>1
<1>4. \A i \in 1..Len(M) : WaiterAt(h, y, a, M[i]) \in T
  BY <1>2, <1>3
<1>5. PICK p : p = QueueAt(h, y, a, L) OBVIOUS
<1>6. PICK r : r = QueueAt(h, y, a, M) OBVIOUS
<1>7. PICK w \in T : w = WaiterAt(h, y, a, x) OBVIOUS
<1>8. /\ p \in Seq(T) /\ Len(p) = Len(L)
      /\ \A i \in 1..Len(L) : p[i] = WaiterAt(h, y, a, L[i])
  BY <1>5, QueueAtSequence
<1>9. /\ r \in Seq(T) /\ Len(r) = Len(M)
      /\ \A i \in 1..Len(M) : r[i] = WaiterAt(h, y, a, M[i])
  <2>1. M \in Seq(Entries)
    BY <1>2
  <2> QED BY <2>1, <1>4, <1>6, QueueAtSequence
<1>10. PICK b : b = <<w>> \o p OBVIOUS
<1>11. /\ b \in Seq(T) /\ Len(b) = Len(p) + 1 /\ b[1] = w
       /\ \A i \in 1..Len(p) : b[i + 1] = p[i]
  <2>1. <<w>> \in Seq(T) /\ Len(<<w>>) = 1 /\ <<w>>[1] = w
    OBVIOUS
  <2>2. PICK o : o = <<w>> OBVIOUS
  <2>3. /\ o \o p \in Seq(T) /\ Len(o \o p) = Len(o) + Len(p)
        /\ \A j \in 1..Len(o) : (o \o p)[j] = o[j]
        /\ \A j \in 1..Len(p) : (o \o p)[j + Len(o)] = p[j]
    BY <2>1, <2>2, <1>8, ConcatSequence
  <2> QED BY <2>1, <2>2, <2>3, <1>8, <1>10
<1>12. \A i \in 1..Len(M) : r[i] = b[i]
  BY <1>2, <1>3, <1>7, <1>8, <1>9, <1>11
<1>13. r = b
  BY <1>2, <1>8, <1>9, <1>11, <1>12, SequenceExtension
<1> QED BY <1>1, <1>5, <1>6, <1>7, <1>10, <1>13

\* or taken out,
LEMMA QueueAtWithout ==
    ASSUME NEW h, NEW y, NEW a, NEW L \in Seq(Entries),
           NEW T, \A j \in 1..Len(L) : WaiterAt(h, y, a, L[j]) \in T,
           NEW i \in 1..Len(L)
    PROVE  QueueAt(h, y, a, Without(L, i)) = Without(QueueAt(h, y, a, L), i)
<1>1. PICK n : n = Len(L) - 1 OBVIOUS
<1>2. n \in Nat /\ n + 1 = Len(L) /\ i \in 1..(n + 1)
  BY <1>1
<1>3. PICK M : M = Without(L, i) OBVIOUS
<1>4. /\ M \in Seq(Entries) /\ Len(M) = n
      /\ \A j \in 1..n : M[j] = IF j < i THEN L[j] ELSE L[j + 1]
  BY <1>1, <1>3, WithoutSequence
<1>5. \A j \in 1..n : j \in 1..Len(L) /\ j + 1 \in 1..Len(L)
  BY <1>2
<1>6. \A j \in 1..Len(M) : WaiterAt(h, y, a, M[j]) \in T
  BY <1>4, <1>5
<1>7. PICK p : p = QueueAt(h, y, a, L) OBVIOUS
<1>8. PICK r : r = QueueAt(h, y, a, M) OBVIOUS
<1>9. /\ p \in Seq(T) /\ Len(p) = n + 1
      /\ \A j \in 1..Len(L) : p[j] = WaiterAt(h, y, a, L[j])
  BY <1>2, <1>7, QueueAtSequence
<1>10. /\ r \in Seq(T) /\ Len(r) = n
       /\ \A j \in 1..Len(M) : r[j] = WaiterAt(h, y, a, M[j])
  <2>1. M \in Seq(Entries) /\ Len(M) = n
    BY <1>4
  <2> QED BY <2>1, <1>6, <1>8, QueueAtSequence
<1>11. PICK b : b = Without(p, i) OBVIOUS
<1>12. Len(p) - 1 = n /\ i \in 1..Len(p)
  BY <1>2, <1>9
<1>13. /\ b \in Seq(T) /\ Len(b) = n
       /\ \A j \in 1..n : b[j] = IF j < i THEN p[j] ELSE p[j + 1]
  BY <1>9, <1>11, <1>12, WithoutSequence
<1>14. \A j \in 1..n : r[j] = b[j]
  <2> SUFFICES ASSUME NEW j \in 1..n PROVE r[j] = b[j]
    OBVIOUS
  <2>1. r[j] = WaiterAt(h, y, a, M[j])
    BY <1>4, <1>10
  <2>2. CASE j < i
    BY <2>1, <2>2, <1>4, <1>5, <1>9, <1>13
  <2>3. CASE ~(j < i)
    BY <2>1, <2>3, <1>4, <1>5, <1>9, <1>13
  <2> QED BY <2>2, <2>3
<1>15. r = b
  BY <1>2, <1>10, <1>13, <1>14, SequenceExtension
<1> QED BY <1>3, <1>7, <1>8, <1>11, <1>15

\* and at the front, too.
LEMMA QueueAtTail ==
    ASSUME NEW h, NEW y, NEW a, NEW L \in Seq(Entries), L # <<>>,
           NEW T, \A j \in 1..Len(L) : WaiterAt(h, y, a, L[j]) \in T
    PROVE  QueueAt(h, y, a, Tail(L)) = Tail(QueueAt(h, y, a, L))
<1>1. 1 \in 1..Len(L)
  OBVIOUS
<1>2. PICK p : p = QueueAt(h, y, a, L) OBVIOUS
<1>3. p \in Seq(T) /\ Len(p) = Len(L)
  BY <1>2, QueueAtSequence
<1>4. p # <<>>
  BY <1>1, <1>3
<1>5. Without(L, 1) = Tail(L) /\ Without(p, 1) = Tail(p)
  BY <1>3, <1>4, WithoutFirst
<1>6. QueueAt(h, y, a, Without(L, 1)) = Without(p, 1)
  BY <1>1, <1>2, QueueAtWithout
<1> QED BY <1>2, <1>5, <1>6

----------------------------------------------------------------------------
(* Who is served by a put                                                  *)

IsDue(q, n) ==
    /\ n \in 0..Len(q)
    /\ \A i \in 1..(n - 1) : q[i].op = "read"
    /\ n = Len(q) \/ (n > 0 /\ q[n].op # "read")

\* There is such a number, and Due is it.
LEMMA DueIs ==
    ASSUME NEW T, NEW q \in Seq(T)
    PROVE  IsDue(q, Due(q))
<1>1. PICK l : l = Len(q) /\ l \in Nat OBVIOUS
<1>2. PICK S : S = {n \in 0..l : n = l \/ q[n + 1].op # "read"} OBVIOUS
<1>3. l \in S /\ S \subseteq Nat /\ S \subseteq 0..l
  BY <1>1, <1>2
<1>4. PICK n \in S : \A p \in S : n <= p
  BY <1>3, LeastOfNaturals
<1>5. n \in 0..l
  BY <1>3
<1>6. \A i \in 1..n : q[i].op = "read"
  <2> SUFFICES ASSUME NEW i \in 1..n PROVE q[i].op = "read"
    OBVIOUS
  <2>1. PICK j : j = i - 1 OBVIOUS
  <2>2. j \in 0..l /\ j + 1 = i /\ j < n /\ j # l
    BY <2>1, <1>1, <1>5
  <2>3. j \notin S
    BY <2>2, <1>4, <1>5
  <2> QED BY <2>2, <2>3, <1>2
<1>7. n < l => q[n + 1].op # "read"
  BY <1>2, <1>4, <1>5, <1>1
<1>8. PICK k : k = CHOOSE m \in 0..Len(q) : /\ \A i \in 1..m : q[i].op = "read"
                                            /\ m < Len(q) => q[m + 1].op # "read"
  OBVIOUS
<1>9. /\ k \in 0..l /\ (\A i \in 1..k : q[i].op = "read")
      /\ (k < l => q[k + 1].op # "read")
  BY <1>1, <1>5, <1>6, <1>7, <1>8
<1>10. Due(q) = IF k < l THEN k + 1 ELSE k
  BY <1>1, <1>8 DEF Due
<1>11. PICK d : d = Due(q) OBVIOUS
<1>12. CASE k < l
  <2>1. d = k + 1 /\ d - 1 = k
    BY <1>1, <1>9, <1>10, <1>11, <1>12
  <2>2. d \in 0..l /\ d > 0 /\ q[d].op # "read"
    BY <2>1, <1>1, <1>9, <1>12
  <2> QED BY <2>1, <2>2, <1>1, <1>9, <1>11 DEF IsDue
<1>13. CASE ~(k < l)
  <2>1. d = l
    BY <1>1, <1>9, <1>10, <1>11, <1>13
  <2>2. \A i \in 1..(d - 1) : i \in 1..k
    BY <2>1, <1>1, <1>9, <1>13
  <2> QED BY <2>1, <2>2, <1>1, <1>9, <1>11 DEF IsDue
<1> QED BY <1>12, <1>13

\* There is one such number only.
LEMMA DueUnique ==
    ASSUME NEW T, NEW q \in Seq(T), NEW m, NEW n, IsDue(q, m), IsDue(q, n)
    PROVE  m = n
<1>1. PICK l : l = Len(q) /\ l \in Nat OBVIOUS
<1>2. \A i, j : IsDue(q, i) /\ IsDue(q, j) => ~(i < j)
  <2> SUFFICES ASSUME NEW i, NEW j, IsDue(q, i), IsDue(q, j), i < j PROVE FALSE
    OBVIOUS
  <2>1. i \in 0..l /\ j \in 0..l /\ i # l
    BY <1>1 DEF IsDue
  <2>2. i > 0 /\ q[i].op # "read"
    BY <2>1, <1>1 DEF IsDue
  <2>3. i \in 1..(j - 1)
    BY <2>1, <2>2, <1>1
  <2> QED BY <2>2, <2>3 DEF IsDue
<1>3. m \in 0..l /\ n \in 0..l
  BY <1>1 DEF IsDue
<1>4. ~(m < n) /\ ~(n < m)
  BY <1>2
<1> QED BY <1>1, <1>3, <1>4

\* When the first one has been served
LEMMA DueTail ==
    ASSUME NEW T, NEW q \in Seq(T), q # <<>>
    PROVE  /\ Due(q) \in 1..Len(q)
           /\ q[1].op = "read" => Due(Tail(q)) = Due(q) - 1
           /\ q[1].op # "read" => Due(q) = 1
<1>1. PICK l : l = Len(q) /\ l \in Nat /\ l > 0 OBVIOUS
<1>2. PICK d : d = Due(q) OBVIOUS
<1>3. IsDue(q, d)
  BY <1>2, DueIs
<1>4. d \in 1..l
  BY <1>1, <1>3 DEF IsDue
<1>5. ASSUME q[1].op # "read" PROVE d = 1
  <2>1. 1 \in 1..l /\ IsDue(q, 1)
    BY <1>1, <1>5 DEF IsDue
  <2> QED BY <2>1, <1>3, DueUnique
<1>6. ASSUME q[1].op = "read" PROVE Due(Tail(q)) = d - 1
  <2>1. PICK b : b = Tail(q) OBVIOUS
  <2>2. /\ b \in Seq(T) /\ Len(b) = l - 1
        /\ \A i \in 1..(l - 1) : b[i] = q[i + 1]
    BY <2>1, <1>1
  <2>3. PICK e : e = d - 1 OBVIOUS
  <2>4. e \in 0..(l - 1) /\ e + 1 = d
    BY <2>3, <1>1, <1>4
  <2>5. \A i \in 1..(e - 1) : b[i].op = "read"
    <3> SUFFICES ASSUME NEW i \in 1..(e - 1) PROVE b[i].op = "read"
      OBVIOUS
    <3>1. i \in 1..(l - 1) /\ i + 1 \in 1..(d - 1)
      BY <2>4, <1>1, <1>4
    <3> QED BY <3>1, <2>2, <1>3 DEF IsDue
  <2>6. e = l - 1 \/ (e > 0 /\ b[e].op # "read")
    <3>1. CASE d = l
      BY <3>1, <2>3
    <3>2. CASE d # l
      <4>1. d > 0 /\ q[d].op # "read"
        BY <3>2, <1>1, <1>3 DEF IsDue
      <4>2. d # 1
        BY <4>1, <1>6
      <4>3. e > 0 /\ e \in 1..(l - 1)
        BY <4>2, <2>4, <1>1, <1>4
      <4> QED BY <4>1, <4>3, <2>2, <2>4
    <3> QED BY <3>1, <3>2
  <2>7. IsDue(b, e)
    BY <2>2, <2>4, <2>5, <2>6 DEF IsDue
  <2>8. IsDue(b, Due(b))
    BY <2>2, DueIs
  <2>9. Due(b) = e
    BY <2>2, <2>7, <2>8, DueUnique
  <2> QED BY <2>1, <2>3, <2>9
<1> QED BY <1>1, <1>2, <1>4, <1>5, <1>6

----------------------------------------------------------------------------
(* MVars implement MVarSpec                                                *)

\* What is in the queue of MVarSpec
LEMMA QueuedFacts ==
    ASSUME IndInv
    PROVE  /\ Live \in Seq(Entries) /\ Queued \in Seq(Waiters) /\ Len(Queued) = Len(Live)
           /\ \A i \in 1..Len(Live) : /\ WaiterAt(entry, why, arg, Live[i]) \in Waiters
                                     /\ Queued[i] = WaiterAt(entry, why, arg, Live[i])
           /\ \A i \in 1..Len(Live) : /\ Queued[i].thread = entry[Live[i]].tso
                                     /\ Queued[i].thread \in Threads
                                     /\ tso_link[Queued[i].thread] = Live[i]
                                     /\ Live[i] # END
           /\ \A i, j \in 1..Len(Live) : Queued[i].thread = Queued[j].thread => i = j
           /\ \A t \in Threads : tso_link[t] # END =>
                 \E i \in 1..Len(Live) : Live[i] = tso_link[t] /\ Queued[i].thread = t
<1>1. TypeOK /\ QueueOK
  BY DEF IndInv
<1>2. PICK L : L = Live OBVIOUS
<1>3. PICK q : q = Queued OBVIOUS
<1>4. /\ L \in Seq(Entries)
      /\ \A i \in 1..Len(L) : /\ entry[L[i]].tso \in Threads
                              /\ tso_link[entry[L[i]].tso] = L[i]
                              /\ L[i] # END
      /\ \A i, j \in 1..Len(L) : entry[L[i]].tso = entry[L[j]].tso => i = j
      /\ \A t \in Threads : tso_link[t] # END =>
            \E i \in 1..Len(L) : L[i] = tso_link[t] /\ entry[L[i]].tso = t
  BY <1>1, <1>2, LiveThreads
<1>5. \A i \in 1..Len(L) : WaiterAt(entry, why, arg, L[i]) \in Waiters
  BY <1>1, <1>4 DEF TypeOK, WaiterAt, Waiters
<1>6. q = QueueAt(entry, why, arg, L)
  BY <1>2, <1>3, QueuedIs
<1>7. /\ q \in Seq(Waiters) /\ Len(q) = Len(L)
      /\ \A i \in 1..Len(L) : q[i] = WaiterAt(entry, why, arg, L[i])
  <2>1. L \in Seq(Entries)
    BY <1>4
  <2> QED BY <2>1, <1>5, <1>6, QueueAtSequence
<1>8. ASSUME NEW i \in 1..Len(L) PROVE q[i].thread = entry[L[i]].tso
  <2>1. q[i] = WaiterAt(entry, why, arg, L[i])
    BY <1>7
  <2> QED BY <2>1 DEF WaiterAt
<1> QED BY <1>2, <1>3, <1>4, <1>5, <1>7, <1>8

\* What they wait for
LEMMA QueuedFor ==
    ASSUME IndInv, NEW i \in 1..Len(Live)
    PROVE  /\ value = Empty => Queued[i].op \in {"read", "take"}
           /\ value = Empty => (Queued[i].op = "read" <=> WasReader(Queued[i].thread))
           /\ value # Empty => Queued[i].op = "put"
           /\ Queued[i].val = arg[Queued[i].thread]
<1>1. PICK t : t = Queued[i].thread OBVIOUS
<1>2. /\ Queued[i] = WaiterAt(entry, why, arg, Live[i])
      /\ entry[Live[i]].tso = t /\ t \in Threads /\ tso_link[t] # END
  BY <1>1, QueuedFacts
<1>3. /\ Queued[i].op = IF why[t] = "BlockedOnMVarRead" THEN "read"
                        ELSE IF arg[t] = Empty THEN "take" ELSE "put"
      /\ Queued[i].val = arg[t]
  BY <1>2 DEF WaiterAt
<1>4. /\ value # Empty => arg[t] # Empty /\ why[t] = "BlockedOnMVar"
      /\ value = Empty => arg[t] = Empty
  BY <1>2 DEF IndInv, ValueOK, ThreadOK
<1> QED BY <1>1, <1>3, <1>4 DEF WasReader

\* While nobody hands out a value the MVar is what it looks like.
LEMMA Plain ==
    /\ ~Serving => Val = value /\ Waiting = Queued /\ Returned = ret
    /\ ~Serving' => Val' = value' /\ Waiting' = Queued' /\ Returned' = ret'
<1>1. ~Serving => Val = value /\ Waiting = Queued /\ Returned = ret
  BY DEF Val, Waiting, Returned
<1>2. ~Serving' => Val' = value' /\ Waiting' = Queued' /\ Returned' = ret'
  BY DEF Val, Waiting, Returned
<1> QED BY <1>1, <1>2

\* What the threads have returned once the first d in the queue q have the value v and
\* t, which puts it, has finished; r is what they returned before.
Served(q, d, r, t, v) ==
    [u \in Threads |-> IF u = t THEN Done
                       ELSE IF u \in {q[i].thread : i \in 1..d} THEN v ELSE r[u]]

\* While a capability hands out its value, it has been put.
LEMMA Handing ==
    /\ Serving => /\ Val = IF ~HasTaker(Queued) THEN offer[lock] ELSE value
                  /\ Waiting = SubSeq(Queued, Due(Queued) + 1, Len(Queued))
                  /\ Returned = Served(Queued, Due(Queued), ret, running[lock], offer[lock])
    /\ \A q, d, n, k, r, o :
          Serving' /\ Queued' = q /\ Due(q) = d /\ lock' = k /\ ret' = r /\ offer'[k] = o
             /\ running'[k] = n =>
                /\ Val' = IF ~HasTaker(q) THEN o ELSE value'
                /\ Waiting' = SubSeq(q, d + 1, Len(q))
                /\ Returned' = Served(q, d, r, n, o)
<1>1. Serving => /\ Val = IF ~HasTaker(Queued) THEN offer[lock] ELSE value
                 /\ Waiting = SubSeq(Queued, Due(Queued) + 1, Len(Queued))
  BY DEF Val, Waiting
<1>2. Serving => Returned = Served(Queued, Due(Queued), ret, running[lock], offer[lock])
  BY DEF Returned, Served
<1>3. ASSUME NEW q, NEW d, NEW n, NEW k, NEW r, NEW o,
             Serving', Queued' = q, Due(q) = d, lock' = k, ret' = r, offer'[k] = o,
             running'[k] = n
      PROVE  /\ Val' = IF ~HasTaker(q) THEN o ELSE value'
             /\ Waiting' = SubSeq(q, d + 1, Len(q))
             /\ Returned' = Served(q, d, r, n, o)
  <2>1. HasTaker(Queued)' = HasTaker(q) /\ Due(Queued)' = Due(q)
    BY <1>3 DEF HasTaker, Due
  <2>2. Val' = IF ~HasTaker(q) THEN o ELSE value'
    BY <1>3, <2>1 DEF Val
  <2>3. Waiting' = SubSeq(q, d + 1, Len(q))
    BY <1>3, <2>1 DEF Waiting
  <2>4. Returned' = Served(q, d, r, n, o)
    BY <1>3, <2>1 DEF Returned, Served
  <2> QED BY <2>2, <2>3, <2>4
<1> QED BY <1>1, <1>2, <1>3

\* The queue of MVarSpec stays as it is.
LEMMA QueuedSame ==
    ASSUME IndInv, Find(entry', head', Overwritten) = Live,
           \A i \in 1..Len(Live) : entry'[Live[i]].tso = entry[Live[i]].tso,
           \A t \in Threads : tso_link[t] # END => why'[t] = why[t] /\ arg'[t] = arg[t]
    PROVE  Queued' = Queued
<1>1. PICK L : L = Live OBVIOUS
<1>2. \A i \in 1..Len(L) : /\ entry'[L[i]].tso = entry[L[i]].tso
                           /\ why'[entry[L[i]].tso] = why[entry[L[i]].tso]
                           /\ arg'[entry[L[i]].tso] = arg[entry[L[i]].tso]
  BY <1>1, QueuedFacts
<1>3. QueueAt(entry', why', arg', L) = QueueAt(entry, why, arg, L)
  BY <1>2, QueueAtSame
<1> QED BY <1>1, <1>3, QueuedIs

\* A step that MVarSpec does not see
LEMMA Unseen ==
    ASSUME Queued' = Queued, UNCHANGED <<value, ret, offer>>,
           Serving' <=> Serving, Serving => lock' = lock /\ running'[lock] = running[lock]
    PROVE  UNCHANGED <<Val, Waiting, Returned>>
<1>1. CASE ~Serving
  BY <1>1, Plain
<1>2. CASE Serving
  <2>1. PICK q : q = Queued OBVIOUS
  <2>2. PICK d : d = Due(q) OBVIOUS
  <2>3. PICK k : k = lock OBVIOUS
  <2>4. PICK r : r = ret OBVIOUS
  <2>5. PICK o : o = offer[k] OBVIOUS
  <2>6. PICK n : n = running[k] OBVIOUS
  <2>7. /\ Val = IF ~HasTaker(q) THEN o ELSE value
        /\ Waiting = SubSeq(q, d + 1, Len(q))
        /\ Returned = Served(q, d, r, n, o)
    BY <1>2, <2>1, <2>2, <2>3, <2>4, <2>5, <2>6, Handing
  <2>8. /\ Val' = IF ~HasTaker(q) THEN o ELSE value'
        /\ Waiting' = SubSeq(q, d + 1, Len(q))
        /\ Returned' = Served(q, d, r, n, o)
    BY <1>2, <2>1, <2>2, <2>3, <2>4, <2>5, <2>6, Handing
  <2> QED BY <2>7, <2>8
<1> QED BY <1>1, <1>2

\* At first the MVar is empty and nobody waits.
LEMMA InitMaps == Init => AtOnce!Init
<1> SUFFICES ASSUME Init PROVE AtOnce!Init
  OBVIOUS
<1>1. IndInv
  BY InitInv
<1>2. ~Serving
  BY DEF Init, Serving
<1>3. Queued = <<>>
  <2>1. Queued \in Seq(Waiters) /\ \A i \in 1..Len(Queued) : FALSE
    <3> SUFFICES Queued \in Seq(Waiters) /\ \A i \in 1..Len(Live) : FALSE
      BY <1>1, QueuedFacts
    <3>1. Queued \in Seq(Waiters) /\ \A i \in 1..Len(Live) : tso_link[Queued[i].thread] = Live[i]
             /\ Live[i] # END /\ Queued[i].thread \in Threads
      BY <1>1, QueuedFacts
    <3> QED BY <3>1 DEF Init
  <2>2. PICK q : q = Queued OBVIOUS
  <2>3. q \in Seq(Waiters) /\ \A i \in 1..Len(q) : FALSE
    BY <2>1, <2>2
  <2>4. Len(q) = 0
    <3>1. Len(q) \in Nat /\ ~(1 \in 1..Len(q))
      BY <2>3
    <3> QED BY <3>1
  <2> QED BY <2>2, <2>3, <2>4
<1>4. Val = value /\ Waiting = Queued /\ Returned = ret
  BY <1>2, Plain
<1> QED BY <1>3, <1>4 DEF AtOnce!Init, Init

\* Who calls an operation does not wait.
LEMMA CallerWaitsNot ==
    ASSUME IndInv, NEW c \in Caps, NEW t \in Threads, Calls(c, t)
    PROVE  /\ ~Serving /\ Val = value /\ Waiting = Queued /\ Returned = ret
           /\ ~AtOnce!Waits(t)
           /\ \A i \in 1..Len(Live) : Queued[i].thread # t
<1>1. lock = Free /\ tso_link[t] = END
  BY Caller
<1>2. ~Serving
  BY <1>1 DEF Serving
<1>3. \A i \in 1..Len(Live) : Queued[i].thread # t
  BY <1>1, QueuedFacts
<1>4. Val = value /\ Waiting = Queued /\ Returned = ret
  BY <1>2, Plain
<1>5. DOMAIN Queued = 1..Len(Live)
  BY QueuedFacts
<1>6. ~AtOnce!Waits(t)
  BY <1>3, <1>4, <1>5 DEF AtOnce!Waits
<1> QED BY <1>2, <1>3, <1>4, <1>6

\* Who blocks is appended to the queue of MVarSpec or put in front of it.
LEMMA QueuedJoins ==
    ASSUME IndInv, NEW t \in Threads, NEW c \in Caps, tso_link[t] = END,
           BlockAtTail(c, t) \/ BlockAtHead(c, t),
           NEW a \in Everything \cup {Empty}, arg' = [arg EXCEPT ![t] = a],
           NEW w, w = [thread |-> t,
                       op     |-> IF BlockAtHead(c, t) THEN "read"
                                  ELSE IF a = Empty THEN "take" ELSE "put",
                       val    |-> a]
    PROVE  /\ BlockAtTail(c, t) => Queued' = Append(Queued, w)
           /\ BlockAtHead(c, t) => Queued' = <<w>> \o Queued
<1>1. TypeOK /\ QueueOK
  BY DEF IndInv
<1>2. PICK L : L = Live OBVIOUS
<1>3. PICK x : x = Fresh OBVIOUS
<1>4. L \in Seq(Entries)
  BY <1>2, QueuedFacts
<1>5. x \in Entries
  <2>1. Unused # {}
    BY DEF BlockAtTail, BlockAtHead
  <2> QED BY <2>1, <1>3, FreshEntry DEF Unused
<1>6. /\ entry'[x].tso = t
      /\ \A i \in 1..Len(L) : entry'[L[i]].tso = entry[L[i]].tso
      /\ BlockAtTail(c, t) => Find(entry', head', Overwritten) = Append(L, x)
      /\ BlockAtHead(c, t) => Find(entry', head', Overwritten) = <<x>> \o L
  BY <1>1, <1>2, <1>3, QueueJoins
<1>7. why' = [why EXCEPT ![t] = IF BlockAtHead(c, t) THEN "BlockedOnMVarRead" ELSE "BlockedOnMVar"]
  <2>1. CASE BlockAtHead(c, t)
    BY <2>1 DEF BlockAtHead, Block
  <2>2. CASE ~BlockAtHead(c, t)
    BY <2>2 DEF BlockAtTail, Block
  <2> QED BY <2>1, <2>2
<1>8. PICK h : h = entry' OBVIOUS
<1>9. PICK y : y = why' OBVIOUS
<1>10. PICK b : b = arg' OBVIOUS
<1>11. /\ b[t] = a /\ (y[t] = "BlockedOnMVarRead" <=> BlockAtHead(c, t))
       /\ \A u \in Threads : u # t => b[u] = arg[u] /\ y[u] = why[u]
  BY <1>1, <1>7, <1>9, <1>10 DEF TypeOK
<1>12. WaiterAt(h, y, b, x) = w
  BY <1>6, <1>8, <1>11 DEF WaiterAt
<1>13. w \in Waiters
  BY DEF Waiters
<1>14. \A i \in 1..Len(L) : /\ h[L[i]].tso = entry[L[i]].tso
                            /\ y[entry[L[i]].tso] = why[entry[L[i]].tso]
                            /\ b[entry[L[i]].tso] = arg[entry[L[i]].tso]
  <2>1. \A i \in 1..Len(L) : entry[L[i]].tso \in Threads /\ entry[L[i]].tso # t
    BY <1>2, QueuedFacts
  <2> QED BY <2>1, <1>6, <1>8, <1>11
<1>15. PICK q : q = Queued OBVIOUS
<1>16. QueueAt(h, y, b, L) = q
  <2>1. QueueAt(h, y, b, L) = QueueAt(entry, why, arg, L)
    BY <1>14, QueueAtSame
  <2> QED BY <2>1, <1>2, <1>15, QueuedIs
<1>17. \A i \in 1..Len(L) : WaiterAt(h, y, b, L[i]) \in Waiters
  <2> SUFFICES ASSUME NEW i \in 1..Len(L) PROVE WaiterAt(h, y, b, L[i]) \in Waiters
    OBVIOUS
  <2>1. WaiterAt(entry, why, arg, L[i]) \in Waiters
    BY <1>2, QueuedFacts
  <2>2. WaiterAt(h, y, b, L[i]) = WaiterAt(entry, why, arg, L[i])
    BY <1>14 DEF WaiterAt
  <2> QED BY <2>1, <2>2
<1>18. Queued' = QueueAt(h, y, b, Find(entry', head', Overwritten))
  BY <1>8, <1>9, <1>10, QueuedIs
<1>19. QueueAt(h, y, b, Append(L, x)) = Append(q, w)
  BY <1>4, <1>5, <1>12, <1>13, <1>16, <1>17, QueueAtSnoc
<1>20. QueueAt(h, y, b, <<x>> \o L) = <<w>> \o q
  <2>1. WaiterAt(h, y, b, x) \in Waiters
    BY <1>12, <1>13
  <2>2. QueueAt(h, y, b, <<x>> \o L) = <<WaiterAt(h, y, b, x)>> \o QueueAt(h, y, b, L)
    BY <2>1, <1>4, <1>5, <1>17, QueueAtCons, Zenon
  <2> QED BY <2>2, <1>12, <1>16, Zenon
<1> QED BY <1>6, <1>15, <1>18, <1>19, <1>20

\* takeMVar, readMVar and putMVar that have to wait
LEMMA BlockMaps ==
    ASSUME IndInv, NEW c \in Caps, NEW t \in Threads, Calls(c, t),
           TakeBlocks(c, t) \/ ReadBlocks(c, t) \/ \E v \in Values : PutBlocks(c, t, v)
    PROVE  AtOnce!Operation(t)
<1>1. /\ ~Serving /\ Val = value /\ Waiting = Queued /\ Returned = ret
      /\ ~AtOnce!Waits(t)
  BY CallerWaitsNot
<1>2. TypeOK
  BY DEF IndInv
<1>3. BlockAtTail(c, t) \/ BlockAtHead(c, t)
  BY DEF TakeBlocks, ReadBlocks, PutBlocks
<1>4. lock' = c /\ pc' = [pc EXCEPT ![c] = "blocking"] /\ ret' = [ret EXCEPT ![t] = Pending]
  BY <1>3 DEF BlockAtTail, BlockAtHead, Block
<1>5. ~Serving'
  BY <1>2, <1>4 DEF Serving, TypeOK
<1>6. Val' = value' /\ Waiting' = Queued' /\ Returned' = ret'
  BY <1>5, Plain
<1>7. tso_link[t] = END /\ arg[t] = Empty
  BY Caller
<1>8. ~(BlockAtTail(c, t) /\ BlockAtHead(c, t))
  <2>1. BlockAtTail(c, t) => why'[t] = "BlockedOnMVar"
    BY <1>2 DEF BlockAtTail, Block, TypeOK
  <2>2. BlockAtHead(c, t) => why'[t] = "BlockedOnMVarRead"
    BY <1>2 DEF BlockAtHead, Block, TypeOK
  <2> QED BY <2>1, <2>2
<1>9. PICK q : q = Queued OBVIOUS
<1>10. CASE TakeBlocks(c, t)
  <2>1. PICK w : w = [thread |-> t, op |-> "take", val |-> Empty] OBVIOUS
  <2>2. /\ value = Empty /\ BlockAtTail(c, t) /\ ~BlockAtHead(c, t) /\ value' = value
        /\ arg' = [arg EXCEPT ![t] = Empty]
    BY <1>2, <1>7, <1>8, <1>10 DEF TakeBlocks, TypeOK
  <2>3. Queued' = Append(q, w)
    BY <2>1, <2>2, <1>7, <1>9, QueuedJoins
  <2>4. AtOnce!Take(t)
    BY <2>1, <2>2, <2>3, <1>1, <1>4, <1>6, <1>9
       DEF AtOnce!Take, AtOnce!Wait, AtOnce!Waiter, AtOnce!Return
  <2> QED BY <2>4, <1>1 DEF AtOnce!Operation
<1>11. CASE ReadBlocks(c, t)
  <2>1. PICK w : w = [thread |-> t, op |-> "read", val |-> Empty] OBVIOUS
  <2>2. /\ value = Empty /\ BlockAtHead(c, t) /\ value' = value
        /\ arg' = [arg EXCEPT ![t] = Empty]
    BY <1>2, <1>7, <1>11 DEF ReadBlocks, TypeOK
  <2>3. Queued' = <<w>> \o q
    BY <2>1, <2>2, <1>7, <1>9, QueuedJoins
  <2>4. AtOnce!Read(t)
    BY <2>1, <2>2, <2>3, <1>1, <1>4, <1>6, <1>9
       DEF AtOnce!Read, AtOnce!Wait, AtOnce!Waiter, AtOnce!Return
  <2> QED BY <2>4, <1>1 DEF AtOnce!Operation
<1>12. ASSUME NEW v \in Values, PutBlocks(c, t, v) PROVE AtOnce!Operation(t)
  <2>1. PICK w : w = [thread |-> t, op |-> "put", val |-> v] OBVIOUS
  <2>2. /\ value # Empty /\ BlockAtTail(c, t) /\ ~BlockAtHead(c, t) /\ value' = value
        /\ arg' = [arg EXCEPT ![t] = v]
    BY <1>2, <1>8, <1>12 DEF PutBlocks
  <2>3. v \in Everything /\ v # Empty
    BY Constants
  <2>4. Queued' = Append(q, w)
    BY <2>1, <2>2, <2>3, <1>7, <1>9, QueuedJoins
  <2>5. AtOnce!Put(t, v)
    BY <2>1, <2>2, <2>4, <1>1, <1>4, <1>6, <1>9
       DEF AtOnce!Put, AtOnce!Wait, AtOnce!Waiter, AtOnce!Return
  <2> QED BY <2>3, <2>5, <1>1 DEF AtOnce!Operation
<1> QED BY <1>10, <1>11, <1>12

\* Operations that are over at once and leave the MVar as it is
LEMMA ReturnMaps ==
    ASSUME IndInv, NEW c \in Caps, NEW t \in Threads, Calls(c, t),
           ReadValue(c, t) \/ TryFails(c, t)
    PROVE  AtOnce!Operation(t)
<1>1. /\ ~Serving /\ Val = value /\ Waiting = Queued /\ Returned = ret
      /\ ~AtOnce!Waits(t)
  BY CallerWaitsNot
<1>2. UNCHANGED <<lock, value, queue, tso_link, why, arg, pc, offer>>
  BY DEF ReadValue, TryFails
<1>3. ~Serving'
  BY <1>1, <1>2 DEF Serving
<1>4. Val' = value' /\ Waiting' = Queued' /\ Returned' = ret'
  BY <1>3, Plain
<1>5. Queued' = Queued
  BY <1>2 DEF Queued, Live, Waiter, queue
<1>6. CASE ReadValue(c, t)
  BY <1>1, <1>2, <1>4, <1>5, <1>6 DEF ReadValue, AtOnce!Operation, AtOnce!Read, AtOnce!Return
<1>7. CASE TryFails(c, t)
  BY <1>1, <1>2, <1>4, <1>5, <1>7 DEF TryFails, AtOnce!Operation, AtOnce!TryFails, AtOnce!Return
<1> QED BY <1>6, <1>7

\* A thread leaves the queue of MVarSpec.
LEMMA QueuedLeaves ==
    ASSUME IndInv, NEW i \in 1..Len(Live), NEW u, u = Queued[i].thread,
           Find(entry', head', Overwritten) = Without(Live, i),
           \A j \in 1..Len(Live) : j # i => entry'[Live[j]].tso = entry[Live[j]].tso,
           \A t \in Threads : t # u => why'[t] = why[t] /\ arg'[t] = arg[t]
    PROVE  Queued' = Without(Queued, i)
<1>1. PICK L : L = Live OBVIOUS
<1>2. PICK q : q = Queued OBVIOUS
<1>3. /\ L \in Seq(Entries) /\ i \in 1..Len(L) /\ u = entry[L[i]].tso
      /\ \A j \in 1..Len(L) : WaiterAt(entry, why, arg, L[j]) \in Waiters
      /\ \A j \in 1..Len(L) : j # i => entry[L[j]].tso \in Threads /\ entry[L[j]].tso # u
  <2>1. /\ L \in Seq(Entries)
        /\ \A j \in 1..Len(L) : WaiterAt(entry, why, arg, L[j]) \in Waiters
        /\ \A j \in 1..Len(L) : q[j].thread = entry[L[j]].tso /\ q[j].thread \in Threads
        /\ \A j, k \in 1..Len(L) : q[j].thread = q[k].thread => j = k
    BY <1>1, <1>2, QueuedFacts
  <2>2. i \in 1..Len(L) /\ u = q[i].thread
    BY <1>1, <1>2
  <2> QED BY <2>1, <2>2
<1>4. PICK M : M = Without(L, i) OBVIOUS
<1>5. \A j \in 1..Len(M) : \E k \in 1..Len(L) : k # i /\ M[j] = L[k]
  <2>1. PICK n : n = Len(L) - 1 OBVIOUS
  <2>2. n \in Nat /\ Len(L) = n + 1 /\ i \in 1..(n + 1)
    BY <2>1, <1>3
  <2>3. /\ Len(M) = n
        /\ \A j \in 1..n : M[j] = IF j < i THEN L[j] ELSE L[j + 1]
    BY <2>1, <1>3, <1>4, WithoutSequence
  <2>4. ASSUME NEW j \in 1..n PROVE \E k \in 1..(n + 1) : k # i /\ M[j] = L[k]
    <3>1. CASE j < i
      <4>1. j \in 1..(n + 1) /\ j # i
        BY <3>1, <2>2
      <4> QED BY <4>1, <3>1, <2>3
    <3>2. CASE ~(j < i)
      <4>1. j + 1 \in 1..(n + 1) /\ j + 1 # i
        BY <3>2, <2>2
      <4> QED BY <4>1, <3>2, <2>3
    <3> QED BY <3>1, <3>2
  <2> QED BY <2>2, <2>3, <2>4
<1>6. \A j \in 1..Len(M) : /\ entry'[M[j]].tso = entry[M[j]].tso
                           /\ why'[entry[M[j]].tso] = why[entry[M[j]].tso]
                           /\ arg'[entry[M[j]].tso] = arg[entry[M[j]].tso]
  <2>1. \A k \in 1..Len(L) : k # i => /\ entry'[L[k]].tso = entry[L[k]].tso
                                      /\ why'[entry[L[k]].tso] = why[entry[L[k]].tso]
                                      /\ arg'[entry[L[k]].tso] = arg[entry[L[k]].tso]
    BY <1>1, <1>3
  <2> QED BY <2>1, <1>5
<1>7. QueueAt(entry', why', arg', M) = QueueAt(entry, why, arg, M)
  BY <1>6, QueueAtSame
<1>8. QueueAt(entry, why, arg, M) = Without(QueueAt(entry, why, arg, L), i)
  <2>1. \A j \in 1..Len(L) : WaiterAt(entry, why, arg, L[j]) \in Waiters
    BY <1>3
  <2>2. L \in Seq(Entries) /\ i \in 1..Len(L)
    BY <1>3
  <2>3. QueueAt(entry, why, arg, Without(L, i)) = Without(QueueAt(entry, why, arg, L), i)
    BY <2>1, <2>2, QueueAtWithout, Zenon
  <2> QED BY <2>3, <1>4
<1> QED BY <1>1, <1>4, <1>7, <1>8, QueuedIs

\* The first one does.
LEMMA QueuedServes ==
    ASSUME IndInv, Live # <<>>, NEW u, u = Queued[1].thread, Dequeue(Live[1]),
           tso_link' = [tso_link EXCEPT ![u] = END],
           \A t \in Threads : t # u => why'[t] = why[t] /\ arg'[t] = arg[t]
    PROVE  /\ Queued' = Tail(Queued)
           /\ Queued # <<>>
<1>1. QueueOK
  BY DEF IndInv
<1>2. PICK L : L = Live OBVIOUS
<1>3. L \in Seq(Entries) /\ L # <<>> /\ 1 \in 1..Len(L)
  BY <1>2, QueuedFacts
<1>4. u = entry[L[1]].tso
  BY <1>2, <1>3, QueuedFacts
<1>5. /\ Find(entry', head', Overwritten) = Tail(L)
      /\ \A i \in 2..Len(L) : entry'[L[i]].tso = entry[L[i]].tso
  BY <1>1, <1>2, <1>4, QueueServes
<1>6. Find(entry', head', Overwritten) = Without(L, 1)
  BY <1>3, <1>5, WithoutFirst
<1>7. \A j \in 1..Len(L) : j # 1 => entry'[L[j]].tso = entry[L[j]].tso
  BY <1>3, <1>5
<1>8. Queued' = Without(Queued, 1)
  BY <1>2, <1>3, <1>6, <1>7, QueuedLeaves
<1>9. Queued \in Seq(Waiters) /\ Queued # <<>>
  <2>1. Queued \in Seq(Waiters) /\ Len(Queued) = Len(L)
    BY <1>2, QueuedFacts
  <2> QED BY <2>1, <1>3
<1> QED BY <1>8, <1>9, WithoutFirst

\* takeMVar of a full MVar takes, and performs the first putMVar that waits.
LEMMA TakeMaps ==
    ASSUME IndInv, NEW c \in Caps, NEW t \in Threads, Calls(c, t), TakeValue(c, t)
    PROVE  AtOnce!Operation(t)
<1>1. /\ ~Serving /\ Val = value /\ Waiting = Queued /\ Returned = ret
      /\ ~AtOnce!Waits(t)
  BY CallerWaitsNot
<1>2. value # Empty /\ UNCHANGED <<lock, pc, offer>>
  BY DEF TakeValue
<1>3. ~Serving'
  BY <1>1, <1>2 DEF Serving
<1>4. Val' = value' /\ Waiting' = Queued' /\ Returned' = ret'
  BY <1>3, Plain
<1>5. PICK q : q = Queued OBVIOUS
<1>6. q \in Seq(Waiters) /\ Len(q) = Len(Live) /\ Live \in Seq(Entries)
  BY <1>5, QueuedFacts
<1>7. CASE Live = <<>>
  <2>1. /\ value' = Empty /\ ret' = [ret EXCEPT ![t] = value]
        /\ UNCHANGED <<queue, tso_link, why, arg, inbox>>
    BY <1>7 DEF TakeValue
  <2>2. q = <<>>
    BY <1>6, <1>7
  <2>3. Queued' = Queued
    BY <2>1 DEF Queued, Live, Waiter, queue
  <2>4. AtOnce!Drain(t)
    BY <2>1, <2>2, <2>3, <1>1, <1>4, <1>5 DEF AtOnce!Drain, AtOnce!Return
  <2> QED BY <2>4, <1>1, <1>2 DEF AtOnce!Operation, AtOnce!Take
<1>8. CASE Live # <<>>
  <2>1. PICK u : u = q[1].thread OBVIOUS
  <2>2. 1 \in 1..Len(Live) /\ u = entry[Live[1]].tso /\ u \in Threads
    <3>1. 1 \in 1..Len(Live)
      BY <1>6, <1>8
    <3> QED BY <3>1, <2>1, <1>5, QueuedFacts
  <2>3. /\ Dequeue(Live[1]) /\ value' = arg[u]
        /\ arg' = [arg EXCEPT ![u] = Empty]
        /\ tso_link' = [tso_link EXCEPT ![u] = END]
        /\ ret' = [ret EXCEPT ![t] = value, ![u] = Done]
        /\ TryWakeup(c, u)
    BY <2>2, <1>8 DEF TakeValue
  <2>4. \A x \in Threads : x # u => why'[x] = why[x]
    BY <2>2, <2>3, Woken DEF IndInv
  <2>5. \A x \in Threads : x # u => why'[x] = why[x] /\ arg'[x] = arg[x]
    BY <2>3, <2>4 DEF IndInv, TypeOK
  <2>6. Queued' = Tail(q) /\ q # <<>>
    BY <2>1, <2>3, <2>5, <1>5, <1>8, QueuedServes
  <2>7. q[1].val = arg[u]
    BY <2>1, <2>2, <1>5, QueuedFor
  <2>8. Head(q) = q[1]
    BY <2>6, <1>6
  <2>9. AtOnce!Drain(t)
    BY <2>1, <2>3, <2>6, <2>7, <2>8, <1>1, <1>4, <1>5 DEF AtOnce!Drain
  <2> QED BY <2>9, <1>1, <1>2 DEF AtOnce!Operation, AtOnce!Take
<1> QED BY <1>7, <1>8

\* An exception interrupts a thread that waits.
LEMMA RevokeMaps ==
    ASSUME IndInv, NEW t \in Threads, tso_link[t] # END, Revoke(t),
           UNCHANGED <<lock, value, pc, offer>>, ~Serving
    PROVE  AtOnce!Interrupt(t)
<1>1. TypeOK /\ QueueOK
  BY DEF IndInv
<1>2. /\ Remove(tso_link[t])
      /\ tso_link' = [tso_link EXCEPT ![t] = END]
      /\ why' = [why EXCEPT ![t] = "NotBlocked"]
      /\ arg' = [arg EXCEPT ![t] = Empty]
      /\ ret' = [ret EXCEPT ![t] = Interrupted]
  BY DEF Revoke
<1>3. ~Serving'
  BY DEF Serving
<1>4. /\ Val = value /\ Waiting = Queued /\ Returned = ret
      /\ Val' = value' /\ Waiting' = Queued' /\ Returned' = ret'
  BY <1>3, Plain
<1>5. PICK i \in 1..Len(Live) : Live[i] = tso_link[t] /\ Queued[i].thread = t
  BY QueuedFacts
<1>6. /\ Find(entry', head', Overwritten) = Without(Live, i)
      /\ \A j \in 1..Len(Live) : j # i => entry'[Live[j]].tso = entry[Live[j]].tso
  BY <1>1, <1>2, <1>5, QueueRevokes
<1>7. \A x \in Threads : x # t => why'[x] = why[x] /\ arg'[x] = arg[x]
  BY <1>1, <1>2 DEF TypeOK
<1>8. Queued' = Without(Queued, i)
  BY <1>5, <1>6, <1>7, QueuedLeaves
<1>9. PICK q : q = Queued OBVIOUS
<1>10. DOMAIN q = 1..Len(Live)
  BY <1>9, QueuedFacts
<1>11. Queued' = SubSeq(q, 1, i - 1) \o SubSeq(q, i + 1, Len(q))
  BY <1>8, <1>9 DEF Without
<1>12. i \in DOMAIN q /\ q[i].thread = t
  BY <1>5, <1>9, <1>10
<1> QED BY <1>2, <1>4, <1>9, <1>11, <1>12 DEF AtOnce!Interrupt, AtOnce!Return

----------------------------------------------------------------------------
(* A put takes effect when it begins.                                      *)

\* Where a taker waits in a queue of readers and takers, it is the last one served.
LEMMA TakerIsDue ==
    ASSUME NEW T, NEW q \in Seq(T), \A i \in 1..Len(q) : q[i].op \in {"read", "take"}
    PROVE  /\ HasTaker(q) <=> \E i \in 1..Due(q) : q[i].op = "take"
           /\ Due(q) = Len(q) \/ (Due(q) > 0 /\ q[Due(q)].op = "take")
<1>1. PICK d : d = Due(q) OBVIOUS
<1>2. PICK l : l = Len(q) /\ l \in Nat OBVIOUS
<1>3. IsDue(q, d)
  BY <1>1, DueIs
<1>4. d \in 0..l
  BY <1>2, <1>3 DEF IsDue
<1>5. d = l \/ (d > 0 /\ q[d].op # "read")
  BY <1>2, <1>3 DEF IsDue
<1>6. d = l \/ (d > 0 /\ d \in 1..l /\ q[d].op = "take")
  BY <1>2, <1>4, <1>5
<1>7. DOMAIN q = 1..l
  BY <1>2
<1>8. (\E i \in 1..d : q[i].op = "take") => HasTaker(q)
  BY <1>2, <1>4, <1>7 DEF HasTaker
<1>9. HasTaker(q) => \E i \in 1..d : q[i].op = "take"
  <2>1. CASE d = l
    BY <2>1, <1>7 DEF HasTaker
  <2>2. CASE d # l
    BY <2>2, <1>4, <1>6
  <2> QED BY <2>1, <2>2
<1> QED BY <1>1, <1>2, <1>6, <1>8, <1>9

\* putMVar and tryPutMVar, from Haskell or C
LEMMA PutMaps ==
    ASSUME IndInv, NEW c \in Caps, NEW v \in Everything, StartPut(c, v), lock = Free,
           running' = running,
           NEW r, r = IF running[c] \in Threads THEN [ret EXCEPT ![running[c]] = Done] ELSE ret,
           running[c] \in Threads => tso_link[running[c]] = END
    PROVE  Val = Empty /\ Returned = ret /\ AtOnce!Fill(v, r)
<1>1. /\ value = Empty /\ lock' = c
      /\ offer' = [offer EXCEPT ![c] = v] /\ pc' = [pc EXCEPT ![c] = "serve"]
      /\ UNCHANGED <<value, queue, tso_link, why, arg, ret, inbox>>
  BY DEF StartPut, thread
<1>2. TypeOK
  BY DEF IndInv
<1>3. ~Serving
  BY DEF Serving
<1>4. Val = Empty /\ Waiting = Queued /\ Returned = ret
  BY <1>1, <1>3, Plain
<1>5. offer'[c] = v /\ pc'[c] = "serve"
  BY <1>1, <1>2 DEF TypeOK
<1>6. Serving'
  BY <1>1, <1>5, Constants DEF Serving
<1>7. Queued' = Queued
  BY <1>1 DEF Queued, Live, Waiter, queue
<1>8. PICK q : q = Queued OBVIOUS
<1>9. /\ q \in Seq(Waiters) /\ Len(q) = Len(Live)
      /\ \A i \in 1..Len(q) : /\ q[i].thread \in Threads /\ tso_link[q[i].thread] # END
                              /\ q[i].op \in {"read", "take"}
  BY <1>1, <1>8, QueuedFacts, QueuedFor
<1>10. PICK d : d = Due(q) OBVIOUS
<1>11. PICK t : t = running[c] OBVIOUS
<1>12. PICK o : o = ret OBVIOUS
<1>13. /\ Val' = IF ~HasTaker(q) THEN v ELSE value'
       /\ Waiting' = SubSeq(q, d + 1, Len(q))
       /\ Returned' = Served(q, d, o, t, v)
  BY <1>1, <1>5, <1>6, <1>7, <1>8, <1>10, <1>11, <1>12, Handing
<1>14. /\ IsDue(q, d)
       /\ HasTaker(q) <=> \E i \in 1..d : q[i].op = "take"
       /\ d = Len(q) \/ (d > 0 /\ q[d].op = "take")
  BY <1>9, <1>10, DueIs, TakerIsDue
<1>15. d \in 0..Len(q) /\ \A i \in 1..(d - 1) : q[i].op = "read"
  BY <1>14 DEF IsDue
<1>16. Val' = IF \E i \in 1..d : q[i].op = "take" THEN Empty ELSE v
  BY <1>1, <1>13, <1>14
<1>17. Returned' = [u \in Threads |-> IF \E i \in 1..d : q[i].thread = u THEN v ELSE r[u]]
  <2>1. \A i \in 1..d : i \in 1..Len(q)
    BY <1>9, <1>15
  <2>2. ASSUME NEW u \in Threads
        PROVE  (IF u = t THEN Done ELSE IF u \in {q[i].thread : i \in 1..d} THEN v ELSE o[u]) =
               (IF \E i \in 1..d : q[i].thread = u THEN v ELSE r[u])
    <3>1. CASE u = t
      <4>1. \A i \in 1..d : q[i].thread # u
        BY <3>1, <2>1, <1>9, <1>11
      <4>2. r[u] = Done
        BY <3>1, <1>2, <1>11 DEF TypeOK
      <4> QED BY <3>1, <4>1, <4>2
    <3>2. CASE u # t
      <4>1. r[u] = o[u]
        BY <3>2, <1>2, <1>11, <1>12 DEF TypeOK
      <4> QED BY <3>2, <4>1
    <3> QED BY <3>1, <3>2
  <2> QED BY <2>2, <1>13 DEF Served
<1>18. AtOnce!Fill(v, r)
  BY <1>4, <1>8, <1>13, <1>14, <1>15, <1>16, <1>17 DEF AtOnce!Fill
<1> QED BY <1>4, <1>18

\* What is left of a queue is left of its tail.
LEMMA TailLeaves ==
    ASSUME NEW T, NEW q \in Seq(T), q # <<>>, NEW d \in 1..Len(q)
    PROVE  SubSeq(Tail(q), d, Len(Tail(q))) = SubSeq(q, d + 1, Len(q))
<1>1. PICK l : l = Len(q) /\ l \in Nat /\ l > 0 OBVIOUS
<1>2. PICK b : b = Tail(q) OBVIOUS
<1>3. b \in Seq(T) /\ Len(b) = l - 1 /\ \A i \in 1..(l - 1) : b[i] = q[i + 1]
  BY <1>1, <1>2
<1>4. PICK m : m = l - d OBVIOUS
<1>5. m \in 0..(l - 1) /\ d \in 1..l
  BY <1>1, <1>4
<1>6. PICK x : x = SubSeq(b, d, l - 1) OBVIOUS
<1>7. PICK y : y = SubSeq(q, d + 1, l) OBVIOUS
<1>8. x \in Seq(T) /\ Len(x) = m /\ \A i \in 1..m : x[i] = b[i + (d - 1)]
  BY <1>1, <1>3, <1>4, <1>5, <1>6
<1>9. y \in Seq(T) /\ Len(y) = m /\ \A i \in 1..m : y[i] = q[i + d]
  BY <1>1, <1>4, <1>5, <1>7
<1>10. \A i \in 1..m : x[i] = y[i]
  <2> SUFFICES ASSUME NEW i \in 1..m PROVE x[i] = y[i]
    OBVIOUS
  <2>1. PICK j : j = i + (d - 1) OBVIOUS
  <2>2. j \in 1..(l - 1) /\ j + 1 = i + d
    BY <2>1, <1>1, <1>4, <1>5
  <2> QED BY <2>1, <2>2, <1>3, <1>8, <1>9
<1>11. x = y
  BY <1>8, <1>9, <1>10, SequenceExtension
<1> QED BY <1>1, <1>2, <1>3, <1>6, <1>7, <1>11

\* The first one of those that are served, and the others
LEMMA ServedTail ==
    ASSUME NEW T, NEW q \in Seq(T), q # <<>>, NEW d \in 1..Len(q)
    PROVE  {q[i].thread : i \in 1..d} = {q[1].thread} \cup {Tail(q)[i].thread : i \in 1..(d - 1)}
<1>1. PICK l : l = Len(q) /\ l \in Nat /\ l > 0 OBVIOUS
<1>2. PICK b : b = Tail(q) OBVIOUS
<1>3. \A i \in 1..(l - 1) : b[i] = q[i + 1]
  BY <1>1, <1>2
<1>4. ASSUME NEW i \in 1..d
      PROVE  q[i].thread \in {q[1].thread} \cup {b[j].thread : j \in 1..(d - 1)}
  <2>1. CASE i = 1
    BY <2>1
  <2>2. CASE i # 1
    <3>1. PICK j : j = i - 1 OBVIOUS
    <3>2. j \in 1..(d - 1) /\ j \in 1..(l - 1) /\ j + 1 = i
      BY <3>1, <2>2, <1>1
    <3> QED BY <3>2, <1>3
  <2> QED BY <2>1, <2>2
<1>5. ASSUME NEW j \in 1..(d - 1) PROVE b[j].thread \in {q[i].thread : i \in 1..d}
  <2>1. j + 1 \in 1..d /\ j \in 1..(l - 1)
    BY <1>1
  <2> QED BY <2>1, <1>3
<1>6. q[1].thread \in {q[i].thread : i \in 1..d}
  <2>1. 1 \in 1..d
    BY <1>1
  <2> QED BY <2>1
<1> DEFINE A == {q[i].thread : i \in 1..d}
           B == {q[1].thread} \cup {b[j].thread : j \in 1..(d - 1)}
<1>7. A \subseteq B
  BY <1>4
<1>8. B \subseteq A
  BY <1>5, <1>6
<1>9. A = B
  <2> HIDE DEF A, B
  <2> QED BY <1>7, <1>8
<1> QED BY <1>2, <1>9, Zenon

\* A reader in front changes nothing about the takers.
LEMMA TakerTail ==
    ASSUME NEW T, NEW q \in Seq(T), q # <<>>, q[1].op = "read"
    PROVE  HasTaker(Tail(q)) <=> HasTaker(q)
<1>1. PICK l : l = Len(q) /\ l \in Nat /\ l > 0 OBVIOUS
<1>2. PICK b : b = Tail(q) OBVIOUS
<1>3. DOMAIN b = 1..(l - 1) /\ DOMAIN q = 1..l /\ \A i \in 1..(l - 1) : b[i] = q[i + 1]
  BY <1>1, <1>2
<1>4. ASSUME NEW i \in 1..(l - 1), b[i].op = "take" PROVE \E j \in 1..l : q[j].op = "take"
  <2>1. i + 1 \in 1..l
    BY <1>1
  <2> QED BY <2>1, <1>3, <1>4
<1>5. ASSUME NEW j \in 1..l, q[j].op = "take" PROVE \E i \in 1..(l - 1) : b[i].op = "take"
  <2>1. j # 1
    BY <1>5
  <2>2. PICK i : i = j - 1 OBVIOUS
  <2>3. i \in 1..(l - 1) /\ i + 1 = j
    BY <2>1, <2>2, <1>1
  <2> QED BY <2>3, <1>3, <1>5
<1> QED BY <1>2, <1>3, <1>4, <1>5 DEF HasTaker

\* What the loop in putMVar does has been done when it began.
LEMMA ServeMaps ==
    ASSUME IndInv, NEW c \in Caps, Serve(c)
    PROVE  UNCHANGED <<Val, Waiting, Returned>>
<1>1. TypeOK /\ RunOK
  BY DEF IndInv
<1>2. pc[c] = "serve" /\ lock = c /\ value = Empty /\ UNCHANGED <<arg, running>>
  BY DEF Serve, IndInv, LockOK, ValueOK
<1>3. Serving
  BY <1>2, Constants DEF Serving
<1>4. PICK q : q = Queued OBVIOUS
<1>5. PICK d : d = Due(q) OBVIOUS
<1>6. PICK v : v = offer[c] OBVIOUS
<1>7. PICK o : o = ret OBVIOUS
<1>8. PICK n : n = running[c] OBVIOUS
<1>9. /\ Val = IF ~HasTaker(q) THEN v ELSE Empty
      /\ Waiting = SubSeq(q, d + 1, Len(q))
      /\ Returned = Served(q, d, o, n, v)
  BY <1>2, <1>3, <1>4, <1>5, <1>6, <1>7, <1>8, Handing
<1>10. q \in Seq(Waiters) /\ Len(q) = Len(Live) /\ Live \in Seq(Entries)
  BY <1>4, QueuedFacts
<1>11. \A r : EndPut(c, r) =>
          /\ ~Serving'
          /\ ret' = [t \in Threads |-> IF t = n THEN Done ELSE r[t]]
  BY <1>8, Constants DEF EndPut, Serving
<1>12. CASE Live = <<>>
  <2>1. /\ value' = v /\ EndPut(c, o) /\ UNCHANGED <<queue, tso_link, why, inbox>>
    BY <1>6, <1>7, <1>12 DEF Serve
  <2>2. ~Serving' /\ ret' = [t \in Threads |-> IF t = n THEN Done ELSE o[t]]
    BY <2>1, <1>11
  <2>3. q = <<>>
    BY <1>10, <1>12
  <2>4. Queued' = q
    BY <2>1, <1>2, <1>4 DEF Queued, Live, Waiter, queue
  <2>5. Val' = v /\ Waiting' = <<>> /\ Returned' = ret'
    BY <2>1, <2>2, <2>3, <2>4, Plain
  <2>6. d \in 0..0
    <3>1. IsDue(q, d)
      BY <1>5, <1>10, DueIs
    <3> QED BY <3>1, <2>3 DEF IsDue
  <2>7. ~HasTaker(q) /\ SubSeq(q, d + 1, Len(q)) = <<>> /\ {q[i].thread : i \in 1..d} = {}
    BY <2>3, <2>6 DEF HasTaker
  <2>8. Returned' = Returned
    BY <2>2, <2>5, <2>7, <1>9 DEF Served
  <2> QED BY <2>5, <2>7, <2>8, <1>9
<1>13. CASE Live # <<>>
  <2>1. PICK u : u = q[1].thread OBVIOUS
  <2>2. 1 \in 1..Len(Live) /\ u = entry[Live[1]].tso /\ u \in Threads
    <3>1. 1 \in 1..Len(Live)
      BY <1>10, <1>13
    <3> QED BY <3>1, <2>1, <1>4, QueuedFacts
  <2>3. PICK r : r = [o EXCEPT ![u] = v] OBVIOUS
  <2>4. /\ Dequeue(Live[1])
        /\ tso_link' = [tso_link EXCEPT ![u] = END]
        /\ TryWakeup(c, u)
        /\ IF WasReader(u) THEN ret' = r /\ UNCHANGED <<lock, pc, offer>> ELSE EndPut(c, r)
        /\ value' = value
    BY <2>2, <2>3, <1>6, <1>7, <1>13 DEF Serve
  <2>5. \A x \in Threads : x # u => why'[x] = why[x]
    BY <2>2, <2>4, <1>1, Woken
  <2>6. \A x \in Threads : x # u => why'[x] = why[x] /\ arg'[x] = arg[x]
    BY <2>5, <1>2
  <2>7. PICK b : b = Tail(q) OBVIOUS
  <2>8. Queued' = b /\ q # <<>>
    BY <2>1, <2>4, <2>6, <2>7, <1>4, <1>13, QueuedServes
  <2>9. q[1].op \in {"read", "take"} /\ (q[1].op = "read" <=> WasReader(u))
    BY <2>1, <2>2, <1>2, <1>4, QueuedFor
  <2>10. n # u
    <3>1. \A k \in Caps : running[k] = u => pc[k] = "blocking"
      BY <2>2, <1>13, ServedIsBlocked
    <3> QED BY <3>1, <1>2, <1>8
  <2>11. b \in Seq(Waiters) /\ Len(b) = Len(q) - 1
    BY <2>7, <2>8, <1>10
  <2>12. /\ d \in 1..Len(q)
         /\ q[1].op = "read" => Due(b) = d - 1
         /\ q[1].op # "read" => d = 1
    BY <2>7, <2>8, <1>5, <1>10, DueTail
  <2>13. {q[i].thread : i \in 1..d} = {u} \cup {b[i].thread : i \in 1..(d - 1)}
    <3>1. q \in Seq(Waiters) /\ d \in 1..Len(q) /\ q # <<>>
      BY <2>8, <2>12, <1>10
    <3>2. {q[i].thread : i \in 1..d} = {q[1].thread} \cup {Tail(q)[i].thread : i \in 1..(d - 1)}
      BY <3>1, ServedTail, Zenon
    <3> QED BY <3>2, <2>1, <2>7, Zenon
  <2>14. SubSeq(b, d, Len(b)) = SubSeq(q, d + 1, Len(q))
    BY <2>7, <2>8, <2>12, <1>10, TailLeaves
  <2>15. /\ r \in [Threads -> Results \cup {Empty, v}] /\ r[u] = v
         /\ \A x \in Threads : x # u => r[x] = o[x]
    BY <2>2, <2>3, <1>1, <1>7 DEF TypeOK
  <2>16. CASE WasReader(u)
    <3>1. ret' = r /\ UNCHANGED <<lock, pc, offer>>
      BY <2>4, <2>16
    <3>2. Serving' /\ lock' = c /\ offer'[c] = v /\ running'[c] = n
      BY <3>1, <1>2, <1>3, <1>6, <1>8 DEF Serving
    <3>3. PICK e : e = d - 1 OBVIOUS
    <3>4. Due(b) = e /\ e + 1 = d
      BY <3>3, <2>9, <2>12, <2>16
    <3>5. /\ Val' = IF ~HasTaker(b) THEN v ELSE value'
          /\ Waiting' = SubSeq(b, e + 1, Len(b))
          /\ Returned' = Served(b, e, r, n, v)
      BY <3>1, <3>2, <3>4, <2>8, Handing
    <3>6. HasTaker(b) <=> HasTaker(q)
      BY <2>7, <2>8, <2>9, <2>16, <1>10, TakerTail
    <3>7. Val' = Val
      BY <3>5, <3>6, <2>4, <1>2, <1>9
    <3>8. Waiting' = Waiting
      BY <3>4, <3>5, <2>14, <1>9
    <3>9. PICK D : D = {b[i].thread : i \in 1..e} OBVIOUS
    <3>10. {q[i].thread : i \in 1..d} = {u} \cup D
      BY <3>3, <3>9, <2>13
    <3>11. \A x \in Threads : (IF x = n THEN Done ELSE IF x \in D THEN v ELSE r[x]) =
                              (IF x = n THEN Done ELSE IF x \in {u} \cup D THEN v ELSE o[x])
      BY <2>15
    <3>12. Served(b, e, r, n, v) = Served(q, d, o, n, v)
      BY <3>9, <3>10, <3>11 DEF Served
    <3> QED BY <3>5, <3>7, <3>8, <3>12, <1>9
  <2>17. CASE ~WasReader(u)
    <3>1. EndPut(c, r)
      BY <2>4, <2>17
    <3>2. ~Serving' /\ ret' = [t \in Threads |-> IF t = n THEN Done ELSE r[t]]
      BY <3>1, <1>11
    <3>3. Val' = value' /\ Waiting' = b /\ Returned' = ret'
      BY <3>2, <2>8, Plain
    <3>4. d = 1 /\ q[1].op = "take"
      BY <2>9, <2>12, <2>17
    <3>5. HasTaker(q)
      <4>1. 1 \in DOMAIN q
        BY <2>8, <1>10
      <4> QED BY <4>1, <3>4 DEF HasTaker
    <3>6. Val' = Val
      BY <3>3, <3>5, <2>4, <1>2, <1>9
    <3>7. SubSeq(b, d, Len(b)) = b
      BY <3>4, <2>11
    <3>8. Waiting' = Waiting
      BY <3>3, <3>7, <2>14, <1>9
    <3>9. {q[i].thread : i \in 1..d} = {u}
      BY <3>4, <2>13
    <3>10. Served(q, d, o, n, v) = [t \in Threads |-> IF t = n THEN Done ELSE r[t]]
      BY <3>9, <2>15 DEF Served
    <3> QED BY <3>2, <3>3, <3>6, <3>8, <3>10, <1>9
  <2> QED BY <2>16, <2>17
<1> QED BY <1>12, <1>13

\* What the running thread does is what MVarSpec allows.
LEMMA OperationMaps ==
    ASSUME IndInv, NEW c \in Caps, NEW t \in Threads, Operation(c, t)
    PROVE  AtOnce!Operation(t)
<1>1. CASE Take(c, t)
  <2>1. Calls(c, t)
    BY <1>1 DEF Take
  <2> QED BY <2>1, <1>1, TakeMaps, BlockMaps DEF Take
<1>2. CASE Read(c, t)
  <2>1. Calls(c, t)
    BY <1>2 DEF Read
  <2> QED BY <2>1, <1>2, ReturnMaps, BlockMaps DEF Read
<1>3. CASE TryTake(c, t)
  BY <1>3, TakeMaps DEF TryTake
<1>4. CASE TryFails(c, t)
  <2>1. Calls(c, t)
    BY <1>4 DEF TryFails
  <2> QED BY <2>1, <1>4, ReturnMaps
<1>5. ASSUME NEW v \in Values, Calls(c, t), StartPut(c, v) PROVE AtOnce!Operation(t)
  <2>1. lock = Free /\ running[c] = t /\ running' = running /\ tso_link[t] = END
    BY <1>5, Caller
  <2>2. PICK r : r = [ret EXCEPT ![t] = Done] OBVIOUS
  <2>3. v \in Everything
    BY Constants
  <2>4. Val = Empty /\ Returned = ret /\ AtOnce!Fill(v, r)
    BY <1>5, <2>1, <2>2, <2>3, PutMaps
  <2>5. AtOnce!Fill(v, [Returned EXCEPT ![t] = Done])
    BY <2>2, <2>4
  <2>6. AtOnce!Put(t, v)
    BY <2>4, <2>5 DEF AtOnce!Put
  <2>7. ~AtOnce!Waits(t)
    BY <1>5, CallerWaitsNot
  <2> QED BY <2>3, <2>6, <2>7 DEF AtOnce!Operation
<1>6. ASSUME NEW v \in Values, Put(c, t, v) PROVE AtOnce!Operation(t)
  <2>1. Calls(c, t) /\ (StartPut(c, v) \/ PutBlocks(c, t, v))
    BY <1>6 DEF Put
  <2> QED BY <2>1, <1>5, BlockMaps
<1>7. ASSUME NEW v \in Values, TryPut(c, t, v) PROVE AtOnce!Operation(t)
  BY <1>5, <1>7 DEF TryPut
<1> QED BY <1>1, <1>2, <1>3, <1>4, <1>6, <1>7 DEF Operation

\* What C code does is, or changes nothing yet.
LEMMA ForeignMaps ==
    ASSUME IndInv, NEW c \in Caps,
           (\E v \in ForeignValues \cup {Unit} : ForeignPut(c, v)) \/ DeferredPut(c)
    PROVE  AtOnce!Next \/ UNCHANGED <<Val, Waiting, Returned>>
<1>1. ASSUME NEW v \in Everything, StartPut(c, v), pc[c] = "sched", lock = Free, running' = running
      PROVE  AtOnce!Next
  <2>1. running[c] \notin Threads
    BY <1>1, Constants DEF IndInv, RunOK
  <2>2. PICK r : r = ret OBVIOUS
  <2>3. Val = Empty /\ Returned = ret /\ AtOnce!Fill(v, r)
    BY <1>1, <2>1, <2>2, PutMaps
  <2>4. AtOnce!ForeignPut(v)
    BY <2>2, <2>3 DEF AtOnce!ForeignPut
  <2> QED BY <2>4 DEF AtOnce!Next
<1>2. ASSUME UNCHANGED <<lock, value, queue, thread, pc, offer, running>>
      PROVE  UNCHANGED <<Val, Waiting, Returned>>
  BY <1>2 DEF Val, Waiting, Returned, Serving, Queued, Live, Waiter, queue, thread
<1>3. CASE DeferredPut(c)
  <2>1. pc[c] = "sched" /\ lock = Free /\ running' = running
    BY <1>3 DEF DeferredPut
  <2>2. CASE StartPut(c, Unit)
    BY <2>1, <2>2, <1>1, Constants
  <2>3. CASE UNCHANGED <<lock, value, queue, thread, pc, offer, inbox>>
    BY <2>1, <2>3, <1>2
  <2> QED BY <1>3, <2>2, <2>3 DEF DeferredPut
<1>4. ASSUME NEW v \in ForeignValues \cup {Unit}, ForeignPut(c, v)
      PROVE  AtOnce!Next \/ UNCHANGED <<Val, Waiting, Returned>>
  <2>1. running' = running
    BY <1>4 DEF ForeignPut
  <2>2. CASE pc[c] = "sched" /\ lock = Free /\ StartPut(c, v)
    <3>1. v \in Everything
      BY Constants
    <3> QED BY <2>1, <2>2, <3>1, <1>1
  <2>3. CASE UNCHANGED <<lock, value, queue, thread, pc, offer, inbox>>
    BY <2>1, <2>3, <1>2
  <2> QED BY <1>4, <2>2, <2>3 DEF ForeignPut
<1> QED BY <1>3, <1>4

\* A wakeup is not seen: the operation has been done before.
LEMMA WakeMaps ==
    ASSUME IndInv, NEW t \in Threads,
           UNCHANGED <<lock, value, queue, tso_link, arg, ret, running, pc, offer>>,
           (why' = [why EXCEPT ![t] = "NotBlocked"] /\ tso_link[t] = END) \/ why' = why
    PROVE  UNCHANGED <<Val, Waiting, Returned>>
<1>1. \A u \in Threads : tso_link[u] # END => why'[u] = why[u] /\ arg'[u] = arg[u]
  BY DEF IndInv, TypeOK
<1>2. /\ Find(entry', head', Overwritten) = Live
      /\ \A i \in 1..Len(Live) : entry'[Live[i]].tso = entry[Live[i]].tso
  BY DEF queue, Live
<1>3. Queued' = Queued
  BY <1>1, <1>2, QueuedSame
<1> QED BY <1>3, Unseen DEF Serving

\* Exceptions
LEMMA ExceptionMaps ==
    ASSUME IndInv, (\E t \in Threads : ThrowTo(t)) \/ (\E c \in Caps : PausedException(c))
    PROVE  AtOnce!Next \/ UNCHANGED <<Val, Waiting, Returned>>
<1>1. /\ TypeOK /\ RunOK /\ LockOK
  BY DEF IndInv
<1>2. ASSUME NEW t \in Threads, ThrowTo(t)
      PROVE  AtOnce!Next \/ UNCHANGED <<Val, Waiting, Returned>>
  <2>1. UNCHANGED <<lock, value, running, pc, offer, inbox, putMVars>> /\ lock = Free
    BY <1>2 DEF ThrowTo
  <2>2. CASE tso_link[t] # END /\ Revoke(t)
    <3>1. ~Serving
      BY <2>1 DEF Serving
    <3>2. AtOnce!Interrupt(t)
      BY <2>1, <2>2, <3>1, RevokeMaps
    <3> QED BY <3>2 DEF AtOnce!Next
  <2>3. CASE /\ tso_link[t] = END
             /\ why' = [why EXCEPT ![t] = "NotBlocked"]
             /\ UNCHANGED <<queue, tso_link, arg, ret>>
    BY <2>1, <2>3, WakeMaps
  <2> QED BY <1>2, <2>2, <2>3 DEF ThrowTo, RaiseInBlocked
<1>3. ASSUME NEW c \in Caps, PausedException(c) PROVE AtOnce!Next
  <2>1. /\ pc[c] = "blocking" /\ why[running[c]] # "NotBlocked" /\ Revoke(running[c])
        /\ UNCHANGED <<lock, value, running, pc, offer, inbox, putMVars>>
    BY <1>3 DEF PausedException
  <2>2. running[c] \in Threads /\ tso_link[running[c]] # END
    BY <2>1, <1>1 DEF RunOK
  <2>3. ~Serving
    BY <2>1, <1>1 DEF Serving, LockOK
  <2>4. AtOnce!Interrupt(running[c])
    BY <2>1, <2>2, <2>3, RevokeMaps
  <2> QED BY <2>2, <2>4 DEF AtOnce!Next
<1> QED BY <1>2, <1>3

\* The scheduler, the messages and the collector
LEMMA OthersUnseen ==
    ASSUME IndInv,
           \/ \E c \in Caps : Dispatch(c) \/ Yield(c) \/ Blocked(c)
           \/ \E t \in Threads : DeliverWakeup(t)
           \/ CollectGarbage
    PROVE  UNCHANGED <<Val, Waiting, Returned>>
<1>1. TypeOK /\ LockOK /\ QueueOK
  BY DEF IndInv
<1>2. ASSUME NEW c \in Caps, Dispatch(c) \/ Yield(c) \/ Blocked(c)
      PROVE  UNCHANGED <<Val, Waiting, Returned>>
  <2>1. /\ UNCHANGED <<value, queue, why, arg, ret, offer>>
        /\ pc[c] # "serve" /\ lock' = IF pc[c] = "blocking" THEN Free ELSE lock
    BY <1>2 DEF Dispatch, Yield, Blocked, thread
  <2>2. PICK p \in {"sched", "run"}, r \in Threads \cup {NoThread} :
           pc' = [pc EXCEPT ![c] = p] /\ running' = [running EXCEPT ![c] = r]
    BY <1>2 DEF Dispatch, Yield, Blocked
  <2>3. Queued' = Queued
    BY <2>1 DEF Queued, Live, Waiter, queue
  <2>4. CASE pc[c] = "blocking"
    <3>1. ~Serving /\ ~Serving'
      BY <2>1, <2>4, <1>1 DEF Serving, LockOK
    <3> QED BY <2>1, <2>3, <3>1, Unseen
  <2>5. CASE pc[c] # "blocking"
    <3>1. lock' = lock
      BY <2>1, <2>5
    <3>2. (lock = Free \/ lock \in Caps) /\ lock # c
      BY <2>1, <2>5, <1>1 DEF TypeOK, LockOK
    <3>3. (Serving' <=> Serving) /\ (Serving => running'[lock] = running[lock])
      BY <2>2, <3>1, <3>2, <1>1 DEF Serving, TypeOK
    <3> QED BY <2>1, <2>3, <3>1, <3>3, Unseen
  <2> QED BY <2>4, <2>5
<1>3. ASSUME NEW t \in Threads, DeliverWakeup(t)
      PROVE  UNCHANGED <<Val, Waiting, Returned>>
  BY <1>3, WakeMaps DEF DeliverWakeup
<1>4. CASE CollectGarbage
  <2>1. /\ \A c \in Caps : pc[c] = "sched"
        /\ UNCHANGED <<lock, value, why, arg, ret, running, pc, offer>>
    BY <1>4 DEF CollectGarbage, thread
  <2>2. /\ Find(entry', head', Overwritten) = Live
        /\ \A i \in 1..Len(Live) : entry'[Live[i]].tso = entry[Live[i]].tso
    BY <1>1, <1>4, QueueCollects
  <2>3. Queued' = Queued
    BY <2>1, <2>2, QueuedSame
  <2> QED BY <2>1, <2>3, Unseen DEF Serving
<1> QED BY <1>2, <1>3, <1>4

\* Every step is one of MVarSpec, or MVarSpec does not see it.
LEMMA NextMaps == IndInv /\ [Next]_vars => [AtOnce!Next]_(AtOnce!vars)
<1> SUFFICES ASSUME IndInv, [Next]_vars
             PROVE  AtOnce!Next \/ UNCHANGED <<Val, Waiting, Returned>>
  BY DEF AtOnce!vars
<1>1. CASE UNCHANGED vars
  BY <1>1 DEF vars, Val, Waiting, Returned, Serving, Queued, Live, Waiter, queue, thread
<1>2. ASSUME NEW c \in Caps, NEW t \in Threads, Operation(c, t) PROVE AtOnce!Next
  <2>1. AtOnce!Operation(t)
    BY <1>2, OperationMaps
  <2> QED BY <2>1 DEF AtOnce!Next
<1>3. ASSUME NEW c \in Caps, Serve(c) PROVE UNCHANGED <<Val, Waiting, Returned>>
  BY <1>3, ServeMaps
<1>4. ASSUME NEW c \in Caps, Blocked(c) \/ Dispatch(c) \/ Yield(c)
      PROVE  UNCHANGED <<Val, Waiting, Returned>>
  BY <1>4, OthersUnseen
<1>5. ASSUME NEW c \in Caps, PausedException(c)
      PROVE  AtOnce!Next \/ UNCHANGED <<Val, Waiting, Returned>>
  BY <1>5, ExceptionMaps
<1>6. ASSUME NEW c \in Caps, (\E v \in ForeignValues \cup {Unit} : ForeignPut(c, v)) \/ DeferredPut(c)
      PROVE  AtOnce!Next \/ UNCHANGED <<Val, Waiting, Returned>>
  BY <1>6, ForeignMaps
<1>7. ASSUME NEW t \in Threads, ThrowTo(t)
      PROVE  AtOnce!Next \/ UNCHANGED <<Val, Waiting, Returned>>
  BY <1>7, ExceptionMaps
<1>8. ASSUME NEW t \in Threads, DeliverWakeup(t) PROVE UNCHANGED <<Val, Waiting, Returned>>
  BY <1>8, OthersUnseen
<1>9. CASE CollectGarbage
  BY <1>9, OthersUnseen
<1> QED BY <1>1, <1>2, <1>3, <1>4, <1>5, <1>6, <1>7, <1>8, <1>9 DEF Next

\* MVars implement MVarSpec: every operation takes effect at one instant (a put when it
\* begins, for all whom it is going to serve), blocked ones are performed in their
\* order, readers first, and an exception revokes an operation altogether or not at all.
THEOREM Atomicity == Spec => AtomicFIFO
<1>1. Init => AtOnce!Init
  BY InitMaps
<1>2. IndInv /\ [Next]_vars => [AtOnce!Next]_(AtOnce!vars)
  BY NextMaps
<1> QED BY <1>1, <1>2, Invariance, PTL DEF Spec, AtomicFIFO, AtOnce!Spec

----------------------------------------------------------------------------
\* What MVarSpec promises, of the MVars that implement it.

\* w may wait while the MVar holds v.
MayWait(w, v) ==
    /\ w.op = "put" <=> v # Empty
    /\ w.op = "put" => w.val # Empty

AllMayWait(q, v) ==
    /\ q \in Seq(Waiters)
    /\ \A i \in 1..Len(q) : MayWait(q[i], v)

WaitersMust ==
    /\ Val \in Everything \cup {Empty}
    /\ AllMayWait(Waiting, Val)

\* A thread that may wait can join the queue at either end (takeMVar and putMVar at
\* the end, readMVar in front).
LEMMA JoinsToo ==
    ASSUME NEW q, NEW v, NEW w \in Waiters, AllMayWait(q, v), MayWait(w, v)
    PROVE  AllMayWait(Append(q, w), v) /\ AllMayWait(<<w>> \o q, v)
<1>1. AllMayWait(Append(q, w), v)
  BY DEF AllMayWait
<1>2. AllMayWait(<<w>> \o q, v)
  <2>1. <<w>> \in Seq(Waiters) /\ Len(<<w>>) = 1 /\ <<w>>[1] = w
    OBVIOUS
  <2>2. /\ <<w>> \o q \in Seq(Waiters)
        /\ Len(<<w>> \o q) = Len(q) + 1
        /\ \A i \in 1..(Len(q) + 1) : (<<w>> \o q)[i] = IF i = 1 THEN w ELSE q[i - 1]
    BY <2>1 DEF AllMayWait
  <2> QED BY <2>2 DEF AllMayWait
<1> QED BY <1>1, <1>2

\* Those behind the n-th, or in front of it, go on waiting.
LEMMA PartsWait ==
    ASSUME NEW q, NEW v, AllMayWait(q, v), NEW n \in 0..Len(q)
    PROVE  AllMayWait(SubSeq(q, n + 1, Len(q)), v) /\ AllMayWait(SubSeq(q, 1, n), v)
<1>1. AllMayWait(SubSeq(q, n + 1, Len(q)), v)
  <2>1. /\ SubSeq(q, n + 1, Len(q)) \in Seq(Waiters)
        /\ Len(SubSeq(q, n + 1, Len(q))) = Len(q) - n
        /\ \A i \in 1..(Len(q) - n) : SubSeq(q, n + 1, Len(q))[i] = q[n + i]
    BY DEF AllMayWait
  <2> QED BY <2>1 DEF AllMayWait
<1>2. AllMayWait(SubSeq(q, 1, n), v)
  <2>1. /\ SubSeq(q, 1, n) \in Seq(Waiters)
        /\ Len(SubSeq(q, 1, n)) = n
        /\ \A i \in 1..n : SubSeq(q, 1, n)[i] = q[i]
    BY DEF AllMayWait
  <2> QED BY <2>1 DEF AllMayWait
<1> QED BY <1>1, <1>2

\* Two parts of the queue make a queue again, when an exception has taken out the
\* thread between them.
LEMMA PartsJoin ==
    ASSUME NEW p, NEW q, NEW v, AllMayWait(p, v), AllMayWait(q, v)
    PROVE  AllMayWait(p \o q, v)
<1>1. /\ p \o q \in Seq(Waiters)
      /\ Len(p \o q) = Len(p) + Len(q)
      /\ \A i \in 1..(Len(p) + Len(q)) :
            (p \o q)[i] = IF i <= Len(p) THEN p[i] ELSE q[i - Len(p)]
  BY DEF AllMayWait
<1> QED BY <1>1 DEF AllMayWait

\* A value that arrives serves everybody who has waited for one, or is taken.
LEMMA FillKeeps ==
    ASSUME WaitersMust, Val = Empty, NEW v \in Everything, NEW returned, AtOnce!Fill(v, returned)
    PROVE  WaitersMust'
<1>1. PICK n \in 0..Len(Waiting) :
        /\ n = Len(Waiting) \/ (n > 0 /\ Waiting[n].op = "take")
        /\ Val' = IF \E i \in 1..n : Waiting[i].op = "take" THEN Empty ELSE v
        /\ Waiting' = SubSeq(Waiting, n + 1, Len(Waiting))
  BY DEF AtOnce!Fill
<1>2. AllMayWait(Waiting', Empty)
  BY <1>1, PartsWait DEF WaitersMust
<1>3. CASE \E i \in 1..n : Waiting[i].op = "take"
  BY <1>1, <1>2, <1>3 DEF WaitersMust
<1>4. CASE ~ \E i \in 1..n : Waiting[i].op = "take"
  <2>1. n = Len(Waiting)
    BY <1>1, <1>4 DEF WaitersMust, AllMayWait
  <2>2. Waiting' \in Seq(Waiters) /\ Len(Waiting') = 0
    BY <1>1, <2>1 DEF WaitersMust, AllMayWait
  <2> QED BY <1>1, <1>4, <2>2 DEF WaitersMust, AllMayWait
<1> QED BY <1>3, <1>4

\* A value that is taken out is replaced by that of the first waiting putMVar.
LEMMA DrainKeeps ==
    ASSUME WaitersMust, Val # Empty, NEW t \in Threads, AtOnce!Drain(t)
    PROVE  WaitersMust'
<1>1. CASE Waiting = <<>>
  BY <1>1 DEF WaitersMust, AllMayWait, AtOnce!Drain
<1>2. CASE Waiting # <<>>
  <2>1. Val' = Head(Waiting).val /\ Waiting' = Tail(Waiting)
    BY <1>2 DEF AtOnce!Drain
  <2>2. /\ Head(Waiting) \in Waiters /\ Head(Waiting) = Waiting[1]
        /\ Len(Waiting) > 0
    BY <1>2 DEF WaitersMust, AllMayWait
  <2>3. MayWait(Waiting[1], Val)
    BY <2>2 DEF WaitersMust, AllMayWait
  <2>4. Val' \in Everything /\ Val' # Empty
    BY <2>1, <2>2, <2>3 DEF MayWait, Waiters
  <2>5. AllMayWait(Tail(Waiting), Val)
    BY <2>2 DEF WaitersMust, AllMayWait
  <2> QED BY <2>1, <2>4, <2>5 DEF WaitersMust, AllMayWait, MayWait
<1> QED BY <1>1, <1>2

\* An MVar is full or empty for everybody who waits: only putMVars wait for a full
\* one, and only takeMVars and readMVars for an empty one.
THEOREM WaitsOnlyIfItMust == Spec => []AtOnce!WaitsForReason
<1>0. Empty \notin Everything
  BY MVarAssumption DEF Everything
<1>1. AtOnce!Init => WaitersMust
  BY DEF AtOnce!Init, WaitersMust, AllMayWait
<1>2. WaitersMust /\ [AtOnce!Next]_(AtOnce!vars) => WaitersMust'
  <2> SUFFICES ASSUME WaitersMust, [AtOnce!Next]_(AtOnce!vars) PROVE WaitersMust'
    OBVIOUS
  <2>1. ASSUME NEW t \in Threads, AtOnce!Take(t) PROVE WaitersMust'
    <3>1. CASE Val = Empty
      BY <2>1, <3>1, JoinsToo DEF AtOnce!Take, AtOnce!Wait, AtOnce!Waiter, Waiters, MayWait, WaitersMust
    <3>2. CASE Val # Empty
      BY <2>1, <3>2, DrainKeeps DEF AtOnce!Take
    <3> QED BY <3>1, <3>2
  <2>2. ASSUME NEW t \in Threads, AtOnce!Read(t) PROVE WaitersMust'
    BY <2>2, JoinsToo DEF AtOnce!Read, AtOnce!Wait, AtOnce!Waiter, Waiters, MayWait, WaitersMust
  <2>3. ASSUME NEW t \in Threads, NEW v \in Everything, AtOnce!Put(t, v) PROVE WaitersMust'
    <3>1. CASE Val # Empty
      BY <1>0, <2>3, <3>1, JoinsToo DEF AtOnce!Put, AtOnce!Wait, AtOnce!Waiter, Waiters, MayWait, WaitersMust
    <3>2. CASE Val = Empty
      BY <2>3, <3>2, <1>0, FillKeeps DEF AtOnce!Put
    <3> QED BY <3>1, <3>2
  <2>4. ASSUME NEW t \in Threads, AtOnce!TryFails(t) PROVE WaitersMust'
    BY <2>4 DEF AtOnce!TryFails, WaitersMust
  <2>5. ASSUME NEW v \in Everything, AtOnce!ForeignPut(v) PROVE WaitersMust'
    BY <2>5, FillKeeps DEF AtOnce!ForeignPut
  <2>6. ASSUME NEW t \in Threads, AtOnce!Interrupt(t) PROVE WaitersMust'
    <3>1. PICK i \in DOMAIN Waiting :
            Waiting' = SubSeq(Waiting, 1, i - 1) \o SubSeq(Waiting, i + 1, Len(Waiting))
      BY <2>6 DEF AtOnce!Interrupt
    <3>2. i \in 1..Len(Waiting)
      BY DEF WaitersMust, AllMayWait
    <3>3. i - 1 \in 0..Len(Waiting) /\ i \in 0..Len(Waiting)
      BY <3>2 DEF WaitersMust, AllMayWait
    <3>4. /\ AllMayWait(SubSeq(Waiting, 1, i - 1), Val)
          /\ AllMayWait(SubSeq(Waiting, i + 1, Len(Waiting)), Val)
      BY <3>3, PartsWait DEF WaitersMust
    <3> QED BY <2>6, <3>1, <3>4, PartsJoin DEF WaitersMust, AtOnce!Interrupt
  <2>7. CASE UNCHANGED AtOnce!vars
    BY <2>7 DEF AtOnce!vars, WaitersMust
  <2> QED BY <2>1, <2>2, <2>3, <2>4, <2>5, <2>6, <2>7 DEF AtOnce!Next, AtOnce!Operation
<1>3. WaitersMust => AtOnce!WaitsForReason
  BY DEF WaitersMust, AllMayWait, MayWait, AtOnce!WaitsForReason
<1> QED BY <1>1, <1>2, <1>3, Atomicity, PTL DEF AtomicFIFO, AtOnce!Spec
=============================================================================
