--------------------------- MODULE SparkPoolProofs --------------------------
(***************************************************************************)
(* For any number of capabilities, any pool size and any closures: no      *)
(* spark disappears without being counted, and pruneSparkQueue keeps       *)
(* exactly the sparks that are worth keeping, in their order.              *)
(*                                                                         *)
(* Pruning works inside the circular array that it reads.  The argument    *)
(* (Holds, Moved): after k rounds the sparks kept so far are in the slots  *)
(* from the old bottom on, at most k of them.  So the next slot to be      *)
(* written is behind the n sparks that are being pruned, but less than n   *)
(* slots behind the k-th: with n < Size it is not the slot of any spark    *)
(* that the loop has yet to read.                                          *)
(*                                                                         *)
(* Counting (Missing, Balanced): what a capability has created, less what  *)
(* it has converted or counted out, what is in its pool and what findSpark *)
(* has in its hands, can differ from 0, because a spark is counted where   *)
(* it was stolen to.  The sum over all capabilities is 0.                  *)
(*                                                                         *)
(* The model's sums and loops are folds of the community modules, which    *)
(* are defined by a CHOOSE of a recursive function: that there is such a   *)
(* function is shown by induction over the subsets of a finite set         *)
(* (SubsetInduct, FoldExists).                                             *)
(***************************************************************************)
EXTENDS SparkPool, FiniteSetTheorems, WellFoundedInduction, TLAPS

----------------------------------------------------------------------------
(* Induction and recursion over the subsets of a finite set                *)

\* Induction over the natural numbers, with the induction hypothesis as a set
LEMMA Induct ==
    ASSUME NEW T, 0 \in T, \A i \in Nat : i \in T => i + 1 \in T
    PROVE  \A i \in Nat : i \in T
<1> SUFFICES ASSUME NEW j \in Nat, j \notin T PROVE FALSE
  OBVIOUS
<1> DEFINE M == {i \in Nat : i \notin T}
<1>1. \E x \in M : \A y \in M : ~ (<<y, x>> \in OpToRel(<, Nat))
  <2>1. M \subseteq Nat /\ M # {}
    OBVIOUS
  <2> HIDE DEF M
  <2> QED BY <2>1, WFMin, NatLessThanWellFounded
<1>2. PICK x \in M : \A y \in M : ~ (<<y, x>> \in OpToRel(<, Nat))
  BY <1>1
<1>3. x # 0
  OBVIOUS
<1>4. x - 1 \in Nat /\ (x - 1) + 1 = x
  BY <1>3
<1>5. x - 1 \notin M
  <2>1. <<x - 1, x>> \in OpToRel(<, Nat)
    BY <1>4 DEF OpToRel
  <2> QED BY <1>2, <2>1
<1>6. x - 1 \in T
  BY <1>4, <1>5
<1> QED BY <1>4, <1>6

\* ch chooses a member of each subset of S.
Chooses(ch, S) == \A s \in SUBSET S : s # {} => ch[s] \in s

\* A subset without the member chosen is one smaller.
LEMMA Smaller ==
    ASSUME NEW S, IsFiniteSet(S), NEW ch, Chooses(ch, S), NEW s \in SUBSET S, s # {}
    PROVE  /\ s \ {ch[s]} \in SUBSET S
           /\ Cardinality(s) \in Nat
           /\ Cardinality(s \ {ch[s]}) \in Nat
           /\ Cardinality(s) = Cardinality(s \ {ch[s]}) + 1
<1>1. ch[s] \in s
  BY DEF Chooses
<1>2. IsFiniteSet(s)
  BY FS_Subset
<1>3. IsFiniteSet(s \ {ch[s]}) /\ Cardinality(s \ {ch[s]}) = Cardinality(s) - 1
  BY <1>1, <1>2, FS_RemoveElement
<1>4. Cardinality(s) \in Nat /\ Cardinality(s \ {ch[s]}) \in Nat
  BY <1>2, <1>3, FS_CardinalityType
<1> QED BY <1>3, <1>4

\* What holds of the empty set, and of a set when it holds without the member chosen,
\* holds of all subsets.
LEMMA SubsetInduct ==
    ASSUME NEW S, IsFiniteSet(S), NEW ch, Chooses(ch, S), NEW T, {} \in T,
           \A s \in SUBSET S : s # {} /\ s \ {ch[s]} \in T => s \in T
    PROVE  \A s \in SUBSET S : s \in T
<1> DEFINE C == {n \in Nat : \A s \in SUBSET S : Cardinality(s) = n => s \in T}
<1>1. 0 \in C
  <2>1. ASSUME NEW s \in SUBSET S, Cardinality(s) = 0 PROVE s \in T
    <3>1. s = {}
      BY <2>1, FS_Subset, FS_EmptySet
    <3> QED BY <3>1
  <2> QED BY <2>1
<1>2. ASSUME NEW n \in Nat, n \in C PROVE n + 1 \in C
  <2>1. ASSUME NEW s \in SUBSET S, Cardinality(s) = n + 1 PROVE s \in T
    <3>1. s # {}
      <4>1. n + 1 # 0
        OBVIOUS
      <4>2. Cardinality({}) = 0
        BY FS_EmptySet
      <4> QED BY <2>1, <4>1, <4>2
    <3>2. s \ {ch[s]} \in SUBSET S /\ Cardinality(s \ {ch[s]}) = n
      BY <2>1, <3>1, Smaller
    <3>3. s \ {ch[s]} \in T
      BY <1>2, <3>2
    <3> QED BY <3>1, <3>3
  <2> QED BY <2>1
<1> HIDE DEF C
<1>3. \A n \in Nat : n \in C
  BY <1>1, <1>2, Induct, Zenon
<1>4. ASSUME NEW s \in SUBSET S PROVE s \in T
  <2>1. Cardinality(s) \in Nat
    BY FS_Subset, FS_CardinalityType
  <2>2. Cardinality(s) \in C
    BY <1>3, <2>1
  <2> QED BY <2>2 DEF C
<1> QED BY <1>4

\* g folds F over the subsets in D, starting from base.
Folds(g, D, ch, base, F) ==
    \A s \in D : g[s] = IF s = {} THEN base ELSE F[<<ch[s], g[s \ {ch[s]}]>>]

\* Such a fold exists.
LEMMA FoldExists ==
    ASSUME NEW S, IsFiniteSet(S), NEW ch, Chooses(ch, S),
           NEW V, NEW base \in V, NEW F, \A x \in S, v \in V : F[<<x, v>>] \in V
    PROVE  \E g \in [SUBSET S -> V] : Folds(g, SUBSET S, ch, base, F)
<1> DEFINE Upto(n) == {s \in SUBSET S : Cardinality(s) <= n}
           C == {n \in Nat : \E g \in [Upto(n) -> V] : Folds(g, Upto(n), ch, base, F)}
<1>1. 0 \in C
  <2> DEFINE g == [s \in Upto(0) |-> base]
  <2>1. ASSUME NEW s \in Upto(0) PROVE s = {}
    <3>1. Cardinality(s) \in Nat
      BY FS_Subset, FS_CardinalityType
    <3> QED BY <3>1, FS_Subset, FS_EmptySet
  <2>2. g \in [Upto(0) -> V]
    OBVIOUS
  <2>3. Folds(g, Upto(0), ch, base, F)
    BY <2>1 DEF Folds
  <2> HIDE DEF g
  <2> QED BY <2>2, <2>3
<1>2. ASSUME NEW n \in Nat, n \in C PROVE n + 1 \in C
  <2>1. PICK g \in [Upto(n) -> V] : Folds(g, Upto(n), ch, base, F)
    BY <1>2
  <2> DEFINE h == [s \in Upto(n + 1) |->
                      IF s = {} THEN base ELSE F[<<ch[s], g[s \ {ch[s]}]>>]]
  <2>2. ASSUME NEW s \in Upto(n + 1), s # {}
        PROVE  /\ s \ {ch[s]} \in Upto(n) /\ s \ {ch[s]} \in Upto(n + 1)
               /\ ch[s] \in S
    <3>1. /\ s \ {ch[s]} \in SUBSET S
          /\ Cardinality(s) \in Nat
          /\ Cardinality(s \ {ch[s]}) \in Nat
          /\ Cardinality(s) = Cardinality(s \ {ch[s]}) + 1
      BY <2>2, Smaller
    <3>2. ch[s] \in S
      BY <2>2 DEF Chooses
    <3> QED BY <3>1, <3>2
  <2>3. ASSUME NEW s \in Upto(n + 1), s # {} PROVE h[s \ {ch[s]}] = g[s \ {ch[s]}]
    <3> DEFINE u == s \ {ch[s]}
    <3>1. u \in Upto(n) /\ u \in Upto(n + 1)
      BY <2>2, <2>3
    <3> HIDE DEF u
    <3>2. g[u] = IF u = {} THEN base ELSE F[<<ch[u], g[u \ {ch[u]}]>>]
      BY <2>1, <3>1 DEF Folds
    <3>3. h[u] = IF u = {} THEN base ELSE F[<<ch[u], g[u \ {ch[u]}]>>]
      BY <3>1
    <3>4. h[u] = g[u]
      BY <3>2, <3>3, Zenon
    <3> QED BY <3>4 DEF u
  <2>4. ASSUME NEW s \in Upto(n + 1) PROVE h[s] \in V
    <3>1. CASE s = {}
      BY <3>1
    <3>2. CASE s # {}
      <4>1. g[s \ {ch[s]}] \in V
        BY <2>2, <3>2
      <4>2. F[<<ch[s], g[s \ {ch[s]}]>>] \in V
        BY <4>1, <2>2, <3>2
      <4> QED BY <3>2, <4>2
    <3> QED BY <3>1, <3>2
  <2>5. Folds(h, Upto(n + 1), ch, base, F)
    <3>1. ASSUME NEW s \in Upto(n + 1)
          PROVE  h[s] = IF s = {} THEN base ELSE F[<<ch[s], h[s \ {ch[s]}]>>]
      <4>1. CASE s = {}
        BY <4>1
      <4>2. CASE s # {}
        <5>1. h[s] = F[<<ch[s], g[s \ {ch[s]}]>>]
          BY <4>2
        <5>2. h[s \ {ch[s]}] = g[s \ {ch[s]}]
          BY <4>2, <2>3
        <5> HIDE DEF h
        <5> QED BY <5>1, <5>2, <4>2, Zenon
      <4> QED BY <4>1, <4>2
    <3> HIDE DEF h
    <3> QED BY <3>1 DEF Folds
  <2>6. h \in [Upto(n + 1) -> V]
    BY <2>4
  <2>7. n + 1 \in Nat
    OBVIOUS
  <2> HIDE DEF h, Upto
  <2> QED BY <2>5, <2>6, <2>7
<1>3. \A n \in Nat : n \in C
  <2> HIDE DEF C
  <2> QED BY <1>1, <1>2, Induct, Zenon
<1>4. Cardinality(S) \in Nat /\ Upto(Cardinality(S)) = SUBSET S
  <2>1. Cardinality(S) \in Nat
    BY FS_CardinalityType
  <2>2. \A s \in SUBSET S : Cardinality(s) <= Cardinality(S)
    BY FS_Subset
  <2> QED BY <2>1, <2>2
<1>5. Cardinality(S) \in C
  BY <1>3, <1>4
<1> HIDE DEF Upto
<1> QED BY <1>4, <1>5

----------------------------------------------------------------------------
(* Sums over the capabilities                                              *)

AnyOf(s) == CHOOSE x \in s : TRUE

\* g has the sums of f over the sets of capabilities.
Sums(g, f) ==
    /\ g \in [SUBSET Caps -> Int]
    /\ \A s \in SUBSET Caps : g[s] = IF s = {} THEN 0 ELSE f[AnyOf(s)] + g[s \ {AnyOf(s)}]

SumOver(f) == (CHOOSE g : Sums(g, f))[Caps]

\* Caps is finite, and AnyOf chooses a member of each of its subsets.
LEMMA CapsFinite ==
    IsFiniteSet(Caps) /\ Caps \in SUBSET Caps /\ \A s \in SUBSET Caps : s # {} => AnyOf(s) \in s
<1>1. NCaps \in Nat \ {0}
  BY SparkPoolAssumption
<1>2. IsFiniteSet(0..(NCaps - 1))
  BY <1>1, FS_Interval
<1> QED BY <1>2 DEF Caps, AnyOf

\* What follows for a set from the set without one of its members holds of Caps.
LEMMA CapsInduct ==
    ASSUME NEW T, {} \in T,
           \A s \in SUBSET Caps : s # {} /\ s \ {AnyOf(s)} \in T => s \in T
    PROVE  \A s \in SUBSET Caps : s \in T
<1> DEFINE ch == [s \in SUBSET Caps |-> AnyOf(s)]
<1>1. Chooses(ch, Caps)
  BY CapsFinite DEF Chooses
<1>2. \A s \in SUBSET Caps : s # {} /\ s \ {ch[s]} \in T => s \in T
  OBVIOUS
<1> HIDE DEF ch
<1> QED BY <1>1, <1>2, CapsFinite, SubsetInduct

\* Every function on Caps can be summed over each set of capabilities.
LEMMA SumsExist ==
    ASSUME NEW f \in [Caps -> Int]
    PROVE  \E g : Sums(g, f)
<1> DEFINE ch == [s \in SUBSET Caps |-> AnyOf(s)]
           F == [p \in Caps \X Int |-> f[p[1]] + p[2]]
<1>1. Chooses(ch, Caps)
  BY CapsFinite DEF Chooses
<1>2. \A x \in Caps, v \in Int : F[<<x, v>>] = f[x] + v /\ F[<<x, v>>] \in Int
  OBVIOUS
<1>3. \A s \in SUBSET Caps : ch[s] = AnyOf(s)
  OBVIOUS
<1> HIDE DEF ch, F
<1>4. PICK g \in [SUBSET Caps -> Int] : Folds(g, SUBSET Caps, ch, 0, F)
  <2>1. \A x \in Caps, v \in Int : F[<<x, v>>] \in Int
    BY <1>2
  <2>2. 0 \in Int /\ IsFiniteSet(Caps)
    BY CapsFinite
  <2> QED BY <1>1, <2>1, <2>2, FoldExists, Zenon
<1>5. ASSUME NEW s \in SUBSET Caps
      PROVE  g[s] = IF s = {} THEN 0 ELSE f[AnyOf(s)] + g[s \ {AnyOf(s)}]
  <2>1. g[s] = IF s = {} THEN 0 ELSE F[<<AnyOf(s), g[s \ {AnyOf(s)}]>>]
    BY <1>3, <1>4, Zenon DEF Folds
  <2>2. CASE s # {}
    <3>1. AnyOf(s) \in Caps /\ g[s \ {AnyOf(s)}] \in Int
      BY <2>2, CapsFinite
    <3>2. F[<<AnyOf(s), g[s \ {AnyOf(s)}]>>] = f[AnyOf(s)] + g[s \ {AnyOf(s)}]
      BY <1>2, <3>1
    <3> QED BY <2>1, <2>2, <3>2
  <2> QED BY <2>1, <2>2
<1> QED BY <1>4, <1>5 DEF Sums

\* The empty sum is 0.
LEMMA SumOfNone ==
    ASSUME NEW f, NEW g, Sums(g, f)
    PROVE  g[{}] = 0
<1>1. {} \in SUBSET Caps
  OBVIOUS
<1> QED BY <1>1 DEF Sums

\* SumOver is the sum over all capabilities.
LEMMA SumsOver ==
    ASSUME NEW f \in [Caps -> Int]
    PROVE  \E g : Sums(g, f) /\ SumOver(f) = g[Caps]
BY SumsExist DEF SumOver

\* If f differs from h by d at c and nowhere else, so do their sums.
LEMMA SumsDiffer ==
    ASSUME NEW f \in [Caps -> Int], NEW h \in [Caps -> Int], NEW c \in Caps, NEW d \in Int,
           NEW g, NEW k, Sums(g, f), Sums(k, h),
           \A x \in Caps : f[x] = h[x] + (IF x = c THEN d ELSE 0)
    PROVE  g[Caps] = k[Caps] + d
<1> DEFINE T == {s \in SUBSET Caps : g[s] = k[s] + (IF c \in s THEN d ELSE 0)}
<1>1. {} \in T
  BY SumOfNone
<1>2. ASSUME NEW s \in SUBSET Caps, s # {}, s \ {AnyOf(s)} \in T PROVE s \in T
  <2> DEFINE a == AnyOf(s)
             u == s \ {a}
  <2>1. a \in s /\ a \in Caps /\ u \in SUBSET Caps
    BY <1>2, CapsFinite
  <2>2. g[s] = f[a] + g[u] /\ k[s] = h[a] + k[u]
    BY <1>2 DEF Sums
  <2>3. g[u] = k[u] + (IF c \in u THEN d ELSE 0)
    BY <1>2
  <2>4. c \in s <=> (c = a \/ c \in u)
    BY <2>1
  <2>5. c = a => c \notin u
    OBVIOUS
  <2>6. g[u] \in Int /\ k[u] \in Int /\ f[a] \in Int /\ h[a] \in Int
    BY <2>1 DEF Sums
  <2>7. f[a] = h[a] + (IF a = c THEN d ELSE 0)
    BY <2>1
  <2> HIDE DEF a, u
  <2>8. g[s] = k[s] + (IF c \in s THEN d ELSE 0)
    <3>1. CASE c = a
      BY <2>2, <2>3, <2>4, <2>5, <2>6, <2>7, <3>1
    <3>2. CASE c # a
      BY <2>2, <2>3, <2>4, <2>6, <2>7, <3>2
    <3> QED BY <3>1, <3>2
  <2> QED BY <2>8
<1> HIDE DEF T
<1>3. \A s \in SUBSET Caps : s \in T
  BY <1>1, <1>2, CapsInduct, Zenon
<1>4. Caps \in T
  BY <1>3, CapsFinite
<1> QED BY <1>4 DEF T

\* There is only one sum.
LEMMA SumIs ==
    ASSUME NEW f \in [Caps -> Int], NEW g, Sums(g, f)
    PROVE  SumOver(f) = g[Caps] /\ SumOver(f) \in Int
<1>1. PICK k : Sums(k, f) /\ SumOver(f) = k[Caps]
  BY SumsOver
<1>2. 0 \in Caps
  BY SparkPoolAssumption DEF Caps
<1>3. \A x \in Caps : f[x] = f[x] + (IF x = 0 THEN 0 ELSE 0)
  OBVIOUS
<1>4. k[Caps] = g[Caps] + 0
  BY <1>1, <1>2, <1>3, SumsDiffer, 0 \in Int
<1>5. g[Caps] \in Int
  BY CapsFinite DEF Sums
<1> QED BY <1>1, <1>4, <1>5

\* One more, or one less, for one capability
LEMMA SumChanges ==
    ASSUME NEW h \in [Caps -> Int], NEW f \in [Caps -> Int], NEW c \in Caps, NEW d \in Int,
           \A x \in Caps : h[x] = f[x] + (IF x = c THEN d ELSE 0)
    PROVE  SumOver(h) = SumOver(f) + d
<1>1. PICK g : Sums(g, f) /\ SumOver(f) = g[Caps]
  BY SumsOver
<1>2. PICK k : Sums(k, h) /\ SumOver(h) = k[Caps]
  BY SumsOver
<1>3. k[Caps] = g[Caps] + d
  BY <1>1, <1>2, SumsDiffer
<1> QED BY <1>1, <1>2, <1>3

\* f is the account of f1, in which f2 to f5 are subtracted.
Accounts(f, f1, f2, f3, f4, f5) ==
    /\ f \in [Caps -> Int] /\ f1 \in [Caps -> Int] /\ f2 \in [Caps -> Int]
    /\ f3 \in [Caps -> Int] /\ f4 \in [Caps -> Int] /\ f5 \in [Caps -> Int]
    /\ \A x \in Caps : f[x] = f1[x] - (f2[x] + f3[x] + f4[x] + f5[x])

\* What a sum is made of
LEMMA SumSplits ==
    ASSUME NEW f, NEW f1, NEW f2, NEW f3, NEW f4, NEW f5, Accounts(f, f1, f2, f3, f4, f5)
    PROVE  /\ SumOver(f) = SumOver(f1)
                             - (SumOver(f2) + SumOver(f3) + SumOver(f4) + SumOver(f5))
           /\ SumOver(f1) \in Int /\ SumOver(f2) \in Int /\ SumOver(f3) \in Int
           /\ SumOver(f4) \in Int /\ SumOver(f5) \in Int
<1>1. PICK g : Sums(g, f) /\ SumOver(f) = g[Caps]
  BY SumsOver DEF Accounts
<1>2. PICK g1 : Sums(g1, f1) /\ SumOver(f1) = g1[Caps]
  BY SumsOver DEF Accounts
<1>3. PICK g2 : Sums(g2, f2) /\ SumOver(f2) = g2[Caps]
  BY SumsOver DEF Accounts
<1>4. PICK g3 : Sums(g3, f3) /\ SumOver(f3) = g3[Caps]
  BY SumsOver DEF Accounts
<1>5. PICK g4 : Sums(g4, f4) /\ SumOver(f4) = g4[Caps]
  BY SumsOver DEF Accounts
<1>6. PICK g5 : Sums(g5, f5) /\ SumOver(f5) = g5[Caps]
  BY SumsOver DEF Accounts
<1> DEFINE T == {s \in SUBSET Caps : g[s] = g1[s] - (g2[s] + g3[s] + g4[s] + g5[s])}
<1>7. {} \in T
  <2>1. /\ g[{}] = 0 /\ g1[{}] = 0 /\ g2[{}] = 0 /\ g3[{}] = 0 /\ g4[{}] = 0 /\ g5[{}] = 0
    BY <1>1, <1>2, <1>3, <1>4, <1>5, <1>6, SumOfNone
  <2> QED BY <2>1
<1>8. ASSUME NEW s \in SUBSET Caps, s # {}, s \ {AnyOf(s)} \in T PROVE s \in T
  <2> DEFINE a == AnyOf(s)
             u == s \ {a}
  <2>1. a \in Caps /\ u \in SUBSET Caps
    BY <1>8, CapsFinite
  <2>2. /\ g[s] = f[a] + g[u] /\ g1[s] = f1[a] + g1[u] /\ g2[s] = f2[a] + g2[u]
        /\ g3[s] = f3[a] + g3[u] /\ g4[s] = f4[a] + g4[u] /\ g5[s] = f5[a] + g5[u]
    BY <1>8, <1>1, <1>2, <1>3, <1>4, <1>5, <1>6 DEF Sums
  <2>3. g[u] = g1[u] - (g2[u] + g3[u] + g4[u] + g5[u])
    BY <1>8
  <2>4. /\ g[u] \in Int /\ g1[u] \in Int /\ g2[u] \in Int /\ g3[u] \in Int
        /\ g4[u] \in Int /\ g5[u] \in Int
    BY <2>1, <1>1, <1>2, <1>3, <1>4, <1>5, <1>6 DEF Sums
  <2>5. /\ f[a] = f1[a] - (f2[a] + f3[a] + f4[a] + f5[a])
        /\ f1[a] \in Int /\ f2[a] \in Int /\ f3[a] \in Int /\ f4[a] \in Int /\ f5[a] \in Int
    BY <2>1 DEF Accounts
  <2> HIDE DEF a, u
  <2>6. g[s] = g1[s] - (g2[s] + g3[s] + g4[s] + g5[s])
    BY <2>2, <2>3, <2>4, <2>5
  <2> QED BY <2>6
<1> HIDE DEF T
<1>9. \A s \in SUBSET Caps : s \in T
  BY <1>7, <1>8, CapsInduct, Zenon
<1>10. Caps \in T /\ Caps \in SUBSET Caps
  BY <1>9, CapsFinite
<1>11. g[Caps] = g1[Caps] - (g2[Caps] + g3[Caps] + g4[Caps] + g5[Caps])
  BY <1>10 DEF T
<1>12. /\ g1[Caps] \in Int /\ g2[Caps] \in Int /\ g3[Caps] \in Int
       /\ g4[Caps] \in Int /\ g5[Caps] \in Int
  BY <1>10, <1>2, <1>3, <1>4, <1>5, <1>6 DEF Sums
<1> QED BY <1>1, <1>2, <1>3, <1>4, <1>5, <1>6, <1>11, <1>12

\* A fold over the capabilities, as the sums of the model are
LEMMA SumsFold ==
    ASSUME NEW f \in [Caps -> Int], NEW iter,
           iter = [s \in SUBSET Caps |->
                      IF s = {} THEN 0 ELSE f[AnyOf(s)] + iter[s \ {AnyOf(s)}]]
    PROVE  Sums(iter, f)
<1>1. \A s \in SUBSET Caps : iter[s] = IF s = {} THEN 0 ELSE f[AnyOf(s)] + iter[s \ {AnyOf(s)}]
  OBVIOUS
<1> DEFINE T == {s \in SUBSET Caps : iter[s] \in Int}
<1>2. {} \in T
  <2>1. {} \in SUBSET Caps
    OBVIOUS
  <2>2. iter[{}] = 0
    BY <1>1, <2>1
  <2> QED BY <2>1, <2>2
<1>3. ASSUME NEW s \in SUBSET Caps, s # {}, s \ {AnyOf(s)} \in T PROVE s \in T
  <2>1. AnyOf(s) \in Caps
    BY <1>3, CapsFinite
  <2>2. iter[s] = f[AnyOf(s)] + iter[s \ {AnyOf(s)}]
    BY <1>1, <1>3
  <2> QED BY <1>3, <2>1, <2>2
<1> HIDE DEF T
<1>4. \A s \in SUBSET Caps : s \in T
  BY <1>2, <1>3, CapsInduct, Zenon
<1>5. iter = [s \in SUBSET Caps |-> iter[s]]
  OBVIOUS
<1>6. iter \in [SUBSET Caps -> Int]
  BY <1>4, <1>5 DEF T
<1> QED BY <1>1, <1>6 DEF Sums

\* The counters of all capabilities
Counts(k) == [c \in Caps |-> stats[c][k]]

\* The total of a counter is the sum of its values.
LEMMA TotalIs ==
    ASSUME NEW k, Counts(k) \in [Caps -> Int]
    PROVE  Total(k) = SumOver(Counts(k))
<1> DEFINE Eq(g) == g = [s \in SUBSET Caps |->
                            IF s = {} THEN 0
                            ELSE stats[CHOOSE x \in s : TRUE][k]
                                   + g[s \ {CHOOSE x \in s : TRUE}]]
           iter == CHOOSE g : Eq(g)
<1>1. Total(k) = iter[Caps]
  BY Zenon DEF Total, MapThenSumSet, MapThenFoldSet
<1>2. PICK g : Sums(g, Counts(k))
  BY SumsExist
<1>3. \A s \in SUBSET Caps : s # {} => Counts(k)[AnyOf(s)] = stats[CHOOSE x \in s : TRUE][k]
  BY CapsFinite DEF Counts, AnyOf
<1>4. Eq(g)
  BY <1>2, <1>3 DEF Sums, AnyOf
<1>5. Eq(iter)
  <2> HIDE DEF Eq
  <2> QED BY <1>4
<1> HIDE DEF iter
<1>6. iter = [s \in SUBSET Caps |->
                 IF s = {} THEN 0 ELSE Counts(k)[AnyOf(s)] + iter[s \ {AnyOf(s)}]]
  BY <1>3, <1>5 DEF AnyOf
<1> QED BY <1>1, <1>6, SumsFold, SumIs

\* The sizes of all pools
Sizes == [c \in Caps |-> SparkPoolSize(pool[c])]

\* The sparks that remain are the sum of the sizes of the pools.
LEMMA RemainingIs ==
    ASSUME Sizes \in [Caps -> Int]
    PROVE  Remaining = SumOver(Sizes)
<1> DEFINE Eq(g) == g = [s \in SUBSET Caps |->
                            IF s = {} THEN 0
                            ELSE SparkPoolSize(pool[CHOOSE x \in s : TRUE])
                                   + g[s \ {CHOOSE x \in s : TRUE}]]
           iter == CHOOSE g : Eq(g)
<1>1. Remaining = iter[Caps]
  BY Zenon DEF Remaining, MapThenSumSet, MapThenFoldSet
<1>2. PICK g : Sums(g, Sizes)
  BY SumsExist
<1>3. \A s \in SUBSET Caps :
        s # {} => Sizes[AnyOf(s)] = SparkPoolSize(pool[CHOOSE x \in s : TRUE])
  BY CapsFinite DEF Sizes, AnyOf
<1>4. Eq(g)
  BY <1>2, <1>3 DEF Sums, AnyOf
<1>5. Eq(iter)
  <2> HIDE DEF Eq
  <2> QED BY <1>4
<1> HIDE DEF iter
<1>6. iter = [s \in SUBSET Caps |-> IF s = {} THEN 0 ELSE Sizes[AnyOf(s)] + iter[s \ {AnyOf(s)}]]
  BY <1>3, <1>5 DEF AnyOf
<1> QED BY <1>1, <1>6, SumsFold, SumIs

----------------------------------------------------------------------------
(* Loops: folds over the numbers 1..n, the last one first                  *)

\* Max is the member chosen.
LEMMA MaxChooses ==
    ASSUME NEW n \in Nat
    PROVE  /\ IsFiniteSet(1..n)
           /\ \A s \in SUBSET (1..n) : s # {} => Max(s) \in s
           /\ \A k \in 1..n : Max(1..k) = k
<1>1. IsFiniteSet(1..n)
  BY FS_Interval
<1>2. ASSUME NEW s \in SUBSET (1..n), s # {} PROVE Max(s) \in s
  <2> DEFINE M == {n - x : x \in s}
  <2>1. \E d \in M : \A e \in M : ~ (<<e, d>> \in OpToRel(<, Nat))
    <3>1. M \subseteq Nat
      OBVIOUS
    <3>2. PICK y : y \in s
      BY <1>2
    <3>3. n - y \in M
      BY <3>2
    <3> HIDE DEF M
    <3> QED BY <3>1, <3>3, WFMin, NatLessThanWellFounded
  <2>2. PICK d \in M : \A e \in M : ~ (<<e, d>> \in OpToRel(<, Nat))
    BY <2>1
  <2>3. PICK x \in s : d = n - x
    OBVIOUS
  <2>4. ASSUME NEW y \in s PROVE x >= y
    <3>1. n - y \in M /\ n - y \in Nat /\ n - x \in Nat
      OBVIOUS
    <3>2. ~ (<<n - y, n - x>> \in OpToRel(<, Nat))
      BY <2>2, <2>3, <3>1
    <3>3. ~ (n - y < n - x)
      BY <3>1, <3>2 DEF OpToRel
    <3> QED BY <3>3
  <2>5. \E z \in s : \A y \in s : z >= y
    BY <2>4
  <2> QED BY <2>5 DEF Max
<1>3. ASSUME NEW k \in 1..n PROVE Max(1..k) = k
  <2>1. k \in 1..k /\ \A y \in 1..k : k >= y
    OBVIOUS
  <2>2. \A z \in 1..k : (\A y \in 1..k : z >= y) => z = k
    OBVIOUS
  <2> QED BY <2>1, <2>2 DEF Max
<1> QED BY <1>1, <1>2, <1>3

\* The loop that applies F to 1, ..., n in turn
Loops(g, n, base, F) ==
    \A s \in SUBSET (1..n) : g[s] = IF s = {} THEN base ELSE F[<<Max(s), g[s \ {Max(s)}]>>]

\* What a loop of n rounds computes from base, as FoldLeft defines it, exists.
LEMMA LoopExists ==
    ASSUME NEW n \in Nat, NEW V, NEW base \in V, NEW F,
           \A x \in 1..n, v \in V : F[<<x, v>>] \in V
    PROVE  \E g \in [SUBSET (1..n) -> V] : Loops(g, n, base, F)
<1> DEFINE ch == [s \in SUBSET (1..n) |-> Max(s)]
<1>1. Chooses(ch, 1..n)
  BY MaxChooses DEF Chooses
<1>2. \A s \in SUBSET (1..n) : ch[s] = Max(s)
  OBVIOUS
<1>3. IsFiniteSet(1..n)
  BY MaxChooses
<1> HIDE DEF ch
<1>4. PICK g \in [SUBSET (1..n) -> V] : Folds(g, SUBSET (1..n), ch, base, F)
  BY <1>1, <1>3, FoldExists
<1>5. Loops(g, n, base, F)
  BY <1>2, <1>4, Zenon DEF Folds, Loops
<1> QED BY <1>5


----------------------------------------------------------------------------
(* Types                                                                   *)

Slots == 0..(Size - 1)

Pools == [top : Nat, bottom : Nat, elements : [Slots -> Closures \cup {NoClosure}]]

\* What pruneSparkQueue's loop works on
Loop == [elements : [Slots -> Closures \cup {NoClosure}], botInd : Slots,
         fizzled : Nat, gcd : Nat]

----------------------------------------------------------------------------
(* Indices modulo Size                                                     *)

\* A pool has at least one slot.
LEMMA SizeIs == Size \in Nat \ {0}
BY SparkPoolAssumption

\* Division with remainder
LEMMA DivMod ==
    ASSUME NEW n \in Nat \ {0}, NEW i \in Nat
    PROVE  i = n * (i \div n) + (i % n) /\ i \div n \in Nat /\ i % n \in 0..(n - 1)
OBVIOUS

\* A number less than n is its own remainder.
LEMMA Small ==
    ASSUME NEW n \in Nat \ {0}, NEW i \in 0..(n - 1)
    PROVE  i % n = i
OBVIOUS

\* A positive multiple of n is at least n.
LEMMA MultipleAtLeast ==
    ASSUME NEW n \in Nat \ {0}, NEW d \in Nat \ {0}
    PROVE  n * d >= n
OBVIOUS

\* The difference of two multiples of n is one.
LEMMA Distributes ==
    ASSUME NEW n \in Nat \ {0}, NEW a \in Int, NEW b \in Int
    PROVE  n * b - n * a = n * (b - a)
OBVIOUS

\* The quotient does not grow while the number stays the same.
LEMMA Same ==
    ASSUME NEW n \in Nat \ {0}, NEW a \in Nat, NEW b \in Nat, NEW r \in 0..(n - 1),
           NEW s \in 0..(n - 1), n * a + r = n * b + s
    PROVE  ~ (a < b)
<1> SUFFICES ASSUME a < b PROVE FALSE
  OBVIOUS
<1>1. b - a \in Nat \ {0}
  OBVIOUS
<1>2. n * (b - a) >= n
  BY <1>1, MultipleAtLeast
<1>3. n * b - n * a = n * (b - a)
  BY Distributes
<1>4. n * a \in Int /\ n * b \in Int
  OBVIOUS
<1>5. n * b - n * a = r - s
  BY <1>4
<1> QED BY <1>2, <1>3, <1>5

\* There is only one remainder.
LEMMA Remainder ==
    ASSUME NEW n \in Nat \ {0}, NEW a \in Nat, NEW r \in 0..(n - 1), NEW i \in Nat, i = n * a + r
    PROVE  i % n = r
<1> DEFINE b == i \div n
           s == i % n
<1>1. b \in Nat /\ s \in 0..(n - 1) /\ i = n * b + s
  BY DivMod
<1> HIDE DEF b, s
<1>2. ~ (a < b) /\ ~ (b < a)
  BY <1>1, Same
<1>3. a = b
  BY <1>1, <1>2
<1>4. n * a \in Int
  OBVIOUS
<1>5. s = r
  BY <1>1, <1>3, <1>4
<1> QED BY <1>5 DEF s

\* Going on by n makes no difference.
LEMMA Wraps ==
    ASSUME NEW n \in Nat \ {0}, NEW i \in Nat
    PROVE  (n + i) % n = i % n
<1> DEFINE a == i \div n
           r == i % n
<1>1. a \in Nat /\ r \in 0..(n - 1) /\ i = n * a + r
  BY DivMod
<1> HIDE DEF a, r
<1>2. n * (a + 1) = n * a + n
  BY <1>1
<1>3. n * a \in Int
  BY <1>1
<1>4. n + i = n * (a + 1) + r
  BY <1>1, <1>2, <1>3
<1>5. (n + i) % n = r
  BY <1>1, <1>4, Remainder, n + i \in Nat, a + 1 \in Nat
<1> QED BY <1>5 DEF r

\* index & moduloSize, for an index that has wrapped around at most once
LEMMA SlotOf ==
    /\ \A i \in Nat : i % Size \in Slots
    /\ \A i \in Nat : i < Size => i % Size = i
    /\ \A i \in Nat : Size <= i /\ i < 2 * Size => i % Size = i - Size
<1>1. ASSUME NEW i \in Nat PROVE i % Size \in Slots
  BY SizeIs, DivMod DEF Slots
<1>2. ASSUME NEW i \in Nat, i < Size PROVE i % Size = i
  <2>1. i \in 0..(Size - 1)
    BY <1>2, SizeIs
  <2> QED BY <2>1, SizeIs, Small
<1>3. ASSUME NEW i \in Nat, Size <= i, i < 2 * Size PROVE i % Size = i - Size
  <2>1. i - Size \in Nat /\ i = Size + (i - Size) /\ i - Size < Size
    BY <1>3, SizeIs
  <2>2. i % Size = (i - Size) % Size
    BY <2>1, SizeIs, Wraps
  <2> QED BY <1>2, <2>1, <2>2
<1> QED BY <1>1, <1>2, <1>3

\* An index can be reduced before something is added to it.
LEMMA Reduced ==
    ASSUME NEW n \in Nat \ {0}, NEW i \in Nat, NEW j \in Nat
    PROVE  (i + j) % n = ((i % n) + j) % n
<1> DEFINE r == i % n
           C == {d \in Nat : (n * d + r + j) % n = (r + j) % n}
<1>1. i = n * (i \div n) + r /\ i \div n \in Nat /\ r \in Nat
  BY DivMod
<1> HIDE DEF r
<1>2. 0 \in C
  BY <1>1
<1>3. ASSUME NEW d \in Nat, d \in C PROVE d + 1 \in C
  <2>1. n * (d + 1) + r + j = n + (n * d + r + j)
    BY <1>1
  <2>2. n * d \in Nat
    OBVIOUS
  <2>3. n * d + r + j \in Nat
    BY <1>1, <2>2
  <2>4. (n + (n * d + r + j)) % n = (n * d + r + j) % n
    BY <2>3, Wraps
  <2> QED BY <1>3, <2>1, <2>4
<1> HIDE DEF C
<1>4. \A d \in Nat : d \in C
  BY <1>2, <1>3, Induct, Zenon
<1>5. (n * (i \div n) + r + j) % n = (r + j) % n
  BY <1>1, <1>4 DEF C
<1>6. i + j = n * (i \div n) + r + j
  BY <1>1
<1> QED BY <1>5, <1>6 DEF r

----------------------------------------------------------------------------
(* The loop of pruneSparkQueue                                             *)

Rounds(q) ==
    LET currInd   == q.top % Size
        oldBotInd == q.bottom % Size
    IN  (oldBotInd - currInd + Size) % Size

Start(q) == [elements |-> q.elements, botInd |-> q.bottom % Size, fizzled |-> 0, gcd |-> 0]

\* Round k, counted from 0
Round(q, alive, acc, k) ==
    LET p == acc.elements[((q.top % Size) + k) % Size]
        v == Verdict(p, alive)
    IN  IF v = "keep"
        THEN [acc EXCEPT !.elements[acc.botInd] = p, !.botInd = (@ + 1) % Size]
        ELSE [acc EXCEPT ![v] = @ + 1]

\* pruneSparkQueue goes round its loop fewer than Size times.
LEMMA RoundsIn ==
    ASSUME NEW q \in Pools
    PROVE  Rounds(q) \in Slots /\ Rounds(q) \in Nat
<1> DEFINE c == q.top % Size
           o == q.bottom % Size
<1>1. c \in Slots /\ o \in Slots
  BY SlotOf DEF Pools
<1>2. Rounds(q) = (o - c + Size) % Size
  BY DEF Rounds
<1> HIDE DEF c, o
<1>3. o - c + Size \in Nat
  BY <1>1, SizeIs DEF Slots
<1> QED BY <1>2, <1>3, SlotOf, SizeIs DEF Slots

\* Every spark is kept or counted out in one of two ways.
LEMMA VerdictIs ==
    ASSUME NEW p, NEW alive
    PROVE  Verdict(p, alive) \in {"keep", "fizzled", "gcd"}
BY DEF Verdict

\* A round keeps the types of the loop's variables.
LEMMA RoundType ==
    ASSUME NEW q \in Pools, NEW alive, NEW acc \in Loop, NEW k \in Nat
    PROVE  Round(q, alive, acc, k) \in Loop
<1> DEFINE p == acc.elements[((q.top % Size) + k) % Size]
           v == Verdict(p, alive)
<1>1. q.top % Size \in Nat
  BY SlotOf DEF Pools, Slots
<1>2. ((q.top % Size) + k) % Size \in Slots
  BY <1>1, SlotOf
<1>3. p \in Closures \cup {NoClosure}
  BY <1>2 DEF Loop
<1>4. v \in {"keep", "fizzled", "gcd"}
  BY VerdictIs
<1>5. Round(q, alive, acc, k) =
        IF v = "keep"
        THEN [acc EXCEPT !.elements[acc.botInd] = p, !.botInd = (@ + 1) % Size]
        ELSE [acc EXCEPT ![v] = @ + 1]
  BY DEF Round
<1> HIDE DEF p, v
<1>6. acc.botInd \in Slots /\ acc.botInd + 1 \in Nat
  BY SizeIs DEF Loop, Slots
<1>7. (acc.botInd + 1) % Size \in Slots
  BY <1>6, SlotOf
<1>8. CASE v = "keep"
  <2> DEFINE e == [acc.elements EXCEPT ![acc.botInd] = p]
             b == (acc.botInd + 1) % Size
  <2>1. e \in [Slots -> Closures \cup {NoClosure}]
    BY <1>3 DEF Loop
  <2>2. Round(q, alive, acc, k) = [acc EXCEPT !.elements = e, !.botInd = b]
    BY <1>5, <1>8 DEF Loop
  <2> HIDE DEF e, b
  <2>3. b \in Slots
    BY <1>7 DEF b
  <2> QED BY <2>1, <2>2, <2>3 DEF Loop
<1>9. CASE v = "fizzled"
  <2>1. Round(q, alive, acc, k) = [acc EXCEPT !.fizzled = @ + 1]
    BY <1>5, <1>9
  <2> QED BY <2>1 DEF Loop
<1>10. CASE v = "gcd"
  <2>1. Round(q, alive, acc, k) = [acc EXCEPT !.gcd = @ + 1]
    BY <1>5, <1>10
  <2> QED BY <2>1 DEF Loop
<1> QED BY <1>4, <1>8, <1>9, <1>10

\* The rounds of the loop, one after the other
LEMMA PruneRounds ==
    ASSUME NEW q \in Pools, NEW alive
    PROVE  \E a \in [0..Rounds(q) -> Loop] :
              /\ a[0] = Start(q)
              /\ \A k \in 0..(Rounds(q) - 1) : a[k + 1] = Round(q, alive, a[k], k)
              /\ PruneLoop(q, alive) = a[Rounds(q)]
<1> DEFINE n == Rounds(q)
           seq == [k \in 1..n |-> k - 1]
           F == [p \in (1..n) \X Loop |-> Round(q, alive, p[2], p[1] - 1)]
           Eq(g) == g = [s \in SUBSET (DOMAIN seq) |->
                            IF s = {} THEN Start(q)
                            ELSE Round(q, alive, g[s \ {Max(s)}], seq[Max(s)])]
           iter == CHOOSE g : Eq(g)
<1>1. PruneLoop(q, alive) = iter[DOMAIN seq]
  BY Zenon DEF PruneLoop, FoldLeft, MapThenFoldSet, Rounds, Start, Round
<1>2. n \in Nat
  BY RoundsIn
<1>3. Start(q) \in Loop
  BY SlotOf DEF Start, Pools, Loop
<1>4. \A x \in 1..n, v \in Loop : F[<<x, v>>] = Round(q, alive, v, x - 1) /\ F[<<x, v>>] \in Loop
  <2>1. ASSUME NEW x \in 1..n, NEW v \in Loop
        PROVE  F[<<x, v>>] = Round(q, alive, v, x - 1) /\ F[<<x, v>>] \in Loop
    <3>1. F[<<x, v>>] = Round(q, alive, v, x - 1)
      OBVIOUS
    <3>2. x - 1 \in Nat
      BY <1>2
    <3>3. Round(q, alive, v, x - 1) \in Loop
      BY <3>2, RoundType
    <3> QED BY <3>1, <3>3, Zenon
  <2> HIDE DEF F
  <2> QED BY <2>1
<1>5. DOMAIN seq = 1..n /\ \A x \in 1..n : seq[x] = x - 1
  OBVIOUS
<1> HIDE DEF F, seq, n
<1>6. PICK g \in [SUBSET (1..n) -> Loop] : Loops(g, n, Start(q), F)
  <2>1. \A x \in 1..n, v \in Loop : F[<<x, v>>] \in Loop
    BY <1>4
  <2> QED BY <1>2, <1>3, <2>1, LoopExists
<1>7. ASSUME NEW s \in SUBSET (1..n), s # {} PROVE Max(s) \in 1..n
  BY <1>2, <1>7, MaxChooses
<1>8. Eq(g)
  <2>1. ASSUME NEW s \in SUBSET (1..n)
        PROVE  g[s] = IF s = {} THEN Start(q)
                      ELSE Round(q, alive, g[s \ {Max(s)}], seq[Max(s)])
    <3>1. CASE s = {}
      BY <1>6, <3>1 DEF Loops
    <3>2. CASE s # {}
      <4>1. g[s] = F[<<Max(s), g[s \ {Max(s)}]>>]
        BY <1>6, <3>2 DEF Loops
      <4>2. Max(s) \in 1..n /\ g[s \ {Max(s)}] \in Loop
        BY <1>6, <1>7, <3>2
      <4>3. F[<<Max(s), g[s \ {Max(s)}]>>] = Round(q, alive, g[s \ {Max(s)}], Max(s) - 1)
        BY <1>4, <4>2
      <4>4. seq[Max(s)] = Max(s) - 1
        BY <1>5, <4>2
      <4> QED BY <3>2, <4>1, <4>3, <4>4, Zenon
    <3> QED BY <3>1, <3>2
  <2>2. g = [s \in SUBSET (1..n) |-> g[s]]
    BY <1>6
  <2> QED BY <2>1, <2>2, <1>5
<1>9. Eq(iter)
  <2> HIDE DEF Eq
  <2> QED BY <1>8
<1> HIDE DEF iter
<1>10. \A s \in SUBSET (1..n) :
          iter[s] = IF s = {} THEN Start(q)
                    ELSE Round(q, alive, iter[s \ {Max(s)}], seq[Max(s)])
  BY <1>5, <1>9
<1> DEFINE a == [k \in 0..n |-> iter[1..k]]
<1>11. iter[1..0] = Start(q)
  <2>1. 1..0 = {} /\ {} \in SUBSET (1..n)
    OBVIOUS
  <2> QED BY <1>10, <2>1
<1>12. ASSUME NEW k \in 0..(n - 1) PROVE iter[1..(k + 1)] = Round(q, alive, iter[1..k], k)
  <2> DEFINE s == 1..(k + 1)
  <2>1. s \in SUBSET (1..n) /\ s # {} /\ k + 1 \in 1..n
    <3>1. k + 1 \in s
      BY <1>2
    <3>2. k + 1 \in 1..n
      BY <1>2
    <3>3. \A x \in s : x \in 1..n
      BY <1>2
    <3> QED BY <3>1, <3>2, <3>3
  <2>2. Max(s) = k + 1
    BY <2>1, <1>2, MaxChooses
  <2>3. s \ {k + 1} = 1..k
    BY <1>2
  <2>4. seq[k + 1] = k
    <3>1. seq[k + 1] = (k + 1) - 1
      BY <1>5, <2>1
    <3> QED BY <3>1, <1>2
  <2> HIDE DEF s
  <2>5. iter[s] = Round(q, alive, iter[s \ {Max(s)}], seq[Max(s)])
    BY <1>10, <2>1
  <2>6. iter[s] = Round(q, alive, iter[1..k], k)
    BY <2>2, <2>3, <2>4, <2>5, Zenon
  <2> QED BY <2>6 DEF s
<1> DEFINE T == {k \in Nat : k \in 0..n => iter[1..k] \in Loop}
<1>13. 0 \in T
  BY <1>3, <1>11
<1>14. ASSUME NEW k \in Nat, k \in T PROVE k + 1 \in T
  <2>1. CASE k + 1 \in 0..n
    <3>1. k \in 0..(n - 1) /\ iter[1..k] \in Loop
      BY <1>2, <1>14, <2>1
    <3>2. iter[1..(k + 1)] \in Loop
      BY <1>12, <3>1, RoundType
    <3> QED BY <3>2
  <2> QED BY <2>1
<1> HIDE DEF T
<1>15. \A k \in Nat : k \in T
  BY <1>13, <1>14, Induct, Zenon
<1>16. \A k \in 0..n : iter[1..k] \in Loop
  BY <1>15 DEF T
<1>17. a \in [0..n -> Loop] /\ \A k \in 0..n : a[k] = iter[1..k]
  BY <1>16
<1> HIDE DEF a
<1>18. a[0] = Start(q) /\ PruneLoop(q, alive) = a[n]
  BY <1>1, <1>2, <1>5, <1>11, <1>17
<1>19. ASSUME NEW k \in 0..(n - 1) PROVE a[k + 1] = Round(q, alive, a[k], k)
  <2>1. k \in 0..n /\ k + 1 \in 0..n
    BY <1>2
  <2>2. a[k] = iter[1..k] /\ a[k + 1] = iter[1..(k + 1)]
    BY <1>17, <2>1
  <2>3. iter[1..(k + 1)] = Round(q, alive, iter[1..k], k)
    BY <1>12
  <2> QED BY <2>2, <2>3, Zenon
<1> QED BY <1>17, <1>18, <1>19 DEF n

----------------------------------------------------------------------------
(* What the loop moves, and what should be kept                            *)

Entries == Closures \cup {NoClosure}

Keep(kept, p, alive) == IF Verdict(p, alive) = "keep" THEN Append(kept, p) ELSE kept

\* Worthwhile goes through the sparks one by one.
LEMMA WorthwhileRounds ==
    ASSUME NEW t \in Seq(Entries), NEW alive
    PROVE  \E w \in [0..Len(t) -> Seq(Entries)] :
              /\ w[0] = <<>>
              /\ \A k \in 0..(Len(t) - 1) : w[k + 1] = Keep(w[k], t[k + 1], alive)
              /\ Worthwhile(t, alive) = w[Len(t)]
<1> DEFINE n == Len(t)
           V == Seq(Entries)
           F == [p \in (1..n) \X V |-> Keep(p[2], t[p[1]], alive)]
           Eq(g) == g = [s \in SUBSET (DOMAIN t) |->
                            IF s = {} THEN <<>>
                            ELSE Keep(g[s \ {Max(s)}], t[Max(s)], alive)]
           iter == CHOOSE g : Eq(g)
<1>1. Worthwhile(t, alive) = iter[DOMAIN t]
  BY Zenon DEF Worthwhile, FoldLeft, MapThenFoldSet, Keep
<1>2. n \in Nat /\ DOMAIN t = 1..n /\ <<>> \in V /\ \A x \in 1..n : t[x] \in Entries
  OBVIOUS
<1>3. ASSUME NEW v \in V, NEW x \in 1..n PROVE Keep(v, t[x], alive) \in V
  BY <1>2 DEF Keep
<1>4. \A x \in 1..n, v \in V : F[<<x, v>>] = Keep(v, t[x], alive)
  OBVIOUS
<1> HIDE DEF F, n, V
<1>5. \A x \in 1..n, v \in V : F[<<x, v>>] \in V
  BY <1>3, <1>4
<1>6. PICK g \in [SUBSET (1..n) -> V] : Loops(g, n, <<>>, F)
  BY <1>2, <1>5, LoopExists
<1>7. ASSUME NEW s \in SUBSET (1..n), s # {} PROVE Max(s) \in 1..n
  BY <1>2, <1>7, MaxChooses
<1>8. Eq(g)
  <2>1. ASSUME NEW s \in SUBSET (1..n)
        PROVE  g[s] = IF s = {} THEN <<>> ELSE Keep(g[s \ {Max(s)}], t[Max(s)], alive)
    <3>1. CASE s = {}
      BY <1>6, <3>1 DEF Loops
    <3>2. CASE s # {}
      <4>1. g[s] = F[<<Max(s), g[s \ {Max(s)}]>>]
        BY <1>6, <3>2 DEF Loops
      <4>2. Max(s) \in 1..n /\ g[s \ {Max(s)}] \in V
        BY <1>6, <1>7, <3>2
      <4>3. F[<<Max(s), g[s \ {Max(s)}]>>] = Keep(g[s \ {Max(s)}], t[Max(s)], alive)
        BY <1>4, <4>2
      <4> QED BY <3>2, <4>1, <4>3, Zenon
    <3> QED BY <3>1, <3>2
  <2>2. g = [s \in SUBSET (1..n) |-> g[s]]
    BY <1>6
  <2> QED BY <2>1, <2>2, <1>2
<1>9. Eq(iter)
  <2> HIDE DEF Eq
  <2> QED BY <1>8
<1> HIDE DEF iter
<1>10. \A s \in SUBSET (1..n) :
          iter[s] = IF s = {} THEN <<>> ELSE Keep(iter[s \ {Max(s)}], t[Max(s)], alive)
  BY <1>2, <1>9
<1> DEFINE w == [k \in 0..n |-> iter[1..k]]
<1>11. iter[1..0] = <<>>
  <2>1. 1..0 = {} /\ {} \in SUBSET (1..n)
    OBVIOUS
  <2> QED BY <1>10, <2>1
<1>12. ASSUME NEW k \in 0..(n - 1) PROVE iter[1..(k + 1)] = Keep(iter[1..k], t[k + 1], alive)
  <2> DEFINE s == 1..(k + 1)
  <2>1. s \in SUBSET (1..n) /\ s # {} /\ k + 1 \in 1..n
    <3>1. k + 1 \in s
      BY <1>2
    <3>2. k + 1 \in 1..n
      BY <1>2
    <3>3. \A x \in s : x \in 1..n
      BY <1>2
    <3> QED BY <3>1, <3>2, <3>3
  <2>2. Max(s) = k + 1
    BY <2>1, <1>2, MaxChooses
  <2>3. s \ {k + 1} = 1..k
    BY <1>2
  <2> HIDE DEF s
  <2>4. iter[s] = Keep(iter[s \ {Max(s)}], t[Max(s)], alive)
    BY <1>10, <2>1
  <2>5. iter[s] = Keep(iter[1..k], t[k + 1], alive)
    BY <2>2, <2>3, <2>4, Zenon
  <2> QED BY <2>5 DEF s
<1> DEFINE T == {k \in Nat : k \in 0..n => iter[1..k] \in V}
<1>13. 0 \in T
  BY <1>2, <1>11
<1>14. ASSUME NEW k \in Nat, k \in T PROVE k + 1 \in T
  <2>1. CASE k + 1 \in 0..n
    <3>1. k \in 0..(n - 1) /\ k + 1 \in 1..n /\ iter[1..k] \in V
      BY <1>2, <1>14, <2>1
    <3>2. iter[1..(k + 1)] \in V
      BY <1>3, <1>12, <3>1
    <3> QED BY <3>2
  <2> QED BY <2>1
<1> HIDE DEF T
<1>15. \A k \in Nat : k \in T
  BY <1>13, <1>14, Induct, Zenon
<1>16. \A k \in 0..n : iter[1..k] \in V
  BY <1>15 DEF T
<1>17. w \in [0..n -> V] /\ \A k \in 0..n : w[k] = iter[1..k]
  BY <1>16
<1> HIDE DEF w
<1>18. w[0] = <<>> /\ Worthwhile(t, alive) = w[n]
  BY <1>1, <1>2, <1>11, <1>17
<1>19. ASSUME NEW k \in 0..(n - 1) PROVE w[k + 1] = Keep(w[k], t[k + 1], alive)
  <2>1. k \in 0..n /\ k + 1 \in 0..n
    BY <1>2
  <2>2. w[k] = iter[1..k] /\ w[k + 1] = iter[1..(k + 1)]
    BY <1>17, <2>1
  <2>3. iter[1..(k + 1)] = Keep(iter[1..k], t[k + 1], alive)
    BY <1>12
  <2> QED BY <2>2, <2>3, Zenon
<1> QED BY <1>17, <1>18, <1>19 DEF n, V

\* Less than Size apart, and below 2 * Size, are different slots.
LEMMA Apart ==
    ASSUME NEW x \in Nat, NEW y \in Nat, x < y, y - x < Size, y < 2 * Size
    PROVE  x % Size # y % Size
<1>1. x % Size = IF x < Size THEN x ELSE x - Size
  BY SlotOf, SizeIs
<1>2. y % Size = IF y < Size THEN y ELSE y - Size
  BY SlotOf, SizeIs
<1> QED BY <1>1, <1>2, SizeIs

\* The n sparks of q start at slot q.top, and not every slot is taken.
Holds(q, n) ==
    /\ q \in Pools
    /\ n \in Nat /\ n < Size
    /\ q.top < Size /\ q.bottom = q.top + n

\* After k rounds the loop has moved the sparks w behind the old bottom, those that it
\* has not looked at are where they were, and all others are counted.
Moved(q, n, acc, w, k) ==
    LET o == q.bottom % Size
    IN  /\ Len(w) <= k
        /\ acc.botInd = (o + Len(w)) % Size
        /\ \A i \in 1..Len(w) : acc.elements[(o + (i - 1)) % Size] = w[i]
        /\ \A j \in k..(n - 1) :
              acc.elements[(q.top + j) % Size] = q.elements[(q.top + j) % Size]
        /\ Len(w) + acc.fizzled + acc.gcd = k

\* Where the n sparks of a pool end, after top has been reduced modulo the size
LEMMA OldBottom ==
    ASSUME NEW q, NEW n, Holds(q, n)
    PROVE  /\ q.top \in Nat /\ q.top < Size /\ q.top % Size = q.top
           /\ q.bottom % Size \in Slots
           /\ q.bottom % Size = q.top + n \/ q.bottom % Size = (q.top + n) - Size
           /\ Rounds(q) = n
<1> DEFINE c == q.top
           o == q.bottom % Size
<1>1. c \in Nat /\ n \in Nat /\ Size \in Nat \ {0} /\ c < Size /\ n < Size /\ q.bottom = c + n
  BY SizeIs DEF Holds, Pools
<1>2. c % Size = c
  BY <1>1, SlotOf
<1>3. o \in Slots /\ o = IF c + n < Size THEN c + n ELSE (c + n) - Size
  <2>1. o = (c + n) % Size
    BY <1>1
  <2> HIDE DEF o, c
  <2>2. c + n \in Nat /\ c + n < 2 * Size
    BY <1>1
  <2>3. (c + n) % Size \in Slots
    BY <2>2, SlotOf
  <2>4. (c + n) % Size = IF c + n < Size THEN c + n ELSE (c + n) - Size
    BY <1>1, <2>2, SlotOf
  <2> QED BY <2>1, <2>3, <2>4
<1>4. Rounds(q) = (o - (c % Size) + Size) % Size
  BY DEF Rounds
<1> HIDE DEF c, o
<1>5. Rounds(q) = n
  <2>1. CASE c + n < Size
    <3>1. o - c + Size = Size + n
      BY <1>1, <1>3, <2>1
    <3>2. (Size + n) % Size = n
      BY <1>1, SlotOf, Wraps
    <3> QED BY <1>2, <1>4, <3>1, <3>2
  <2>2. CASE ~ (c + n < Size)
    <3>1. o - c + Size = n
      BY <1>1, <1>3, <2>2
    <3>2. n % Size = n
      BY <1>1, SlotOf
    <3> QED BY <1>2, <1>4, <3>1, <3>2
  <2> QED BY <2>1, <2>2
<1> QED BY <1>1, <1>2, <1>3, <1>5 DEF c, o

\* One round
LEMMA MoveStep ==
    ASSUME NEW q, NEW n, Holds(q, n), NEW alive, NEW k \in 0..(n - 1),
           NEW acc \in Loop, NEW w \in Seq(Entries), Moved(q, n, acc, w, k)
    PROVE  Moved(q, n, Round(q, alive, acc, k),
                 Keep(w, q.elements[(q.top + k) % Size], alive), k + 1)
<1> DEFINE o == q.bottom % Size
           c == q.top
           l == Len(w)
           p == q.elements[(c + k) % Size]
           v == Verdict(p, alive)
           b == acc.botInd
           acc2 == Round(q, alive, acc, k)
           w2 == Keep(w, p, alive)
<1>1. /\ c \in Nat /\ c < Size /\ c % Size = c
      /\ o \in Slots /\ o \in Nat /\ o < Size
      /\ o = c + n \/ o = (c + n) - Size
      /\ n \in Nat /\ n < Size /\ Size \in Nat \ {0} /\ k \in Nat /\ k < n
      /\ l \in Nat
  <2>1. /\ c \in Nat /\ c < Size /\ c % Size = c /\ o \in Slots
        /\ o = c + n \/ o = (c + n) - Size
    BY OldBottom
  <2>2. n \in Nat /\ n < Size /\ Size \in Nat \ {0} /\ l \in Nat
    BY SizeIs DEF Holds
  <2> HIDE DEF c, o, l
  <2>3. o \in Nat /\ o < Size
    BY <2>1, <2>2 DEF Slots
  <2>4. k \in Nat /\ k < n
    BY <2>2
  <2> QED BY <2>1, <2>2, <2>3, <2>4
<1>2. /\ l <= k
      /\ b = (o + l) % Size
      /\ \A i \in 1..l : acc.elements[(o + (i - 1)) % Size] = w[i]
      /\ \A j \in k..(n - 1) : acc.elements[(c + j) % Size] = q.elements[(c + j) % Size]
      /\ l + acc.fizzled + acc.gcd = k
  BY DEF Moved
<1>3. acc.fizzled \in Nat /\ acc.gcd \in Nat /\ b \in Slots
      /\ acc.elements \in [Slots -> Entries]
  BY DEF Loop, Entries
<1>4. acc.elements[(c + k) % Size] = p
  BY <1>1, <1>2
<1>5. acc2 = IF v = "keep"
             THEN [acc EXCEPT !.elements[acc.botInd] = p, !.botInd = (@ + 1) % Size]
             ELSE [acc EXCEPT ![v] = @ + 1]
  BY <1>1, <1>4 DEF Round
<1>6. w2 = IF v = "keep" THEN Append(w, p) ELSE w
  BY DEF Keep
<1>7. v \in {"keep", "fizzled", "gcd"}
  BY VerdictIs
<1>8. (c + k) % Size \in Slots
  <2>1. c + k \in Nat
    BY <1>1
  <2> QED BY <2>1, SlotOf
<1>9. p \in Entries
  BY <1>3, <1>4, <1>8
<1>10. SUFFICES
        /\ Len(w2) <= k + 1
        /\ acc2.botInd = (o + Len(w2)) % Size
        /\ \A i \in 1..Len(w2) : acc2.elements[(o + (i - 1)) % Size] = w2[i]
        /\ \A j \in (k + 1)..(n - 1) :
              acc2.elements[(c + j) % Size] = q.elements[(c + j) % Size]
        /\ Len(w2) + acc2.fizzled + acc2.gcd = k + 1
  BY DEF Moved
<1> HIDE DEF o, c, l, p, v, acc2, w2
<1>11. CASE v = "keep"
  <2> DEFINE e == [acc.elements EXCEPT ![b] = p]
             d == (b + 1) % Size
  <2>1. acc2 = [acc EXCEPT !.elements = e, !.botInd = d]
    BY <1>5, <1>11 DEF Loop
  <2>2. /\ acc2.elements = e /\ acc2.botInd = d
        /\ acc2.fizzled = acc.fizzled /\ acc2.gcd = acc.gcd
    BY <2>1 DEF Loop
  <2>3. w2 = Append(w, p) /\ Len(w2) = l + 1 /\ w2[l + 1] = p /\ \A i \in 1..l : w2[i] = w[i]
    BY <1>6, <1>9, <1>11 DEF l
  <2>4. d = (o + (l + 1)) % Size
    <3>1. o + l \in Nat /\ o + (l + 1) = (o + l) + 1
      BY <1>1
    <3>2. ((o + l) + 1) % Size = (((o + l) % Size) + 1) % Size
      BY <1>1, <3>1, Reduced
    <3> QED BY <1>2, <3>1, <3>2, Zenon
  <2>5. e[b] = p /\ \A x \in Slots : x # b => e[x] = acc.elements[x]
    BY <1>3
  <2> HIDE DEF e, d, b
  <2>6. ASSUME NEW i \in 1..(l + 1) PROVE e[(o + (i - 1)) % Size] = w2[i]
    <3>1. CASE i = l + 1
      <4>1. o + (i - 1) = o + l
        BY <1>1, <3>1
      <4> QED BY <1>2, <2>3, <2>5, <3>1, <4>1
    <3>2. CASE i # l + 1
      <4>1. i \in 1..l /\ o + (i - 1) \in Nat /\ o + l \in Nat
        BY <1>1, <3>2
      <4>2. o + (i - 1) < o + l /\ (o + l) - (o + (i - 1)) < Size /\ o + l < 2 * Size
        BY <1>1, <1>2, <4>1
      <4>3. (o + (i - 1)) % Size # b
        BY <1>2, <4>1, <4>2, Apart
      <4>4. (o + (i - 1)) % Size \in Slots
        BY <4>1, SlotOf
      <4> QED BY <1>2, <2>3, <2>5, <4>1, <4>3, <4>4
    <3> QED BY <3>1, <3>2
  <2>7. ASSUME NEW j \in (k + 1)..(n - 1)
        PROVE  e[(c + j) % Size] = q.elements[(c + j) % Size]
    <3>1. c + j \in Nat /\ o + l \in Nat /\ j \in k..(n - 1) /\ j \in Nat /\ k < j /\ j < n
      BY <1>1
    <3>2. (c + j) % Size # (o + l) % Size
      <4>1. CASE o = c + n
        <5>1. c + j < o + l /\ (o + l) - (c + j) < Size /\ o + l < 2 * Size
          BY <1>1, <1>2, <3>1, <4>1
        <5> QED BY <3>1, <5>1, Apart
      <4>2. CASE o = (c + n) - Size
        <5>1. o + l < c + j /\ (c + j) - (o + l) < Size /\ c + j < 2 * Size
          BY <1>1, <1>2, <3>1, <4>2
        <5> QED BY <3>1, <5>1, Apart
      <4> QED BY <1>1, <4>1, <4>2
    <3>3. (c + j) % Size \in Slots
      BY <3>1, SlotOf
    <3>4. e[(c + j) % Size] = acc.elements[(c + j) % Size]
      BY <1>2, <2>5, <3>2, <3>3
    <3> QED BY <1>2, <3>1, <3>4
  <2>8. Len(w2) <= k + 1 /\ Len(w2) + acc2.fizzled + acc2.gcd = k + 1
    BY <1>1, <1>2, <1>3, <2>2, <2>3
  <2> QED BY <2>2, <2>3, <2>4, <2>6, <2>7, <2>8
<1>12. CASE v # "keep"
  <2>1. w2 = w
    BY <1>6, <1>12
  <2>2. /\ acc2.elements = acc.elements /\ acc2.botInd = acc.botInd
        /\ acc2.fizzled + acc2.gcd = (acc.fizzled + acc.gcd) + 1
        /\ acc2.fizzled \in Nat /\ acc2.gcd \in Nat
    <3>1. CASE v = "fizzled"
      <4>1. acc2 = [acc EXCEPT !.fizzled = @ + 1]
        BY <1>5, <3>1
      <4> QED BY <1>3, <4>1 DEF Loop
    <3>2. CASE v = "gcd"
      <4>1. acc2 = [acc EXCEPT !.gcd = @ + 1]
        BY <1>5, <3>2
      <4> QED BY <1>3, <4>1 DEF Loop
    <3> QED BY <1>7, <1>12, <3>1, <3>2
  <2>3. Len(w2) = l /\ l <= k + 1
    BY <1>1, <1>2, <2>1 DEF l
  <2>4. \A j \in (k + 1)..(n - 1) : j \in k..(n - 1)
    BY <1>1
  <2>5. l + acc2.fizzled + acc2.gcd = k + 1
    <3>1. l + acc.fizzled + acc.gcd = k
      BY <1>2
    <3>2. /\ l \in Nat /\ k \in Nat /\ acc.fizzled \in Nat /\ acc.gcd \in Nat
          /\ acc2.fizzled \in Nat /\ acc2.gcd \in Nat
          /\ acc2.fizzled + acc2.gcd = (acc.fizzled + acc.gcd) + 1
      BY <1>1, <1>3, <2>2
    <3> DEFINE f == acc.fizzled
               g == acc.gcd
               f2 == acc2.fizzled
               g2 == acc2.gcd
    <3>3. l \in Nat /\ k \in Nat /\ f \in Nat /\ g \in Nat /\ f2 \in Nat /\ g2 \in Nat
      BY <3>2
    <3>4. l + f + g = k
      BY <3>1
    <3>5. f2 + g2 = (f + g) + 1
      BY <3>2
    <3> HIDE DEF f, g, f2, g2
    <3>6. l + f2 + g2 = k + 1
      BY <3>3, <3>4, <3>5
    <3> QED BY <3>6 DEF f2, g2
  <2> QED BY <1>2, <2>1, <2>2, <2>3, <2>4, <2>5
<1> QED BY <1>11, <1>12

\* The whole loop
LEMMA PruneMoves ==
    ASSUME NEW q, NEW n, Holds(q, n), NEW alive
    PROVE  /\ Worthwhile(Sparks(q), alive) \in Seq(Entries)
           /\ Moved(q, n, PruneLoop(q, alive), Worthwhile(Sparks(q), alive), n)
           /\ PruneLoop(q, alive) \in Loop
<1> DEFINE t == Sparks(q)
           P(k) == q.elements[(q.top + k) % Size]
<1>1. q \in Pools /\ n \in Nat /\ n < Size /\ Size \in Nat \ {0} /\ q.top \in Nat
  BY SizeIs DEF Holds, Pools
<1>2. Rounds(q) = n
  BY OldBottom
<1>3. SparkPoolSize(q) = n
  BY <1>1 DEF SparkPoolSize, Holds
<1>4. t \in Seq(Entries) /\ Len(t) = n /\ \A k \in 0..(n - 1) : t[k + 1] = P(k)
  <2>1. t = [k \in 1..n |-> q.elements[(q.top + k - 1) % Size]]
    BY <1>3 DEF Sparks
  <2>2. ASSUME NEW k \in 1..n PROVE q.elements[(q.top + k - 1) % Size] \in Entries
    <3>1. q.top + k - 1 \in Nat
      BY <1>1
    <3>2. (q.top + k - 1) % Size \in Slots
      BY <3>1, SlotOf
    <3> QED BY <1>1, <3>2 DEF Pools, Entries
  <2>3. t \in [1..n -> Entries]
    BY <2>1, <2>2
  <2>4. t \in Seq(Entries) /\ Len(t) = n
    BY <2>3, <1>1
  <2>5. ASSUME NEW k \in 0..(n - 1) PROVE t[k + 1] = P(k)
    <3>1. k + 1 \in 1..n /\ q.top + (k + 1) - 1 = q.top + k
      BY <1>1
    <3> QED BY <2>1, <3>1
  <2> QED BY <2>4, <2>5
<1> HIDE DEF t
<1>5. PICK a \in [0..n -> Loop] :
        /\ a[0] = Start(q)
        /\ \A k \in 0..(n - 1) : a[k + 1] = Round(q, alive, a[k], k)
        /\ PruneLoop(q, alive) = a[n]
  BY <1>1, <1>2, PruneRounds
<1>6. PICK w \in [0..n -> Seq(Entries)] :
        /\ w[0] = <<>>
        /\ \A k \in 0..(n - 1) : w[k + 1] = Keep(w[k], t[k + 1], alive)
        /\ Worthwhile(t, alive) = w[n]
  BY <1>4, WorthwhileRounds
<1> DEFINE T == {k \in Nat : k \in 0..n => Moved(q, n, a[k], w[k], k)}
<1>7. 0 \in T
  <2>1. /\ a[0].botInd = q.bottom % Size /\ a[0].elements = q.elements
        /\ a[0].fizzled = 0 /\ a[0].gcd = 0
    BY <1>5 DEF Start
  <2>2. Len(w[0]) = 0
    BY <1>6
  <2>3. q.bottom % Size \in Slots
    BY OldBottom
  <2>4. ((q.bottom % Size) + 0) % Size = q.bottom % Size
    <3>1. q.bottom % Size \in Nat /\ q.bottom % Size < Size
      BY <2>3, SizeIs DEF Slots
    <3>2. (q.bottom % Size) + 0 = q.bottom % Size
      BY <3>1
    <3>3. (q.bottom % Size) % Size = q.bottom % Size
      BY <3>1, SlotOf
    <3> QED BY <3>2, <3>3, Zenon
  <2>5. Moved(q, n, a[0], w[0], 0)
    BY <2>1, <2>2, <2>4 DEF Moved
  <2> QED BY <2>5
<1>8. ASSUME NEW k \in Nat, k \in T PROVE k + 1 \in T
  <2>1. CASE k + 1 \in 0..n
    <3>1. k \in 0..(n - 1) /\ k \in 0..n
      BY <1>1, <2>1
    <3>2. a[k] \in Loop /\ w[k] \in Seq(Entries) /\ Moved(q, n, a[k], w[k], k)
      BY <1>8, <3>1
    <3>3. Moved(q, n, Round(q, alive, a[k], k), Keep(w[k], P(k), alive), k + 1)
      BY <3>1, <3>2, MoveStep
    <3>4. a[k + 1] = Round(q, alive, a[k], k) /\ w[k + 1] = Keep(w[k], P(k), alive)
      BY <1>4, <1>5, <1>6, <3>1
    <3>5. Moved(q, n, a[k + 1], w[k + 1], k + 1)
      BY <3>3, <3>4, Zenon
    <3> QED BY <3>5
  <2> QED BY <2>1
<1> HIDE DEF T
<1>9. \A k \in Nat : k \in T
  BY <1>7, <1>8, Induct, Zenon
<1>10. Moved(q, n, a[n], w[n], n)
  BY <1>1, <1>9 DEF T
<1>11. a[n] \in Loop /\ w[n] \in Seq(Entries)
  BY <1>1
<1> QED BY <1>5, <1>6, <1>10, <1>11 DEF t

----------------------------------------------------------------------------
(* pruneSparkQueue                                                         *)

\* A pool whose indices make sense
PoolOK(q) == q \in Pools /\ q.top <= q.bottom /\ q.bottom - q.top <= Size

\* Resetting top and bottom modulo the size moves both by the same multiple of it.
LEMMA ResetIs ==
    ASSUME NEW q, PoolOK(q)
    PROVE  /\ Reset(q) \in Pools
           /\ Reset(q).top = q.top % Size
           /\ Reset(q).top < Size
           /\ Reset(q).bottom = Reset(q).top + (q.bottom - q.top)
           /\ Reset(q).elements = q.elements
<1>1. q.top \in Nat /\ q.bottom \in Nat /\ q.top <= q.bottom
  BY DEF PoolOK, Pools
<1>2. q.top % Size \in Nat /\ q.top % Size < Size
  BY <1>1, SizeIs, SlotOf DEF Slots
<1>3. Reset(q) = [q EXCEPT !.bottom = @ - (q.top - (q.top % Size)), !.top = q.top % Size]
  <2>1. (IF q.top > q.bottom THEN q.bottom ELSE q.top) = q.top
    BY <1>1
  <2> QED BY <2>1, Zenon DEF Reset
<1> DEFINE m == q.top % Size
<1> HIDE DEF m
<1>4. Reset(q) = [q EXCEPT !.bottom = q.bottom - (q.top - m), !.top = m]
  BY <1>3 DEF m
<1>5. m \in Nat /\ m < Size
  BY <1>2 DEF m
<1>6. /\ Reset(q).top = m /\ Reset(q).bottom = q.bottom - (q.top - m)
      /\ Reset(q).elements = q.elements
  BY <1>4 DEF PoolOK, Pools
<1>7. q.bottom - (q.top - m) = m + (q.bottom - q.top) /\ m + (q.bottom - q.top) \in Nat
  BY <1>1, <1>5
<1>8. Reset(q) \in Pools
  BY <1>4, <1>5, <1>7 DEF PoolOK, Pools
<1> QED BY <1>5, <1>6, <1>7, <1>8 DEF m

\* Resetting the indices does not change what is in the pool.
LEMMA ResetKeeps ==
    ASSUME NEW q, PoolOK(q), ~IsFull(q)
    PROVE  /\ Holds(Reset(q), q.bottom - q.top)
           /\ Sparks(Reset(q)) = Sparks(q)
           /\ SparkPoolSize(q) = q.bottom - q.top
<1> DEFINE r == Reset(q)
           n == q.bottom - q.top
<1>1. q.top \in Nat /\ q.bottom \in Nat /\ q.top <= q.bottom /\ Size \in Nat
  BY SizeIs DEF PoolOK, Pools
<1>2. n \in Nat /\ n < Size
  BY <1>1 DEF PoolOK, IsFull
<1>3. /\ r \in Pools /\ r.top = q.top % Size /\ r.top < Size
      /\ r.bottom = r.top + n /\ r.elements = q.elements
  BY ResetIs
<1>4. SparkPoolSize(q) = n
  BY <1>1 DEF SparkPoolSize
<1>5. r.top \in Nat
  BY <1>3 DEF Pools
<1> HIDE DEF r, n
<1>6. SparkPoolSize(r) = n
  BY <1>2, <1>3, <1>5 DEF SparkPoolSize
<1>7. ASSUME NEW k \in 1..n PROVE (r.top + k - 1) % Size = (q.top + k - 1) % Size
  <2>1. k - 1 \in Nat /\ r.top + k - 1 = r.top + (k - 1) /\ q.top + k - 1 = q.top + (k - 1)
    BY <1>1, <1>2, <1>5
  <2>2. (q.top + (k - 1)) % Size = ((q.top % Size) + (k - 1)) % Size
    BY <1>1, <2>1, SizeIs, Reduced
  <2> QED BY <1>3, <2>1, <2>2, Zenon
<1>8. Sparks(r) = Sparks(q)
  <2>1. Sparks(r) = [k \in 1..n |-> r.elements[(r.top + k - 1) % Size]]
    BY <1>6 DEF Sparks
  <2>2. Sparks(q) = [k \in 1..n |-> q.elements[(q.top + k - 1) % Size]]
    BY <1>4 DEF Sparks
  <2>3. \A k \in 1..n :
          r.elements[(r.top + k - 1) % Size] = q.elements[(q.top + k - 1) % Size]
    BY <1>3, <1>7
  <2> QED BY <2>1, <2>2, <2>3
<1>9. Holds(r, n)
  BY <1>2, <1>3 DEF Holds
<1> QED BY <1>4, <1>8, <1>9 DEF r, n

\* Whatever is in it, a pool is one afterwards.
LEMMA PrunedOK ==
    ASSUME NEW q, PoolOK(q), NEW alive
    PROVE  PoolOK(Pruned(q, alive)) /\ PruneLoop(Reset(q), alive) \in Loop
<1> DEFINE r == Reset(q)
           done == PruneLoop(r, alive)
           o == r.bottom % Size
<1>1. r \in Pools
  BY ResetIs
<1>2. PICK a \in [0..Rounds(r) -> Loop] : done = a[Rounds(r)]
  BY <1>1, PruneRounds
<1>3. done \in Loop
  BY <1>1, <1>2, RoundsIn
<1>4. o \in Slots
  BY <1>1, SlotOf DEF Pools
<1>5. Pruned(q, alive) =
        [top |-> o,
         bottom |-> IF o <= done.botInd THEN done.botInd ELSE done.botInd + Size,
         elements |-> done.elements]
  BY DEF Pruned
<1> HIDE DEF o, done, r
<1>6. /\ o \in Nat /\ o < Size /\ done.botInd \in Nat /\ done.botInd < Size /\ Size \in Nat
      /\ done.elements \in [Slots -> Closures \cup {NoClosure}]
  BY <1>3, <1>4, SizeIs DEF Loop, Slots
<1> DEFINE b == IF o <= done.botInd THEN done.botInd ELSE done.botInd + Size
<1>7. b \in Nat /\ o <= b /\ b - o <= Size
  BY <1>6
<1>8. Pruned(q, alive) = [top |-> o, bottom |-> b, elements |-> done.elements]
  BY <1>5
<1> HIDE DEF b
<1>9. PoolOK(Pruned(q, alive))
  BY <1>6, <1>7, <1>8 DEF PoolOK, Pools
<1> QED BY <1>3, <1>9 DEF done, r

\* What pruneSparkQueue makes of a pool that is not full
LEMMA PrunedKeeps ==
    ASSUME NEW q, PoolOK(q), ~IsFull(q), NEW alive
    PROVE  LET done == PruneLoop(Reset(q), alive)
           IN  /\ Sparks(Pruned(q, alive)) = Worthwhile(Sparks(q), alive)
               /\ SparkPoolSize(Pruned(q, alive)) + done.fizzled + done.gcd = SparkPoolSize(q)
<1> DEFINE r == Reset(q)
           n == q.bottom - q.top
           done == PruneLoop(r, alive)
           o == r.bottom % Size
           w == Worthwhile(Sparks(q), alive)
           p == Pruned(q, alive)
<1>1. Holds(r, n) /\ Sparks(r) = Sparks(q) /\ SparkPoolSize(q) = n
  BY ResetKeeps
<1>2. w \in Seq(Entries) /\ Moved(r, n, done, w, n) /\ done \in Loop
  BY <1>1, PruneMoves
<1>3. o \in Slots
  BY <1>1, OldBottom
<1>4. /\ Len(w) <= n
      /\ done.botInd = (o + Len(w)) % Size
      /\ \A i \in 1..Len(w) : done.elements[(o + (i - 1)) % Size] = w[i]
      /\ Len(w) + done.fizzled + done.gcd = n
  BY <1>2 DEF Moved
<1>5. n \in Nat /\ n < Size
  BY <1>1 DEF Holds
<1>6. p = [top |-> o,
           bottom |-> IF o <= done.botInd THEN done.botInd ELSE done.botInd + Size,
           elements |-> done.elements]
  BY DEF Pruned
<1> DEFINE l == Len(w)
<1>7. l \in Nat
  BY <1>2
<1> HIDE DEF r, n, done, o, w, p, l
<1>8. o \in Nat /\ o < Size /\ Size \in Nat \ {0} /\ l \in Nat /\ l < Size
  BY <1>3, <1>4, <1>5, <1>7, SizeIs DEF Slots, l
<1>9. (IF o <= done.botInd THEN done.botInd ELSE done.botInd + Size) = o + l
  <2>1. o + l \in Nat /\ o + l < 2 * Size /\ done.botInd = (o + l) % Size
    <3>1. o + l \in Nat /\ o + l < 2 * Size
      BY <1>8
    <3>2. done.botInd = (o + l) % Size
      BY <1>4 DEF l
    <3> QED BY <3>1, <3>2
  <2>2. CASE o + l < Size
    <3>1. done.botInd = o + l
      BY <2>1, <2>2, SlotOf
    <3> QED BY <3>1, <1>8
  <2>3. CASE ~ (o + l < Size)
    <3>1. done.botInd = (o + l) - Size
      BY <1>8, <2>1, <2>3, SlotOf
    <3> QED BY <3>1, <1>8
  <2> QED BY <2>2, <2>3
<1>10. p.top = o /\ p.bottom = o + l /\ p.elements = done.elements
  BY <1>6, <1>9
<1>11. SparkPoolSize(p) = l
  BY <1>8, <1>10 DEF SparkPoolSize
<1>12. Sparks(p) = w
  <2>1. Sparks(p) = [k \in 1..l |-> done.elements[(o + k - 1) % Size]]
    BY <1>10, <1>11 DEF Sparks
  <2>2. ASSUME NEW k \in 1..l PROVE done.elements[(o + k - 1) % Size] = w[k]
    <3>1. o + k - 1 = o + (k - 1) /\ k \in 1..Len(w)
      BY <1>8 DEF l
    <3> QED BY <1>4, <3>1
  <2>3. w = [k \in 1..l |-> w[k]]
    BY <1>2 DEF l
  <2> QED BY <2>1, <2>2, <2>3
<1>13. SparkPoolSize(p) + done.fizzled + done.gcd = SparkPoolSize(q)
  BY <1>1, <1>4, <1>11 DEF l
<1> QED BY <1>12, <1>13 DEF p, w, done, r

----------------------------------------------------------------------------
(* The invariant                                                           *)

SparkCounters == [created : Nat, dud : Nat, overflowed : Nat, converted : Nat,
                  gcd : Nat, fizzled : Nat]

TypeOK ==
    /\ pool \in [Caps -> Pools]
    /\ stats \in [Caps -> SparkCounters]
    /\ pc \in [Caps -> {"idle", "steal", "judge", "missed", "visit"}]
    /\ victim \in [Caps -> Nat]

PoolsOK == \A c \in Caps : PoolOK(pool[c])

\* findSpark steals from a pool that exists.
VictimsOK == \A c \in Caps : pc[c] \in {"steal", "judge", "missed"} => victim[c] \in Caps

IndInv == TypeOK /\ PoolsOK /\ VictimsOK

\* A spark that findSpark has taken out of a pool and not counted yet
InFlight(c) == IF pc[c] = "judge" THEN 1 ELSE 0

\* What a capability has created and does not account for: less than nothing, when it
\* has taken what another one has created
Missing(c) ==
    stats[c].created - (stats[c].converted + SparkPoolSize(pool[c])
                          + stats[c].gcd + stats[c].fizzled + InFlight(c))

Left == [c \in Caps |-> Missing(c)]

\* Between them, the capabilities account for all.
Balanced == SumOver(Left) = 0

----------------------------------------------------------------------------
(* Types and pools                                                         *)

\* sparkPoolSize is the difference of the indices.
LEMMA PoolSize ==
    ASSUME NEW q, PoolOK(q)
    PROVE  SparkPoolSize(q) = q.bottom - q.top /\ SparkPoolSize(q) \in Nat
BY DEF PoolOK, Pools, SparkPoolSize

\* pushWSDeque into a pool that is not full adds one.
LEMMA PoolPushed ==
    ASSUME NEW q, PoolOK(q), NEW p \in Closures, ~ (q.bottom - q.top > Size - 1)
    PROVE  LET r == [q EXCEPT !.elements[q.bottom % Size] = p, !.bottom = @ + 1]
           IN  PoolOK(r) /\ SparkPoolSize(r) = SparkPoolSize(q) + 1
<1> DEFINE e == [q.elements EXCEPT ![q.bottom % Size] = p]
           r == [q EXCEPT !.elements[q.bottom % Size] = p, !.bottom = @ + 1]
<1>1. /\ q.top \in Nat /\ q.bottom \in Nat /\ q.top <= q.bottom /\ Size \in Nat
      /\ q.elements \in [Slots -> Closures \cup {NoClosure}]
  BY SizeIs DEF PoolOK, Pools
<1>2. e \in [Slots -> Closures \cup {NoClosure}]
  BY <1>1
<1>3. r.top = q.top /\ r.bottom = q.bottom + 1 /\ r.elements = e /\ r \in Pools
  <2>1. r = [q EXCEPT !.elements = e, !.bottom = q.bottom + 1]
    BY DEF PoolOK, Pools
  <2> HIDE DEF e, r
  <2>2. q \in Pools /\ q.bottom + 1 \in Nat
    BY <1>1 DEF PoolOK
  <2>3. r.top = q.top /\ r.bottom = q.bottom + 1 /\ r.elements = e
    BY <2>1, <2>2 DEF Pools
  <2>4. r \in Pools
    BY <1>2, <2>1, <2>2 DEF Pools
  <2> QED BY <2>3, <2>4
<1> HIDE DEF r
<1>4. PoolOK(r)
  BY <1>1, <1>3 DEF PoolOK
<1>5. SparkPoolSize(r) = SparkPoolSize(q) + 1
  BY <1>1, <1>3, <1>4, PoolSize
<1> QED BY <1>4, <1>5 DEF r

\* A steal takes one.
LEMMA PoolStolen ==
    ASSUME NEW q, PoolOK(q), ~EmptySparkPool(q)
    PROVE  LET r == [q EXCEPT !.top = @ + 1]
           IN  PoolOK(r) /\ SparkPoolSize(r) = SparkPoolSize(q) - 1
<1> DEFINE r == [q EXCEPT !.top = @ + 1]
<1>1. q.top \in Nat /\ q.bottom \in Nat /\ q.top <= q.bottom /\ Size \in Nat
  BY SizeIs DEF PoolOK, Pools
<1>2. q.bottom > q.top
  BY <1>1 DEF EmptySparkPool, SparkPoolSize
<1>3. r.top = q.top + 1 /\ r.bottom = q.bottom /\ r \in Pools
  BY <1>1 DEF PoolOK, Pools
<1> HIDE DEF r
<1>4. PoolOK(r)
  BY <1>1, <1>2, <1>3 DEF PoolOK
<1>5. SparkPoolSize(r) = SparkPoolSize(q) - 1
  BY <1>1, <1>2, <1>3, <1>4, PoolSize
<1> QED BY <1>4, <1>5 DEF r

\* discardSparks leaves none.
LEMMA PoolDropped ==
    ASSUME NEW q, PoolOK(q)
    PROVE  LET r == [q EXCEPT !.top = q.bottom]
           IN  PoolOK(r) /\ SparkPoolSize(r) = 0
BY SizeIs DEF PoolOK, Pools, SparkPoolSize

\* Capabilities are numbered from 0.
LEMMA CapsAre ==
    /\ NCaps \in Nat
    /\ \A i \in Nat : i < NCaps => i \in Caps
    /\ \A c \in Caps : c \in Nat
BY SparkPoolAssumption DEF Caps

\* The next capability to rob is one, or the sweep is over.
LEMMA NextVictimType ==
    ASSUME NEW c \in Caps, NEW i \in Nat
    PROVE  NextVictim(c, i) \in Nat
BY DEF NextVictim

\* Counting a spark keeps the counters numbers.
LEMMA Counted ==
    ASSUME TypeOK, NEW c \in Caps,
           NEW k \in {"created", "dud", "overflowed", "converted", "fizzled"}, Count(c, k)
    PROVE  stats' \in [Caps -> SparkCounters]
<1>1. stats[c] \in SparkCounters
  BY DEF TypeOK
<1>2. stats' = [stats EXCEPT ![c] = [stats[c] EXCEPT ![k] = @ + 1]]
  BY DEF Count, TypeOK
<1>3. [stats[c] EXCEPT ![k] = @ + 1] \in SparkCounters
  BY <1>1 DEF SparkCounters
<1> QED BY <1>2, <1>3 DEF TypeOK

\* The invariant holds when the capabilities have been initialised.
LEMMA InitOK == Init => IndInv
<1> SUFFICES ASSUME Init PROVE IndInv
  OBVIOUS
<1>1. ASSUME NEW c \in Caps PROVE PoolOK(pool[c])
  BY SizeIs DEF Init, PoolOK, Pools, Slots
<1>2. TypeOK
  <2>1. stats \in [Caps -> SparkCounters]
    BY DEF Init, SparkCounters
  <2>2. pool \in [Caps -> Pools]
    BY DEF Init, Pools, Slots
  <2> QED BY <2>1, <2>2 DEF Init, TypeOK
<1>3. VictimsOK
  BY DEF Init, VictimsOK
<1> QED BY <1>1, <1>2, <1>3 DEF IndInv, PoolsOK

\* newSpark pushes only when the pool has room.
LEMMA NewSparkOK ==
    ASSUME IndInv, NEW c \in Caps, NEW p \in Closures, NewSpark(c, p)
    PROVE  IndInv'
<1>1. TypeOK /\ PoolsOK /\ VictimsOK
  BY DEF IndInv
<1>2. UNCHANGED <<pc, victim>>
  BY DEF NewSpark, find
<1>3. stats' \in [Caps -> SparkCounters]
  <2>1. Count(c, "dud") \/ Count(c, "overflowed") \/ Count(c, "created")
    BY DEF NewSpark
  <2> QED BY <1>1, <2>1, Counted
<1>4. pool' \in [Caps -> Pools] /\ \A d \in Caps : PoolOK(pool'[d])
  <2>1. CASE UNCHANGED pool
    BY <1>1, <2>1 DEF TypeOK, PoolsOK
  <2>2. CASE ~UNCHANGED pool
    <3> DEFINE q == pool[c]
               r == [q EXCEPT !.elements[q.bottom % Size] = p, !.bottom = @ + 1]
    <3>1. PoolOK(q) /\ ~ (q.bottom - q.top > Size - 1)
      BY <1>1, <2>2 DEF NewSpark, PoolsOK
    <3>2. pool' = [pool EXCEPT ![c] = r]
      BY <1>1, <2>2 DEF NewSpark, TypeOK
    <3>3. PoolOK(r)
      BY <3>1, PoolPushed
    <3> HIDE DEF r
    <3>4. r \in Pools
      BY <3>3 DEF PoolOK
    <3> QED BY <1>1, <3>2, <3>3, <3>4 DEF TypeOK, PoolsOK
  <2> QED BY <2>1, <2>2
<1> QED BY <1>1, <1>2, <1>3, <1>4 DEF IndInv, TypeOK, PoolsOK, VictimsOK

\* findSpark only moves the top of a pool that is not empty.
LEMMA FindOK ==
    ASSUME IndInv, NEW c \in Caps, FindStart(c) \/ FindStep(c)
    PROVE  IndInv'
<1>1. TypeOK /\ PoolsOK /\ VictimsOK
  BY DEF IndInv
<1>2. NCaps \in Nat /\ c \in Nat /\ 0 \in Nat
  BY CapsAre
<1>3. CASE FindStart(c)
  BY <1>1, <1>2, <1>3 DEF FindStart, IndInv, TypeOK, PoolsOK, VictimsOK
<1>4. CASE TrySteal(c)
  <2> DEFINE v == victim[c]
             q == pool[v]
             r == [q EXCEPT !.top = @ + 1]
  <2>1. v \in Caps /\ PoolOK(q) /\ ~EmptySparkPool(q)
    BY <1>1, <1>4 DEF TrySteal, VictimsOK, PoolsOK
  <2>2. PoolOK(r)
    BY <2>1, PoolStolen
  <2>3. pool' = [pool EXCEPT ![v] = r]
    BY <1>1, <1>4, <2>1 DEF TrySteal, TypeOK
  <2>4. UNCHANGED <<stats, victim>> /\ pc' = [pc EXCEPT ![c] = "judge"]
    BY <1>4 DEF TrySteal
  <2>5. VictimsOK'
    BY <1>1, <2>1, <2>4 DEF TypeOK, VictimsOK
  <2> HIDE DEF r, q, v
  <2>6. pool' \in [Caps -> Pools] /\ \A d \in Caps : PoolOK(pool'[d])
    BY <1>1, <2>1, <2>2, <2>3 DEF TypeOK, PoolsOK, PoolOK
  <2> QED BY <1>1, <2>4, <2>5, <2>6 DEF IndInv, TypeOK, PoolsOK
<1>5. CASE MissSteal(c)
  BY <1>1, <1>5 DEF MissSteal, IndInv, TypeOK, PoolsOK, VictimsOK
<1>6. CASE Judge(c)
  <2>1. stats' \in [Caps -> SparkCounters]
    <3>1. Count(c, "fizzled") \/ Count(c, "converted")
      BY <1>6 DEF Judge
    <3> QED BY <1>1, <3>1, Counted
  <2>2. UNCHANGED pool
    BY <1>6 DEF Judge
  <2>3. /\ pc' \in [Caps -> {"idle", "steal", "judge", "missed", "visit"}]
        /\ victim' \in [Caps -> Nat] /\ VictimsOK'
    <3>1. CASE Fizzled(spark[c])
      BY <1>1, <1>6, <3>1 DEF Judge, TypeOK, VictimsOK
    <3>2. CASE ~Fizzled(spark[c])
      BY <1>1, <1>2, <1>6, <3>2 DEF Judge, FindReturns, TypeOK, VictimsOK
    <3> QED BY <3>1, <3>2
  <2> QED BY <1>1, <2>1, <2>2, <2>3 DEF IndInv, TypeOK, PoolsOK
<1>7. CASE Missed(c)
  <2> DEFINE next == NextVictim(c, IF victim[c] = c THEN 0 ELSE victim[c] + 1)
  <2>1. next \in Nat
    <3>1. (IF victim[c] = c THEN 0 ELSE victim[c] + 1) \in Nat
      BY <1>1 DEF TypeOK
    <3> QED BY <3>1, NextVictimType
  <2>2. UNCHANGED <<pool, stats>>
    BY <1>7 DEF Missed
  <2>3. CASE NCaps = 1
    <3>1. FindReturns(c)
      BY <1>7, <2>3 DEF Missed
    <3> QED BY <1>1, <2>2, <3>1 DEF FindReturns, IndInv, TypeOK, PoolsOK, VictimsOK
  <2>4. CASE NCaps # 1
    <3>1. victim' = [victim EXCEPT ![c] = next] /\ pc' = [pc EXCEPT ![c] = "visit"]
      BY <1>7, <2>4 DEF Missed
    <3> HIDE DEF next
    <3> QED BY <1>1, <2>1, <2>2, <3>1 DEF IndInv, TypeOK, PoolsOK, VictimsOK
  <2> QED BY <2>3, <2>4
<1>8. CASE Visit(c)
  <2>1. victim[c] \in Nat /\ victim[c] \in Caps
    BY <1>1, <1>8, CapsAre DEF Visit, TypeOK
  <2>2. UNCHANGED <<pool, stats>>
    BY <1>8 DEF Visit
  <2>3. CASE EmptySparkPool(pool[victim[c]])
    <3>1. victim' = [victim EXCEPT ![c] = NextVictim(c, victim[c] + 1)] /\ UNCHANGED pc
      BY <1>8, <2>3 DEF Visit
    <3>2. NextVictim(c, victim[c] + 1) \in Nat
      BY <2>1, NextVictimType
    <3>3. pc[c] = "visit"
      BY <1>8 DEF Visit
    <3> QED BY <1>1, <2>2, <3>1, <3>2, <3>3 DEF IndInv, TypeOK, PoolsOK, VictimsOK
  <2>4. CASE ~EmptySparkPool(pool[victim[c]])
    <3>1. pc' = [pc EXCEPT ![c] = "steal"] /\ UNCHANGED victim
      BY <1>8, <2>4 DEF Visit
    <3> QED BY <1>1, <2>1, <2>2, <3>1 DEF IndInv, TypeOK, PoolsOK, VictimsOK
  <2> QED BY <2>3, <2>4
<1>9. CASE SweepDone(c)
  <2>1. UNCHANGED <<pool, stats>>
    BY <1>9 DEF SweepDone
  <2>2. CASE retry[c]
    BY <1>1, <1>2, <1>9, <2>1, <2>2 DEF SweepDone, IndInv, TypeOK, PoolsOK, VictimsOK
  <2>3. CASE ~retry[c]
    BY <1>1, <1>9, <2>1, <2>3
       DEF SweepDone, FindReturns, IndInv, TypeOK, PoolsOK, VictimsOK
  <2> QED BY <2>2, <2>3
<1> QED BY <1>3, <1>4, <1>5, <1>6, <1>7, <1>8, <1>9 DEF FindStep

\* A collection leaves pools with top and bottom at most the size apart.
LEMMA CollectOK ==
    ASSUME IndInv, NEW alive, CollectGarbage(alive)
    PROVE  IndInv'
<1>1. TypeOK /\ PoolsOK /\ VictimsOK
  BY DEF IndInv
<1>2. UNCHANGED <<pc, victim>>
  BY DEF CollectGarbage, find
<1>3. ASSUME NEW c \in Caps
      PROVE  PoolOK(Pruned(pool[c], alive)) /\ PruneLoop(Reset(pool[c]), alive) \in Loop
  BY <1>1, PrunedOK DEF PoolsOK
<1>4. pool' = [c \in Caps |-> Pruned(pool[c], alive)]
  BY DEF CollectGarbage
<1>5. stats' \in [Caps -> SparkCounters]
  <2>1. stats' = [c \in Caps |->
                    LET done == PruneLoop(Reset(pool[c]), alive)
                    IN  [stats[c] EXCEPT !.fizzled = @ + done.fizzled,
                                         !.gcd = @ + done.gcd]]
    BY DEF CollectGarbage
  <2>2. ASSUME NEW c \in Caps, NEW done \in Loop
        PROVE  [stats[c] EXCEPT !.fizzled = @ + done.fizzled, !.gcd = @ + done.gcd]
                 \in SparkCounters
    <3> DEFINE f == stats[c].fizzled + done.fizzled
               g == stats[c].gcd + done.gcd
    <3>1. stats[c] \in SparkCounters
      BY <1>1 DEF TypeOK
    <3>2. done.fizzled \in Nat /\ done.gcd \in Nat
      BY DEF Loop
    <3>3. f \in Nat /\ g \in Nat
      BY <3>1, <3>2 DEF SparkCounters
    <3>4. [stats[c] EXCEPT !.fizzled = @ + done.fizzled, !.gcd = @ + done.gcd]
            = [stats[c] EXCEPT !.fizzled = f, !.gcd = g]
      BY <3>1 DEF SparkCounters
    <3> HIDE DEF f, g
    <3>5. [stats[c] EXCEPT !.fizzled = f, !.gcd = g] \in SparkCounters
      BY <3>1, <3>3 DEF SparkCounters
    <3> QED BY <3>4, <3>5
  <2> QED BY <1>3, <2>1, <2>2
<1>6. pool' \in [Caps -> Pools] /\ \A c \in Caps : PoolOK(pool'[c])
  BY <1>3, <1>4 DEF PoolOK
<1> QED BY <1>1, <1>2, <1>5, <1>6 DEF IndInv, TypeOK, PoolsOK, VictimsOK

\* discardSparks empties the pools.
LEMMA DiscardOK ==
    ASSUME IndInv, DiscardSparks
    PROVE  IndInv'
<1>1. TypeOK /\ PoolsOK /\ VictimsOK
  BY DEF IndInv
<1>2. UNCHANGED <<pc, victim>>
  BY DEF DiscardSparks, find
<1>3. pool' \in [Caps -> Pools] /\ \A c \in Caps : PoolOK(pool'[c])
  <2>1. ASSUME NEW c \in Caps PROVE PoolOK([pool[c] EXCEPT !.top = pool[c].bottom])
    BY <1>1, PoolDropped DEF PoolsOK
  <2>2. pool' = [c \in Caps |-> [pool[c] EXCEPT !.top = pool[c].bottom]]
    BY DEF DiscardSparks
  <2> QED BY <2>1, <2>2 DEF PoolOK
<1>4. stats' \in [Caps -> SparkCounters]
  <2>1. stats' = [c \in Caps |-> [stats[c] EXCEPT !.gcd = @ + SparkPoolSize(pool[c])]]
    BY DEF DiscardSparks
  <2>2. ASSUME NEW c \in Caps
        PROVE  [stats[c] EXCEPT !.gcd = @ + SparkPoolSize(pool[c])] \in SparkCounters
    <3>1. stats[c] \in SparkCounters /\ SparkPoolSize(pool[c]) \in Nat
      BY <1>1, PoolSize DEF TypeOK, PoolsOK
    <3> QED BY <3>1 DEF SparkCounters
  <2> QED BY <2>1, <2>2
<1> QED BY <1>1, <1>2, <1>3, <1>4 DEF IndInv, TypeOK, PoolsOK, VictimsOK

\* Every step keeps the invariant.
LEMMA NextOK == IndInv /\ [Next]_vars => IndInv'
<1> SUFFICES ASSUME IndInv, [Next]_vars PROVE IndInv'
  OBVIOUS
<1>1. ASSUME NEW p \in Closures, Evaluate(p) PROVE IndInv'
  BY <1>1 DEF Evaluate, find, IndInv, TypeOK, PoolsOK, VictimsOK
<1>2. CASE UNCHANGED vars
  BY <1>2 DEF vars, IndInv, TypeOK, PoolsOK, VictimsOK
<1> QED BY <1>1, <1>2, NewSparkOK, FindOK, CollectOK, DiscardOK DEF Next

\* The indices of every pool make sense, and findSpark steals only from pools there are.
THEOREM Invariance == Spec => []IndInv
BY InitOK, NextOK, PTL DEF Spec

----------------------------------------------------------------------------
(* A collection keeps what is worth keeping.                               *)

\* Whatever the closures, and however large the array: after pruneSparkQueue, a pool
\* that had a slot free holds the sparks worth running, in their order, although they
\* are moved inside the array that they are read from.
THEOREM PruningInPlace == Spec => PruneKeepsWorthwhile
<1> DEFINE A == \A alive \in SUBSET (Closures \ Static) :
                  CollectGarbage(alive) =>
                    \A c \in Caps :
                      ~IsFull(pool[c]) => Sparks(pool'[c]) = Worthwhile(Sparks(pool[c]), alive)
<1>1. IndInv => A
  <2> SUFFICES ASSUME IndInv,
                      NEW alive \in SUBSET (Closures \ Static), CollectGarbage(alive),
                      NEW c \in Caps, ~IsFull(pool[c])
               PROVE  Sparks(pool'[c]) = Worthwhile(Sparks(pool[c]), alive)
    OBVIOUS
  <2>1. PoolOK(pool[c])
    BY DEF IndInv, PoolsOK
  <2>2. Sparks(Pruned(pool[c], alive)) = Worthwhile(Sparks(pool[c]), alive)
    BY <2>1, PrunedKeeps
  <2>3. pool'[c] = Pruned(pool[c], alive)
    BY DEF CollectGarbage
  <2> QED BY <2>2, <2>3, Zenon
<1>2. IndInv => [A]_vars
  BY <1>1
<1> QED BY <1>2, Invariance, PTL DEF PruneKeepsWorthwhile

----------------------------------------------------------------------------
(* No spark disappears                                                     *)

\* A sum of zeros is 0.
LEMMA SumOfZeros ==
    ASSUME NEW f \in [Caps -> Int], \A c \in Caps : f[c] = 0
    PROVE  SumOver(f) = 0
<1>1. PICK g : Sums(g, f) /\ SumOver(f) = g[Caps]
  BY SumsOver
<1> DEFINE T == {s \in SUBSET Caps : g[s] = 0}
<1>2. {} \in T
  BY <1>1, SumOfNone
<1>3. ASSUME NEW s \in SUBSET Caps, s # {}, s \ {AnyOf(s)} \in T PROVE s \in T
  <2>1. AnyOf(s) \in Caps
    BY <1>3, CapsFinite
  <2>2. g[s] = f[AnyOf(s)] + g[s \ {AnyOf(s)}]
    BY <1>1, <1>3 DEF Sums
  <2>3. f[AnyOf(s)] = 0 /\ g[s \ {AnyOf(s)}] = 0
    BY <1>3, <2>1
  <2> QED BY <2>2, <2>3
<1> HIDE DEF T
<1>4. \A s \in SUBSET Caps : s \in T
  BY <1>2, <1>3, CapsInduct, Zenon
<1>5. Caps \in T
  BY <1>4, CapsFinite
<1> QED BY <1>1, <1>5 DEF T

\* The parts of the account of a capability
LEMMA Parts ==
    ASSUME IndInv, NEW c \in Caps
    PROVE  /\ stats[c].created \in Nat /\ stats[c].converted \in Nat
           /\ stats[c].gcd \in Nat /\ stats[c].fizzled \in Nat
           /\ SparkPoolSize(pool[c]) \in Nat /\ InFlight(c) \in {0, 1}
           /\ Missing(c) \in Int
<1>1. stats[c] \in SparkCounters /\ PoolOK(pool[c])
  BY DEF IndInv, TypeOK, PoolsOK
<1>2. SparkPoolSize(pool[c]) \in Nat /\ InFlight(c) \in {0, 1}
  BY <1>1, PoolSize DEF InFlight
<1> QED BY <1>1, <1>2 DEF SparkCounters, Missing

\* What a capability has left unaccounted for is an integer.
LEMMA LeftType ==
    ASSUME IndInv
    PROVE  Left \in [Caps -> Int] /\ \A c \in Caps : Left[c] = Missing(c)
BY Parts DEF Left

\* A step after which each capability accounts for as much as before
LEMMA BalanceSame ==
    ASSUME Balanced, \A c \in Caps : Missing(c)' = Missing(c)
    PROVE  Balanced'
<1>1. Left' = Left
  BY DEF Left
<1> QED BY <1>1 DEF Balanced

\* In the beginning there is nothing to account for.
LEMMA InitBalanced == Init => Balanced
<1> SUFFICES ASSUME Init PROVE Balanced
  OBVIOUS
<1>1. IndInv
  BY InitOK
<1>2. ASSUME NEW c \in Caps PROVE Missing(c) = 0
  <2>1. /\ stats[c].created = 0 /\ stats[c].converted = 0
        /\ stats[c].gcd = 0 /\ stats[c].fizzled = 0
    BY DEF Init
  <2>2. SparkPoolSize(pool[c]) = 0 /\ InFlight(c) = 0
    BY DEF Init, SparkPoolSize, InFlight
  <2> QED BY <2>1, <2>2 DEF Missing
<1> QED BY <1>1, <1>2, LeftType, SumOfZeros DEF Balanced

\* One more is counted.
LEMMA CountIs ==
    ASSUME IndInv, NEW c \in Caps,
           NEW k \in {"created", "dud", "overflowed", "converted", "fizzled"}, Count(c, k)
    PROVE  /\ \A d \in Caps \ {c} : stats'[d] = stats[d]
           /\ \A j \in {"created", "converted", "fizzled", "gcd"} :
                stats'[c][j] = stats[c][j] + (IF j = k THEN 1 ELSE 0)
<1>1. stats[c] \in SparkCounters /\ stats \in [Caps -> SparkCounters]
  BY DEF IndInv, TypeOK
<1>2. stats' = [stats EXCEPT ![c] = [stats[c] EXCEPT ![k] = @ + 1]]
  BY <1>1 DEF Count
<1>3. stats'[c] = [stats[c] EXCEPT ![k] = @ + 1]
  BY <1>1, <1>2
<1>4. \A d \in Caps \ {c} : stats'[d] = stats[d]
  BY <1>1, <1>2
<1>5. ASSUME NEW j \in {"created", "converted", "fizzled", "gcd"}
      PROVE  stats'[c][j] = stats[c][j] + (IF j = k THEN 1 ELSE 0)
  <2>1. stats[c][j] \in Nat
    BY <1>1 DEF SparkCounters
  <2> QED BY <1>1, <1>3, <2>1 DEF SparkCounters
<1> QED BY <1>4, <1>5

\* What nobody touches stays accounted for.
LEMMA MissingSame ==
    ASSUME NEW c \in Caps, stats'[c] = stats[c], pool'[c] = pool[c], pc'[c] = "judge" <=> pc[c] = "judge"
    PROVE  Missing(c)' = Missing(c)
<1>1. InFlight(c)' = InFlight(c)
  BY DEF InFlight
<1> QED BY <1>1 DEF Missing

\* A new spark is counted as created exactly when it is in the pool.
LEMMA NewSparkBalances ==
    ASSUME IndInv, Balanced, NEW c \in Caps, NEW p \in Closures, NewSpark(c, p)
    PROVE  Balanced'
<1>1. UNCHANGED pc
  BY DEF NewSpark, find
<1>2. ASSUME UNCHANGED pool, NEW k \in {"dud", "overflowed"}, Count(c, k) PROVE Balanced'
  <2>1. ASSUME NEW d \in Caps PROVE Missing(d)' = Missing(d)
    <3>1. CASE d = c
      <4>1. /\ stats'[c].created = stats[c].created + 0
            /\ stats'[c].converted = stats[c].converted + 0
            /\ stats'[c].fizzled = stats[c].fizzled + 0
            /\ stats'[c].gcd = stats[c].gcd + 0
        BY <1>2, CountIs
      <4>2. InFlight(c)' = InFlight(c)
        BY <1>1 DEF InFlight
      <4> QED BY <1>2, <3>1, <4>1, <4>2, Parts DEF Missing
    <3>2. CASE d # c
      <4>1. stats'[d] = stats[d]
        BY <1>2, <3>2, CountIs
      <4> QED BY <1>1, <1>2, <4>1, MissingSame
    <3> QED BY <3>1, <3>2
  <2> QED BY <2>1, BalanceSame
<1>3. ASSUME ~ (pool[c].bottom - pool[c].top > Size - 1), Count(c, "created"),
             pool' = [pool EXCEPT ![c].elements[pool[c].bottom % Size] = p,
                                  ![c].bottom = @ + 1]
      PROVE  Balanced'
  <2> DEFINE q == pool[c]
             r == [q EXCEPT !.elements[q.bottom % Size] = p, !.bottom = @ + 1]
  <2>1. PoolOK(q) /\ ~ (q.bottom - q.top > Size - 1)
    BY <1>3 DEF IndInv, PoolsOK
  <2>2. pool' = [pool EXCEPT ![c] = r] /\ pool \in [Caps -> Pools]
    BY <1>3 DEF IndInv, TypeOK
  <2>3. SparkPoolSize(r) = SparkPoolSize(q) + 1
    BY <2>1, PoolPushed
  <2>4. Count(c, "created")
    BY <1>3
  <2> HIDE DEF r
  <2>5. pool'[c] = r /\ \A d \in Caps \ {c} : pool'[d] = pool[d]
    BY <2>2
  <2>6. ASSUME NEW d \in Caps PROVE Missing(d)' = Missing(d)
    <3>1. CASE d = c
      <4>1. /\ stats'[c].created = stats[c].created + 1
            /\ stats'[c].converted = stats[c].converted + 0
            /\ stats'[c].fizzled = stats[c].fizzled + 0
            /\ stats'[c].gcd = stats[c].gcd + 0
        BY <2>4, CountIs
      <4>2. InFlight(c)' = InFlight(c)
        BY <1>1 DEF InFlight
      <4>3. SparkPoolSize(pool'[c]) = SparkPoolSize(pool[c]) + 1
        BY <2>3, <2>5
      <4> QED BY <3>1, <4>1, <4>2, <4>3, Parts DEF Missing
    <3>2. CASE d # c
      <4>1. stats'[d] = stats[d]
        BY <2>4, <3>2, CountIs
      <4> QED BY <1>1, <2>5, <3>2, <4>1, MissingSame
    <3> QED BY <3>1, <3>2
  <2> QED BY <2>6, BalanceSame
<1> QED BY <1>2, <1>3 DEF NewSpark

\* A stolen spark leaves the pool of the victim and is in the hands of the thief.
LEMMA StealBalances ==
    ASSUME IndInv, IndInv', Balanced, NEW c \in Caps, TrySteal(c)
    PROVE  Balanced'
<1> DEFINE v == victim[c]
           q == pool[v]
           r == [q EXCEPT !.top = @ + 1]
           f == [x \in Caps |-> Left[x] + (IF x = v THEN 1 ELSE 0)]
<1>1. v \in Caps /\ PoolOK(q) /\ ~EmptySparkPool(q)
  BY DEF TrySteal, IndInv, VictimsOK, PoolsOK
<1>2. SparkPoolSize(r) = SparkPoolSize(q) - 1
  BY <1>1, PoolStolen
<1>3. pool' = [pool EXCEPT ![v] = r] /\ pool \in [Caps -> Pools]
  BY <1>1 DEF TrySteal, IndInv, TypeOK
<1>4. /\ UNCHANGED stats /\ pc' = [pc EXCEPT ![c] = "judge"] /\ pc[c] = "steal"
      /\ pc \in [Caps -> {"idle", "steal", "judge", "missed", "visit"}]
  BY DEF TrySteal, IndInv, TypeOK
<1> HIDE DEF r
<1>5. pool'[v] = r /\ \A d \in Caps \ {v} : pool'[d] = pool[d]
  BY <1>1, <1>3
<1>6. ASSUME NEW d \in Caps
      PROVE  SparkPoolSize(pool'[d]) = SparkPoolSize(pool[d]) - (IF d = v THEN 1 ELSE 0)
  <2>1. SparkPoolSize(pool[d]) \in Nat
    BY Parts
  <2> QED BY <1>2, <1>5, <2>1
<1>7. ASSUME NEW d \in Caps PROVE InFlight(d)' = InFlight(d) + (IF d = c THEN 1 ELSE 0)
  BY <1>4 DEF InFlight
<1> HIDE DEF v
<1>8. ASSUME NEW d \in Caps
      PROVE  Missing(d)' = Missing(d) + (IF d = v THEN 1 ELSE 0) - (IF d = c THEN 1 ELSE 0)
  <2> DEFINE i == IF d = v THEN 1 ELSE 0
             j == IF d = c THEN 1 ELSE 0
  <2>1. i \in Int /\ j \in Int
    OBVIOUS
  <2>2. /\ stats' = stats
        /\ SparkPoolSize(pool'[d]) = SparkPoolSize(pool[d]) - i
        /\ InFlight(d)' = InFlight(d) + j
    BY <1>4, <1>6, <1>7
  <2> HIDE DEF i, j
  <2>3. Missing(d)' = Missing(d) + i - j
    BY <2>1, <2>2, Parts DEF Missing
  <2> QED BY <2>3 DEF i, j
<1>9. Left \in [Caps -> Int] /\ \A d \in Caps : Left[d] = Missing(d)
  BY LeftType
<1>10. Left' \in [Caps -> Int] /\ \A d \in Caps : Left'[d] = Missing(d)'
  BY <1>8, <1>9 DEF Left
<1>11. f \in [Caps -> Int] /\ \A d \in Caps : f[d] = Left[d] + (IF d = v THEN 1 ELSE 0)
  BY <1>9
<1> HIDE DEF f
<1>12. SumOver(f) = SumOver(Left) + 1
  <2>1. 1 \in Int /\ Left \in [Caps -> Int]
    BY <1>9
  <2> QED BY <1>1, <1>11, <2>1, SumChanges
<1>13. SumOver(Left') = SumOver(f) + (-1)
  <2> DEFINE g == Left'
  <2>1. g \in [Caps -> Int]
    BY <1>10
  <2>2. ASSUME NEW d \in Caps PROVE g[d] = f[d] + (IF d = c THEN -1 ELSE 0)
    <3>1. Left[d] \in Int
      BY <1>9
    <3> QED BY <1>8, <1>9, <1>10, <1>11, <3>1
  <2> HIDE DEF g
  <2>3. -1 \in Int
    OBVIOUS
  <2>4. SumOver(g) = SumOver(f) + (-1)
    BY <1>11, <2>1, <2>2, <2>3, SumChanges
  <2> QED BY <2>4 DEF g
<1>14. SumOver(Left') = 0
  BY <1>12, <1>13 DEF Balanced
<1> QED BY <1>14 DEF Balanced, SumOver, Sums

\* findSpark counts the spark in its hands once, as converted or as fizzled.
LEMMA JudgeBalances ==
    ASSUME IndInv, Balanced, NEW c \in Caps, Judge(c)
    PROVE  Balanced'
<1>1. PICK k \in {"fizzled", "converted"} : Count(c, k)
  BY DEF Judge
<1>2. /\ UNCHANGED pool /\ pc[c] = "judge" /\ pc'[c] # "judge"
      /\ \A d \in Caps \ {c} : pc'[d] = pc[d]
  <2>1. pc \in [Caps -> {"idle", "steal", "judge", "missed", "visit"}]
    BY DEF IndInv, TypeOK
  <2>2. CASE Fizzled(spark[c])
    BY <2>1, <2>2 DEF Judge
  <2>3. CASE ~Fizzled(spark[c])
    BY <2>1, <2>3 DEF Judge, FindReturns
  <2> QED BY <2>2, <2>3
<1>3. ASSUME NEW d \in Caps PROVE Missing(d)' = Missing(d)
  <2>1. CASE d = c
    <3>1. /\ stats'[c].created = stats[c].created + 0
          /\ stats'[c].gcd = stats[c].gcd + 0
          /\ stats'[c].converted = stats[c].converted + (IF k = "converted" THEN 1 ELSE 0)
          /\ stats'[c].fizzled = stats[c].fizzled + (IF k = "fizzled" THEN 1 ELSE 0)
      BY <1>1, CountIs
    <3>2. InFlight(c) = 1 /\ InFlight(c)' = 0
      BY <1>2 DEF InFlight
    <3> QED BY <1>1, <1>2, <2>1, <3>1, <3>2, Parts DEF Missing
  <2>2. CASE d # c
    <3>1. stats'[d] = stats[d]
      BY <1>1, <2>2, CountIs
    <3> QED BY <1>2, <2>2, <3>1, MissingSame
  <2> QED BY <2>1, <2>2
<1> QED BY <1>3, BalanceSame

\* The other steps of findSpark count nothing and take nothing.
LEMMA SearchBalances ==
    ASSUME IndInv, Balanced, NEW c \in Caps,
           FindStart(c) \/ MissSteal(c) \/ Missed(c) \/ Visit(c) \/ SweepDone(c)
    PROVE  Balanced'
<1>1. UNCHANGED <<pool, stats>>
  BY DEF FindStart, MissSteal, Missed, Visit, SweepDone
<1>2. pc \in [Caps -> {"idle", "steal", "judge", "missed", "visit"}]
  BY DEF IndInv, TypeOK
<1>3. pc[c] # "judge"
  BY DEF FindStart, MissSteal, Missed, Visit, SweepDone
<1>4. pc' = pc \/ \E l \in {"idle", "steal", "missed", "visit"} : pc' = [pc EXCEPT ![c] = l]
  <2>1. CASE FindStart(c) \/ MissSteal(c)
    BY <2>1 DEF FindStart, MissSteal
  <2>2. CASE Missed(c)
    BY <2>2 DEF Missed, FindReturns
  <2>3. CASE Visit(c)
    BY <2>3 DEF Visit
  <2>4. CASE SweepDone(c)
    BY <2>4 DEF SweepDone, FindReturns
  <2> QED BY <2>1, <2>2, <2>3, <2>4
<1>5. \A d \in Caps : pc'[d] = "judge" <=> pc[d] = "judge"
  BY <1>2, <1>3, <1>4
<1>6. \A d \in Caps : Missing(d)' = Missing(d)
  BY <1>1, <1>5, MissingSame
<1> QED BY <1>6, BalanceSame

\* A collection of pools that are not full counts each spark that it drops, once.
LEMMA CollectBalances ==
    ASSUME IndInv, Balanced, ~FullPoolAtGC, NEW alive, CollectGarbage(alive)
    PROVE  Balanced'
<1>1. ASSUME NEW c \in Caps PROVE Missing(c)' = Missing(c)
  <2> DEFINE q == pool[c]
             done == PruneLoop(Reset(q), alive)
             r == Pruned(q, alive)
             f == stats[c].fizzled + done.fizzled
             g == stats[c].gcd + done.gcd
  <2>1. PoolOK(q) /\ ~IsFull(q) /\ stats[c] \in SparkCounters
    BY DEF CollectGarbage, IndInv, PoolsOK, TypeOK
  <2>2. SparkPoolSize(r) + done.fizzled + done.gcd = SparkPoolSize(q)
    BY <2>1, PrunedKeeps
  <2>3. done \in Loop /\ PoolOK(r)
    BY <2>1, PrunedOK
  <2>4. pool'[c] = r /\ pc'[c] = pc[c]
    BY DEF CollectGarbage, find
  <2>5. stats'[c] = [stats[c] EXCEPT !.fizzled = @ + done.fizzled, !.gcd = @ + done.gcd]
    BY DEF CollectGarbage
  <2> HIDE DEF done, r
  <2>6. stats'[c] = [stats[c] EXCEPT !.fizzled = f, !.gcd = g]
    BY <2>1, <2>5 DEF SparkCounters
  <2>7. /\ stats'[c].created = stats[c].created /\ stats'[c].converted = stats[c].converted
        /\ stats'[c].fizzled = f /\ stats'[c].gcd = g
    BY <2>1, <2>6 DEF SparkCounters
  <2>8. InFlight(c)' = InFlight(c)
    BY <2>4 DEF InFlight
  <2>9. done.fizzled \in Nat /\ done.gcd \in Nat /\ SparkPoolSize(r) \in Nat
    BY <2>3, PoolSize DEF Loop
  <2>10. /\ stats[c].created \in Nat /\ stats[c].converted \in Nat
         /\ stats[c].gcd \in Nat /\ stats[c].fizzled \in Nat
         /\ SparkPoolSize(q) \in Nat /\ InFlight(c) \in {0, 1}
    BY Parts
  <2>11. Missing(c)' = stats'[c].created - (stats'[c].converted + SparkPoolSize(pool'[c])
                          + stats'[c].gcd + stats'[c].fizzled + InFlight(c)')
    BY DEF Missing
  <2>12. Missing(c)' = stats[c].created - (stats[c].converted + SparkPoolSize(r)
                          + (stats[c].gcd + done.gcd) + (stats[c].fizzled + done.fizzled)
                          + InFlight(c))
    BY <2>4, <2>7, <2>8, <2>11
  <2>13. Missing(c) = stats[c].created - (stats[c].converted + SparkPoolSize(q)
                          + stats[c].gcd + stats[c].fizzled + InFlight(c))
    BY DEF Missing
  <2> QED BY <2>2, <2>9, <2>10, <2>12, <2>13
<1> QED BY <1>1, BalanceSame

\* Discarded sparks are counted as collected.
LEMMA DiscardBalances ==
    ASSUME IndInv, Balanced, DiscardSparks
    PROVE  Balanced'
<1>1. ASSUME NEW c \in Caps PROVE Missing(c)' = Missing(c)
  <2> DEFINE q == pool[c]
             r == [q EXCEPT !.top = q.bottom]
             n == SparkPoolSize(q)
             g == stats[c].gcd + n
  <2>1. PoolOK(q) /\ stats[c] \in SparkCounters
    BY DEF IndInv, PoolsOK, TypeOK
  <2>2. SparkPoolSize(r) = 0
    BY <2>1, PoolDropped
  <2>3. pool'[c] = r /\ pc'[c] = pc[c]
    BY DEF DiscardSparks, find
  <2>4. stats'[c] = [stats[c] EXCEPT !.gcd = @ + n]
    BY DEF DiscardSparks
  <2> HIDE DEF r, n
  <2>5. /\ stats'[c].created = stats[c].created /\ stats'[c].converted = stats[c].converted
        /\ stats'[c].fizzled = stats[c].fizzled /\ stats'[c].gcd = g
    BY <2>1, <2>4 DEF SparkCounters
  <2>6. InFlight(c)' = InFlight(c)
    BY <2>3 DEF InFlight
  <2>7. /\ stats[c].created \in Nat /\ stats[c].converted \in Nat
        /\ stats[c].gcd \in Nat /\ stats[c].fizzled \in Nat
        /\ n \in Nat /\ InFlight(c) \in {0, 1}
    BY Parts DEF n
  <2>8. Missing(c)' = stats[c].created - (stats[c].converted + 0
                         + (stats[c].gcd + n) + stats[c].fizzled + InFlight(c))
    BY <2>2, <2>3, <2>5, <2>6 DEF Missing
  <2>9. Missing(c) = stats[c].created - (stats[c].converted + n
                        + stats[c].gcd + stats[c].fizzled + InFlight(c))
    BY DEF Missing, n
  <2> QED BY <2>7, <2>8, <2>9
<1> QED BY <1>1, BalanceSame

\* Every step keeps the balance, if no pool is full when it is pruned.
LEMMA NextBalances ==
    ASSUME ~FullPoolAtGC
    PROVE  IndInv /\ IndInv' /\ Balanced /\ [Next]_vars => Balanced'
<1> SUFFICES ASSUME IndInv, IndInv', Balanced, [Next]_vars PROVE Balanced'
  OBVIOUS
<1>1. ASSUME UNCHANGED <<pool, stats, pc>> PROVE Balanced'
  <2>1. \A c \in Caps : Missing(c)' = Missing(c)
    BY <1>1, MissingSame
  <2> QED BY <2>1, BalanceSame
<1>2. ASSUME NEW p \in Closures, Evaluate(p) PROVE Balanced'
  BY <1>1, <1>2 DEF Evaluate, find
<1>3. CASE UNCHANGED vars
  BY <1>1, <1>3 DEF vars
<1>4. ASSUME NEW c \in Caps, FindStart(c) \/ FindStep(c) PROVE Balanced'
  BY <1>4, StealBalances, JudgeBalances, SearchBalances DEF FindStep
<1> QED BY <1>2, <1>3, <1>4, NewSparkBalances, CollectBalances, DiscardBalances DEF Next

\* When all capabilities are stopped, nothing is in flight.
LEMMA BalancedCounts == IndInv /\ Balanced => SparkCountInvariant
<1> SUFFICES ASSUME IndInv, Balanced, AllStopped
             PROVE  Total("created")
                      = Total("converted") + Remaining + Total("gcd") + Total("fizzled")
  BY DEF SparkCountInvariant
<1>1. Left \in [Caps -> Int] /\ \A c \in Caps : Left[c] = Missing(c)
  BY LeftType
<1>2. ASSUME NEW k \in {"created", "converted", "gcd", "fizzled"}
      PROVE  Counts(k) \in [Caps -> Int] /\ \A c \in Caps : Counts(k)[c] = stats[c][k]
  <2>1. \A c \in Caps : stats[c][k] \in Int
    BY DEF IndInv, TypeOK, SparkCounters
  <2> QED BY <2>1 DEF Counts
<1>3. Sizes \in [Caps -> Int] /\ \A c \in Caps : Sizes[c] = SparkPoolSize(pool[c])
  BY Parts DEF Sizes
<1>4. ASSUME NEW c \in Caps
      PROVE  Left[c] = Counts("created")[c] - (Counts("converted")[c] + Sizes[c]
                                                 + Counts("gcd")[c] + Counts("fizzled")[c])
  <2>1. InFlight(c) = 0
    BY DEF AllStopped, InFlight
  <2>2. /\ Counts("created")[c] = stats[c].created
        /\ Counts("converted")[c] = stats[c].converted
        /\ Counts("gcd")[c] = stats[c].gcd
        /\ Counts("fizzled")[c] = stats[c].fizzled
    BY <1>2
  <2> QED BY <1>1, <1>3, <2>1, <2>2, Parts DEF Missing
<1>5. /\ Total("created") = SumOver(Counts("created"))
      /\ Total("converted") = SumOver(Counts("converted"))
      /\ Total("gcd") = SumOver(Counts("gcd"))
      /\ Total("fizzled") = SumOver(Counts("fizzled"))
      /\ Remaining = SumOver(Sizes)
  BY <1>2, <1>3, TotalIs, RemainingIs
<1> DEFINE f1 == Counts("created")
           f2 == Counts("converted")
           f3 == Sizes
           f4 == Counts("gcd")
           f5 == Counts("fizzled")
<1>6. /\ f1 \in [Caps -> Int] /\ f2 \in [Caps -> Int] /\ f3 \in [Caps -> Int]
      /\ f4 \in [Caps -> Int] /\ f5 \in [Caps -> Int]
  BY <1>2, <1>3
<1>7. \A x \in Caps : Left[x] = f1[x] - (f2[x] + f3[x] + f4[x] + f5[x])
  BY <1>4
<1>8. SumOver(Left) = 0
  BY DEF Balanced
<1> HIDE DEF f1, f2, f3, f4, f5
<1>9. /\ SumOver(Left) = SumOver(f1) - (SumOver(f2) + SumOver(f3) + SumOver(f4) + SumOver(f5))
      /\ SumOver(f1) \in Int /\ SumOver(f2) \in Int /\ SumOver(f3) \in Int
      /\ SumOver(f4) \in Int /\ SumOver(f5) \in Int
  <2>1. Accounts(Left, f1, f2, f3, f4, f5)
    BY <1>1, <1>6, <1>7 DEF Accounts
  <2> QED BY <2>1, SumSplits, Zenon
<1>10. SumOver(f1) = SumOver(f2) + SumOver(f3) + SumOver(f4) + SumOver(f5)
  BY <1>8, <1>9
<1> QED BY <1>5, <1>10 DEF f1, f2, f3, f4, f5

\* For any number of capabilities and sparks, and any size of the pools: as long as no
\* collection meets a pool that is filled to the last slot, "created = converted +
\* remaining + gcd + fizzled" whenever all capabilities are stopped.
THEOREM NoSparkLost ==
    ASSUME ~FullPoolAtGC
    PROVE  Spec => []SparkCountInvariant
<1>1. IndInv /\ IndInv' /\ Balanced /\ [Next]_vars => Balanced'
  BY NextBalances
<1> QED BY <1>1, Invariance, InitBalanced, BalancedCounts, PTL DEF Spec
=============================================================================
