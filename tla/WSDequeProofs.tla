--------------------------- MODULE WSDequeProofs ---------------------------
(***************************************************************************)
(* For every number of thieves, every array size, every store buffer depth *)
(* and every number of pushes: the deque of WSDeque.tla neither loses nor  *)
(* duplicates an element, whatever the interleaving, and each of its       *)
(* operations takes effect at one instant, as one of Deque.tla.            *)
(***************************************************************************)
EXTENDS WSDeque, TLAPS

----------------------------------------------------------------------------
(* Arithmetic of the ring: less than Size apart means different slots.     *)

\* Division with remainder, as rts/WSDeque.c's index & moduloSize uses it.
LEMMA DivMod ==
    ASSUME NEW n \in Nat \ {0}, NEW i \in Nat
    PROVE  i = n * (i \div n) + (i % n) /\ i \div n \in Nat /\ i % n \in 0..(n - 1)
OBVIOUS

\* A positive multiple of n is at least n.
LEMMA MultipleAtLeast ==
    ASSUME NEW n \in Nat \ {0}, NEW d \in Nat \ {0}
    PROVE  n * d >= n
OBVIOUS

\* Multiplication distributes over subtraction.
LEMMA Distributes ==
    ASSUME NEW n \in Nat \ {0}, NEW a \in Int, NEW b \in Int
    PROVE  n * b - n * a = n * (b - a)
OBVIOUS

\* Two indices of the deque less than its size apart use different slots.
LEMMA DistinctSlots ==
    ASSUME NEW n \in Nat \ {0}, NEW i \in Nat, NEW j \in Nat, i < j, j - i < n
    PROVE  i % n # j % n
<1> DEFINE a == i \div n
           b == j \div n
<1>1. a \in Nat /\ b \in Nat /\ i = n * a + (i % n) /\ j = n * b + (j % n)
  BY DivMod
<1> SUFFICES ASSUME i % n = j % n PROVE FALSE
  OBVIOUS
<1> HIDE DEF a, b
<1>2. n * a \in Int /\ n * b \in Int /\ i % n \in Int
  BY <1>1
<1>3. j - i = n * b - n * a
  BY <1>1, <1>2
<1>4. j - i = n * (b - a)
  BY <1>1, <1>3, Distributes
<1>5. CASE b - a <= 0
  <2>1. n * (b - a) <= 0
    BY <1>1, <1>5
  <2> QED
    BY <2>1, <1>4
<1>6. CASE b - a >= 1
  <2>1. b - a \in Nat \ {0}
    BY <1>1, <1>6
  <2> QED
    BY <2>1, <1>4, MultipleAtLeast
<1> QED
  BY <1>1, <1>5, <1>6

\* The same for the slots of this deque.
LEMMA Slots ==
    /\ \A i \in Nat : i % Size \in 0..(Size - 1)
    /\ \A i, j \in Nat : i # j /\ i - j < Size /\ j - i < Size => i % Size # j % Size
<1> Size \in Nat \ {0}
  BY WSDequeAssumption
<1>1. ASSUME NEW i \in Nat PROVE i % Size \in 0..(Size - 1)
  BY DivMod
<1>2. ASSUME NEW i \in Nat, NEW j \in Nat, i # j, i - j < Size, j - i < Size
      PROVE  i % Size # j % Size
  <2>1. CASE i < j
    BY <2>1, <1>2, DistinctSlots
  <2>2. CASE j < i
    BY <2>2, <1>2, DistinctSlots
  <2> QED
    BY <2>1, <2>2, <1>2
<1> QED
  BY <1>1, <1>2

----------------------------------------------------------------------------
(* The store buffer.                                                       *)

\* What the owner reads, and what the thieves may still read, after a store.
LEMMA AfterStore ==
    ASSUME TypeOK, NEW v \in Int, sb' = Append(sb, v)
    PROVE  /\ sb' \in Seq(Int)
           /\ OwnBottom' = v
           /\ \A k \in 1..Len(sb') : sb'[k] = v \/ \E j \in 1..Len(sb) : sb'[k] = sb[j]
<1>1. sb \in Seq(Int) /\ Len(sb) \in Nat
  BY DEF TypeOK
<1>2. sb' \in Seq(Int) /\ Len(sb') = Len(sb) + 1 /\ sb'[Len(sb) + 1] = v
  BY <1>1
<1>3. \A k \in 1..Len(sb) : sb'[k] = sb[k]
  BY <1>1
<1>4. OwnBottom' = v
  BY <1>1, <1>2 DEF OwnBottom
<1>5. ASSUME NEW k \in 1..Len(sb')
      PROVE  sb'[k] = v \/ \E j \in 1..Len(sb) : sb'[k] = sb[j]
  BY <1>1, <1>2, <1>3
<1> QED
  BY <1>2, <1>4, <1>5

\* A drained store changes what the thieves read, not what the owner reads.
LEMMA AfterFlush ==
    ASSUME TypeOK, Flush
    PROVE  /\ sb' \in Seq(Int)
           /\ bottom' \in Int
           /\ OwnBottom' = OwnBottom
           /\ \E j \in 1..Len(sb) : bottom' = sb[j]
           /\ \A k \in 1..Len(sb') : \E j \in 1..Len(sb) : sb'[k] = sb[j]
<1>1. sb # <<>> /\ sb' = Tail(sb) /\ bottom' = Head(sb) /\ sb \in Seq(Int)
  BY DEF TypeOK, Flush
<1>2. Len(sb) \in Nat /\ Len(sb) >= 1 /\ bottom' = sb[1] /\ Len(sb') = Len(sb) - 1
  BY <1>1
<1>3. \A k \in 1..Len(sb') : sb'[k] = sb[k + 1] /\ k + 1 \in 1..Len(sb)
  BY <1>1, <1>2
<1>4. sb' \in Seq(Int) /\ bottom' \in Int
  BY <1>1, <1>2
<1>5. OwnBottom' = OwnBottom
  <2>1. CASE Len(sb) = 1
    <3>1. sb' = <<>>
      BY <2>1, <1>1, <1>2, <1>4
    <3> QED
      BY <3>1, <2>1, <1>1, <1>2 DEF OwnBottom
  <2>2. CASE Len(sb) > 1
    <3>1. sb' # <<>>
      BY <2>2, <1>2
    <3>2. sb'[Len(sb')] = sb[Len(sb)]
      BY <2>2, <1>2, <1>3
    <3> QED
      BY <3>1, <3>2, <1>1 DEF OwnBottom
  <2> QED
    BY <2>1, <2>2, <1>2
<1> QED
  BY <1>2, <1>3, <1>4, <1>5

\* What the owner reads of bottom is an integer.
LEMMA OwnBottomInt == TypeOK => OwnBottom \in Int
BY DEF TypeOK, OwnBottom

----------------------------------------------------------------------------
(* Which elements are in the deque.                                        *)

\* As long as the same indices hold the same elements, ExactlyOnce and the
\* deque's contents do not change.
LEMMA SameContents ==
    ASSUME ExactlyOnce, top' = top, LogicalBottom' = LogicalBottom,
           \A i \in top..(LogicalBottom - 1) : elements'[i % Size] = elements[i % Size],
           inserted' = inserted, removed' = removed
    PROVE  ExactlyOnce'
<1>1. ContentSet' = ContentSet
  BY DEF ContentSet
<1>2. ASSUME NEW i \in top..(LogicalBottom - 1), NEW j \in top..(LogicalBottom - 1),
             elements'[i % Size] = elements'[j % Size]
      PROVE  i = j
  BY <1>2 DEF ExactlyOnce
<1> QED
  BY <1>1, <1>2 DEF ExactlyOnce

\* The oldest element leaves the deque (a steal, or a pop of the last one).
LEMMA TakeOldest ==
    ASSUME TypeOK, ExactlyOnce, top < LogicalBottom, LogicalBottom \in Int,
           top' = top + 1, LogicalBottom' = LogicalBottom, elements' = elements,
           inserted' = inserted, removed' = removed \cup {elements[top % Size]}
    PROVE  ExactlyOnce'
<1> top \in Nat
  BY DEF TypeOK
<1> DEFINE I == top..(LogicalBottom - 1)
           J == (top + 1)..(LogicalBottom - 1)
<1>1. I = J \cup {top} /\ top \notin J /\ top \in I
  OBVIOUS
<1> HIDE DEF I, J
<1>2. ContentSet = {elements[i % Size] : i \in I} /\ ContentSet' = {elements[i % Size] : i \in J}
  BY DEF ContentSet, I, J
<1>3. ContentSet = ContentSet' \cup {elements[top % Size]}
  BY <1>1, <1>2
<1>4. \A i, j \in I : elements[i % Size] = elements[j % Size] => i = j
  BY DEF ExactlyOnce, I
<1>5. elements[top % Size] \notin ContentSet'
  BY <1>1, <1>2, <1>4
<1>6. \A i, j \in J : elements[i % Size] = elements[j % Size] => i = j
  BY <1>1, <1>4
<1>7. (\A i, j \in top..(LogicalBottom - 1) : elements[i % Size] = elements[j % Size] => i = j)'
  BY <1>6 DEF J
<1>8. ContentSet \cup removed = inserted /\ ContentSet \cap removed = {}
  BY DEF ExactlyOnce
<1>9. ContentSet' \cup removed' = inserted' /\ ContentSet' \cap removed' = {}
  BY <1>3, <1>5, <1>8
<1> QED
  BY <1>7, <1>9 DEF ExactlyOnce

\* The youngest element leaves the deque (a pop that need not compete).
LEMMA TakeYoungest ==
    ASSUME TypeOK, ExactlyOnce, top < LogicalBottom, LogicalBottom \in Int,
           top' = top, LogicalBottom' = LogicalBottom - 1, elements' = elements,
           inserted' = inserted,
           removed' = removed \cup {elements[(LogicalBottom - 1) % Size]}
    PROVE  ExactlyOnce'
<1> top \in Nat
  BY DEF TypeOK
<1> DEFINE I == top..(LogicalBottom - 1)
           J == top..(LogicalBottom - 2)
           m == LogicalBottom - 1
<1>1. I = J \cup {m} /\ m \notin J /\ m \in I
  OBVIOUS
<1> HIDE DEF I, J
<1>2. ContentSet = {elements[i % Size] : i \in I} /\ ContentSet' = {elements[i % Size] : i \in J}
  BY DEF ContentSet, I, J
<1>3. ContentSet = ContentSet' \cup {elements[m % Size]}
  BY <1>1, <1>2
<1>4. \A i, j \in I : elements[i % Size] = elements[j % Size] => i = j
  BY DEF ExactlyOnce, I
<1>5. elements[m % Size] \notin ContentSet'
  BY <1>1, <1>2, <1>4
<1>6. \A i, j \in J : elements[i % Size] = elements[j % Size] => i = j
  BY <1>1, <1>4
<1>7. (\A i, j \in top..(LogicalBottom - 1) : elements[i % Size] = elements[j % Size] => i = j)'
  BY <1>6 DEF J
<1>8. ContentSet \cup removed = inserted /\ ContentSet \cap removed = {}
  BY DEF ExactlyOnce
<1>9. ContentSet' \cup removed' = inserted' /\ ContentSet' \cap removed' = {}
  BY <1>3, <1>5, <1>8
<1> QED
  BY <1>7, <1>9 DEF ExactlyOnce

\* A new element enters the deque (the store of bottom in pushWSDeque).
LEMMA AddYoungest ==
    ASSUME TypeOK, ExactlyOnce, top <= LogicalBottom, LogicalBottom \in Int,
           top' = top, LogicalBottom' = LogicalBottom + 1, elements' = elements,
           elements[LogicalBottom % Size] \notin inserted,
           inserted' = inserted \cup {elements[LogicalBottom % Size]},
           removed' = removed
    PROVE  ExactlyOnce'
<1> top \in Nat
  BY DEF TypeOK
<1> DEFINE I == top..(LogicalBottom - 1)
           J == top..LogicalBottom
           m == LogicalBottom
<1>1. J = I \cup {m} /\ m \notin I /\ m \in J
  OBVIOUS
<1> HIDE DEF I, J
<1>2. ContentSet = {elements[i % Size] : i \in I} /\ ContentSet' = {elements[i % Size] : i \in J}
  BY DEF ContentSet, I, J
<1>3. ContentSet' = ContentSet \cup {elements[m % Size]}
  BY <1>1, <1>2
<1>4. \A i, j \in I : elements[i % Size] = elements[j % Size] => i = j
  BY DEF ExactlyOnce, I
<1>5. ContentSet \cup removed = inserted /\ ContentSet \cap removed = {}
  BY DEF ExactlyOnce
<1>6. \A i \in I : elements[i % Size] # elements[m % Size]
  BY <1>2, <1>5
<1>7. \A i, j \in J : elements[i % Size] = elements[j % Size] => i = j
  BY <1>1, <1>4, <1>6
<1>8. (\A i, j \in top..(LogicalBottom - 1) : elements[i % Size] = elements[j % Size] => i = j)'
  BY <1>7 DEF J
<1>9. ContentSet' \cup removed' = inserted' /\ ContentSet' \cap removed' = {}
  BY <1>3, <1>5
<1> QED
  BY <1>8, <1>9 DEF ExactlyOnce

----------------------------------------------------------------------------
(* The invariant is inductive: one lemma per group of actions.             *)

\* Initially the deque is empty and nobody is inside an operation.
LEMMA InitInv == Init => IndInv
<1> SUFFICES ASSUME Init PROVE IndInv
  OBVIOUS
<1>1. Size \in Nat \ {0}
  BY WSDequeAssumption
<1>2. TypeOK
  BY <1>1 DEF Init, TypeOK, OwnerPCs, ThiefPCs, Null
<1>3. LogicalBottom = 0 /\ OwnBottom = 0 /\ top = 0
  BY DEF Init, LogicalBottom, OwnBottom
<1>4. ContentSet = {}
  BY <1>3 DEF ContentSet
<1>5. Bounded /\ BottomBehind /\ OwnerLocals /\ ThiefLocals /\ FreshElement
  BY <1>1, <1>3 DEF Init, Bounded, BottomBehind, OwnerLocals, ThiefLocals, FreshElement
<1>6. ExactlyOnce
  BY <1>3, <1>4 DEF Init, ExactlyOnce
<1> QED
  BY <1>2, <1>5, <1>6 DEF IndInv

\* The logical bottom is an integer, and at least top, hence a natural number.
LEMMA BottomType == IndInv => LogicalBottom \in Nat /\ OwnBottom \in Int /\ top \in Nat
<1> SUFFICES ASSUME IndInv PROVE LogicalBottom \in Nat /\ OwnBottom \in Int /\ top \in Nat
  OBVIOUS
<1>1. OwnBottom \in Int /\ top \in Nat /\ ob \in Int
  BY OwnBottomInt DEF IndInv, TypeOK
<1>2. LogicalBottom \in Int
  BY <1>1 DEF LogicalBottom
<1> QED
  BY <1>1, <1>2 DEF IndInv, Bounded

\* A store becomes visible to the thieves.
LEMMA FlushInv == IndInv /\ Flush => IndInv'
<1> SUFFICES ASSUME IndInv, Flush PROVE IndInv'
  OBVIOUS
<1> USE DEF owner, thief
<1>1. LogicalBottom \in Nat /\ OwnBottom \in Int /\ top \in Nat
  BY BottomType
<1>2. /\ sb' \in Seq(Int) /\ bottom' \in Int /\ OwnBottom' = OwnBottom
      /\ \E j \in 1..Len(sb) : bottom' = sb[j]
      /\ \A k \in 1..Len(sb') : \E j \in 1..Len(sb) : sb'[k] = sb[j]
  BY AfterFlush DEF IndInv
<1>3. LogicalBottom' = LogicalBottom
  BY <1>2 DEF Flush, LogicalBottom
<1>4. TypeOK'
  BY <1>2 DEF IndInv, TypeOK, Flush
<1>5. Bounded'
  BY <1>3 DEF IndInv, Bounded, Flush
<1>6. BottomBehind'
  BY <1>2, <1>3 DEF IndInv, BottomBehind
<1>7. OwnerLocals'
  BY <1>2 DEF IndInv, OwnerLocals, Flush
<1>8. ThiefLocals' /\ FreshElement'
  BY <1>3 DEF IndInv, ThiefLocals, FreshElement, Flush
<1>9. ExactlyOnce'
  BY <1>3, SameContents DEF IndInv, Flush
<1> QED
  BY <1>4, <1>5, <1>6, <1>7, <1>8, <1>9 DEF IndInv

\* The first two steps of a push only read.
LEMMA PushReadInv == IndInv /\ (PushStart \/ PushTop) => IndInv'
<1> SUFFICES ASSUME IndInv, PushStart \/ PushTop PROVE IndInv'
  OBVIOUS
<1> USE DEF thief
<1>1. LogicalBottom \in Nat /\ OwnBottom \in Int /\ top \in Nat /\ Size \in Nat
  BY BottomType, WSDequeAssumption
<1>2. OwnBottom' = OwnBottom /\ LogicalBottom' = LogicalBottom
  BY DEF PushStart, PushTop, OwnBottom, LogicalBottom
<1>3. TypeOK'
  <2>1. CASE PushStart
    BY <2>1, <1>1 DEF IndInv, TypeOK, PushStart, OwnerPCs
  <2>2. CASE PushTop
    <3>1. ores' \in Int /\ opc' \in OwnerPCs
      BY <2>2 DEF IndInv, TypeOK, PushTop, OwnerPCs, Full
    <3> QED
      BY <3>1, <2>2 DEF IndInv, TypeOK, PushTop
  <2> QED
    BY <2>1, <2>2
<1>4. Bounded' /\ BottomBehind'
  BY <1>2 DEF IndInv, Bounded, BottomBehind, PushStart, PushTop
<1>5. OwnerLocals'
  <2>1. CASE PushStart
    BY <2>1, <1>2 DEF OwnerLocals, PushStart
  <2>2. CASE PushTop
    BY <2>2, <1>1, <1>2 DEF IndInv, TypeOK, OwnerLocals, PushTop, IsFull
  <2> QED
    BY <2>1, <2>2
<1>6. ThiefLocals'
  BY <1>2 DEF IndInv, ThiefLocals, PushStart, PushTop
<1>7. FreshElement'
  <2>1. CASE PushStart
    <3>1. pushes \in Nat /\ pushes' = pushes + 1 /\ inserted' = inserted
      BY <2>1 DEF IndInv, TypeOK, PushStart
    <3>2. inserted \subseteq 1..pushes
      BY DEF IndInv, FreshElement
    <3>3. inserted' \subseteq 1..pushes' /\ pushes' \notin inserted'
      BY <3>1, <3>2
    <3> QED
      BY <3>1, <3>3 DEF FreshElement
  <2>2. CASE PushTop
    BY <2>2 DEF IndInv, FreshElement, PushTop
  <2> QED
    BY <2>1, <2>2
<1>8. ExactlyOnce'
  BY <1>2, SameContents DEF IndInv, PushStart, PushTop
<1> QED
  BY <1>3, <1>4, <1>5, <1>6, <1>7, <1>8 DEF IndInv

\* The slot a push writes is not one of the slots in use.
LEMMA PushElemInv == IndInv /\ PushElem => IndInv'
<1> SUFFICES ASSUME IndInv, PushElem PROVE IndInv'
  OBVIOUS
<1> USE DEF thief
<1>1. LogicalBottom \in Nat /\ OwnBottom \in Int /\ top \in Nat /\ Size \in Nat \ {0}
  BY BottomType, WSDequeAssumption
<1>2. OwnBottom' = OwnBottom /\ LogicalBottom' = LogicalBottom
  BY DEF PushElem, OwnBottom, LogicalBottom
<1>3. ob = LogicalBottom /\ ob - top < Size /\ top <= ob
  BY DEF IndInv, OwnerLocals, PushElem, LogicalBottom, Bounded
<1>4. \A i \in top..(LogicalBottom - 1) : elements'[i % Size] = elements[i % Size]
  <2> TAKE i \in top..(LogicalBottom - 1)
  <2>1. i \in Nat /\ i # ob /\ ob - i < Size /\ i - ob < Size
    BY <1>1, <1>3
  <2>2. i % Size # ob % Size
    BY <2>1, <1>1, <1>3, Slots
  <2> QED
    BY <2>2, <2>1, Slots DEF PushElem, IndInv, TypeOK
<1>5. TypeOK'
  BY <1>1, <1>3, Slots DEF IndInv, TypeOK, PushElem, OwnerPCs
<1>6. Bounded' /\ BottomBehind'
  BY <1>2 DEF IndInv, Bounded, BottomBehind, PushElem
<1>7. OwnerLocals'
  <2>1. elements'[ob % Size] = pushes
    BY <1>1, <1>3, Slots DEF IndInv, TypeOK, PushElem
  <2> QED
    BY <2>1, <1>2, <1>3 DEF IndInv, OwnerLocals, PushElem
<1>8. ThiefLocals'
  <2>1. top < LogicalBottom => elements'[top % Size] = elements[top % Size]
    BY <1>1, <1>4
  <2> QED
    BY <2>1, <1>2 DEF IndInv, ThiefLocals, PushElem
<1>9. FreshElement'
  BY DEF IndInv, FreshElement, PushElem
<1>10. ExactlyOnce'
  BY <1>2, <1>4, SameContents DEF IndInv, PushElem
<1> QED
  BY <1>5, <1>6, <1>7, <1>8, <1>9, <1>10 DEF IndInv

\* The store of bottom is where a push takes effect.
LEMMA PushBottomInv == IndInv /\ PushBottom => IndInv'
<1> SUFFICES ASSUME IndInv, PushBottom PROVE IndInv'
  OBVIOUS
<1> USE DEF thief
<1>1. LogicalBottom \in Nat /\ OwnBottom \in Int /\ top \in Nat /\ Size \in Nat \ {0}
  BY BottomType, WSDequeAssumption
<1>2. /\ ob = LogicalBottom /\ ob - top < Size /\ top <= ob
      /\ elements[ob % Size] = pushes /\ pushes \notin inserted /\ pushes >= 1
      /\ pushes \in Nat /\ ob \in Int
  BY DEF IndInv, TypeOK, OwnerLocals, PushBottom, LogicalBottom, Bounded, FreshElement
<1>3. /\ sb' \in Seq(Int) /\ OwnBottom' = ob + 1
      /\ \A k \in 1..Len(sb') : sb'[k] = ob + 1 \/ \E j \in 1..Len(sb) : sb'[k] = sb[j]
  BY <1>2, AfterStore DEF IndInv, PushBottom, StoreBottom
<1>4. LogicalBottom' = ob + 1
  BY <1>3 DEF PushBottom, LogicalBottom
<1>5. TypeOK'
  BY <1>2, <1>3 DEF IndInv, TypeOK, PushBottom, OwnerPCs
<1>6. Bounded'
  BY <1>1, <1>2, <1>4 DEF Bounded, PushBottom
<1>7. BottomBehind'
  <2>1. bottom' <= ob + 1
    BY <1>1, <1>2 DEF IndInv, TypeOK, BottomBehind, PushBottom
  <2>2. \A j \in 1..Len(sb) : sb[j] <= ob /\ sb[j] \in Int
    BY <1>2 DEF IndInv, TypeOK, BottomBehind
  <2>3. \A k \in 1..Len(sb') : sb'[k] <= ob + 1
    <3> TAKE k \in 1..Len(sb')
    <3>1. CASE sb'[k] = ob + 1
      BY <3>1, <1>2
    <3>2. CASE \E j \in 1..Len(sb) : sb'[k] = sb[j]
      <4>1. PICK j \in 1..Len(sb) : sb'[k] = sb[j]
        BY <3>2
      <4>2. sb[j] <= ob /\ sb[j] \in Int
        BY <2>2
      <4> QED
        BY <4>1, <4>2, <1>2
    <3> QED
      BY <3>1, <3>2, <1>3
  <2> QED
    BY <2>1, <2>3, <1>4 DEF BottomBehind
<1>8. OwnerLocals'
  BY DEF OwnerLocals, PushBottom
<1>9. ThiefLocals'
  BY <1>1, <1>2, <1>4 DEF IndInv, ThiefLocals, PushBottom
<1>10. FreshElement'
  BY <1>2 DEF IndInv, FreshElement, PushBottom
<1>11. ExactlyOnce'
  BY <1>1, <1>2, <1>4, AddYoungest DEF IndInv, PushBottom
<1> QED
  BY <1>5, <1>6, <1>7, <1>8, <1>9, <1>10, <1>11 DEF IndInv

\* A pop hides the youngest element from the thieves, which changes nothing
\* until it has looked at top.
LEMMA PopStartInv == IndInv /\ PopStart => IndInv'
<1> SUFFICES ASSUME IndInv, PopStart PROVE IndInv'
  OBVIOUS
<1> USE DEF thief
<1>1. LogicalBottom \in Nat /\ OwnBottom \in Int /\ top \in Nat
  BY BottomType
<1>2. LogicalBottom = OwnBottom /\ ob' = OwnBottom - 1
  BY DEF PopStart, LogicalBottom
<1>3. /\ sb' \in Seq(Int) /\ OwnBottom' = ob'
      /\ \A k \in 1..Len(sb') : sb'[k] = ob' \/ \E j \in 1..Len(sb) : sb'[k] = sb[j]
  BY <1>1, <1>2, AfterStore DEF IndInv, PopStart, StoreBottom
<1>4. LogicalBottom' = LogicalBottom
  BY <1>1, <1>2 DEF PopStart, LogicalBottom
<1>5. TypeOK'
  BY <1>1, <1>2, <1>3 DEF IndInv, TypeOK, PopStart, OwnerPCs
<1>6. Bounded'
  BY <1>4 DEF IndInv, Bounded, PopStart
<1>7. BottomBehind'
  <2>1. \A k \in 1..Len(sb') : sb'[k] <= LogicalBottom
    BY <1>1, <1>2, <1>3 DEF IndInv, BottomBehind
  <2> QED
    BY <2>1, <1>4 DEF IndInv, BottomBehind, PopStart
<1>8. OwnerLocals'
  BY <1>3 DEF OwnerLocals, PopStart
<1>9. ThiefLocals' /\ FreshElement'
  BY <1>4 DEF IndInv, ThiefLocals, FreshElement, PopStart
<1>10. ExactlyOnce'
  BY <1>4, SameContents DEF IndInv, PopStart
<1> QED
  BY <1>5, <1>6, <1>7, <1>8, <1>9, <1>10 DEF IndInv

\* Behind the fence bottom is what the owner stored, so a pop that sees
\* top < b owns element b: no thief can still be led to it.
LEMMA PopTopInv == IndInv /\ PopTop => IndInv'
<1> SUFFICES ASSUME IndInv, PopTop PROVE IndInv'
  OBVIOUS
<1> USE DEF thief
<1>1. LogicalBottom \in Nat /\ OwnBottom \in Int /\ top \in Nat /\ Size \in Nat \ {0}
  BY BottomType, WSDequeAssumption
<1>2. /\ LogicalBottom = ob + 1 /\ ob \in Int /\ sb = <<>> /\ bottom = ob
      /\ OwnBottom = ob /\ OwnBottom' = ob /\ top <= ob + 1 /\ ob + 1 - top <= Size
  BY DEF IndInv, TypeOK, Bounded, OwnerLocals, PopTop, LogicalBottom, OwnBottom, SeqCstFence
<1>3. ASSUME top <= ob PROVE elements[ob % Size] \in Nat
  <2>1. ob \in Nat
    BY <1>1, <1>2, <1>3
  <2>2. ob % Size \in 0..(Size - 1)
    BY <2>1, Slots
  <2> QED
    BY <2>2 DEF IndInv, TypeOK
<1>4. /\ UNCHANGED <<top, bottom, elements, sb, ob, tpc, tt, tres, pushes, inserted>>
      /\ ot' = top
  BY DEF PopTop
<1>5. FreshElement'
  BY <1>4 DEF IndInv, FreshElement, PopTop
<1>6. CASE top < ob
  <2>1. /\ ores' = elements[ob % Size] /\ opc' = "return"
        /\ removed' = removed \cup {elements[ob % Size]}
    BY <1>1, <1>2, <1>6 DEF PopTop
  <2>2. LogicalBottom' = ob
    BY <2>1, <1>2 DEF LogicalBottom
  <2>3. TypeOK'
    <3>1. elements[ob % Size] \in Nat
      BY <1>1, <1>2, <1>3, <1>6
    <3>2. ores' \in Int /\ ot' \in Nat
      BY <3>1, <1>1, <1>4, <2>1
    <3>3. removed \subseteq Nat
      BY DEF IndInv, TypeOK
    <3>4. removed' \subseteq Nat
      BY <3>1, <3>3, <2>1
    <3> QED
      BY <3>2, <3>4, <1>4, <2>1 DEF IndInv, TypeOK, OwnerPCs
  <2>4. Bounded' /\ BottomBehind'
    BY <1>1, <1>2, <1>4, <1>6, <2>2 DEF Bounded, BottomBehind
  <2>5. OwnerLocals'
    BY <2>1 DEF OwnerLocals
  <2>6. ThiefLocals'
    BY <1>4, <1>6, <2>2 DEF IndInv, ThiefLocals
  <2>7. ExactlyOnce'
    BY <1>1, <1>2, <1>4, <1>6, <2>1, <2>2, TakeYoungest DEF IndInv
  <2> QED
    BY <1>5, <2>3, <2>4, <2>5, <2>6, <2>7 DEF IndInv
<1>7. CASE top = ob
  <2>1. ores' = elements[ob % Size] /\ opc' = "pop_cas" /\ removed' = removed
    BY <1>1, <1>2, <1>7 DEF PopTop
  <2>2. LogicalBottom' = LogicalBottom
    BY <2>1, <1>2, <1>4 DEF LogicalBottom
  <2>3. TypeOK'
    <3>1. elements[ob % Size] \in Nat
      BY <1>1, <1>2, <1>3, <1>7
    <3> QED
      BY <3>1, <1>4, <2>1 DEF IndInv, TypeOK, OwnerPCs
  <2>4. Bounded' /\ BottomBehind'
    BY <1>4, <2>2 DEF IndInv, Bounded, BottomBehind
  <2>5. OwnerLocals'
    BY <1>2, <1>4, <1>7, <1>1, <2>1 DEF OwnerLocals
  <2>6. ThiefLocals'
    BY <1>4, <2>2 DEF IndInv, ThiefLocals
  <2>7. ExactlyOnce'
    BY <1>4, <2>1, <2>2, SameContents DEF IndInv
  <2> QED
    BY <1>5, <2>3, <2>4, <2>5, <2>6, <2>7 DEF IndInv
<1>8. CASE top > ob
  <2>1. ores' = Null /\ opc' = "pop_restore" /\ removed' = removed
    BY <1>1, <1>2, <1>8 DEF PopTop
  <2>2. LogicalBottom' = LogicalBottom
    BY <2>1, <1>2, <1>4 DEF LogicalBottom
  <2>3. TypeOK'
    BY <1>4, <2>1, <1>1 DEF IndInv, TypeOK, OwnerPCs, Null
  <2>4. Bounded' /\ BottomBehind'
    BY <1>4, <2>2 DEF IndInv, Bounded, BottomBehind
  <2>5. OwnerLocals'
    BY <1>1, <1>2, <1>4, <1>8, <2>1 DEF OwnerLocals
  <2>6. ThiefLocals'
    BY <1>4, <2>2 DEF IndInv, ThiefLocals
  <2>7. ExactlyOnce'
    BY <1>4, <2>1, <2>2, SameContents DEF IndInv
  <2> QED
    BY <1>5, <2>3, <2>4, <2>5, <2>6, <2>7 DEF IndInv
<1> QED
  BY <1>1, <1>2, <1>6, <1>7, <1>8

\* top moves on by one: what a successful compare-and-swap does to the others.
LEMMA TopMoves ==
    ASSUME IndInv, top' = top + 1, top < LogicalBottom,
           LogicalBottom' = LogicalBottom,
           UNCHANGED <<bottom, elements, sb, ob, ot, tt, pushes, inserted>>,
           removed' = removed \cup {elements[top % Size]},
           \A p \in Thieves : tpc'[p] = tpc[p] \/ tpc'[p] = "return"
    PROVE  /\ Bounded' /\ BottomBehind' /\ ThiefLocals' /\ ExactlyOnce'
           /\ removed' \subseteq Nat
<1>1. LogicalBottom \in Nat /\ top \in Nat /\ Size \in Nat \ {0} /\ tt \in [Thieves -> Nat]
  BY BottomType, WSDequeAssumption DEF IndInv, TypeOK
<1>2. Bounded' /\ BottomBehind'
  BY <1>1 DEF IndInv, Bounded, BottomBehind
<1>3. ThiefLocals'
  <2>1. \A p \in Thieves : tt'[p] \in Nat /\ tt'[p] <= top
    BY <1>1 DEF IndInv, ThiefLocals
  <2>2. \A p \in Thieves : tt'[p] <= top' /\ tt'[p] # top'
    BY <2>1, <1>1
  <2> QED
    BY <2>2 DEF ThiefLocals
<1>4. ExactlyOnce'
  BY <1>1, TakeOldest DEF IndInv
<1>5. elements[top % Size] \in Nat
  BY <1>1, Slots DEF IndInv, TypeOK
<1> QED
  BY <1>2, <1>3, <1>4, <1>5 DEF IndInv, TypeOK

\* The owner competes for the last element.
LEMMA PopCasInv == IndInv /\ PopCas => IndInv'
<1> SUFFICES ASSUME IndInv, PopCas PROVE IndInv'
  OBVIOUS
<1> USE DEF thief
<1>1. LogicalBottom \in Nat /\ top \in Nat
  BY BottomType
<1>2. /\ LogicalBottom = ob + 1 /\ ob \in Int /\ sb = <<>> /\ OwnBottom = ob
      /\ ot = ob /\ ob <= top /\ top <= ob + 1 /\ ores = elements[ob % Size]
  BY DEF IndInv, TypeOK, Bounded, OwnerLocals, PopCas, LogicalBottom
<1>3. /\ UNCHANGED <<bottom, elements, sb, ob, ot, tpc, tt, tres, pushes, inserted>>
      /\ opc' = "pop_restore"
  BY DEF PopCas
<1>4. LogicalBottom' = LogicalBottom /\ OwnBottom' = OwnBottom
  BY <1>2, <1>3 DEF LogicalBottom, OwnBottom
<1>5. FreshElement'
  BY <1>3 DEF IndInv, FreshElement
<1>6. CASE top = ot
  <2>1. top' = top + 1 /\ removed' = removed \cup {elements[top % Size]} /\ ores' = ores
    BY <1>2, <1>6 DEF PopCas
  <2>2. /\ Bounded' /\ BottomBehind' /\ ThiefLocals' /\ ExactlyOnce'
        /\ removed' \subseteq Nat
    <3>1. top < LogicalBottom
      BY <1>1, <1>2, <1>6
    <3> QED
      BY <2>1, <3>1, <1>3, <1>4, TopMoves
  <2>3. TypeOK'
    BY <2>1, <2>2, <1>1, <1>3 DEF IndInv, TypeOK, OwnerPCs
  <2>4. OwnerLocals'
    BY <1>2, <1>3, <1>4, <1>6, <2>1 DEF OwnerLocals
  <2> QED
    BY <1>5, <2>2, <2>3, <2>4 DEF IndInv
<1>7. CASE top # ot
  <2>1. top' = top /\ removed' = removed /\ ores' = Null
    BY <1>7 DEF PopCas
  <2>2. TypeOK'
    BY <2>1, <1>3 DEF IndInv, TypeOK, OwnerPCs, Null
  <2>3. Bounded' /\ BottomBehind' /\ ThiefLocals'
    BY <2>1, <1>3, <1>4 DEF IndInv, Bounded, BottomBehind, ThiefLocals
  <2>4. OwnerLocals'
    BY <1>1, <1>2, <1>3, <1>4, <1>7, <2>1 DEF OwnerLocals
  <2>5. ExactlyOnce'
    BY <2>1, <1>3, <1>4, SameContents DEF IndInv
  <2> QED
    BY <1>5, <2>2, <2>3, <2>4, <2>5 DEF IndInv
<1> QED
  BY <1>6, <1>7

\* bottom is put back, and a call returns.
LEMMA PopEndInv == IndInv /\ (PopRestore \/ OwnerReturn) => IndInv'
<1> SUFFICES ASSUME IndInv, PopRestore \/ OwnerReturn PROVE IndInv'
  OBVIOUS
<1> USE DEF thief
<1>1. LogicalBottom \in Nat /\ OwnBottom \in Int /\ top \in Nat
  BY BottomType
<1>2. LogicalBottom' = LogicalBottom /\ OwnBottom' \in Int /\ sb' \in Seq(Int)
      /\ \A k \in 1..Len(sb') : sb'[k] <= LogicalBottom
  <2>1. CASE PopRestore
    <3>1. LogicalBottom = ob + 1 /\ ob \in Int
      BY <2>1 DEF IndInv, TypeOK, PopRestore, LogicalBottom
    <3>2. /\ sb' \in Seq(Int) /\ OwnBottom' = ob + 1
          /\ \A k \in 1..Len(sb') : sb'[k] = ob + 1 \/ \E j \in 1..Len(sb) : sb'[k] = sb[j]
      BY <2>1, <3>1, AfterStore DEF IndInv, PopRestore, StoreBottom
    <3>3. LogicalBottom' = LogicalBottom
      BY <2>1, <3>1, <3>2 DEF PopRestore, LogicalBottom
    <3>4. \A k \in 1..Len(sb') : sb'[k] <= LogicalBottom
      BY <3>1, <3>2, <1>1 DEF IndInv, BottomBehind
    <3> QED
      BY <3>1, <3>2, <3>3, <3>4
  <2>2. CASE OwnerReturn
    BY <2>2, <1>1 DEF IndInv, TypeOK, OwnerReturn, LogicalBottom, OwnBottom, BottomBehind
  <2> QED
    BY <2>1, <2>2
<1>3. /\ UNCHANGED <<top, bottom, elements, ob, ot, tpc, tt, tres, pushes, inserted, removed>>
      /\ opc' \in {"return", "idle"} /\ (ores' = ores \/ ores' = Null)
  BY DEF PopRestore, OwnerReturn
<1>4. TypeOK'
  <2>1. ores' \in Int
    BY <1>3 DEF IndInv, TypeOK, Null
  <2> QED
    BY <2>1, <1>2, <1>3 DEF IndInv, TypeOK, OwnerPCs
<1>5. Bounded' /\ BottomBehind'
  BY <1>2, <1>3 DEF IndInv, Bounded, BottomBehind
<1>6. OwnerLocals'
  BY <1>3 DEF OwnerLocals
<1>7. ThiefLocals' /\ FreshElement'
  BY <1>2, <1>3 DEF IndInv, ThiefLocals, FreshElement
<1>8. ExactlyOnce'
  BY <1>2, <1>3, SameContents DEF IndInv
<1> QED
  BY <1>4, <1>5, <1>6, <1>7, <1>8 DEF IndInv

\* Everything is dropped while nobody else is active.
LEMMA DiscardInv == IndInv /\ DiscardElements => IndInv'
<1> SUFFICES ASSUME IndInv, DiscardElements PROVE IndInv'
  OBVIOUS
<1> USE DEF thief, owner
<1>1. LogicalBottom \in Nat /\ top \in Nat /\ Size \in Nat \ {0}
  BY BottomType, WSDequeAssumption
<1>2. LogicalBottom = bottom /\ sb = <<>> /\ top <= bottom /\ bottom \in Int
  BY DEF IndInv, TypeOK, Bounded, DiscardElements, SeqCstFence, LogicalBottom, OwnBottom
<1>3. /\ UNCHANGED <<bottom, elements, sb, opc, ob, ot, ores, tpc, tt, tres, pushes, inserted>>
      /\ top' = bottom /\ opc = "idle" /\ removed' = removed \cup ContentSet
      /\ \A p \in Thieves : tpc[p] = "idle"
  BY DEF DiscardElements
<1>4. LogicalBottom' = bottom
  BY <1>2, <1>3 DEF LogicalBottom, OwnBottom
<1>5. ContentSet \cup removed = inserted
  BY DEF IndInv, ExactlyOnce
<1>6. TypeOK'
  BY <1>1, <1>2, <1>3, <1>5 DEF IndInv, TypeOK
<1>7. Bounded' /\ BottomBehind'
  BY <1>1, <1>2, <1>3, <1>4 DEF Bounded, BottomBehind
<1>8. OwnerLocals' /\ FreshElement'
  BY <1>3 DEF IndInv, OwnerLocals, FreshElement
<1>9. ThiefLocals'
  <2>1. \A p \in Thieves : tt[p] \in Nat /\ tt[p] <= top
    BY DEF IndInv, TypeOK, ThiefLocals
  <2>2. \A p \in Thieves : tt'[p] <= top' /\ tpc'[p] = "idle"
    BY <2>1, <1>1, <1>2, <1>3
  <2> QED
    BY <2>2 DEF ThiefLocals
<1>10. ExactlyOnce'
  <2>1. (top..(LogicalBottom - 1))' = {}
    BY <1>1, <1>2, <1>3, <1>4
  <2>2. ContentSet' = {}
    BY <2>1 DEF ContentSet
  <2> QED
    BY <2>1, <2>2, <1>3, <1>5 DEF ExactlyOnce
<1> QED
  BY <1>6, <1>7, <1>8, <1>9, <1>10 DEF IndInv

\* A thief that only reads disturbs nobody; what it reads it may rely on only as
\* far as ThiefLocals says.
LEMMA StealReadInv ==
    ASSUME NEW p \in Thieves, IndInv,
           \/ StealTop(p) \/ StealBottom(p) \/ StealElem(p) \/ StealMiss(p)
           \/ LooksTop(p) \/ LooksBottom(p) \/ ThiefReturn(p)
    PROVE  IndInv'
<1> USE DEF owner
<1>1. LogicalBottom \in Nat /\ top \in Nat /\ bottom \in Int /\ Size \in Nat \ {0}
  BY BottomType, WSDequeAssumption DEF IndInv, TypeOK
<1>2. UNCHANGED <<top, bottom, elements, sb, opc, ob, ot, ores, pushes, inserted, removed>>
  BY DEF StealTop, StealBottom, StealElem, StealMiss, LooksTop, LooksBottom, ThiefReturn
<1>3. LogicalBottom' = LogicalBottom /\ OwnBottom' = OwnBottom
  BY <1>2 DEF LogicalBottom, OwnBottom
<1>4. elements[tt[p] % Size] \in Nat
  BY Slots DEF IndInv, TypeOK
<1>5. /\ tpc' \in [Thieves -> ThiefPCs] /\ tt' \in [Thieves -> Nat] /\ tres' \in [Thieves -> Nat]
      /\ \A r \in Thieves \ {p} : tpc'[r] = tpc[r] /\ tt'[r] = tt[r] /\ tres'[r] = tres[r]
  <2>1. CASE StealTop(p) \/ LooksTop(p)
    BY <2>1, <1>1 DEF IndInv, TypeOK, ThiefPCs, StealTop, LooksTop
  <2>2. CASE StealBottom(p) \/ StealMiss(p) \/ LooksBottom(p)
    BY <2>2 DEF IndInv, TypeOK, ThiefPCs, StealBottom, StealMiss, LooksBottom
  <2>3. CASE StealElem(p)
    BY <2>3, <1>4 DEF IndInv, TypeOK, ThiefPCs, StealElem
  <2>4. CASE ThiefReturn(p)
    BY <2>4 DEF IndInv, TypeOK, ThiefPCs, ThiefReturn, Null
  <2> QED
    BY <2>1, <2>2, <2>3, <2>4
<1>6. TypeOK'
  BY <1>2, <1>5 DEF IndInv, TypeOK
<1>7. Bounded' /\ BottomBehind' /\ OwnerLocals' /\ FreshElement'
  BY <1>2, <1>3 DEF IndInv, Bounded, BottomBehind, OwnerLocals, FreshElement
<1>8. /\ tt'[p] <= top
      /\ tpc'[p] \in {"steal_elem", "steal_cas"} /\ tt'[p] = top => top < LogicalBottom
      /\ tpc'[p] = "steal_cas" /\ tt'[p] = top => tres'[p] = elements[top % Size]
  <2>1. CASE StealTop(p) \/ LooksTop(p)
    BY <2>1, <1>1 DEF IndInv, TypeOK, StealTop, LooksTop
  <2>2. CASE StealBottom(p)
    <3>1. bottom <= LogicalBottom /\ tt[p] <= top /\ tt' = tt
      BY <2>2 DEF IndInv, BottomBehind, ThiefLocals, StealBottom
    <3>2. tpc'[p] = "missed" \/ (tpc'[p] = "steal_elem" /\ tt[p] < bottom)
      BY <2>2 DEF IndInv, TypeOK, StealBottom
    <3> QED
      BY <3>1, <3>2, <1>1
  <2>3. CASE StealElem(p)
    BY <2>3 DEF IndInv, TypeOK, ThiefLocals, StealElem
  <2>4. CASE StealMiss(p) \/ LooksBottom(p) \/ ThiefReturn(p)
    BY <2>4 DEF IndInv, TypeOK, ThiefLocals, StealMiss, LooksBottom, ThiefReturn
  <2> QED
    BY <2>1, <2>2, <2>3, <2>4
<1>9. ThiefLocals'
  BY <1>2, <1>3, <1>5, <1>8 DEF IndInv, ThiefLocals
<1>10. ExactlyOnce'
  BY <1>2, <1>3, SameContents DEF IndInv
<1> QED
  BY <1>6, <1>7, <1>9, <1>10 DEF IndInv

\* The compare-and-swap of a thief succeeds only on the oldest element.
LEMMA StealCasInv ==
    ASSUME NEW p \in Thieves, IndInv, StealCas(p)
    PROVE  IndInv'
<1> USE DEF owner
<1>1. LogicalBottom \in Nat /\ top \in Nat /\ Size \in Nat \ {0}
  BY BottomType, WSDequeAssumption
<1>2. UNCHANGED <<bottom, elements, sb, opc, ob, ot, ores, tt, pushes, inserted>>
  BY DEF StealCas
<1>3. LogicalBottom' = LogicalBottom /\ OwnBottom' = OwnBottom
  BY <1>2 DEF LogicalBottom, OwnBottom
<1>4. FreshElement'
  BY <1>2 DEF IndInv, FreshElement
<1>5. CASE top = tt[p]
  <2>1. /\ top' = top + 1 /\ tres' = tres /\ removed' = removed \cup {tres[p]}
        /\ tpc' = [tpc EXCEPT ![p] = "return"]
    BY <1>5 DEF StealCas
  <2>2. top < LogicalBottom /\ tres[p] = elements[top % Size]
    BY <1>5 DEF IndInv, ThiefLocals, StealCas
  <2>3. \A r \in Thieves : tpc'[r] = tpc[r] \/ tpc'[r] = "return"
    BY <2>1 DEF IndInv, TypeOK
  <2>4. /\ Bounded' /\ BottomBehind' /\ ThiefLocals' /\ ExactlyOnce'
        /\ removed' \subseteq Nat
    BY <2>1, <2>2, <2>3, <1>2, <1>3, TopMoves
  <2>5. TypeOK'
    BY <2>1, <2>4, <1>1, <1>2 DEF IndInv, TypeOK, ThiefPCs
  <2>6. OwnerLocals'
    <3>1. opc \in {"push_elem", "push_bottom"} => ob - top' < Size
      BY <2>1, <1>1 DEF IndInv, TypeOK, OwnerLocals
    <3>2. opc = "pop_cas" => ob <= top'
      BY <2>1, <1>1 DEF IndInv, TypeOK, OwnerLocals
    <3>3. opc # "pop_restore"
      BY <2>2, <1>1 DEF IndInv, TypeOK, OwnerLocals, LogicalBottom
    <3> QED
      BY <3>1, <3>2, <3>3, <1>2, <1>3 DEF IndInv, OwnerLocals
  <2> QED
    BY <1>4, <2>4, <2>5, <2>6 DEF IndInv
<1>6. CASE top # tt[p]
  <2>1. /\ top' = top /\ tres' = [tres EXCEPT ![p] = Null] /\ removed' = removed
        /\ tpc' = [tpc EXCEPT ![p] = "missed"]
    BY <1>6 DEF StealCas
  <2>2. TypeOK'
    BY <2>1, <1>2 DEF IndInv, TypeOK, ThiefPCs, Null
  <2>3. Bounded' /\ BottomBehind' /\ OwnerLocals'
    BY <2>1, <1>2, <1>3 DEF IndInv, Bounded, BottomBehind, OwnerLocals
  <2>4. ThiefLocals'
    BY <2>1, <1>2, <1>3 DEF IndInv, TypeOK, ThiefLocals
  <2>5. ExactlyOnce'
    BY <2>1, <1>2, <1>3, SameContents DEF IndInv
  <2> QED
    BY <1>4, <2>2, <2>3, <2>4, <2>5 DEF IndInv
<1> QED
  BY <1>5, <1>6

\* Every step of the deque, and every step that leaves it alone, keeps IndInv.
LEMMA NextInv == IndInv /\ [Next]_vars => IndInv'
<1> SUFFICES ASSUME IndInv, [Next]_vars PROVE IndInv'
  OBVIOUS
<1>1. CASE Flush
  BY <1>1, FlushInv
<1>2. CASE OwnerCall
  BY <1>2, PushReadInv, PopStartInv, DiscardInv DEF OwnerCall
<1>3. CASE OwnerStep
  BY <1>3, PushReadInv, PushElemInv, PushBottomInv, PopTopInv, PopCasInv, PopEndInv
     DEF OwnerStep
<1>4. ASSUME NEW p \in Thieves, StealCall(p) \/ StealStep(p) PROVE IndInv'
  BY <1>4, StealReadInv, StealCasInv DEF StealCall, StealStep
<1>5. CASE UNCHANGED vars
  <2>1. LogicalBottom' = LogicalBottom /\ OwnBottom' = OwnBottom
    BY <1>5 DEF vars, LogicalBottom, OwnBottom
  <2>2. TypeOK' /\ Bounded' /\ BottomBehind' /\ OwnerLocals' /\ ThiefLocals' /\ FreshElement'
    BY <2>1, <1>5 DEF vars, IndInv, TypeOK, Bounded, BottomBehind, OwnerLocals,
                      ThiefLocals, FreshElement
  <2>3. ExactlyOnce'
    BY <2>1, <1>5, SameContents DEF vars, IndInv
  <2> QED
    BY <2>2, <2>3 DEF IndInv
<1> QED
  BY <1>1, <1>2, <1>3, <1>4, <1>5 DEF Next

----------------------------------------------------------------------------
(* The theorems.                                                           *)

\* The strengthened invariant holds in every reachable state of WSDeque.c.
THEOREM Invariance == Spec => []IndInv
BY InitInv, NextInv, PTL DEF Spec

\* The fields of the deque and the locals of its callers keep their types.
THEOREM TypeCorrect == Spec => []TypeOK
<1>1. IndInv => TypeOK
  BY DEF IndInv
<1> QED
  BY <1>1, Invariance, PTL

\* No accepted element is lost, and none is handed to two callers, for every
\* number of thieves and every interleaving of pushWSDeque, popWSDeque and the
\* steals.
THEOREM NothingLostOrDuplicated == Spec => []ExactlyOnce
<1>1. IndInv => ExactlyOnce
  BY DEF IndInv
<1> QED
  BY <1>1, Invariance, PTL

\* A thief whose compare-and-swap is going to succeed holds the oldest element.
THEOREM CandidateIsOldest == Spec => []StealCandidate
<1>1. IndInv => StealCandidate
  BY DEF IndInv, ThiefLocals, StealCandidate
<1> QED
  BY <1>1, Invariance, PTL

\* top never moves back, so the compare-and-swaps of WSDeque.c are free of the
\* ABA problem.
THEOREM TopMonotone == Spec => TopNeverDecreases
<1>1. IndInv /\ [Next]_vars => [top' >= top]_vars
  <2> SUFFICES ASSUME IndInv, Next PROVE top' >= top
    OBVIOUS
  <2> USE DEF thief, owner
  <2>1. top \in Nat /\ bottom \in Int /\ ot \in Nat /\ tt \in [Thieves -> Nat]
    BY DEF IndInv, TypeOK
  <2>2. CASE Flush
    BY <2>1, <2>2 DEF Flush
  <2>3. CASE PushStart \/ PopStart
    BY <2>1, <2>3 DEF PushStart, PopStart
  <2>4. CASE DiscardElements
    BY <2>1, <2>4 DEF IndInv, Bounded, DiscardElements, SeqCstFence, LogicalBottom, OwnBottom
  <2>5. CASE OwnerStep
    BY <2>1, <2>5 DEF OwnerStep, PushTop, PushElem, PushBottom, PopTop, PopCas,
                      PopRestore, OwnerReturn
  <2>6. ASSUME NEW p \in Thieves, StealCall(p) \/ StealStep(p) PROVE top' >= top
    BY <2>1, <2>6 DEF StealCall, StealStep, StealTop, StealBottom, StealElem, StealCas,
                      StealMiss, LooksTop, LooksBottom, ThiefReturn
  <2> QED
    BY <2>2, <2>3, <2>4, <2>5, <2>6 DEF Next, OwnerCall
<1> QED
  BY <1>1, Invariance, PTL DEF Spec, TopNeverDecreases

----------------------------------------------------------------------------
(* The deque implements Deque.tla: every operation takes effect at once.    *)

\* Sequences with the same elements in the same order are equal.
LEMMA SequenceExtension ==
    ASSUME NEW S, NEW s \in Seq(S), NEW t \in Seq(S), Len(s) = Len(t),
           \A k \in 1..Len(s) : s[k] = t[k]
    PROVE  s = t
OBVIOUS

\* The number of pushes stays within its bound.
PushesBounded == pushes <= MaxPushes

\* There are never more pushes than there may be.
LEMMA PushesAreBounded == Spec => []PushesBounded
<1>1. Init => PushesBounded
  BY WSDequeAssumption DEF Init, PushesBounded
<1>2. TypeOK /\ PushesBounded /\ [Next]_vars => PushesBounded'
  <2> SUFFICES ASSUME TypeOK, PushesBounded, [Next]_vars PROVE PushesBounded'
    OBVIOUS
  <2>1. CASE PushStart
    BY <2>1, WSDequeAssumption DEF PushStart, TypeOK, PushesBounded
  <2>2. CASE ~PushStart
    <3>1. pushes' = pushes
      BY <2>2 DEF Next, vars, Flush, OwnerCall, OwnerStep, PopStart, DiscardElements,
           PushTop, PushElem, PushBottom, PopTop, PopCas, PopRestore, OwnerReturn,
           StealCall, StealStep, StealTop, StealBottom, StealElem, StealCas, StealMiss,
           LooksTop, LooksBottom, ThiefReturn
    <3> QED
      BY <3>1 DEF PushesBounded
  <2> QED
    BY <2>1, <2>2
<1> QED
  BY <1>1, <1>2, TypeCorrect, PTL DEF Spec

\* What the deque holds, as a sequence.
ContentsOK ==
    /\ Contents \in Seq(Nat)
    /\ Len(Contents) = LogicalBottom - top
    /\ \A k \in 1..(LogicalBottom - top) :
          Contents[k] = elements[(top + k - 1) % Size]

\* Contents is a sequence of the length that the indices tell.
LEMMA ContentsSeq == IndInv => ContentsOK
<1> SUFFICES ASSUME IndInv PROVE ContentsOK
  OBVIOUS
<1>1. LogicalBottom \in Nat /\ top \in Nat /\ Size \in Nat \ {0} /\ LogicalBottom - top \in Nat
  BY BottomType, WSDequeAssumption DEF IndInv, Bounded
<1>2. ASSUME NEW k \in 1..(LogicalBottom - top) PROVE elements[(top + k - 1) % Size] \in Nat
  <2>1. top + k - 1 \in Nat
    BY <1>1
  <2>2. (top + k - 1) % Size \in 0..(Size - 1)
    BY <2>1, Slots
  <2> QED BY <2>2 DEF IndInv, TypeOK
<1> DEFINE n == LogicalBottom - top
           f(k) == elements[(top + k - 1) % Size]
<1> HIDE DEF n, f
<1>3. Contents = [k \in 1..n |-> f(k)]
  BY DEF Contents, n, f
<1>4. n \in Nat /\ \A k \in 1..n : f(k) \in Nat
  BY <1>1, <1>2 DEF n, f
<1>5. [k \in 1..n |-> f(k)] \in Seq(Nat) /\ Len([k \in 1..n |-> f(k)]) = n
  BY <1>4
<1>6. Len(Contents) = LogicalBottom - top
  BY <1>3, <1>5 DEF n
<1>7. \A k \in 1..(LogicalBottom - top) : Contents[k] = elements[(top + k - 1) % Size]
  BY <1>3 DEF n, f
<1> QED BY <1>3, <1>5, <1>6, <1>7 DEF ContentsOK

\* The same in the next state.
LEMMA ContentsSeqNext == IndInv' => ContentsOK'
BY ContentsSeq, PTL

\* Elements in the deque are values that were pushed, hence neither Null nor Full.
LEMMA ContentsPushed ==
    ASSUME IndInv, NEW i \in Nat, top <= i, i < LogicalBottom
    PROVE  elements[i % Size] \in Nat \ {0}
<1>1. LogicalBottom \in Nat /\ top \in Nat
  BY BottomType
<1>2. i \in top..(LogicalBottom - 1)
  BY <1>1
<1>3. elements[i % Size] \in inserted
  BY <1>2 DEF IndInv, ExactlyOnce, ContentSet
<1>4. inserted \subseteq 1..pushes /\ pushes \in Nat
  BY DEF IndInv, TypeOK, FreshElement
<1>5. 1..pushes \subseteq Nat \ {0}
  BY <1>4
<1> QED BY <1>3, <1>4, <1>5

\* The contents stay as long as both ends and the slots between them do.
LEMMA SameSequence ==
    ASSUME IndInv, IndInv', top' = top, LogicalBottom' = LogicalBottom,
           \A i \in top..(LogicalBottom - 1) : elements'[i % Size] = elements[i % Size]
    PROVE  Contents' = Contents
<1>1. LogicalBottom \in Nat /\ top \in Nat
  BY BottomType
<1>2. \A k \in 1..(LogicalBottom - top) : elements'[(top + k - 1) % Size] = elements[(top + k - 1) % Size]
  <2> TAKE k \in 1..(LogicalBottom - top)
  <2>1. top + k - 1 \in top..(LogicalBottom - 1)
    BY <1>1
  <2> QED BY <2>1
<1> QED BY <1>2 DEF Contents

\* Taking the element at top out leaves the tail of the contents.
LEMMA TailSequence ==
    ASSUME IndInv, IndInv', top < LogicalBottom, top' = top + 1,
           LogicalBottom' = LogicalBottom, elements' = elements
    PROVE  /\ Contents # <<>> /\ Contents' = Tail(Contents)
           /\ Head(Contents) = elements[top % Size]
<1>1. LogicalBottom \in Nat /\ top \in Nat
  BY BottomType
<1>2. /\ Contents \in Seq(Nat) /\ Len(Contents) = LogicalBottom - top
      /\ \A k \in 1..(LogicalBottom - top) : Contents[k] = elements[(top + k - 1) % Size]
  BY ContentsSeq DEF ContentsOK
<1>3. /\ Contents' \in Seq(Nat) /\ Len(Contents') = LogicalBottom - (top + 1)
      /\ \A k \in 1..(LogicalBottom - (top + 1)) :
            Contents'[k] = elements[((top + 1) + k - 1) % Size]
  BY ContentsSeqNext DEF ContentsOK
<1>4. Contents # <<>> /\ Head(Contents) = Contents[1]
  BY <1>1, <1>2
<1>5. Contents[1] = elements[top % Size]
  <2>1. 1 \in 1..(LogicalBottom - top) /\ top + 1 - 1 = top
    BY <1>1
  <2> QED BY <2>1, <1>2
<1>6. /\ Tail(Contents) \in Seq(Nat) /\ Len(Tail(Contents)) = Len(Contents) - 1
      /\ \A k \in 1..(Len(Contents) - 1) : Tail(Contents)[k] = Contents[k + 1]
  BY <1>2, <1>4
<1> DEFINE n == LogicalBottom - (top + 1)
<1>7. \A k \in 1..n : Contents'[k] = Tail(Contents)[k]
  <2> TAKE k \in 1..n
  <2>1. /\ k \in 1..(LogicalBottom - (top + 1)) /\ k + 1 \in 1..(LogicalBottom - top)
        /\ (top + 1) + k - 1 = top + (k + 1) - 1 /\ k \in 1..(Len(Contents) - 1)
    BY <1>1, <1>2, <1>3
  <2>2. Contents'[k] = elements[(top + (k + 1) - 1) % Size]
    BY <2>1, <1>3
  <2>3. Contents[k + 1] = elements[(top + (k + 1) - 1) % Size]
    BY <2>1, <1>2
  <2> QED BY <2>1, <2>2, <2>3, <1>6
<1>8. n \in Nat /\ Len(Contents') = n /\ Len(Tail(Contents)) = n
  BY <1>1, <1>2, <1>3, <1>6
<1>9. Contents' = Tail(Contents)
  <2> DEFINE s == Contents'
             t == Tail(Contents)
  <2>1. s \in Seq(Nat) /\ t \in Seq(Nat) /\ Len(s) = Len(t)
    BY <1>3, <1>6, <1>8
  <2>2. \A k \in 1..Len(s) : s[k] = t[k]
    BY <1>7, <1>8
  <2> HIDE DEF s, t
  <2>3. s = t
    BY <2>1, <2>2, SequenceExtension
  <2> QED BY <2>3 DEF s, t
<1> QED BY <1>4, <1>5, <1>9

\* Taking the element below bottom out leaves the contents without their last.
LEMMA FrontSequence ==
    ASSUME IndInv, IndInv', top < LogicalBottom, top' = top,
           LogicalBottom' = LogicalBottom - 1, elements' = elements
    PROVE  /\ Contents # <<>>
           /\ Contents' = SubSeq(Contents, 1, Len(Contents) - 1)
           /\ Contents[Len(Contents)] = elements[(LogicalBottom - 1) % Size]
<1>1. LogicalBottom \in Nat /\ top \in Nat
  BY BottomType
<1>2. /\ Contents \in Seq(Nat) /\ Len(Contents) = LogicalBottom - top
      /\ \A k \in 1..(LogicalBottom - top) : Contents[k] = elements[(top + k - 1) % Size]
  BY ContentsSeq DEF ContentsOK
<1>3. /\ Contents' \in Seq(Nat) /\ Len(Contents') = (LogicalBottom - 1) - top
      /\ \A k \in 1..((LogicalBottom - 1) - top) : Contents'[k] = elements[(top + k - 1) % Size]
  BY ContentsSeqNext DEF ContentsOK
<1>4. Contents # <<>>
  BY <1>1, <1>2
<1>5. Contents[Len(Contents)] = elements[(LogicalBottom - 1) % Size]
  <2>1. /\ Len(Contents) \in 1..(LogicalBottom - top)
        /\ top + Len(Contents) - 1 = LogicalBottom - 1
    BY <1>1, <1>2
  <2> QED BY <2>1, <1>2
<1> DEFINE n == Len(Contents) - 1
<1>6. n \in Nat /\ n <= Len(Contents) /\ n = (LogicalBottom - 1) - top
  BY <1>1, <1>2
<1>7. /\ SubSeq(Contents, 1, n) \in Seq(Nat) /\ Len(SubSeq(Contents, 1, n)) = n
      /\ \A k \in 1..n : SubSeq(Contents, 1, n)[k] = Contents[k]
  BY <1>2, <1>6
<1>8. \A k \in 1..n : Contents'[k] = Contents[k]
  <2> TAKE k \in 1..n
  <2>1. k \in 1..((LogicalBottom - 1) - top) /\ k \in 1..(LogicalBottom - top)
    BY <1>1, <1>6
  <2> QED BY <2>1, <1>2, <1>3
<1>9. Contents' = SubSeq(Contents, 1, n)
  BY <1>3, <1>6, <1>7, <1>8
<1> QED BY <1>4, <1>5, <1>9

\* A push appends the element stored at bottom to the contents.
LEMMA AppendSequence ==
    ASSUME IndInv, IndInv', top' = top, LogicalBottom' = LogicalBottom + 1,
           elements' = elements
    PROVE  Contents' = Append(Contents, elements[LogicalBottom % Size])
<1>1. LogicalBottom \in Nat /\ top \in Nat /\ top <= LogicalBottom
  BY BottomType DEF IndInv, Bounded
<1>2. /\ Contents \in Seq(Nat) /\ Len(Contents) = LogicalBottom - top
      /\ \A k \in 1..(LogicalBottom - top) : Contents[k] = elements[(top + k - 1) % Size]
  BY ContentsSeq DEF ContentsOK
<1>3. /\ Contents' \in Seq(Nat) /\ Len(Contents') = (LogicalBottom + 1) - top
      /\ \A k \in 1..((LogicalBottom + 1) - top) : Contents'[k] = elements[(top + k - 1) % Size]
  BY ContentsSeqNext DEF ContentsOK
<1> DEFINE x == elements[LogicalBottom % Size]
           n == Len(Contents)
<1>4. x \in Nat
  BY <1>1, Slots DEF IndInv, TypeOK
<1> HIDE DEF x
<1>5. /\ Append(Contents, x) \in Seq(Nat) /\ Len(Append(Contents, x)) = n + 1
      /\ \A k \in 1..n : Append(Contents, x)[k] = Contents[k]
      /\ Append(Contents, x)[n + 1] = x
  BY <1>2, <1>4
<1>6. \A k \in 1..n : Contents'[k] = Contents[k]
  <2> TAKE k \in 1..n
  <2>1. k \in 1..((LogicalBottom + 1) - top) /\ k \in 1..(LogicalBottom - top)
    BY <1>1, <1>2
  <2> QED BY <2>1, <1>2, <1>3
<1>7. Contents'[n + 1] = x
  <2>1. n + 1 \in 1..((LogicalBottom + 1) - top) /\ top + (n + 1) - 1 = LogicalBottom
    BY <1>1, <1>2
  <2> QED BY <2>1, <1>3 DEF x
<1>8. Len(Contents') = n + 1
  BY <1>1, <1>2, <1>3
<1>9. Contents' = Append(Contents, x)
  BY <1>2, <1>3, <1>5, <1>6, <1>7, <1>8
<1> QED BY <1>9 DEF x

----------------------------------------------------------------------------
(* Every step is a step of Deque.tla, or leaves what that one sees alone.    *)

\* What the callers have obtained, as the variable ret of Deque.tla.
Outcome ==
    [p \in Thieves \cup {"owner"} |->
        IF p = "owner" THEN OwnerOutcome ELSE ThiefOutcome(p)]

\* What a step may do to what Deque.tla sees.
AbstractStep == Abstract!Next \/ (Contents' = Contents /\ Outcome' = Outcome)

\* A step that changes neither the contents nor an outcome.
LEMMA Stutter ==
    ASSUME Contents' = Contents, OwnerOutcome' = OwnerOutcome,
           \A p \in Thieves : ThiefOutcome(p)' = ThiefOutcome(p)
    PROVE  AbstractStep
<1>1. Outcome' = Outcome
  BY DEF Outcome
<1> QED BY <1>1 DEF AbstractStep

\* Only the owner's call gets an outcome, or returns it.
LEMMA OwnerOnly ==
    ASSUME \A p \in Thieves : ThiefOutcome(p)' = ThiefOutcome(p)
    PROVE  Outcome' = [Outcome EXCEPT !["owner"] = OwnerOutcome']
           /\ Outcome["owner"] = OwnerOutcome
BY WSDequeAssumption DEF Outcome

\* Only the call of thief p gets an outcome, or returns it.
LEMMA ThiefOnly ==
    ASSUME NEW p \in Thieves, OwnerOutcome' = OwnerOutcome,
           \A r \in Thieves \ {p} : ThiefOutcome(r)' = ThiefOutcome(r)
    PROVE  /\ Outcome' = [Outcome EXCEPT ![p] = ThiefOutcome(p)']
           /\ Outcome[p] = ThiefOutcome(p)
BY WSDequeAssumption DEF Outcome

\* The thieves' outcomes stay when the owner moves.
LEMMA ThievesSame ==
    ASSUME UNCHANGED <<tpc, tres>>
    PROVE  \A p \in Thieves : ThiefOutcome(p)' = ThiefOutcome(p)
BY DEF ThiefOutcome

\* Steps that touch neither the indices that count nor an outcome.
LEMMA SilentSteps ==
    ASSUME IndInv, IndInv',
           Flush \/ PushStart \/ PushElem \/ PopStart \/ PopRestore
    PROVE  AbstractStep
<1> USE DEF owner, thief
<1>1. LogicalBottom \in Nat /\ OwnBottom \in Int /\ top \in Nat /\ Size \in Nat \ {0}
  BY BottomType, WSDequeAssumption
<1>2. UNCHANGED <<top, tpc, tres>>
  BY DEF Flush, PushStart, PushElem, PopStart, PopRestore
<1>3. OwnerOutcome' = OwnerOutcome
  BY DEF Flush, PushStart, PushElem, PopStart, PopRestore, OwnerOutcome
<1>4. LogicalBottom' = LogicalBottom
  <2>1. CASE Flush
    BY <2>1, AfterFlush DEF IndInv, Flush, LogicalBottom
  <2>2. CASE PushStart \/ PushElem
    BY <2>2 DEF PushStart, PushElem, LogicalBottom, OwnBottom
  <2>3. CASE PopStart
    BY <2>3, <1>1 DEF PopStart, LogicalBottom
  <2>4. CASE PopRestore
    <3>1. ob \in Int /\ sb' = Append(sb, ob + 1) /\ opc = "pop_restore" /\ opc' = "return"
      BY <2>4 DEF IndInv, TypeOK, PopRestore, StoreBottom
    <3>2. OwnBottom' = ob + 1
      BY <3>1, AfterStore DEF IndInv
    <3> QED BY <3>1, <3>2 DEF LogicalBottom
  <2> QED BY <2>1, <2>2, <2>3, <2>4
<1>5. \A i \in top..(LogicalBottom - 1) : elements'[i % Size] = elements[i % Size]
  <2>1. CASE ~PushElem
    BY <2>1 DEF Flush, PushStart, PopStart, PopRestore
  <2>2. CASE PushElem
    <3>1. ob = LogicalBottom /\ ob - top < Size /\ top <= ob
      BY <2>2 DEF IndInv, OwnerLocals, PushElem, LogicalBottom, Bounded
    <3> TAKE i \in top..(LogicalBottom - 1)
    <3>2. i \in Nat /\ i # ob /\ ob - i < Size /\ i - ob < Size
      BY <1>1, <3>1
    <3>3. i % Size # ob % Size
      BY <3>1, <3>2, <1>1, Slots
    <3> QED BY <2>2, <3>2, <3>3, Slots DEF PushElem, IndInv, TypeOK
  <2> QED BY <2>1, <2>2
<1>6. Contents' = Contents
  BY <1>2, <1>4, <1>5, SameSequence
<1> QED BY <1>2, <1>3, <1>6, ThievesSame, Stutter

\* A push is refused only when the deque is full.
LEMMA PushTopSteps ==
    ASSUME IndInv, IndInv', PushTop
    PROVE  AbstractStep
<1> USE DEF thief
<1>1. LogicalBottom \in Nat /\ OwnBottom \in Int /\ top \in Nat /\ Size \in Nat \ {0}
  BY BottomType, WSDequeAssumption
<1>2. /\ UNCHANGED <<top, elements, tpc, tres>> /\ LogicalBottom' = LogicalBottom
  BY DEF PushTop, LogicalBottom, OwnBottom
<1>3. Contents' = Contents
  BY <1>2, SameSequence
<1>4. \A p \in Thieves : ThiefOutcome(p)' = ThiefOutcome(p)
  BY <1>2, ThievesSame
<1>5. CASE ~IsFull(ob, top)
  <2>1. OwnerOutcome' = OwnerOutcome
    BY <1>5 DEF PushTop, OwnerOutcome
  <2> QED BY <2>1, <1>3, <1>4, Stutter
<1>6. CASE IsFull(ob, top)
  <2>1. LogicalBottom - top = Size
    BY <1>1, <1>6 DEF IndInv, TypeOK, OwnerLocals, Bounded, PushTop, IsFull, LogicalBottom
  <2>2. Len(Contents) = Size
    BY <2>1, ContentsSeq DEF ContentsOK
  <2>3. OwnerOutcome = Null /\ OwnerOutcome' = Full
    BY <1>6 DEF PushTop, OwnerOutcome, Null, Full
  <2>4. Outcome' = [Outcome EXCEPT !["owner"] = Full] /\ Outcome["owner"] = Null
    BY <1>4, <2>3, OwnerOnly
  <2>5. Abstract!PushFull
    BY <2>2, <2>4, <1>3 DEF Abstract!PushFull, Outcome
  <2> QED BY <2>5 DEF AbstractStep, Abstract!Next
<1> QED BY <1>5, <1>6

\* The store of bottom is the push.
LEMMA PushBottomSteps ==
    ASSUME IndInv, IndInv', PushesBounded, PushBottom
    PROVE  AbstractStep
<1> USE DEF thief
<1>1. LogicalBottom \in Nat /\ OwnBottom \in Int /\ top \in Nat /\ Size \in Nat \ {0}
  BY BottomType, WSDequeAssumption
<1>2. /\ ob = LogicalBottom /\ ob - top < Size /\ elements[ob % Size] = pushes
      /\ pushes \in Nat /\ pushes >= 1 /\ ob \in Int
  BY DEF IndInv, TypeOK, OwnerLocals, PushBottom, LogicalBottom, FreshElement
<1>3. UNCHANGED <<top, elements, tpc, tres>> /\ sb' = Append(sb, ob + 1) /\ opc' = "idle"
  BY DEF PushBottom, StoreBottom
<1>4. LogicalBottom' = LogicalBottom + 1
  <2>1. OwnBottom' = ob + 1
    BY <1>2, <1>3, AfterStore DEF IndInv
  <2> QED BY <2>1, <1>2, <1>3 DEF LogicalBottom
<1>5. Contents' = Append(Contents, pushes)
  BY <1>2, <1>3, <1>4, AppendSequence
<1>6. pushes \in 1..MaxPushes
  BY <1>2, WSDequeAssumption DEF PushesBounded
<1>7. Len(Contents) < Size
  BY <1>1, <1>2, ContentsSeq DEF ContentsOK
<1>8. OwnerOutcome' = OwnerOutcome
  BY DEF PushBottom, OwnerOutcome
<1>9. Outcome' = Outcome
  BY <1>3, <1>8, ThievesSame DEF Outcome
<1>10. Abstract!Push
  BY <1>5, <1>6, <1>7, <1>9 DEF Abstract!Push, Outcome
<1> QED BY <1>10 DEF AbstractStep, Abstract!Next

\* The owner obtains the youngest element when it sees top < b, and nothing when the
\* deque is empty; otherwise the compare-and-swap decides.
LEMMA PopTopSteps ==
    ASSUME IndInv, IndInv', PopTop
    PROVE  AbstractStep
<1> USE DEF thief
<1>1. LogicalBottom \in Nat /\ top \in Nat /\ Size \in Nat \ {0}
  BY BottomType, WSDequeAssumption
<1>2. /\ LogicalBottom = ob + 1 /\ ob \in Int /\ OwnBottom = ob /\ top <= ob + 1
      /\ opc = "pop_top"
  BY DEF IndInv, TypeOK, Bounded, OwnerLocals, PopTop, LogicalBottom
<1>3. UNCHANGED <<top, elements, sb, bottom, ob, tpc, tres>>
  BY DEF PopTop
<1>4. \A p \in Thieves : ThiefOutcome(p)' = ThiefOutcome(p)
  BY <1>3, ThievesSame
<1>5. OwnerOutcome = Null
  BY <1>2 DEF OwnerOutcome
<1>6. CASE top < ob
  <2>1. ores' = elements[ob % Size] /\ opc' = "return"
    BY <1>1, <1>2, <1>6 DEF PopTop
  <2>2. LogicalBottom' = LogicalBottom - 1
    BY <2>1, <1>2, <1>3 DEF LogicalBottom, OwnBottom
  <2>3. /\ Contents # <<>> /\ Contents' = SubSeq(Contents, 1, Len(Contents) - 1)
        /\ Contents[Len(Contents)] = elements[ob % Size]
    <3>1. top < LogicalBottom /\ LogicalBottom - 1 = ob
      BY <1>1, <1>2, <1>6
    <3> QED BY <3>1, <2>2, <1>3, FrontSequence
  <2>4. elements[ob % Size] # 0
    <3>1. ob \in Nat /\ top <= ob /\ ob < LogicalBottom
      BY <1>1, <1>2, <1>6
    <3> QED BY <3>1, ContentsPushed
  <2>5. OwnerOutcome' = elements[ob % Size]
    BY <2>1, <2>4 DEF OwnerOutcome, Null
  <2>6. Outcome' = [Outcome EXCEPT !["owner"] = Contents[Len(Contents)]]
        /\ Outcome["owner"] = Null
    BY <1>4, <1>5, <2>3, <2>5, OwnerOnly
  <2>7. Abstract!Pop
    BY <2>3, <2>6 DEF Abstract!Pop, Outcome
  <2> QED BY <2>7 DEF AbstractStep, Abstract!Next
<1>7. CASE top = ob
  <2>1. opc' = "pop_cas"
    BY <1>1, <1>2, <1>7 DEF PopTop
  <2>2. OwnerOutcome' = OwnerOutcome /\ LogicalBottom' = LogicalBottom
    BY <2>1, <1>2, <1>3 DEF OwnerOutcome, LogicalBottom
  <2>3. Contents' = Contents
    BY <2>2, <1>3, SameSequence
  <2> QED BY <2>2, <2>3, <1>4, Stutter
<1>8. CASE top > ob
  <2>1. ores' = Null /\ opc' = "pop_restore"
    BY <1>1, <1>2, <1>8 DEF PopTop
  <2>2. LogicalBottom' = LogicalBottom /\ OwnerOutcome' = -2
    BY <2>1, <1>2, <1>3 DEF OwnerOutcome, LogicalBottom
  <2>3. Contents' = Contents
    BY <2>2, <1>3, SameSequence
  <2>4. Contents = <<>>
    <3>1. LogicalBottom - top = 0
      BY <1>1, <1>2, <1>8
    <3> QED BY <3>1, ContentsSeq DEF ContentsOK
  <2>5. Outcome' = [Outcome EXCEPT !["owner"] = -2] /\ Outcome["owner"] = Null
    BY <1>4, <1>5, <2>2, OwnerOnly
  <2>6. Abstract!PopEmpty
    BY <2>3, <2>4, <2>5 DEF Abstract!PopEmpty, Outcome
  <2> QED BY <2>6 DEF AbstractStep, Abstract!Next
<1> QED BY <1>1, <1>2, <1>6, <1>7, <1>8

\* The owner obtains the last element if no thief has, and nothing otherwise: the
\* deque is empty then.
LEMMA PopCasSteps ==
    ASSUME IndInv, IndInv', PopCas
    PROVE  AbstractStep
<1> USE DEF thief
<1>1. LogicalBottom \in Nat /\ top \in Nat /\ Size \in Nat \ {0}
  BY BottomType, WSDequeAssumption
<1>2. /\ LogicalBottom = ob + 1 /\ ob \in Int /\ opc = "pop_cas" /\ ot = ob /\ ob <= top
      /\ top <= ob + 1 /\ ores = elements[ob % Size]
  BY DEF IndInv, TypeOK, Bounded, OwnerLocals, PopCas, LogicalBottom
<1>3. UNCHANGED <<elements, sb, bottom, ob, tpc, tres>> /\ opc' = "pop_restore"
  BY DEF PopCas
<1>4. \A p \in Thieves : ThiefOutcome(p)' = ThiefOutcome(p)
  BY <1>3, ThievesSame
<1>5. OwnerOutcome = Null /\ LogicalBottom' = LogicalBottom
  BY <1>2, <1>3 DEF OwnerOutcome, LogicalBottom
<1>6. CASE top = ot
  <2>1. top' = top + 1 /\ ores' = ores
    BY <1>2, <1>6 DEF PopCas
  <2>2. /\ Contents # <<>> /\ Contents' = Tail(Contents)
        /\ Head(Contents) = elements[top % Size]
    <3>1. top < LogicalBottom
      BY <1>1, <1>2, <1>6
    <3> QED BY <3>1, <2>1, <1>3, <1>5, TailSequence
  <2>3. /\ Contents \in Seq(Nat) /\ Len(Contents) = 1
    BY <1>1, <1>2, <1>6, ContentsSeq DEF ContentsOK
  <2>4. /\ Contents' = SubSeq(Contents, 1, Len(Contents) - 1)
        /\ Contents[Len(Contents)] = elements[ob % Size]
    <3>1. Head(Contents) = Contents[1] /\ SubSeq(Contents, 1, 0) = <<>>
      BY <2>3
    <3>2. Contents' = <<>>
      <4>1. (LogicalBottom - top)' = 0
        BY <1>2, <1>5, <1>6, <2>1
      <4> QED BY <4>1, ContentsSeqNext DEF ContentsOK
    <3> QED BY <3>1, <3>2, <2>2, <2>3, <1>2, <1>6
  <2>5. elements[ob % Size] # 0
    <3>1. ob \in Nat /\ top <= ob /\ ob < LogicalBottom
      BY <1>1, <1>2, <1>6
    <3> QED BY <3>1, ContentsPushed
  <2>6. OwnerOutcome' = elements[ob % Size]
    BY <2>1, <2>5, <1>2, <1>3 DEF OwnerOutcome, Null
  <2>7. Outcome' = [Outcome EXCEPT !["owner"] = Contents[Len(Contents)]]
        /\ Outcome["owner"] = Null
    BY <1>4, <1>5, <2>4, <2>6, OwnerOnly
  <2>8. Abstract!Pop
    BY <2>2, <2>4, <2>7 DEF Abstract!Pop, Outcome
  <2> QED BY <2>8 DEF AbstractStep, Abstract!Next
<1>7. CASE top # ot
  <2>1. top' = top /\ ores' = Null
    BY <1>7 DEF PopCas
  <2>2. Contents' = Contents
    BY <2>1, <1>3, <1>5, SameSequence
  <2>3. Contents = <<>>
    <3>1. LogicalBottom - top = 0
      BY <1>1, <1>2, <1>7
    <3> QED BY <3>1, ContentsSeq DEF ContentsOK
  <2>4. OwnerOutcome' = -2
    BY <2>1, <1>3 DEF OwnerOutcome
  <2>5. Outcome' = [Outcome EXCEPT !["owner"] = -2] /\ Outcome["owner"] = Null
    BY <1>4, <1>5, <2>4, OwnerOnly
  <2>6. Abstract!PopEmpty
    BY <2>2, <2>3, <2>5 DEF Abstract!PopEmpty, Outcome
  <2> QED BY <2>6 DEF AbstractStep, Abstract!Next
<1> QED BY <1>6, <1>7

\* A call of the owner returns.
LEMMA OwnerReturnSteps ==
    ASSUME IndInv, IndInv', OwnerReturn
    PROVE  AbstractStep
<1> USE DEF thief
<1>1. UNCHANGED <<top, elements, bottom, sb, ob, tpc, tres>>
      /\ opc = "return" /\ opc' = "idle"
  BY DEF OwnerReturn
<1>2. LogicalBottom' = LogicalBottom
  BY <1>1 DEF LogicalBottom, OwnBottom
<1>3. Contents' = Contents
  BY <1>1, <1>2, SameSequence
<1>4. OwnerOutcome # Null /\ OwnerOutcome' = Null
  BY <1>1 DEF OwnerOutcome, Null
<1>5. Outcome' = [Outcome EXCEPT !["owner"] = Null] /\ Outcome["owner"] # Null
  BY <1>1, <1>4, OwnerOnly, ThievesSame
<1>6. Abstract!Return("owner")
  BY <1>3, <1>5 DEF Abstract!Return, Outcome
<1> QED BY <1>6 DEF AbstractStep, Abstract!Next, Abstract!Procs

\* Nothing is left when everything has been dropped.
LEMMA DiscardSteps ==
    ASSUME IndInv, IndInv', DiscardElements
    PROVE  AbstractStep
<1> USE DEF thief, owner
<1>1. LogicalBottom' = bottom /\ top' = bottom /\ bottom \in Int
  BY DEF DiscardElements, SeqCstFence, LogicalBottom, OwnBottom, IndInv, TypeOK
<1>2. Contents' = <<>>
  <2>1. (LogicalBottom - top)' = 0
    BY <1>1 DEF DiscardElements
  <2> QED BY <2>1, ContentsSeqNext DEF ContentsOK
<1>3. Outcome' = Outcome
  BY DEF DiscardElements, Outcome, OwnerOutcome, ThiefOutcome
<1>4. Abstract!Discard
  BY <1>2, <1>3 DEF Abstract!Discard, Outcome
<1> QED BY <1>4 DEF AbstractStep, Abstract!Next

\* A thief looks around, or misses.
GetsNothing(p) ==
    \/ StealTop(p) \/ StealBottom(p) \/ StealElem(p) \/ StealMiss(p)
    \/ LooksTop(p) \/ LooksBottom(p)
    \/ StealCas(p) /\ top # tt[p]

\* Then it has taken nothing.
LEMMA ThiefLooks ==
    ASSUME IndInv, IndInv', NEW p \in Thieves, GetsNothing(p)
    PROVE  AbstractStep
<1> USE DEF owner, GetsNothing
<1>1. UNCHANGED <<top, elements, bottom, sb, opc, ob, ores>>
  BY DEF StealTop, StealBottom, StealElem, StealMiss, LooksTop, LooksBottom, StealCas
<1>2. LogicalBottom' = LogicalBottom /\ OwnerOutcome' = OwnerOutcome
  BY <1>1 DEF LogicalBottom, OwnBottom, OwnerOutcome
<1>3. Contents' = Contents
  BY <1>1, <1>2, SameSequence
<1>4. tpc \in [Thieves -> ThiefPCs] /\ tres \in [Thieves -> Nat]
  BY DEF IndInv, TypeOK
<1>5. /\ tpc[p] # "return" /\ tpc'[p] # "return"
      /\ \A r \in Thieves \ {p} : tpc'[r] = tpc[r] /\ tres'[r] = tres[r]
  <2>1. CASE StealTop(p) \/ StealMiss(p) \/ LooksTop(p) \/ StealElem(p)
    BY <2>1, <1>4 DEF StealTop, StealMiss, LooksTop, StealElem
  <2>2. CASE StealBottom(p) \/ LooksBottom(p)
    BY <2>2, <1>4 DEF StealBottom, LooksBottom
  <2>3. CASE StealCas(p) /\ top # tt[p]
    BY <2>3, <1>4 DEF StealCas
  <2> QED BY <2>1, <2>2, <2>3
<1>6. \A r \in Thieves : ThiefOutcome(r)' = ThiefOutcome(r)
  BY <1>5 DEF ThiefOutcome
<1> QED BY <1>2, <1>3, <1>6, Stutter

\* The compare-and-swap that succeeds is the steal.
LEMMA ThiefTakes ==
    ASSUME IndInv, IndInv', NEW p \in Thieves, StealCas(p), top = tt[p]
    PROVE  AbstractStep
<1> USE DEF owner
<1>1. /\ UNCHANGED <<elements, bottom, sb, opc, ob, ores>> /\ top' = top + 1
      /\ tres' = tres /\ tpc' = [tpc EXCEPT ![p] = "return"] /\ tpc[p] = "steal_cas"
  BY DEF StealCas
<1>2. LogicalBottom' = LogicalBottom /\ OwnerOutcome' = OwnerOutcome
  BY <1>1 DEF LogicalBottom, OwnBottom, OwnerOutcome
<1>3. top < LogicalBottom /\ tres[p] = elements[top % Size]
  BY <1>1 DEF IndInv, ThiefLocals
<1>4. /\ Contents # <<>> /\ Contents' = Tail(Contents)
      /\ Head(Contents) = elements[top % Size]
  BY <1>1, <1>2, <1>3, TailSequence
<1>5. tpc \in [Thieves -> ThiefPCs]
  BY DEF IndInv, TypeOK
<1>6. /\ ThiefOutcome(p) = Null /\ ThiefOutcome(p)' = Head(Contents)
      /\ \A r \in Thieves \ {p} : ThiefOutcome(r)' = ThiefOutcome(r)
  BY <1>1, <1>3, <1>4, <1>5 DEF ThiefOutcome
<1>7. Outcome' = [Outcome EXCEPT ![p] = Head(Contents)] /\ Outcome[p] = Null
  BY <1>2, <1>6, ThiefOnly
<1>8. Abstract!Steal(p)
  BY <1>4, <1>7 DEF Abstract!Steal, Outcome
<1> QED BY <1>8 DEF AbstractStep, Abstract!Next, Abstract!Procs

\* A steal returns what it has taken.
LEMMA ThiefReturns ==
    ASSUME IndInv, IndInv', NEW p \in Thieves, ThiefReturn(p)
    PROVE  AbstractStep
<1> USE DEF owner
<1>1. /\ UNCHANGED <<elements, top, bottom, sb, opc, ob, ores>>
      /\ tres' = [tres EXCEPT ![p] = Null] /\ tpc' = [tpc EXCEPT ![p] = "idle"]
  BY DEF ThiefReturn
<1>2. LogicalBottom' = LogicalBottom /\ OwnerOutcome' = OwnerOutcome
  BY <1>1 DEF LogicalBottom, OwnBottom, OwnerOutcome
<1>3. Contents' = Contents
  BY <1>1, <1>2, SameSequence
<1>4. tpc \in [Thieves -> ThiefPCs] /\ tres \in [Thieves -> Nat]
  BY DEF IndInv, TypeOK
<1>5. /\ ThiefOutcome(p)' = Null
      /\ \A r \in Thieves \ {p} : ThiefOutcome(r)' = ThiefOutcome(r)
  BY <1>1, <1>4 DEF ThiefOutcome
<1>6. Outcome' = [Outcome EXCEPT ![p] = Null] /\ Outcome[p] = ThiefOutcome(p)
  BY <1>2, <1>5, ThiefOnly
<1>7. CASE ThiefOutcome(p) = Null
  <2>1. Outcome' = Outcome
    BY <1>6, <1>7 DEF Outcome
  <2> QED BY <2>1, <1>3 DEF AbstractStep
<1>8. CASE ThiefOutcome(p) # Null
  <2>1. Abstract!Return(p)
    BY <1>3, <1>6, <1>8 DEF Abstract!Return, Outcome
  <2> QED BY <2>1 DEF AbstractStep, Abstract!Next, Abstract!Procs
<1> QED BY <1>7, <1>8

\* Every operation of WSDeque.c takes effect at one instant, as one of the bounded
\* double-ended queue: for any number of thieves, any size, any delay of the stores.
THEOREM Linearization == Spec => Linearizable
<1>1. Init => Abstract!Init
  <2> SUFFICES ASSUME Init PROVE Abstract!Init
    OBVIOUS
  <2>1. LogicalBottom - top = 0
    BY DEF Init, LogicalBottom, OwnBottom
  <2>2. Contents = <<>>
    BY <2>1, InitInv, ContentsSeq DEF ContentsOK
  <2>3. Outcome = [p \in Thieves \cup {"owner"} |-> Null]
    BY DEF Init, Outcome, OwnerOutcome, ThiefOutcome
  <2> QED BY <2>2, <2>3 DEF Abstract!Init, Abstract!Procs, Outcome
<1>2. IndInv /\ IndInv' /\ PushesBounded /\ [Next]_vars => [Abstract!Next]_(Abstract!dvars)
  <2> SUFFICES ASSUME IndInv, IndInv', PushesBounded, [Next]_vars PROVE AbstractStep
    BY DEF AbstractStep, Abstract!dvars, Outcome
  <2>1. CASE Flush \/ PushStart \/ PushElem \/ PopStart \/ PopRestore
    BY <2>1, SilentSteps
  <2>2. CASE PushTop
    BY <2>2, PushTopSteps
  <2>3. CASE PushBottom
    BY <2>3, PushBottomSteps
  <2>4. CASE PopTop
    BY <2>4, PopTopSteps
  <2>5. CASE PopCas
    BY <2>5, PopCasSteps
  <2>6. CASE OwnerReturn
    BY <2>6, OwnerReturnSteps
  <2>7. CASE DiscardElements
    BY <2>7, DiscardSteps
  <2>8. ASSUME NEW p \in Thieves, StealCall(p) \/ StealStep(p) PROVE AbstractStep
    <3>1. GetsNothing(p) \/ (StealCas(p) /\ top = tt[p]) \/ ThiefReturn(p)
      BY <2>8 DEF StealCall, StealStep, GetsNothing
    <3> QED BY <3>1, ThiefLooks, ThiefTakes, ThiefReturns
  <2>9. CASE UNCHANGED vars
    <3>1. Contents' = Contents /\ Outcome' = Outcome
      BY <2>9 DEF vars, Contents, Outcome, LogicalBottom, OwnBottom, OwnerOutcome,
           ThiefOutcome
    <3> QED BY <3>1 DEF AbstractStep
  <2> QED BY <2>1, <2>2, <2>3, <2>4, <2>5, <2>6, <2>7, <2>8, <2>9
             DEF Next, OwnerCall, OwnerStep
<1> QED BY <1>1, <1>2, Invariance, PushesAreBounded, PTL DEF Spec, Linearizable, Abstract!Spec
============================================================================
