--------------------------- MODULE TimedTaskProofs ---------------------------
(***************************************************************************)
(* Theorems about TimedTask. First the facts about the operators it is     *)
(* built from: the insertion that keeps the list in order (AddTaskSingle), *)
(* the removal of a set of slots (the Clear functions and DelTask), and    *)
(* the calendar arithmetic.                                                *)
(*                                                                         *)
(* The inductive invariant is TypeOK together with AgendaOK: the order of  *)
(* the list, the agreement of the list with the slots in use and the task  *)
(* count support each other, since every handler finds its slot in the     *)
(* array and its place in the list. SaveInv adds what the flash holds,     *)
(* which the last three theorems need.                                     *)
(***************************************************************************)
EXTENDS TimedTask, FiniteSetTheorems, SequenceTheorems, TLAPS

-----------------------------------------------------------------------------
(* Least elements and ranks. *)

(* A nonempty set of numbers has a least element, and Least is it: every    *)
(* search of the firmware for the first slot, day or place stands on this.  *)
LEMMA LeastIsLeast ==
  ASSUME NEW D \in SUBSET Nat, D # {}
  PROVE  Least(D) \in D /\ \A y \in D : Least(D) <= y
<1>1. PICK x \in D : \A y \in D : <<y, x>> \notin OpToRel(<, Nat)
  BY WFMin, NatLessThanWellFounded
<1>2. \A y \in D : y \in Nat
  OBVIOUS
<1>3. \A y \in D : y < x => <<y, x>> \in OpToRel(<, Nat)
  BY <1>2, Zenon DEF OpToRel
<1>4. \A y \in D : ~(y < x)
  BY <1>1, <1>3, Zenon
<1>5. \E z \in D : \A y \in D : z <= y
  BY <1>2, <1>4
<1>6. QED
  BY <1>5 DEF Least

(* The rank of the elements of a finite set of positions: it grows with the *)
(* position and takes every value from 1 to the size of the set.            *)
Rank(K, i) == Cardinality({j \in K : j <= i})

(* Of two positions in K the later one has the greater rank. *)
LEMMA RankGrows ==
  ASSUME NEW K \in SUBSET Nat, IsFiniteSet(K), NEW i \in K, NEW j \in K, i < j
  PROVE  Rank(K, i) < Rank(K, j)
<1> DEFINE A == {x \in K : x <= i}
           B == {x \in K : x <= j}
<1>1. IsFiniteSet(A) /\ IsFiniteSet(B)
  BY FS_Subset
<1>2. A \in SUBSET B /\ j \in B /\ j \notin A
  <2>1. \A x \in K : x \in Nat
    OBVIOUS
  <2>2. \A x \in K : x <= i => x <= j
    BY <2>1
  <2>3. ~(j <= i) /\ j <= j
    BY <2>1
  <2>4. QED
    BY <2>2, <2>3
<1>3. A # B
  BY <1>2
<1> HIDE DEF A, B
<1>4. Cardinality(A) <= Cardinality(B) /\ Cardinality(A) # Cardinality(B)
  BY <1>1, <1>2, <1>3, FS_Subset
<1>5. Cardinality(A) \in Nat /\ Cardinality(B) \in Nat
  BY <1>1, FS_CardinalityType
<1>6. QED
  BY <1>4, <1>5 DEF Rank, A, B

(* A rank is a number from 1 to the size of K. *)
LEMMA RankType ==
  ASSUME NEW K \in SUBSET Nat, IsFiniteSet(K), NEW i \in K
  PROVE  Rank(K, i) \in 1 .. Cardinality(K)
<1> DEFINE A == {x \in K : x <= i}
<1>1. IsFiniteSet(A) /\ Cardinality(A) <= Cardinality(K)
  BY FS_Subset
<1>2. Cardinality(A) \in Nat /\ Cardinality(K) \in Nat
  BY <1>1, FS_CardinalityType
<1>3. i \in A
  OBVIOUS
<1>4. Cardinality(A) # 0
  BY <1>1, <1>3, FS_EmptySet
<1>5. QED
  BY <1>1, <1>2, <1>4 DEF Rank

(* Every number from 1 to the size of K is the rank of a position. *)
LEMMA RankOnto ==
  ASSUME NEW K \in SUBSET Nat, IsFiniteSet(K), NEW k \in 1 .. Cardinality(K)
  PROVE  \E i \in K : Rank(K, i) = k
<1> DEFINE n == Cardinality(K)
           f == [i \in K |-> Rank(K, i)]
<1>1. n \in Nat
  BY FS_CardinalityType
<1>2. f \in [K -> 1 .. n]
  BY RankType
<1>3. \A i, j \in K : f[i] = f[j] => i = j
  <2> SUFFICES ASSUME NEW i \in K, NEW j \in K, i # j
               PROVE  f[i] # f[j]
    OBVIOUS
  <2>1. i < j \/ j < i
    OBVIOUS
  <2>2. Rank(K, i) \in Int /\ Rank(K, j) \in Int
    BY RankType
  <2>3. Rank(K, i) < Rank(K, j) \/ Rank(K, j) < Rank(K, i)
    BY <2>1, RankGrows
  <2>4. QED
    BY <2>2, <2>3
<1>4. f \in Injection(K, 1 .. n)
  BY <1>2, <1>3 DEF Injection, IsInjective
<1>5. IsFiniteSet(1 .. n) /\ Cardinality(1 .. n) = n
  BY <1>1, FS_Interval
<1>6. f \in Surjection(K, 1 .. n)
  BY <1>4, <1>5, FS_Injection
<1>7. \E i \in K : f[i] = k
  BY <1>6 DEF Surjection
<1>8. QED
  BY <1>7

-----------------------------------------------------------------------------
(* Removal of a set of slots from the list. *)

Kept(q, R) == {i \in 1 .. Len(q) : q[i] \notin R}

(* The positions of a sequence that a removal keeps are finitely many. *)
LEMMA KeptFinite ==
  ASSUME NEW S, NEW q \in Seq(S), NEW R
  PROVE  /\ Kept(q, R) \in SUBSET Nat
         /\ IsFiniteSet(Kept(q, R))
         /\ Cardinality(Kept(q, R)) \in Nat
<1>1. Len(q) \in Nat
  OBVIOUS
<1>2. IsFiniteSet(1 .. Len(q))
  BY <1>1, FS_Interval
<1>3. Kept(q, R) \in SUBSET (1 .. Len(q))
  BY DEF Kept
<1>4. IsFiniteSet(Kept(q, R))
  BY <1>2, <1>3, FS_Subset
<1>5. QED
  BY <1>1, <1>3, <1>4, FS_CardinalityType

(* Element k of the shortened list is the kept element of rank k: the order *)
(* is that of the original list.                                            *)
LEMMA WithoutByRank ==
  ASSUME NEW S, NEW q \in Seq(S), NEW R
  PROVE  /\ Without(q, R) \in Seq(S)
         /\ Len(Without(q, R)) = Cardinality(Kept(q, R))
         /\ \A k \in 1 .. Len(Without(q, R)) :
              \E i \in Kept(q, R) : Rank(Kept(q, R), i) = k /\ Without(q, R)[k] = q[i]
<1> DEFINE K == Kept(q, R)
           w == Without(q, R)
           pos(k) == CHOOSE i \in K : Rank(K, i) = k
<1>1. K \in SUBSET Nat /\ IsFiniteSet(K) /\ Cardinality(K) \in Nat
  BY KeptFinite
<1>2. w = [k \in 1 .. Cardinality(K) |-> q[pos(k)]]
  BY DEF Without, Kept, Rank
<1>3. ASSUME NEW k \in 1 .. Cardinality(K)
      PROVE  pos(k) \in K /\ Rank(K, pos(k)) = k
  <2>1. \E i \in K : Rank(K, i) = k
    BY <1>1, RankOnto
  <2>2. QED
    BY <2>1
<1>4. \A i \in K : q[i] \in S
  BY ElementOfSeq DEF Kept
<1> HIDE DEF K, w, pos
<1>5. w \in [1 .. Cardinality(K) -> S]
  BY <1>2, <1>3, <1>4
<1>6. w \in Seq(S) /\ Len(w) = Cardinality(K)
  BY <1>1, <1>5
<1>7. \A k \in 1 .. Len(w) : \E i \in K : Rank(K, i) = k /\ w[k] = q[i]
  BY <1>2, <1>3, <1>6
<1>8. QED
  BY <1>6, <1>7 DEF K, w

(* The value at every kept position still occurs after the removal. *)
LEMMA WithoutHasKept ==
  ASSUME NEW S, NEW q \in Seq(S), NEW R, NEW i \in Kept(q, R)
  PROVE  \E k \in 1 .. Len(Without(q, R)) : Without(q, R)[k] = q[i]
<1> DEFINE K == Kept(q, R)
           k == Rank(K, i)
<1>1. K \in SUBSET Nat /\ IsFiniteSet(K)
  BY KeptFinite
<1>2. k \in 1 .. Cardinality(K)
  BY <1>1, RankType
<1>3. k \in 1 .. Len(Without(q, R))
  BY <1>2, WithoutByRank
<1>4. PICK j \in K : Rank(K, j) = k /\ Without(q, R)[k] = q[j]
  BY <1>3, WithoutByRank
<1>5. j = i
  <2>1. i \in Nat /\ j \in Nat /\ Rank(K, i) \in Int /\ Rank(K, j) \in Int
    BY <1>1, RankType
  <2>2. ~(i < j) /\ ~(j < i)
    BY <1>1, <1>4, <2>1, RankGrows
  <2>3. QED
    BY <2>1, <2>2
<1>6. QED
  BY <1>3, <1>4, <1>5

(* Without duplicates, the list gets shorter by as many elements as are     *)
(* removed.                                                                 *)
LEMMA WithoutLength ==
  ASSUME NEW S, NEW q \in Seq(S),
         \A i, j \in 1 .. Len(q) : i < j => q[i] # q[j],
         NEW R, R \subseteq {q[i] : i \in 1 .. Len(q)}
  PROVE  /\ IsFiniteSet(R)
         /\ Cardinality(R) \in Nat
         /\ Len(Without(q, R)) = Len(q) - Cardinality(R)
<1> DEFINE D == 1 .. Len(q)
           K == Kept(q, R)
           G == D \ K
           f == [i \in G |-> q[i]]
<1>1. Len(q) \in Nat
  OBVIOUS
<1>2. IsFiniteSet(D) /\ Cardinality(D) = Len(q)
  <2>0. 1 \in Int /\ Len(q) \in Int
    BY <1>1
  <2>1. IsFiniteSet(D) /\ Cardinality(D) = IF 1 > Len(q) THEN 0 ELSE Len(q) - 1 + 1
    BY <2>0, FS_Interval, Zenon
  <2>2. (IF 1 > Len(q) THEN 0 ELSE Len(q) - 1 + 1) = Len(q)
    BY <1>1
  <2>3. QED
    BY <2>1, <2>2
<1>3. K \subseteq D /\ G \subseteq D
  BY DEF Kept
<1>4. IsFiniteSet(G) /\ IsFiniteSet(K)
  BY <1>2, <1>3, FS_Subset
<1>5. Cardinality(G) = Cardinality(D) - Cardinality(D \cap K)
  BY <1>2, FS_Difference
<1>6. D \cap K = K
  BY <1>3
<1>7. \A i \in D : i \in G <=> q[i] \in R
  BY DEF Kept
<1>8. f \in [G -> R]
  BY <1>3, <1>7
<1>9. \A i, j \in G : f[i] = f[j] => i = j
  BY <1>1, <1>3
<1>10. \A r \in R : \E i \in G : f[i] = r
  BY <1>7
<1>11. f \in Bijection(G, R)
  BY <1>8, <1>9, <1>10 DEF Bijection, Injection, Surjection, IsInjective
<1>12. ExistsBijection(G, R)
  BY <1>11 DEF ExistsBijection
<1>13. IsFiniteSet(R) /\ Cardinality(R) = Cardinality(G)
  BY <1>4, <1>12, FS_Bijection
<1>14. Cardinality(R) \in Nat /\ Cardinality(K) \in Nat
  BY <1>4, <1>13, FS_CardinalityType
<1>15. Len(Without(q, R)) = Cardinality(K)
  BY WithoutByRank
<1> HIDE DEF D, K, G
<1>16. Cardinality(G) = Len(q) - Cardinality(K)
  BY <1>2, <1>5, <1>6
<1>17. QED
  BY <1>1, <1>13, <1>14, <1>15, <1>16

-----------------------------------------------------------------------------
(* Insertion into the list. *)

(* Inserting s adds s to the elements of a sequence and nothing else. *)
LEMMA InsertAtElements ==
  ASSUME NEW S, NEW q \in Seq(S), NEW e \in S, NEW i \in 1 .. Len(q) + 1
  PROVE  /\ InsertAt(q, i, e) \in Seq(S)
         /\ Len(InsertAt(q, i, e)) = Len(q) + 1
         /\ \A j \in 1 .. Len(q) + 1 :
              InsertAt(q, i, e)[j] = IF j < i THEN q[j] ELSE IF j = i THEN e ELSE q[j - 1]
<1> DEFINE front == SubSeq(q, 1, i - 1)
           upto  == front \o <<e>>
           back  == SubSeq(q, i, Len(q))
           w     == InsertAt(q, i, e)
<1>1. Len(q) \in Nat /\ i \in Nat /\ i >= 1 /\ i <= Len(q) + 1
  OBVIOUS
<1>2. /\ front \in Seq(S) /\ Len(front) = i - 1
      /\ \A j \in 1 .. i - 1 : front[j] = q[j]
  OBVIOUS
<1>3. /\ back \in Seq(S) /\ Len(back) = Len(q) - i + 1
      /\ \A j \in 1 .. Len(q) - i + 1 : back[j] = q[i + j - 1]
  OBVIOUS
<1>4. w = upto \o back
  BY DEF InsertAt
<1> HIDE DEF front
<1>5. /\ upto \in Seq(S) /\ Len(upto) = i
      /\ \A j \in 1 .. i : upto[j] = IF j < i THEN q[j] ELSE e
  BY <1>1, <1>2
<1> HIDE DEF upto, back, w
<1>6. /\ w \in Seq(S) /\ Len(w) = Len(upto) + Len(back)
      /\ \A j \in 1 .. Len(upto) + Len(back) :
           w[j] = IF j <= Len(upto) THEN upto[j] ELSE back[j - Len(upto)]
  BY <1>3, <1>4, <1>5, ConcatProperties
<1>7. Len(upto) + Len(back) = Len(q) + 1
  BY <1>1, <1>3, <1>5
<1>8. ASSUME NEW j \in 1 .. Len(q) + 1
      PROVE  w[j] = IF j < i THEN q[j] ELSE IF j = i THEN e ELSE q[j - 1]
  <2>1. CASE j <= i
    BY <1>1, <1>5, <1>6, <1>7, <2>1
  <2>2. CASE j > i
    <3>1. w[j] = back[j - i]
      BY <1>1, <1>5, <1>6, <1>7, <2>2
    <3>2. back[j - i] = q[i + (j - i) - 1]
      BY <1>1, <1>3, <2>2
    <3>3. i + (j - i) - 1 = j - 1
      BY <1>1
    <3>4. QED
      BY <1>1, <2>2, <3>1, <3>2, <3>3
  <2>3. QED
    BY <1>1, <2>1, <2>2
<1>9. QED
  BY <1>6, <1>7, <1>8 DEF w

(* The walk of AddTaskSingle stops between the tasks that are due no later  *)
(* and those that are due no earlier.                                       *)
LEMMA InsertionPlace ==
  ASSUME NEW a \in Agenda, NEW s \in Slots, InOrder(a)
  PROVE  /\ InsertionIndex(a, s) \in 1 .. Len(a.task_top) + 1
         /\ \A j \in 1 .. Len(a.task_top) :
              IF j < InsertionIndex(a, s)
                THEN Due(a, j) <= a.timed_tasks[s].prs_time
                ELSE a.timed_tasks[s].prs_time <= Due(a, j)
<1> DEFINE n == Len(a.task_top)
           p == a.timed_tasks[s].prs_time
           I == {i \in 1 .. n : i = n \/ (p >= Due(a, i) /\ p < Due(a, i + 1))}
           x == InsertionIndex(a, s)
<1>1. n \in Nat /\ p \in Nat /\ \A i \in 1 .. n : Due(a, i) \in Nat
  <2>1. a.timed_tasks \in [Slots -> Task] /\ a.task_top \in Seq(Slots)
    BY DEF Agenda
  <2>2. \A t \in Task : t.prs_time \in Nat
    BY DEF Task
  <2>3. \A i \in 1 .. n : a.task_top[i] \in Slots
    BY <2>1
  <2>4. QED
    BY <2>1, <2>2, <2>3 DEF Due
<1>2. \A i, j \in 1 .. n : i < j => Due(a, i) <= Due(a, j)
  BY DEF InOrder
<1>3. CASE n = 0
  BY <1>3 DEF InsertionIndex
<1>4. CASE n > 0 /\ p <= Due(a, 1)
  <2>1. x = 1
    BY <1>1, <1>4 DEF InsertionIndex
  <2>2. \A j \in 1 .. n : p <= Due(a, j)
    BY <1>1, <1>2, <1>4
  <2>3. QED
    BY <1>1, <2>1, <2>2
<1>5. CASE n > 0 /\ Due(a, 1) < p
  <2>1. x = 1 + Least(I)
    BY <1>1, <1>5 DEF InsertionIndex
  <2>2. n \in I /\ I \in SUBSET Nat /\ I \subseteq 1 .. n
    BY <1>1, <1>5
  <2> DEFINE m == Least(I)
  <2>3. m \in I /\ \A i \in I : m <= i
    BY <2>2, LeastIsLeast
  <2> HIDE DEF I, m
  <2>4. m \in 1 .. n
    BY <2>2, <2>3
  <2>5. \A j \in m + 1 .. n : p <= Due(a, j)
    <3>1. CASE m = n
      BY <3>1, <1>1
    <3>2. CASE m # n
        <4>1. p < Due(a, m + 1)
          BY <2>3, <3>2 DEF I
        <4>2. QED
          BY <4>1, <1>1, <1>2, <2>4
    <3>3. QED
      BY <3>1, <3>2
  <2>6. \A j \in 1 .. m : Due(a, j) <= p
    <3> DEFINE J == {j \in 1 .. n : p < Due(a, j)}
               l == Least(J)
    <3>0. CASE J = {}
      BY <1>1, <2>4, <3>0
    <3>1. CASE J # {}
      <4>1. J \in SUBSET Nat
        BY <1>1
      <4>2. l \in J /\ \A j \in J : l <= j
        <5> HIDE DEF J
        <5>1. QED
          BY <3>1, <4>1, LeastIsLeast
      <4> HIDE DEF l
      <4>3. l \in 2 .. n /\ l - 1 \notin J
        BY <1>1, <1>5, <4>2
      <4>4. l - 1 \in I
        BY <1>1, <4>2, <4>3 DEF I
      <4>5. m <= l - 1
        BY <2>3, <4>4
      <4>6. \A j \in 1 .. m : j \in 1 .. n /\ j < l
        BY <1>1, <2>4, <4>3, <4>5
      <4>7. \A j \in 1 .. m : j \notin J
        BY <1>1, <4>2, <4>3, <4>6
      <4>8. QED
        BY <1>1, <4>6, <4>7
    <3>8. QED
      BY <3>0, <3>1
  <2>7. QED
    BY <1>1, <2>1, <2>4, <2>5, <2>6 DEF m
<1>6. QED
  BY <1>1, <1>3, <1>4, <1>5

-----------------------------------------------------------------------------
(* The agenda. *)

SoundList(a) ==
  /\ a \in Agenda
  /\ InOrder(a)
  /\ a.task_count = Len(a.task_top)

(* Hooking a slot that is not in the list into it keeps the order.          *)
LEMMA AddTaskSingleSound ==
  ASSUME NEW a, SoundList(a), NEW s \in Slots, s \notin Listed(a)
  PROVE  /\ SoundList(AddTaskSingle(a, s))
         /\ Listed(AddTaskSingle(a, s)) = Listed(a) \cup {s}
         /\ AddTaskSingle(a, s).timed_tasks = a.timed_tasks
<1> DEFINE b == AddTaskSingle(a, s)
           q == a.task_top
           n == Len(q)
           i == InsertionIndex(a, s)
           p == a.timed_tasks[s].prs_time
<1>1. a \in Agenda /\ InOrder(a) /\ a.task_count = n
  BY DEF SoundList
<1>2. q \in Seq(Slots) /\ n \in Nat
  BY <1>1 DEF Agenda
<1>3. /\ i \in 1 .. n + 1
      /\ \A j \in 1 .. n : IF j < i THEN Due(a, j) <= p ELSE p <= Due(a, j)
  BY <1>1, InsertionPlace
<1> DEFINE w == InsertAt(q, i, s)
<1>4. b = [timed_tasks |-> a.timed_tasks, task_top |-> w, task_count |-> n + 1]
  BY <1>1 DEF AddTaskSingle
<1> HIDE DEF b, i
<1>5. /\ w \in Seq(Slots) /\ Len(w) = n + 1
      /\ \A j \in 1 .. n + 1 :
           w[j] = IF j < i THEN q[j] ELSE IF j = i THEN s ELSE q[j - 1]
  <2>1. q \in Seq(Slots) /\ i \in 1 .. Len(q) + 1
    BY <1>2, <1>3
  <2> HIDE DEF q
  <2>2. QED
    BY <2>1, InsertAtElements
<1>6. b \in Agenda /\ b.task_count = Len(w)
  BY <1>1, <1>2, <1>4, <1>5 DEF Agenda
<1>7. \A j \in 1 .. n : q[j] # s
  BY DEF Listed
<1>8. \A j \in 1 .. n + 1 :
        Due(b, j) = IF j < i THEN Due(a, j) ELSE IF j = i THEN p ELSE Due(a, j - 1)
  BY <1>4, <1>5 DEF Due
<1> HIDE DEF w, n, q, p
<1>9. InOrder(b)
  <2> SUFFICES ASSUME NEW j \in 1 .. n + 1, NEW k \in 1 .. n + 1, j < k
               PROVE  w[j] # w[k] /\ Due(b, j) <= Due(b, k)
    BY <1>4, <1>5 DEF InOrder
  <2>1. \A x, y \in 1 .. n : x < y => q[x] # q[y] /\ Due(a, x) <= Due(a, y)
    BY <1>1 DEF InOrder, n, q
  <2>2. CASE k < i
    BY <1>2, <1>3, <1>5, <1>8, <2>1, <2>2
  <2>3. CASE k = i
    BY <1>2, <1>3, <1>5, <1>7, <1>8, <2>3
  <2>4. CASE k > i /\ j < i
    BY <1>2, <1>3, <1>5, <1>8, <2>1, <2>4
  <2>5. CASE k > i /\ j = i
    BY <1>2, <1>3, <1>5, <1>7, <1>8, <2>5
  <2>6. CASE k > i /\ j > i
    BY <1>2, <1>3, <1>5, <1>8, <2>1, <2>6
  <2>7. QED
    BY <1>2, <1>3, <2>2, <2>3, <2>4, <2>5, <2>6
<1>10. Listed(b) = Listed(a) \cup {s}
  <2>1. Listed(b) = {w[j] : j \in 1 .. n + 1} /\ Listed(a) = {q[j] : j \in 1 .. n}
    <3>1. b.task_top = w /\ Len(w) = n + 1
      BY <1>4, <1>5
    <3>2. Listed(b) = {w[j] : j \in 1 .. n + 1}
      BY <3>1 DEF Listed
    <3>3. Listed(a) = {q[j] : j \in 1 .. n}
      BY DEF Listed, q, n
    <3>4. QED
      BY <3>2, <3>3
  <2>2. ASSUME NEW j \in 1 .. n + 1
        PROVE  w[j] = s \/ \E x \in 1 .. n : w[j] = q[x]
    <3>1. CASE j < i
      BY <1>2, <1>3, <1>5, <3>1
    <3>2. CASE j = i
      BY <1>5, <3>2
    <3>3. CASE j > i
      <4>1. j - 1 \in 1 .. n /\ w[j] = q[j - 1]
        BY <1>2, <1>3, <1>5, <3>3
      <4>2. QED
        BY <4>1
    <3>4. QED
      BY <1>3, <3>1, <3>2, <3>3
  <2>3. w[i] = s
    BY <1>2, <1>3, <1>5
  <2>4. \A x \in 1 .. n : q[x] = IF x < i THEN w[x] ELSE w[x + 1]
    BY <1>2, <1>3, <1>5
  <2>5. \A x \in 1 .. n : \E j \in 1 .. n + 1 : q[x] = w[j]
    BY <1>2, <2>4
  <2>6. i \in 1 .. n + 1
    BY <1>3
  <2>7. QED
    BY <2>1, <2>2, <2>3, <2>5, <2>6
<1>11. QED
  BY <1>4, <1>6, <1>9, <1>10 DEF SoundList, b

(* The time of day of a moment is a number below DAY. *)
LEMMA TimeOfDayType ==
  ASSUME NEW t \in Nat
  PROVE  TimeOfDay(t) \in 0 .. DAY - 1 /\ TimeOfDay(t) \in Nat
BY ConstantsAssumption DEF TimeOfDay

(* A computed due time lies in the future.                                  *)
LEMMA MatchIsLater ==
  ASSUME NEW mask, NEW from \in Nat, NEW hhmm \in Nat, NEW today \in BOOLEAN
  PROVE  /\ FindNextMatchTime(mask, from, hhmm, today) \in Nat
         /\ FindNextMatchTime(mask, from, hhmm, today) > from
<1> DEFINE bj      == from + TZ
           base    == bj - (bj % DAY)
           Cand(d) == base + d * DAY + hhmm
           D == {d \in 0 .. 13 : /\ (bj \div DAY + 4 + d) % 7 \in mask
                                 /\ Cand(d) > bj
                                 /\ today \/ d > 0}
           u == FindNextMatchTime(mask, from, hhmm, today)
<1>1. u = IF D = {} THEN from + 7 * DAY ELSE Cand(Least(D)) - TZ
  BY DEF FindNextMatchTime
<1>2. DAY \in Nat \ {0} /\ TZ \in Nat
  BY ConstantsAssumption
<1>3. bj \in Nat /\ bj % DAY \in 0 .. DAY - 1
  BY <1>2
<1>4. \A d \in 0 .. 13 : Cand(d) \in Int
  BY <1>2, <1>3
<1>5. CASE D = {}
  BY <1>1, <1>2, <1>5
<1>6. CASE D # {}
  <2>1. D \in SUBSET Nat
    OBVIOUS
  <2>2. Least(D) \in D
    <3> HIDE DEF D
    <3>1. QED
      BY <1>6, <2>1, LeastIsLeast
  <2>3. Cand(Least(D)) > bj /\ Cand(Least(D)) \in Int
    BY <1>4, <2>2
  <2> HIDE DEF Cand, D
  <2>4. QED
    BY <1>1, <1>2, <1>6, <2>3
<1>7. QED
  BY <1>5, <1>6

(* The remainder of q times n plus a remainder is that remainder. *)
LEMMA ModOfSum ==
  ASSUME NEW q \in Int, NEW r \in Nat, NEW n \in Nat \ {0}, r < n
  PROVE  (q * n + r) % n = r
<1> DEFINE x == q * n + r
           k == x \div n
           m == x % n
<1>1. x \in Int /\ k \in Int /\ m \in 0 .. n - 1 /\ x = k * n + m
  OBVIOUS
<1> HIDE DEF k, m
<1>2. (k - q) * n = r - m
  BY <1>1
<1>3. k = q
  <2>1. CASE k - q >= 1
    <3>1. (k - q) * n >= n
      BY <1>1, <2>1
    <3>2. QED
      BY <1>1, <1>2, <3>1
  <2>2. CASE k - q <= -1
    <3>1. (k - q) * n <= -n
      BY <1>1, <2>2
    <3>2. QED
      BY <1>1, <1>2, <3>1
  <2>3. QED
    BY <1>1, <2>1, <2>2
<1>4. QED
  BY <1>1, <1>3 DEF m

(* Every week day comes within the next seven days. *)
LEMMA SomeDayMatches ==
  ASSUME NEW x \in Nat, NEW m \in WeekDays
  PROVE  \E d \in 1 .. 7 : (x + 4 + d) % 7 = m
<1>1. m \in 0 .. 6
  BY DEF WeekDays
<1>2. CASE (m + 7 - ((x + 4) % 7)) % 7 = 0
  BY <1>1, <1>2
<1>3. CASE (m + 7 - ((x + 4) % 7)) % 7 # 0
  <2> DEFINE d == (m + 7 - ((x + 4) % 7)) % 7
  <2>1. d \in 1 .. 7 /\ (x + 4 + d) % 7 = m
    BY <1>1, <1>3
  <2>2. QED
    BY <2>1
<1>4. QED
  BY <1>2, <1>3

(* The day number of q days plus a time of day is q. *)
LEMMA DivOfSum ==
  ASSUME NEW q \in Int, NEW r \in Nat, NEW n \in Nat \ {0}, r < n
  PROVE  (q * n + r) \div n = q
<1> DEFINE x == q * n + r
           k == x \div n
           m == x % n
<1>1. x \in Int /\ k \in Int /\ m \in 0 .. n - 1 /\ x = k * n + m
  OBVIOUS
<1>2. m = r
  BY ModOfSum
<1> HIDE DEF k, m
<1>3. (k - q) * n = 0
  BY <1>1, <1>2
<1>4. k - q = 0
  BY <1>1, <1>3
<1>5. QED
  BY <1>1, <1>4 DEF k

(* The search of FindNextMatchTime, counted in days from today: the moment  *)
(* of day d that has the time of day hhmm, and whether the search takes it. *)
DayOf(from) == (from + TZ) \div DAY
Moment(from, hhmm, d) == (DayOf(from) + d) * DAY + hhmm
Qualifies(mask, from, hhmm, today, d) ==
  /\ (DayOf(from) + 4 + d) % 7 \in mask
  /\ Moment(from, hhmm, d) > from + TZ
  /\ today \/ d > 0

(* A computed due time is the first moment that qualifies, and there is one *)
(* within a fortnight as soon as the task has a week day.                   *)
LEMMA MatchIsFirstMoment ==
  ASSUME NEW mask \in SUBSET WeekDays, mask # {}, NEW from \in Nat,
         NEW hhmm \in 0 .. DAY - 1, NEW today \in BOOLEAN
  PROVE  \E n \in 0 .. 13 :
           /\ Qualifies(mask, from, hhmm, today, n)
           /\ \A d \in 0 .. 13 : Qualifies(mask, from, hhmm, today, d) => n <= d
           /\ FindNextMatchTime(mask, from, hhmm, today) + TZ = Moment(from, hhmm, n)
<1> DEFINE bj      == from + TZ
           q       == bj \div DAY
           base    == bj - (bj % DAY)
           Cand(d) == base + d * DAY + hhmm
           D == {d \in 0 .. 13 : /\ (bj \div DAY + 4 + d) % 7 \in mask
                                 /\ Cand(d) > bj
                                 /\ today \/ d > 0}
           u == FindNextMatchTime(mask, from, hhmm, today)
<1>1. u = IF D = {} THEN from + 7 * DAY ELSE Cand(Least(D)) - TZ
  BY DEF FindNextMatchTime
<1>2. DAY \in Nat \ {0} /\ TZ \in Nat
  BY ConstantsAssumption
<1>3. bj \in Nat /\ q \in Nat /\ base = q * DAY /\ base + DAY > bj
  BY <1>2
<1>4. D # {}
  <2>1. PICK m \in WeekDays : m \in mask
    OBVIOUS
  <2>2. PICK d \in 1 .. 7 : (q + 4 + d) % 7 = m
    BY <1>3, SomeDayMatches
  <2>3. d * DAY >= DAY
    BY <1>2, <2>2
  <2>4. Cand(d) > bj
    BY <1>2, <1>3, <2>2, <2>3
  <2>5. d \in D
    BY <2>1, <2>2, <2>4
  <2>6. QED
    BY <2>5
<1> DEFINE n == Least(D)
<1>5. n \in D /\ \A d \in D : n <= d
  <2>1. D \in SUBSET Nat
    OBVIOUS
  <2> HIDE DEF D
  <2>2. QED
    BY <1>4, <2>1, LeastIsLeast
<1>6. \A d \in 0 .. 13 : Cand(d) = Moment(from, hhmm, d) /\ Cand(d) \in Int
  <2> TAKE d \in 0 .. 13
  <2>1. (q + d) * DAY = q * DAY + d * DAY
    BY <1>2, <1>3
  <2>2. q * DAY \in Nat /\ d * DAY \in Nat
    BY <1>2, <1>3
  <2>3. Moment(from, hhmm, d) = (q + d) * DAY + hhmm
    BY DEF Moment, DayOf
  <2> HIDE DEF q
  <2>4. QED
    BY <1>2, <1>3, <2>1, <2>2, <2>3
<1>7. \A d \in 0 .. 13 : d \in D <=> Qualifies(mask, from, hhmm, today, d)
  <2> TAKE d \in 0 .. 13
  <2>1. d \in D <=> /\ (bj \div DAY + 4 + d) % 7 \in mask
                    /\ Cand(d) > bj
                    /\ today \/ d > 0
    OBVIOUS
  <2> HIDE DEF D, Cand
  <2>2. QED
    BY <1>6, <2>1 DEF Qualifies, DayOf
<1>8. n \in 0 .. 13
  BY <1>5
<1>9. u + TZ = Moment(from, hhmm, n)
  <2>1. u = Cand(n) - TZ
    BY <1>1, <1>4
  <2> HIDE DEF n, u, Cand
  <2>2. QED
    BY <1>2, <1>6, <1>8, <2>1
<1> HIDE DEF D, n, u
<1>10. WITNESS n \in 0 .. 13
<1>11. QED
  BY <1>5, <1>7, <1>8, <1>9 DEF u

(* The time of day and the day number of a moment of day d. *)
LEMMA MomentInDays ==
  ASSUME NEW from \in Nat, NEW hhmm \in 0 .. DAY - 1, NEW d \in Nat, NEW u \in Nat,
         u + TZ = Moment(from, hhmm, d)
  PROVE  TimeOfDay(u) = hhmm /\ WeekDay(u) = (DayOf(from) + 4 + d) % 7
<1> DEFINE q == DayOf(from) + d
<1>1. DAY \in Nat \ {0} /\ TZ \in Nat
  BY ConstantsAssumption
<1>2. DayOf(from) \in Nat
  BY <1>1 DEF DayOf
<1>3. u + TZ = q * DAY + hhmm
  BY DEF Moment
<1>4. q \in Int /\ hhmm \in Nat /\ hhmm < DAY
  BY <1>1, <1>2
<1>5. (u + TZ) % DAY = hhmm /\ (u + TZ) \div DAY = q
  <2> HIDE DEF q
  <2>1. QED
    BY <1>1, <1>3, <1>4, ModOfSum, DivOfSum
<1>6. q + 4 = DayOf(from) + 4 + d
  BY <1>2
<1>7. QED
  BY <1>5, <1>6 DEF TimeOfDay, WeekDay

(* A computed due time has the time of day asked for.                       *)
LEMMA MatchKeepsTimeOfDay ==
  ASSUME NEW mask \in SUBSET WeekDays, mask # {}, NEW from \in Nat,
         NEW hhmm \in 0 .. DAY - 1, NEW today \in BOOLEAN
  PROVE  TimeOfDay(FindNextMatchTime(mask, from, hhmm, today)) = hhmm
<1>1. FindNextMatchTime(mask, from, hhmm, today) \in Nat
  BY MatchIsLater
<1>2. PICK n \in 0 .. 13 :
        FindNextMatchTime(mask, from, hhmm, today) + TZ = Moment(from, hhmm, n)
  BY MatchIsFirstMoment
<1>3. QED
  BY <1>1, <1>2, MomentInDays

(* Today included, no moment between now and the computed due time has the  *)
(* time of day asked for on one of the week days asked for.                 *)
LEMMA MatchIsFirst ==
  ASSUME NEW mask \in SUBSET WeekDays, mask # {}, NEW from \in Nat,
         NEW hhmm \in 0 .. DAY - 1,
         NEW v \in from + 1 .. FindNextMatchTime(mask, from, hhmm, TRUE)
  PROVE  (TimeOfDay(v) = hhmm /\ WeekDay(v) \in mask)
           <=> v = FindNextMatchTime(mask, from, hhmm, TRUE)
<1> DEFINE u == FindNextMatchTime(mask, from, hhmm, TRUE)
           q == DayOf(from)
           k == (v + TZ) \div DAY
           d == k - q
<1>1. DAY \in Nat \ {0} /\ TZ \in Nat
  BY ConstantsAssumption
<1>2. u \in Nat /\ u > from /\ v \in from + 1 .. u
  <2>1. hhmm \in Nat
    BY <1>1
  <2>2. u \in Nat /\ u > from
    BY <2>1, MatchIsLater
  <2>3. QED
    BY <2>2
<1>3. PICK n \in 0 .. 13 :
        /\ Qualifies(mask, from, hhmm, TRUE, n)
        /\ \A e \in 0 .. 13 : Qualifies(mask, from, hhmm, TRUE, e) => n <= e
        /\ u + TZ = Moment(from, hhmm, n)
  BY MatchIsFirstMoment
<1> HIDE DEF u
<1>4. v \in Nat /\ v > from /\ v <= u
  BY <1>2
<1>5. ASSUME v = u PROVE TimeOfDay(v) = hhmm /\ WeekDay(v) \in mask
  BY <1>2, <1>3, <1>5, MomentInDays DEF Qualifies
<1>6. ASSUME TimeOfDay(v) = hhmm, WeekDay(v) \in mask PROVE v = u
  <2>1. k \in Nat /\ v + TZ = k * DAY + hhmm
    BY <1>1, <1>4, <1>6 DEF TimeOfDay
  <2>2. q \in Nat /\ q * DAY <= from + TZ
    BY <1>1 DEF DayOf
  <2>3. WeekDay(v) = (k + 4) % 7
    BY DEF WeekDay
  <2>4. u + TZ = (q + n) * DAY + hhmm
    BY <1>3 DEF Moment
  <2> HIDE DEF k, q
  <2>5. k <= q + n
    <3>1. k * DAY <= (q + n) * DAY
      BY <1>1, <1>2, <1>4, <2>1, <2>2, <2>4
    <3>2. CASE k >= q + n + 1
      <4>1. (k - (q + n)) * DAY >= DAY
        BY <1>1, <2>1, <2>2, <3>2
      <4>2. QED
        BY <1>1, <2>1, <2>2, <3>1, <4>1
    <3>3. QED
      BY <2>1, <2>2, <3>2
  <2>6. k >= q
    <3>1. q * DAY < (k + 1) * DAY
      BY <1>1, <1>4, <2>1, <2>2
    <3>2. CASE k + 1 <= q
      <4>1. (q - (k + 1)) * DAY >= 0
        BY <1>1, <2>1, <2>2, <3>2
      <4>2. QED
        BY <1>1, <2>1, <2>2, <3>1, <4>1
    <3>3. QED
      BY <2>1, <2>2, <3>2
  <2>7. d \in 0 .. 13 /\ q + d = k /\ q + 4 + d = k + 4 /\ d <= n
    BY <2>1, <2>2, <2>5, <2>6
  <2> HIDE DEF d
  <2>8. Moment(from, hhmm, d) = v + TZ
    BY <2>1, <2>7 DEF Moment, q
  <2>9. Qualifies(mask, from, hhmm, TRUE, d)
    BY <1>1, <1>4, <1>6, <2>3, <2>7, <2>8 DEF Qualifies, q
  <2>10. d = n
    <3>1. n <= d
      BY <1>3, <2>7, <2>9, Zenon
    <3>2. QED
      BY <2>7, <3>1
  <2>11. QED
    BY <1>1, <1>2, <1>3, <1>4, <2>8, <2>10
<1>7. QED
  BY <1>5, <1>6 DEF u

(* A change of a slot that is not in the list leaves the list sound.        *)
LEMMA SlotOutsideList ==
  ASSUME NEW a, SoundList(a), NEW s \in Slots, s \notin Listed(a), NEW t \in Task
  PROVE  /\ SoundList([a EXCEPT !.timed_tasks[s] = t])
         /\ Listed([a EXCEPT !.timed_tasks[s] = t]) = Listed(a)
         /\ [a EXCEPT !.timed_tasks[s] = t].timed_tasks
              = [a.timed_tasks EXCEPT ![s] = t]
<1> DEFINE b == [a EXCEPT !.timed_tasks[s] = t]
<1>1. a \in Agenda
  BY DEF SoundList
<1>2. /\ b.timed_tasks = [a.timed_tasks EXCEPT ![s] = t]
      /\ b.task_top = a.task_top /\ b.task_count = a.task_count
      /\ b \in Agenda
  BY <1>1 DEF Agenda
<1> HIDE DEF b
<1>3. \A i \in 1 .. Len(a.task_top) : a.task_top[i] # s
  BY DEF Listed
<1>4. \A i \in 1 .. Len(a.task_top) : Due(b, i) = Due(a, i)
  BY <1>1, <1>2, <1>3 DEF Due, Agenda
<1>5. InOrder(b)
  BY <1>2, <1>4 DEF InOrder, SoundList
<1>6. Listed(b) = Listed(a)
  BY <1>2 DEF Listed
<1>7. QED
  BY <1>2, <1>5, <1>6 DEF SoundList, b

(* AddTask hooks the slot in; it gives a weekly task a new, later, moment   *)
(* of the same time of day, and changes nothing else.                       *)
Redated(t, u, from) ==
  \/ u = t /\ (IsLoop(t) \/ IsOnce(t))
  \/ /\ ~(IsLoop(t) \/ IsOnce(t))
     /\ \E p \in Nat :
          /\ p > from
          /\ t.days # {} => TimeOfDay(p) = TimeOfDay(t.prs_time)
          /\ u = [t EXCEPT !.prs_time = p]

(* AddTask keeps the list sound whichever way it goes, as a one-shot or     *)
(* loop task hooked in at its own time or as a weekly one whose date is     *)
(* set first.                                                               *)
LEMMA AddTaskSound ==
  ASSUME NEW a, SoundList(a), NEW s \in Slots, s \notin Listed(a), NEW t \in Nat
  PROVE  /\ SoundList(AddTask(a, s, t))
         /\ Listed(AddTask(a, s, t)) = Listed(a) \cup {s}
         /\ Redated(a.timed_tasks[s], AddTask(a, s, t).timed_tasks[s], t)
         /\ \A r \in Slots : r # s => AddTask(a, s, t).timed_tasks[r] = a.timed_tasks[r]
<1> DEFINE o == a.timed_tasks[s]
           p == FindNextMatchTime(o.days, t, TimeOfDay(o.prs_time), TRUE)
           c == [a EXCEPT !.timed_tasks[s] = [o EXCEPT !.prs_time = p]]
<1>1. a \in Agenda /\ a.timed_tasks \in [Slots -> Task] /\ o \in Task
  BY DEF SoundList, Agenda
<1>2. CASE IsLoop(o) \/ IsOnce(o)
  <2>1. AddTask(a, s, t) = AddTaskSingle(a, s)
    BY <1>2 DEF AddTask
  <2>2. QED
    BY <1>2, <2>1, AddTaskSingleSound DEF Redated
<1>3. CASE ~(IsLoop(o) \/ IsOnce(o))
  <2>1. o.prs_time \in Nat
    BY <1>1 DEF Task
  <2>2. TimeOfDay(o.prs_time) \in Nat
    BY <2>1, TimeOfDayType
  <2>3. p \in Nat /\ p > t
    BY <2>2, MatchIsLater
  <2>3a. o.days # {} => TimeOfDay(p) = TimeOfDay(o.prs_time)
    <3>1. o.days \in SUBSET WeekDays /\ TimeOfDay(o.prs_time) \in 0 .. DAY - 1
      BY <1>1, <2>1, TimeOfDayType DEF Task
    <3>2. QED
      BY <3>1, MatchKeepsTimeOfDay
  <2> HIDE DEF p
  <2>4. [o EXCEPT !.prs_time = p] \in Task
    BY <1>1, <2>3 DEF Task
  <2>5. AddTask(a, s, t) = AddTaskSingle(c, s)
    BY <1>1, <1>3 DEF AddTask, AddTaskWeek, Agenda, p
  <2>6. /\ SoundList(c) /\ Listed(c) = Listed(a)
        /\ c.timed_tasks = [a.timed_tasks EXCEPT ![s] = [o EXCEPT !.prs_time = p]]
    BY <2>4, SlotOutsideList
  <2> HIDE DEF c
  <2>7. /\ SoundList(AddTaskSingle(c, s))
        /\ Listed(AddTaskSingle(c, s)) = Listed(c) \cup {s}
        /\ AddTaskSingle(c, s).timed_tasks = c.timed_tasks
    BY <2>6, AddTaskSingleSound
  <2>8. /\ c.timed_tasks[s] = [o EXCEPT !.prs_time = p]
        /\ \A r \in Slots : r # s => c.timed_tasks[r] = a.timed_tasks[r]
    BY <1>1, <2>6
  <2>9. QED
    BY <1>3, <2>3, <2>3a, <2>5, <2>6, <2>7, <2>8 DEF Redated
<1>4. QED
  BY <1>2, <1>3

(* Taking the head off the list.                                            *)
LEMMA UnhookedSound ==
  ASSUME NEW a, SoundList(a), a.task_top # <<>>
  PROVE  /\ SoundList(Unhooked(a))
         /\ Head(a.task_top) \in Slots /\ Head(a.task_top) \in Listed(a)
         /\ Listed(Unhooked(a)) = Listed(a) \ {Head(a.task_top)}
         /\ Unhooked(a).timed_tasks = a.timed_tasks
<1> DEFINE b == Unhooked(a)
           q == a.task_top
           n == Len(q)
           w == Tail(q)
<1>1. /\ q \in Seq(Slots) /\ q # <<>> /\ a.task_count = n
      /\ a.timed_tasks \in [Slots -> Task]
  BY DEF SoundList, Agenda
<1>2. n \in Nat /\ n > 0 /\ Head(q) = q[1] /\ Head(q) \in Slots
  BY <1>1
<1>3. /\ w \in Seq(Slots) /\ Len(w) = n - 1
      /\ \A i \in 1 .. n - 1 : w[i] = q[i + 1]
  <2> HIDE DEF q
  <2>1. QED
    BY <1>1, <1>2, HeadTailProperties
<1>4. b = [timed_tasks |-> a.timed_tasks, task_top |-> w, task_count |-> n - 1]
  BY <1>1 DEF Unhooked
<1>5. \A i, j \in 1 .. n : i < j => q[i] # q[j] /\ Due(a, i) <= Due(a, j)
  BY DEF SoundList, InOrder
<1> HIDE DEF w, b
<1>6. \A i \in 1 .. n - 1 : Due(b, i) = Due(a, i + 1)
  BY <1>3, <1>4 DEF Due
<1>7. InOrder(b)
  <2> HIDE DEF n, q
  <2>1. \A i, j \in 1 .. n - 1 : i < j => w[i] # w[j] /\ Due(b, i) <= Due(b, j)
    BY <1>2, <1>3, <1>5, <1>6
  <2>2. QED
    BY <1>3, <1>4, <2>1 DEF InOrder
<1>8. b \in Agenda
  BY <1>1, <1>2, <1>3, <1>4 DEF Agenda
<1>9. Listed(b) = Listed(a) \ {q[1]} /\ q[1] \in Listed(a)
  <2>1. Listed(b) = {w[i] : i \in 1 .. n - 1} /\ Listed(a) = {q[i] : i \in 1 .. n}
    BY <1>3, <1>4 DEF Listed
  <2> HIDE DEF n, q
  <2>2. \A i \in 1 .. n - 1 : w[i] \in {q[j] : j \in 1 .. n} \ {q[1]}
    BY <1>2, <1>3, <1>5
  <2>3. \A i \in 1 .. n : i # 1 => i - 1 \in 1 .. n - 1 /\ q[i] = w[i - 1]
    BY <1>2, <1>3
  <2>4. QED
    BY <1>2, <2>1, <2>2, <2>3
<1>10. QED
  BY <1>2, <1>3, <1>4, <1>7, <1>8, <1>9 DEF SoundList, b

(* Removing a set of listed slots: DelTask and the three Clear functions.   *)
LEMMA RemovedSound ==
  ASSUME NEW a, SoundList(a), NEW R, R \subseteq Listed(a)
  PROVE  /\ SoundList(Removed(a, R))
         /\ Listed(Removed(a, R)) = Listed(a) \ R
<1> DEFINE b == Removed(a, R)
           q == a.task_top
           K == Kept(q, R)
           w == Without(q, R)
<1>1. /\ q \in Seq(Slots) /\ a.task_count = Len(q)
      /\ a.timed_tasks \in [Slots -> Task]
  BY DEF SoundList, Agenda
<1>2. b.timed_tasks = [s \in Slots |-> IF s \in R THEN FreeTask ELSE a.timed_tasks[s]]
  BY DEF Removed
<1>3. b.task_top = w /\ b.task_count = a.task_count - Cardinality(R)
  BY DEF Removed
<1>4. b = [timed_tasks |-> b.timed_tasks, task_top |-> b.task_top,
           task_count |-> b.task_count]
  BY DEF Removed
<1>5. \A i, j \in 1 .. Len(q) : i < j => q[i] # q[j] /\ Due(a, i) <= Due(a, j)
  BY DEF SoundList, InOrder
<1>6. R \subseteq {q[i] : i \in 1 .. Len(q)}
  BY DEF Listed
<1> HIDE DEF b, q, w, K
<1>7. w \in Seq(Slots) /\ Len(w) = Cardinality(K)
  BY <1>1, WithoutByRank DEF w, K
<1>8. \A k \in 1 .. Len(w) : \E i \in K : Rank(K, i) = k /\ w[k] = q[i]
  BY <1>1, WithoutByRank DEF w, K
<1>9. Len(w) = Len(q) - Cardinality(R) /\ Cardinality(R) \in Nat
  BY <1>1, <1>5, <1>6, WithoutLength DEF w
<1>10. b.task_count = Len(b.task_top)
  BY <1>1, <1>3, <1>9
<1>11. FreeTask \in Task
  BY DEF FreeTask, Task, Operations, WeekDays
<1>12. b.timed_tasks \in [Slots -> Task]
  BY <1>1, <1>2, <1>11
<1>13. Len(q) \in Nat /\ Len(w) \in Nat
  BY <1>1, <1>7
<1>14. b \in Agenda
  BY <1>1, <1>3, <1>4, <1>7, <1>9, <1>12, <1>13 DEF Agenda
<1>15. K \in SUBSET Nat /\ IsFiniteSet(K)
  BY <1>1, KeptFinite DEF K
<1>16. \A i \in K : i \in 1 .. Len(q) /\ q[i] \notin R
  BY DEF K, Kept
<1>17. InOrder(b)
  <2> SUFFICES ASSUME NEW k \in 1 .. Len(w), NEW l \in 1 .. Len(w), k < l
               PROVE  w[k] # w[l] /\ Due(b, k) <= Due(b, l)
    BY <1>3 DEF InOrder
  <2>1. PICK i \in K : Rank(K, i) = k /\ w[k] = q[i]
    BY <1>8
  <2>2. PICK j \in K : Rank(K, j) = l /\ w[l] = q[j]
    BY <1>8
  <2>3. i \in Nat /\ j \in Nat /\ k \in Int /\ l \in Int
    BY <1>13, <1>15
  <2>4. ~(j < i)
    BY <1>15, <2>1, <2>2, <2>3, RankGrows
  <2>5. i # j
    BY <2>1, <2>2, <2>3
  <2>6. i < j
    BY <2>3, <2>4, <2>5
  <2>7. q[i] # q[j] /\ Due(a, i) <= Due(a, j)
    BY <1>5, <1>16, <2>6
  <2>8. q[i] \in Slots /\ q[j] \in Slots
    BY <1>1, <1>16, ElementOfSeq
  <2>9. b.timed_tasks[q[i]] = a.timed_tasks[q[i]] /\ b.timed_tasks[q[j]] = a.timed_tasks[q[j]]
    BY <1>2, <1>16, <2>8
  <2>10. Due(b, k) = Due(a, i) /\ Due(b, l) = Due(a, j)
    BY <1>3, <2>1, <2>2, <2>9 DEF Due, q
  <2>11. QED
    BY <2>1, <2>2, <2>7, <2>10
<1>18. Listed(b) = Listed(a) \ R
  <2>1. Listed(b) = {w[k] : k \in 1 .. Len(w)} /\ Listed(a) = {q[i] : i \in 1 .. Len(q)}
    BY <1>3 DEF Listed, q
  <2>2. \A k \in 1 .. Len(w) : w[k] \in {q[i] : i \in 1 .. Len(q)} \ R
    BY <1>8, <1>16
  <2>3. \A i \in 1 .. Len(q) : q[i] \notin R => \E k \in 1 .. Len(w) : w[k] = q[i]
    BY <1>1, WithoutHasKept DEF Kept, w
  <2>4. QED
    BY <2>1, <2>2, <2>3
<1>19. QED
  BY <1>10, <1>14, <1>17, <1>18 DEF SoundList, b

(* What a step of the main loop may do to the list with the slot s at its   *)
(* head: drop it, or hook it in again under the same slot.                  *)
Dropped(a, b, s) ==
  /\ Listed(b) = Listed(a) \ {s}
  /\ b.timed_tasks = [a.timed_tasks EXCEPT ![s] = FreeTask]

Moved(a, b, s) ==
  /\ Listed(b) = Listed(a)
  /\ b.timed_tasks[s].on_use = a.timed_tasks[s].on_use
  /\ b.timed_tasks[s].kind = a.timed_tasks[s].kind
  /\ b.timed_tasks[s].operation = a.timed_tasks[s].operation
  /\ \A r \in Slots : r # s => b.timed_tasks[r] = a.timed_tasks[r]

(* The content given to a released slot is a task that is not in use. *)
LEMMA FreeTaskType == FreeTask \in Task /\ ~FreeTask.on_use
BY DEF FreeTask, Task, Operations, WeekDays

(* DelFirstTask drops a loop or a one-shot task and moves a weekly one to a *)
(* time in the future.                                                      *)
LEMMA DelFirstTaskSound ==
  ASSUME NEW a, SoundList(a), a.task_top # <<>>, NEW t \in Nat
  PROVE  LET s == Head(a.task_top)
             b == DelFirstTask(a, t)
         IN  /\ SoundList(b)
             /\ \/ /\ IsLoop(a.timed_tasks[s]) \/ IsOnce(a.timed_tasks[s])
                   /\ Dropped(a, b, s)
                \/ Moved(a, b, s) /\ b.timed_tasks[s].prs_time > t
<1> DEFINE s == Head(a.task_top)
           o == a.timed_tasks[s]
           b == DelFirstTask(a, t)
           c == Unhooked(a)
<1>1. /\ SoundList(c) /\ s \in Slots /\ s \in Listed(a)
      /\ Listed(c) = Listed(a) \ {s} /\ c.timed_tasks = a.timed_tasks
  BY UnhookedSound
<1>2. a.timed_tasks \in [Slots -> Task] /\ o \in Task
  BY <1>1 DEF SoundList, Agenda
<1> HIDE DEF c
<1>3. CASE IsLoop(o) \/ IsOnce(o)
  <2>1. b = [c EXCEPT !.timed_tasks[s] = FreeTask]
    BY <1>3 DEF DelFirstTask, c
  <2>2. /\ SoundList(b) /\ Listed(b) = Listed(c)
        /\ b.timed_tasks = [c.timed_tasks EXCEPT ![s] = FreeTask]
    BY <1>1, <2>1, FreeTaskType, SlotOutsideList
  <2>3. QED
    BY <1>1, <1>3, <2>2 DEF Dropped
<1>4. CASE ~(IsLoop(o) \/ IsOnce(o))
  <2> DEFINE p == FindNextMatchTime(o.days, t, TimeOfDay(o.prs_time), FALSE)
             u == [o EXCEPT !.prs_time = p]
             d == [c EXCEPT !.timed_tasks[s] = u]
  <2>1. p \in Nat
    <3>1. o.prs_time \in Nat
      BY <1>2 DEF Task
    <3>2. TimeOfDay(o.prs_time) \in Nat
      BY <3>1, TimeOfDayType
    <3>3. QED
      BY <3>2, MatchIsLater
  <2>2. u \in Task
    <3> HIDE DEF p
    <3>1. QED
      BY <1>2, <2>1 DEF Task
  <2>3. b = AddTask(d, s, t)
    BY <1>1, <1>2, <1>4 DEF DelFirstTask, c
  <2> HIDE DEF u
  <2>4. /\ SoundList(d) /\ Listed(d) = Listed(c)
        /\ d.timed_tasks = [c.timed_tasks EXCEPT ![s] = u]
    BY <1>1, <2>2, SlotOutsideList
  <2> HIDE DEF d, b
  <2>5. /\ SoundList(b) /\ Listed(b) = Listed(d) \cup {s}
        /\ Redated(d.timed_tasks[s], b.timed_tasks[s], t)
        /\ \A r \in Slots : r # s => b.timed_tasks[r] = d.timed_tasks[r]
    <3> HIDE DEF s
    <3>1. s \notin Listed(d)
      BY <1>1, <2>4
    <3>2. SoundList(d) /\ s \in Slots
      BY <1>1, <2>4
    <3>3. /\ SoundList(AddTask(d, s, t)) /\ Listed(AddTask(d, s, t)) = Listed(d) \cup {s}
          /\ Redated(d.timed_tasks[s], AddTask(d, s, t).timed_tasks[s], t)
          /\ \A r \in Slots : r # s => AddTask(d, s, t).timed_tasks[r] = d.timed_tasks[r]
      BY <3>1, <3>2, AddTaskSound
    <3>4. QED
      BY <2>3, <3>3
  <2>6. d.timed_tasks[s] = u /\ \A r \in Slots : r # s => d.timed_tasks[r] = a.timed_tasks[r]
    BY <1>1, <1>2, <2>4
  <2>7. ~IsLoop(u) /\ ~IsOnce(u) /\ u.on_use = o.on_use
    <3> HIDE DEF p
    <3>1. QED
      BY <1>2, <1>4 DEF u, IsLoop, IsOnce, Task
  <2>8. PICK x \in Nat : x > t /\ b.timed_tasks[s] = [u EXCEPT !.prs_time = x]
    <3> HIDE DEF p, s, o
    <3>1. Redated(u, b.timed_tasks[s], t)
      BY <2>5, <2>6
    <3>2. QED
      BY <2>7, <3>1 DEF Redated
  <2>9. /\ b.timed_tasks[s].prs_time = x /\ b.timed_tasks[s].on_use = o.on_use
        /\ b.timed_tasks[s].kind = o.kind /\ b.timed_tasks[s].operation = o.operation
    <3>1. u.kind = o.kind /\ u.operation = o.operation
      BY <1>2 DEF u, Task
    <3>2. QED
      BY <2>2, <2>7, <2>8, <3>1 DEF Task
  <2>10. Listed(b) = Listed(a)
    BY <1>1, <2>4, <2>5
  <2>11. QED
    BY <2>5, <2>6, <2>8, <2>9, <2>10 DEF Moved, b
<1>5. QED
  BY <1>3, <1>4

(* RequeueFirstTask keeps the loop task in its slot and gives it the time   *)
(* it is told, or a later one.                                              *)
LEMMA RequeueFirstTaskSound ==
  ASSUME NEW a, SoundList(a), a.task_top # <<>>, NEW t \in Nat,
         NEW next \in Nat, next > t, NEW on \in {-1, 0, 1}
  PROVE  LET s == Head(a.task_top)
             b == RequeueFirstTask(a, next, on, t)
         IN  /\ SoundList(b)
             /\ Moved(a, b, s)
             /\ b.timed_tasks[s].prs_time > t
<1> DEFINE s == Head(a.task_top)
           o == a.timed_tasks[s]
           b == RequeueFirstTask(a, next, on, t)
           c == Unhooked(a)
           u == [o EXCEPT !.prs_time = next, !.on = on]
           d == [c EXCEPT !.timed_tasks[s] = u]
<1>1. /\ SoundList(c) /\ s \in Slots /\ s \in Listed(a)
      /\ Listed(c) = Listed(a) \ {s} /\ c.timed_tasks = a.timed_tasks
  BY UnhookedSound
<1>2. a.timed_tasks \in [Slots -> Task] /\ o \in Task
  BY <1>1 DEF SoundList, Agenda
<1>3. /\ u \in Task /\ u.on_use = o.on_use /\ u.prs_time = next
      /\ u.kind = o.kind /\ u.operation = o.operation
  BY <1>2 DEF Task
<1> HIDE DEF c
<1>4. b = AddTask(d, s, t)
  BY <1>1 DEF RequeueFirstTask, c
<1> HIDE DEF u
<1>5. /\ SoundList(d) /\ Listed(d) = Listed(c)
      /\ d.timed_tasks = [c.timed_tasks EXCEPT ![s] = u]
  <2>1. SoundList(c) /\ s \in Slots /\ s \notin Listed(c) /\ u \in Task
    BY <1>1, <1>3
  <2>2. QED
    BY <2>1, SlotOutsideList
<1> HIDE DEF d, b
<1>6. /\ SoundList(b) /\ Listed(b) = Listed(d) \cup {s}
      /\ Redated(d.timed_tasks[s], b.timed_tasks[s], t)
      /\ \A r \in Slots : r # s => b.timed_tasks[r] = d.timed_tasks[r]
  <2> HIDE DEF s
  <2>1. s \notin Listed(d)
    BY <1>1, <1>5
  <2>2. SoundList(d) /\ s \in Slots
    BY <1>1, <1>5
  <2>3. /\ SoundList(AddTask(d, s, t)) /\ Listed(AddTask(d, s, t)) = Listed(d) \cup {s}
        /\ Redated(d.timed_tasks[s], AddTask(d, s, t).timed_tasks[s], t)
        /\ \A r \in Slots : r # s => AddTask(d, s, t).timed_tasks[r] = d.timed_tasks[r]
    BY <2>1, <2>2, AddTaskSound
  <2>4. QED
    BY <1>4, <2>3
<1>7. d.timed_tasks[s] = u /\ \A r \in Slots : r # s => d.timed_tasks[r] = a.timed_tasks[r]
  BY <1>1, <1>2, <1>5
<1>8. /\ b.timed_tasks[s].prs_time > t /\ b.timed_tasks[s].on_use = o.on_use
      /\ b.timed_tasks[s].kind = o.kind /\ b.timed_tasks[s].operation = o.operation
  <2>1. \/ b.timed_tasks[s] = u
        \/ \E p \in Nat : p > t /\ b.timed_tasks[s] = [u EXCEPT !.prs_time = p]
    <3> HIDE DEF s, o
    <3>1. Redated(u, b.timed_tasks[s], t)
      BY <1>6, <1>7
    <3>2. QED
      BY <3>1 DEF Redated
  <2>2. \A p \in Nat : LET v == [u EXCEPT !.prs_time = p]
                      IN  /\ v.prs_time = p /\ v.on_use = u.on_use
                          /\ v.kind = u.kind /\ v.operation = u.operation
    BY <1>3 DEF Task
  <2>3. QED
    BY <1>3, <2>1, <2>2
<1>9. Listed(b) = Listed(a)
  BY <1>1, <1>5, <1>6
<1>10. QED
  BY <1>6, <1>7, <1>8, <1>9 DEF Moved, b

-----------------------------------------------------------------------------
(* The inductive invariant. *)

Inv == TypeOK /\ AgendaOK

-----------------------------------------------------------------------------
(* Types of what the handlers compute. *)

(* Whatever an operation does to the outputs, they keep their types. *)
LEMMA ExecutedType ==
  ASSUME NEW o \in Output, NEW op \in Operations, NEW on \in {-1, 0, 1}
  PROVE  Executed(o, op, on) \in Output /\ SwitchedOff(o, op) \in Output
<1>1. \A k \in Sockets : o.socket_status[k] \in {0, 1} /\ 1 - o.socket_status[k] \in {0, 1}
  BY DEF Output
<1>2. on >= 0 => on \in {0, 1}
  OBVIOUS
<1>3. \A v \in {-1, 0, 1}, p \in Sockets : UserRelaySet(o, p, v) \in Output
  BY <1>1 DEF UserRelaySet, Output
<1>4. \A v \in {-1, 0, 1} : UserRelaySetAll(o, v) \in Output
  BY <1>1 DEF UserRelaySetAll, Output
<1>5. \A v \in {-1, 0, 1} : Executed(o, op, v) \in Output
  <2> SUFFICES ASSUME NEW v \in {-1, 0, 1}
               PROVE  Executed(o, op, v) \in Output
    OBVIOUS
  <2>1. CASE op \in Sockets
    <3>1. op \in Sockets /\ op # 0 /\ op # 7 /\ op # 11
      BY <2>1, ConstantsAssumption DEF Sockets
    <3>2. Executed(o, op, v) = UserRelaySet(o, op, v)
      BY <3>1 DEF Executed, SWITCH_ALL_SOCKETS, SWITCH_LED_ENABLE, SWITCH_CHILD_LOCK_ENABLE
    <3>3. QED
      BY <1>3, <3>1, <3>2
  <2>2. CASE op = SWITCH_ALL_SOCKETS
    <3>1. op \notin Sockets /\ op = 0
      BY <2>2, ConstantsAssumption DEF Sockets, SWITCH_ALL_SOCKETS
    <3>2. Executed(o, op, v) = UserRelaySetAll(o, v)
      BY <3>1 DEF Executed, SWITCH_ALL_SOCKETS, SWITCH_LED_ENABLE, SWITCH_CHILD_LOCK_ENABLE
    <3>3. QED
      BY <1>4, <3>2
  <2>3. CASE op \notin Sockets \cup {SWITCH_ALL_SOCKETS}
    <3>1. [o EXCEPT !.led = v] \in Output /\ [o EXCEPT !.child_lock = v] \in Output
      BY DEF Output
    <3>2. QED
      BY <2>3, <3>1 DEF Executed, SWITCH_LED_ENABLE, SWITCH_CHILD_LOCK_ENABLE
  <2>4. QED
    BY <2>1, <2>2, <2>3
<1>6. QED
  BY <1>5 DEF SwitchedOff

(* The task HttpAddTask makes of a valid request is well formed and in      *)
(* use.                                                                     *)
LEMMA EncodedType ==
  ASSUME NEW r \in Requests, Valid(r)
  PROVE  Encoded(r) \in Task /\ Encoded(r).on_use
<1>1. r \in Request
  BY InputsAssumption
<1>2. /\ r.prs_time \in Nat /\ r.operation \in Operations /\ r.on \in {-1, 0, 1}
      /\ r.days \in SUBSET WeekDays /\ r.dow \in SUBSET WeekDays
      /\ r.mark \in BOOLEAN /\ r.rep \in BOOLEAN
      /\ r.duration \in Nat /\ r.interval \in Nat /\ r.end \in Nat
  BY <1>1, ConstantsAssumption DEF Valid, Request
<1> DEFINE Cap(m) == IF m > LOOP_MASK_MINUTES THEN LOOP_MASK_MINUTES ELSE m
           start  == IF r.fields >= 8 /\ r.start \in Minutes THEN r.start
                     ELSE TimeOfDay(r.prs_time) \div MINUTE
<1>3. \A m \in Nat : Cap(m) \in Nat
  BY ConstantsAssumption
<1>4. start \in Nat
  <2>1. TimeOfDay(r.prs_time) \in Nat
    BY <1>2, TimeOfDayType
  <2>2. TimeOfDay(r.prs_time) \div MINUTE \in Nat
    BY <2>1, ConstantsAssumption
  <2>3. QED
    BY <2>2 DEF Minutes
<1>5. (r.on = 1) \in BOOLEAN
  OBVIOUS
<1> DEFINE common == [FreeTask EXCEPT !.on_use = TRUE, !.prs_time = r.prs_time,
                                      !.operation = r.operation, !.on = r.on]
<1>6. common \in Task /\ common.on_use
  BY <1>2, FreeTaskType DEF Task
<1>7. CASE r.fields >= 6 /\ r.duration > 0
  <2> DEFINE d == Cap(r.duration)
             v == Cap(r.interval)
             z == start + 1
             e == (r.on = 1)
  <2>1. d \in Nat /\ v \in Nat /\ z \in Nat /\ e \in BOOLEAN
    BY <1>2, <1>3, <1>4, <1>5
  <2>2. Encoded(r) =
          [common EXCEPT !.kind = "loop", !.duration = d, !.interval = v, !.start = z,
                         !.end = r.end, !.daily = r.rep, !.start_on = e, !.dow = r.dow]
    BY <1>7 DEF Encoded
  <2> HIDE DEF d, v, z, e, common
  <2>3. QED
    BY <1>2, <1>6, <2>1, <2>2 DEF Task
<1>8. CASE ~(r.fields >= 6 /\ r.duration > 0)
  <2>1. Encoded(r) = [common EXCEPT !.days = r.days, !.mark = r.mark]
    BY <1>8 DEF Encoded
  <2> HIDE DEF common
  <2>2. QED
    BY <1>2, <1>6, <2>1 DEF Task
<1>9. QED
  BY <1>7, <1>8

(* The re-encoding of an old task keeps it well formed and in use. *)
LEMMA MigratedType ==
  ASSUME NEW t \in Task
  PROVE  Migrated(t) \in Task /\ Migrated(t).on_use = t.on_use
BY DEF Migrated, Task, WeekDays

-----------------------------------------------------------------------------
(* The inductive invariant. *)

(* The invariant holds before the first power-on. *)
LEMMA InvInit == Init => Inv
<1> SUFFICES ASSUME Init PROVE Inv
  OBVIOUS
<1>1. [s \in Slots |-> FreeTask] \in [Slots -> Task]
  BY FreeTaskType
<1>2. agenda \in Agenda
  <2>1. <<>> \in Seq(Slots) /\ 0 \in Int
    BY EmptySeq
  <2>2. QED
    BY <1>1, <2>1 DEF Init, EmptyAgenda, Agenda
<1>3. FactoryOut \in Output
  BY DEF FactoryOut, Output
<1>4. flash \in [timed_tasks : [Slots -> Task], out : Output]
  BY <1>1, <1>3, InputsAssumption DEF Init, EmptyAgenda
<1>5. TypeOK
  BY <1>2, <1>3, <1>4, ConstantsAssumption DEF Init, TypeOK
<1>6. AgendaOK
  BY DEF Init, AgendaOK
<1>7. QED
  BY <1>5, <1>6 DEF Inv

(* Outside the off phase the list is sound and names the slots in use.      *)
LEMMA InvSound ==
  ASSUME Inv, phase # "off"
  PROVE  /\ SoundList(agenda)
         /\ Listed(agenda) = {s \in Slots : agenda.timed_tasks[s].on_use /\ Reached(s)}
         /\ agenda.timed_tasks \in [Slots -> Task]
         /\ now \in Nat
BY DEF Inv, AgendaOK, SoundList, TypeOK, Agenda

(* A new agenda in the run phase is right when its list is sound and names  *)
(* the slots in use.                                                        *)
LEMMA AgendaRight ==
  ASSUME SoundList(agenda'),
         Listed(agenda') = {s \in Slots : agenda'.timed_tasks[s].on_use},
         phase' \in {"off", "run"}
  PROVE  AgendaOK'
<1>1. CASE phase' = "off"
  BY <1>1 DEF AgendaOK
<1>2. CASE phase' = "run"
  BY <1>2 DEF AgendaOK, SoundList, Reached, Listed, InOrder, Due
<1>3. QED
  BY <1>1, <1>2

(* A main loop step that drops or moves the head leaves a list that agrees  *)
(* with the slots.                                                          *)
LEMMA HeadStep ==
  ASSUME Inv, phase = "run", agenda.task_top # <<>>,
         SoundList(agenda'), phase' \in {"off", "run"},
         \/ Dropped(agenda, agenda', TopSlot)
         \/ Moved(agenda, agenda', TopSlot)
  PROVE  AgendaOK'
<1>1. /\ SoundList(agenda)
      /\ Listed(agenda) = {s \in Slots : agenda.timed_tasks[s].on_use}
      /\ agenda.timed_tasks \in [Slots -> Task]
  BY InvSound DEF Reached
<1>2. TopSlot \in Slots /\ TopSlot \in Listed(agenda)
  BY <1>1, UnhookedSound DEF TopSlot
<1>3. CASE Dropped(agenda, agenda', TopSlot)
  <2>1. /\ ~agenda'.timed_tasks[TopSlot].on_use
        /\ \A r \in Slots : r # TopSlot => agenda'.timed_tasks[r] = agenda.timed_tasks[r]
    BY <1>1, <1>2, <1>3, FreeTaskType DEF Dropped
  <2>2. Listed(agenda') = Listed(agenda) \ {TopSlot}
    BY <1>3 DEF Dropped
  <2>3. Listed(agenda') = {s \in Slots : agenda'.timed_tasks[s].on_use}
    BY <1>1, <2>1, <2>2
  <2>4. QED
    BY <2>3, AgendaRight
<1>4. CASE Moved(agenda, agenda', TopSlot)
  <2>1. Listed(agenda') = {s \in Slots : agenda'.timed_tasks[s].on_use}
    BY <1>1, <1>2, <1>4 DEF Moved
  <2>2. QED
    BY <2>1, AgendaRight
<1>5. QED
  BY <1>3, <1>4

(* Removing any set of listed tasks (the four web handlers that delete)     *)
(* keeps the invariant.                                                     *)
LEMMA ReleaseStep ==
  ASSUME Inv, phase = "run", NEW R, R \subseteq Listed(agenda), Release(R)
  PROVE  Inv'
<1>1. /\ SoundList(agenda)
      /\ Listed(agenda) = {s \in Slots : agenda.timed_tasks[s].on_use}
      /\ agenda.timed_tasks \in [Slots -> Task]
  BY InvSound DEF Reached
<1>2. agenda' = Removed(agenda, R) /\ phase' = "run" /\ out' = out
  BY DEF Release
<1>3. SoundList(agenda') /\ Listed(agenda') = Listed(agenda) \ R
  BY <1>1, <1>2, RemovedSound
<1>4. agenda'.timed_tasks =
        [s \in Slots |-> IF s \in R THEN FreeTask ELSE agenda.timed_tasks[s]]
  BY <1>2 DEF Removed
<1>5. \A s \in Slots : agenda'.timed_tasks[s].on_use <=>
                         s \notin R /\ agenda.timed_tasks[s].on_use
  BY <1>4, FreeTaskType
<1>6. Listed(agenda') = {s \in Slots : agenda'.timed_tasks[s].on_use}
  BY <1>1, <1>3, <1>5
<1>7. AgendaOK'
  BY <1>2, <1>3, <1>6, AgendaRight
<1>8. agenda' \in Agenda
  BY <1>3 DEF SoundList
<1>9. flash' \in [timed_tasks : [Slots -> Task], out : Output]
  BY <1>2, <1>8 DEF Release, Image, Agenda, Inv, TypeOK
<1>10. owner' \in [Sockets -> Slots \cup {NoTask}]
  BY DEF Release, Disowned, Inv, TypeOK
<1>11. TypeOK'
  BY <1>2, <1>8, <1>9, <1>10 DEF Release, Inv, TypeOK
<1>12. QED
  BY <1>7, <1>11 DEF Inv

(* Adding a task keeps the invariant: the slot claimed was not listed. *)
LEMMA HttpAddTaskStep ==
  ASSUME Inv, NEW r \in Requests, HttpAddTask(r)
  PROVE  Inv'
<1> DEFINE s == Least(FreeSlots(agenda))
           b == [agenda EXCEPT !.timed_tasks[s] = Encoded(r)]
<1>1. /\ phase = "run" /\ phase' = "run"
      /\ agenda' = AddTask(b, s, now)
      /\ flash' = Image(agenda', out) /\ Valid(r) /\ FreeSlots(agenda) # {}
  BY DEF HttpAddTask
<1>2. /\ SoundList(agenda) /\ now \in Nat
      /\ Listed(agenda) = {x \in Slots : agenda.timed_tasks[x].on_use}
      /\ agenda.timed_tasks \in [Slots -> Task]
  BY <1>1, InvSound DEF Reached
<1>3. s \in FreeSlots(agenda)
  <2>1. FreeSlots(agenda) \in SUBSET Nat
    BY ConstantsAssumption DEF FreeSlots, Slots
  <2>2. QED
    BY <1>1, <2>1, LeastIsLeast
<1> HIDE DEF s
<1>4. s \in Slots /\ s \notin Listed(agenda)
  BY <1>2, <1>3 DEF FreeSlots
<1>5. Encoded(r) \in Task /\ Encoded(r).on_use
  BY <1>1, EncodedType
<1>6. /\ SoundList(b) /\ Listed(b) = Listed(agenda)
      /\ b.timed_tasks = [agenda.timed_tasks EXCEPT ![s] = Encoded(r)]
  BY <1>2, <1>4, <1>5, SlotOutsideList
<1> HIDE DEF b
<1>7. /\ SoundList(agenda') /\ Listed(agenda') = Listed(agenda) \cup {s}
      /\ Redated(Encoded(r), agenda'.timed_tasks[s], now)
      /\ \A x \in Slots : x # s => agenda'.timed_tasks[x] = agenda.timed_tasks[x]
  <2>1. s \notin Listed(b)
    BY <1>4, <1>6
  <2>2. b.timed_tasks[s] = Encoded(r)
        /\ \A x \in Slots : x # s => b.timed_tasks[x] = agenda.timed_tasks[x]
    BY <1>2, <1>4, <1>6
  <2>3. /\ SoundList(AddTask(b, s, now))
        /\ Listed(AddTask(b, s, now)) = Listed(b) \cup {s}
        /\ Redated(b.timed_tasks[s], AddTask(b, s, now).timed_tasks[s], now)
        /\ \A x \in Slots : x # s => AddTask(b, s, now).timed_tasks[x] = b.timed_tasks[x]
    BY <1>2, <1>4, <1>6, <2>1, AddTaskSound
  <2>4. QED
    BY <1>1, <1>6, <2>2, <2>3
<1>8. agenda'.timed_tasks[s].on_use
  BY <1>5, <1>7 DEF Redated, Task
<1>9. Listed(agenda') = {x \in Slots : agenda'.timed_tasks[x].on_use}
  BY <1>2, <1>4, <1>7, <1>8
<1>10. AgendaOK'
  BY <1>1, <1>7, <1>9, AgendaRight
<1>11. agenda' \in Agenda
  BY <1>7 DEF SoundList
<1>12. flash' \in [timed_tasks : [Slots -> Task], out : Output]
  BY <1>1, <1>11 DEF Image, Agenda, Inv, TypeOK
<1>13. TypeOK'
  BY <1>1, <1>11, <1>12 DEF HttpAddTask, Inv, TypeOK
<1>14. QED
  BY <1>10, <1>13 DEF Inv

(* The part all the steps of ProcessTask share.                             *)
LEMMA TopFacts ==
  ASSUME Inv, TopIsDue
  PROVE  /\ phase = "run" /\ agenda.task_top # <<>>
         /\ SoundList(agenda) /\ now \in Nat
         /\ agenda.timed_tasks \in [Slots -> Task]
         /\ TopSlot \in Slots /\ TopSlot \in Listed(agenda)
         /\ Top \in Task
<1>1. phase = "run" /\ agenda.task_top # <<>>
  BY DEF TopIsDue
<1>2. SoundList(agenda) /\ now \in Nat /\ agenda.timed_tasks \in [Slots -> Task]
  BY <1>1, InvSound
<1>3. TopSlot \in Slots /\ TopSlot \in Listed(agenda)
  BY <1>1, <1>2, UnhookedSound DEF TopSlot
<1>4. QED
  BY <1>1, <1>2, <1>3 DEF Top

(* Every step of the main loop but the factory reset drops the head or      *)
(* moves it to a later time, and leaves the list sound.                     *)
HeadHandled ==
  /\ SoundList(agenda')
  /\ \/ Dropped(agenda, agenda', TopSlot)
     \/ Moved(agenda, agenda', TopSlot) /\ agenda'.timed_tasks[TopSlot].prs_time > now

(* DelFirstTask either drops the head or moves it to a later time than      *)
(* now.                                                                     *)
LEMMA DelFirstHandles ==
  ASSUME Inv, TopIsDue, agenda' = DelFirstTask(agenda, now)
  PROVE  HeadHandled
<1>1. agenda.task_top # <<>> /\ SoundList(agenda) /\ now \in Nat
  BY TopFacts
<1>2. QED
  BY <1>1, DelFirstTaskSound DEF HeadHandled, TopSlot

(* RequeueFirstTask moves the head to the time given, which is later than   *)
(* now.                                                                     *)
LEMMA RequeueHandles ==
  ASSUME Inv, TopIsDue, NEW next \in Nat, next > now, NEW on \in {-1, 0, 1},
         agenda' = RequeueFirstTask(agenda, next, on, now)
  PROVE  HeadHandled
<1>1. agenda.task_top # <<>> /\ SoundList(agenda) /\ now \in Nat
  BY TopFacts
<1>2. QED
  BY <1>1, RequeueFirstTaskSound DEF HeadHandled, TopSlot

(* A loop's next switching lies in the future.                              *)
LEMMA DelayIsLater ==
  ASSUME NEW t \in Task, NEW from \in Nat
  PROVE  from + LoopDelay(t) \in Nat /\ from + LoopDelay(t) > from
<1>1. t.duration \in Nat /\ t.interval \in Nat
  BY DEF Task
<1>2. \A m \in Nat : (IF m > 0 THEN m ELSE 1) * MINUTE \in Nat \ {0}
  BY ConstantsAssumption
<1>3. LoopDelay(t) \in Nat \ {0}
  BY <1>1, <1>2 DEF LoopDelay
<1>4. QED
  BY <1>3

(* A loop's window begins at a number of seconds.                           *)
LEMMA StartIsMinute ==
  ASSUME NEW t \in Task
  PROVE  StartMinute(t) * MINUTE \in Nat
<1>1. t.start \in Nat /\ t.prs_time \in Nat
  BY DEF Task
<1>2. DAY \div MINUTE \in Nat \ {0}
  BY ConstantsAssumption
<1>3. StartMinute(t) \in Nat
  BY <1>1, <1>2 DEF StartMinute
<1>4. QED
  BY <1>3, ConstantsAssumption

(* Every case of ProcessTask but the factory reset drops the head or moves  *)
(* it to a later time than now.                                             *)
LEMMA ProcessTaskHandles ==
  ASSUME Inv, ProcessTask
  PROVE  HeadHandled \/ ProcessReset
<1>1. TopIsDue
  BY DEF ProcessTask, ProcessTimed, ProcessLoopInWindow, ProcessLoopRearm,
         ProcessLoopEnd, LoopDue, ProcessReboot, ProcessConfigWifi, ProcessReset
<1>2. Top \in Task /\ now \in Nat
  BY <1>1, TopFacts
<1>3. CASE ProcessTimed \/ ProcessLoopEnd \/ ProcessReboot \/ ProcessConfigWifi
  <2>1. agenda' = DelFirstTask(agenda, now)
    BY <1>3 DEF ProcessTimed, ProcessLoopEnd, ProcessReboot, ProcessConfigWifi
  <2>2. QED
    BY <1>1, <2>1, DelFirstHandles
<1>4. CASE ProcessLoopInWindow
  <2> DEFINE next == now + LoopDelay(Top)
             on   == IF Top.on >= 0 THEN 1 - Top.on ELSE Top.on
  <2>1. Top.on \in {-1, 0, 1}
    BY <1>2 DEF Task
  <2>3. next \in Nat /\ next > now /\ on \in {-1, 0, 1}
    BY <1>2, <2>1, DelayIsLater
  <2>4. agenda' = RequeueFirstTask(agenda, next, on, now)
    BY <1>4 DEF ProcessLoopInWindow
  <2>5. QED
    BY <1>1, <2>3, <2>4, RequeueHandles
<1>5. CASE ProcessLoopRearm
  <2> DEFINE mask == IF Top.dow # {} THEN Top.dow ELSE WeekDays
             next == FindNextMatchTime(mask, now, StartMinute(Top) * MINUTE, TRUE)
             on   == IF Top.on = -1 THEN -1 ELSE IF Top.start_on THEN 1 ELSE 0
  <2>2. next \in Nat /\ next > now
    BY <1>2, StartIsMinute, MatchIsLater
  <2>3. on \in {-1, 0, 1}
    OBVIOUS
  <2>4. agenda' = RequeueFirstTask(agenda, next, on, now)
    BY <1>5 DEF ProcessLoopRearm
  <2>5. QED
    BY <1>1, <2>2, <2>3, <2>4, RequeueHandles
<1>6. QED
  BY <1>3, <1>4, <1>5 DEF ProcessTask

(* The history variable owner keeps its type. *)
LEMMA OwnerType ==
  ASSUME TypeOK, NEW op, NEW who \in Slots \cup {NoTask}, OwnerAfter(op, who)
  PROVE  owner' \in [Sockets -> Slots \cup {NoTask}]
<1>1. NoTask \in Slots \cup {NoTask}
  OBVIOUS
<1>2. QED
  BY <1>1 DEF OwnerAfter, TypeOK

(* What AppContextUpdate writes is an image that flash may hold. *)
LEMMA ImageType ==
  ASSUME NEW a \in Agenda, NEW o \in Output
  PROVE  Image(a, o) \in [timed_tasks : [Slots -> Task], out : Output]
BY DEF Image, Agenda

(* The main loop's handling of a due task keeps the invariant. *)
LEMMA ProcessTaskStep ==
  ASSUME Inv, ProcessTask
  PROVE  Inv'
<1>1. TopIsDue
  BY DEF ProcessTask, ProcessTimed, ProcessLoopInWindow, ProcessLoopRearm,
         ProcessLoopEnd, LoopDue, ProcessReboot, ProcessConfigWifi, ProcessReset
<1>2. /\ phase = "run" /\ agenda.task_top # <<>> /\ TopSlot \in Slots
      /\ Top \in Task /\ now \in Nat /\ out \in Output /\ TypeOK
  BY <1>1, TopFacts DEF Inv, TypeOK
<1>3. Top.operation \in Operations /\ Top.on \in {-1, 0, 1}
  BY <1>2 DEF Task
<1>4. Executed(out, Top.operation, Top.on) \in Output
  BY <1>2, <1>3, ExecutedType
<1>5. SwitchedOff(Executed(out, Top.operation, Top.on), Top.operation) \in Output
  BY <1>3, <1>4, ExecutedType
<1>6. CASE ProcessReset
  <2>1. /\ agenda' = EmptyAgenda /\ out' = FactoryOut /\ phase' = "off"
        /\ flash' = Image(agenda', out') /\ owner' = [k \in Sockets |-> NoTask]
        /\ now' = now /\ boot_i' = boot_i
    BY <1>6 DEF ProcessReset
  <2>2. EmptyAgenda \in Agenda
    <3>1. [s \in Slots |-> FreeTask] \in [Slots -> Task] /\ <<>> \in Seq(Slots)
      BY FreeTaskType, EmptySeq
    <3>2. QED
      BY <3>1 DEF EmptyAgenda, Agenda
  <2>3. FactoryOut \in Output
    BY DEF FactoryOut, Output
  <2>4. Image(agenda', out') \in [timed_tasks : [Slots -> Task], out : Output]
    BY <2>1, <2>2, <2>3, ImageType
  <2>5. TypeOK'
    BY <1>2, <2>1, <2>2, <2>3, <2>4 DEF TypeOK
  <2>6. AgendaOK'
    BY <2>1 DEF AgendaOK
  <2>7. QED
    BY <2>5, <2>6 DEF Inv
<1>7. CASE ~ProcessReset
  <2>1. HeadHandled
    BY <1>7, ProcessTaskHandles
  <2>2. agenda' \in Agenda
    BY <2>1 DEF HeadHandled, SoundList
  <2>3. /\ out' \in Output
        /\ owner' \in [Sockets -> Slots \cup {NoTask}]
        /\ phase' \in {"run", "off"}
        /\ now' = now /\ boot_i' = boot_i
        /\ flash' = Image(agenda', out')
    <3>1. CASE ProcessTimed
      BY <1>2, <1>4, <3>1, OwnerType DEF ProcessTimed
    <3>2. CASE ProcessLoopInWindow
      BY <1>2, <1>4, <3>2, OwnerType DEF ProcessLoopInWindow
    <3>3. CASE ProcessLoopRearm
      BY <1>2, <1>5, <3>3, OwnerType DEF ProcessLoopRearm
    <3>4. CASE ProcessLoopEnd
      BY <1>2, <1>5, <3>4, OwnerType DEF ProcessLoopEnd
    <3>5. CASE ProcessReboot \/ ProcessConfigWifi
      BY <1>2, <3>5 DEF ProcessReboot, ProcessConfigWifi, TypeOK
    <3>6. QED
      BY <1>7, <3>1, <3>2, <3>3, <3>4, <3>5 DEF ProcessTask
  <2>4. flash' \in [timed_tasks : [Slots -> Task], out : Output]
    BY <2>2, <2>3, ImageType
  <2>5. TypeOK'
    BY <1>2, <2>2, <2>3, <2>4 DEF TypeOK
  <2>6. AgendaOK'
    BY <1>2, <2>1, <2>3, HeadStep DEF HeadHandled
  <2>7. QED
    BY <2>5, <2>6 DEF Inv
<1>8. QED
  BY <1>6, <1>7

(* Reading user_config back at power-on keeps the invariant: no slot is     *)
(* hooked in yet and none is claimed to be.                                 *)
LEMMA PowerOnStep ==
  ASSUME Inv, PowerOn
  PROVE  Inv'
<1>1. /\ phase' = "boot" /\ boot_i' = 0 /\ out' = flash.out
      /\ agenda' = [timed_tasks |-> flash.timed_tasks, task_top |-> <<>>, task_count |-> 0]
      /\ now' \in {0, now} /\ flash' = flash /\ owner' = owner
  BY DEF PowerOn
<1>2. flash.timed_tasks \in [Slots -> Task] /\ flash.out \in Output /\ TypeOK
  BY DEF Inv, TypeOK
<1>3. agenda' \in Agenda
  <2>1. <<>> \in Seq(Slots)
    BY EmptySeq
  <2>2. QED
    BY <1>1, <1>2, <2>1 DEF Agenda
<1>4. TypeOK'
  BY <1>1, <1>2, <1>3, ConstantsAssumption DEF TypeOK
<1>5. agenda'.task_top = <<>> /\ agenda'.task_count = 0 /\ Len(<<>>) = 0
  BY <1>1, EmptySeq
<1>6. \A s \in Slots : ~(s < 0)
  BY ConstantsAssumption DEF Slots
<1>7. AgendaOK'
  BY <1>1, <1>5, <1>6 DEF AgendaOK, InOrder, Listed, Reached
<1>8. QED
  BY <1>4, <1>7 DEF Inv

(* One round of RebuildTaskList hooks its slot into a sound list and        *)
(* disturbs no other slot.                                                  *)
LEMMA RebuiltSound ==
  ASSUME NEW a, SoundList(a), NEW s \in Slots, s \notin Listed(a), NEW t \in Nat,
         a.timed_tasks[s].on_use
  PROVE  LET b == Rebuilt(a, s, t)
         IN  /\ SoundList(b)
             /\ Listed(b) = Listed(a) \cup {s}
             /\ b.timed_tasks[s].on_use
             /\ \A r \in Slots : r # s => b.timed_tasks[r] = a.timed_tasks[r]
<1> DEFINE u == Migrated(a.timed_tasks[s])
           c == [a EXCEPT !.timed_tasks[s] = u]
           b == Rebuilt(a, s, t)
<1>1. a.timed_tasks \in [Slots -> Task] /\ a.timed_tasks[s] \in Task /\ a \in Agenda
  BY DEF SoundList, Agenda
<1>2. u \in Task /\ u.on_use
  BY <1>1, MigratedType
<1>3. b = AddTask(c, s, t) \/ b = AddTaskSingle(c, s)
  BY DEF Rebuilt
<1> HIDE DEF u
<1>4. /\ SoundList(c) /\ Listed(c) = Listed(a)
      /\ c.timed_tasks = [a.timed_tasks EXCEPT ![s] = u]
  BY <1>2, SlotOutsideList
<1> HIDE DEF b, c
<1>5. /\ s \notin Listed(c) /\ c.timed_tasks[s] = u
      /\ \A r \in Slots : r # s => c.timed_tasks[r] = a.timed_tasks[r]
  BY <1>1, <1>4
<1>6. CASE b = AddTask(c, s, t)
  <2>0. SoundList(c) /\ s \notin Listed(c)
    BY <1>4, <1>5
  <2>1. /\ SoundList(AddTask(c, s, t)) /\ Listed(AddTask(c, s, t)) = Listed(c) \cup {s}
        /\ Redated(c.timed_tasks[s], AddTask(c, s, t).timed_tasks[s], t)
        /\ \A r \in Slots : r # s => AddTask(c, s, t).timed_tasks[r] = c.timed_tasks[r]
    BY <2>0, AddTaskSound
  <2>2. b.timed_tasks[s].on_use
    BY <1>2, <1>5, <1>6, <2>1 DEF Redated, Task
  <2>3. QED
    BY <1>4, <1>5, <1>6, <2>1, <2>2 DEF b
<1>7. CASE b = AddTaskSingle(c, s)
  <2>1. /\ SoundList(AddTaskSingle(c, s))
        /\ Listed(AddTaskSingle(c, s)) = Listed(c) \cup {s}
        /\ AddTaskSingle(c, s).timed_tasks = c.timed_tasks
    BY <1>4, <1>5, AddTaskSingleSound
  <2>2. QED
    BY <1>2, <1>4, <1>5, <1>7, <2>1 DEF b
<1>8. QED
  BY <1>3, <1>6, <1>7

(* A round of RebuildTaskList keeps the invariant: the list names the       *)
(* slots in use below the loop index.                                       *)
LEMMA RebuildTaskListStep ==
  ASSUME Inv, RebuildTaskList
  PROVE  Inv'
<1>1. /\ phase = "boot" /\ boot_i' = boot_i + 1 /\ boot_i < MAX_TASK_NUM
      /\ phase' = IF boot_i' = MAX_TASK_NUM THEN "run" ELSE "boot"
      /\ out' = out /\ flash' = flash /\ now' = now /\ owner' = owner
  BY DEF RebuildTaskList
<1>2. TypeOK /\ boot_i \in 0 .. MAX_TASK_NUM /\ MAX_TASK_NUM \in Nat
  BY ConstantsAssumption DEF Inv, TypeOK
<1>3. boot_i \in Slots /\ boot_i' \in 0 .. MAX_TASK_NUM
  BY <1>1, <1>2 DEF Slots
<1>4. /\ SoundList(agenda) /\ now \in Nat
      /\ Listed(agenda) = {s \in Slots : agenda.timed_tasks[s].on_use /\ s < boot_i}
  BY <1>1, InvSound DEF Reached
<1>5. boot_i \notin Listed(agenda)
  BY <1>2, <1>4
<1>6. \A s \in Slots : Reached(s)' <=> s < boot_i \/ s = boot_i
  BY <1>1, <1>2 DEF Reached, Slots
<1>7. /\ SoundList(agenda')
      /\ Listed(agenda') =
           {s \in Slots : agenda'.timed_tasks[s].on_use /\ (s < boot_i \/ s = boot_i)}
  <2>1. CASE agenda.timed_tasks[boot_i].on_use
    <3>1. agenda' = Rebuilt(agenda, boot_i, now)
      BY <2>1 DEF RebuildTaskList
    <3>2. /\ SoundList(agenda') /\ Listed(agenda') = Listed(agenda) \cup {boot_i}
          /\ agenda'.timed_tasks[boot_i].on_use
          /\ \A r \in Slots : r # boot_i => agenda'.timed_tasks[r] = agenda.timed_tasks[r]
      BY <1>3, <1>4, <1>5, <2>1, <3>1, RebuiltSound
    <3>3. QED
      BY <1>3, <1>4, <3>2
  <2>2. CASE ~agenda.timed_tasks[boot_i].on_use
    <3>1. agenda' = agenda
      BY <2>2 DEF RebuildTaskList
    <3>2. QED
      BY <1>4, <2>2, <3>1
  <2>3. QED
    BY <2>1, <2>2
<1>8. AgendaOK'
  BY <1>6, <1>7 DEF AgendaOK, SoundList, InOrder, Listed, Due
<1>9. TypeOK'
  BY <1>1, <1>2, <1>3, <1>7 DEF TypeOK, SoundList
<1>10. QED
  BY <1>8, <1>9 DEF Inv

(* The steps that leave the list alone.                                     *)
LEMMA OtherSteps ==
  ASSUME Inv, PowerCut \/ PowerCutDuringTask \/ Tick \/ SntpSync
  PROVE  Inv'
<1>1. TypeOK
  BY DEF Inv
<1>2. CASE PowerCut
  BY <1>1, <1>2 DEF PowerCut, TypeOK, AgendaOK, Inv
<1>3. CASE PowerCutDuringTask
  <2>1. TopIsDue
    BY <1>3 DEF PowerCutDuringTask
  <2>2. TopSlot \in Slots /\ Top \in Task
    BY <2>1, TopFacts
  <2>3. Executed(out, Top.operation, Top.on) \in Output
    BY <1>1, <2>2, ExecutedType DEF TypeOK, Task
  <2>4. owner' \in [Sockets -> Slots \cup {NoTask}]
    BY <1>1, <1>3, <2>2, OwnerType DEF PowerCutDuringTask
  <2>5. flash' \in [timed_tasks : [Slots -> Task], out : Output]
    BY <1>1, <1>3, <2>3, ImageType DEF PowerCutDuringTask, TypeOK
  <2>6. QED
    BY <1>1, <1>3, <2>3, <2>4, <2>5 DEF PowerCutDuringTask, TypeOK, AgendaOK, Inv
<1>4. CASE Tick \/ SntpSync
  <2>1. /\ phase = "run" /\ UNCHANGED <<agenda, out, flash, phase, boot_i, owner>>
    BY <1>4 DEF Tick, SntpSync
  <2>2. now' \in Nat
    BY <1>1, <1>4, ConstantsAssumption DEF Tick, SntpSync, TypeOK
  <2>3. TypeOK'
    BY <1>1, <2>1, <2>2 DEF TypeOK
  <2>4. AgendaOK'
    BY <2>1 DEF Inv, AgendaOK, InOrder, Listed, Due, Reached
  <2>5. QED
    BY <2>3, <2>4 DEF Inv
<1>5. QED
  BY <1>2, <1>3, <1>4

(* Every step keeps the invariant. *)
LEMMA InvStep == Inv /\ [Next]_vars => Inv'
<1> SUFFICES ASSUME Inv, [Next]_vars PROVE Inv'
  OBVIOUS
<1>1. ASSUME NEW r \in Requests, HttpAddTask(r) PROVE Inv'
  BY <1>1, HttpAddTaskStep
<1>2. ASSUME NEW s \in Slots, HttpDelTask(s) PROVE Inv'
  BY <1>2, ReleaseStep DEF HttpDelTask
<1>3. CASE HttpClearTasks
  BY <1>3, ReleaseStep DEF HttpClearTasks
<1>4. CASE HttpClearLoopTasks
  BY <1>4, ReleaseStep DEF HttpClearLoopTasks
<1>5. CASE HttpClearScheduledTasks
  BY <1>5, ReleaseStep DEF HttpClearScheduledTasks
<1>6. CASE ProcessTask
  BY <1>6, ProcessTaskStep
<1>7. CASE PowerCut \/ PowerCutDuringTask \/ Tick \/ SntpSync
  BY <1>7, OtherSteps
<1>8. CASE PowerOn
  BY <1>8, PowerOnStep
<1>9. CASE RebuildTaskList
  BY <1>9, RebuildTaskListStep
<1>10. CASE UNCHANGED vars
  BY <1>10 DEF vars, Inv, TypeOK, AgendaOK, InOrder, Listed, Due, Reached
<1>11. QED
  BY <1>1, <1>2, <1>3, <1>4, <1>5, <1>6, <1>7, <1>8, <1>9, <1>10 DEF Next

-----------------------------------------------------------------------------
(* The invariant holds of every behaviour, whatever the number of slots and *)
(* sockets, the length of a day and the requests clients send.              *)
THEOREM Invariance == Spec => []Inv
<1>1. Init => Inv
  BY InvInit
<1>2. Inv /\ [Next]_vars => Inv'
  BY InvStep
<1>3. QED
  BY <1>1, <1>2, PTL DEF Spec

(* Every value the firmware keeps has the type its struct gives it.         *)
THEOREM Typing == Spec => []TypeOK
<1>1. Inv => TypeOK
  BY DEF Inv
<1>2. QED
  BY <1>1, Invariance, PTL

(* The list is in order of due time, without duplicates, and agrees with    *)
(* the array of slots and with the task count, in every state after boot.   *)
THEOREM ListAgreesWithSlots == Spec => []AgendaOK
<1>1. Inv => AgendaOK
  BY DEF Inv
<1>2. QED
  BY <1>1, Invariance, PTL

(* ProcessTask never leaves the task it handled due.                        *)
THEOREM HandledTaskMovesOn == Spec => NoImmediateRefire
<1> DEFINE A == ProcessTask /\ phase' = "run" =>
                  \/ ~agenda'.timed_tasks[TopSlot].on_use
                  \/ agenda'.timed_tasks[TopSlot].prs_time > now
<1>1. Inv /\ [Next]_vars => [A]_vars
  <2> SUFFICES ASSUME Inv, ProcessTask, phase' = "run"
               PROVE  \/ ~agenda'.timed_tasks[TopSlot].on_use
                      \/ agenda'.timed_tasks[TopSlot].prs_time > now
    OBVIOUS
  <2>1. TopIsDue
    BY DEF ProcessTask, ProcessTimed, ProcessLoopInWindow, ProcessLoopRearm,
           ProcessLoopEnd, LoopDue, ProcessReboot, ProcessConfigWifi, ProcessReset
  <2>2. TopSlot \in Slots /\ agenda.timed_tasks \in [Slots -> Task]
    BY <2>1, TopFacts
  <2>3. ~ProcessReset
    BY DEF ProcessReset
  <2>4. HeadHandled
    BY <2>3, ProcessTaskHandles
  <2>5. CASE Dropped(agenda, agenda', TopSlot)
    BY <2>2, <2>5, FreeTaskType DEF Dropped
  <2>6. CASE agenda'.timed_tasks[TopSlot].prs_time > now
    BY <2>6
  <2>7. QED
    BY <2>4, <2>5, <2>6 DEF HeadHandled
<1>2. Spec => [][A]_vars
  BY <1>1, Invariance, PTL DEF Spec
<1>3. QED
  BY <1>2 DEF NoImmediateRefire

(* Where DelFirstTask puts a weekly task: the day search runs twice, once   *)
(* past today for the task's own time of day and once, in AddTask, with     *)
(* today, and the second result stands.                                     *)
LEMMA DelFirstRedates ==
  ASSUME SoundList(agenda), agenda.task_top # <<>>, now \in Nat,
         Top \in Task, Top.kind = "timed", Top.days # {}
  PROVE  DelFirstTask(agenda, now).timed_tasks[TopSlot].prs_time
           = FindNextMatchTime(Top.days, now, TimeOfDay(Top.prs_time), TRUE)
<1> DEFINE s   == TopSlot
           tod == TimeOfDay(Top.prs_time)
           f   == FindNextMatchTime(Top.days, now, tod, FALSE)
           p   == FindNextMatchTime(Top.days, now, tod, TRUE)
           b   == Unhooked(agenda)
           c   == [b EXCEPT !.timed_tasks[s].prs_time = f]
<1>1. s \in Slots /\ agenda.timed_tasks \in [Slots -> Task]
  BY UnhookedSound DEF TopSlot, SoundList, Agenda
<1>2. ~IsLoop(Top) /\ ~IsOnce(Top) /\ Top.days \in SUBSET WeekDays /\ Top.prs_time \in Nat
  BY DEF IsLoop, IsOnce, Task
<1>3. tod \in 0 .. DAY - 1 /\ tod \in Nat
  BY <1>2, TimeOfDayType
<1>4. TimeOfDay(f) = tod
  BY <1>2, <1>3, MatchKeepsTimeOfDay
<1>5. DelFirstTask(agenda, now) = AddTask(c, s, now)
  BY <1>2 DEF DelFirstTask, TopSlot, Top
<1> HIDE DEF f, p, tod
<1>6. c.timed_tasks = [agenda.timed_tasks EXCEPT ![s] = [Top EXCEPT !.prs_time = f]]
  BY DEF Unhooked, Top, TopSlot
<1> HIDE DEF c, s
<1>7. c.timed_tasks[s] = [Top EXCEPT !.prs_time = f]
  BY <1>1, <1>6
<1>8. /\ c.timed_tasks[s].prs_time = f /\ c.timed_tasks[s].days = Top.days
      /\ c.timed_tasks[s].kind = Top.kind /\ c.timed_tasks[s].mark = Top.mark
  BY <1>7 DEF Task
<1>9. AddTask(c, s, now) = AddTaskWeek(c, s, now)
  BY <1>2, <1>8 DEF AddTask, IsLoop, IsOnce
<1>10. AddTaskWeek(c, s, now).timed_tasks[s].prs_time = p
  <2>1. AddTaskWeek(c, s, now).timed_tasks
          = [c.timed_tasks EXCEPT ![s].prs_time =
               FindNextMatchTime(c.timed_tasks[s].days, now, TimeOfDay(@), TRUE)]
    BY <1>5 DEF AddTaskWeek, AddTaskSingle, c, Unhooked
  <2>2. s \in DOMAIN c.timed_tasks /\ "prs_time" \in DOMAIN c.timed_tasks[s]
    BY <1>1, <1>6, <1>7 DEF Task
  <2>3. AddTaskWeek(c, s, now).timed_tasks[s].prs_time
          = FindNextMatchTime(c.timed_tasks[s].days, now,
                              TimeOfDay(c.timed_tasks[s].prs_time), TRUE)
    BY <2>1, <2>2
  <2>4. QED
    BY <1>4, <1>8, <2>3 DEF p
<1>11. QED
  BY <1>5, <1>9, <1>10 DEF s, p, tod

(* The weekly task that ProcessTask handled is due next at the first moment *)
(* after now with its time of day on one of its week days.                  *)
THEOREM WeeklyTaskIsNextMatch == Spec => RescheduledToFirstMatch
<1> DEFINE A == ProcessTask /\ phase' = "run" /\ Top.kind = "timed" /\ Top.days # {} =>
                  FirstMatch(agenda'.timed_tasks[TopSlot].prs_time, Top.days,
                             TimeOfDay(Top.prs_time))
<1>1. Inv /\ [Next]_vars => [A]_vars
  <2> SUFFICES ASSUME Inv, ProcessTask, phase' = "run",
                      Top.kind = "timed", Top.days # {}
               PROVE  FirstMatch(agenda'.timed_tasks[TopSlot].prs_time, Top.days,
                                 TimeOfDay(Top.prs_time))
    OBVIOUS
  <2> DEFINE tod == TimeOfDay(Top.prs_time)
             u   == FindNextMatchTime(Top.days, now, tod, TRUE)
  <2>1. TopIsDue
    BY DEF ProcessTask, ProcessTimed, ProcessLoopInWindow, ProcessLoopRearm,
           ProcessLoopEnd, LoopDue, ProcessReboot, ProcessConfigWifi, ProcessReset
  <2>2. agenda' = DelFirstTask(agenda, now)
    BY DEF ProcessTask, ProcessTimed, ProcessLoopInWindow, ProcessLoopRearm,
           ProcessLoopEnd, LoopDue, ProcessReboot, ProcessConfigWifi, ProcessReset, IsLoop
  <2>3. Top \in Task /\ now \in Nat /\ SoundList(agenda) /\ agenda.task_top # <<>>
    BY <2>1, TopFacts, InvSound DEF TopIsDue
  <2>4. agenda'.timed_tasks[TopSlot].prs_time = u
    BY <2>2, <2>3, DelFirstRedates
  <2>5. Top.days \in SUBSET WeekDays /\ tod \in 0 .. DAY - 1 /\ tod \in Nat
    BY <2>3, TimeOfDayType DEF Task
  <2> HIDE DEF tod
  <2>6. u > now
    BY <2>3, <2>5, MatchIsLater
  <2>7. \A v \in now + 1 .. u :
          (TimeOfDay(v) = tod /\ WeekDay(v) \in Top.days) <=> v = u
    BY <2>3, <2>5, MatchIsFirst
  <2> HIDE DEF u
  <2>8. FirstMatch(u, Top.days, tod)
    BY <2>6, <2>7 DEF FirstMatch
  <2>9. QED
    BY <2>4, <2>8 DEF tod
<1>2. Spec => [][A]_vars
  BY <1>1, Invariance, PTL DEF Spec
<1>3. QED
  BY <1>2 DEF RescheduledToFirstMatch

-----------------------------------------------------------------------------
(* What the flash holds. *)

(* The array of slots and the flash agree whenever the main loop runs; at   *)
(* boot, the slots RebuildTaskList has not reached are as they were saved.  *)
Saved ==
  phase # "off" =>
    /\ flash.out = out
    /\ \A s \in Slots : SameTask(flash.timed_tasks[s], agenda.timed_tasks[s])
    /\ phase = "boot" =>
         \A s \in Slots : s >= boot_i => agenda.timed_tasks[s] = flash.timed_tasks[s]

(* No task that has been hooked in has an encoding of an older firmware.    *)
Modern ==
  phase # "off" =>
    \A s \in Slots : Reached(s) /\ agenda.timed_tasks[s].on_use
                     => agenda.timed_tasks[s].kind # "oldloop"

(* A socket that a loop has left on still has that loop in the flash, which *)
(* is where the next boot finds it.                                         *)
OwnsLoop(t, k) == t.on_use /\ IsLoop(Migrated(t)) /\ Covers(t.operation, k)
Owned == \A k \in Sockets : owner[k] # NoTask => OwnsLoop(flash.timed_tasks[owner[k]], k)

SaveInv == Inv /\ Saved /\ Modern /\ Owned

(* A task is the same task as itself. *)
LEMMA SameAsItself == \A t : SameTask(t, t)
BY DEF SameTask

(* The steps that save: what they leave in memory is in the flash.          *)
LEMMA SavedStep ==
  ASSUME Inv', phase' \in {"off", "run"}, flash' = Image(agenda', out'),
         \A s \in Slots : agenda'.timed_tasks[s].on_use
                          => agenda'.timed_tasks[s].kind # "oldloop",
         \A k \in Sockets : owner'[k] # NoTask => OwnsLoop(agenda'.timed_tasks[owner'[k]], k)
  PROVE  SaveInv'
<1>1. flash'.out = out' /\ flash'.timed_tasks = agenda'.timed_tasks
  BY DEF Image
<1>2. Saved'
  BY <1>1, SameAsItself DEF Saved
<1>3. Modern'
  BY DEF Modern
<1>4. Owned'
  BY <1>1 DEF Owned
<1>5. QED
  BY <1>2, <1>3, <1>4 DEF SaveInv

(* While the main loop runs, the loop that owns a socket is in the list, as *)
(* a loop of that socket.                                                   *)
LEMMA OwnersRun ==
  ASSUME SaveInv, phase = "run", NEW k \in Sockets, owner[k] # NoTask
  PROVE  /\ owner[k] \in Slots
         /\ owner[k] \in Listed(agenda)
         /\ agenda.timed_tasks[owner[k]].on_use
         /\ IsLoop(agenda.timed_tasks[owner[k]])
         /\ Covers(agenda.timed_tasks[owner[k]].operation, k)
<1> DEFINE s == owner[k]
           t == agenda.timed_tasks[s]
           u == flash.timed_tasks[s]
<1>1. s \in Slots /\ t \in Task
  BY DEF SaveInv, Inv, TypeOK, Agenda
<1>2. OwnsLoop(u, k) /\ SameTask(u, t)
  BY <1>1 DEF SaveInv, Owned, Saved
<1>3. t.on_use /\ t.operation = u.operation /\ Migrated(t).kind = "loop"
  BY <1>2 DEF OwnsLoop, SameTask, IsLoop
<1>4. t.kind # "oldloop"
  BY <1>1, <1>3 DEF SaveInv, Modern, Reached
<1>5. IsLoop(t)
  BY <1>1, <1>3, <1>4 DEF Migrated, IsLoop, Task
<1>6. Listed(agenda) = {x \in Slots : agenda.timed_tasks[x].on_use}
  BY InvSound DEF SaveInv, Reached
<1>7. QED
  BY <1>1, <1>2, <1>3, <1>5, <1>6 DEF OwnsLoop

(* A loop of the present firmware is left alone by the migration. *)
LEMMA LoopOwns ==
  ASSUME NEW t, t.on_use, IsLoop(t), NEW k, Covers(t.operation, k)
  PROVE  OwnsLoop(t, k)
BY DEF OwnsLoop, IsLoop, Migrated

(* A client adds a task to a free slot, which owns nothing. *)
LEMMA AddSaves ==
  ASSUME SaveInv, NEW r \in Requests, HttpAddTask(r)
  PROVE  SaveInv'
<1> DEFINE s == Least(FreeSlots(agenda))
           b == [agenda EXCEPT !.timed_tasks[s] = Encoded(r)]
<1>1. /\ phase = "run" /\ phase' = "run" /\ owner' = owner
      /\ agenda' = AddTask(b, s, now)
      /\ flash' = Image(agenda', out') /\ Valid(r) /\ FreeSlots(agenda) # {}
  BY DEF HttpAddTask
<1>2. /\ SoundList(agenda) /\ now \in Nat
      /\ Listed(agenda) = {x \in Slots : agenda.timed_tasks[x].on_use}
      /\ agenda.timed_tasks \in [Slots -> Task]
  BY <1>1, InvSound DEF SaveInv, Reached
<1>3. s \in FreeSlots(agenda)
  <2>1. FreeSlots(agenda) \in SUBSET Nat
    BY ConstantsAssumption DEF FreeSlots, Slots
  <2>2. QED
    BY <1>1, <2>1, LeastIsLeast
<1>4. s \in Slots /\ ~agenda.timed_tasks[s].on_use /\ s \notin Listed(agenda)
  BY <1>2, <1>3 DEF FreeSlots
<1> HIDE DEF s
<1>5. Encoded(r) \in Task /\ Encoded(r).kind # "oldloop"
  <2>1. Encoded(r) \in Task
    BY <1>1, EncodedType
  <2>2. Encoded(r).kind \in {"loop", "timed"}
    BY DEF Encoded, FreeTask
  <2>3. QED
    BY <2>1, <2>2
<1>6. /\ SoundList(b) /\ Listed(b) = Listed(agenda)
      /\ b.timed_tasks = [agenda.timed_tasks EXCEPT ![s] = Encoded(r)]
  BY <1>2, <1>4, <1>5, SlotOutsideList
<1> HIDE DEF b
<1>7. /\ Redated(b.timed_tasks[s], agenda'.timed_tasks[s], now)
      /\ \A x \in Slots : x # s => agenda'.timed_tasks[x] = b.timed_tasks[x]
  <2>1. SoundList(b) /\ s \notin Listed(b)
    BY <1>4, <1>6
  <2>2. QED
    BY <1>1, <1>2, <1>4, <2>1, AddTaskSound
<1>8. /\ b.timed_tasks[s] = Encoded(r)
      /\ \A x \in Slots : x # s => agenda'.timed_tasks[x] = agenda.timed_tasks[x]
  BY <1>2, <1>4, <1>6, <1>7
<1>9. agenda'.timed_tasks[s].kind # "oldloop"
  <2>1. Redated(Encoded(r), agenda'.timed_tasks[s], now)
    BY <1>7, <1>8
  <2>2. \A p \in Nat : [Encoded(r) EXCEPT !.prs_time = p].kind = Encoded(r).kind
    BY <1>5 DEF Task
  <2>3. QED
    BY <1>5, <2>1, <2>2 DEF Redated
<1>10. \A x \in Slots : agenda'.timed_tasks[x].on_use
                       => agenda'.timed_tasks[x].kind # "oldloop"
  BY <1>1, <1>8, <1>9 DEF SaveInv, Modern, Reached
<1>11. ASSUME NEW k \in Sockets, owner'[k] # NoTask
       PROVE  OwnsLoop(agenda'.timed_tasks[owner'[k]], k)
  <2>1. /\ owner[k] \in Slots /\ agenda.timed_tasks[owner[k]].on_use
        /\ IsLoop(agenda.timed_tasks[owner[k]])
        /\ Covers(agenda.timed_tasks[owner[k]].operation, k)
    BY <1>1, <1>11, OwnersRun
  <2>2. agenda'.timed_tasks[owner'[k]] = agenda.timed_tasks[owner[k]]
    BY <1>1, <1>4, <1>8, <2>1
  <2>3. QED
    BY <2>1, <2>2, LoopOwns
<1>12. Inv'
  BY HttpAddTaskStep DEF SaveInv
<1>13. QED
  BY <1>1, <1>10, <1>11, <1>12, SavedStep

(* A client removes tasks: what they owned is nobody's.                     *)
LEMMA ReleaseSaves ==
  ASSUME SaveInv, phase = "run", NEW R, R \subseteq Listed(agenda), Release(R)
  PROVE  SaveInv'
<1>1. /\ agenda' = Removed(agenda, R) /\ owner' = Disowned(owner, R)
      /\ flash' = Image(agenda', out') /\ phase' = "run"
  BY DEF Release
<1>2. \A s \in Slots :
        agenda'.timed_tasks[s] = IF s \in R THEN FreeTask ELSE agenda.timed_tasks[s]
  BY <1>1 DEF Removed
<1>3. \A s \in Slots : agenda'.timed_tasks[s].on_use => agenda'.timed_tasks[s].kind # "oldloop"
  BY <1>2, FreeTaskType DEF SaveInv, Modern, Reached
<1>4. ASSUME NEW k \in Sockets, owner'[k] # NoTask
      PROVE  OwnsLoop(agenda'.timed_tasks[owner'[k]], k)
  <2>1. owner'[k] = owner[k] /\ owner[k] \notin R /\ owner[k] # NoTask
    BY <1>1, <1>4 DEF Disowned
  <2>2. /\ owner[k] \in Slots /\ agenda.timed_tasks[owner[k]].on_use
        /\ IsLoop(agenda.timed_tasks[owner[k]])
        /\ Covers(agenda.timed_tasks[owner[k]].operation, k)
    BY <2>1, OwnersRun
  <2>3. agenda'.timed_tasks[owner'[k]] = agenda.timed_tasks[owner[k]]
    BY <1>2, <2>1, <2>2
  <2>4. QED
    BY <2>2, <2>3, LoopOwns
<1>5. Inv'
  BY ReleaseStep DEF SaveInv
<1>6. QED
  BY <1>1, <1>3, <1>4, <1>5, SavedStep

(* A loop that goes on is moved, never dropped.                             *)
LEMMA LoopMoves ==
  ASSUME Inv, ProcessLoopInWindow \/ ProcessLoopRearm
  PROVE  Moved(agenda, agenda', TopSlot)
<1>1. TopIsDue /\ Top \in Task /\ now \in Nat /\ agenda.task_top # <<>> /\ SoundList(agenda)
  BY TopFacts DEF ProcessLoopInWindow, ProcessLoopRearm, LoopDue
<1>2. ASSUME NEW next \in Nat, next > now, NEW on \in {-1, 0, 1},
             agenda' = RequeueFirstTask(agenda, next, on, now)
      PROVE  Moved(agenda, agenda', TopSlot)
  BY <1>1, <1>2, RequeueFirstTaskSound DEF TopSlot
<1>3. CASE ProcessLoopInWindow
  <2> DEFINE next == now + LoopDelay(Top)
             on   == IF Top.on >= 0 THEN 1 - Top.on ELSE Top.on
  <2>0. Top.on \in {-1, 0, 1}
    BY <1>1 DEF Task
  <2>1. next \in Nat /\ next > now /\ on \in {-1, 0, 1}
    BY <1>1, <2>0, DelayIsLater
  <2>2. agenda' = RequeueFirstTask(agenda, next, on, now)
    BY <1>3 DEF ProcessLoopInWindow
  <2>3. QED
    BY <1>2, <2>1, <2>2
<1>4. CASE ProcessLoopRearm
  <2> DEFINE mask == IF Top.dow # {} THEN Top.dow ELSE WeekDays
             next == FindNextMatchTime(mask, now, StartMinute(Top) * MINUTE, TRUE)
             on   == IF Top.on = -1 THEN -1 ELSE IF Top.start_on THEN 1 ELSE 0
  <2>1. next \in Nat /\ next > now
    BY <1>1, StartIsMinute, MatchIsLater
  <2>2. on \in {-1, 0, 1}
    OBVIOUS
  <2>3. agenda' = RequeueFirstTask(agenda, next, on, now)
    BY <1>4 DEF ProcessLoopRearm
  <2>4. QED
    BY <1>2, <2>1, <2>2, <2>3
<1>5. QED
  BY <1>3, <1>4

(* What the main loop does to the list with a due head.                     *)
HeadDone == Dropped(agenda, agenda', TopSlot) \/ Moved(agenda, agenda', TopSlot)

(* It leaves the other slots alone, and the head its kind and operation.    *)
LEMMA HeadKeeps ==
  ASSUME SaveInv, TopIsDue, HeadDone
  PROVE  /\ \A s \in Slots : agenda'.timed_tasks[s].on_use
                             => agenda'.timed_tasks[s].kind # "oldloop"
         /\ \A s \in Slots : s # TopSlot => agenda'.timed_tasks[s] = agenda.timed_tasks[s]
         /\ Moved(agenda, agenda', TopSlot) =>
              /\ agenda'.timed_tasks[TopSlot].on_use
              /\ agenda'.timed_tasks[TopSlot].kind = Top.kind
              /\ agenda'.timed_tasks[TopSlot].operation = Top.operation
<1>1. /\ phase = "run" /\ TopSlot \in Slots /\ TopSlot \in Listed(agenda)
      /\ agenda.timed_tasks \in [Slots -> Task]
  BY TopFacts DEF SaveInv
<1>2. Top.on_use
  BY <1>1, InvSound DEF SaveInv, Reached, Top
<1>3. \A s \in Slots : s # TopSlot => agenda'.timed_tasks[s] = agenda.timed_tasks[s]
  BY <1>1 DEF HeadDone, Dropped, Moved
<1>4. \A s \in Slots : agenda.timed_tasks[s].on_use => agenda.timed_tasks[s].kind # "oldloop"
  BY <1>1 DEF SaveInv, Modern, Reached
<1>5. \/ ~agenda'.timed_tasks[TopSlot].on_use
      \/ agenda'.timed_tasks[TopSlot].kind = agenda.timed_tasks[TopSlot].kind
  BY <1>1, FreeTaskType DEF HeadDone, Dropped, Moved
<1>6. QED
  BY <1>1, <1>2, <1>3, <1>4, <1>5 DEF Moved, Top

(* Whoever owned a socket and is not the head owns it still.                *)
LEMMA OtherOwnersStay ==
  ASSUME SaveInv, TopIsDue, HeadDone, NEW k \in Sockets, owner[k] # NoTask, owner[k] # TopSlot
  PROVE  OwnsLoop(agenda'.timed_tasks[owner[k]], k)
<1>1. phase = "run"
  BY DEF TopIsDue
<1>2. /\ owner[k] \in Slots /\ agenda.timed_tasks[owner[k]].on_use
      /\ IsLoop(agenda.timed_tasks[owner[k]])
      /\ Covers(agenda.timed_tasks[owner[k]].operation, k)
  BY <1>1, OwnersRun
<1>3. agenda'.timed_tasks[owner[k]] = agenda.timed_tasks[owner[k]]
  BY <1>2, HeadKeeps
<1>4. QED
  BY <1>2, <1>3, LoopOwns

(* The head owns a socket only as a loop of that socket.                    *)
LEMMA HeadOwns ==
  ASSUME SaveInv, TopIsDue, NEW k \in Sockets, owner[k] = TopSlot
  PROVE  IsLoop(Top) /\ Covers(Top.operation, k)
<1>1. phase = "run" /\ TopSlot \in Slots
  BY TopFacts DEF SaveInv, TopIsDue
<1>2. owner[k] # NoTask
  BY <1>1 DEF NoTask, Slots
<1>3. QED
  BY <1>1, <1>2, OwnersRun DEF Top

(* A system operation covers no socket.                                     *)
LEMMA SystemCoversNothing ==
  ASSUME NEW op \in SystemOperations, NEW k \in Sockets
  PROVE  ~Covers(op, k)
BY ConstantsAssumption DEF Covers, SystemOperations, Sockets, REBOOT_SYSTEM, CONFIG_WIFI,
   RESET_SYSTEM, SWITCH_ALL_SOCKETS

(* A loop that is out of its window leaves its sockets off.                 *)
LEMMA EndedLoopIsOff ==
  ASSUME NEW o, NEW op, NEW k \in Sockets, Covers(op, k), o \in Output
  PROVE  SwitchedOff(o, op).socket_status[k] = 0
<1>1. op \in Sockets \cup {SWITCH_ALL_SOCKETS}
  BY DEF Covers
<1>2. CASE op = k
  <2>1. op \in Sockets /\ op # SWITCH_ALL_SOCKETS /\ op # SWITCH_LED_ENABLE
        /\ op # SWITCH_CHILD_LOCK_ENABLE
    BY <1>2, ConstantsAssumption
       DEF Sockets, SWITCH_ALL_SOCKETS, SWITCH_LED_ENABLE, SWITCH_CHILD_LOCK_ENABLE
  <2>2. SwitchedOff(o, op) = UserRelaySet(o, op, 0)
    BY <2>1 DEF SwitchedOff, Executed
  <2>3. QED
    BY <1>2, <2>2 DEF UserRelaySet, Output
<1>3. CASE op # k
  <2>1. op = SWITCH_ALL_SOCKETS /\ op \notin Sockets /\ op # SWITCH_LED_ENABLE
        /\ op # SWITCH_CHILD_LOCK_ENABLE
    BY <1>3, ConstantsAssumption
       DEF Covers, Sockets, SWITCH_ALL_SOCKETS, SWITCH_LED_ENABLE, SWITCH_CHILD_LOCK_ENABLE
  <2>2. SwitchedOff(o, op) = UserRelaySetAll(o, 0)
    BY <2>1 DEF SwitchedOff, Executed
  <2>3. QED
    BY <2>2 DEF UserRelaySetAll, Output
<1>4. QED
  BY <1>2, <1>3

(* The main loop handles a task that is no loop and no system operation.    *)
LEMMA TimedSaves ==
  ASSUME SaveInv, ProcessTimed
  PROVE  SaveInv'
<1>1. /\ TopIsDue /\ ~IsLoop(Top) /\ phase' = "run" /\ phase = "run"
      /\ agenda' = DelFirstTask(agenda, now) /\ flash' = Image(agenda', out')
  BY DEF ProcessTimed, TopIsDue
<1>2. HeadDone
  BY <1>1, DelFirstHandles DEF SaveInv, HeadHandled, HeadDone
<1>3. ASSUME NEW k \in Sockets, owner'[k] # NoTask
      PROVE  OwnsLoop(agenda'.timed_tasks[owner'[k]], k)
  <2>1. owner'[k] = owner[k]
    BY <1>3 DEF ProcessTimed, OwnerAfter
  <2>2. owner[k] # TopSlot
    BY <1>1, HeadOwns
  <2>3. QED
    BY <1>1, <1>2, <1>3, <2>1, <2>2, OtherOwnersStay
<1>4. Inv'
  BY ProcessTaskStep DEF SaveInv, ProcessTask
<1>5. QED
  BY <1>1, <1>2, <1>3, <1>4, HeadKeeps, SavedStep

(* It switches for a loop, or switches a loop off until its next window.    *)
LEMMA LoopSaves ==
  ASSUME SaveInv, ProcessLoopInWindow \/ ProcessLoopRearm
  PROVE  SaveInv'
<1>1. /\ TopIsDue /\ IsLoop(Top) /\ phase' = "run" /\ phase = "run"
      /\ flash' = Image(agenda', out') /\ OwnerAfter(Top.operation, TopSlot)
  BY DEF ProcessLoopInWindow, ProcessLoopRearm, LoopDue, TopIsDue
<1>2. Moved(agenda, agenda', TopSlot)
  BY LoopMoves DEF SaveInv
<1>3. ASSUME NEW k \in Sockets, owner'[k] # NoTask
      PROVE  OwnsLoop(agenda'.timed_tasks[owner'[k]], k)
  <2>1. CASE owner'[k] = owner[k] /\ owner[k] # TopSlot
    BY <1>1, <1>2, <1>3, <2>1, OtherOwnersStay DEF HeadDone
  <2>2. CASE owner'[k] = TopSlot
    <3>1. Covers(Top.operation, k)
      BY <1>1, <2>2, HeadOwns DEF OwnerAfter
    <3>2. /\ agenda'.timed_tasks[TopSlot].on_use
          /\ agenda'.timed_tasks[TopSlot].kind = Top.kind
          /\ agenda'.timed_tasks[TopSlot].operation = Top.operation
      BY <1>1, <1>2, HeadKeeps DEF HeadDone
    <3>3. QED
      BY <1>1, <2>2, <3>1, <3>2, LoopOwns DEF IsLoop
  <2>3. QED
    BY <1>1, <1>3, <2>1, <2>2 DEF OwnerAfter
<1>4. Inv'
  BY ProcessTaskStep DEF SaveInv, ProcessTask
<1>5. QED
  BY <1>1, <1>2, <1>3, <1>4, HeadKeeps, SavedStep DEF HeadDone

(* It ends a loop, whose sockets are off then.                              *)
LEMMA LoopEndSaves ==
  ASSUME SaveInv, ProcessLoopEnd
  PROVE  SaveInv'
<1>1. /\ TopIsDue /\ phase' = "run" /\ phase = "run"
      /\ agenda' = DelFirstTask(agenda, now) /\ flash' = Image(agenda', out')
      /\ OwnerAfter(Top.operation, TopSlot)
      /\ out' = SwitchedOff(Executed(out, Top.operation, Top.on), Top.operation)
  BY DEF ProcessLoopEnd, LoopDue, TopIsDue
<1>2. HeadDone
  BY <1>1, DelFirstHandles DEF SaveInv, HeadHandled, HeadDone
<1>3. Executed(out, Top.operation, Top.on) \in Output
  <2>1. Top \in Task /\ out \in Output
    BY <1>1, TopFacts DEF SaveInv, Inv, TypeOK
  <2>2. QED
    BY <2>1, ExecutedType DEF Task
<1>4. ASSUME NEW k \in Sockets, owner'[k] # NoTask
      PROVE  OwnsLoop(agenda'.timed_tasks[owner'[k]], k)
  <2>1. ~Covers(Top.operation, k)
    <3>1. Covers(Top.operation, k) => out'.socket_status[k] = 0
      BY <1>1, <1>3, EndedLoopIsOff
    <3>2. QED
      BY <1>1, <1>4, <3>1 DEF OwnerAfter
  <2>2. owner'[k] = owner[k]
    BY <1>1, <2>1 DEF OwnerAfter
  <2>3. owner[k] # TopSlot
    BY <1>1, <2>1, HeadOwns
  <2>4. QED
    BY <1>1, <1>2, <1>4, <2>2, <2>3, OtherOwnersStay
<1>5. Inv'
  BY ProcessTaskStep DEF SaveInv, ProcessTask
<1>6. QED
  BY <1>1, <1>2, <1>4, <1>5, HeadKeeps, SavedStep

(* It executes a system operation, which owns no socket.                    *)
LEMMA SystemSaves ==
  ASSUME SaveInv, ProcessReboot \/ ProcessConfigWifi
  PROVE  SaveInv'
<1>1. /\ TopIsDue /\ phase' \in {"off", "run"} /\ phase = "run" /\ owner' = owner
      /\ Top.operation \in SystemOperations
      /\ agenda' = DelFirstTask(agenda, now) /\ flash' = Image(agenda', out')
  BY DEF ProcessReboot, ProcessConfigWifi, TopIsDue, SystemOperations
<1>2. HeadDone
  BY <1>1, DelFirstHandles DEF SaveInv, HeadHandled, HeadDone
<1>3. ASSUME NEW k \in Sockets, owner'[k] # NoTask
      PROVE  OwnsLoop(agenda'.timed_tasks[owner'[k]], k)
  <2>1. owner[k] # TopSlot
    BY <1>1, HeadOwns, SystemCoversNothing
  <2>2. QED
    BY <1>1, <1>2, <1>3, <2>1, OtherOwnersStay
<1>4. Inv'
  BY ProcessTaskStep DEF SaveInv, ProcessTask
<1>5. QED
  BY <1>1, <1>2, <1>3, <1>4, HeadKeeps, SavedStep

(* The factory reset forgets everything.                                    *)
LEMMA ResetSaves ==
  ASSUME SaveInv, ProcessReset
  PROVE  SaveInv'
<1>1. /\ phase' = "off" /\ agenda' = EmptyAgenda /\ flash' = Image(agenda', out')
      /\ owner' = [k \in Sockets |-> NoTask]
  BY DEF ProcessReset
<1>2. \A s \in Slots : ~agenda'.timed_tasks[s].on_use
  BY <1>1, FreeTaskType DEF EmptyAgenda
<1>3. Inv'
  BY ProcessTaskStep DEF SaveInv, ProcessTask
<1>4. QED
  BY <1>1, <1>2, <1>3, SavedStep

(* The power fails between the two saves: the outputs are saved, the task   *)
(* is in the flash as it was, and the boot will find it.                    *)
LEMMA CutDuringTaskSaves ==
  ASSUME SaveInv, PowerCutDuringTask
  PROVE  SaveInv'
<1>1. /\ TopIsDue /\ phase' = "off" /\ phase = "run" /\ agenda' = agenda
      /\ flash' = Image(agenda', out')
      /\ OwnerAfter(Top.operation, IF IsLoop(Top) THEN TopSlot ELSE NoTask)
  BY DEF PowerCutDuringTask, TopIsDue
<1>2. TopSlot \in Slots /\ Top.on_use
  BY <1>1, TopFacts, InvSound DEF SaveInv, Reached, Top
<1>3. ASSUME NEW k \in Sockets, owner'[k] # NoTask
      PROVE  OwnsLoop(agenda'.timed_tasks[owner'[k]], k)
  <2>1. CASE Covers(Top.operation, k)
    <3>1. IsLoop(Top) /\ owner'[k] = TopSlot
      BY <1>1, <1>3, <2>1 DEF OwnerAfter
    <3>2. QED
      BY <1>1, <1>2, <2>1, <3>1, LoopOwns DEF Top
  <2>2. CASE ~Covers(Top.operation, k)
    <3>1. owner'[k] = owner[k]
      BY <1>1, <2>2 DEF OwnerAfter
    <3>2. QED
      BY <1>1, <1>3, <3>1, OwnersRun, LoopOwns
  <2>3. QED
    BY <2>1, <2>2
<1>4. \A s \in Slots : agenda'.timed_tasks[s].on_use => agenda'.timed_tasks[s].kind # "oldloop"
  BY <1>1 DEF SaveInv, Modern, Reached
<1>5. Inv'
  BY OtherSteps DEF SaveInv
<1>6. QED
  BY <1>1, <1>3, <1>4, <1>5, SavedStep

(* Rebuilding changes the encoding of a task and its date, not the task.    *)
LEMMA RebuiltSame ==
  ASSUME NEW a, SoundList(a), NEW s \in Slots, s \notin Listed(a), NEW t \in Nat
  PROVE  LET u == a.timed_tasks[s]
             v == Rebuilt(a, s, t).timed_tasks[s]
         IN  SameTask(u, v) /\ v.kind # "oldloop"
<1> DEFINE u == a.timed_tasks[s]
           m == Migrated(u)
           c == [a EXCEPT !.timed_tasks[s] = m]
           v == Rebuilt(a, s, t).timed_tasks[s]
<1>1. a.timed_tasks \in [Slots -> Task] /\ u \in Task /\ a \in Agenda
  BY DEF SoundList, Agenda
<1>2. m \in Task
  BY <1>1, MigratedType
<1>3. \/ Rebuilt(a, s, t) = AddTask(c, s, t)
      \/ Rebuilt(a, s, t) = AddTaskSingle(c, s)
  BY DEF Rebuilt
<1> HIDE DEF m
<1>4. /\ SoundList(c) /\ s \notin Listed(c) /\ c.timed_tasks[s] = m
  <2>1. /\ SoundList(c) /\ Listed(c) = Listed(a)
        /\ c.timed_tasks = [a.timed_tasks EXCEPT ![s] = m]
    BY <1>2, SlotOutsideList
  <2> HIDE DEF c
  <2>2. QED
    BY <1>1, <2>1
<1> HIDE DEF c
<1>5. v = m \/ Redated(m, v, t)
  BY <1>3, <1>4, AddTaskSound, AddTaskSingleSound
<1> HIDE DEF v, u
<1>6. v = m \/ \E p \in Nat : /\ ~IsLoop(m) /\ ~IsOnce(m)
                              /\ m.days # {} => TimeOfDay(p) = TimeOfDay(m.prs_time)
                              /\ v = [m EXCEPT !.prs_time = p]
  BY <1>5 DEF Redated
<1>7. /\ m.on_use = u.on_use /\ m.operation = u.operation /\ m.on = u.on
      /\ m.prs_time = u.prs_time /\ m.kind # "oldloop"
      /\ m.kind = "loop" <=> u.kind \in {"loop", "oldloop"}
      /\ IsOnce(u) => m = u
      /\ u.days # {} /\ u.kind = "timed" => m.days # {}
  BY <1>1 DEF m, Migrated, Task, IsOnce, WeekDays
<1>8. \A x \in Task : x.kind = m.kind /\ x.days = m.days /\ x.mark = m.mark
                       /\ x.operation = m.operation
                       /\ (m.days # {} => TimeOfDay(x.prs_time) = TimeOfDay(m.prs_time))
                       => Migrated(x).kind = m.kind /\ Migrated(x).days = m.days
  BY <1>1 DEF m, Migrated, Task, WeekDays
<1>9. SameTask(u, m)
  <2>1. Migrated(m).kind = m.kind /\ Migrated(m).days = m.days
    BY <1>2, <1>8
  <2>2. Migrated(u).kind = m.kind /\ Migrated(u).days = m.days
    BY DEF m
  <2>3. QED
    BY <1>7, <2>1, <2>2 DEF SameTask
<1>10. ASSUME NEW p \in Nat, ~IsLoop(m), ~IsOnce(m), v = [m EXCEPT !.prs_time = p],
              m.days # {} => TimeOfDay(p) = TimeOfDay(m.prs_time)
       PROVE  SameTask(u, v) /\ v.kind # "oldloop"
  <2>1. /\ v \in Task /\ v.kind = m.kind /\ v.days = m.days /\ v.mark = m.mark
        /\ v.operation = m.operation /\ v.on = m.on /\ v.on_use = m.on_use /\ v.prs_time = p
    BY <1>2, <1>10 DEF Task
  <2>2. Migrated(v).kind = m.kind /\ Migrated(v).days = m.days
    BY <1>8, <1>10, <2>1
  <2>3. ~IsOnce(u) /\ ~IsLoop(Migrated(u))
    BY <1>7, <1>10 DEF m
  <2>4. u.kind = "timed"
    BY <1>1, <1>7, <1>10 DEF IsLoop, Task
  <2>5. TimeOfDay(u.prs_time) = TimeOfDay(v.prs_time) \/ u.days = {}
    BY <1>7, <1>10, <2>1, <2>4
  <2>6. QED
    BY <1>7, <2>1, <2>2, <2>3, <2>5 DEF SameTask, m
<1>11. SameTask(u, v) /\ v.kind # "oldloop"
  <2>1. CASE v = m
    BY <1>7, <1>9, <2>1
  <2>2. CASE v # m
    <3>1. PICK p \in Nat : /\ ~IsLoop(m) /\ ~IsOnce(m)
                           /\ m.days # {} => TimeOfDay(p) = TimeOfDay(m.prs_time)
                           /\ v = [m EXCEPT !.prs_time = p]
      BY <1>6, <2>2
    <3>2. QED
      BY <1>10, <3>1
  <2>3. QED
    BY <2>1, <2>2
<1>12. QED
  BY <1>11 DEF u, v

(* The boot takes what the flash holds, and goes through it slot by slot.   *)
LEMMA PowerOnSaves ==
  ASSUME SaveInv, PowerOn
  PROVE  SaveInv'
<1>1. /\ phase' = "boot" /\ boot_i' = 0 /\ out' = flash.out /\ flash' = flash
      /\ agenda'.timed_tasks = flash.timed_tasks /\ owner' = owner
  BY DEF PowerOn
<1>2. Saved'
  BY <1>1, SameAsItself DEF Saved
<1>3. Modern'
  BY <1>1 DEF Modern, Reached, Slots
<1>4. Owned'
  BY <1>1 DEF SaveInv, Owned
<1>5. Inv'
  BY PowerOnStep DEF SaveInv
<1>6. QED
  BY <1>2, <1>3, <1>4, <1>5 DEF SaveInv

(* Hooking a saved slot in again keeps it the task the flash holds.         *)
LEMMA RebuildSaves ==
  ASSUME SaveInv, RebuildTaskList
  PROVE  SaveInv'
<1>1. /\ phase = "boot" /\ boot_i' = boot_i + 1 /\ boot_i < MAX_TASK_NUM
      /\ phase' = IF boot_i' = MAX_TASK_NUM THEN "run" ELSE "boot"
      /\ out' = out /\ flash' = flash /\ owner' = owner
  BY DEF RebuildTaskList
<1>2. boot_i \in Slots /\ boot_i \in Nat /\ MAX_TASK_NUM \in Nat
  BY <1>1, ConstantsAssumption DEF SaveInv, Inv, TypeOK, Slots
<1>3. /\ SoundList(agenda) /\ now \in Nat
      /\ Listed(agenda) = {s \in Slots : agenda.timed_tasks[s].on_use /\ s < boot_i}
  BY <1>1, InvSound DEF SaveInv, Reached
<1>4. boot_i \notin Listed(agenda)
  BY <1>2, <1>3
<1>5. /\ \A s \in Slots : s # boot_i => agenda'.timed_tasks[s] = agenda.timed_tasks[s]
      /\ SameTask(agenda.timed_tasks[boot_i], agenda'.timed_tasks[boot_i])
      /\ agenda'.timed_tasks[boot_i].on_use => agenda'.timed_tasks[boot_i].kind # "oldloop"
  <2>1. CASE agenda.timed_tasks[boot_i].on_use
    <3>1. agenda' = Rebuilt(agenda, boot_i, now)
      BY <2>1 DEF RebuildTaskList
    <3>2. \A r \in Slots : r # boot_i => agenda'.timed_tasks[r] = agenda.timed_tasks[r]
      BY <1>2, <1>3, <1>4, <2>1, <3>1, RebuiltSound
    <3>3. QED
      BY <1>2, <1>3, <1>4, <3>1, <3>2, RebuiltSame
  <2>2. CASE ~agenda.timed_tasks[boot_i].on_use
    <3>1. agenda' = agenda
      BY <2>2 DEF RebuildTaskList
    <3>2. QED
      BY <2>2, <3>1, SameAsItself
  <2>3. QED
    BY <2>1, <2>2
<1>6. Saved'
  <2>1. \A s \in Slots : SameTask(flash.timed_tasks[s], agenda'.timed_tasks[s])
    <3>1. agenda.timed_tasks[boot_i] = flash.timed_tasks[boot_i]
      BY <1>1, <1>2 DEF SaveInv, Saved
    <3>2. QED
      BY <1>1, <1>2, <1>5, <3>1 DEF SaveInv, Saved
  <2>2. \A s \in Slots : s >= boot_i' => agenda'.timed_tasks[s] = flash.timed_tasks[s]
    BY <1>1, <1>2, <1>5 DEF SaveInv, Saved, Slots
  <2>3. QED
    BY <1>1, <2>1, <2>2 DEF SaveInv, Saved
<1>7. Modern'
  <2>1. \A s \in Slots : Reached(s)' => s < boot_i \/ s = boot_i
    BY <1>1, <1>2 DEF Reached, Slots
  <2>2. \A s \in Slots : s < boot_i /\ agenda.timed_tasks[s].on_use
                          => agenda.timed_tasks[s].kind # "oldloop"
    BY <1>1 DEF SaveInv, Modern, Reached
  <2>3. QED
    BY <1>5, <2>1, <2>2 DEF Modern
<1>8. Owned'
  BY <1>1 DEF SaveInv, Owned
<1>9. Inv'
  BY RebuildTaskListStep DEF SaveInv
<1>10. QED
  BY <1>6, <1>7, <1>8, <1>9 DEF SaveInv

(* Time passes, the clock is set, or the power fails between two handlers.  *)
LEMMA OtherSaves ==
  ASSUME SaveInv, PowerCut \/ Tick \/ SntpSync
  PROVE  SaveInv'
<1>1. /\ agenda' = agenda /\ out' = out /\ flash' = flash /\ boot_i' = boot_i
      /\ owner' = owner /\ (phase' = phase \/ phase' = "off")
  BY DEF PowerCut, Tick, SntpSync
<1>2. Saved' /\ Modern' /\ Owned'
  BY <1>1 DEF SaveInv, Saved, Modern, Owned, Reached
<1>3. Inv'
  BY OtherSteps DEF SaveInv
<1>4. QED
  BY <1>2, <1>3 DEF SaveInv

(* Before the first power-on nobody owns a socket. *)
LEMMA SaveInit == Init => SaveInv
<1> SUFFICES ASSUME Init PROVE SaveInv
  OBVIOUS
<1>1. Owned
  BY DEF Init, Owned
<1>2. QED
  BY <1>1, InvInit DEF SaveInv, Saved, Modern, Init

(* Every step keeps flash and memory together. *)
LEMMA SaveStep == SaveInv /\ [Next]_vars => SaveInv'
<1> SUFFICES ASSUME SaveInv, [Next]_vars PROVE SaveInv'
  OBVIOUS
<1>1. ASSUME NEW r \in Requests, HttpAddTask(r) PROVE SaveInv'
  BY <1>1, AddSaves
<1>2. ASSUME NEW s \in Slots, HttpDelTask(s) PROVE SaveInv'
  BY <1>2, ReleaseSaves DEF HttpDelTask
<1>3. CASE HttpClearTasks
  BY <1>3, ReleaseSaves DEF HttpClearTasks
<1>4. CASE HttpClearLoopTasks
  BY <1>4, ReleaseSaves DEF HttpClearLoopTasks
<1>5. CASE HttpClearScheduledTasks
  BY <1>5, ReleaseSaves DEF HttpClearScheduledTasks
<1>6. CASE ProcessTask
  BY <1>6, TimedSaves, LoopSaves, LoopEndSaves, SystemSaves, ResetSaves DEF ProcessTask
<1>7. CASE PowerCut \/ Tick \/ SntpSync
  BY <1>7, OtherSaves
<1>8. CASE PowerCutDuringTask
  BY <1>8, CutDuringTaskSaves
<1>9. CASE PowerOn
  BY <1>9, PowerOnSaves
<1>10. CASE RebuildTaskList
  BY <1>10, RebuildSaves
<1>11. CASE UNCHANGED vars
  <2>1. Inv'
    BY <1>11, InvStep DEF SaveInv
  <2>2. QED
    BY <1>11, <2>1 DEF vars, SaveInv, Saved, Modern, Owned, Reached
<1>12. QED
  BY <1>1, <1>2, <1>3, <1>4, <1>5, <1>6, <1>7, <1>8, <1>9, <1>10, <1>11 DEF Next

(* The invariant of the saves holds always. *)
THEOREM SaveInvariance == Spec => []SaveInv
<1>1. SaveInv /\ [Next]_vars => SaveInv'
  BY SaveStep
<1>2. QED
  BY <1>1, SaveInit, PTL DEF Spec

(* A power cut costs no task a client was told about and brings none back:  *)
(* flash and array hold the same tasks whenever the main loop runs.         *)
THEOREM FlashKeepsUp == Spec => []FlashCurrent
<1>1. SaveInv => FlashCurrent
  BY DEF SaveInv, Saved, FlashCurrent
<1>2. QED
  BY <1>1, SaveInvariance, PTL

(* A socket a loop has switched on still has that loop in the list, across  *)
(* removals, expiries, power cuts and reboots.                              *)
THEOREM LoopStaysScheduled == Spec => []LoopStillScheduled
<1>1. SaveInv => LoopStillScheduled
  BY OwnersRun DEF LoopStillScheduled
<1>2. QED
  BY <1>1, SaveInvariance, PTL

-----------------------------------------------------------------------------
(* What leaves the list. *)

(* DelFirstTask drops a loop or a one-shot task only. *)
LEMMA DropsLoopOrOnce ==
  ASSUME Inv, TopIsDue, agenda' = DelFirstTask(agenda, now)
  PROVE  \/ Listed(agenda') = Listed(agenda)
         \/ (IsLoop(Top) \/ IsOnce(Top)) /\ Listed(agenda') = Listed(agenda) \ {TopSlot}
<1>1. agenda.task_top # <<>> /\ SoundList(agenda) /\ now \in Nat
  BY TopFacts
<1>2. QED
  BY <1>1, DelFirstTaskSound DEF Dropped, Moved, TopSlot, Top

(* An added task pushes none out.                                           *)
LEMMA AddKeepsList ==
  ASSUME Inv, NEW r \in Requests, HttpAddTask(r)
  PROVE  Listed(agenda) \subseteq Listed(agenda')
<1> DEFINE s == Least(FreeSlots(agenda))
           b == [agenda EXCEPT !.timed_tasks[s] = Encoded(r)]
<1>1. /\ phase = "run" /\ agenda' = AddTask(b, s, now)
      /\ Valid(r) /\ FreeSlots(agenda) # {}
  BY DEF HttpAddTask
<1>2. /\ SoundList(agenda) /\ now \in Nat
      /\ Listed(agenda) = {x \in Slots : agenda.timed_tasks[x].on_use}
  BY <1>1, InvSound DEF Reached
<1>3. s \in FreeSlots(agenda)
  <2>1. FreeSlots(agenda) \in SUBSET Nat
    BY ConstantsAssumption DEF FreeSlots, Slots
  <2>2. QED
    BY <1>1, <2>1, LeastIsLeast
<1>4. s \in Slots /\ s \notin Listed(agenda)
  BY <1>2, <1>3 DEF FreeSlots
<1> HIDE DEF s
<1>5. Encoded(r) \in Task
  BY <1>1, EncodedType
<1>6. SoundList(b) /\ Listed(b) = Listed(agenda)
  BY <1>2, <1>4, <1>5, SlotOutsideList
<1> HIDE DEF b
<1>7. QED
  BY <1>1, <1>2, <1>4, <1>6, AddTaskSound

(* A task leaves the list only when a client removes it, as a one-shot task *)
(* that has run, or as a loop whose window is over for good.                *)
THEOREM TasksStay == Spec => NoTaskLost
<1> DEFINE Why(s) ==
             \/ phase' # "run" \/ phase # "run"
             \/ RemovedByClient
             \/ s = TopSlot /\ now >= Top.prs_time
                  /\ \/ IsOnce(Top)
                     \/ Top.operation \in SystemOperations /\ IsLoop(Top)
                     \/ IsLoop(Top) /\ ~TopInWindow /\ ~Repeats(Top)
           A == \A s \in Listed(agenda) \ Listed(agenda') : Why(s)
<1>1. Inv /\ [Next]_vars => [A]_vars
  <2> SUFFICES ASSUME Inv, Next, phase = "run", phase' = "run", ~RemovedByClient,
                      NEW s \in Listed(agenda), s \notin Listed(agenda')
               PROVE  Why(s)
    OBVIOUS
  <2>1. ASSUME NEW r \in Requests, HttpAddTask(r) PROVE FALSE
    BY <2>1, AddKeepsList
  <2>2. CASE ProcessTask
    <3>1. TopIsDue /\ now >= Top.prs_time
      BY <2>2 DEF ProcessTask, ProcessTimed, ProcessLoopInWindow, ProcessLoopRearm,
           ProcessLoopEnd, LoopDue, ProcessReboot, ProcessConfigWifi, ProcessReset, TopIsDue
    <3>2. CASE ProcessLoopInWindow \/ ProcessLoopRearm
      BY <3>2, LoopMoves DEF Moved
    <3>3. CASE ProcessTimed \/ ProcessLoopEnd \/ ProcessConfigWifi
      <4>1. agenda' = DelFirstTask(agenda, now)
        BY <3>3 DEF ProcessTimed, ProcessLoopEnd, ProcessConfigWifi
      <4>2. (IsLoop(Top) \/ IsOnce(Top)) /\ s = TopSlot
        BY <3>1, <4>1, DropsLoopOrOnce
      <4>3. QED
        BY <3>1, <3>3, <4>2
           DEF ProcessTimed, ProcessLoopEnd, ProcessConfigWifi, SystemOperations
    <3>4. CASE ProcessReboot \/ ProcessReset
      BY <3>4 DEF ProcessReboot, ProcessReset
    <3>5. QED
      BY <2>2, <3>2, <3>3, <3>4 DEF ProcessTask
  <2>3. CASE PowerCut \/ PowerCutDuringTask \/ PowerOn \/ RebuildTaskList
    BY <2>3 DEF PowerCut, PowerCutDuringTask, PowerOn, RebuildTaskList
  <2>4. CASE Tick \/ SntpSync
    BY <2>4 DEF Tick, SntpSync
  <2>5. QED
    BY <2>1, <2>2, <2>3, <2>4 DEF Next, RemovedByClient
<1>2. Spec => [][A]_vars
  BY <1>1, Invariance, PTL DEF Spec
<1>3. QED
  BY <1>2 DEF NoTaskLost
=============================================================================
