--------------------------- MODULE AnnotationProofs ---------------------------
(***************************************************************************)
(* What a page shows, marks, stores and lets out is sound, for any number of *)
(* pages, requests, sheets and faults and whatever is planted or given: from *)
(* the inductive invariant of AnnotationInvariant.                          *)
(***************************************************************************)
EXTENDS AnnotationInvariant, FiniteSetTheorems, TLAPS

\* How many of the positions come no later than i.
Rank(P, i) == Cardinality({j \in P : j <= i})

\* Counting from the front numbers the positions in their order.
LEMMA Ranked ==
  ASSUME NEW N \in Nat, NEW P \in SUBSET (1..N)
  PROVE  /\ IsFiniteSet(P) /\ Cardinality(P) \in Nat /\ Cardinality(P) <= N
         /\ \A i \in P : Rank(P, i) \in 1..Cardinality(P)
         /\ \A i, k \in P : i < k => Rank(P, i) < Rank(P, k)
         /\ \A n \in 1..Cardinality(P) : \E i \in P : Rank(P, i) = n
<1>1. IsFiniteSet(1..N) /\ Cardinality(1..N) = N
  BY FS_Interval
<1>2. IsFiniteSet(P) /\ Cardinality(P) \in Nat /\ Cardinality(P) <= N
  BY <1>1, FS_Subset, FS_CardinalityType
<1> DEFINE Upto(i) == {j \in P : j <= i}
<1>3. \A i \in P : /\ IsFiniteSet(Upto(i)) /\ Cardinality(Upto(i)) \in Nat
                   /\ Cardinality(Upto(i)) <= Cardinality(P)
                   /\ Cardinality(Upto(i)) # 0
  <2> TAKE i \in P
  <2>1. Upto(i) \in SUBSET P
    OBVIOUS
  <2>2. /\ IsFiniteSet(Upto(i)) /\ Cardinality(Upto(i)) <= Cardinality(P)
    BY <1>2, <2>1, FS_Subset
  <2>3. i \in Upto(i)
    OBVIOUS
  <2>4. Cardinality(Upto(i)) # 0
    BY <2>2, <2>3, FS_EmptySet
  <2> QED  BY <2>2, <2>4, FS_CardinalityType
<1>4. \A i \in P : Rank(P, i) = Cardinality(Upto(i))
  BY DEF Rank
<1>5. \A i \in P : Rank(P, i) \in 1..Cardinality(P)
  <2> HIDE DEF Upto
  <2> QED  BY <1>2, <1>3, <1>4
<1>6. ASSUME NEW i \in P, NEW k \in P, i < k
      PROVE  Rank(P, i) < Rank(P, k)
  <2>1. \A j \in P : j \in Nat
    OBVIOUS
  <2>2. \A j \in P : j <= i => j <= k
    BY <1>6, <2>1
  <2>3. Upto(i) \in SUBSET Upto(k)
    BY <2>2
  <2>4. k \in Upto(k) /\ k \notin Upto(i)
    BY <1>6, <2>1
  <2> HIDE DEF Upto
  <2>5. /\ Cardinality(Upto(i)) <= Cardinality(Upto(k))
        /\ Cardinality(Upto(i)) # Cardinality(Upto(k))
    BY <1>3, <2>3, <2>4, FS_Subset
  <2> QED  BY <1>3, <1>4, <2>5
<1> DEFINE rank == [i \in P |-> Rank(P, i)]
<1>7. rank \in Injection(P, 1..Cardinality(P))
  <2>1. ASSUME NEW i \in P, NEW k \in P, Rank(P, i) = Rank(P, k)
        PROVE  i = k
    <3>1. Rank(P, i) \in Nat
      BY <1>2, <1>5
    <3>2. i < k \/ k < i \/ i = k
      OBVIOUS
    <3> QED  BY <1>6, <2>1, <3>1, <3>2
  <2>2. rank \in [P -> 1..Cardinality(P)]
    BY <1>5
  <2> QED  BY <2>1, <2>2 DEF Injection, IsInjective
<1>8. rank \in Surjection(P, 1..Cardinality(P))
  <2>1. IsFiniteSet(1..Cardinality(P)) /\ Cardinality(1..Cardinality(P)) = Cardinality(P)
    BY <1>2, FS_Interval
  <2> HIDE DEF rank
  <2> QED  BY <1>7, <2>1, FS_Injection
<1>9. \A n \in 1..Cardinality(P) : \E i \in P : Rank(P, i) = n
  BY <1>8 DEF Surjection
<1> QED  BY <1>2, <1>5, <1>6, <1>9

\* The entries at some positions: each of them once, and in the order of the list.
LEMMA EntriesAtAre ==
  ASSUME NEW S, NEW list \in Seq(S), NEW P \in SUBSET (DOMAIN list)
  PROVE  /\ EntriesAt(list, P) \in Seq(S)
         /\ Len(EntriesAt(list, P)) <= Len(list)
         /\ \E f \in [DOMAIN EntriesAt(list, P) -> P] :
              /\ \A n \in DOMAIN EntriesAt(list, P) : EntriesAt(list, P)[n] = list[f[n]]
              /\ \A m, n \in DOMAIN EntriesAt(list, P) : m < n => f[m] < f[n]
              /\ \A i \in P : \E n \in DOMAIN EntriesAt(list, P) : f[n] = i
<1> DEFINE E == EntriesAt(list, P)
           N == Cardinality(P)
<1>1. CASE P = DOMAIN list
  <2>1. E = list
    BY <1>1 DEF EntriesAt
  <2> DEFINE f == [i \in P |-> i]
  <2>2. /\ f \in [DOMAIN list -> P]
        /\ \A n \in DOMAIN list : list[n] = list[f[n]]
        /\ \A m, n \in DOMAIN list : m < n => f[m] < f[n]
        /\ \A i \in P : \E n \in DOMAIN list : f[n] = i
    BY <1>1
  <2> HIDE DEF f
  <2> QED  BY <2>1, <2>2
<1>2. CASE P # DOMAIN list
  <2> DEFINE nth(n) == CHOOSE i \in P : Rank(P, i) = n
  <2>1. E = [n \in 1..N |-> list[nth(n)]]
    BY <1>2 DEF EntriesAt, Rank
  <2>2. Len(list) \in Nat /\ P \in SUBSET (1..Len(list))
    OBVIOUS
  <2>3. /\ N \in Nat /\ N <= Len(list)
        /\ \A i \in P : Rank(P, i) \in 1..N
        /\ \A i, k \in P : i < k => Rank(P, i) < Rank(P, k)
        /\ \A n \in 1..N : \E i \in P : Rank(P, i) = n
    BY <2>2, Ranked
  <2>4. \A n \in 1..N : nth(n) \in P /\ Rank(P, nth(n)) = n
    BY <2>3
  <2> HIDE DEF nth, N
  <2>5. E \in Seq(S) /\ Len(E) = N /\ DOMAIN E = 1..N
    <3>1. \A n \in 1..N : list[nth(n)] \in S
      BY <2>4
    <3> HIDE DEF E
    <3> QED  BY <2>1, <2>3, <3>1
  <2> HIDE DEF E
  <2> DEFINE f == [n \in 1..N |-> nth(n)]
  <2>6. f \in [DOMAIN E -> P] /\ \A n \in 1..N : f[n] = nth(n)
    BY <2>4, <2>5
  <2>7. \A n \in DOMAIN E : E[n] = list[f[n]]
    BY <2>1, <2>5
  <2> HIDE DEF f
  <2>8. \A i \in P : i \in Nat
    BY <2>2
  <2>9. ASSUME NEW m \in DOMAIN E, NEW n \in DOMAIN E, m < n
        PROVE  f[m] < f[n]
    <3>1. /\ Rank(P, f[m]) = m /\ Rank(P, f[n]) = n /\ f[m] \in P /\ f[n] \in P
          /\ m \in Nat /\ n \in Nat
      BY <2>3, <2>4, <2>5, <2>6
    <3>2. f[m] < f[n] \/ f[m] = f[n] \/ f[n] < f[m]
      BY <2>8, <3>1
    <3>3. f[n] < f[m] => n < m
      BY <2>3, <3>1
    <3> QED  BY <2>9, <3>1, <3>2, <3>3
  <2>10. ASSUME NEW i \in P
         PROVE  \E n \in DOMAIN E : f[n] = i
    <3> DEFINE n == Rank(P, i)
    <3>1. n \in 1..N /\ n \in DOMAIN E /\ n \in Nat
      BY <2>3, <2>5
    <3>2. f[n] \in P /\ Rank(P, f[n]) = n
      BY <2>4, <2>6, <3>1
    <3>3. f[n] < i \/ f[n] = i \/ i < f[n]
      BY <2>8, <3>2
    <3>4. (f[n] < i => Rank(P, f[n]) < n) /\ (i < f[n] => n < Rank(P, f[n]))
      BY <2>3, <3>2
    <3> HIDE DEF n
    <3>5. f[n] = i
      BY <3>1, <3>2, <3>3, <3>4
    <3> QED  BY <3>1, <3>5
  <2>11. Len(E) <= Len(list)
    BY <2>3, <2>5
  <2>12. \E g \in [DOMAIN E -> P] :
           /\ \A n \in DOMAIN E : E[n] = list[g[n]]
           /\ \A m, n \in DOMAIN E : m < n => g[m] < g[n]
           /\ \A i \in P : \E n \in DOMAIN E : g[n] = i
    BY <2>6, <2>7, <2>9, <2>10
  <2> QED  BY <2>5, <2>11, <2>12 DEF E
<1> QED  BY <1>1, <1>2

LEMMA EntriesComeFrom ==
  ASSUME NEW S, NEW list \in Seq(S), NEW P \in SUBSET (DOMAIN list)
  PROVE  /\ EntriesAt(list, P) \in Seq(S)
         /\ Len(EntriesAt(list, P)) <= Len(list)
         /\ \A n \in DOMAIN EntriesAt(list, P) : \E i \in P : EntriesAt(list, P)[n] = list[i]
<1> DEFINE E == EntriesAt(list, P)
<1>1. E \in Seq(S) /\ Len(E) <= Len(list)
  BY EntriesAtAre
<1>2. PICK f \in [DOMAIN E -> P] : \A n \in DOMAIN E : E[n] = list[f[n]]
  BY EntriesAtAre
<1> HIDE DEF E
<1>3. \A n \in DOMAIN E : f[n] \in P /\ E[n] = list[f[n]]
  BY <1>2
<1> QED  BY <1>1, <1>3 DEF E

-----------------------------------------------------------------------------
(* What SupersedesProblems says, request by request.                        *)

ClaimedOnce(list) ==
  \A j, k \in DOMAIN list :
    list[j].supersedes = list[k].supersedes /\ list[j].supersedes # NoId => j = k

\* No ids of the list that supersedes never leaves.
NoCycle(list) ==
  \A C \in SUBSET IdsOf(list) :
    (\A i \in DOMAIN list : list[i].id \in C => list[i].supersedes \in C) => C = {}

TargetsExported(list) ==
  \A i \in DOMAIN list : list[i].supersedes # NoId =>
    \E j \in DOMAIN list : list[j].id = list[i].supersedes /\ list[j].exported

\* No request supersedes itself.
NoSelf(list) == \A i \in DOMAIN list : list[i].supersedes # list[i].id

\* A request of a list without repetitions is the one that is found by its id.
LEMMA FindIs ==
  ASSUME NEW S, NEW list \in Seq(S), Distinct(list), NEW i \in DOMAIN list
  PROVE  Find(list, list[i].id) = list[i]
<1>1. list[i] \in Range(list)
  BY DEF Range
<1>2. \A r \in Range(list) : r.id = list[i].id => r = list[i]
  BY DEF Distinct, Range
<1> DEFINE found == Find(list, list[i].id)
<1>3. found \in Range(list) /\ found.id = list[i].id
  BY <1>1 DEF Find
<1> QED  BY <1>2, <1>3

\* The conflicts of a list are double claims and cycles.
LEMMA ConflictsAre ==
  ASSUME NEW S, NEW list \in Seq(S), Distinct(list), NoSelf(list)
  PROVE  SupersedesConflicts(list) = {} <=> ClaimedOnce(list) /\ NoCycle(list)
<1>0. DOMAIN list = 1..Len(list) /\ Len(list) \in Nat
  OBVIOUS
<1>1. ASSUME DoublyClaimed(list) = {} PROVE ClaimedOnce(list)
  <2> SUFFICES ASSUME NEW j \in DOMAIN list, NEW k \in DOMAIN list, j < k,
                      list[j].supersedes = list[k].supersedes, list[j].supersedes # NoId
               PROVE  FALSE
    BY <1>0 DEF ClaimedOnce
  <2>1. j \in 1..(k - 1)
    BY <1>0
  <2>2. list[k].supersedes \notin {NoId, list[k].id} /\ list[j].supersedes # list[j].id
    BY DEF NoSelf
  <2>3. list[k].id \in DoublyClaimed(list)
    BY <2>1, <2>2 DEF DoublyClaimed
  <2> QED  BY <1>1, <2>3
<1>2. ASSUME ClaimedOnce(list) PROVE DoublyClaimed(list) = {}
  <2> SUFFICES ASSUME NEW k \in DOMAIN list, list[k].supersedes # NoId,
                      NEW j \in 1..(k - 1), list[j].supersedes = list[k].supersedes
               PROVE  FALSE
    BY DEF DoublyClaimed
  <2>1. j \in DOMAIN list /\ j # k
    BY <1>0
  <2> QED  BY <1>2, <2>1 DEF ClaimedOnce
<1> DEFINE goesRound == {r.id : r \in {q \in Range(list) : Cyclic(list, q)}}
<1>3. ASSUME goesRound = {} PROVE NoCycle(list)
  <2> SUFFICES ASSUME NEW C \in SUBSET IdsOf(list), NEW c \in C,
                      \A i \in DOMAIN list : list[i].id \in C => list[i].supersedes \in C
               PROVE  FALSE
    BY DEF NoCycle
  <2>1. PICK i \in DOMAIN list : list[i].id = c
    BY DEF IdsOf
  <2>2. \A q \in Range(list) : q.id \in C => q.supersedes \in C
    BY DEF Range
  <2>3. list[i] \in Range(list) /\ Cyclic(list, list[i])
    BY <2>1, <2>2 DEF Cyclic, Range
  <2> QED  BY <1>3, <2>3
<1>4. ASSUME NoCycle(list) PROVE goesRound = {}
  <2> SUFFICES ASSUME NEW r \in Range(list), Cyclic(list, r)
               PROVE  FALSE
    OBVIOUS
  <2>1. PICK C \in SUBSET IdsOf(list) :
          r.id \in C /\ \A q \in Range(list) : q.id \in C => q.supersedes \in C
    BY DEF Cyclic
  <2>2. \A i \in DOMAIN list : list[i].id \in C => list[i].supersedes \in C
    BY <2>1 DEF Range
  <2> QED  BY <1>4, <2>1, <2>2 DEF NoCycle
<1>5. SupersedesConflicts(list) = DoublyClaimed(list) \cup goesRound
  BY DEF SupersedesConflicts
<1> HIDE DEF goesRound
<1> QED  BY <1>1, <1>2, <1>3, <1>4, <1>5

\* The problems of a list are its conflicts and targets that are not there or not exported.
LEMMA ProblemsAre ==
  ASSUME NEW S, NEW list \in Seq(S), Distinct(list), NoSelf(list)
  PROVE  SupersedesProblems(list) = {} <=>
           ClaimedOnce(list) /\ NoCycle(list) /\ TargetsExported(list)
<1>1. ASSUME SupersedesTargetProblems(list) = {} PROVE TargetsExported(list)
  <2> SUFFICES ASSUME NEW i \in DOMAIN list, list[i].supersedes # NoId
               PROVE  \E j \in DOMAIN list : list[j].id = list[i].supersedes /\ list[j].exported
    BY DEF TargetsExported
  <2>1. list[i].supersedes # list[i].id /\ list[i] \in Range(list)
    BY DEF NoSelf, Range
  <2>2. list[i].supersedes \in IdsOf(list) /\ Find(list, list[i].supersedes).exported
    BY <1>1, <2>1 DEF SupersedesTargetProblems
  <2>3. PICK j \in DOMAIN list : list[j].id = list[i].supersedes
    BY <2>2 DEF IdsOf
  <2> QED  BY <2>2, <2>3, FindIs
<1>2. ASSUME TargetsExported(list) PROVE SupersedesTargetProblems(list) = {}
  <2> SUFFICES ASSUME NEW r \in Range(list), r.supersedes # NoId,
                      r.supersedes \in IdsOf(list) => ~Find(list, r.supersedes).exported
               PROVE  FALSE
    BY DEF SupersedesTargetProblems
  <2>1. PICK i \in DOMAIN list : r = list[i]
    BY DEF Range
  <2>2. PICK j \in DOMAIN list : list[j].id = r.supersedes /\ list[j].exported
    BY <1>2, <2>1 DEF TargetsExported
  <2>3. r.supersedes \in IdsOf(list)
    BY <2>2 DEF IdsOf
  <2> QED  BY <2>2, <2>3, FindIs
<1> QED  BY <1>1, <1>2, ConflictsAre DEF SupersedesProblems

-----------------------------------------------------------------------------
(* Reading a stored draft.                                                 *)

\* The entries at some positions have no id twice if the list has none.
LEMMA EntriesStayDistinct ==
  ASSUME NEW S, NEW list \in Seq(S), NEW P \in SUBSET (DOMAIN list), Distinct(list)
  PROVE  Distinct(EntriesAt(list, P))
<1> DEFINE E == EntriesAt(list, P)
<1>1. PICK f \in [DOMAIN E -> P] :
        /\ \A n \in DOMAIN E : E[n] = list[f[n]]
        /\ \A m, n \in DOMAIN E : m < n => f[m] < f[n]
  BY EntriesAtAre
<1>2. E \in Seq(S)
  BY EntriesAtAre
<1> HIDE DEF E
<1>3. \A n \in DOMAIN E : n \in Nat /\ f[n] \in DOMAIN list /\ f[n] \in Nat
  BY <1>2
<1> SUFFICES ASSUME NEW m \in DOMAIN E, NEW n \in DOMAIN E, E[m].id = E[n].id
             PROVE  m = n
  BY DEF E, Distinct
<1>4. f[m] = f[n]
  BY <1>1, <1>3 DEF Distinct
<1>5. m < n \/ n < m \/ m = n
  BY <1>3
<1> QED  BY <1>1, <1>3, <1>4, <1>5

\* Of several entries with one id the first is kept.
LEMMA FirstsAreDistinct ==
  ASSUME NEW S, NEW list \in Seq(S)
  PROVE  /\ FirstOfEachId(list) \in Seq(S)
         /\ Len(FirstOfEachId(list)) <= Len(list)
         /\ \A n \in DOMAIN FirstOfEachId(list) :
              \E i \in DOMAIN list : FirstOfEachId(list)[n] = list[i]
         /\ Distinct(FirstOfEachId(list))
         /\ Distinct(list) => FirstOfEachId(list) = list
<1> DEFINE P == {i \in DOMAIN list : \A j \in 1..(i - 1) : list[j].id # list[i].id}
           E == EntriesAt(list, P)
<1>1. FirstOfEachId(list) = E
  BY DEF FirstOfEachId
<1>2. P \in SUBSET (DOMAIN list)
  OBVIOUS
<1>3. DOMAIN list = 1..Len(list) /\ Len(list) \in Nat
  OBVIOUS
<1>4. ASSUME Distinct(list) PROVE E = list
  <2>1. \A i \in DOMAIN list : \A j \in 1..(i - 1) : j \in DOMAIN list /\ j # i
    BY <1>3
  <2>2. P = DOMAIN list
    BY <1>4, <2>1 DEF Distinct
  <2> HIDE DEF P
  <2> QED  BY <2>2 DEF EntriesAt
<1>5. \A i \in P : i \in Nat /\ \A j \in P : j < i => list[j].id # list[i].id
  BY <1>3
<1> HIDE DEF P
<1>6. /\ E \in Seq(S) /\ Len(E) <= Len(list)
      /\ \E f \in [DOMAIN E -> P] :
           /\ \A n \in DOMAIN E : E[n] = list[f[n]]
           /\ \A m, n \in DOMAIN E : m < n => f[m] < f[n]
  BY <1>2, EntriesAtAre
<1> HIDE DEF E
<1>7. PICK f \in [DOMAIN E -> P] :
        /\ \A n \in DOMAIN E : E[n] = list[f[n]]
        /\ \A m, n \in DOMAIN E : m < n => f[m] < f[n]
  BY <1>6
<1>8. \A n \in DOMAIN E : E[n] = list[f[n]] /\ f[n] \in DOMAIN list
  BY <1>2, <1>7
<1>9. Distinct(E)
  <2> SUFFICES ASSUME NEW m \in DOMAIN E, NEW n \in DOMAIN E, E[m].id = E[n].id, m < n
               PROVE  FALSE
    BY <1>6 DEF Distinct
  <2>1. f[m] \in P /\ f[n] \in P /\ f[m] < f[n]
    BY <1>7
  <2>2. list[f[m]].id # list[f[n]].id
    BY <1>5, <2>1
  <2> QED  BY <1>8, <2>2
<1> QED  BY <1>1, <1>4, <1>6, <1>8, <1>9

\* Without the requests of some ids: all the others, in their order.
LEMMA WithoutIs ==
  ASSUME NEW S, NEW list \in Seq(S), NEW ids
  PROVE  /\ Without(list, ids) \in Seq(S)
         /\ Len(Without(list, ids)) <= Len(list)
         /\ Distinct(list) => Distinct(Without(list, ids))
         /\ \E f \in [DOMAIN Without(list, ids) -> DOMAIN list] :
              /\ \A n \in DOMAIN Without(list, ids) :
                   Without(list, ids)[n] = list[f[n]] /\ list[f[n]].id \notin ids
              /\ \A m, n \in DOMAIN Without(list, ids) : f[m] = f[n] => m = n
              /\ \A i \in DOMAIN list : list[i].id \notin ids =>
                   \E n \in DOMAIN Without(list, ids) : f[n] = i
<1> DEFINE P == {i \in DOMAIN list : list[i].id \notin ids}
           E == Without(list, ids)
<1>1. E = EntriesAt(list, P)
  BY DEF Without
<1>2. P \in SUBSET (DOMAIN list)
  OBVIOUS
<1>3. \A i : i \in P <=> i \in DOMAIN list /\ list[i].id \notin ids
  OBVIOUS
<1> HIDE DEF P, E
<1>4. /\ E \in Seq(S) /\ Len(E) <= Len(list)
      /\ \E f \in [DOMAIN E -> P] :
           /\ \A n \in DOMAIN E : E[n] = list[f[n]]
           /\ \A m, n \in DOMAIN E : m < n => f[m] < f[n]
           /\ \A i \in P : \E n \in DOMAIN E : f[n] = i
      /\ Distinct(list) => Distinct(E)
  BY <1>1, <1>2, EntriesAtAre, EntriesStayDistinct
<1>5. PICK f \in [DOMAIN E -> P] :
        /\ \A n \in DOMAIN E : E[n] = list[f[n]]
        /\ \A m, n \in DOMAIN E : m < n => f[m] < f[n]
        /\ \A i \in P : \E n \in DOMAIN E : f[n] = i
  BY <1>4
<1>6. f \in [DOMAIN E -> DOMAIN list]
  BY <1>2
<1>7. \A n \in DOMAIN E : E[n] = list[f[n]] /\ list[f[n]].id \notin ids
  BY <1>3, <1>5
<1>8. \A m, n \in DOMAIN E : f[m] = f[n] => m = n
  <2> TAKE m, n \in DOMAIN E
  <2>1. m \in Nat /\ n \in Nat
    BY <1>4
  <2>2. m < n \/ n < m \/ m = n
    BY <2>1
  <2>3. \A i \in DOMAIN list : ~ (i < i)
    OBVIOUS
  <2>4. f[m] \in DOMAIN list
    BY <1>6
  <2> QED  BY <1>5, <2>1, <2>2, <2>3, <2>4
<1>9. \A i \in DOMAIN list : list[i].id \notin ids => \E n \in DOMAIN E : f[n] = i
  BY <1>3, <1>5
<1>10. \E g \in [DOMAIN E -> DOMAIN list] :
         /\ \A n \in DOMAIN E : E[n] = list[g[n]] /\ list[g[n]].id \notin ids
         /\ \A m, n \in DOMAIN E : g[m] = g[n] => m = n
         /\ \A i \in DOMAIN list : list[i].id \notin ids => \E n \in DOMAIN E : g[n] = i
  BY <1>6, <1>7, <1>8, <1>9
<1> QED  BY <1>4, <1>10 DEF E

LEMMA WithoutComesFrom ==
  ASSUME NEW S, NEW list \in Seq(S), NEW ids
  PROVE  /\ Without(list, ids) \in Seq(S)
         /\ Len(Without(list, ids)) <= Len(list)
         /\ Distinct(list) => Distinct(Without(list, ids))
         /\ \A n \in DOMAIN Without(list, ids) :
              \E i \in DOMAIN list : Without(list, ids)[n] = list[i] /\ list[i].id \notin ids
<1> DEFINE E == Without(list, ids)
<1>1. E \in Seq(S) /\ Len(E) <= Len(list) /\ (Distinct(list) => Distinct(E))
  BY WithoutIs
<1>2. PICK f \in [DOMAIN E -> DOMAIN list] :
        \A n \in DOMAIN E : E[n] = list[f[n]] /\ list[f[n]].id \notin ids
  BY WithoutIs
<1> HIDE DEF E
<1>3. \A n \in DOMAIN E :
        f[n] \in DOMAIN list /\ E[n] = list[f[n]] /\ list[f[n]].id \notin ids
  BY <1>2
<1> QED  BY <1>1, <1>3 DEF E

\* What is left when the problems of a list and all that hangs on them are gone has none.
LEMMA WithoutDangling ==
  ASSUME NEW S, NEW list \in Seq(S), Distinct(list), NoSelf(list), NoId \notin IdsOf(list)
  PROVE  LET rejected == WithDanglingSuccessors(list, SupersedesProblems(list))
         IN  SupersedesProblems(Without(list, rejected)) = {}
<1> DEFINE problems == SupersedesProblems(list)
           rejected == WithDanglingSuccessors(list, problems)
           K == Without(list, rejected)
<1>1. CASE problems = {}
  <2>1. rejected = {}
    BY <1>1 DEF WithDanglingSuccessors
  <2>2. {i \in DOMAIN list : list[i].id \notin rejected} = DOMAIN list
    BY <2>1
  <2>3. K = list
    BY <2>2 DEF Without, EntriesAt
  <2> QED  BY <1>1, <2>3
<1>2. CASE problems # {}
  <2> DEFINE Follows(C) ==
        \A q \in Range(list) : q.id \in C /\ q.supersedes \in IdsOf(list) => q.supersedes \in C
  <2>1. \A id \in IdsOf(list) : id \notin rejected <=>
          \E C \in SUBSET (IdsOf(list) \ problems) : id \in C /\ Follows(C)
    BY <1>2 DEF WithDanglingSuccessors
  <2> HIDE DEF rejected
  <2>2. /\ K \in Seq(S) /\ Distinct(K)
        /\ \E f \in [DOMAIN K -> DOMAIN list] :
             /\ \A n \in DOMAIN K : K[n] = list[f[n]] /\ list[f[n]].id \notin rejected
             /\ \A m, n \in DOMAIN K : f[m] = f[n] => m = n
             /\ \A i \in DOMAIN list : list[i].id \notin rejected => \E n \in DOMAIN K : f[n] = i
    BY WithoutIs
  <2> HIDE DEF K
  <2>3. PICK f \in [DOMAIN K -> DOMAIN list] :
          /\ \A n \in DOMAIN K : K[n] = list[f[n]] /\ list[f[n]].id \notin rejected
          /\ \A m, n \in DOMAIN K : f[m] = f[n] => m = n
          /\ \A i \in DOMAIN list : list[i].id \notin rejected => \E n \in DOMAIN K : f[n] = i
    BY <2>2
  <2>4. \A i \in DOMAIN list : list[i].id \in IdsOf(list) /\ list[i] \in Range(list)
    BY DEF IdsOf, Range
  <2>5. \A n \in DOMAIN K : \E C \in SUBSET (IdsOf(list) \ problems) :
          K[n].id \in C /\ Follows(C)
    BY <2>1, <2>3, <2>4
  <2>6. NoSelf(K)
    BY <2>3 DEF NoSelf
  <2>7. \A n \in DOMAIN K : list[f[n]].id \notin problems
    BY <2>3, <2>5
  <2>8. ClaimedOnce(K)
    <3> SUFFICES ASSUME NEW j \in DOMAIN K, NEW k \in DOMAIN K, j # k,
                        K[j].supersedes = K[k].supersedes, K[j].supersedes # NoId
                 PROVE  FALSE
      BY DEF ClaimedOnce
    <3>1. f[j] # f[k] /\ f[j] \in 1..Len(list) /\ f[k] \in 1..Len(list)
      BY <2>3
    <3>2. \A m, n \in DOMAIN list :
            m < n /\ list[m].supersedes = list[n].supersedes /\ list[m].supersedes # NoId
              => list[n].id \in problems
      <4> SUFFICES ASSUME NEW m \in DOMAIN list, NEW n \in DOMAIN list, m < n,
                          list[m].supersedes = list[n].supersedes, list[m].supersedes # NoId
                   PROVE  list[n].id \in problems
        OBVIOUS
      <4>1. m \in 1..(n - 1)
        OBVIOUS
      <4>2. list[n].supersedes # list[n].id /\ list[m].supersedes # list[m].id
        BY DEF NoSelf
      <4>3. list[n].id \in DoublyClaimed(list)
        BY <4>1, <4>2 DEF DoublyClaimed
      <4> QED  BY <4>3 DEF SupersedesProblems, SupersedesConflicts
    <3>3. f[j] < f[k] \/ f[k] < f[j]
      BY <3>1
    <3> QED  BY <2>3, <2>7, <3>1, <3>2, <3>3
  <2>9. NoCycle(K)
    <3> SUFFICES ASSUME NEW C \in SUBSET IdsOf(K), NEW c \in C,
                        \A i \in DOMAIN K : K[i].id \in C => K[i].supersedes \in C
                 PROVE  FALSE
      BY DEF NoCycle
    <3>1. PICK n \in DOMAIN K : K[n].id = c
      BY DEF IdsOf
    <3>2. C \in SUBSET IdsOf(list)
      BY <2>3 DEF IdsOf
    <3>3. ASSUME NEW q \in Range(list), q.id \in C
          PROVE  q.supersedes \in C
      <4>1. PICK i \in DOMAIN list : q = list[i]
        BY DEF Range
      <4>2. PICK m \in DOMAIN K : K[m].id = q.id
        BY <3>3 DEF IdsOf
      <4>3. f[m] = i
        BY <2>3, <4>1, <4>2 DEF Distinct
      <4> QED  BY <2>3, <3>3, <4>1, <4>2, <4>3
    <3>4. Cyclic(list, list[f[n]])
      BY <2>3, <3>1, <3>2, <3>3 DEF Cyclic
    <3>5. list[f[n]].id \in problems
      BY <2>4, <3>4 DEF SupersedesProblems, SupersedesConflicts
    <3> QED  BY <2>7, <3>5
  <2>10. TargetsExported(K)
    <3> SUFFICES ASSUME NEW n \in DOMAIN K, K[n].supersedes # NoId
                 PROVE  \E m \in DOMAIN K : K[m].id = K[n].supersedes /\ K[m].exported
      BY DEF TargetsExported
    <3> DEFINE r == list[f[n]]
    <3>1. r \in Range(list) /\ r.supersedes # r.id /\ r = K[n]
      BY <2>3, <2>4 DEF NoSelf
    <3>2. r.id \notin SupersedesTargetProblems(list)
      BY <2>7 DEF SupersedesProblems
    <3>3. r.supersedes \in IdsOf(list) /\ Find(list, r.supersedes).exported
      BY <3>1, <3>2 DEF SupersedesTargetProblems
    <3>4. PICK i \in DOMAIN list : list[i].id = r.supersedes
      BY <3>3 DEF IdsOf
    <3>5. list[i].exported
      BY <3>3, <3>4, FindIs
    <3>6. PICK C \in SUBSET (IdsOf(list) \ problems) : r.id \in C /\ Follows(C)
      BY <2>5, <3>1
    <3>7. r.supersedes \in C
      BY <3>1, <3>3, <3>6
    <3>8. list[i].id \notin rejected
      BY <2>1, <3>3, <3>4, <3>6, <3>7
    <3>9. PICK m \in DOMAIN K : f[m] = i
      BY <2>3, <3>8
    <3> QED  BY <2>3, <3>1, <3>4, <3>5, <3>9
  <2>11. SupersedesProblems(K) = {}
    BY <2>2, <2>6, <2>8, <2>9, <2>10, ProblemsAre
  <2> QED  BY <2>11 DEF K, rejected
<1> QED  BY <1>1, <1>2

\* A page without requests has a sound list.
LEMMA EmptyIsSound == SoundList(<<>>)
<1> DEFINE list == <<>>
<1>1. list \in Seq({}) /\ DOMAIN list = {} /\ Len(list) = 0
  OBVIOUS
<1> HIDE DEF list
<1>2. Distinct(list) /\ Fitting(list) /\ NoSelf(list)
  BY <1>1 DEF Distinct, Fitting, NoSelf
<1>3. ClaimedOnce(list) /\ TargetsExported(list)
  BY <1>1 DEF ClaimedOnce, TargetsExported
<1>4. NoCycle(list)
  BY <1>1 DEF NoCycle, IdsOf
<1>5. SupersedesProblems(list) = {}
  BY <1>1, <1>2, <1>3, <1>4, ProblemsAre
<1>6. SoundList(list)
  BY <1>1, <1>2, <1>5, SheetAssumption DEF SoundList
<1> QED  BY <1>6 DEF list

\* What fits the schema does not supersede itself.
LEMMA FittingHasNoSelf ==
  ASSUME NEW list, Fitting(list)
  PROVE  NoSelf(list)
  BY DEF Fitting, FitsSchema, NoSelf

\* A stored draft is read as a list that a page may have, and as what it is if nothing had to
\* be left out.
LEMMA LoadIsSound ==
  ASSUME NEW raw \in Raws
  PROVE  /\ LoadState(raw).requests \in Seq(Requests)
         /\ SoundList(LoadState(raw).requests)
         /\ \A n \in DOMAIN LoadState(raw).requests :
              \E i \in DOMAIN raw.requests : LoadState(raw).requests[n] = raw.requests[i]
         /\ LoadState(raw).ok \in BOOLEAN
         /\ LoadState(raw).ok =>
              raw.kind # "unreadable" /\ LoadState(raw).requests = raw.requests
<1> DEFINE list == raw.requests
           fitting == {i \in DOMAIN list : FitsSchema(list[i])}
           F == EntriesAt(list, fitting)
           V == FirstOfEachId(F)
           rejected == WithDanglingSuccessors(V, SupersedesProblems(V))
           K == Without(V, rejected)
<1>0. list \in Seq(StoredRequests)
  BY DEF Raws
<1>1. CASE raw.kind = "unreadable" \/ Len(list) > MAX_REVISIONS
  <2>1. LoadState(raw) = [ok |-> FALSE, requests |-> <<>>]
    BY <1>1 DEF LoadState
  <2>2. LoadState(raw).requests = <<>> /\ LoadState(raw).ok = FALSE
    BY <2>1
  <2>3. <<>> \in Seq(Requests) /\ DOMAIN <<>> = {}
    OBVIOUS
  <2> QED  BY <2>2, <2>3, EmptyIsSound
<1>2. CASE ~(raw.kind = "unreadable" \/ Len(list) > MAX_REVISIONS)
  <2>1. LoadState(raw) = [ok |-> K = list, requests |-> K]
    BY <1>2 DEF LoadState
  <2>2. fitting \in SUBSET (DOMAIN list) /\ \A i \in fitting : FitsSchema(list[i])
    OBVIOUS
  <2> HIDE DEF fitting
  <2>3. /\ F \in Seq(StoredRequests) /\ Len(F) <= Len(list)
        /\ \A n \in DOMAIN F : \E i \in fitting : F[n] = list[i]
    BY <1>0, <2>2, EntriesComeFrom
  <2> HIDE DEF F, list
  <2>4. \A n \in DOMAIN F : FitsSchema(F[n]) /\ \E i \in DOMAIN list : F[n] = list[i]
    BY <2>2, <2>3
  <2>5. /\ V \in Seq(StoredRequests) /\ Len(V) <= Len(F) /\ Distinct(V)
        /\ \A n \in DOMAIN V : \E i \in DOMAIN F : V[n] = F[i]
    BY <2>3, FirstsAreDistinct
  <2> HIDE DEF V
  <2>6. Fitting(V) /\ NoSelf(V)
    BY <2>4, <2>5, FittingHasNoSelf DEF Fitting
  <2>7. NoId \notin IdsOf(V)
    <3>1. \A n \in DOMAIN V : V[n] \in StoredRequests
      BY <2>5
    <3> QED  BY <3>1, SheetAssumption DEF IdsOf, StoredRequests
  <2>8. SupersedesProblems(K) = {}
    BY <2>5, <2>6, <2>7, WithoutDangling
  <2>9. /\ K \in Seq(StoredRequests) /\ Len(K) <= Len(V) /\ Distinct(K)
        /\ \A n \in DOMAIN K : \E i \in DOMAIN V : K[n] = V[i]
    BY <2>5, WithoutComesFrom
  <2> HIDE DEF K
  <2>10. \A n \in DOMAIN K : FitsSchema(K[n]) /\ \E i \in DOMAIN list : K[n] = list[i]
    BY <2>4, <2>5, <2>9
  <2>11. \A n \in DOMAIN K : K[n] \in Requests
    <3> TAKE n \in DOMAIN K
    <3>1. K[n] \in StoredRequests /\ K[n].body # BadBody
      BY <2>9, <2>10 DEF FitsSchema
    <3> QED  BY <3>1 DEF StoredRequests, Requests
  <2>12. K \in Seq(Requests)
    BY <2>9, <2>11
  <2>13. Len(K) <= MAX_REVISIONS
    BY <1>0, <1>2, <2>3, <2>5, <2>9, SheetAssumption
  <2>14. SoundList(K)
    BY <2>8, <2>9, <2>10, <2>13 DEF SoundList, Fitting
  <2>15. LoadState(raw).requests = K /\ LoadState(raw).ok = (K = list)
    BY <2>1
  <2>16. raw.kind # "unreadable"
    BY <1>2
  <2> QED  BY <2>10, <2>12, <2>14, <2>15, <2>16 DEF list
<1> QED  BY <1>1, <1>2

\* A sound list is read as it is.
LEMMA SoundIsReadBack ==
  ASSUME NEW raw \in Raws, raw.kind # "unreadable", SoundList(raw.requests)
  PROVE  LoadState(raw) = [ok |-> TRUE, requests |-> raw.requests]
<1> DEFINE list == raw.requests
           fitting == {i \in DOMAIN list : FitsSchema(list[i])}
           F == EntriesAt(list, fitting)
           V == FirstOfEachId(F)
           rejected == WithDanglingSuccessors(V, SupersedesProblems(V))
           K == Without(V, rejected)
<1>1. list \in Seq(StoredRequests) /\ Len(list) \in Nat
  BY DEF Raws
<1>2. LoadState(raw) = [ok |-> K = list, requests |-> K]
  BY <1>1, SheetAssumption DEF LoadState, SoundList
<1>3. fitting = DOMAIN list
  BY DEF SoundList, Fitting
<1>4. F = list
  BY <1>3 DEF EntriesAt
<1> HIDE DEF F
<1>5. V = list
  BY <1>1, <1>4, FirstsAreDistinct DEF SoundList
<1> HIDE DEF V
<1>6. rejected = {}
  BY <1>5 DEF SoundList, WithDanglingSuccessors
<1> HIDE DEF rejected
<1>7. {i \in DOMAIN V : V[i].id \notin rejected} = DOMAIN V
  BY <1>6
<1>8. K = list
  BY <1>5, <1>7 DEF Without, EntriesAt
<1> QED  BY <1>2, <1>8

-----------------------------------------------------------------------------
(* What the operations of a page make of a sound list.                      *)

\* What SoundList says, request by request.
LEMMA SoundListIs ==
  ASSUME NEW S, NEW list \in Seq(S)
  PROVE  SoundList(list) <=>
           /\ Distinct(list) /\ Fitting(list) /\ Len(list) <= MAX_REVISIONS
           /\ ClaimedOnce(list) /\ NoCycle(list) /\ TargetsExported(list)
<1>1. Fitting(list) => NoSelf(list)
  BY FittingHasNoSelf
<1> QED  BY <1>1, ProblemsAre DEF SoundList

\* A change that keeps ids and chains, and no mark, keeps a list sound.
LEMMA SameChainIsSound ==
  ASSUME NEW list \in Seq(Requests), SoundList(list),
         NEW other \in Seq(Requests), Len(other) = Len(list),
         \A i \in DOMAIN list : /\ other[i].id = list[i].id
                                /\ other[i].supersedes = list[i].supersedes
                                /\ list[i].exported => other[i].exported
  PROVE  SoundList(other)
<1>1. DOMAIN other = DOMAIN list
  OBVIOUS
<1>2. /\ Distinct(list) /\ Fitting(list) /\ Len(list) <= MAX_REVISIONS
      /\ ClaimedOnce(list) /\ NoCycle(list) /\ TargetsExported(list)
  BY SoundListIs
<1>3. Distinct(other)
  BY <1>1, <1>2 DEF Distinct
<1>4. Fitting(other)
  <2>1. \A i \in DOMAIN other : other[i] \in Requests
    OBVIOUS
  <2>2. \A i \in DOMAIN other : other[i].body # BadBody
    BY <2>1, SheetAssumption DEF Requests
  <2> QED  BY <1>1, <1>2, <2>2 DEF Fitting, FitsSchema
<1>5. ClaimedOnce(other)
  BY <1>1, <1>2 DEF ClaimedOnce
<1>6. IdsOf(other) = IdsOf(list)
  BY <1>1 DEF IdsOf
<1>7. NoCycle(other)
  BY <1>1, <1>2, <1>6 DEF NoCycle
<1>8. TargetsExported(other)
  BY <1>1, <1>2 DEF TargetsExported
<1> QED  BY <1>2, <1>3, <1>4, <1>5, <1>7, <1>8, SoundListIs

\* A new request may be added that supersedes nothing, or the last version of another.
LEMMA AppendIsSound ==
  ASSUME NEW list \in Seq(Requests), SoundList(list), Len(list) < MAX_REVISIONS,
         NEW r \in Requests, r.id \notin IdsOf(list), r.supersedes # r.id,
         \/ r.supersedes = NoId
         \/ /\ ~IsSuperseded(list, r.supersedes)
            /\ \E j \in DOMAIN list : list[j].id = r.supersedes /\ list[j].exported
  PROVE  /\ Append(list, r) \in Seq(Requests)
         /\ SoundList(Append(list, r))
<1> DEFINE other == Append(list, r)
           last == Len(list) + 1
<1>1. /\ other \in Seq(Requests) /\ Len(other) = last /\ other[last] = r
      /\ DOMAIN other = DOMAIN list \cup {last} /\ last \notin DOMAIN list
      /\ \A i \in DOMAIN list : other[i] = list[i]
  OBVIOUS
<1>2. /\ Distinct(list) /\ Fitting(list)
      /\ ClaimedOnce(list) /\ NoCycle(list) /\ TargetsExported(list)
  BY SoundListIs
<1>3. \A i \in DOMAIN list : list[i].id # r.id /\ list[i] \in Range(list)
  BY DEF IdsOf, Range
<1>4. \A i \in DOMAIN list : list[i] \in Requests
  OBVIOUS
<1> HIDE DEF other, last
<1>5. Distinct(other)
  BY <1>1, <1>2, <1>3 DEF Distinct
<1>6. Fitting(other)
  <2>1. FitsSchema(r)
    BY SheetAssumption DEF FitsSchema, Requests
  <2> QED  BY <1>1, <1>2, <2>1 DEF Fitting
<1>7. Len(other) <= MAX_REVISIONS
  BY <1>1, SheetAssumption DEF last
<1>8. r.supersedes # NoId => \A i \in DOMAIN list : list[i].supersedes # r.supersedes
  BY <1>3 DEF IsSuperseded
<1>9. ClaimedOnce(other)
  BY <1>1, <1>2, <1>8 DEF ClaimedOnce
<1>10. \A i \in DOMAIN list : list[i].supersedes # r.id
  <2> SUFFICES ASSUME NEW i \in DOMAIN list, list[i].supersedes = r.id
               PROVE  FALSE
    OBVIOUS
  <2>1. r.id # NoId
    BY SheetAssumption DEF Requests
  <2>2. PICK j \in DOMAIN list : list[j].id = list[i].supersedes
    BY <1>2, <2>1 DEF TargetsExported
  <2> QED  BY <1>3, <2>2
<1>11. NoCycle(other)
  <2> SUFFICES ASSUME NEW C \in SUBSET IdsOf(other), NEW c \in C,
                      \A i \in DOMAIN other : other[i].id \in C => other[i].supersedes \in C
               PROVE  FALSE
    BY DEF NoCycle
  <2> DEFINE D == C \ {r.id}
  <2>1. D \in SUBSET IdsOf(list)
    BY <1>1 DEF IdsOf
  <2>2. \A i \in DOMAIN list : list[i].id \in D => list[i].supersedes \in D
    BY <1>1, <1>10
  <2>3. D = {}
    <3> HIDE DEF D
    <3> QED  BY <1>2, <2>1, <2>2 DEF NoCycle
  <2>4. c = r.id
    BY <2>3
  <2>5. r.supersedes \in C
    BY <1>1, <2>4
  <2> QED  BY <2>3, <2>5
<1>12. TargetsExported(other)
  <2> SUFFICES ASSUME NEW i \in DOMAIN other, other[i].supersedes # NoId
               PROVE  \E j \in DOMAIN other : other[j].id = other[i].supersedes /\ other[j].exported
    BY DEF TargetsExported
  <2>1. CASE i = last
    BY <1>1, <2>1
  <2>2. CASE i \in DOMAIN list
    <3>1. PICK j \in DOMAIN list : list[j].id = list[i].supersedes /\ list[j].exported
      BY <1>1, <1>2, <2>2 DEF TargetsExported
    <3> QED  BY <1>1, <2>2, <3>1
  <2> QED  BY <1>1, <2>1, <2>2
<1>13. SoundList(other)
  BY <1>1, <1>5, <1>6, <1>7, <1>9, <1>11, <1>12, SoundListIs
<1> QED  BY <1>1, <1>13 DEF other

-----------------------------------------------------------------------------
(* Sheets: what they are read as, and what restoring them makes of a list.   *)

\* A sheet that is accepted is read as revisions of it that fit, none of them twice.
LEMMA ParsedIs ==
  ASSUME NEW S, NEW sheet \in Seq(S), ParseSheet(sheet).ok
  PROVE  /\ ParseSheet(sheet).revisions \in Seq(S)
         /\ Distinct(ParseSheet(sheet).revisions)
         /\ Fitting(ParseSheet(sheet).revisions)
         /\ \A n \in DOMAIN ParseSheet(sheet).revisions :
              \E i \in DOMAIN sheet : ParseSheet(sheet).revisions[n] = sheet[i]
<1> DEFINE unique == FirstOfEachId(sheet)
<1>1. ParseSheet(sheet).revisions = unique
  BY DEF ParseSheet
<1>2. \A r \in Range(sheet) : FitsSchema(r)
  BY DEF ParseSheet
<1> HIDE DEF unique
<1>3. /\ unique \in Seq(S) /\ Distinct(unique)
      /\ \A n \in DOMAIN unique : \E i \in DOMAIN sheet : unique[n] = sheet[i]
  BY FirstsAreDistinct DEF unique
<1>4. Fitting(unique)
  BY <1>2, <1>3 DEF Fitting, Range
<1> QED  BY <1>1, <1>3, <1>4

\* A sound sheet is accepted and read as it is.
LEMMA SoundSheetIsRead ==
  ASSUME NEW sheet \in Seq(Records), SoundSheet(sheet)
  PROVE  ParseSheet(sheet).ok /\ ParseSheet(sheet).revisions = sheet
<1>1. FirstOfEachId(sheet) = sheet
  BY FirstsAreDistinct DEF SoundSheet
<1>2. \A r \in Range(sheet) : FitsSchema(r)
  BY DEF SoundSheet, Fitting, Range
<1>3. SameContentPerId(sheet)
  BY DEF SoundSheet, Distinct, SameContentPerId
<1> QED  BY <1>1, <1>2, <1>3 DEF ParseSheet, SoundSheet

\* The revisions of a list differ from its requests by their flags only.
LEMMA RecordsOfIs ==
  ASSUME NEW list \in Seq(Requests)
  PROVE  /\ RecordsOf(list) \in Seq(Records)
         /\ Len(RecordsOf(list)) = Len(list) /\ DOMAIN RecordsOf(list) = DOMAIN list
         /\ \A i \in DOMAIN list : /\ RecordsOf(list)[i] = Record(list[i])
                                   /\ RecordsOf(list)[i].id = list[i].id
                                   /\ RecordsOf(list)[i].supersedes = list[i].supersedes
                                   /\ RecordsOf(list)[i].body = list[i].body
         /\ IdsOf(RecordsOf(list)) = IdsOf(list)
<1>1. \A i \in DOMAIN list : list[i] \in Requests
  OBVIOUS
<1>2. \A r \in Requests : /\ Record(r) \in Records /\ Record(r).id = r.id
                          /\ Record(r).supersedes = r.supersedes /\ Record(r).body = r.body
  BY DEF Record, Requests, Records
<1>3. /\ DOMAIN RecordsOf(list) = 1..Len(list)
      /\ \A i \in DOMAIN list : RecordsOf(list)[i] = Record(list[i])
  BY DEF RecordsOf
<1>4. RecordsOf(list) \in [1..Len(list) -> Records]
  BY <1>1, <1>2 DEF RecordsOf
<1>5. RecordsOf(list) \in Seq(Records) /\ Len(RecordsOf(list)) = Len(list)
  BY <1>3, <1>4
<1>6. IdsOf(RecordsOf(list)) = IdsOf(list)
  BY <1>1, <1>2, <1>3 DEF IdsOf
<1> QED  BY <1>1, <1>2, <1>3, <1>5, <1>6

\* What a page exports is a sound sheet of all its requests.
LEMMA ExportIsSound ==
  ASSUME NEW list \in Seq(Requests), SoundList(list)
  PROVE  /\ ExportSheet(list).revisions = RecordsOf(list)
         /\ ExportSheet(list).ok => SoundSheet(RecordsOf(list))
<1> DEFINE sheet == RecordsOf(list)
<1>1. ExportSheet(list).revisions = sheet
  BY DEF ExportSheet, RecordsOf
<1>2. ExportSheet(list).ok => ParseSheet(sheet).ok
  BY DEF ExportSheet, RecordsOf
<1>3. /\ sheet \in Seq(Records) /\ Len(sheet) = Len(list) /\ DOMAIN sheet = DOMAIN list
      /\ IdsOf(sheet) = IdsOf(list)
      /\ \A i \in DOMAIN list : /\ sheet[i].id = list[i].id
                                /\ sheet[i].supersedes = list[i].supersedes
                                /\ sheet[i].body = list[i].body
  BY RecordsOfIs
<1> HIDE DEF sheet
<1>4. /\ Distinct(list) /\ Fitting(list) /\ Len(list) <= MAX_REVISIONS
      /\ ClaimedOnce(list) /\ NoCycle(list) /\ TargetsExported(list)
  BY SoundListIs
<1>5. Distinct(sheet) /\ Fitting(sheet)
  BY <1>3, <1>4 DEF Distinct, Fitting, FitsSchema
<1>6. ClaimedOnce(sheet)
  BY <1>3, <1>4 DEF ClaimedOnce
<1>7. NoCycle(sheet)
  BY <1>3, <1>4 DEF NoCycle
<1>8. SupersedesConflicts(sheet) = {}
  BY <1>3, <1>5, <1>6, <1>7, ConflictsAre, FittingHasNoSelf
<1>9. \A i \in DOMAIN sheet : sheet[i].supersedes \in IdsOf(sheet) \cup {NoId}
  BY <1>3, <1>4 DEF TargetsExported, IdsOf
<1>10. ExportSheet(list).ok => Len(sheet) <= SheetCapacity
  BY <1>2 DEF ParseSheet
<1> QED  BY <1>1, <1>3, <1>4, <1>5, <1>8, <1>9, <1>10 DEF SoundSheet, sheet

\* Flags do not matter to the revision of a request.
LEMMA FlagsAre ==
  ASSUME NEW r \in Records \cup Requests, NEW e \in BOOLEAN, NEW p \in BOOLEAN
  PROVE  /\ WithFlags(r, e, p) \in Requests
         /\ WithFlags(r, e, p).id = r.id /\ WithFlags(r, e, p).supersedes = r.supersedes
         /\ WithFlags(r, e, p).exported = e /\ WithFlags(r, e, p).pending = p
         /\ WithFlags(r, e, p).body = r.body
         /\ WithFlags(r, e, p).fingerprint = r.fingerprint
         /\ Record(WithFlags(r, e, p)) = Record(r)
         /\ r \in Records => Record(r) = r
  BY DEF WithFlags, Record, Records, Requests

LEMMA ConcatIs ==
  ASSUME NEW S, NEW front \in Seq(S), NEW back \in Seq(S)
  PROVE  front \o back \in Seq(S) /\ Len(front \o back) = Len(front) + Len(back)
  OBVIOUS

\* Restoring a sheet that is accepted leaves a sound list of what was there and of what the
\* sheet has, and nothing is marked that is in neither.
LEMMA RestoreIsSound ==
  ASSUME NEW list \in Seq(Requests), SoundList(list),
         NEW revisions \in Seq(Records), Distinct(revisions), Fitting(revisions),
         NEW f, Restore(list, revisions, f).ok
  PROVE  /\ Restore(list, revisions, f).requests \in Seq(Requests)
         /\ SoundList(Restore(list, revisions, f).requests)
         /\ IdsOf(Restore(list, revisions, f).requests) \subseteq IdsOf(list) \cup IdsOf(revisions)
         /\ \A n \in DOMAIN Restore(list, revisions, f).requests :
              LET r == Restore(list, revisions, f).requests[n]
              IN r.exported =>
                   \/ \E i \in DOMAIN list : Record(r) = Record(list[i]) /\ list[i].exported
                   \/ \E k \in DOMAIN revisions : Record(r) = revisions[k]
<1> DEFINE fresh == Without(revisions, IdsOf(list))
           existing == [i \in DOMAIN list |->
                          IF list[i].id \in IdsOf(revisions)
                          THEN WithFlags(list[i], TRUE, list[i].pending) ELSE list[i]]
           entries == [i \in DOMAIN fresh |->
                         WithFlags(fresh[i], TRUE, fresh[i].fingerprint # f)]
           merged == existing \o entries
<1>1. /\ Restore(list, revisions, f).requests = merged
      /\ Len(merged) <= MAX_REVISIONS /\ SupersedesProblems(merged) = {}
      /\ \A r \in Range(revisions) :
           r.id \in IdsOf(list) => Record(Find(list, r.id)) = r
  BY DEF Restore
<1>2. /\ Distinct(list) /\ Fitting(list)
  BY SoundListIs
<1>3. \A i \in DOMAIN list : list[i] \in Requests /\ list[i].pending \in BOOLEAN
  <2>1. \A i \in DOMAIN list : list[i] \in Requests
    OBVIOUS
  <2>2. \A r \in Requests : r.pending \in BOOLEAN
    BY DEF Requests
  <2> QED  BY <2>1, <2>2
<1>4. /\ fresh \in Seq(Records) /\ Distinct(fresh)
      /\ \A n \in DOMAIN fresh :
           \E k \in DOMAIN revisions : fresh[n] = revisions[k] /\ fresh[n].id \notin IdsOf(list)
  BY WithoutComesFrom
<1> HIDE DEF fresh
<1>5. \A n \in DOMAIN fresh : fresh[n] \in Records
  BY <1>4
<1>6. /\ existing \in Seq(Requests) /\ Len(existing) = Len(list)
      /\ DOMAIN existing = DOMAIN list
      /\ \A i \in DOMAIN list :
           /\ existing[i] \in Requests
           /\ existing[i].id = list[i].id /\ Record(existing[i]) = Record(list[i])
           /\ existing[i].body = list[i].body /\ existing[i].supersedes = list[i].supersedes
           /\ existing[i].exported => list[i].exported \/ list[i].id \in IdsOf(revisions)
  <2>1. \A i \in DOMAIN list :
          /\ existing[i] \in Requests
          /\ existing[i].id = list[i].id /\ Record(existing[i]) = Record(list[i])
          /\ existing[i].body = list[i].body /\ existing[i].supersedes = list[i].supersedes
          /\ existing[i].exported => list[i].exported \/ list[i].id \in IdsOf(revisions)
    <3> TAKE i \in DOMAIN list
    <3>1. list[i] \in Records \cup Requests /\ list[i] \in Requests /\ list[i].pending \in BOOLEAN
      BY <1>3
    <3>2. CASE list[i].id \in IdsOf(revisions)
      <4>1. existing[i] = WithFlags(list[i], TRUE, list[i].pending)
        BY <3>2
      <4> HIDE DEF existing
      <4>2. TRUE \in BOOLEAN
        OBVIOUS
      <4> DEFINE w == WithFlags(list[i], TRUE, list[i].pending)
      <4>3. /\ w \in Requests /\ w.id = list[i].id /\ Record(w) = Record(list[i])
            /\ w.body = list[i].body /\ w.supersedes = list[i].supersedes
        BY <3>1, <4>2, FlagsAre
      <4> HIDE DEF w
      <4> QED  BY <3>2, <4>1, <4>3 DEF w
    <3>3. CASE list[i].id \notin IdsOf(revisions)
      BY <3>1, <3>3
    <3> QED  BY <3>2, <3>3
  <2>2. DOMAIN existing = DOMAIN list /\ DOMAIN list = 1..Len(list) /\ Len(list) \in Nat
    OBVIOUS
  <2> HIDE DEF existing
  <2>3. existing \in Seq(Requests) /\ Len(existing) = Len(list)
    <3>1. existing \in [1..Len(list) -> Requests]
      BY <2>1, <2>2 DEF existing
    <3> QED  BY <2>2, <3>1
  <2> QED  BY <2>1, <2>2, <2>3
<1> HIDE DEF existing
<1>7. /\ entries \in Seq(Requests) /\ Len(entries) = Len(fresh)
      /\ DOMAIN entries = DOMAIN fresh
      /\ \A i \in DOMAIN fresh :
           /\ entries[i] \in Requests
           /\ entries[i].id = fresh[i].id /\ Record(entries[i]) = fresh[i]
           /\ entries[i].body = fresh[i].body /\ entries[i].supersedes = fresh[i].supersedes
  <2>1. \A i \in DOMAIN fresh :
           /\ entries[i] \in Requests
           /\ entries[i].id = fresh[i].id /\ Record(entries[i]) = fresh[i]
           /\ entries[i].body = fresh[i].body /\ entries[i].supersedes = fresh[i].supersedes
    <3> TAKE i \in DOMAIN fresh
    <3>1. (fresh[i].fingerprint # f) \in BOOLEAN /\ TRUE \in BOOLEAN
      OBVIOUS
    <3>2. entries[i] = WithFlags(fresh[i], TRUE, fresh[i].fingerprint # f)
      OBVIOUS
    <3>3. fresh[i] \in Records \cup Requests /\ fresh[i] \in Records
      BY <1>5
    <3> HIDE DEF entries
    <3> DEFINE w == WithFlags(fresh[i], TRUE, fresh[i].fingerprint # f)
    <3>4. /\ w \in Requests /\ w.id = fresh[i].id /\ Record(w) = Record(fresh[i])
          /\ w.body = fresh[i].body /\ w.supersedes = fresh[i].supersedes
          /\ Record(fresh[i]) = fresh[i]
      BY <3>1, <3>3, FlagsAre
    <3> HIDE DEF w
    <3> QED  BY <3>2, <3>4 DEF w
  <2>2. DOMAIN entries = DOMAIN fresh /\ DOMAIN fresh = 1..Len(fresh) /\ Len(fresh) \in Nat
    BY <1>4
  <2> HIDE DEF entries
  <2>3. entries \in Seq(Requests) /\ Len(entries) = Len(fresh)
    <3>1. entries \in [1..Len(fresh) -> Requests]
      BY <2>1, <2>2 DEF entries
    <3> QED  BY <2>2, <3>1
  <2> QED  BY <2>1, <2>2, <2>3
<1> HIDE DEF entries
<1>8. /\ merged \in Seq(Requests) /\ Len(merged) = Len(existing) + Len(entries)
      /\ \A n \in DOMAIN merged :
           \/ n \in DOMAIN list /\ merged[n] = existing[n]
           \/ n > Len(list) /\ n - Len(list) \in DOMAIN fresh
                /\ merged[n] = entries[n - Len(list)]
  <2>1. /\ existing \in Seq(Requests) /\ entries \in Seq(Requests)
        /\ Len(existing) = Len(list) /\ Len(entries) = Len(fresh)
        /\ Len(list) \in Nat /\ Len(fresh) \in Nat
        /\ DOMAIN list = 1..Len(list) /\ DOMAIN fresh = 1..Len(fresh)
    BY <1>4, <1>6, <1>7
  <2>2. /\ merged \in Seq(Requests) /\ Len(merged) = Len(existing) + Len(entries)
    BY <2>1, ConcatIs
  <2>3. DOMAIN merged = 1..(Len(list) + Len(fresh))
    BY <2>1, <2>2
  <2>4. \A n \in 1..(Len(list) + Len(fresh)) :
          merged[n] = IF n <= Len(list) THEN existing[n] ELSE entries[n - Len(list)]
    BY <2>1
  <2> HIDE DEF merged
  <2> SUFFICES ASSUME NEW n \in 1..(Len(list) + Len(fresh))
               PROVE  \/ n \in 1..Len(list) /\ merged[n] = existing[n]
                      \/ n > Len(list) /\ n - Len(list) \in 1..Len(fresh)
                           /\ merged[n] = entries[n - Len(list)]
    BY <2>1, <2>2, <2>3
  <2>5. CASE n <= Len(list)
    BY <2>1, <2>4, <2>5
  <2>6. CASE ~(n <= Len(list))
    BY <2>1, <2>4, <2>6
  <2> QED  BY <2>5, <2>6
<1> HIDE DEF merged
<1>9. \A i \in DOMAIN list, k \in DOMAIN fresh : list[i].id # fresh[k].id
  BY <1>4 DEF IdsOf
<1>10. Distinct(merged)
  <2> SUFFICES ASSUME NEW m \in DOMAIN merged, NEW n \in DOMAIN merged,
                      merged[m].id = merged[n].id
               PROVE  m = n
    BY DEF Distinct
  <2>1. m \in Nat /\ n \in Nat /\ Len(list) \in Nat
    BY <1>8
  <2>2. CASE m \in DOMAIN list /\ n \in DOMAIN list /\ merged[m] = existing[m]
               /\ merged[n] = existing[n]
    BY <1>2, <1>6, <2>2 DEF Distinct
  <2>3. CASE /\ m > Len(list) /\ m - Len(list) \in DOMAIN fresh
             /\ merged[m] = entries[m - Len(list)]
             /\ n > Len(list) /\ n - Len(list) \in DOMAIN fresh
             /\ merged[n] = entries[n - Len(list)]
    <3>1. fresh[m - Len(list)].id = fresh[n - Len(list)].id
      BY <1>7, <2>3
    <3>2. m - Len(list) = n - Len(list)
      BY <1>4, <2>3, <3>1 DEF Distinct
    <3> QED  BY <2>1, <3>2
  <2>4. CASE /\ m \in DOMAIN list /\ merged[m] = existing[m]
             /\ n - Len(list) \in DOMAIN fresh /\ merged[n] = entries[n - Len(list)]
    BY <1>6, <1>7, <1>9, <2>4
  <2>5. CASE /\ n \in DOMAIN list /\ merged[n] = existing[n]
             /\ m - Len(list) \in DOMAIN fresh /\ merged[m] = entries[m - Len(list)]
    BY <1>6, <1>7, <1>9, <2>5
  <2> QED  BY <1>8, <2>2, <2>3, <2>4, <2>5
<1>11. Fitting(merged)
  <2> SUFFICES ASSUME NEW n \in DOMAIN merged
               PROVE  FitsSchema(merged[n])
    BY DEF Fitting
  <2>1. CASE n \in DOMAIN list /\ merged[n] = existing[n]
    BY <1>2, <1>6, <2>1 DEF Fitting, FitsSchema
  <2>2. CASE n - Len(list) \in DOMAIN fresh /\ merged[n] = entries[n - Len(list)]
    <3>1. PICK k \in DOMAIN revisions : fresh[n - Len(list)] = revisions[k]
      BY <1>4, <2>2
    <3>2. FitsSchema(fresh[n - Len(list)])
      BY <3>1 DEF Fitting
    <3> QED  BY <1>7, <2>2, <3>2 DEF FitsSchema
  <2> QED  BY <1>8, <2>1, <2>2
<1>12. SoundList(merged)
  BY <1>1, <1>10, <1>11 DEF SoundList
<1>13. ASSUME NEW n \in DOMAIN merged
       PROVE  /\ merged[n].id \in IdsOf(list) \cup IdsOf(revisions)
              /\ merged[n].exported =>
                   \/ \E i \in DOMAIN list : Record(merged[n]) = Record(list[i]) /\ list[i].exported
                   \/ \E k \in DOMAIN revisions : Record(merged[n]) = revisions[k]
  <2>1. CASE n \in DOMAIN list /\ merged[n] = existing[n]
    <3>1. merged[n].id \in IdsOf(list)
      BY <1>6, <2>1 DEF IdsOf
    <3>2. CASE list[n].id \in IdsOf(revisions)
      <4>1. PICK k \in DOMAIN revisions : revisions[k].id = list[n].id
        BY <3>2 DEF IdsOf
      <4>2. revisions[k] \in Range(revisions) /\ revisions[k].id \in IdsOf(list)
        BY <2>1, <4>1 DEF Range, IdsOf
      <4>3. Record(Find(list, list[n].id)) = revisions[k]
        BY <1>1, <4>1, <4>2
      <4>4. Find(list, list[n].id) = list[n]
        BY <1>2, <2>1, FindIs
      <4>5. Record(merged[n]) = revisions[k]
        BY <1>6, <2>1, <4>3, <4>4
      <4> QED  BY <3>1, <4>5
    <3>3. CASE list[n].id \notin IdsOf(revisions)
      BY <1>6, <2>1, <3>1, <3>3
    <3> QED  BY <3>2, <3>3
  <2>2. CASE n - Len(list) \in DOMAIN fresh /\ merged[n] = entries[n - Len(list)]
    <3>1. PICK k \in DOMAIN revisions : fresh[n - Len(list)] = revisions[k]
      BY <1>4, <2>2
    <3>2. Record(merged[n]) = revisions[k] /\ merged[n].id = revisions[k].id
      BY <1>7, <2>2, <3>1
    <3> QED  BY <3>2 DEF IdsOf
  <2> QED  BY <1>8, <2>1, <2>2
<1>14. IdsOf(merged) \subseteq IdsOf(list) \cup IdsOf(revisions)
  BY <1>13 DEF IdsOf
<1> QED  BY <1>1, <1>8, <1>12, <1>13, <1>14

\* A sound sheet comes back whole on an empty page.
LEMMA RestoreBack ==
  ASSUME NEW sheet \in Seq(Records), SoundSheet(sheet), NEW f
  PROVE  /\ Restore(<<>>, sheet, f).ok
         /\ Restore(<<>>, sheet, f).requests \in Seq(Requests)
         /\ DOMAIN Restore(<<>>, sheet, f).requests = DOMAIN sheet
         /\ \A i \in DOMAIN sheet : /\ Record(Restore(<<>>, sheet, f).requests[i]) = sheet[i]
                                    /\ Restore(<<>>, sheet, f).requests[i].exported
<1> DEFINE empty == <<>>
           fresh == Without(sheet, IdsOf(empty))
           existing == [i \in DOMAIN empty |->
                          IF empty[i].id \in IdsOf(sheet)
                          THEN WithFlags(empty[i], TRUE, empty[i].pending) ELSE empty[i]]
           entries == [i \in DOMAIN fresh |->
                         WithFlags(fresh[i], TRUE, fresh[i].fingerprint # f)]
           merged == existing \o entries
<1>1. DOMAIN empty = {} /\ IdsOf(empty) = {} /\ existing = <<>>
  BY DEF IdsOf
<1>2. fresh = sheet
  <2>1. {i \in DOMAIN sheet : sheet[i].id \notin IdsOf(empty)} = DOMAIN sheet
    BY <1>1
  <2> HIDE DEF empty
  <2> QED  BY <2>1 DEF Without, EntriesAt
<1>3. /\ Restore(empty, sheet, f).requests = merged
      /\ Restore(empty, sheet, f).ok <=>
           /\ \A r \in Range(sheet) :
                r.id \in IdsOf(empty) => r.id \in IdsOf(empty) /\ Record(Find(empty, r.id)) = r
           /\ Len(merged) <= MAX_REVISIONS /\ SupersedesProblems(merged) = {}
  BY DEF Restore
<1> HIDE DEF empty, fresh
<1>4. \A i \in DOMAIN sheet :
        /\ entries[i] \in Requests /\ entries[i].id = sheet[i].id
        /\ entries[i].supersedes = sheet[i].supersedes /\ entries[i].body = sheet[i].body
        /\ Record(entries[i]) = sheet[i] /\ entries[i].exported
  <2> TAKE i \in DOMAIN sheet
  <2> DEFINE w == WithFlags(sheet[i], TRUE, sheet[i].fingerprint # f)
  <2>1. entries[i] = w
    BY <1>2
  <2>2. sheet[i] \in Records \cup Requests /\ sheet[i] \in Records
    OBVIOUS
  <2>3. (sheet[i].fingerprint # f) \in BOOLEAN /\ TRUE \in BOOLEAN
    OBVIOUS
  <2>4. /\ w \in Requests /\ w.id = sheet[i].id /\ Record(w) = Record(sheet[i])
        /\ w.body = sheet[i].body /\ w.supersedes = sheet[i].supersedes
        /\ Record(sheet[i]) = sheet[i] /\ w.exported = TRUE
    BY <2>2, <2>3, FlagsAre
  <2> HIDE DEF w, entries
  <2> QED  BY <2>1, <2>4
<1>5. DOMAIN entries = DOMAIN sheet
  BY <1>2
<1> HIDE DEF entries
<1>6. DOMAIN sheet = 1..Len(sheet) /\ Len(sheet) \in Nat
  OBVIOUS
<1>7. entries \in Seq(Requests) /\ Len(entries) = Len(sheet)
  <2>1. entries = [i \in 1..Len(sheet) |-> entries[i]]
    BY <1>2, <1>5, <1>6 DEF entries
  <2>2. entries \in [1..Len(sheet) -> Requests]
    BY <1>4, <1>6, <2>1
  <2> QED  BY <1>6, <2>2
<1>8. merged = entries
  BY <1>1, <1>7
<1> HIDE DEF merged, existing
<1>9. Distinct(sheet) /\ Fitting(sheet) /\ NoSelf(sheet)
  BY FittingHasNoSelf DEF SoundSheet
<1>10. ClaimedOnce(sheet) /\ NoCycle(sheet)
  BY <1>9, ConflictsAre DEF SoundSheet
<1>11. IdsOf(entries) = IdsOf(sheet)
  BY <1>4, <1>5 DEF IdsOf
<1>12. Distinct(entries) /\ NoSelf(entries) /\ ClaimedOnce(entries)
  BY <1>4, <1>5, <1>9, <1>10 DEF Distinct, NoSelf, ClaimedOnce
<1>13. NoCycle(entries)
  BY <1>4, <1>5, <1>10, <1>11 DEF NoCycle
<1>14. TargetsExported(entries)
  BY <1>4, <1>5 DEF TargetsExported, SoundSheet, IdsOf
<1>15. SupersedesProblems(entries) = {}
  BY <1>7, <1>12, <1>13, <1>14, ProblemsAre
<1>16. Restore(empty, sheet, f).ok /\ Restore(empty, sheet, f).requests = entries
  BY <1>1, <1>3, <1>7, <1>8, <1>15 DEF SoundSheet
<1> QED  BY <1>4, <1>5, <1>7, <1>16 DEF empty

-----------------------------------------------------------------------------
(* The invariant in two halves: what the pages list and store, and what they *)
(* show and let out.                                                       *)

ListsPart ==
  /\ requests \in [Tabs -> Seq(Requests)] /\ storage \in [Rendered -> Raws]
  /\ quarantine \in [Tabs -> BOOLEAN] /\ warned \in [Tabs -> BOOLEAN]
  /\ stale \in [Tabs -> BOOLEAN] /\ faults \in Nat
  /\ ListsSound /\ MarksAreTrue /\ SavedIsShown
  /\ \A t \in Tabs : IdsOf(requests[t]) \subseteq Known
  /\ \A f \in Rendered : IdsOf(storage[f].requests) \subseteq Known

SheetsPart ==
  /\ panel \in [Tabs -> Panels] /\ writing \in [Tabs -> Writes]
  /\ sheets \subseteq Seq(Records)
  /\ SheetsSound
  /\ \A t \in Tabs : /\ IdsOf(panel[t].sheet) \subseteq Known
                     /\ IdsOf(writing[t].sheet) \subseteq Known
  /\ \A s \in sheets : IdsOf(s) \subseteq Known

Counted == /\ page \in [Tabs -> Rendered] /\ working \in [Tabs -> BOOLEAN]
           /\ made \in 0..MaxNew

LEMMA PartsAre == PageInv <=> Counted /\ ListsPart /\ SheetsPart /\ PanelIsCurrent
  BY DEF PageInv, PageType, IdsKnown, ListsPart, SheetsPart, Counted

LEMMA PrimedPartsAre == PageInv' <=> Counted' /\ ListsPart' /\ SheetsPart' /\ PanelIsCurrent'
  BY DEF PageInv, PageType, IdsKnown, ListsPart, SheetsPart, Counted

\* A request may be stored.
LEMMA StoredIs ==
  ASSUME NEW list \in Seq(Requests)
  PROVE  Draft(list) \in Raws /\ Draft(list).requests = list /\ Draft(list).kind = "draft"
<1>1. \A i \in DOMAIN list : list[i] \in Requests
  OBVIOUS
<1>2. \A r \in Requests : r \in StoredRequests
  BY DEF Requests, StoredRequests
<1>3. list \in Seq(StoredRequests)
  BY <1>1, <1>2
<1> QED  BY <1>3 DEF Draft, Raws

\* A page that lists something sound, and stores it if it can, keeps its half of the invariant.
LEMMA ListKept ==
  ASSUME Counted, ListsPart, NEW t \in Tabs, NEW list \in Seq(Requests), SoundList(list),
         NEW q \in BOOLEAN, Persist(t, list, q),
         requests' = [requests EXCEPT ![t] = list], quarantine' = [quarantine EXCEPT ![t] = q],
         page' = page, working' = working,
         sheets \subseteq sheets', Known \subseteq Known', IdsOf(list) \subseteq Known',
         \A i \in DOMAIN list : list[i].exported /\ list[i].id \notin GivenIds =>
           \E s \in sheets' : Record(list[i]) \in Range(s)
  PROVE  ListsPart'
<1>0. page[t] \in Rendered
  BY DEF Counted
<1>1. /\ requests' \in [Tabs -> Seq(Requests)] /\ requests'[t] = list
      /\ \A u \in Tabs \ {t} : requests'[u] = requests[u]
  BY DEF ListsPart
<1>2. /\ quarantine' \in [Tabs -> BOOLEAN] /\ quarantine'[t] = q
      /\ \A u \in Tabs \ {t} : quarantine'[u] = quarantine[u]
  BY DEF ListsPart
<1>3. \/ q /\ UNCHANGED <<storage, warned, stale, faults>>
      \/ /\ storage' = [storage EXCEPT ![page[t]] = Draft(list)]
         /\ warned' = [warned EXCEPT ![t] = FALSE]
         /\ stale' = [u \in Tabs |-> u # t /\ (stale[u] \/ page[u] = page[t])]
         /\ faults' = faults /\ working[t]
      \/ /\ warned' = [warned EXCEPT ![t] = TRUE]
         /\ UNCHANGED <<storage, stale>> /\ faults' \in {faults, faults + 1}
  BY DEF Persist, Unsaved
<1>4. /\ Draft(list) \in Raws /\ Draft(list).requests = list /\ Draft(list).kind = "draft"
  BY StoredIs
<1>5. \/ storage' = storage
      \/ /\ storage'[page[t]] = Draft(list)
         /\ \A f \in Rendered \ {page[t]} : storage'[f] = storage[f]
  BY <1>0, <1>3 DEF ListsPart
<1>6. /\ storage' \in [Rendered -> Raws] /\ warned' \in [Tabs -> BOOLEAN]
      /\ stale' \in [Tabs -> BOOLEAN] /\ faults' \in Nat
  <2>1. CASE q /\ UNCHANGED <<storage, warned, stale, faults>>
    BY <2>1 DEF ListsPart
  <2>2. CASE /\ storage' = [storage EXCEPT ![page[t]] = Draft(list)]
             /\ warned' = [warned EXCEPT ![t] = FALSE]
             /\ stale' = [u \in Tabs |-> u # t /\ (stale[u] \/ page[u] = page[t])]
             /\ faults' = faults
    BY <1>4, <2>2 DEF ListsPart
  <2>3. CASE /\ warned' = [warned EXCEPT ![t] = TRUE]
             /\ UNCHANGED <<storage, stale>> /\ faults' \in {faults, faults + 1}
    BY <2>3 DEF ListsPart
  <2> QED  BY <1>3, <2>1, <2>2, <2>3
<1>7. ListsSound'
  BY <1>1 DEF ListsPart, ListsSound
<1>8. /\ \A u \in Tabs : IdsOf(requests[u])' \subseteq Known'
      /\ \A f \in Rendered : IdsOf(storage[f].requests)' \subseteq Known'
  <2>1. ASSUME NEW u \in Tabs PROVE IdsOf(requests'[u]) \subseteq Known'
    BY <1>1 DEF ListsPart
  <2>2. ASSUME NEW f \in Rendered PROVE IdsOf(storage'[f].requests) \subseteq Known'
    <3>1. storage'[f].requests = storage[f].requests \/ storage'[f].requests = list
      BY <1>4, <1>5
    <3> QED  BY <3>1 DEF ListsPart
  <2>3. /\ \A u \in Tabs : IdsOf(requests[u])' = IdsOf(requests'[u])
        /\ \A f \in Rendered : IdsOf(storage[f].requests)' = IdsOf(storage'[f].requests)
    BY DEF IdsOf
  <2> QED  BY <2>1, <2>2, <2>3
<1>9. MarksAreTrue'
  <2> DEFINE Left(l) == \A i \in DOMAIN l : l[i].exported /\ l[i].id \notin GivenIds =>
                          \E s \in sheets' : Record(l[i]) \in Range(s)
  <2>1. ASSUME NEW l, MarksLeft(l) PROVE Left(l)
    BY <2>1 DEF MarksLeft
  <2>2. Left(list)
    OBVIOUS
  <2>3. /\ \A u \in Tabs : MarksLeft(requests[u])
        /\ \A f \in Rendered : MarksLeft(storage[f].requests)
    BY DEF ListsPart, MarksAreTrue
  <2>4. MarksAreTrue' <=> /\ \A u \in Tabs : Left(requests'[u])
                          /\ \A f \in Rendered : Left(storage'[f].requests)
    BY DEF MarksAreTrue, MarksLeft
  <2> HIDE DEF Left
  <2>5. \A u \in Tabs : Left(requests'[u])
    BY <1>1, <2>1, <2>2, <2>3
  <2>6. ASSUME NEW f \in Rendered PROVE Left(storage'[f].requests)
    <3>1. storage'[f].requests = storage[f].requests \/ storage'[f].requests = list
      BY <1>4, <1>5
    <3> QED  BY <2>1, <2>2, <2>3, <3>1
  <2> QED  BY <2>4, <2>5, <2>6
<1>10. ASSUME NEW u \in Tabs
       PROVE  /\ ~working'[u] => warned'[u]
              /\ ~warned'[u] /\ ~quarantine'[u] /\ ~stale'[u] =>
                   /\ storage'[page'[u]].kind # "unreadable"
                   /\ storage'[page'[u]].requests = requests'[u]
  <2>1. CASE q /\ UNCHANGED <<storage, warned, stale, faults>>
    BY <1>1, <1>2, <2>1 DEF ListsPart, SavedIsShown
  <2>2. CASE /\ storage' = [storage EXCEPT ![page[t]] = Draft(list)]
             /\ warned' = [warned EXCEPT ![t] = FALSE]
             /\ stale' = [v \in Tabs |-> v # t /\ (stale[v] \/ page[v] = page[t])]
             /\ faults' = faults /\ working[t]
    <3>1. CASE u = t
      <4>1. storage'[page[t]] = Draft(list)
        BY <1>0, <2>2 DEF ListsPart
      <4> QED  BY <1>1, <1>4, <2>2, <3>1, <4>1
    <3>2. CASE u # t
      <4>1. warned'[u] = warned[u] /\ quarantine'[u] = quarantine[u] /\ requests'[u] = requests[u]
        BY <1>1, <1>2, <2>2, <3>2 DEF ListsPart
      <4>2. ~stale'[u] => ~stale[u] /\ page[u] # page[t]
        BY <2>2, <3>2
      <4>3. page[u] # page[t] => storage'[page[u]] = storage[page[u]]
        BY <2>2 DEF ListsPart, Counted
      <4> QED  BY <4>1, <4>2, <4>3 DEF ListsPart, SavedIsShown
    <3> QED  BY <3>1, <3>2
  <2>3. CASE /\ warned' = [warned EXCEPT ![t] = TRUE]
             /\ UNCHANGED <<storage, stale>>
    <3>1. CASE u = t
      BY <2>3, <3>1 DEF ListsPart
    <3>2. CASE u # t
      <4>1. warned'[u] = warned[u] /\ quarantine'[u] = quarantine[u] /\ requests'[u] = requests[u]
        BY <1>1, <1>2, <2>3, <3>2 DEF ListsPart
      <4> QED  BY <2>3, <4>1 DEF ListsPart, SavedIsShown
    <3> QED  BY <3>1, <3>2
  <2> QED  BY <1>3, <2>1, <2>2, <2>3
<1>11. SavedIsShown'
  BY <1>10 DEF SavedIsShown
<1> QED  BY <1>1, <1>2, <1>6, <1>7, <1>8, <1>9, <1>11 DEF ListsPart

\* A page that shows another panel, follows another write or lets out a sheet keeps its half.
LEMMA SheetsKept ==
  ASSUME SheetsPart, NEW t \in Tabs, NEW p \in Panels, NEW w \in Writes,
         panel' = [panel EXCEPT ![t] = p], writing' = [writing EXCEPT ![t] = w],
         p.kind = "export" => SoundSheet(p.sheet), w.pending => SoundSheet(w.sheet),
         IdsOf(p.sheet) \subseteq Known', IdsOf(w.sheet) \subseteq Known',
         \A s \in sheets' : s \in sheets \/ /\ s \in Seq(Records)
                                            /\ SoundSheet(s) /\ IdsOf(s) \subseteq Known',
         Known \subseteq Known'
  PROVE  SheetsPart'
<1>1. /\ panel' \in [Tabs -> Panels] /\ panel'[t] = p
      /\ \A u \in Tabs \ {t} : panel'[u] = panel[u]
  BY DEF SheetsPart
<1>2. /\ writing' \in [Tabs -> Writes] /\ writing'[t] = w
      /\ \A u \in Tabs \ {t} : writing'[u] = writing[u]
  BY DEF SheetsPart
<1>3. sheets' \subseteq Seq(Records) /\ \A s \in sheets' : SoundSheet(s) /\ IdsOf(s) \subseteq Known'
  BY DEF SheetsPart, SheetsSound
<1>4. ASSUME NEW u \in Tabs
      PROVE  /\ panel'[u].kind = "export" => SoundSheet(panel'[u].sheet)
             /\ writing'[u].pending => SoundSheet(writing'[u].sheet)
             /\ IdsOf(panel'[u].sheet) \subseteq Known' /\ IdsOf(writing'[u].sheet) \subseteq Known'
  BY <1>1, <1>2 DEF SheetsPart, SheetsSound
<1>5. SheetsSound' <=> /\ \A s \in sheets' : SoundSheet(s)
                       /\ \A u \in Tabs : panel'[u].kind = "export" => SoundSheet(panel'[u].sheet)
                       /\ \A u \in Tabs : writing'[u].pending => SoundSheet(writing'[u].sheet)
  BY DEF SheetsSound, SoundSheet, Distinct, Fitting, FitsSchema, SupersedesConflicts,
         DoublyClaimed, Cyclic, IdsOf, Range
<1>6. /\ \A s \in sheets' : IdsOf(s)' = IdsOf(s)
      /\ \A u \in Tabs : /\ IdsOf(panel[u].sheet)' = IdsOf(panel'[u].sheet)
                         /\ IdsOf(writing[u].sheet)' = IdsOf(writing'[u].sheet)
  BY DEF IdsOf
<1> QED  BY <1>1, <1>2, <1>3, <1>4, <1>5, <1>6 DEF SheetsPart

LEMMA KnownGrows ==
  ASSUME made \in Nat, made' \in Nat, made <= made'
  PROVE  Known \subseteq Known'
  BY DEF Known

\* A page that changes its list by a commit keeps the invariant.
LEMMA CommitKeeps ==
  ASSUME PageInv, NEW t \in Tabs, NEW list \in Seq(Requests), SoundList(list),
         Commit(t, list), UNCHANGED <<page, working, quarantine, sheets>>,
         made' \in 0..MaxNew, made <= made', IdsOf(list) \subseteq Known',
         \A i \in DOMAIN list : list[i].exported /\ list[i].id \notin GivenIds =>
           \E s \in sheets : Record(list[i]) \in Range(s)
  PROVE  PageInv'
<1>1. Counted /\ ListsPart /\ SheetsPart /\ PanelIsCurrent
  BY PartsAre
<1>2. Known \subseteq Known'
  BY <1>1, KnownGrows, PageAssumption DEF Counted
<1>3. quarantine[t] \in BOOLEAN /\ quarantine' = [quarantine EXCEPT ![t] = quarantine[t]]
  BY <1>1 DEF ListsPart
<1>4. /\ requests' = [requests EXCEPT ![t] = list] /\ Persist(t, list, quarantine[t])
      /\ \/ panel[t].kind = "export" /\ PanelBecomes(t, NoPanel)
         \/ panel[t].kind # "export" /\ UNCHANGED <<panel, writing>>
  BY DEF Commit
<1>5. ListsPart'
  BY <1>1, <1>2, <1>3, <1>4, ListKept
<1>6. panel[t] \in Panels /\ writing[t] \in Writes
  BY <1>1 DEF SheetsPart
<1>7. SheetsPart' /\ PanelIsCurrent'
  <2>1. CASE panel[t].kind = "export" /\ PanelBecomes(t, NoPanel)
    <3> DEFINE w == [writing[t] EXCEPT !.live = FALSE]
    <3>1. panel' = [panel EXCEPT ![t] = NoPanel] /\ writing' = [writing EXCEPT ![t] = w]
      BY <2>1 DEF PanelBecomes
    <3>2. /\ w \in Writes /\ w.pending = writing[t].pending /\ w.sheet = writing[t].sheet
          /\ w.live = FALSE
      BY <1>6 DEF Writes
    <3> HIDE DEF w
    <3>3. NoPanel \in Panels /\ NoPanel.kind = "none" /\ IdsOf(NoPanel.sheet) = {}
      BY DEF NoPanel, Panels, IdsOf
    <3>4. (writing[t].pending => SoundSheet(writing[t].sheet)) /\ IdsOf(writing[t].sheet) \subseteq Known
      BY <1>1 DEF SheetsPart, SheetsSound
    <3>5. SheetsPart'
      BY <1>1, <1>2, <3>1, <3>2, <3>3, <3>4, SheetsKept
    <3>6. /\ panel'[t] = NoPanel /\ writing'[t] = w
          /\ \A u \in Tabs \ {t} : /\ panel'[u] = panel[u] /\ writing'[u] = writing[u]
                                   /\ requests'[u] = requests[u]
      BY <1>1, <1>4, <3>1 DEF SheetsPart, ListsPart
    <3>7. PanelIsCurrent'
      BY <1>1, <3>2, <3>3, <3>6 DEF PanelIsCurrent, RecordsOf
    <3> QED  BY <3>5, <3>7
  <2>2. CASE panel[t].kind # "export" /\ UNCHANGED <<panel, writing>>
    <3>1. panel' = [panel EXCEPT ![t] = panel[t]] /\ writing' = [writing EXCEPT ![t] = writing[t]]
      BY <1>1, <2>2 DEF SheetsPart
    <3>2. /\ IdsOf(panel[t].sheet) \subseteq Known /\ IdsOf(writing[t].sheet) \subseteq Known
          /\ writing[t].pending => SoundSheet(writing[t].sheet)
      BY <1>1 DEF SheetsPart, SheetsSound
    <3>3. SheetsPart'
      BY <1>1, <1>2, <1>6, <2>2, <3>1, <3>2, SheetsKept
    <3>4. \A u \in Tabs \ {t} : requests'[u] = requests[u]
      BY <1>1, <1>4 DEF ListsPart
    <3>5. PanelIsCurrent'
      BY <1>1, <2>2, <3>4 DEF PanelIsCurrent, RecordsOf
    <3> QED  BY <3>3, <3>5
  <2> QED  BY <1>4, <2>1, <2>2
<1>8. Counted'
  BY <1>1 DEF Counted
<1> QED  BY <1>5, <1>7, <1>8, PrimedPartsAre

-----------------------------------------------------------------------------
(* Each operation of a page keeps the invariant.                            *)

\* The next id is new to all that was met.
LEMMA NextIdIsNew ==
  ASSUME made \in Nat, made < MaxNew, made' = made + 1
  PROVE  /\ NewId(made + 1) \in Ids /\ NewId(made + 1) \notin Known
         /\ NewId(made + 1) \in Known' /\ Known \subseteq Known'
         /\ made' \in 0..MaxNew /\ made <= made'
<1>1. made + 1 \in 1..MaxNew /\ made + 1 \notin 1..made /\ 1..made \subseteq 1..MaxNew
  BY PageAssumption
<1>2. NewId(made + 1) \in Ids \ GivenIds
  BY <1>1, NewIdAssumption
<1>3. \A n \in 1..made : NewId(n) # NewId(made + 1)
  BY <1>1, NewIdAssumption
<1>4. Known' = GivenIds \cup {NewId(n) : n \in 1..(made + 1)}
  BY DEF Known
<1>5. made + 1 \in 1..(made + 1) /\ \A n \in 1..made : n \in 1..(made + 1)
  OBVIOUS
<1>6. NewId(made + 1) \in Known' /\ Known \subseteq Known'
  BY <1>4, <1>5 DEF Known
<1> QED  BY <1>1, <1>2, <1>3, <1>6, PageAssumption DEF Known

\* What the invariant says of the list of a page.
LEMMA ListIs ==
  ASSUME PageInv, NEW t \in Tabs
  PROVE  /\ requests[t] \in Seq(Requests) /\ SoundList(requests[t]) /\ Distinct(requests[t])
         /\ IdsOf(requests[t]) \subseteq Known
         /\ \A i \in DOMAIN requests[t] :
              requests[t][i].exported /\ requests[t][i].id \notin GivenIds =>
                \E s \in sheets : Record(requests[t][i]) \in Range(s)
         /\ page[t] \in Fingerprints /\ quarantine[t] \in BOOLEAN /\ made \in 0..MaxNew
  BY PageAssumption DEF PageInv, PageType, ListsSound, SoundList, IdsKnown, MarksAreTrue,
     MarksLeft

\* The ids of a list that has one more request.
LEMMA AppendedIs ==
  ASSUME NEW list \in Seq(Requests), NEW r
  PROVE  /\ IdsOf(Append(list, r)) = IdsOf(list) \cup {r.id}
         /\ \A i \in DOMAIN Append(list, r) :
              \/ i \in DOMAIN list /\ Append(list, r)[i] = list[i]
              \/ Append(list, r)[i] = r
<1> DEFINE other == Append(list, r)
           last == Len(list) + 1
<1>1. /\ other[last] = r /\ DOMAIN other = DOMAIN list \cup {last}
      /\ \A i \in DOMAIN list : other[i] = list[i]
  OBVIOUS
<1> HIDE DEF other, last
<1>2. IdsOf(other) = IdsOf(list) \cup {r.id}
  BY <1>1 DEF IdsOf
<1>3. \A i \in DOMAIN other : (i \in DOMAIN list /\ other[i] = list[i]) \/ other[i] = r
  BY <1>1
<1> QED  BY <1>2, <1>3 DEF other

\* A page that adds a request which is not exported and supersedes nothing, or the last
\* version of an exported one.
LEMMA AddingKeeps ==
  ASSUME PageInv, NEW t \in Tabs, NEW r \in Requests, r.id = NewId(made + 1), ~r.exported,
         Len(requests[t]) < MAX_REVISIONS, r.supersedes \in IdsOf(requests[t]) \cup {NoId},
         \/ r.supersedes = NoId
         \/ /\ ~IsSuperseded(requests[t], r.supersedes)
            /\ \E j \in DOMAIN requests[t] :
                 requests[t][j].id = r.supersedes /\ requests[t][j].exported,
         Commit(t, Append(requests[t], r)), made < MaxNew, made' = made + 1,
         UNCHANGED <<page, working, quarantine, sheets>>
  PROVE  PageInv'
<1>1. /\ requests[t] \in Seq(Requests) /\ SoundList(requests[t])
      /\ IdsOf(requests[t]) \subseteq Known
      /\ \A i \in DOMAIN requests[t] :
           requests[t][i].exported /\ requests[t][i].id \notin GivenIds =>
             \E s \in sheets : Record(requests[t][i]) \in Range(s)
      /\ made \in Nat
  BY ListIs, PageAssumption
<1>2. /\ r.id \notin Known /\ r.id \in Known' /\ Known \subseteq Known'
      /\ made' \in 0..MaxNew /\ made <= made'
  BY <1>1, NextIdIsNew
<1>3. r.supersedes # r.id
  BY <1>1, <1>2, SheetAssumption DEF Requests
<1> DEFINE list == Append(requests[t], r)
<1>4. list \in Seq(Requests) /\ SoundList(list)
  BY <1>1, <1>2, <1>3, AppendIsSound
<1>5. /\ IdsOf(list) = IdsOf(requests[t]) \cup {r.id}
      /\ \A i \in DOMAIN list :
           (i \in DOMAIN requests[t] /\ list[i] = requests[t][i]) \/ list[i] = r
  BY <1>1, AppendedIs
<1>6. Commit(t, list)
  OBVIOUS
<1> HIDE DEF list
<1>7. IdsOf(list) \subseteq Known'
  BY <1>1, <1>2, <1>5
<1>8. \A i \in DOMAIN list : list[i].exported /\ list[i].id \notin GivenIds =>
        \E s \in sheets : Record(list[i]) \in Range(s)
  BY <1>1, <1>5
<1> QED  BY <1>2, <1>4, <1>6, <1>7, <1>8, CommitKeeps

LEMMA SubmitKeeps ==
  ASSUME PageInv, NEW t \in Tabs, NEW b \in Bodies, Submit(t, b)
  PROVE  PageInv'
<1> DEFINE n == [id |-> NewId(made + 1), body |-> b, fingerprint |-> page[t],
                 supersedes |-> NoId]
           r == WithFlags(n, FALSE, FALSE)
<1>1. /\ made < MaxNew /\ made' = made + 1 /\ ~AtTotalLimit(requests[t])
      /\ Commit(t, Append(requests[t], r)) /\ UNCHANGED <<page, working, quarantine, sheets>>
  BY DEF Submit
<1>2. page[t] \in Fingerprints /\ made \in Nat /\ requests[t] \in Seq(Requests)
  BY ListIs, PageAssumption
<1>3. NewId(made + 1) \in Ids
  BY <1>1, <1>2, NextIdIsNew
<1>4. /\ r \in Requests /\ r.id = NewId(made + 1) /\ r.supersedes = NoId /\ ~r.exported
  BY <1>2, <1>3 DEF WithFlags, Requests
<1>5. Len(requests[t]) < MAX_REVISIONS
  BY <1>1, <1>2, SheetAssumption DEF AtTotalLimit
<1> HIDE DEF r
<1> QED  BY <1>1, <1>4, <1>5, AddingKeeps

LEMMA EditExportedKeeps ==
  ASSUME PageInv, NEW t \in Tabs, NEW id \in IdsOf(requests[t]), NEW b \in Bodies,
         EditExported(t, id, b)
  PROVE  PageInv'
<1> DEFINE r == NewVersion(t, id, b)
<1>1. /\ made < MaxNew /\ made' = made + 1 /\ ~AtTotalLimit(requests[t])
      /\ ~IsSuperseded(requests[t], id) /\ Find(requests[t], id).exported
      /\ Commit(t, Append(requests[t], r)) /\ UNCHANGED <<page, working, quarantine, sheets>>
  BY DEF EditExported, CanEdit
<1>2. made \in Nat /\ requests[t] \in Seq(Requests) /\ Distinct(requests[t])
  BY ListIs, PageAssumption
<1>3. PICK j \in DOMAIN requests[t] : requests[t][j].id = id
  BY DEF IdsOf
<1>4. Find(requests[t], id) = requests[t][j]
  BY <1>2, <1>3, FindIs
<1>5. requests[t][j] \in Requests
  BY <1>2
<1>6. NewId(made + 1) \in Ids
  BY <1>1, <1>2, NextIdIsNew
<1>7. /\ r \in Requests /\ r.id = NewId(made + 1) /\ r.supersedes = id /\ ~r.exported
  BY <1>3, <1>4, <1>5, <1>6 DEF NewVersion, WithFlags, Requests
<1>8. Len(requests[t]) < MAX_REVISIONS
  BY <1>1, <1>2, SheetAssumption DEF AtTotalLimit
<1>9. requests[t][j].exported
  BY <1>1, <1>4
<1> HIDE DEF r
<1> QED  BY <1>1, <1>3, <1>7, <1>8, <1>9, AddingKeeps

LEMMA EditDraftKeeps ==
  ASSUME PageInv, NEW t \in Tabs, NEW id \in IdsOf(requests[t]), NEW b \in Bodies,
         EditDraft(t, id, b)
  PROVE  PageInv'
<1> DEFINE old == requests[t]
           list == [i \in DOMAIN old |->
                      IF old[i].id = id THEN [old[i] EXCEPT !.body = b] ELSE old[i]]
<1>1. /\ ~Find(old, id).exported /\ Commit(t, list) /\ made' = made
      /\ UNCHANGED <<page, working, quarantine, sheets>>
  BY DEF EditDraft
<1>2. /\ old \in Seq(Requests) /\ SoundList(old) /\ Distinct(old) /\ IdsOf(old) \subseteq Known
      /\ \A i \in DOMAIN old : old[i].exported /\ old[i].id \notin GivenIds =>
           \E s \in sheets : Record(old[i]) \in Range(s)
      /\ made \in 0..MaxNew
  BY ListIs
<1> HIDE DEF old
<1>3. \A i \in DOMAIN old : old[i].id = id => ~old[i].exported
  BY <1>1, <1>2, FindIs
<1>4. \A i \in DOMAIN old : old[i] \in Requests
  BY <1>2
<1>5. \A i \in DOMAIN old : /\ list[i] \in Requests /\ list[i].id = old[i].id
                            /\ list[i].supersedes = old[i].supersedes
                            /\ list[i].exported = old[i].exported
                            /\ list[i].exported => list[i] = old[i]
  <2> TAKE i \in DOMAIN old
  <2>1. CASE old[i].id = id
    <3>1. list[i] = [old[i] EXCEPT !.body = b] /\ ~old[i].exported /\ old[i] \in Requests
      BY <1>3, <1>4, <2>1
    <3> HIDE DEF list
    <3> QED  BY <3>1 DEF Requests
  <2>2. CASE old[i].id # id
    BY <1>4, <2>2
  <2> QED  BY <2>1, <2>2
<1>6. DOMAIN list = DOMAIN old /\ DOMAIN old = 1..Len(old) /\ Len(old) \in Nat
  BY <1>2
<1> HIDE DEF list
<1>7. list \in Seq(Requests) /\ Len(list) = Len(old)
  <2>1. list \in [1..Len(old) -> Requests]
    BY <1>5, <1>6 DEF list
  <2> QED  BY <1>6, <2>1
<1>8. SoundList(list)
  BY <1>2, <1>5, <1>7, SameChainIsSound
<1>9. IdsOf(list) = IdsOf(old)
  BY <1>5, <1>6 DEF IdsOf
<1>10. IdsOf(list) \subseteq Known'
  BY <1>1, <1>2, <1>9 DEF Known
<1>11. \A i \in DOMAIN list : list[i].exported /\ list[i].id \notin GivenIds =>
         \E s \in sheets : Record(list[i]) \in Range(s)
  BY <1>2, <1>5, <1>6
<1>12. made' \in 0..MaxNew /\ made <= made'
  BY <1>1, <1>2, PageAssumption
<1> QED  BY <1>1, <1>7, <1>8, <1>10, <1>11, <1>12, CommitKeeps

\* A sheet that is restored has sound revisions, whether it left a page or was given.
LEMMA RestoredAre ==
  ASSUME PageInv, NEW s \in sheets \cup GivenSheets, ParseSheet(s).ok
  PROVE  /\ ParseSheet(s).revisions \in Seq(Records)
         /\ Distinct(ParseSheet(s).revisions) /\ Fitting(ParseSheet(s).revisions)
         /\ IdsOf(ParseSheet(s).revisions) \subseteq Known
         /\ \A k \in DOMAIN ParseSheet(s).revisions :
              LET r == ParseSheet(s).revisions[k]
              IN r.id \in GivenIds \/ (s \in sheets /\ r \in Range(s))
<1> DEFINE revisions == ParseSheet(s).revisions
<1>1. CASE s \in sheets
  <2>1. s \in Seq(Records) /\ SoundSheet(s) /\ IdsOf(s) \subseteq Known
    BY <1>1 DEF PageInv, PageType, SheetsSound, IdsKnown
  <2>2. revisions = s
    BY <2>1, SoundSheetIsRead
  <2> HIDE DEF revisions
  <2>3. \A k \in DOMAIN revisions : revisions[k] \in Range(s)
    BY <2>2 DEF Range
  <2>4. Distinct(s) /\ Fitting(s)
    BY <2>1 DEF SoundSheet
  <2>5. /\ revisions \in Seq(Records) /\ Distinct(revisions) /\ Fitting(revisions)
        /\ IdsOf(revisions) \subseteq Known
    BY <2>1, <2>2, <2>4
  <2> QED  BY <1>1, <2>3, <2>5 DEF revisions
<1>2. CASE s \in GivenSheets
  <2>1. s \in Seq(GivenRecords)
    BY <1>2, GivenAssumption
  <2>2. revisions \in Seq(GivenRecords) /\ Distinct(revisions) /\ Fitting(revisions)
    BY <2>1, ParsedIs
  <2> HIDE DEF revisions
  <2>3. \A k \in DOMAIN revisions : revisions[k] \in GivenRecords /\ revisions[k].body # BadBody
    BY <2>2 DEF Fitting, FitsSchema
  <2>4. \A r \in GivenRecords : r.body # BadBody => r \in Records /\ r.id \in GivenIds
    BY PageAssumption DEF GivenRecords, Records
  <2>5. \A k \in DOMAIN revisions : revisions[k] \in Records /\ revisions[k].id \in GivenIds
    BY <2>3, <2>4
  <2>6. revisions \in Seq(Records)
    BY <2>2, <2>5
  <2>7. IdsOf(revisions) \subseteq Known
    BY <2>5 DEF IdsOf, Known
  <2> QED  BY <2>2, <2>5, <2>6, <2>7 DEF revisions
<1> QED  BY <1>1, <1>2

LEMMA ApplyRestoreKeeps ==
  ASSUME PageInv, NEW t \in Tabs, NEW s \in sheets \cup GivenSheets, ApplyRestore(t, s)
  PROVE  PageInv'
<1> DEFINE old == requests[t]
           revisions == ParseSheet(s).revisions
           list == Restore(old, revisions, page[t]).requests
<1>1. /\ ParseSheet(s).ok /\ Restore(old, revisions, page[t]).ok
      /\ Commit(t, list) /\ made' = made /\ UNCHANGED <<page, working, quarantine, sheets>>
  BY DEF ApplyRestore
<1>2. /\ old \in Seq(Requests) /\ SoundList(old) /\ IdsOf(old) \subseteq Known
      /\ \A i \in DOMAIN old : old[i].exported /\ old[i].id \notin GivenIds =>
           \E x \in sheets : Record(old[i]) \in Range(x)
      /\ made \in 0..MaxNew
  BY ListIs
<1>3. /\ revisions \in Seq(Records) /\ Distinct(revisions) /\ Fitting(revisions)
      /\ IdsOf(revisions) \subseteq Known
      /\ \A k \in DOMAIN revisions :
           revisions[k].id \in GivenIds \/ (s \in sheets /\ revisions[k] \in Range(s))
  BY <1>1, RestoredAre
<1> HIDE DEF old, revisions
<1>4. /\ list \in Seq(Requests) /\ SoundList(list)
      /\ IdsOf(list) \subseteq IdsOf(old) \cup IdsOf(revisions)
      /\ \A n \in DOMAIN list : list[n].exported =>
           \/ \E i \in DOMAIN old : Record(list[n]) = Record(old[i]) /\ old[i].exported
           \/ \E k \in DOMAIN revisions : Record(list[n]) = revisions[k]
  BY <1>1, <1>2, <1>3, RestoreIsSound
<1> HIDE DEF list
<1>5. IdsOf(list) \subseteq Known'
  BY <1>1, <1>2, <1>3, <1>4 DEF Known
<1>6. ASSUME NEW n \in DOMAIN list, list[n].exported, list[n].id \notin GivenIds
      PROVE  \E x \in sheets : Record(list[n]) \in Range(x)
  <2>1. Record(list[n]).id = list[n].id /\ \A i \in DOMAIN old : Record(old[i]).id = old[i].id
    BY DEF Record
  <2>2. CASE \E i \in DOMAIN old : Record(list[n]) = Record(old[i]) /\ old[i].exported
    BY <1>2, <1>6, <2>1, <2>2
  <2>3. CASE \E k \in DOMAIN revisions : Record(list[n]) = revisions[k]
    BY <1>3, <1>6, <2>1, <2>3
  <2> QED  BY <1>4, <1>6, <2>2, <2>3
<1>7. made' \in 0..MaxNew /\ made <= made'
  BY <1>1, <1>2, PageAssumption
<1> QED  BY <1>1, <1>4, <1>5, <1>6, <1>7, CommitKeeps

\* Lists and storage stay as they are, whatever leaves the page.
LEMMA ListsStay ==
  ASSUME ListsPart, UNCHANGED <<page, working, storage, requests, quarantine, warned, stale>>,
         faults' \in Nat, sheets \subseteq sheets', Known \subseteq Known'
  PROVE  ListsPart'
<1>1. ListsSound'
  BY DEF ListsPart, ListsSound
<1>2. MarksAreTrue'
  BY DEF ListsPart, MarksAreTrue, MarksLeft
<1>3. SavedIsShown'
  BY DEF ListsPart, SavedIsShown
<1>4. /\ \A t \in Tabs : IdsOf(requests[t])' \subseteq Known'
      /\ \A f \in Rendered : IdsOf(storage[f].requests)' \subseteq Known'
  <2>1. /\ \A t \in Tabs : IdsOf(requests[t])' = IdsOf(requests[t])
        /\ \A f \in Rendered : IdsOf(storage[f].requests)' = IdsOf(storage[f].requests)
    BY DEF IdsOf
  <2> QED  BY <2>1 DEF ListsPart
<1> QED  BY <1>1, <1>2, <1>3, <1>4 DEF ListsPart

\* A panel is opened or closed: the write of the one before no longer marks anything.
LEMMA PanelKeeps ==
  ASSUME PageInv, NEW t \in Tabs, NEW p \in Panels, PanelBecomes(t, p),
         p.kind = "export" => SoundSheet(p.sheet) /\ p.sheet = RecordsOf(requests[t]),
         IdsOf(p.sheet) \subseteq Known,
         UNCHANGED <<page, working, storage, requests, quarantine, warned, sheets, stale, made,
                     faults>>
  PROVE  PageInv'
<1>1. Counted /\ ListsPart /\ SheetsPart /\ PanelIsCurrent
  BY PartsAre
<1>2. Known' = Known
  BY DEF Known
<1> DEFINE w == [writing[t] EXCEPT !.live = FALSE]
<1>3. writing[t] \in Writes
  BY <1>1 DEF SheetsPart
<1>4. panel' = [panel EXCEPT ![t] = p] /\ writing' = [writing EXCEPT ![t] = w]
  BY DEF PanelBecomes
<1>5. /\ w \in Writes /\ w.pending = writing[t].pending /\ w.sheet = writing[t].sheet
      /\ w.live = FALSE
  BY <1>3 DEF Writes
<1> HIDE DEF w
<1>6. (writing[t].pending => SoundSheet(writing[t].sheet)) /\ IdsOf(writing[t].sheet) \subseteq Known
  BY <1>1 DEF SheetsPart, SheetsSound
<1>7. SheetsPart'
  BY <1>1, <1>2, <1>4, <1>5, <1>6, SheetsKept
<1>8. /\ panel'[t] = p /\ writing'[t] = w
      /\ \A u \in Tabs \ {t} : panel'[u] = panel[u] /\ writing'[u] = writing[u]
  BY <1>1, <1>4 DEF SheetsPart
<1>9. PanelIsCurrent'
  BY <1>1, <1>5, <1>8 DEF PanelIsCurrent, RecordsOf
<1>10. ListsPart'
  BY <1>1, <1>2, ListsStay DEF ListsPart
<1>11. Counted'
  BY <1>1 DEF Counted
<1> QED  BY <1>7, <1>9, <1>10, <1>11, PrimedPartsAre

LEMMA OpenExportPanelKeeps ==
  ASSUME PageInv, NEW t \in Tabs, OpenExportPanel(t)
  PROVE  PageInv'
<1> DEFINE result == ExportSheet(requests[t])
           p == IF result.ok THEN ExportPanel(result.revisions) ELSE ErrorPanel
<1>1. /\ PanelBecomes(t, p)
      /\ UNCHANGED <<page, working, storage, requests, quarantine, warned, sheets, stale, made,
                     faults>>
  BY DEF OpenExportPanel
<1>2. /\ requests[t] \in Seq(Requests) /\ SoundList(requests[t])
      /\ IdsOf(requests[t]) \subseteq Known
  BY ListIs
<1>3. result.revisions = RecordsOf(requests[t]) /\ (result.ok => SoundSheet(RecordsOf(requests[t])))
  BY <1>2, ExportIsSound
<1>4. /\ RecordsOf(requests[t]) \in Seq(Records)
      /\ IdsOf(RecordsOf(requests[t])) = IdsOf(requests[t])
  BY <1>2, RecordsOfIs
<1> HIDE DEF result
<1>5. CASE result.ok
  <2>1. p = [kind |-> "export", sheet |-> RecordsOf(requests[t])]
    BY <1>3, <1>5 DEF ExportPanel
  <2> HIDE DEF p
  <2>2. p \in Panels /\ p.kind = "export" /\ p.sheet = RecordsOf(requests[t])
    BY <1>4, <2>1 DEF Panels
  <2> QED  BY <1>1, <1>2, <1>3, <1>4, <1>5, <2>2, PanelKeeps
<1>6. CASE ~result.ok
  <2>1. p = [kind |-> "export-error", sheet |-> <<>>]
    BY <1>6 DEF ErrorPanel
  <2> HIDE DEF p
  <2>2. p \in Panels /\ p.kind # "export" /\ IdsOf(p.sheet) = {}
    BY <2>1 DEF Panels, IdsOf
  <2> QED  BY <1>1, <2>2, PanelKeeps
<1> QED  BY <1>5, <1>6

LEMMA OtherPanelKeeps ==
  ASSUME PageInv, NEW t \in Tabs, OpenRestorePanel(t) \/ LeaveAndReturn(t)
  PROVE  PageInv'
<1>1. /\ UNCHANGED <<page, working, storage, requests, quarantine, warned, sheets, stale, made,
                     faults>>
      /\ PanelBecomes(t, RestorePanel) \/ PanelBecomes(t, NoPanel)
  BY DEF OpenRestorePanel, LeaveAndReturn
<1>2. /\ RestorePanel \in Panels /\ RestorePanel.kind # "export" /\ IdsOf(RestorePanel.sheet) = {}
      /\ NoPanel \in Panels /\ NoPanel.kind # "export" /\ IdsOf(NoPanel.sheet) = {}
  BY DEF RestorePanel, NoPanel, Panels, IdsOf
<1> QED  BY <1>1, <1>2, PanelKeeps

\* The requests of a page are marked for a sheet of all of them that leaves it.
LEMMA MarkKeepsLists ==
  ASSUME PageInv, NEW t \in Tabs, NEW sheet, sheet = RecordsOf(requests[t]), Mark(t, sheet),
         sheets' = sheets \cup {sheet}, UNCHANGED <<page, working, quarantine, made>>
  PROVE  /\ ListsPart'
         /\ \A u \in Tabs : RecordsOf(requests'[u]) = RecordsOf(requests[u])
<1>1. Counted /\ ListsPart
  BY PartsAre
<1> DEFINE old == requests[t]
           list == MarkExported(old, IdsOf(sheet))
<1>2. requests' = [requests EXCEPT ![t] = list] /\ Persist(t, list, quarantine[t])
  BY DEF Mark
<1>3. /\ old \in Seq(Requests) /\ SoundList(old) /\ IdsOf(old) \subseteq Known
      /\ quarantine[t] \in BOOLEAN
  BY ListIs
<1>4. /\ DOMAIN sheet = DOMAIN old /\ IdsOf(sheet) = IdsOf(old)
      /\ \A i \in DOMAIN old : sheet[i] = Record(old[i])
  BY <1>3, RecordsOfIs
<1> HIDE DEF old
<1>5. \A i \in DOMAIN old : /\ list[i] \in Requests /\ list[i].id = old[i].id
                            /\ list[i].supersedes = old[i].supersedes
                            /\ Record(list[i]) = Record(old[i]) /\ list[i].exported
  <2> TAKE i \in DOMAIN old
  <2>1. old[i] \in Requests /\ old[i].id \in IdsOf(sheet)
    <3>1. old[i] \in Requests
      BY <1>3
    <3>2. old[i].id \in IdsOf(old)
      BY DEF IdsOf
    <3> QED  BY <1>4, <3>1, <3>2
  <2>2. list[i] = WithFlags(old[i], TRUE, old[i].pending)
    BY <2>1 DEF MarkExported
  <2>3. old[i] \in Records \cup Requests /\ old[i].pending \in BOOLEAN /\ TRUE \in BOOLEAN
    BY <2>1 DEF Requests
  <2> DEFINE w == WithFlags(old[i], TRUE, old[i].pending)
  <2>4. /\ w \in Requests /\ w.id = old[i].id /\ w.supersedes = old[i].supersedes
        /\ Record(w) = Record(old[i]) /\ w.exported = TRUE
    BY <2>3, FlagsAre
  <2> HIDE DEF w, list
  <2> QED  BY <2>2, <2>4 DEF w
<1>6. DOMAIN list = DOMAIN old /\ DOMAIN old = 1..Len(old) /\ Len(old) \in Nat
  BY <1>3 DEF MarkExported
<1>7. list = [i \in 1..Len(old) |-> list[i]]
  BY <1>6 DEF MarkExported
<1> HIDE DEF list
<1>8. list \in Seq(Requests) /\ Len(list) = Len(old)
  <2>1. list \in [1..Len(old) -> Requests]
    BY <1>5, <1>6, <1>7
  <2> QED  BY <1>6, <2>1
<1>9. SoundList(list)
  BY <1>3, <1>5, <1>8, SameChainIsSound
<1>10. IdsOf(list) \subseteq Known /\ Known' = Known
  BY <1>3, <1>5, <1>6 DEF IdsOf, Known
<1>11. \A i \in DOMAIN list : list[i].exported /\ list[i].id \notin GivenIds =>
         \E s \in sheets' : Record(list[i]) \in Range(s)
  <2>1. \A i \in DOMAIN list : Record(list[i]) \in Range(sheet)
    BY <1>4, <1>5, <1>6 DEF Range
  <2> QED  BY <2>1
<1>12. quarantine' = [quarantine EXCEPT ![t] = quarantine[t]]
  BY <1>1 DEF ListsPart
<1>13. ListsPart'
  <2> DEFINE q == quarantine[t]
  <2>1. Counted
    BY <1>1
  <2>2. ListsPart
    BY <1>1
  <2>3. page' = page
    OBVIOUS
  <2>4. working' = working
    OBVIOUS
  <2>5. sheets \subseteq sheets'
    OBVIOUS
  <2>6. Known \subseteq Known'
    BY <1>10
  <2>7. IdsOf(list) \subseteq Known'
    BY <1>10
  <2>8. q \in BOOLEAN
    BY <1>3
  <2>9. Persist(t, list, q)
    BY <1>2
  <2>10. requests' = [requests EXCEPT ![t] = list]
    BY <1>2
  <2>11. quarantine' = [quarantine EXCEPT ![t] = q]
    BY <1>12
  <2>12. list \in Seq(Requests)
    BY <1>8
  <2> HIDE DEF q
  <2> QED  BY ONLY <2>1, <2>2, <2>3, <2>4, <2>5, <2>6, <2>7, <2>8, <2>9, <2>10, <2>11, <2>12,
             <1>9, <1>11, ListKept
<1>14. RecordsOf(list) = RecordsOf(old)
  BY <1>5, <1>6 DEF RecordsOf
<1>15. requests'[t] = list /\ \A u \in Tabs \ {t} : requests'[u] = requests[u]
  BY <1>1, <1>2 DEF ListsPart
<1> QED  BY <1>13, <1>14, <1>15 DEF old

\* A sound sheet leaves a page, or none does; a write is over or goes on.
LEMMA LeavingKeeps ==
  ASSUME PageInv, NEW t \in Tabs, NEW w \in {NoWrite, writing[t]},
         writing' = [writing EXCEPT ![t] = w], UNCHANGED <<page, working, panel, made>>,
         \A s \in sheets' : s \in sheets \/ /\ s \in Seq(Records)
                                            /\ SoundSheet(s) /\ IdsOf(s) \subseteq Known,
         ListsPart', \A u \in Tabs : RecordsOf(requests'[u]) = RecordsOf(requests[u])
  PROVE  PageInv'
<1>1. Counted /\ ListsPart /\ SheetsPart /\ PanelIsCurrent
  BY PartsAre
<1>2. Known' = Known
  BY DEF Known
<1>3. /\ panel[t] \in Panels /\ panel' = [panel EXCEPT ![t] = panel[t]]
      /\ panel[t].kind = "export" => SoundSheet(panel[t].sheet)
      /\ IdsOf(panel[t].sheet) \subseteq Known
  BY <1>1 DEF SheetsPart, SheetsSound
<1>4. NoWrite \in Writes /\ ~NoWrite.pending /\ ~NoWrite.live /\ IdsOf(NoWrite.sheet) = {}
  BY DEF NoWrite, Writes, IdsOf
<1>5. /\ writing[t] \in Writes /\ (writing[t].pending => SoundSheet(writing[t].sheet))
      /\ IdsOf(writing[t].sheet) \subseteq Known
  BY <1>1 DEF SheetsPart, SheetsSound
<1>6. /\ w \in Writes /\ (w.pending => SoundSheet(w.sheet)) /\ IdsOf(w.sheet) \subseteq Known
  BY <1>4, <1>5
<1>7. SheetsPart'
  BY <1>1, <1>2, <1>3, <1>6, SheetsKept
<1>8. writing'[t] = w /\ \A u \in Tabs \ {t} : writing'[u] = writing[u]
  BY <1>1 DEF SheetsPart
<1>9. \A u \in Tabs : RecordsOf(requests[u])' = RecordsOf(requests[u])
  BY DEF RecordsOf
<1>10. PanelIsCurrent'
  BY <1>1, <1>4, <1>8, <1>9 DEF PanelIsCurrent
<1>11. Counted'
  BY <1>1 DEF Counted
<1> QED  BY <1>7, <1>10, <1>11, PrimedPartsAre

\* What the invariant says of the sheets of a page.
LEMMA SheetsAre ==
  ASSUME PageInv, NEW t \in Tabs
  PROVE  /\ panel[t] \in Panels /\ writing[t] \in Writes
         /\ panel[t].sheet \in Seq(Records) /\ writing[t].sheet \in Seq(Records)
         /\ panel[t].kind = "export" => /\ SoundSheet(panel[t].sheet)
                                        /\ panel[t].sheet = RecordsOf(requests[t])
         /\ writing[t].pending => SoundSheet(writing[t].sheet)
         /\ writing[t].live => /\ writing[t].sheet = panel[t].sheet
                               /\ writing[t].sheet = RecordsOf(requests[t])
         /\ IdsOf(panel[t].sheet) \subseteq Known /\ IdsOf(writing[t].sheet) \subseteq Known
         /\ writing = [writing EXCEPT ![t] = writing[t]]
         /\ faults \in Nat
<1>1. panel[t] \in Panels /\ writing[t] \in Writes
  BY DEF PageInv, PageType
<1>2. panel[t].sheet \in Seq(Records) /\ writing[t].sheet \in Seq(Records)
  BY <1>1 DEF Panels, Writes
<1>3. /\ panel[t].kind = "export" => /\ SoundSheet(panel[t].sheet)
                                     /\ panel[t].sheet = RecordsOf(requests[t])
      /\ writing[t].pending => SoundSheet(writing[t].sheet)
      /\ writing[t].live => panel[t].kind = "export" /\ writing[t].sheet = panel[t].sheet
  BY DEF PageInv, SheetsSound, PanelIsCurrent
<1> QED  BY <1>1, <1>2, <1>3 DEF PageInv, IdsKnown, PageType

LEMMA HandOffKeeps ==
  ASSUME PageInv, NEW t \in Tabs, HandOff(t)
  PROVE  PageInv'
<1> DEFINE sheet == panel[t].sheet
<1>1. /\ panel[t].kind = "export" /\ sheets' = sheets \cup {sheet} /\ Mark(t, sheet)
      /\ UNCHANGED <<page, working, panel, writing, quarantine, made>>
  BY DEF HandOff, Leaves
<1>2. /\ sheet \in Seq(Records) /\ SoundSheet(sheet) /\ IdsOf(sheet) \subseteq Known
      /\ sheet = RecordsOf(requests[t]) /\ writing = [writing EXCEPT ![t] = writing[t]]
  BY <1>1, SheetsAre
<1> HIDE DEF sheet
<1>3. ListsPart' /\ \A u \in Tabs : RecordsOf(requests'[u]) = RecordsOf(requests[u])
  BY <1>1, <1>2, MarkKeepsLists
<1> QED  BY <1>1, <1>2, <1>3, LeavingKeeps

LEMMA StartCopyKeeps ==
  ASSUME PageInv, NEW t \in Tabs, StartCopy(t)
  PROVE  PageInv'
<1> DEFINE w == [pending |-> TRUE, live |-> TRUE, sheet |-> panel[t].sheet]
<1>1. /\ panel[t].kind = "export" /\ writing' = [writing EXCEPT ![t] = w]
      /\ UNCHANGED <<page, working, storage, requests, panel, quarantine, warned, sheets, stale,
                     made, faults>>
  BY DEF StartCopy
<1>2. Counted /\ ListsPart /\ SheetsPart /\ PanelIsCurrent
  BY PartsAre
<1>3. /\ panel[t] \in Panels /\ panel[t].sheet \in Seq(Records) /\ SoundSheet(panel[t].sheet)
      /\ IdsOf(panel[t].sheet) \subseteq Known /\ panel' = [panel EXCEPT ![t] = panel[t]]
  BY <1>1, <1>2, SheetsAre DEF SheetsPart
<1>4. Known' = Known
  BY <1>1 DEF Known
<1>5. w \in Writes /\ w.sheet = panel[t].sheet /\ w.pending /\ w.live
  BY <1>3 DEF Writes
<1> HIDE DEF w
<1>6. SheetsPart'
  BY <1>1, <1>2, <1>3, <1>4, <1>5, SheetsKept
<1>7. writing'[t] = w /\ \A u \in Tabs \ {t} : writing'[u] = writing[u]
  BY <1>1, <1>2 DEF SheetsPart
<1>8. PanelIsCurrent'
  BY <1>1, <1>2, <1>5, <1>7 DEF PanelIsCurrent, RecordsOf
<1>9. ListsPart' /\ Counted'
  BY <1>1, <1>2, <1>4, ListsStay DEF ListsPart, Counted
<1> QED  BY <1>6, <1>8, <1>9, PrimedPartsAre

\* The answer of the clipboard, whether it wrote the sheet, failed, or the page copied what it
\* shows instead.
LEMMA CopyKeeps ==
  ASSUME PageInv, NEW t \in Tabs, CopyDone(t) \/ CopyFailed(t)
  PROVE  PageInv'
<1>1. /\ writing[t].pending /\ writing' = [writing EXCEPT ![t] = NoWrite]
      /\ UNCHANGED <<page, working, panel, quarantine, made>>
  BY DEF CopyDone, CopyFailed
<1>2. Counted /\ ListsPart /\ SheetsPart /\ PanelIsCurrent
  BY PartsAre
<1>3. Known' = Known
  BY <1>1 DEF Known
<1>4. CASE UNCHANGED <<requests, storage, warned, sheets, stale, faults>>
  <2>1. ListsPart'
    BY <1>1, <1>2, <1>3, <1>4, ListsStay DEF ListsPart
  <2>2. \A u \in Tabs : RecordsOf(requests'[u]) = RecordsOf(requests[u])
    BY <1>4
  <2> QED  BY <1>1, <1>4, <2>1, <2>2, LeavingKeeps
<1>5. ASSUME NEW sheet, sheet = writing[t].sheet \/ (panel[t].kind = "export" /\ sheet = panel[t].sheet),
             sheets' = sheets \cup {sheet}, HandOffLater(t, writing[t].sheet)
      PROVE  PageInv'
  <2>1. sheet \in Seq(Records) /\ SoundSheet(sheet) /\ IdsOf(sheet) \subseteq Known
    BY <1>1, <1>5, SheetsAre
  <2>2. ListsPart' /\ \A u \in Tabs : RecordsOf(requests'[u]) = RecordsOf(requests[u])
    <3>1. CASE writing[t].live
      <4>1. sheet = writing[t].sheet /\ sheet = RecordsOf(requests[t]) /\ Mark(t, sheet)
        BY <1>5, <3>1, SheetsAre DEF HandOffLater
      <4> QED  BY <1>1, <1>5, <4>1, MarkKeepsLists
    <3>2. CASE ~writing[t].live
      <4>1. UNCHANGED <<requests, storage, warned, stale, faults>>
        BY <1>5, <3>2 DEF HandOffLater
      <4>2. ListsPart'
        BY <1>1, <1>2, <1>3, <1>5, <4>1, ListsStay DEF ListsPart
      <4> QED  BY <4>1, <4>2
    <3> QED  BY <3>1, <3>2
  <2> QED  BY <1>1, <1>5, <2>1, <2>2, LeavingKeeps
<1>6. \/ UNCHANGED <<requests, storage, warned, sheets, stale, faults>>
      \/ sheets' = sheets \cup {writing[t].sheet} /\ HandOffLater(t, writing[t].sheet)
      \/ /\ panel[t].kind = "export" /\ sheets' = sheets \cup {panel[t].sheet}
         /\ HandOffLater(t, writing[t].sheet)
  BY DEF CopyDone, CopyFailed, Leaves
<1> QED  BY <1>4, <1>5, <1>6

\* The panels, the writes and the sheets of all pages stay as they are.
LEMMA SheetsStay ==
  ASSUME SheetsPart, UNCHANGED <<panel, writing, sheets>>, Known \subseteq Known'
  PROVE  SheetsPart'
<1>1. SheetsSound'
  BY DEF SheetsPart, SheetsSound
<1>2. /\ \A s \in sheets : IdsOf(s)' = IdsOf(s)
      /\ \A u \in Tabs : /\ IdsOf(panel[u].sheet)' = IdsOf(panel[u].sheet)
                         /\ IdsOf(writing[u].sheet)' = IdsOf(writing[u].sheet)
  BY DEF IdsOf
<1>3. \A s \in sheets' : IdsOf(s)' = IdsOf(s)
  BY DEF IdsOf
<1> QED  BY <1>1, <1>2, <1>3 DEF SheetsPart

LEMMA DiscardKeeps ==
  ASSUME PageInv, NEW t \in Tabs, DiscardQuarantine(t)
  PROVE  PageInv'
<1> DEFINE list == requests[t]
           q == FALSE
<1>1. /\ quarantine' = [quarantine EXCEPT ![t] = q] /\ Persist(t, list, q)
      /\ UNCHANGED <<page, working, requests, panel, writing, sheets, made>>
  BY DEF DiscardQuarantine
<1>2. Counted /\ ListsPart /\ SheetsPart /\ PanelIsCurrent
  BY PartsAre
<1>3. /\ list \in Seq(Requests) /\ SoundList(list) /\ IdsOf(list) \subseteq Known
      /\ \A i \in DOMAIN list : list[i].exported /\ list[i].id \notin GivenIds =>
           \E s \in sheets : Record(list[i]) \in Range(s)
  BY ListIs
<1>4. requests' = [requests EXCEPT ![t] = list]
  BY <1>1, <1>2 DEF ListsPart
<1>5. q \in BOOLEAN /\ Known' = Known
  BY <1>1 DEF Known
<1> HIDE DEF list, q
<1>6. /\ page' = page /\ working' = working /\ sheets \subseteq sheets'
      /\ Known \subseteq Known' /\ IdsOf(list) \subseteq Known'
  BY <1>1, <1>3, <1>5
<1>7. \A i \in DOMAIN list : list[i].exported /\ list[i].id \notin GivenIds =>
        \E s \in sheets' : Record(list[i]) \in Range(s)
  BY <1>1, <1>3
<1>8. ListsPart'
  <2>1. /\ quarantine' = [quarantine EXCEPT ![t] = q] /\ Persist(t, list, q)
        /\ list \in Seq(Requests) /\ SoundList(list) /\ q \in BOOLEAN
    BY <1>1, <1>3, <1>5
  <2>2. Counted /\ ListsPart
    BY <1>2
  <2> QED  BY ONLY <1>4, <1>6, <1>7, <2>1, <2>2, ListKept
<1>9. SheetsPart'
  BY <1>1, <1>2, <1>5, SheetsStay
<1>10. Counted' /\ PanelIsCurrent'
  BY <1>1, <1>2 DEF Counted, PanelIsCurrent, RecordsOf
<1> QED  BY <1>8, <1>9, <1>10, PrimedPartsAre

\* Another page may write what it has: nothing a reader made, and the page is warned.
LEMMA ElsewhereKeeps ==
  ASSUME PageInv, NEW f \in Rendered, NEW raw \in Planted[f], WriteFromElsewhere(f, raw)
  PROVE  PageInv'
<1>1. /\ storage' = [storage EXCEPT ![f] = raw] /\ faults' = faults + 1
      /\ stale' = [t \in Tabs |-> stale[t] \/ page[t] = f]
      /\ UNCHANGED <<page, working, requests, panel, writing, quarantine, warned, sheets, made>>
  BY DEF WriteFromElsewhere, shown
<1>2. Counted /\ ListsPart /\ SheetsPart /\ PanelIsCurrent
  BY PartsAre
<1>3. /\ raw \in Raws /\ \A i \in DOMAIN raw.requests : raw.requests[i].id \in GivenIds
  <2>1. CASE raw = Unreadable
    BY <2>1 DEF Unreadable, Raws
  <2>2. CASE raw \in [kind : {"draft"}, requests : Seq(GivenRequests)]
    <3>1. raw.requests \in Seq(GivenRequests) /\ raw = [kind |-> "draft", requests |-> raw.requests]
      BY <2>2
    <3>2. \A r \in GivenRequests : r \in StoredRequests /\ r.id \in GivenIds
      BY PageAssumption DEF GivenRequests, StoredRequests
    <3>3. \A i \in DOMAIN raw.requests : raw.requests[i] \in GivenRequests
      BY <3>1
    <3>4. raw.requests \in Seq(StoredRequests)
      BY <3>1, <3>2, <3>3
    <3>5. raw \in Raws
      BY <3>1, <3>4 DEF Raws
    <3> QED  BY <3>2, <3>3, <3>5
  <2> QED  BY <2>1, <2>2, GivenAssumption
<1>4. /\ storage' \in [Rendered -> Raws] /\ storage'[f] = raw
      /\ \A g \in Rendered \ {f} : storage'[g] = storage[g]
  BY <1>1, <1>2, <1>3 DEF ListsPart
<1>5. Known' = Known
  BY <1>1 DEF Known
<1>6. MarksAreTrue'
  <2> DEFINE Left(l) == \A i \in DOMAIN l : l[i].exported /\ l[i].id \notin GivenIds =>
                          \E s \in sheets' : Record(l[i]) \in Range(s)
  <2>1. /\ \A u \in Tabs : Left(requests[u])
        /\ \A g \in Rendered : Left(storage[g].requests)
    BY <1>1, <1>2 DEF ListsPart, MarksAreTrue, MarksLeft
  <2>2. MarksAreTrue' <=> /\ \A u \in Tabs : Left(requests'[u])
                          /\ \A g \in Rendered : Left(storage'[g].requests)
    BY DEF MarksAreTrue, MarksLeft
  <2>3. Left(raw.requests)
    BY <1>3
  <2> HIDE DEF Left
  <2> QED  BY <1>1, <1>4, <2>1, <2>2, <2>3
<1>7. SavedIsShown'
  BY <1>1, <1>2, <1>4 DEF ListsPart, SavedIsShown, Counted
<1>8. \A g \in Rendered : IdsOf(storage[g].requests)' \subseteq Known'
  <2>1. \A g \in Rendered : IdsOf(storage[g].requests)' = IdsOf(storage'[g].requests)
    BY DEF IdsOf
  <2>2. IdsOf(raw.requests) \subseteq Known
    BY <1>3 DEF IdsOf, Known
  <2> QED  BY <1>2, <1>4, <1>5, <2>1, <2>2 DEF ListsPart
<1>9. ListsSound'
  BY <1>1, <1>2 DEF ListsPart, ListsSound
<1>10. \A u \in Tabs : IdsOf(requests[u])' \subseteq Known'
  <2>1. \A u \in Tabs : IdsOf(requests[u])' = IdsOf(requests[u])
    BY <1>1 DEF IdsOf
  <2> QED  BY <1>2, <1>5, <2>1 DEF ListsPart
<1>11. stale' \in [Tabs -> BOOLEAN] /\ faults' \in Nat
  BY <1>1, <1>2 DEF ListsPart
<1>12. ListsPart'
  BY <1>1, <1>2, <1>4, <1>6, <1>7, <1>8, <1>9, <1>10, <1>11 DEF ListsPart
<1>13. SheetsPart'
  BY <1>1, <1>2, <1>5, SheetsStay
<1>14. Counted' /\ PanelIsCurrent'
  BY <1>1, <1>2 DEF Counted, PanelIsCurrent, RecordsOf
<1> QED  BY <1>12, <1>13, <1>14, PrimedPartsAre

\* A page that is loaded shows what was stored, as far as that is sound.
LEMMA LoadKeeps ==
  ASSUME PageInv, NEW t \in Tabs, NEW f \in Rendered, Load(t, f)
  PROVE  PageInv'
<1> DEFINE raw == storage[f]
           list == Loaded(t, f).requests
           ok == Loaded(t, f).ok
<1>1. Counted /\ ListsPart /\ SheetsPart /\ PanelIsCurrent
  BY PartsAre
<1>2. /\ page' = [page EXCEPT ![t] = f] /\ requests' = [requests EXCEPT ![t] = list]
      /\ quarantine' = [quarantine EXCEPT ![t] = ~ok] /\ warned' = [warned EXCEPT ![t] = ~working[t]]
      /\ panel' = [panel EXCEPT ![t] = NoPanel] /\ writing' = [writing EXCEPT ![t] = NoWrite]
      /\ stale' = [stale EXCEPT ![t] = FALSE] /\ UNCHANGED <<working, storage, made, faults>>
      /\ sheets' = sheets \/ (writing[t].pending /\ sheets' = sheets \cup {writing[t].sheet})
  BY DEF Load, Leaves
<1>3. raw \in Raws /\ IdsOf(raw.requests) \subseteq Known /\ MarksLeft(raw.requests)
  BY <1>1 DEF ListsPart, MarksAreTrue
<1>4. /\ list \in Seq(Requests) /\ SoundList(list) /\ ok \in BOOLEAN
      /\ \A n \in DOMAIN list : \E i \in DOMAIN raw.requests : list[n] = raw.requests[i]
      /\ working[t] /\ ok => raw.kind # "unreadable" /\ list = raw.requests
  <2>1. CASE working[t]
    <3>1. Loaded(t, f) = LoadState(raw)
      BY <2>1 DEF Loaded
    <3> HIDE DEF raw
    <3> QED  BY <1>3, <3>1, LoadIsSound
  <2>2. CASE ~working[t]
    <3>1. Loaded(t, f) = [ok |-> TRUE, requests |-> <<>>]
      BY <2>2 DEF Loaded
    <3>2. list = <<>> /\ ok = TRUE
      BY <3>1
    <3>3. <<>> \in Seq(Requests) /\ DOMAIN <<>> = {}
      OBVIOUS
    <3> QED  BY <2>2, <3>2, <3>3, EmptyIsSound
  <2> QED  BY <2>1, <2>2
<1>5. Known' = Known
  BY <1>2 DEF Known
<1>6. sheets \subseteq sheets'
  BY <1>2
<1>7. MarksLeft(list) /\ IdsOf(list) \subseteq Known
  BY <1>3, <1>4 DEF MarksLeft, IdsOf
<1>8. /\ page'[t] = f /\ requests'[t] = list /\ quarantine'[t] = ~ok
      /\ warned'[t] = ~working[t] /\ stale'[t] = FALSE
      /\ \A u \in Tabs \ {t} : /\ page'[u] = page[u] /\ requests'[u] = requests[u]
                               /\ quarantine'[u] = quarantine[u] /\ warned'[u] = warned[u]
                               /\ stale'[u] = stale[u]
  BY <1>1, <1>2 DEF ListsPart, Counted
<1>9. /\ requests' \in [Tabs -> Seq(Requests)] /\ quarantine' \in [Tabs -> BOOLEAN]
      /\ warned' \in [Tabs -> BOOLEAN] /\ stale' \in [Tabs -> BOOLEAN]
  <2>1. requests' \in [Tabs -> Seq(Requests)]
    BY <1>1, <1>2, <1>4 DEF ListsPart
  <2>2. quarantine' \in [Tabs -> BOOLEAN] /\ stale' \in [Tabs -> BOOLEAN]
    BY <1>1, <1>2, <1>4 DEF ListsPart
  <2>3. warned' \in [Tabs -> BOOLEAN]
    BY <1>1, <1>2 DEF ListsPart
  <2> QED  BY <2>1, <2>2, <2>3
<1>10. Counted'
  BY <1>1, <1>2 DEF Counted
<1>11. storage' \in [Rendered -> Raws] /\ faults' \in Nat
  BY <1>1, <1>2 DEF ListsPart
<1> HIDE DEF list, ok
<1>12. ListsSound'
  BY <1>1, <1>4, <1>8 DEF ListsPart, ListsSound
<1>13. MarksAreTrue'
  <2> DEFINE Left(l) == \A i \in DOMAIN l : l[i].exported /\ l[i].id \notin GivenIds =>
                          \E s \in sheets' : Record(l[i]) \in Range(s)
  <2>1. ASSUME NEW l, MarksLeft(l) PROVE Left(l)
    BY <1>6, <2>1 DEF MarksLeft
  <2>2. MarksAreTrue' <=> /\ \A u \in Tabs : Left(requests'[u])
                          /\ \A g \in Rendered : Left(storage'[g].requests)
    BY DEF MarksAreTrue, MarksLeft
  <2>3. /\ \A u \in Tabs : MarksLeft(requests[u])
        /\ \A g \in Rendered : MarksLeft(storage[g].requests)
    BY <1>1 DEF ListsPart, MarksAreTrue
  <2> HIDE DEF Left
  <2>4. \A u \in Tabs : Left(requests'[u])
    BY <1>7, <1>8, <2>1, <2>3
  <2>5. \A g \in Rendered : Left(storage'[g].requests)
    BY <1>2, <2>1, <2>3
  <2> QED  BY <2>2, <2>4, <2>5
<1>14. SavedIsShown'
  <2> SUFFICES ASSUME NEW u \in Tabs
               PROVE  /\ ~working'[u] => warned'[u]
                      /\ ~warned'[u] /\ ~quarantine'[u] /\ ~stale'[u] =>
                           /\ storage'[page'[u]].kind # "unreadable"
                           /\ storage'[page'[u]].requests = requests'[u]
    BY DEF SavedIsShown
  <2>1. CASE u = t
    BY <1>2, <1>4, <1>8, <2>1
  <2>2. CASE u # t
    BY <1>1, <1>2, <1>8, <2>2 DEF ListsPart, SavedIsShown
  <2> QED  BY <2>1, <2>2
<1>15. /\ \A u \in Tabs : IdsOf(requests[u])' \subseteq Known'
       /\ \A g \in Rendered : IdsOf(storage[g].requests)' \subseteq Known'
  <2>1. /\ \A u \in Tabs : IdsOf(requests[u])' = IdsOf(requests'[u])
        /\ \A g \in Rendered : IdsOf(storage[g].requests)' = IdsOf(storage[g].requests)
    BY <1>2 DEF IdsOf
  <2> QED  BY <1>1, <1>5, <1>7, <1>8, <2>1 DEF ListsPart
<1>16. ListsPart'
  BY <1>9, <1>11, <1>12, <1>13, <1>14, <1>15 DEF ListsPart
<1>17. /\ NoPanel \in Panels /\ NoPanel.kind # "export" /\ IdsOf(NoPanel.sheet) = {}
       /\ NoWrite \in Writes /\ ~NoWrite.pending /\ ~NoWrite.live /\ IdsOf(NoWrite.sheet) = {}
  BY DEF NoPanel, NoWrite, Panels, Writes, IdsOf
<1>18. SheetsPart'
  <2>1. /\ writing[t].sheet \in Seq(Records) /\ IdsOf(writing[t].sheet) \subseteq Known
        /\ writing[t].pending => SoundSheet(writing[t].sheet)
    BY SheetsAre
  <2>2. \A s \in sheets' : s \in sheets \/ /\ s \in Seq(Records)
                                           /\ SoundSheet(s) /\ IdsOf(s) \subseteq Known'
    BY <1>2, <1>5, <2>1
  <2> QED  BY <1>1, <1>2, <1>5, <1>17, <2>2, SheetsKept
<1>19. PanelIsCurrent'
  <2>1. /\ panel'[t] = NoPanel /\ writing'[t] = NoWrite
        /\ \A u \in Tabs \ {t} : panel'[u] = panel[u] /\ writing'[u] = writing[u]
    BY <1>1, <1>2 DEF SheetsPart
  <2> QED  BY <1>1, <1>8, <1>17, <2>1 DEF PanelIsCurrent, RecordsOf
<1> QED  BY <1>10, <1>16, <1>18, <1>19, PrimedPartsAre

-----------------------------------------------------------------------------
(* The invariant and what follows from it.                                 *)

LEMMA PagesOpen == Init => PageInv
<1> SUFFICES ASSUME Init PROVE PageInv
  OBVIOUS
<1>1. /\ page \in [Tabs -> Rendered] /\ working \in [Tabs -> BOOLEAN]
      /\ storage = [f \in Rendered |-> NoDraft] /\ requests = [t \in Tabs |-> <<>>]
      /\ quarantine = [t \in Tabs |-> FALSE] /\ warned = [t \in Tabs |-> ~working[t]]
      /\ panel = [t \in Tabs |-> NoPanel] /\ writing = [t \in Tabs |-> NoWrite]
      /\ sheets = {} /\ stale = [t \in Tabs |-> FALSE] /\ made = 0 /\ faults = 0
  BY DEF Init
<1>2. /\ NoPanel \in Panels /\ NoPanel.kind # "export" /\ IdsOf(NoPanel.sheet) = {}
      /\ NoWrite \in Writes /\ ~NoWrite.pending /\ ~NoWrite.live /\ IdsOf(NoWrite.sheet) = {}
      /\ NoDraft \in Raws /\ NoDraft.kind # "unreadable" /\ NoDraft.requests = <<>>
  BY DEF NoPanel, NoWrite, NoDraft, Panels, Writes, Raws, IdsOf
<1>3. <<>> \in Seq(Requests) /\ IdsOf(<<>>) = {} /\ MarksLeft(<<>>)
  BY DEF IdsOf, MarksLeft
<1>4. Counted
  BY <1>1, PageAssumption DEF Counted
<1>5. /\ requests \in [Tabs -> Seq(Requests)] /\ storage \in [Rendered -> Raws]
      /\ quarantine \in [Tabs -> BOOLEAN] /\ warned \in [Tabs -> BOOLEAN]
      /\ stale \in [Tabs -> BOOLEAN] /\ faults \in Nat
  BY <1>1, <1>2, <1>3
<1>6. ListsSound
  BY <1>1, EmptyIsSound DEF ListsSound
<1>7. MarksAreTrue
  BY <1>1, <1>2, <1>3 DEF MarksAreTrue
<1>8. SavedIsShown
  BY <1>1, <1>2 DEF SavedIsShown
<1>9. /\ \A t \in Tabs : IdsOf(requests[t]) \subseteq Known
      /\ \A f \in Rendered : IdsOf(storage[f].requests) \subseteq Known
  BY <1>1, <1>2, <1>3
<1>10. ListsPart
  BY <1>5, <1>6, <1>7, <1>8, <1>9 DEF ListsPart
<1>11. SheetsPart
  BY <1>1, <1>2 DEF SheetsPart, SheetsSound
<1>12. PanelIsCurrent
  BY <1>1, <1>2 DEF PanelIsCurrent
<1> QED  BY <1>4, <1>10, <1>11, <1>12, PartsAre

LEMMA StepsKeep == PageInv /\ [Next]_vars => PageInv'
<1> SUFFICES ASSUME PageInv, [Next]_vars PROVE PageInv'
  OBVIOUS
<1>1. ASSUME NEW t \in Tabs, Step(t) PROVE PageInv'
  <2>1. ASSUME NEW b \in Bodies, Submit(t, b) PROVE PageInv'
    BY <2>1, SubmitKeeps
  <2>2. ASSUME NEW id \in IdsOf(requests[t]), NEW b \in Bodies, EditDraft(t, id, b)
        PROVE  PageInv'
    BY <2>2, EditDraftKeeps
  <2>3. ASSUME NEW id \in IdsOf(requests[t]), NEW b \in Bodies, EditExported(t, id, b)
        PROVE  PageInv'
    BY <2>3, EditExportedKeeps
  <2>4. CASE OpenExportPanel(t)
    BY <2>4, OpenExportPanelKeeps
  <2>5. CASE OpenRestorePanel(t) \/ LeaveAndReturn(t)
    BY <2>5, OtherPanelKeeps
  <2>6. CASE HandOff(t)
    BY <2>6, HandOffKeeps
  <2>7. CASE StartCopy(t)
    BY <2>7, StartCopyKeeps
  <2>8. CASE CopyDone(t) \/ CopyFailed(t)
    BY <2>8, CopyKeeps
  <2>9. ASSUME NEW s \in sheets \cup GivenSheets, ApplyRestore(t, s) PROVE PageInv'
    BY <2>9, ApplyRestoreKeeps
  <2>10. CASE DiscardQuarantine(t)
    BY <2>10, DiscardKeeps
  <2>11. ASSUME NEW f \in Rendered, Load(t, f) PROVE PageInv'
    BY <2>11, LoadKeeps
  <2> QED  BY <1>1, <2>1, <2>2, <2>3, <2>4, <2>5, <2>6, <2>7, <2>8, <2>9, <2>10, <2>11
           DEF Step
<1>2. ASSUME NEW f \in Rendered, NEW raw \in Planted[f], WriteFromElsewhere(f, raw)
      PROVE  PageInv'
  BY <1>2, ElsewhereKeeps
<1>3. CASE UNCHANGED vars
  <2>1. Counted /\ ListsPart /\ SheetsPart /\ PanelIsCurrent
    BY PartsAre
  <2>2. /\ UNCHANGED <<page, working, storage, requests, panel, writing, quarantine, warned>>
        /\ UNCHANGED <<sheets, stale, made, faults>>
    BY <1>3 DEF vars, shown
  <2>3. Known' = Known
    BY <2>2 DEF Known
  <2>4. ListsPart'
    BY <2>1, <2>2, <2>3, ListsStay DEF ListsPart
  <2>5. SheetsPart'
    BY <2>1, <2>2, <2>3, SheetsStay
  <2>6. Counted' /\ PanelIsCurrent'
    BY <2>1, <2>2 DEF Counted, PanelIsCurrent, RecordsOf
  <2> QED  BY <2>4, <2>5, <2>6, PrimedPartsAre
<1> QED  BY <1>1, <1>2, <1>3 DEF Next

(***************************************************************************)
(* Whatever readers, the clipboard, the storage and other pages do, in any    *)
(* order and any number: what the pages list, store, show and let out keeps   *)
(* the invariant.                                                          *)
(***************************************************************************)
THEOREM PagesStaySound == Spec => []PageInv
  BY PagesOpen, StepsKeep, PTL DEF Spec

\* A list without repetitions has as many ids as requests.
LEMMA AsManyIds ==
  ASSUME NEW S, NEW list \in Seq(S), Distinct(list)
  PROVE  Cardinality(IdsOf(list)) = Len(list)
<1> DEFINE f == [i \in 1..Len(list) |-> list[i].id]
<1>1. DOMAIN list = 1..Len(list) /\ Len(list) \in Nat
  OBVIOUS
<1>2. f \in [1..Len(list) -> IdsOf(list)]
  BY <1>1 DEF IdsOf
<1>3. \A i, j \in 1..Len(list) : f[i] = f[j] => i = j
  BY <1>1 DEF Distinct
<1>4. \A id \in IdsOf(list) : \E i \in 1..Len(list) : f[i] = id
  BY <1>1 DEF IdsOf
<1> HIDE DEF f
<1>5. f \in Surjection(1..Len(list), IdsOf(list))
  BY <1>2, <1>4 DEF Surjection
<1>6. f \in Injection(1..Len(list), IdsOf(list))
  BY <1>2, <1>3 DEF Injection, IsInjective
<1>7. IsFiniteSet(1..Len(list)) /\ Cardinality(1..Len(list)) = Len(list)
  BY <1>1, FS_Interval
<1> QED  BY <1>5, <1>6, <1>7, FS_Surjection

(***************************************************************************)
(* No page ever lists an id twice, two versions of one request, a cycle, or a  *)
(* version of what is not there or was not exported: for any number of pages,  *)
(* and whatever was stored or restored (annotation-state.ts:158-160).          *)
(***************************************************************************)
THEOREM ChainsAreSound == Spec => []ChainIsSound
<1>1. PageInv => ChainIsSound
  <2> SUFFICES ASSUME PageInv, NEW t \in Tabs
               PROVE  /\ Cardinality(IdsOf(requests[t])) = Len(requests[t])
                      /\ SupersedesProblems(requests[t]) = {}
    BY DEF ChainIsSound
  <2>1. requests[t] \in Seq(Requests) /\ SoundList(requests[t]) /\ Distinct(requests[t])
    BY ListIs
  <2>2. Cardinality(IdsOf(requests[t])) = Len(requests[t])
    BY <2>1, AsManyIds
  <2> QED  BY <2>1, <2>2 DEF SoundList
<1> QED  BY <1>1, PagesStaySound, PTL

(***************************************************************************)
(* A request is marked as exported only if a sheet with this content left a    *)
(* page or came from elsewhere, however late the clipboard answers and         *)
(* whatever was edited meanwhile (annotation-ui.ts:511).                       *)
(***************************************************************************)
THEOREM MarksAreEarned == Spec => []MarkedMeansHandedOff
<1>1. PageInv => MarkedMeansHandedOff
  <2> SUFFICES ASSUME PageInv, NEW t \in Tabs, NEW r \in Range(requests[t]),
                      r.exported, r.id \notin GivenIds
               PROVE  \E s \in sheets : Record(r) \in Range(s)
    BY DEF MarkedMeansHandedOff
  <2>1. PICK i \in DOMAIN requests[t] : r = requests[t][i]
    BY DEF Range
  <2> QED  BY <2>1, ListIs
<1> QED  BY <1>1, PagesStaySound, PTL

(***************************************************************************)
(* A page that says nothing of unsaved, invalid or foreign drafts shows what   *)
(* a reload brings back: no mix of refused writes, quarantined drafts, other   *)
(* pages and reloads loses a request silently (annotation-ui.ts:99-104).       *)
(***************************************************************************)
THEOREM UnsavedIsAlwaysShown == Spec => []UnsavedIsShown
<1>1. PageInv => UnsavedIsShown
  <2> SUFFICES ASSUME PageInv, NEW t \in Tabs, ~warned[t], ~quarantine[t], ~stale[t]
               PROVE  LoadState(storage[page[t]]) = [ok |-> TRUE, requests |-> requests[t]]
    BY DEF UnsavedIsShown
  <2>1. storage[page[t]] \in Raws /\ SoundList(requests[t])
    BY DEF PageInv, PageType, ListsSound
  <2>2. /\ storage[page[t]].kind # "unreadable"
        /\ storage[page[t]].requests = requests[t]
    BY DEF PageInv, SavedIsShown
  <2> QED  BY <2>1, <2>2, SoundIsReadBack
<1> QED  BY <1>1, PagesStaySound, PTL

(***************************************************************************)
(* Every sheet that left a page is accepted on an empty page of any rendering  *)
(* and comes back whole, marked as exported: the export refuses what restore   *)
(* would refuse (annotation-logic.ts:590-592).                                *)
(***************************************************************************)
THEOREM SheetsComeBack == Spec => []HandedOffComesBack
<1>1. PageInv => HandedOffComesBack
  <2> SUFFICES ASSUME PageInv, NEW s \in sheets, NEW f \in Fingerprints
               PROVE  LET parsed == ParseSheet(s)
                          result == Restore(<<>>, parsed.revisions, f)
                      IN /\ parsed.ok /\ result.ok
                         /\ [i \in DOMAIN result.requests |-> Record(result.requests[i])] = s
                         /\ \A r \in Range(result.requests) : r.exported
    BY DEF HandedOffComesBack
  <2>1. s \in Seq(Records) /\ SoundSheet(s)
    BY DEF PageInv, PageType, SheetsSound
  <2>2. ParseSheet(s).ok /\ ParseSheet(s).revisions = s
    BY <2>1, SoundSheetIsRead
  <2> DEFINE list == Restore(<<>>, s, f).requests
  <2>3. /\ Restore(<<>>, s, f).ok /\ DOMAIN list = DOMAIN s
        /\ \A i \in DOMAIN s : Record(list[i]) = s[i] /\ list[i].exported
    BY <2>1, RestoreBack
  <2> HIDE DEF list
  <2>4. [i \in DOMAIN list |-> Record(list[i])] = s
    <3>1. s = [i \in DOMAIN s |-> s[i]]
      BY <2>1
    <3> QED  BY <2>3, <3>1
  <2>5. \A r \in Range(list) : r.exported
    BY <2>3 DEF Range
  <2> QED  BY <2>2, <2>3, <2>4, <2>5 DEF list
<1> QED  BY <1>1, PagesStaySound, PTL
=============================================================================
