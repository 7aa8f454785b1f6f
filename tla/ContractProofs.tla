--------------------------- MODULE ContractProofs ---------------------------
(***************************************************************************)
(* What the evaluators find in documents, for all documents of any length:   *)
(* what is picked from a sequence, that the readiness of a Story changes     *)
(* nothing of its default contract, that a contract without an issue has a   *)
(* plan without one that says the same, and what is true of a record in      *)
(* which no defect is found.  The facts ChecksProofs needs of the documents  *)
(* a run of the checks has read.                                             *)
(***************************************************************************)
EXTENDS Checks, FiniteSetTheorems, SequenceTheorems, WellFoundedInduction, TLAPS

-----------------------------------------------------------------------------
(* Induction, and what is picked from a sequence.                           *)

\* There is a smallest among any natural numbers.
LessThan == {pair \in Nat \X Nat : pair[1] < pair[2]}
LEMMA SmallestOfSet ==
  ASSUME NEW I \in SUBSET Nat, I # {}
  PROVE  \E i \in I : \A j \in I : i <= j
<1>1. LessThan = OpToRel(<, Nat)
  BY DEF LessThan, OpToRel
<1>2. IsWellFoundedOn(LessThan, Nat)
  BY <1>1, NatLessThanWellFounded
<1>3. \E i \in I : \A j \in I : <<j, i>> \notin LessThan
  BY <1>2, WFMin
<1>4. \A i, j \in I : <<j, i>> \notin LessThan => i <= j
  <2> SUFFICES ASSUME NEW i \in I, NEW j \in I, ~(i <= j)
               PROVE  <<j, i>> \in LessThan
    OBVIOUS
  <2> QED  BY DEF LessThan
<1> QED  BY <1>3, <1>4

\* Induction: what holds of zero, and of every next number, holds of every number.
LEMMA Upward ==
    ASSUME NEW T, 0 \in T, \A n \in Nat : n \in T => n + 1 \in T
    PROVE  Nat \subseteq T
<1> SUFFICES ASSUME Nat \ T # {} PROVE FALSE
  OBVIOUS
<1>1. PICK x \in Nat \ T : \A y \in Nat \ T : x <= y
  <2>1. Nat \ T \in SUBSET Nat /\ Nat \ T # {}
    OBVIOUS
  <2> QED BY <2>1, SmallestOfSet
<1>2. x # 0 /\ x - 1 \in Nat /\ x - 1 \in T
  BY <1>1
<1> QED BY <1>1, <1>2

\* Every move leads from T to T, and a table is moved on by them from b.
Moves(D, n, T) == D \in [1..n -> [T -> T]]
TableBy(f, D, b, n, T) ==
    f \in [0..n -> T] /\ f[0] = b /\ \A i \in 1..n : f[i] = D[i][f[i - 1]]

\* ... and up to a number.
LEMMA UpTo ==
    ASSUME NEW n \in Nat, NEW T, 0 \in T, \A i \in 0..(n - 1) : i \in T => i + 1 \in T
    PROVE  0..n \subseteq T
<1> DEFINE G == {i \in Nat : i <= n => i \in T}
<1>1. 0 \in G
  OBVIOUS
<1>2. ASSUME NEW i \in Nat, i \in G PROVE i + 1 \in G
  BY <1>2
<1>3. Nat \subseteq G
  <2> HIDE DEF G
  <2> QED BY <1>1, <1>2, Upward
<1> QED BY <1>3

\* A table that starts with a value and is moved on place by place exists.
LEMMA PrefixTable ==
    ASSUME NEW T, NEW b \in T, NEW n \in Nat, NEW D, Moves(D, n, T)
    PROVE  \E f : TableBy(f, D, b, n, T)
<1> USE DEF Moves, TableBy
<1> DEFINE Good(m) == \E f \in [0..m -> T] :
                        f[0] = b /\ \A i \in 1..m : f[i] = D[i][f[i - 1]]
           G == {m \in Nat : m <= n => Good(m)}
<1>1. 0 \in G
  <2> DEFINE f == [i \in 0..0 |-> b]
  <2>1. f \in [0..0 -> T] /\ f[0] = b
    OBVIOUS
  <2>2. \A i \in 1..0 : f[i] = D[i][f[i - 1]]
    OBVIOUS
  <2> QED BY <2>1, <2>2
<1>2. ASSUME NEW m \in Nat, m \in G PROVE m + 1 \in G
  <2> SUFFICES ASSUME m + 1 <= n PROVE Good(m + 1)
    OBVIOUS
  <2>1. PICK f \in [0..m -> T] : f[0] = b /\ \A i \in 1..m : f[i] = D[i][f[i - 1]]
    BY <1>2
  <2> DEFINE g == [i \in 0..(m + 1) |-> IF i = m + 1 THEN D[m + 1][f[m]] ELSE f[i]]
  <2>2. D[m + 1][f[m]] \in T
    <3>1. m + 1 \in 1..n /\ f[m] \in T
      OBVIOUS
    <3> QED BY <3>1
  <2>3. g \in [0..(m + 1) -> T] /\ g[0] = b
    BY <2>1, <2>2
  <2>4. ASSUME NEW i \in 1..(m + 1) PROVE g[i] = D[i][g[i - 1]]
    <3>1. CASE i = m + 1
      <4>1. g[i - 1] = f[m] /\ g[i] = D[m + 1][f[m]]
        BY <3>1
      <4> QED BY <3>1, <4>1
    <3>2. CASE i # m + 1
      <4>1. i \in 1..m /\ i - 1 \in 0..m
        BY <3>2
      <4>2. g[i] = f[i] /\ g[i - 1] = f[i - 1]
        BY <4>1
      <4> QED BY <2>1, <4>1, <4>2
    <3> QED BY <3>1, <3>2
  <2> QED BY <2>3, <2>4
<1>3. Nat \subseteq G
  <2> HIDE DEF G
  <2> QED BY <1>1, <1>2, Upward
<1> QED BY <1>3

\* The table of what is picked of every prefix.
PickTable(f, s, chosen) ==
    f = [i \in 0..Len(s) |->
           IF i = 0 THEN <<>>
           ELSE IF i \in chosen THEN Append(f[i - 1], s[i]) ELSE f[i - 1]]

\* Picked is computed by a table of its prefixes,
LEMMA PickTableIs ==
    ASSUME NEW S, NEW s \in Seq(S), NEW chosen
    PROVE  \E f : PickTable(f, s, chosen)
<1> DEFINE n == Len(s)
           T == Seq(S)
           D == [i \in 1..n |-> [x \in T |-> IF i \in chosen THEN Append(x, s[i]) ELSE x]]
<1>1. n \in Nat /\ <<>> \in T
  OBVIOUS
<1>2. Moves(D, n, T)
  <2>1. \A i \in 1..n : s[i] \in S
    OBVIOUS
  <2>2. \A i \in 1..n, x \in T : Append(x, s[i]) \in T
    BY <2>1
  <2> QED BY <2>1, <2>2 DEF Moves
<1>3. PICK f : TableBy(f, D, <<>>, n, T)
  <2> HIDE DEF n, T, D
  <2> QED BY <1>1, <1>2, PrefixTable
<1>4. \A i \in 1..n : f[i] = IF i \in chosen THEN Append(f[i - 1], s[i]) ELSE f[i - 1]
  <2> TAKE i \in 1..n
  <2>1. f[i - 1] \in T
    <3>1. i - 1 \in 0..n
      BY <1>1
    <3> QED BY <3>1, <1>3 DEF TableBy
  <2>2. f[i] = D[i][f[i - 1]]
    BY <1>3 DEF TableBy
  <2> QED BY <2>1, <2>2
<1>5. f = [i \in 0..n |-> f[i]]
  BY <1>3 DEF TableBy
<1>6. \A i \in 0..n : f[i] = IF i = 0 THEN <<>>
                       ELSE IF i \in chosen THEN Append(f[i - 1], s[i]) ELSE f[i - 1]
  <2> TAKE i \in 0..n
  <2>1. i = 0 \/ i \in 1..n
    BY <1>1
  <2> QED BY <2>1, <1>3, <1>4 DEF TableBy
<1> QED BY <1>5, <1>6 DEF PickTable

\* ... the last entry of which it is.
LEMMA PickedByTable ==
    ASSUME NEW S, NEW s \in Seq(S), NEW chosen
    PROVE  \E f : /\ Picked(s, chosen) = f[Len(s)] /\ f[0] = <<>>
                  /\ \A i \in 1..Len(s) :
                       f[i] = IF i \in chosen THEN Append(f[i - 1], s[i]) ELSE f[i - 1]
<1> DEFINE g == CHOOSE f : PickTable(f, s, chosen)
<1>1. PickTable(g, s, chosen)
  BY PickTableIs
<1>2. Picked(s, chosen) = g[Len(s)]
  BY DEF Picked, PickTable
<1> HIDE DEF g
<1>3. g[0] = <<>>
  BY <1>1 DEF PickTable
<1>4. \A i \in 1..Len(s) : g[i] = IF i \in chosen THEN Append(g[i - 1], s[i]) ELSE g[i - 1]
  <2> TAKE i \in 1..Len(s)
  <2>1. i \in 0..Len(s) /\ i # 0
    OBVIOUS
  <2>2. \A j \in 0..Len(s) : g[j] = IF j = 0 THEN <<>>
                       ELSE IF j \in chosen THEN Append(g[j - 1], s[j]) ELSE g[j - 1]
    BY <1>1, Zenon DEF PickTable
  <2> QED BY <2>1, <2>2
<1> QED BY <1>2, <1>3, <1>4

\* What Picked returns: the chosen elements and no others.
LEMMA PickedIs ==
    ASSUME NEW S, NEW s \in Seq(S), NEW chosen
    PROVE  /\ Picked(s, chosen) \in Seq(S)
           /\ \A k \in 1..Len(Picked(s, chosen)) :
                \E i \in 1..Len(s) : i \in chosen /\ Picked(s, chosen)[k] = s[i]
           /\ \A i \in 1..Len(s) : i \in chosen =>
                \E k \in 1..Len(Picked(s, chosen)) : Picked(s, chosen)[k] = s[i]
<1>1. PICK f : /\ Picked(s, chosen) = f[Len(s)] /\ f[0] = <<>>
               /\ \A i \in 1..Len(s) :
                    f[i] = IF i \in chosen THEN Append(f[i - 1], s[i]) ELSE f[i - 1]
  BY PickedByTable
<1> DEFINE Good(m) ==
        /\ f[m] \in Seq(S)
        /\ \A k \in 1..Len(f[m]) : \E i \in 1..m : i \in chosen /\ f[m][k] = s[i]
        /\ \A i \in 1..m : i \in chosen => \E k \in 1..Len(f[m]) : f[m][k] = s[i]
    G == {m \in Nat : Good(m)}
<1>2. Len(s) \in Nat
  OBVIOUS
<1>3. 0 \in G
  <2>1. f[0] \in Seq(S) /\ Len(f[0]) = 0
    BY <1>1
  <2> QED BY <2>1
<1>4. ASSUME NEW m \in 0..(Len(s) - 1), m \in G PROVE m + 1 \in G
  <2>1. m + 1 \in 1..Len(s) /\ (m + 1) - 1 = m /\ s[m + 1] \in S
    BY <1>2
  <2>2. f[m + 1] = IF m + 1 \in chosen THEN Append(f[m], s[m + 1]) ELSE f[m]
    BY <1>1, <2>1
  <2>3. f[m] \in Seq(S)
    BY <1>4
  <2>4. CASE m + 1 \in chosen
    <3>1. /\ f[m + 1] \in Seq(S) /\ Len(f[m + 1]) = Len(f[m]) + 1 /\ Len(f[m]) \in Nat
          /\ f[m + 1][Len(f[m]) + 1] = s[m + 1]
          /\ \A k \in 1..Len(f[m]) : f[m + 1][k] = f[m][k]
      BY <2>1, <2>2, <2>3, <2>4
    <3>2. \A k \in 1..Len(f[m + 1]) : \E i \in 1..(m + 1) : i \in chosen /\ f[m + 1][k] = s[i]
      <4> TAKE k \in 1..Len(f[m + 1])
      <4>1. CASE k = Len(f[m]) + 1
        BY <2>4, <3>1, <4>1
      <4>2. CASE k # Len(f[m]) + 1
        <5>1. k \in 1..Len(f[m])
          BY <3>1, <4>2
        <5>2. PICK i \in 1..m : i \in chosen /\ f[m][k] = s[i]
          BY <5>1, <1>4
        <5>3. f[m + 1][k] = f[m][k]
          BY <3>1, <5>1
        <5>4. i \in 1..(m + 1)
          OBVIOUS
        <5> QED BY <5>2, <5>3, <5>4
      <4> QED BY <4>1, <4>2
    <3>3. \A i \in 1..(m + 1) : i \in chosen => \E k \in 1..Len(f[m + 1]) : f[m + 1][k] = s[i]
      <4> TAKE i \in 1..(m + 1)
      <4> HAVE i \in chosen
      <4>1. CASE i = m + 1
        BY <3>1, <4>1
      <4>2. CASE i # m + 1
        <5>1. i \in 1..m
          BY <4>2
        <5>2. PICK k \in 1..Len(f[m]) : f[m][k] = s[i]
          BY <5>1, <1>4
        <5>3. f[m + 1][k] = s[i] /\ k \in 1..Len(f[m + 1])
          BY <3>1, <5>2
        <5> QED BY <5>3, Zenon
      <4> QED BY <4>1, <4>2
    <3>4. Good(m + 1)
      BY <3>1, <3>2, <3>3, Zenon
    <3> QED BY <2>1, <3>4
  <2>5. CASE m + 1 \notin chosen
    <3>1. f[m + 1] = f[m]
      BY <2>2, <2>5
    <3>2. \A i \in 1..(m + 1) : i \in chosen => i \in 1..m
      BY <2>5
    <3>3. \A k \in 1..Len(f[m]) : \E i \in 1..(m + 1) : i \in chosen /\ f[m][k] = s[i]
      BY <1>4
    <3>4. \A i \in 1..(m + 1) : i \in chosen => \E k \in 1..Len(f[m]) : f[m][k] = s[i]
      BY <1>4, <3>2
    <3>5. \A k \in 1..Len(f[m + 1]) : \E i \in 1..(m + 1) : i \in chosen /\ f[m + 1][k] = s[i]
      BY ONLY <3>1, <3>3, Zenon
    <3>6. \A i \in 1..(m + 1) : i \in chosen => \E k \in 1..Len(f[m + 1]) : f[m + 1][k] = s[i]
      BY ONLY <3>1, <3>4, Zenon
    <3>7. f[m + 1] \in Seq(S)
      BY ONLY <2>3, <3>1
    <3>8. Good(m + 1)
      BY <3>5, <3>6, <3>7, Zenon
    <3> QED BY <2>1, <3>8
  <2> QED BY <2>4, <2>5
<1>5. 0..Len(s) \subseteq G
  <2> HIDE DEF G
  <2> QED BY <1>2, <1>3, <1>4, UpTo
<1>6. Good(Len(s))
  BY <1>2, <1>5
<1> QED BY <1>1, <1>6

\* What starts the values that are chosen starts those that are picked.
LEMMA PickedHave ==
    ASSUME NEW S, NEW s \in Seq(S), NEW chosen, NEW R, \A i \in chosen : s[i].s[1] \in R
    PROVE  \A k \in 1..Len(Picked(s, chosen)) : Picked(s, chosen)[k].s[1] \in R
<1> TAKE k \in 1..Len(Picked(s, chosen))
<1>1. PICK i \in 1..Len(s) : i \in chosen /\ Picked(s, chosen)[k] = s[i]
  BY PickedIs
<1> QED BY <1>1

\* Nothing is picked where nothing was chosen.
LEMMA PickedNone ==
    ASSUME NEW S, NEW s \in Seq(S), NEW chosen
    PROVE  Picked(s, chosen) = <<>> <=> \A i \in 1..Len(s) : i \notin chosen
<1>1. Picked(s, chosen) \in Seq(S)
  BY PickedIs
<1>2. Picked(s, chosen) = <<>> <=> Len(Picked(s, chosen)) = 0
  BY <1>1
<1>3. Len(Picked(s, chosen)) \in Nat
  BY <1>1
<1>4. ASSUME Len(Picked(s, chosen)) = 0, NEW i \in 1..Len(s), i \in chosen PROVE FALSE
  <2>1. \E k \in 1..Len(Picked(s, chosen)) : Picked(s, chosen)[k] = s[i]
    BY <1>4, PickedIs
  <2> QED BY <1>4, <2>1
<1>5. ASSUME Len(Picked(s, chosen)) # 0, \A i \in 1..Len(s) : i \notin chosen PROVE FALSE
  <2>1. 1 \in 1..Len(Picked(s, chosen))
    BY <1>3, <1>5
  <2>2. \E i \in 1..Len(s) : i \in chosen /\ Picked(s, chosen)[1] = s[i]
    BY <2>1, PickedIs
  <2> QED BY <1>5, <2>2
<1> QED BY <1>2, <1>4, <1>5

\* The first that is chosen is the first of the result.
LEMMA PickedFirst ==
    ASSUME NEW S, NEW s \in Seq(S), NEW chosen, NEW i \in 1..Len(s), i \in chosen,
           \A j \in 1..(i - 1) : j \notin chosen
    PROVE  Len(Picked(s, chosen)) > 0 /\ Picked(s, chosen)[1] = s[i]
<1>1. PICK f : /\ Picked(s, chosen) = f[Len(s)] /\ f[0] = <<>>
               /\ \A m \in 1..Len(s) :
                    f[m] = IF m \in chosen THEN Append(f[m - 1], s[m]) ELSE f[m - 1]
  BY PickedByTable
<1> DEFINE Good(m) == /\ f[m] \in Seq(S)
                      /\ m < i => f[m] = <<>>
                      /\ m >= i => Len(f[m]) > 0 /\ f[m][1] = s[i]
    G == {m \in Nat : Good(m)}
<1>2. Len(s) \in Nat /\ i \in Nat /\ i <= Len(s) /\ 0 < i
  OBVIOUS
<1>3. 0 \in G
  <2>1. f[0] \in Seq(S) /\ f[0] = <<>>
    BY <1>1
  <2>2. Good(0)
    BY <1>2, <2>1
  <2> QED BY <2>2
<1>4. ASSUME NEW m \in 0..(Len(s) - 1), m \in G PROVE m + 1 \in G
  <2>1. m + 1 \in 1..Len(s) /\ (m + 1) - 1 = m /\ s[m + 1] \in S
    BY <1>2
  <2>2. f[m + 1] = IF m + 1 \in chosen THEN Append(f[m], s[m + 1]) ELSE f[m]
    BY <1>1, <2>1
  <2>3. f[m] \in Seq(S) /\ f[m + 1] \in Seq(S)
    BY <1>4, <2>1, <2>2
  <2>4. CASE m + 1 < i
    <3>1. m + 1 \notin chosen /\ m < i
      BY <1>2, <2>1, <2>4
    <3>2. Good(m + 1)
      BY <1>2, <1>4, <2>2, <2>3, <2>4, <3>1
    <3> QED BY <2>1, <3>2
  <2>5. CASE m + 1 = i
    <3>1. f[m] = <<>> /\ f[m + 1] = Append(f[m], s[i])
      BY <1>2, <1>4, <2>2, <2>5
    <3>2. Len(f[m + 1]) > 0 /\ f[m + 1][1] = s[i]
      BY <3>1
    <3>3. Good(m + 1)
      BY <1>2, <2>3, <2>5, <3>2
    <3> QED BY <2>1, <3>3
  <2>6. CASE m + 1 > i
    <3>1. Len(f[m]) > 0 /\ f[m][1] = s[i]
      BY <1>2, <1>4, <2>6
    <3>2. Len(f[m + 1]) > 0 /\ f[m + 1][1] = s[i]
      BY <2>1, <2>2, <2>3, <3>1
    <3>3. Good(m + 1)
      BY <1>2, <2>3, <2>6, <3>2
    <3> QED BY <2>1, <3>3
  <2> QED BY <1>2, <2>4, <2>5, <2>6
<1>5. 0..Len(s) \subseteq G
  <2> HIDE DEF G
  <2> QED BY <1>2, <1>3, <1>4, UpTo
<1>6. Good(Len(s))
  BY <1>2, <1>5
<1> QED BY <1>1, <1>2, <1>6

\* Where every position is chosen the sequence stays as it is.
LEMMA PickedAll ==
    ASSUME NEW S, NEW s \in Seq(S), NEW chosen, 1..Len(s) \subseteq chosen
    PROVE  Picked(s, chosen) = s
<1>1. PICK f : /\ Picked(s, chosen) = f[Len(s)] /\ f[0] = <<>>
               /\ \A m \in 1..Len(s) :
                    f[m] = IF m \in chosen THEN Append(f[m - 1], s[m]) ELSE f[m - 1]
  BY PickedByTable
<1> DEFINE Good(m) == /\ f[m] \in Seq(S) /\ Len(f[m]) = m
                      /\ \A k \in 1..m : f[m][k] = s[k]
    G == {m \in Nat : Good(m)}
<1>2. Len(s) \in Nat
  OBVIOUS
<1>3. 0 \in G
  <2>1. f[0] \in Seq(S) /\ Len(f[0]) = 0
    BY <1>1
  <2> QED BY <2>1
<1>4. ASSUME NEW m \in 0..(Len(s) - 1), m \in G PROVE m + 1 \in G
  <2>1. m + 1 \in 1..Len(s) /\ (m + 1) - 1 = m /\ s[m + 1] \in S /\ m + 1 \in chosen
    BY <1>2
  <2>2. f[m + 1] = Append(f[m], s[m + 1])
    BY <1>1, <2>1
  <2>3. f[m] \in Seq(S) /\ Len(f[m]) = m /\ \A k \in 1..m : f[m][k] = s[k]
    BY <1>4
  <2>4. f[m + 1] \in Seq(S) /\ Len(f[m + 1]) = m + 1
    BY <2>1, <2>2, <2>3
  <2>5. \A k \in 1..(m + 1) : f[m + 1][k] = s[k]
    BY <2>1, <2>2, <2>3
  <2>6. Good(m + 1)
    BY <2>4, <2>5
  <2> QED BY <2>1, <2>6
<1>5. 0..Len(s) \subseteq G
  <2> HIDE DEF G
  <2> QED BY <1>2, <1>3, <1>4, UpTo
<1>6. Good(Len(s))
  BY <1>2, <1>5
<1> QED BY <1>1, <1>2, <1>6

AppendsAfter(x, y, e) == Append(x \o y, e) = x \o Append(y, e)

\* Appending to the second of two sequences appends to both.
LEMMA AppendAfter ==
    ASSUME NEW S, NEW x \in Seq(S), NEW y \in Seq(S), NEW e \in S
    PROVE  AppendsAfter(x, y, e)
BY DEF AppendsAfter

\* The choice from two sequences after one another is one from each.
Splits(a, b, c, ca, cb) ==
    /\ \A i \in 1..Len(a) : i \in c <=> i \in ca
    /\ \A i \in 1..Len(b) : Len(a) + i \in c <=> i \in cb

\* What is chosen of two sequences after one another is chosen of each.
LEMMA PickedConcat ==
    ASSUME NEW S, NEW a \in Seq(S), NEW b \in Seq(S), NEW c, NEW ca, NEW cb,
           Splits(a, b, c, ca, cb)
    PROVE  Picked(a \o b, c) = Picked(a, ca) \o Picked(b, cb)
<1> USE DEF Splits
<1> DEFINE ab == a \o b
<1>1. /\ Len(a) \in Nat /\ Len(b) \in Nat /\ ab \in Seq(S) /\ Len(ab) = Len(a) + Len(b)
      /\ \A i \in 1..Len(a) : ab[i] = a[i]
      /\ \A i \in 1..Len(b) : ab[Len(a) + i] = b[i]
  OBVIOUS
<1>0. ab \in Seq(S)
  BY <1>1
<1> HIDE DEF ab
<1>2. PICK f : /\ Picked(ab, c) = f[Len(ab)] /\ f[0] = <<>>
               /\ \A m \in 1..Len(ab) :
                    f[m] = IF m \in c THEN Append(f[m - 1], ab[m]) ELSE f[m - 1]
  BY ONLY <1>0, PickedByTable
<1>3. PICK g : /\ Picked(a, ca) = g[Len(a)] /\ g[0] = <<>>
               /\ \A m \in 1..Len(a) :
                    g[m] = IF m \in ca THEN Append(g[m - 1], a[m]) ELSE g[m - 1]
  BY PickedByTable
<1>4. PICK h : /\ Picked(b, cb) = h[Len(b)] /\ h[0] = <<>>
               /\ \A m \in 1..Len(b) :
                    h[m] = IF m \in cb THEN Append(h[m - 1], b[m]) ELSE h[m - 1]
  BY PickedByTable
<1>5. f[Len(a)] = g[Len(a)]
  <2> DEFINE G == {m \in Nat : f[m] = g[m]}
  <2>1. 0 \in G
    BY <1>2, <1>3
  <2>2. ASSUME NEW m \in 0..(Len(a) - 1), m \in G PROVE m + 1 \in G
    <3>1. m + 1 \in 1..Len(a) /\ m + 1 \in 1..Len(ab) /\ (m + 1) - 1 = m
      BY <1>1
    <3>2. f[m + 1] = IF m + 1 \in c THEN Append(f[m], ab[m + 1]) ELSE f[m]
      BY <1>2, <3>1
    <3>3. g[m + 1] = IF m + 1 \in ca THEN Append(g[m], a[m + 1]) ELSE g[m]
      BY <1>3, <3>1
    <3>4. ab[m + 1] = a[m + 1] /\ (m + 1 \in c <=> m + 1 \in ca) /\ f[m] = g[m]
      BY <1>1, <2>2, <3>1
    <3> QED BY <3>1, <3>2, <3>3, <3>4
  <2>3. 0..Len(a) \subseteq G
    <3> HIDE DEF G
    <3> QED BY <1>1, <2>1, <2>2, UpTo
  <2> QED BY <1>1, <2>3
<1>6. g[Len(a)] \in Seq(S)
  BY <1>3, PickedIs
<1>7. f[Len(a) + Len(b)] = g[Len(a)] \o h[Len(b)]
  <2> DEFINE front == g[Len(a)]
             n == Len(a)
             G == {m \in Nat : h[m] \in Seq(S) /\ f[n + m] = front \o h[m]}
  <2> HIDE DEF front
  <2>1. 0 \in G
    <3>1. front \o <<>> = front /\ n + 0 = n
      BY <1>1, <1>6 DEF front
    <3>2. f[n + 0] = front
      BY <1>5, <3>1 DEF front
    <3>3. h[0] \in Seq(S) /\ f[n + 0] = front \o h[0]
      BY <1>4, <3>1, <3>2
    <3> QED BY <3>3
  <2>2. ASSUME NEW m \in 0..(Len(b) - 1), m \in G PROVE m + 1 \in G
    <3>1. m + 1 \in 1..Len(b) /\ n + (m + 1) \in 1..Len(ab) /\ (m + 1) - 1 = m
            /\ (n + (m + 1)) - 1 = n + m /\ b[m + 1] \in S
      BY <1>1
    <3>2. f[n + (m + 1)] = IF n + (m + 1) \in c THEN Append(f[n + m], ab[n + (m + 1)]) ELSE f[n + m]
      BY <1>2, <3>1
    <3>3. h[m + 1] = IF m + 1 \in cb THEN Append(h[m], b[m + 1]) ELSE h[m]
      BY <1>4, <3>1
    <3>4. ab[n + (m + 1)] = b[m + 1] /\ (n + (m + 1) \in c <=> m + 1 \in cb)
      BY <1>1, <3>1
    <3>5. h[m] \in Seq(S) /\ f[n + m] = front \o h[m]
      BY <2>2
    <3>6. Append(front \o h[m], b[m + 1]) = front \o Append(h[m], b[m + 1])
      <4>1. front \in Seq(S)
        BY <1>6 DEF front
      <4>2. AppendsAfter(front, h[m], b[m + 1])
        BY <4>1, <3>1, <3>5, AppendAfter
      <4> QED BY <4>2 DEF AppendsAfter
    <3>7. h[m + 1] \in Seq(S)
      BY <3>1, <3>3, <3>5
    <3>8. f[n + (m + 1)] = front \o h[m + 1]
      BY <3>2, <3>3, <3>4, <3>5, <3>6
    <3> QED BY <3>7, <3>8
  <2>3. 0..Len(b) \subseteq G
    <3> HIDE DEF G
    <3> QED BY <1>1, <2>1, <2>2, UpTo
  <2>4. Len(b) \in G
    <3>1. Len(b) \in 0..Len(b)
      BY <1>1
    <3> HIDE DEF G
    <3> QED BY <2>3, <3>1
  <2>5. f[n + Len(b)] = front \o h[Len(b)]
    BY <2>4
  <2> QED BY <2>5 DEF front
<1>8. Picked(ab, c) = Picked(a, ca) \o Picked(b, cb)
  BY <1>1, <1>2, <1>3, <1>4, <1>7
<1> QED BY <1>8 DEF ab

-----------------------------------------------------------------------------
(* Many sequences after one another.                                        *)

AppendsTable(f, Q) == f[0] = <<>> /\ \A i \in 1..Len(Q) : f[i] = f[i - 1] \o Q[i]

FlatTable(g, Q) == g = [i \in 1..Len(Q) |-> IF i = 1 THEN Q[i] ELSE g[i - 1] \o Q[i]]

\* Nothing comes before a sequence.
LEMMA EmptyBefore ==
    ASSUME NEW S, NEW s \in Seq(S)
    PROVE  <<>> \o s = s
OBVIOUS

\* Flattening is computed by a table of prefixes too.
LEMMA FlattenByTable ==
    ASSUME NEW S, NEW Q \in Seq(Seq(S))
    PROVE  \E f \in [0..Len(Q) -> Seq(S)] : AppendsTable(f, Q) /\ FlattenSeq(Q) = f[Len(Q)]
<1> DEFINE n == Len(Q)
           T == Seq(S)
           D == [i \in 1..n |-> [x \in T |-> x \o Q[i]]]
<1>1. n \in Nat /\ <<>> \in T /\ \A i \in 1..n : Q[i] \in T
  OBVIOUS
<1>2. Moves(D, n, T)
  BY <1>1 DEF Moves
<1>3. PICK f : TableBy(f, D, <<>>, n, T)
  <2> HIDE DEF n, T, D
  <2> QED BY <1>1, <1>2, PrefixTable
<1>4. f \in [0..n -> T] /\ f[0] = <<>>
  BY <1>3 DEF TableBy
<1>5. \A i \in 1..n : f[i] = f[i - 1] \o Q[i] /\ f[i - 1] \in T
  <2> TAKE i \in 1..n
  <2>1. i - 1 \in 0..n
    BY <1>1
  <2>2. f[i - 1] \in T
    BY <2>1, <1>4
  <2>3. f[i] = D[i][f[i - 1]]
    BY <1>3 DEF TableBy
  <2> QED BY <2>2, <2>3
<1>6. CASE n = 0
  <2>1. FlattenSeq(Q) = Q /\ Q = <<>>
    BY <1>6 DEF FlattenSeq
  <2> QED BY <1>4, <1>5, <1>6, <2>1 DEF AppendsTable
<1>7. CASE n # 0
  <2> DEFINE h == [i \in 1..n |-> f[i]]
  <2>1. \A i \in 1..n : h[i] = IF i = 1 THEN Q[i] ELSE h[i - 1] \o Q[i]
    <3> TAKE i \in 1..n
    <3>1. CASE i = 1
      <4>1. 1 \in 1..n /\ Q[1] \in T /\ 1 - 1 = 0
        BY <1>1, <3>1
      <4>2. <<>> \o Q[1] = Q[1]
        BY <4>1, EmptyBefore
      <4>3. f[1] = f[0] \o Q[1]
        BY <1>5, <4>1
      <4>4. h[1] = f[1]
        BY <4>1
      <4> QED BY <1>4, <3>1, <4>2, <4>3, <4>4
    <3>2. CASE i # 1
      <4>1. i - 1 \in 1..n
        BY <1>1, <3>2
      <4> QED BY <1>5, <3>2, <4>1
    <3> QED BY <3>1, <3>2
  <2>2. FlatTable(h, Q)
    <3>1. h = [i \in 1..n |-> h[i]]
      OBVIOUS
    <3> HIDE DEF h
    <3> QED BY <2>1, <3>1 DEF FlatTable
  <2> DEFINE g == CHOOSE x : FlatTable(x, Q)
  <2>3. FlatTable(g, Q)
    <3> HIDE DEF h
    <3> QED BY <2>2
  <2>4. FlattenSeq(Q) = g[n]
    BY <1>7 DEF FlattenSeq, FlatTable
  <2> HIDE DEF g
  <2>5. \A i \in 1..n : g[i] = IF i = 1 THEN Q[i] ELSE g[i - 1] \o Q[i]
    BY <2>3, Zenon DEF FlatTable
  <2> DEFINE G == {m \in Nat : m = 0 \/ g[m] = f[m]}
  <2>6. 0 \in G
    OBVIOUS
  <2>7. ASSUME NEW m \in 0..(n - 1), m \in G PROVE m + 1 \in G
    <3>1. m + 1 \in 1..n /\ (m + 1) - 1 = m
      BY <1>1
    <3>2. g[m + 1] = IF m + 1 = 1 THEN Q[m + 1] ELSE g[m] \o Q[m + 1]
      BY <2>5, <3>1
    <3>3. f[m + 1] = f[m] \o Q[m + 1]
      BY <1>5, <3>1
    <3>4. g[m + 1] = f[m + 1]
      <4>1. CASE m = 0
        <5>1. m + 1 = 1 /\ f[m] = f[0]
          BY <4>1
        <5>2. Q[m + 1] \in T
          BY <1>1, <3>1
        <5>3. <<>> \o Q[m + 1] = Q[m + 1]
          BY <5>2, EmptyBefore
        <5>4. g[m + 1] = Q[m + 1]
          BY <3>2, <5>1
        <5>5. f[m + 1] = <<>> \o Q[m + 1]
          BY <1>4, <3>3, <5>1
        <5> QED BY <5>3, <5>4, <5>5
      <4>2. CASE m # 0
        <5>1. m \in Nat /\ m + 1 # 1 /\ g[m] = f[m]
          BY <1>1, <2>7, <4>2
        <5> QED BY <3>2, <3>3, <5>1
      <4> QED BY <4>1, <4>2
    <3> QED BY <3>4
  <2>8. 0..n \subseteq G
    <3> HIDE DEF G, n
    <3> QED BY <1>1, <2>6, <2>7, UpTo
  <2>9. n \in 0..n
    BY <1>1
  <2>10. g[n] = f[n]
    BY <2>8, <2>9, <1>7
  <2> QED BY <1>4, <1>5, <2>4, <2>10 DEF AppendsTable
<1> QED BY <1>6, <1>7

\* What FlattenSeq returns is empty if all that is flattened is.
LEMMA FlattenIs ==
    ASSUME NEW S, NEW Q \in Seq(Seq(S))
    PROVE  /\ FlattenSeq(Q) \in Seq(S)
           /\ FlattenSeq(Q) = <<>> <=> \A i \in 1..Len(Q) : Q[i] = <<>>
<1> DEFINE n == Len(Q)
<1>1. PICK f \in [0..n -> Seq(S)] : AppendsTable(f, Q) /\ FlattenSeq(Q) = f[n]
  BY FlattenByTable
<1>2. n \in Nat /\ n \in 0..n /\ \A i \in 1..n : Q[i] \in Seq(S)
  OBVIOUS
<1>3. f[0] = <<>> /\ \A i \in 1..n : f[i] = f[i - 1] \o Q[i]
  BY <1>1 DEF AppendsTable
<1> DEFINE Good(m) == f[m] = <<>> <=> \A i \in 1..m : Q[i] = <<>>
           G == {m \in Nat : Good(m)}
<1>4. 0 \in G
  BY <1>3
<1>5. ASSUME NEW m \in 0..(n - 1), m \in G PROVE m + 1 \in G
  <2>1. m + 1 \in 1..n /\ (m + 1) - 1 = m /\ m \in 0..n
    BY <1>2
  <2>2. f[m + 1] = f[m] \o Q[m + 1] /\ f[m] \in Seq(S) /\ Q[m + 1] \in Seq(S)
    BY <1>2, <1>3, <2>1
  <2>3. f[m + 1] = <<>> <=> f[m] = <<>> /\ Q[m + 1] = <<>>
    BY <2>2
  <2>4. (\A i \in 1..(m + 1) : Q[i] = <<>>) <=> (\A i \in 1..m : Q[i] = <<>>) /\ Q[m + 1] = <<>>
    <3>1. \A i \in 1..(m + 1) : i \in 1..m \/ i = m + 1
      OBVIOUS
    <3>2. 1..m \subseteq 1..(m + 1) /\ m + 1 \in 1..(m + 1)
      OBVIOUS
    <3> QED BY <3>1, <3>2
  <2>5. Good(m + 1)
    BY <1>5, <2>3, <2>4
  <2> QED BY <2>5
<1>6. 0..n \subseteq G
  <2> HIDE DEF G, n
  <2> QED BY <1>2, <1>4, <1>5, UpTo
<1>7. Good(n)
  BY <1>2, <1>6
<1> QED BY <1>1, <1>2, <1>7

-----------------------------------------------------------------------------
(* Codes and diagnostics.                                                   *)

\* A sequence, of whatever elements.
IsSeq(s) == s \in Seq(ToSet(s))

\* A sequence of a set is one of its own elements,
LEMMA SeqIsSeq ==
    ASSUME NEW S, NEW s \in Seq(S)
    PROVE  IsSeq(s)
BY DEF IsSeq, ToSet

\* ... and so is the empty one,
LEMMA EmptyIsSeq == IsSeq(<<>>)
BY DEF IsSeq, ToSet

\* ... and two after one another, which are empty only if both are.
LEMMA ConcatIsSeq ==
    ASSUME NEW a, NEW b, IsSeq(a), IsSeq(b)
    PROVE  IsSeq(a \o b) /\ (a \o b = <<>> <=> a = <<>> /\ b = <<>>)
<1> DEFINE S == ToSet(a) \cup ToSet(b)
<1>1. a \in Seq(S) /\ b \in Seq(S)
  <2>1. a \in Seq(ToSet(a)) /\ b \in Seq(ToSet(b))
    BY DEF IsSeq
  <2>2. ToSet(a) \subseteq S /\ ToSet(b) \subseteq S
    OBVIOUS
  <2> HIDE DEF S
  <2> QED BY <2>1, <2>2, SeqMonotonic
<1> HIDE DEF S
<1>2. a \o b \in Seq(S) /\ (a \o b = <<>> <=> a = <<>> /\ b = <<>>)
  BY <1>1
<1> QED BY <1>2, SeqIsSeq

\* A code under a condition.
LEMMA FlagIs ==
    ASSUME NEW c \in BOOLEAN, NEW code
    PROVE  IsSeq(Flag(c, code)) /\ (Flag(c, code) = <<>> <=> ~c)
<1>1. <<code>> \in Seq({code}) /\ <<code>> # <<>>
  OBVIOUS
<1>2. IsSeq(<<code>>)
  BY <1>1, SeqIsSeq
<1>3. CASE c
  BY <1>1, <1>2, <1>3 DEF Flag
<1>4. CASE ~c
  BY EmptyIsSeq, <1>4 DEF Flag
<1> QED BY <1>3, <1>4

\* A single code.
LEMMA OneIsSeq ==
    ASSUME NEW code
    PROVE  IsSeq(<<code>>) /\ <<code>> # <<>>
<1>1. <<code>> \in Seq({code}) /\ <<code>> # <<>>
  OBVIOUS
<1> QED BY <1>1, SeqIsSeq

\* The codes of every row, in the order of the rows.
LEMMA FlatIsSeq ==
    ASSUME NEW n \in Nat, NEW Q, Q = [i \in 1..n |-> Q[i]], \A i \in 1..n : IsSeq(Q[i])
    PROVE  /\ IsSeq(FlattenSeq(Q))
           /\ FlattenSeq(Q) = <<>> <=> \A i \in 1..n : Q[i] = <<>>
           /\ \E S : Q \in Seq(Seq(S)) /\ Len(Q) = n
<1> DEFINE S == UNION {ToSet(Q[i]) : i \in 1..n}
<1>1. \A i \in 1..n : Q[i] \in Seq(S)
  <2> TAKE i \in 1..n
  <2>1. Q[i] \in Seq(ToSet(Q[i]))
    BY DEF IsSeq
  <2>2. ToSet(Q[i]) \subseteq S
    OBVIOUS
  <2> HIDE DEF S
  <2> QED BY <2>1, <2>2, SeqMonotonic
<1> HIDE DEF S
<1>2. Q \in [1..n -> Seq(S)]
  BY <1>1
<1>3. Q \in Seq(Seq(S)) /\ Len(Q) = n
  BY <1>2
<1>4. FlattenSeq(Q) \in Seq(S) /\ (FlattenSeq(Q) = <<>> <=> \A i \in 1..n : Q[i] = <<>>)
  BY <1>3, FlattenIs
<1> QED BY <1>3, <1>4, SeqIsSeq

\* The structural diagnostics are picked from the others.
LEMMA StructureOfIs ==
    ASSUME NEW ds
    PROVE  StructureOf(ds) = Picked(ds, {i \in 1..Len(ds) : ds[i].s})
BY DEF StructureOf, Where

\* They are of what the list is of.
LEMMA StructureOfType ==
    ASSUME NEW S, NEW ds \in Seq(S)
    PROVE  StructureOf(ds) \in Seq(S)
BY StructureOfIs, PickedIs

\* There is a diagnostic for every code.
LEMMA DiagnosticsAre ==
    ASSUME NEW codes, IsSeq(codes), NEW structure
    PROVE  /\ IsSeq(Diagnostics(codes, structure))
           /\ Len(Diagnostics(codes, structure)) = Len(codes)
           /\ \A k \in 1..Len(codes) : Diagnostics(codes, structure)[k].s = structure
           /\ Diagnostics(codes, structure) = <<>> <=> codes = <<>>
<1> DEFINE ds == Diagnostics(codes, structure)
           S == {[code |-> c, s |-> structure] : c \in ToSet(codes)}
<1>1. codes \in Seq(ToSet(codes)) /\ Len(codes) \in Nat
  BY DEF IsSeq
<1>2. \A k \in 1..Len(codes) : codes[k] \in ToSet(codes)
  BY <1>1 DEF ToSet
<1>3. ds = [k \in 1..Len(codes) |-> [code |-> codes[k], s |-> structure]]
  BY DEF Diagnostics
<1>4. ds \in Seq(S) /\ Len(ds) = Len(codes)
  BY <1>1, <1>2, <1>3
<1>5. \A k \in 1..Len(codes) : ds[k].s = structure
  BY <1>3
<1> HIDE DEF ds, S
<1>6. ds = <<>> <=> codes = <<>>
  BY <1>1, <1>4
<1> QED BY <1>4, <1>5, <1>6, SeqIsSeq DEF ds

\* Structural diagnostics are all structural,
LEMMA StructureOfStructural ==
    ASSUME NEW codes, IsSeq(codes)
    PROVE  StructureOf(Structural(codes)) = Structural(codes)
<1> DEFINE ds == Structural(codes)
           S == ToSet(ds)
<1>1. ds \in Seq(S) /\ \A k \in 1..Len(ds) : ds[k].s
  BY DiagnosticsAre DEF Structural, IsSeq
<1> HIDE DEF ds, S
<1>2. 1..Len(ds) \subseteq {i \in 1..Len(ds) : ds[i].s}
  BY <1>1
<1>3. Picked(ds, {i \in 1..Len(ds) : ds[i].s}) = ds
  BY <1>1, <1>2, PickedAll
<1> QED BY <1>3, StructureOfIs DEF ds

\* ... and those reported for readiness never.
LEMMA StructureOfReported ==
    ASSUME NEW codes, IsSeq(codes)
    PROVE  StructureOf(Reported(codes)) = <<>>
<1> DEFINE ds == Reported(codes)
           S == ToSet(ds)
<1>1. ds \in Seq(S) /\ \A k \in 1..Len(ds) : ~ds[k].s
  BY DiagnosticsAre DEF Reported, IsSeq
<1> HIDE DEF ds, S
<1>2. \A i \in 1..Len(ds) : i \notin {j \in 1..Len(ds) : ds[j].s}
  BY <1>1
<1>3. Picked(ds, {i \in 1..Len(ds) : ds[i].s}) = <<>>
  BY <1>1, <1>2, PickedNone
<1> QED BY <1>3, StructureOfIs DEF ds

\* The structural part of two lists is that of each,
LEMMA StructureOfConcat ==
    ASSUME NEW S, NEW a \in Seq(S), NEW b \in Seq(S)
    PROVE  StructureOf(a \o b) = StructureOf(a) \o StructureOf(b)
<1> DEFINE ab == a \o b
           C(ds) == {i \in 1..Len(ds) : ds[i].s}
<1>1. /\ Len(a) \in Nat /\ Len(b) \in Nat /\ Len(ab) = Len(a) + Len(b)
      /\ \A i \in 1..Len(a) : ab[i] = a[i]
      /\ \A i \in 1..Len(b) : ab[Len(a) + i] = b[i]
  OBVIOUS
<1>2. \A i \in 1..Len(a) : i \in C(ab) <=> i \in C(a)
  BY <1>1
<1>3. \A i \in 1..Len(b) : Len(a) + i \in C(ab) <=> i \in C(b)
  BY <1>1
<1>4. Picked(a \o b, C(ab)) = Picked(a, C(a)) \o Picked(b, C(b))
  <2>1. Splits(a, b, C(ab), C(a), C(b))
    BY <1>2, <1>3 DEF Splits
  <2> HIDE DEF C
  <2> QED BY <2>1, PickedConcat
<1> QED BY <1>4, StructureOfIs

\* ... and of many.
LEMMA StructureOfFlatten ==
    ASSUME NEW S, NEW Q \in Seq(Seq(S)), NEW R \in Seq(Seq(S)),
           Len(R) = Len(Q), \A i \in 1..Len(Q) : R[i] = StructureOf(Q[i])
    PROVE  StructureOf(FlattenSeq(Q)) = FlattenSeq(R)
<1> DEFINE n == Len(Q)
           T == Seq(S)
<1>1. PICK f \in [0..n -> T] : AppendsTable(f, Q) /\ FlattenSeq(Q) = f[n]
  BY FlattenByTable
<1>2. PICK h \in [0..n -> T] : AppendsTable(h, R) /\ FlattenSeq(R) = h[n]
  BY FlattenByTable
<1>3. n \in Nat /\ n \in 0..n /\ \A i \in 1..n : Q[i] \in T
  OBVIOUS
<1>4. f[0] = <<>> /\ \A i \in 1..n : f[i] = f[i - 1] \o Q[i]
  BY <1>1 DEF AppendsTable
<1>5. h[0] = <<>> /\ \A i \in 1..n : h[i] = h[i - 1] \o R[i]
  BY <1>2 DEF AppendsTable
<1> DEFINE G == {m \in Nat : StructureOf(f[m]) = h[m]}
<1>6. 0 \in G
  <2>1. f[0] = Structural(<<>>) /\ IsSeq(<<>>)
    BY <1>4, EmptyIsSeq DEF Structural, Diagnostics
  <2>2. StructureOf(f[0]) = f[0]
    BY <2>1, StructureOfStructural
  <2> QED BY <1>4, <1>5, <2>2
<1>7. ASSUME NEW m \in 0..(n - 1), m \in G PROVE m + 1 \in G
  <2>1. m + 1 \in 1..n /\ (m + 1) - 1 = m /\ m \in 0..n
    BY <1>3
  <2>2. f[m + 1] = f[m] \o Q[m + 1] /\ f[m] \in T /\ Q[m + 1] \in T
    BY <1>3, <1>4, <2>1
  <2>3. h[m + 1] = h[m] \o R[m + 1]
    BY <1>5, <2>1
  <2>4. StructureOf(f[m] \o Q[m + 1]) = StructureOf(f[m]) \o StructureOf(Q[m + 1])
    BY <2>2, StructureOfConcat
  <2>5. StructureOf(Q[m + 1]) = R[m + 1]
    BY <2>1
  <2>6. StructureOf(f[m + 1]) = h[m + 1]
    BY <1>7, <2>2, <2>3, <2>4, <2>5
  <2> QED BY <2>6
<1>8. 0..n \subseteq G
  <2> HIDE DEF G, n
  <2> QED BY <1>3, <1>6, <1>7, UpTo
<1>9. StructureOf(f[n]) = h[n]
  BY <1>3, <1>8
<1> QED BY <1>1, <1>2, <1>9

-----------------------------------------------------------------------------
(* Lines, sections and values.                                              *)

\* The lines of a document outside its fences are lines.
LEMMA ContentType ==
    ASSUME NEW source \in DocType
    PROVE  ContentLines(source) \in Seq(LineType)
BY PickedIs DEF ContentLines, LinesOutside, DocType

\* So are those under a heading.
LEMMA LinesUnderType ==
    ASSUME NEW content \in Seq(LineType), NEW heading
    PROVE  LinesUnder(content, heading) \in Seq(LineType)
BY PickedIs DEF LinesUnder, LinesWith

\* A section has bullets, and a number of occurrences.
LEMMA SectionIs ==
    ASSUME NEW source \in DocType, NEW heading
    PROVE  /\ Section(source, heading).entries \in Seq(LineType)
           /\ Section(source, heading).count \in Nat
           /\ \A i \in 1..Len(Section(source, heading).entries) :
                 IsBullet(Section(source, heading).entries[i])
<1> DEFINE content == ContentLines(source)
           lines == LinesUnder(content, heading)
           chosen == {i \in 1..Len(lines) : IsBullet(lines[i])}
           H == {i \in 1..Len(content) : content[i].t = "heading" /\ content[i].h = heading}
<1>1. content \in Seq(LineType)
  BY ContentType
<1>2. lines \in Seq(LineType)
  BY <1>1, LinesUnderType
<1>3. Section(source, heading) = [count |-> Cardinality(H), entries |-> Picked(lines, chosen)]
  BY DEF Section, SectionOf, Where
<1>4. Cardinality(H) \in Nat
  <2>1. Len(content) \in Nat
    BY <1>1
  <2> HIDE DEF content
  <2>2. IsFiniteSet(1..Len(content))
    BY <2>1, FS_Interval
  <2>3. H \subseteq 1..Len(content)
    OBVIOUS
  <2> HIDE DEF H
  <2> QED BY <2>2, <2>3, FS_Subset, FS_CardinalityType
<1> HIDE DEF lines
<1>0. \A i \in chosen : IsBullet(lines[i])
  OBVIOUS
<1> HIDE DEF chosen
<1>5. /\ Picked(lines, chosen) \in Seq(LineType)
      /\ \A k \in 1..Len(Picked(lines, chosen)) :
           \E i \in 1..Len(lines) : i \in chosen /\ Picked(lines, chosen)[k] = lines[i]
  BY <1>2, PickedIs
<1>6. \A k \in 1..Len(Picked(lines, chosen)) : IsBullet(Picked(lines, chosen)[k])
  BY <1>0, <1>5
<1> HIDE DEF H
<1> QED BY <1>3, <1>4, <1>5, <1>6

Declaring(es, label) == {i \in 1..Len(es) : IsDecl(es[i]) /\ es[i].h = label}

\* The values of a label are those of the declarations that are picked.
LEMMA ValuesAre ==
    ASSUME NEW es, NEW label
    PROVE  Values(es, label) =
             [k \in 1..Len(Picked(es, Declaring(es, label))) |->
                 Picked(es, Declaring(es, label))[k].v]
BY DEF Values, Where, Declaring

\* Every declaration of a label gives a value, and every value comes from one.
LEMMA ValuesIs ==
    ASSUME NEW es \in Seq(LineType), NEW label
    PROVE  /\ Values(es, label) \in Seq(TextType)
           /\ Values(es, label) = <<>> <=>
                 \A i \in 1..Len(es) : ~(IsDecl(es[i]) /\ es[i].h = label)
           /\ \A k \in 1..Len(Values(es, label)) :
                 \E i \in 1..Len(es) : /\ IsDecl(es[i]) /\ es[i].h = label
                                            /\ Values(es, label)[k] = es[i].v
           /\ \A i \in 1..Len(es) : IsDecl(es[i]) /\ es[i].h = label =>
                 \E k \in 1..Len(Values(es, label)) : Values(es, label)[k] = es[i].v
<1> DEFINE c == Declaring(es, label)
           p == Picked(es, c)
           v == Values(es, label)
<1>1. /\ p \in Seq(LineType)
      /\ \A k \in 1..Len(p) : \E i \in 1..Len(es) : i \in c /\ p[k] = es[i]
      /\ \A i \in 1..Len(es) : i \in c => \E k \in 1..Len(p) : p[k] = es[i]
  BY PickedIs
<1>2. p = <<>> <=> \A i \in 1..Len(es) : i \notin c
  BY PickedNone
<1>3. v = [k \in 1..Len(p) |-> p[k].v]
  BY ValuesAre
<1>4. \A i \in 1..Len(es) : i \in c <=> IsDecl(es[i]) /\ es[i].h = label
  BY DEF Declaring
<1> HIDE DEF c, p, v
<1>5. Len(p) \in Nat /\ \A k \in 1..Len(p) : p[k] \in LineType
  BY <1>1
<1>6. v \in Seq(TextType) /\ Len(v) = Len(p)
  BY <1>3, <1>5 DEF LineType
<1>7. v = <<>> <=> p = <<>>
  BY <1>1, <1>6
<1>8. \A k \in 1..Len(v) : \E i \in 1..Len(es) : i \in c /\ v[k] = es[i].v
  BY <1>1, <1>3, <1>6
<1>9. \A i \in 1..Len(es) : i \in c => \E k \in 1..Len(v) : v[k] = es[i].v
  <2> TAKE i \in 1..Len(es)
  <2> HAVE i \in c
  <2>1. PICK k \in 1..Len(p) : p[k] = es[i]
    BY <1>1
  <2> QED BY <1>3, <1>6, <2>1
<1> QED BY <1>2, <1>4, <1>6, <1>7, <1>8, <1>9 DEF v

\* The first declaration of a label gives the first value.
LEMMA ValuesFirst ==
    ASSUME NEW es \in Seq(LineType), NEW label, NEW i \in 1..Len(es),
           i \in Declaring(es, label),
           \A j \in 1..(i - 1) : j \notin Declaring(es, label)
    PROVE  Len(Values(es, label)) > 0 /\ Values(es, label)[1] = es[i].v
<1> DEFINE p == Picked(es, Declaring(es, label))
<1>1. Len(p) > 0 /\ p[1] = es[i]
  BY PickedFirst
<1>2. p \in Seq(LineType)
  BY PickedIs
<1>3. Values(es, label) = [k \in 1..Len(p) |-> p[k].v]
  BY ValuesAre
<1> HIDE DEF p
<1> QED BY <1>1, <1>2, <1>3

\* The strict values of a label are texts.
LEMMA StrictValuesType ==
    ASSUME NEW es \in Seq(LineType), NEW label
    PROVE  StrictValues(es, label) \in Seq(TextType)
BY PickedIs, ValuesIs DEF StrictValues, Where

-----------------------------------------------------------------------------
(* The issues of a Story.                                                   *)

\* How many lines a section has.
LEMMA EntriesLength ==
    ASSUME NEW source \in DocType, NEW heading
    PROVE  Len(Section(source, heading).entries) \in Nat
<1>1. Section(source, heading).entries \in Seq(LineType)
  BY SectionIs
<1> QED BY <1>1

\* The issues of the task mode.
LEMMA TaskModeIssuesSeq ==
    ASSUME NEW story
    PROVE  IsSeq(TaskModeIssues(story))
<1> DEFINE given == TaskModes_(story)
           a == Flag(Len(given) > 1, "STORY_TASK_MODE_REPEATED")
           b == Flag(Len(given) = 1 /\ ~IsWord(given[1], TaskModes), "STORY_TASK_MODE_INVALID")
<1>1. IsSeq(a) /\ IsSeq(b)
  BY OneIsSeq, EmptyIsSeq DEF Flag
<1>2. TaskModeIssues(story) = a \o b
  BY DEF TaskModeIssues
<1> HIDE DEF a, b
<1> QED BY <1>1, <1>2, ConcatIsSeq

\* No issue of the authority: every line names an operation once and says yes or no.
LEMMA AuthorityIssuesSeq ==
    ASSUME NEW story \in DocType, NEW mode
    PROVE  /\ IsSeq(ReadAuthorityIssues(story, mode))
           /\ ReadAuthorityIssues(story, mode) = <<>> => 
                LET es == Section(story, "## Authority").entries
                IN  /\ \A i \in 1..Len(es) :
                        /\ IsDecl(es[i]) /\ es[i].h \in Operations
                        /\ ~\E j \in 1..(i - 1) : IsDecl(es[j]) /\ es[j].h = es[i].h
                        /\ IsWord(es[i].v, {"yes", "no"})
                    /\ RepeatedSection(Section(story, "## Authority")) = <<>>
<1> DEFINE section == Section(story, "## Authority")
           es == section.entries
           granted == ReadAuthority(story, mode)
           Of(i) == IF ~IsDecl(es[i]) THEN <<"STORY_AUTHORITY_ENTRY_INVALID">>
                 ELSE IF es[i].h \notin Operations THEN <<"STORY_AUTHORITY_UNKNOWN_OPERATION">>
                 ELSE IF \E j \in 1..(i - 1) : IsDecl(es[j]) /\ es[j].h = es[i].h
                   THEN <<"STORY_AUTHORITY_REPEATED">>
                 ELSE Flag(~IsWord(es[i].v, {"yes", "no"}), "STORY_AUTHORITY_VALUE_INVALID")
           Chain(op, needs) == Flag(granted[op] /\ ~granted[needs], "STORY_AUTHORITY_CHAIN")
           mutating == <<"modify", "add_dependency", "migration", "commit", "push", "deploy">>
           Mode(k) == Flag(mode = "evidence" /\ granted[mutating[k]], "STORY_AUTHORITY_EVIDENCE_MODE")
           Q == [i \in 1..Len(es) |-> Of(i)]
           M == [k \in 1..Len(mutating) |-> Mode(k)]
           n == Len(es)
<1>1. ReadAuthorityIssues(story, mode) =
        FlattenSeq(Q) \o RepeatedSection(section) \o Chain("deploy", "push") \o Chain("push", "commit")
          \o Chain("commit", "modify") \o FlattenSeq(M)
  BY DEF ReadAuthorityIssues, Codes
<1>2. n \in Nat
  BY EntriesLength
<1>3. \A i \in 1..n : IsSeq(Q[i])
  BY OneIsSeq, EmptyIsSeq DEF Flag
<1>4. \A i \in 1..n : Q[i] = <<>> =>
                        /\ IsDecl(es[i]) /\ es[i].h \in Operations
                        /\ ~\E j \in 1..(i - 1) : IsDecl(es[j]) /\ es[j].h = es[i].h
                        /\ IsWord(es[i].v, {"yes", "no"})
  BY OneIsSeq DEF Flag
<1>5. Q = [i \in 1..n |-> Q[i]]
  OBVIOUS
<1>6. 6 \in Nat /\ M = [i \in 1..6 |-> M[i]] /\ \A i \in 1..6 : IsSeq(M[i])
  <2>1. Len(mutating) = 6
    OBVIOUS
  <2>2. \A i \in 1..6 : M[i] = Mode(i)
    BY <2>1
  <2>3. \A i \in 1..6 : IsSeq(Mode(i))
    BY OneIsSeq, EmptyIsSeq DEF Flag
  <2> QED BY <2>1, <2>2, <2>3
<1>7. IsSeq(Chain("deploy", "push")) /\ IsSeq(Chain("push", "commit")) /\ IsSeq(Chain("commit", "modify"))
        /\ IsSeq(RepeatedSection(section))
  BY OneIsSeq, EmptyIsSeq DEF Flag, RepeatedSection
<1> HIDE DEF Q, M, Chain, section
<1>8. IsSeq(FlattenSeq(Q)) /\ (FlattenSeq(Q) = <<>> <=> \A i \in 1..n : Q[i] = <<>>)
  <2> HIDE DEF n
  <2> QED BY <1>2, <1>3, <1>5, FlatIsSeq
<1>9. IsSeq(FlattenSeq(M))
  BY <1>6, FlatIsSeq
<1>10. /\ IsSeq(ReadAuthorityIssues(story, mode))
       /\ ReadAuthorityIssues(story, mode) = <<>> =>
             FlattenSeq(Q) = <<>> /\ RepeatedSection(section) = <<>>
  BY <1>1, <1>7, <1>8, <1>9, ConcatIsSeq
<1> QED BY <1>4, <1>8, <1>10 DEF section

\* No issue of a declared word: it is not declared, or once and one of the words.
LEMMA DeclaredIssuesSeq ==
    ASSUME NEW values \in Seq(TextType), NEW words, NEW repeated, NEW invalid
    PROVE  /\ IsSeq(DeclaredIssues(values, words, repeated, invalid))
           /\ DeclaredIssues(values, words, repeated, invalid) = <<>> <=>
                 values = <<>> \/ (Len(values) = 1 /\ IsWord(values[1], words))
<1> DEFINE a == Flag(Len(values) > 1, repeated)
           b == Flag(Len(values) = 1 /\ ~IsWord(values[1], words), invalid)
<1>1. IsSeq(a) /\ IsSeq(b) /\ (a = <<>> <=> ~(Len(values) > 1))
        /\ (b = <<>> <=> ~(Len(values) = 1 /\ ~IsWord(values[1], words)))
  BY OneIsSeq, EmptyIsSeq DEF Flag
<1>2. DeclaredIssues(values, words, repeated, invalid) = a \o b
  BY DEF DeclaredIssues
<1>3. Len(values) \in Nat /\ (values = <<>> <=> Len(values) = 0)
  OBVIOUS
<1> HIDE DEF a, b
<1>4. IsSeq(a \o b) /\ (a \o b = <<>> <=> a = <<>> /\ b = <<>>)
  BY <1>1, ConcatIsSeq
<1>5. /\ ~(Len(values) > 1) <=> (Len(values) = 0 \/ Len(values) = 1)
      /\ Len(values) = 0 => Len(values) # 1
  <2> DEFINE n == Len(values)
  <2>1. n \in Nat
    BY <1>3
  <2> HIDE DEF n
  <2>2. ~(n > 1) <=> (n = 0 \/ n = 1)
    BY <2>1
  <2>3. n = 0 => n # 1
    BY <2>1
  <2> QED BY <2>2, <2>3 DEF n
<1> QED BY <1>1, <1>2, <1>3, <1>4, <1>5, Zenon

\* No issue of the architecture: every line is a known label with an exact value.
LEMMA ArchitectureIssuesSeq ==
    ASSUME NEW story \in DocType
    PROVE  /\ IsSeq(ReadArchitectureIssues(story))
           /\ ReadArchitectureIssues(story) = <<>> =>
                LET es == Section(story, "## Architecture").entries
                    impacts == Values(es, "Impact")
                IN  /\ \A i \in 1..Len(es) :
                        /\ IsDecl(es[i])
                        /\ es[i].h # "Impact" => es[i].h \in ArchitectureLabels /\ ExactValue(es[i].v)
                    /\ RepeatedSection(Section(story, "## Architecture")) = <<>>
                    /\ impacts = <<>> \/ (Len(impacts) = 1 /\ IsWord(impacts[1], Levels))
<1> DEFINE section == Section(story, "## Architecture")
           es == section.entries
           impacts == Values(es, "Impact")
           Stated(label) == \E i \in 1..Len(es) : IsDecl(es[i]) /\ es[i].h = label /\ ExactValue(es[i].v)
           Of(i) == IF ~IsDecl(es[i]) THEN <<"STORY_ARCHITECTURE_ENTRY_INVALID">>
                 ELSE IF es[i].h = "Impact" THEN <<>>
                 ELSE IF es[i].h \notin ArchitectureLabels
                   THEN <<"STORY_ARCHITECTURE_UNKNOWN_LABEL">>
                 ELSE IF ~ExactValue(es[i].v) THEN <<"STORY_ARCHITECTURE_LITERAL_INVALID">>
                 ELSE Flag(es[i].h = "Decision"
                             /\ StandsIn(es[i].v.s, ReferencedWords(SubSeq(es, 1, i - 1))),
                           "STORY_ARCHITECTURE_DECISION_REPEATED")
           Q == [i \in 1..Len(es) |-> Of(i)]
           n == Len(es)
           d == DeclaredIssues(impacts, Levels, "STORY_ARCHITECTURE_IMPACT_REPEATED",
                                             "STORY_ARCHITECTURE_IMPACT_INVALID")
           u == Flag(ReadLevel(impacts) # "low" /\ ~Stated("Decision") /\ ~Stated("Contract"),
                  "STORY_ARCHITECTURE_IMPACT_UNSUPPORTED")
<1>1. ReadArchitectureIssues(story) = FlattenSeq(Q) \o RepeatedSection(section) \o d \o u
  BY DEF ReadArchitectureIssues, Codes
<1>2. n \in Nat
  BY EntriesLength
<1>3. \A i \in 1..n : IsSeq(Q[i])
  BY OneIsSeq, EmptyIsSeq DEF Flag
<1>4. \A i \in 1..n : Q[i] = <<>> =>
                        /\ IsDecl(es[i])
                        /\ es[i].h # "Impact" => es[i].h \in ArchitectureLabels /\ ExactValue(es[i].v)
  BY OneIsSeq DEF Flag
<1>5. Q = [i \in 1..n |-> Q[i]]
  OBVIOUS
<1>6. impacts \in Seq(TextType)
  BY SectionIs, ValuesIs
<1>7. IsSeq(RepeatedSection(section)) /\ IsSeq(u)
  BY OneIsSeq, EmptyIsSeq DEF Flag, RepeatedSection
<1>8. IsSeq(d) /\ (d = <<>> => impacts = <<>> \/ (Len(impacts) = 1 /\ IsWord(impacts[1], Levels)))
  <2> HIDE DEF impacts
  <2> QED BY <1>6, DeclaredIssuesSeq
<1> HIDE DEF Q, d, u, section
<1>9. IsSeq(FlattenSeq(Q)) /\ (FlattenSeq(Q) = <<>> <=> \A i \in 1..n : Q[i] = <<>>)
  <2> HIDE DEF n
  <2> QED BY <1>2, <1>3, <1>5, FlatIsSeq
<1>10. IsSeq(ReadArchitectureIssues(story))
         /\ (ReadArchitectureIssues(story) = <<>> =>
                FlattenSeq(Q) = <<>> /\ RepeatedSection(section) = <<>> /\ d = <<>>)
  BY <1>1, <1>7, <1>8, <1>9, ConcatIsSeq
<1> QED BY <1>4, <1>8, <1>9, <1>10 DEF section

\* The issues of the owner.
LEMMA OwnerIssuesSeq ==
    ASSUME NEW story \in DocType
    PROVE  IsSeq(OwnerIssues(story))
<1> DEFINE es == Section(story, "## Architecture").entries
        values == Values(es, "Owner")
        owners == Picked(values, {i \in 1..Len(values) : ExactValue(values[i])})
        boundaries == {v.s : v \in ToSet(Where(Values(es, "Boundary"), ExactValue))}
        Of(i) ==
            LET words == owners[i].s
                signs == {k \in 2..(Len(words) - 1) : words[k] = "="}
                first == CHOOSE k \in signs : \A j \in signs : k <= j
            IN  IF signs = {} THEN <<"STORY_ARCHITECTURE_OWNER_MALFORMED">>
                ELSE IF SubSeq(words, first + 1, Len(words)) = <<"">>
                  THEN <<"STORY_ARCHITECTURE_OWNER_UNOWNED">>
                ELSE Flag(SubSeq(words, 1, first - 1) \notin boundaries,
                          "STORY_ARCHITECTURE_OWNER_UNDECLARED")
        n == Len(owners)
        Q == [i \in 1..n |-> Of(i)]
<1>1. OwnerIssues(story) = FlattenSeq(Q)
  BY ONLY Zenon DEF OwnerIssues, Codes, Where
<1>2. owners \in Seq(TextType)
  <2>1. values \in Seq(TextType)
    BY SectionIs, ValuesIs
  <2> HIDE DEF values
  <2> QED BY <2>1, PickedIs
<1>3. n \in Nat
  <2> HIDE DEF owners
  <2> QED BY <1>2
<1>4. \A i \in 1..n : IsSeq(Of(i))
  BY OneIsSeq, EmptyIsSeq, Zenon DEF Flag
<1> HIDE DEF Of, n
<1>5. Q = [i \in 1..n |-> Q[i]] /\ \A i \in 1..n : IsSeq(Q[i])
  BY ONLY <1>4
<1> HIDE DEF Q
<1> QED BY ONLY <1>1, <1>3, <1>5, FlatIsSeq

\* The issues of a decision that was looked for.
LEMMA DecisionIssuesSeq ==
    ASSUME NEW id, NEW mode, NEW record,
           record.kind \in {"missing", "ambiguous", "unreadable", "retired", "found"}
    PROVE  IsSeq(DecisionIssues(id, mode, record))
BY OneIsSeq, EmptyIsSeq DEF DecisionIssues, Flag

\* The length of a sequence is a number.
LEMMA IsSeqLen ==
    ASSUME NEW s, IsSeq(s)
    PROVE  Len(s) \in Nat
BY DEF IsSeq

\* A text has words.
LEMMA TextWords ==
    ASSUME NEW v \in TextType
    PROVE  v.s \in Seq(STRING)
BY DEF TextType

\* No issue of the risk: a level, reasons, and signals that are known and not repeated.
LEMMA RiskIssuesSeq ==
    ASSUME NEW story \in DocType
    PROVE  /\ IsSeq(ReadRiskIssues(story))
           /\ ReadRiskIssues(story) = <<>> =>
                LET es == Section(story, "## Risk").entries
                    levels == Values(es, "Level")
                IN  /\ \A i \in 1..Len(es) :
                        /\ IsDecl(es[i])
                        /\ \/ es[i].h = "Level"
                           \/ es[i].h = "Reason" /\ ExactValue(es[i].v)
                           \/ /\ es[i].h = "Signal"
                              /\ StructuredLiteral(es[i].v) /\ OneOf(es[i].v, RiskSignals)
                              /\ ~\E j \in 1..(i - 1) :
                                    IsDecl(es[j]) /\ es[j].h = "Signal" /\ es[j].v = es[i].v
                    /\ RepeatedSection(Section(story, "## Risk")) = <<>>
                    /\ levels = <<>> \/ (Len(levels) = 1 /\ IsWord(levels[1], Levels))
<1> DEFINE section == Section(story, "## Risk")
        es == section.entries
        levels == Values(es, "Level")
        level == ReadLevel(levels)
        reasons == Values(es, "Reason")
        W == [i \in 1..Len(reasons) |-> IF ExactValue(reasons[i]) THEN reasons[i].s ELSE <<>>]
        words == FlattenSeq(W)
        OfSignal(i) ==
            IF ~StructuredLiteral(es[i].v) THEN <<"STORY_RISK_SIGNAL_INVALID">>
            ELSE IF ~OneOf(es[i].v, RiskSignals) THEN <<"STORY_RISK_SIGNAL_UNKNOWN">>
            ELSE Flag(\E j \in 1..(i - 1) :
                        IsDecl(es[j]) /\ es[j].h = "Signal" /\ es[j].v = es[i].v,
                      "STORY_RISK_SIGNAL_REPEATED")
        Of(i) == IF ~IsDecl(es[i]) THEN <<"STORY_RISK_ENTRY_INVALID">>
                 ELSE IF es[i].h = "Level" THEN <<>>
                 ELSE IF es[i].h = "Reason"
                   THEN Flag(~ExactValue(es[i].v), "STORY_RISK_REASON_INVALID")
                 ELSE IF es[i].h = "Signal" THEN OfSignal(i)
                 ELSE <<"STORY_RISK_UNKNOWN_LABEL">>
        Under(k) == Flag(level # "high" /\ words[k] \in HighRiskSignals,
                         "STORY_RISK_SIGNAL_UNDERSTATED")
        n == Len(es)
        Q == [i \in 1..n |-> Of(i)]
        U == [k \in 1..Len(words) |-> Under(k)]
        d == DeclaredIssues(levels, Levels, "STORY_RISK_LEVEL_REPEATED", "STORY_RISK_LEVEL_INVALID")
        m == Flag(level # "low" /\ reasons = <<>>, "STORY_RISK_REASON_MISSING")
<1>1. ReadRiskIssues(story) =
        FlattenSeq(Q) \o RepeatedSection(section) \o d \o m \o FlattenSeq(U)
  BY DEF ReadRiskIssues, Codes
<1>2. n \in Nat
  BY EntriesLength
<1>3. \A i \in 1..n : IsSeq(Q[i])
  BY OneIsSeq, EmptyIsSeq DEF Flag
<1>4. \A i \in 1..n : Q[i] = <<>> =>
        /\ IsDecl(es[i])
        /\ \/ es[i].h = "Level"
           \/ es[i].h = "Reason" /\ ExactValue(es[i].v)
           \/ /\ es[i].h = "Signal"
              /\ StructuredLiteral(es[i].v) /\ OneOf(es[i].v, RiskSignals)
              /\ ~\E j \in 1..(i - 1) :
                    IsDecl(es[j]) /\ es[j].h = "Signal" /\ es[j].v = es[i].v
  BY OneIsSeq DEF Flag
<1>5. Q = [i \in 1..n |-> Q[i]]
  OBVIOUS
<1>6. levels \in Seq(TextType) /\ reasons \in Seq(TextType)
  BY SectionIs, ValuesIs
<1>7. IsSeq(words)
  <2> HIDE DEF reasons
  <2>1. Len(reasons) \in Nat /\ \A i \in 1..Len(reasons) : reasons[i].s \in Seq(STRING)
    <3>1. reasons \in Seq(TextType)
      BY <1>6
    <3>2. Len(reasons) \in Nat /\ \A i \in 1..Len(reasons) : reasons[i] \in TextType
      BY <3>1
    <3> QED BY <3>2, TextWords
  <2>2. \A i \in 1..Len(reasons) : IsSeq(W[i])
    BY <2>1, SeqIsSeq, EmptyIsSeq
  <2>3. W = [i \in 1..Len(reasons) |-> W[i]]
    OBVIOUS
  <2> HIDE DEF W
  <2> QED BY <2>1, <2>2, <2>3, FlatIsSeq
<1> HIDE DEF words
<1>8. IsSeq(FlattenSeq(U))
  <2>1. Len(words) \in Nat
    BY <1>7, IsSeqLen
  <2>2. \A k \in 1..Len(words) : IsSeq(U[k])
    BY OneIsSeq, EmptyIsSeq DEF Flag
  <2>3. U = [k \in 1..Len(words) |-> U[k]]
    OBVIOUS
  <2> HIDE DEF U
  <2> QED BY <2>1, <2>2, <2>3, FlatIsSeq
<1>9. IsSeq(RepeatedSection(section)) /\ IsSeq(m)
  BY OneIsSeq, EmptyIsSeq DEF Flag, RepeatedSection
<1>10. IsSeq(d) /\ (d = <<>> => levels = <<>> \/ (Len(levels) = 1 /\ IsWord(levels[1], Levels)))
  <2> HIDE DEF levels
  <2> QED BY <1>6, DeclaredIssuesSeq
<1> HIDE DEF Q, d, m, U, section
<1>11. IsSeq(FlattenSeq(Q)) /\ (FlattenSeq(Q) = <<>> <=> \A i \in 1..n : Q[i] = <<>>)
  <2> HIDE DEF n
  <2> QED BY <1>2, <1>3, <1>5, FlatIsSeq
<1>12. IsSeq(ReadRiskIssues(story))
         /\ (ReadRiskIssues(story) = <<>> =>
                FlattenSeq(Q) = <<>> /\ RepeatedSection(section) = <<>> /\ d = <<>>)
  BY <1>1, <1>8, <1>9, <1>10, <1>11, ConcatIsSeq
<1> QED BY <1>4, <1>10, <1>11, <1>12 DEF section

\* The criteria of an acceptance document are lines.
LEMMA BoxesType ==
    ASSUME NEW acceptance \in DocType
    PROVE  AcceptanceBoxes(acceptance) \in Seq(LineType)
<1>1. ContentLines(acceptance) \in Seq(LineType)
  BY ContentType
<1> QED BY <1>1, PickedIs DEF AcceptanceBoxes, Where

\* So are the rows of a table.
LEMMA TableType ==
    ASSUME NEW acceptance \in DocType, NEW heading
    PROVE  TableUnder(acceptance, heading) \in Seq(LineType)
<1>1. ContentLines(acceptance) \in Seq(LineType)
  BY ContentType
<1>2. LinesUnder(ContentLines(acceptance), heading) \in Seq(LineType)
  BY <1>1, LinesUnderType
<1> QED BY <1>2, PickedIs DEF TableUnder, Where

\* The rows below the header and the separator of a table, however short it is.
LEMMA RowsType ==
    ASSUME NEW S, NEW table \in Seq(S)
    PROVE  SubSeq(table, 3, Len(table)) \in Seq(S)
<1>1. Len(table) \in Nat
  OBVIOUS
<1>2. CASE Len(table) >= 3
  BY <1>1, <1>2
<1>3. CASE Len(table) < 3
  BY <1>1, <1>3
<1> QED BY <1>1, <1>2, <1>3

\* The issues of the criteria.
LEMMA BoxIssuesSeq ==
    ASSUME NEW acceptance \in DocType
    PROVE  IsSeq(AcceptanceBoxIssues(acceptance))
<1> DEFINE boxes == AcceptanceBoxes(acceptance)
        A(i) == Flag(\E j \in 1..(i - 1) : boxes[j].h = boxes[i].h, "STORY_READY_AC_DUPLICATE")
        B(i) == Flag(~ReadyContent(boxes[i].v), "STORY_READY_AC_CONTENT")
        Q == [i \in 1..Len(boxes) |-> A(i) \o B(i)]
        none == Flag(boxes = <<>>, "STORY_READY_AC_MISSING")
<1>1. Len(boxes) \in Nat
  <2>1. boxes \in Seq(LineType)
    BY BoxesType
  <2> HIDE DEF boxes
  <2> QED BY <2>1
<1>2. AcceptanceBoxIssues(acceptance) = FlattenSeq(Q) \o none
  BY DEF AcceptanceBoxIssues, Codes
<1>3. \A i \in 1..Len(boxes) : IsSeq(A(i)) /\ IsSeq(B(i))
  BY OneIsSeq, EmptyIsSeq DEF Flag
<1>4. \A i \in 1..Len(boxes) : IsSeq(A(i) \o B(i))
  <2> HIDE DEF A, B
  <2> QED BY <1>3, ConcatIsSeq
<1>5. \A i \in 1..Len(boxes) : IsSeq(Q[i])
  <2> HIDE DEF A, B
  <2> QED BY <1>4
<1>6. Q = [i \in 1..Len(boxes) |-> Q[i]]
  OBVIOUS
<1>7. IsSeq(none)
  BY OneIsSeq, EmptyIsSeq DEF Flag
<1> HIDE DEF Q, none, boxes
<1>8. IsSeq(FlattenSeq(Q))
  BY <1>1, <1>5, <1>6, FlatIsSeq
<1> QED BY <1>2, <1>7, <1>8, ConcatIsSeq

\* Three lists after one another.
LEMMA Concat3 ==
    ASSUME NEW a, NEW b, NEW c, IsSeq(a), IsSeq(b), IsSeq(c)
    PROVE  IsSeq(a \o b \o c)
BY ConcatIsSeq

\* The issues of a row of the evidence table,
LEMMA EvidenceRowSeq ==
    ASSUME NEW rows, NEW i, NEW acceptanceIds
    PROVE  IsSeq(CheckEvidenceRow(rows, i, acceptanceIds))
<1> DEFINE cells == rows[i].cells
        Whole(r) == FiveColumns(r) /\ r.cells[6] = Blank /\ EvidenceAcceptanceId(r.cells[1])
        unknown == Flag(cells[1].s[1] \notin acceptanceIds, "STORY_READY_EVIDENCE_AC_UNKNOWN")
        again == Flag(\E j \in 1..(i - 1) : Whole(rows[j]) /\ rows[j].cells[1] = cells[1],
                      "STORY_READY_EVIDENCE_AC_DUPLICATE")
        named == CASE ~EvidenceAcceptanceId(cells[1]) -> <<"STORY_READY_EVIDENCE_AC">>
                   [] OTHER -> unknown \o again
        Unspecified(v) == v.q = "prose" /\ (v.s = <<>> \/ OneOf(v, EvidencePlaceholders))
        OfCell(k) == IF Unspecified(cells[k + 2]) THEN <<"STORY_READY_EVIDENCE_UNSPECIFIED">>
                     ELSE Flag(~ExactValue(cells[k + 2]), "STORY_READY_EVIDENCE_LITERAL")
        method == Flag(~IsWord(cells[2], {"test", "command", "human"}), "STORY_READY_EVIDENCE_METHOD")
        Q == [k \in 1..3 |-> OfCell(k)]
<1>1. Codes(<<1, 2, 3>>, OfCell) = FlattenSeq(Q)
  <2>1. Len(<<1, 2, 3>>) = 3
    OBVIOUS
  <2> QED BY <2>1 DEF Codes
<1>2. \/ CheckEvidenceRow(rows, i, acceptanceIds) = <<"STORY_READY_EVIDENCE_COLUMNS">>
      \/ CheckEvidenceRow(rows, i, acceptanceIds) = <<"STORY_READY_EVIDENCE_TAIL">>
      \/ CheckEvidenceRow(rows, i, acceptanceIds) = named \o method \o FlattenSeq(Q)
  BY <1>1 DEF CheckEvidenceRow
<1>3. IsSeq(unknown) /\ IsSeq(again) /\ IsSeq(method)
  BY OneIsSeq, EmptyIsSeq DEF Flag
<1>4. IsSeq(named)
  <2> HIDE DEF unknown, again
  <2>1. named = <<"STORY_READY_EVIDENCE_AC">> \/ named = unknown \o again
    OBVIOUS
  <2>2. IsSeq(unknown \o again) /\ IsSeq(<<"STORY_READY_EVIDENCE_AC">>)
    BY <1>3, OneIsSeq, ConcatIsSeq
  <2> HIDE DEF named
  <2> QED BY ONLY <2>1, <2>2
<1>5. 3 \in Nat /\ Q = [k \in 1..3 |-> Q[k]] /\ \A k \in 1..3 : IsSeq(Q[k])
  BY OneIsSeq, EmptyIsSeq DEF Flag
<1> HIDE DEF Q, named, method
<1>6. IsSeq(FlattenSeq(Q))
  BY <1>5, FlatIsSeq
<1> QED BY <1>2, <1>3, <1>4, <1>6, Concat3, OneIsSeq

\* ... and of the table.
LEMMA EvidenceTableSeq ==
    ASSUME NEW acceptance \in DocType
    PROVE  IsSeq(EvidenceTableIssues(acceptance))
<1> DEFINE table == TableUnder(acceptance, "## Acceptance Evidence")
        rows == EvidenceRows(acceptance)
        found == Occurrences(acceptance, "## Acceptance Evidence")
        boxes == AcceptanceBoxes(acceptance)
        acceptanceIds == {b.h : b \in ToSet(boxes)}
        f1 == Flag(Len(table) > 0 /\ table[1].h # "evidence header", "STORY_READY_EVIDENCE_HEADER")
        f2 == Flag(Len(table) > 1 /\ table[2].h # "separator", "STORY_READY_EVIDENCE_SEPARATOR")
        f3 == Flag(found = 0, "STORY_READY_EVIDENCE_MISSING")
        f4 == Flag(found > 1, "STORY_READY_EVIDENCE_REPEATED")
        f5 == Flag(found = 1 /\ rows = <<>>, "STORY_READY_EVIDENCE_EMPTY")
        Q == [i \in 1..Len(rows) |-> CheckEvidenceRow(rows, i, acceptanceIds)]
        R == [i \in 1..Len(boxes) |-> Flag(boxes[i].h \notin EvidenceIds(acceptance),
                                           "STORY_READY_EVIDENCE_AC_MISSING")]
<1>1. EvidenceTableIssues(acceptance) =
         f1 \o f2 \o FlattenSeq(Q) \o f3 \o f4 \o f5 \o FlattenSeq(R)
  BY DEF EvidenceTableIssues, Codes
<1>2. IsSeq(f1) /\ IsSeq(f2) /\ IsSeq(f3) /\ IsSeq(f4) /\ IsSeq(f5)
  BY OneIsSeq, EmptyIsSeq DEF Flag
<1>3. Len(rows) \in Nat
  <2>1. table \in Seq(LineType)
    BY TableType
  <2>2. rows \in Seq(LineType)
    <3>1. rows = SubSeq(table, 3, Len(table))
      BY DEF EvidenceRows
    <3> HIDE DEF table, rows
    <3> QED BY <2>1, <3>1, RowsType
  <2> HIDE DEF rows
  <2> QED BY <2>2
<1>4. Len(boxes) \in Nat
  <2>1. boxes \in Seq(LineType)
    BY BoxesType
  <2> HIDE DEF boxes
  <2> QED BY <2>1
<1> HIDE DEF f1, f2, f3, f4, f5
<1>5. IsSeq(FlattenSeq(Q))
  <2>1. \A i \in 1..Len(rows) : IsSeq(Q[i])
    BY EvidenceRowSeq
  <2>2. Q = [i \in 1..Len(rows) |-> Q[i]]
    OBVIOUS
  <2> HIDE DEF Q, rows
  <2> QED BY <1>3, <2>1, <2>2, FlatIsSeq
<1>6. IsSeq(FlattenSeq(R))
  <2>1. \A i \in 1..Len(boxes) : IsSeq(R[i])
    BY OneIsSeq, EmptyIsSeq DEF Flag
  <2>2. R = [i \in 1..Len(boxes) |-> R[i]]
    OBVIOUS
  <2> HIDE DEF R, boxes
  <2> QED BY <1>4, <2>1, <2>2, FlatIsSeq
<1> HIDE DEF Q, R
<1>7. IsSeq(f1 \o f2 \o FlattenSeq(Q))
  BY <1>2, <1>5, Concat3
<1>8. IsSeq(f1 \o f2 \o FlattenSeq(Q) \o f3 \o f4)
  BY <1>2, <1>7, Concat3
<1> QED BY <1>1, <1>2, <1>6, <1>8, Concat3

\* The issues of readiness.
LEMMA ReadinessSeq ==
    ASSUME NEW story, NEW acceptance \in DocType
    PROVE  IsSeq(CheckStoryReadiness(story, acceptance))
<1> DEFINE f1 == Flag(~HasReadyContent(story, "## Goal"), "STORY_READY_GOAL")
           f2 == Flag(~HasReadyContent(story, "## Scope"), "STORY_READY_SCOPE")
           boxes == AcceptanceBoxIssues(acceptance)
           table == EvidenceTableIssues(acceptance)
<1>1. IsSeq(f1) /\ IsSeq(f2)
  BY OneIsSeq, EmptyIsSeq DEF Flag
<1>2. IsSeq(boxes) /\ IsSeq(table)
  BY BoxIssuesSeq, EvidenceTableSeq
<1>3. CheckStoryReadiness(story, acceptance) = f1 \o f2 \o boxes \o table
  BY DEF CheckStoryReadiness
<1> HIDE DEF f1, f2, boxes, table
<1>4. IsSeq(f1 \o f2 \o boxes)
  BY <1>1, <1>2, Concat3
<1> QED BY <1>2, <1>3, <1>4, ConcatIsSeq

\* The issues of a classification.
LEMMA ClassificationSeq ==
    ASSUME NEW story, NEW label
    PROVE  IsSeq(ClassificationIssues(story, label))
BY OneIsSeq, EmptyIsSeq DEF ClassificationIssues, Flag

\* The issues of a row of the matrix,
LEMMA MatrixRowSeq ==
    ASSUME NEW row
    PROVE  IsSeq(CheckMatrixRow(row))
<1> DEFINE literals == <<1, 2, 4, 5>>
        OfCell(k) == IF IsPlaceholder(row.cells[literals[k]])
                       THEN <<"STORY_MATRIX_CELL_UNSPECIFIED">>
                       ELSE Flag(~HasLiteral(row.cells[literals[k]]), "STORY_MATRIX_CELL_PROSE")
        expected == Flag(~IsWord(row.cells[3], {"preserve", "redact", "reject", "omit"}),
                         "STORY_MATRIX_EXPECTED_RESULT")
        Q == [k \in 1..4 |-> OfCell(k)]
<1>1. Codes(literals, OfCell) = FlattenSeq(Q)
  <2>1. Len(literals) = 4
    OBVIOUS
  <2> HIDE DEF literals
  <2> QED BY <2>1 DEF Codes
<1>2. \/ CheckMatrixRow(row) = <<"STORY_MATRIX_ROW_COLUMNS">>
      \/ CheckMatrixRow(row) = FlattenSeq(Q) \o expected
  BY <1>1 DEF CheckMatrixRow
<1>3. IsSeq(expected)
  BY OneIsSeq, EmptyIsSeq DEF Flag
<1>4. 4 \in Nat /\ Q = [k \in 1..4 |-> Q[k]] /\ \A k \in 1..4 : IsSeq(Q[k])
  BY OneIsSeq, EmptyIsSeq DEF Flag
<1> HIDE DEF Q, expected
<1>5. IsSeq(FlattenSeq(Q))
  BY <1>4, FlatIsSeq
<1>6. IsSeq(FlattenSeq(Q) \o expected) /\ IsSeq(<<"STORY_MATRIX_ROW_COLUMNS">>)
  BY <1>3, <1>5, ConcatIsSeq, OneIsSeq
<1> QED BY ONLY <1>2, <1>6

\* ... and of the matrix.
LEMMA MatrixSeq ==
    ASSUME NEW acceptance \in DocType
    PROVE  IsSeq(CheckMatrix(acceptance).issues)
<1> DEFINE table == TableUnder(acceptance, "## Security Fixture Matrix")
        rows == SubSeq(table, 3, Len(table))
        f1 == Flag(Len(table) > 0 /\ table[1].h # "matrix header", "STORY_MATRIX_HEADER")
        f2 == Flag(Len(table) > 1 /\ table[2].h # "separator", "STORY_MATRIX_SEPARATOR")
        Q == [i \in 1..Len(rows) |-> CheckMatrixRow(rows[i])]
<1>1. CheckMatrix(acceptance).issues = f1 \o f2 \o FlattenSeq(Q)
  BY DEF CheckMatrix, Codes
<1>2. IsSeq(f1) /\ IsSeq(f2)
  BY OneIsSeq, EmptyIsSeq DEF Flag
<1>3. Len(rows) \in Nat
  <2>1. table \in Seq(LineType)
    BY TableType
  <2>2. rows \in Seq(LineType)
    <3> HIDE DEF table
    <3> QED BY <2>1, RowsType
  <2> HIDE DEF rows
  <2> QED BY <2>2
<1>4. \A i \in 1..Len(rows) : IsSeq(Q[i])
  BY MatrixRowSeq
<1>5. Q = [i \in 1..Len(rows) |-> Q[i]]
  OBVIOUS
<1> HIDE DEF Q, rows, f1, f2
<1>6. IsSeq(FlattenSeq(Q))
  BY <1>3, <1>4, <1>5, FlatIsSeq
<1> QED BY <1>1, <1>2, <1>6, Concat3

\* The issues of a section of literals.
LEMMA LiteralSectionSeq ==
    ASSUME NEW story, NEW heading, NEW required, NEW missing, NEW prose
    PROVE  IsSeq(LiteralSectionIssues(story, heading, required, missing, prose))
BY OneIsSeq, EmptyIsSeq DEF LiteralSectionIssues, Flag

\* The issues of the sections a classification asks for.
LEMMA ConditionalSeq ==
    ASSUME NEW story, NEW acceptance \in DocType
    PROVE  IsSeq(ConditionalIssues(story, acceptance))
<1> DEFINE sensitive == ClassifiedYes(story, "Security sensitive")
        baseline == ClassifiedYes(story, "Baseline conformance")
        matrix == CheckMatrix(acceptance)
        issues == matrix.issues
        f1 == Flag(sensitive /\ ~matrix.found, "STORY_MATRIX_MISSING")
        f2 == Flag(sensitive /\ matrix.found /\ matrix.rows = 0, "STORY_MATRIX_EMPTY")
        f3 == LiteralSectionIssues(story, "## Trust Boundary Fields", sensitive,
                 "STORY_TRUST_BOUNDARY_MISSING", "STORY_TRUST_BOUNDARY_PROSE")
        f4 == Flag(~sensitive /\ matrix.found, "STORY_MATRIX_UNEXPECTED")
        f5 == LiteralSectionIssues(story, "## Superseded Behavior", baseline,
                 "STORY_SUPERSEDED_MISSING", "STORY_SUPERSEDED_PROSE")
        f6 == Flag(~baseline /\ Section(story, "## Superseded Behavior").count > 0,
                  "STORY_SUPERSEDED_UNEXPECTED")
<1>1. ConditionalIssues(story, acceptance) = issues \o f1 \o f2 \o f3 \o f4 \o f5 \o f6
  BY DEF ConditionalIssues
<1>2. IsSeq(f1) /\ IsSeq(f2) /\ IsSeq(f4) /\ IsSeq(f6)
  BY OneIsSeq, EmptyIsSeq DEF Flag
<1>3. IsSeq(f3) /\ IsSeq(f5)
  BY LiteralSectionSeq
<1>4. IsSeq(issues)
  BY MatrixSeq
<1> HIDE DEF f1, f2, f3, f4, f5, f6, issues
<1>5. IsSeq(issues \o f1 \o f2)
  BY <1>2, <1>4, Concat3
<1>6. IsSeq(issues \o f1 \o f2 \o f3 \o f4)
  BY <1>2, <1>3, <1>5, Concat3
<1> QED BY <1>1, <1>2, <1>3, <1>6, Concat3

-----------------------------------------------------------------------------
(* The structural part of a contract.                                       *)

\* Two sequences are of one set.
LEMMA TwoSeqs ==
    ASSUME NEW a, NEW b, IsSeq(a), IsSeq(b)
    PROVE  \E S : a \in Seq(S) /\ b \in Seq(S)
<1> DEFINE S == ToSet(a) \cup ToSet(b)
<1>1. a \in Seq(ToSet(a)) /\ b \in Seq(ToSet(b))
  BY DEF IsSeq
<1>2. ToSet(a) \subseteq S /\ ToSet(b) \subseteq S
  OBVIOUS
<1> HIDE DEF S
<1> QED BY <1>1, <1>2, SeqMonotonic

\* The structural part of a sequence is one,
LEMMA StructureSeq ==
    ASSUME NEW ds, IsSeq(ds)
    PROVE  IsSeq(StructureOf(ds))
BY StructureOfType, SeqIsSeq DEF IsSeq

\* ... and that of two after one another is of each.
LEMMA StructureConcat ==
    ASSUME NEW a, NEW b, IsSeq(a), IsSeq(b)
    PROVE  StructureOf(a \o b) = StructureOf(a) \o StructureOf(b)
<1>1. PICK S : a \in Seq(S) /\ b \in Seq(S)
  BY TwoSeqs
<1>2. a \in Seq(S) /\ b \in Seq(S)
  BY <1>1
<1> QED BY <1>2, StructureOfConcat

\* The structural part of a list of diagnostics.
Structured(ds, structure) == IsSeq(ds) /\ StructureOf(ds) = structure
StructuredRows(Q, R, n) ==
    /\ Q = [i \in 1..n |-> Q[i]] /\ R = [i \in 1..n |-> R[i]]
    /\ \A i \in 1..n : Structured(Q[i], R[i])

\* The structural parts of two lists after one another,
LEMMA StructuredConcat ==
    ASSUME NEW a, NEW b, NEW x, NEW y, Structured(a, x), Structured(b, y)
    PROVE  Structured(a \o b, x \o y)
BY ConcatIsSeq, StructureConcat DEF Structured

\* ... and of every row.
LEMMA StructuredFlat ==
    ASSUME NEW n \in Nat, NEW Q, NEW R, StructuredRows(Q, R, n)
    PROVE  Structured(FlattenSeq(Q), FlattenSeq(R)) /\ IsSeq(FlattenSeq(R))
<1>1. Q = [i \in 1..n |-> Q[i]] /\ R = [i \in 1..n |-> R[i]]
  BY DEF StructuredRows
<1>2. \A i \in 1..n : IsSeq(Q[i])
  BY DEF StructuredRows, Structured
<1>3. \A i \in 1..n : R[i] = StructureOf(Q[i])
  BY DEF StructuredRows, Structured
<1>4. IsSeq(FlattenSeq(Q)) /\ \E S : Q \in Seq(Seq(S)) /\ Len(Q) = n
  BY <1>1, <1>2, FlatIsSeq
<1>5. PICK S : Q \in Seq(Seq(S)) /\ Len(Q) = n
  BY <1>4
<1>6. \A i \in 1..n : Q[i] \in Seq(S)
  BY <1>5
<1>7. \A i \in 1..n : R[i] \in Seq(S)
  BY <1>3, <1>6, StructureOfType
<1>8. R \in [1..n -> Seq(S)]
  BY <1>1, <1>7
<1>9. R \in Seq(Seq(S)) /\ Len(R) = n
  BY <1>8
<1>10. FlattenSeq(R) \in Seq(S)
  BY <1>9, FlattenIs
<1>11. Len(R) = Len(Q) /\ \A i \in 1..Len(Q) : R[i] = StructureOf(Q[i])
  BY <1>3, <1>5, <1>9
<1>12. StructureOf(FlattenSeq(Q)) = FlattenSeq(R)
  BY <1>5, <1>9, <1>11, StructureOfFlatten
<1> QED BY <1>4, <1>10, <1>12, SeqIsSeq DEF Structured

\* Without codes nothing is reported.
LEMMA NothingReported ==
    Reported(<<>>) = <<>> /\ StructureOf(<<>>) = <<>>
<1>1. Reported(<<>>) = <<>> /\ Structural(<<>>) = <<>>
  BY DEF Reported, Structural, Diagnostics
<1> QED BY <1>1, EmptyIsSeq, StructureOfStructural

\* One of some words is a word.
LEMMA OneOfWord ==
    ASSUME NEW v, NEW words, OneOf(v, words)
    PROVE  \E w \in words : v.s = <<w>> /\ v.s[1] = w
<1>1. PICK w \in words : v.s = <<w>>
  BY DEF OneOf
<1> QED BY <1>1

\* The signals of a Story are known ones.
LEMMA SignalsAre ==
    ASSUME NEW story \in DocType
    PROVE  /\ IsSeq(ReadSignals(story))
           /\ \A k \in 1..Len(ReadSignals(story)) : ReadSignals(story)[k] \in RiskSignals
<1> DEFINE values == Values(Section(story, "## Risk").entries, "Signal")
           c == {i \in 1..Len(values) : StructuredLiteral(values[i]) /\ OneOf(values[i], RiskSignals)}
           given == Picked(values, c)
           words == [k \in 1..Len(given) |-> given[k].s[1]]
           once == {k \in 1..Len(words) : \A j \in 1..(k - 1) : words[j] # words[k]}
<1>1. ReadSignals(story) = Picked(words, once)
  BY DEF ReadSignals, Where
<1>2. values \in Seq(TextType)
  BY SectionIs, ValuesIs
<1>3. \A i \in c : values[i].s[1] \in RiskSignals
  <2> TAKE i \in c
  <2> DEFINE v == values[i]
  <2>1. OneOf(v, RiskSignals)
    OBVIOUS
  <2> HIDE DEF v, RiskSignals
  <2>2. v.s[1] \in RiskSignals
    BY <2>1, OneOfWord
  <2> QED BY <2>2 DEF v
<1> HIDE DEF c, values
<1>4. given \in Seq(TextType)
  BY <1>2, PickedIs
<1>5. \A k \in 1..Len(given) : given[k].s[1] \in RiskSignals
  <2> HIDE DEF RiskSignals
  <2> QED BY ONLY <1>2, <1>3, PickedHave
<1> HIDE DEF given
<1>6. words \in Seq(RiskSignals)
  BY <1>4, <1>5
<1> HIDE DEF words, once
<1>7. Picked(words, once) \in Seq(RiskSignals)
  BY <1>6, PickedIs
<1> HIDE DEF RiskSignals
<1> QED BY <1>1, <1>7, SeqIsSeq

\* Every signal has a contract of some fields.
LEMMA ContractFields ==
    ASSUME NEW signal \in RiskSignals
    PROVE  Len(RiskContracts[signal].fields) \in Nat
<1>1. CASE signal = "error-projection"
  <2>1. RiskContracts[signal].fields
           = <<"Source failure", "Public projection", "Detail policy", "Evidence AC">>
    BY <1>1 DEF RiskContracts, RiskSignals
  <2>2. Len(<<"Source failure", "Public projection", "Detail policy", "Evidence AC">>) = 4
    OBVIOUS
  <2>3. Len(RiskContracts[signal].fields) = 4
    BY ONLY <2>1, <2>2
  <2> QED BY <2>3
<1>2. CASE signal = "concurrency"
  <2>1. RiskContracts[signal].fields
           = <<"Contended resource", "Linearization point", "Conflict outcome", "Evidence AC">>
    BY <1>2 DEF RiskContracts, RiskSignals
  <2>2. Len(<<"Contended resource", "Linearization point", "Conflict outcome", "Evidence AC">>) = 4
    OBVIOUS
  <2>3. Len(RiskContracts[signal].fields) = 4
    BY ONLY <2>1, <2>2
  <2> QED BY <2>3
<1>3. CASE signal = "bounded-capacity"
  <2>1. RiskContracts[signal].fields
           = <<"Bounded resource", "Limit", "Saturation behavior", "Failure projection", "Evidence AC">>
    BY <1>3 DEF RiskContracts, RiskSignals
  <2>2. Len(<<"Bounded resource", "Limit", "Saturation behavior", "Failure projection", "Evidence AC">>) = 5
    OBVIOUS
  <2>3. Len(RiskContracts[signal].fields) = 5
    BY ONLY <2>1, <2>2
  <2> QED BY <2>3
<1>4. CASE signal = "retention-overflow"
  <2>1. RiskContracts[signal].fields
           = <<"Retained resource", "Retention bound", "Overflow policy",
               "Recovery / observability", "Evidence AC">>
    BY <1>4 DEF RiskContracts, RiskSignals
  <2>2. Len(<<"Retained resource", "Retention bound", "Overflow policy",
                 "Recovery / observability", "Evidence AC">>) = 5
    OBVIOUS
  <2>3. Len(RiskContracts[signal].fields) = 5
    BY ONLY <2>1, <2>2
  <2> QED BY <2>3
<1> QED BY <1>1, <1>2, <1>3, <1>4 DEF RiskSignals

\* The issues of what a signal offers as evidence.
LEMMA RiskEvidenceSeq ==
    ASSUME NEW values, NEW acceptance
    PROVE  IsSeq(CheckRiskEvidenceReadiness(values, acceptance))
BY OneIsSeq, EmptyIsSeq DEF CheckRiskEvidenceReadiness, Flag

\* What one risk signal demands, with and without readiness.
LEMMA RiskContractStructure ==
    ASSUME NEW story \in DocType, NEW acceptance, NEW signal \in RiskSignals
    PROVE  /\ Structured(CheckRiskContract(story, acceptance, signal, TRUE),
                         CheckRiskContract(story, acceptance, signal, FALSE))
           /\ Structured(CheckRiskContract(story, acceptance, signal, FALSE),
                         CheckRiskContract(story, acceptance, signal, FALSE))
<1> DEFINE contract == RiskContracts[signal]
        section == Section(story, contract.heading)
        es == section.entries
        Of(i) == IF ~IsDecl(es[i]) THEN <<"STORY_RISK_CONTRACT_ENTRY_INVALID">>
                 ELSE Flag(es[i].h \notin ToSet(contract.fields),
                           "STORY_RISK_CONTRACT_UNKNOWN_LABEL")
        value(k) == Values(es, contract.fields[k])
        Placeholder(k, ready) == Flag(ready /\ OneOf(value(k)[1], RiskPlaceholders),
                                      "STORY_READY_RISK_PLACEHOLDER")
        OfField(k, ready) ==
                IF Len(value(k)) # 1 THEN Structural(<<"STORY_RISK_CONTRACT_FIELD_COUNT">>)
                ELSE IF ~StructuredLiteral(value(k)[1])
                  THEN Structural(<<"STORY_RISK_CONTRACT_FIELD_LITERAL">>)
                ELSE Reported(Placeholder(k, ready))
        linked == Reported(CheckRiskEvidenceReadiness(Values(es, "Evidence AC"), acceptance))
        m == Len(contract.fields)
        Q == [i \in 1..Len(es) |-> Of(i)]
        T == [k \in 1..m |-> OfField(k, TRUE)]
        F == [k \in 1..m |-> OfField(k, FALSE)]
        lines == Structural(FlattenSeq(Q))
        missing == Structural(<<"STORY_RISK_CONTRACT_SECTION">>)
<1>1. /\ CheckRiskContract(story, acceptance, signal, TRUE)
           = lines \o (IF section.count # 1 THEN missing ELSE FlattenSeq(T) \o linked)
      /\ CheckRiskContract(story, acceptance, signal, FALSE)
           = lines \o (IF section.count # 1 THEN missing ELSE FlattenSeq(F) \o <<>>)
  BY DEF CheckRiskContract, Codes
<1>2. IsSeq(lines) /\ StructureOf(lines) = lines
  <2>1. Len(es) \in Nat
    BY EntriesLength
  <2>2. \A i \in 1..Len(es) : IsSeq(Q[i])
    BY OneIsSeq, EmptyIsSeq DEF Flag
  <2>3. Q = [i \in 1..Len(es) |-> Q[i]]
    OBVIOUS
  <2> HIDE DEF Q
  <2>4. IsSeq(FlattenSeq(Q))
    BY <2>1, <2>2, <2>3, FlatIsSeq
  <2> QED BY <2>4, DiagnosticsAre, StructureOfStructural DEF Structural
<1>3. IsSeq(missing) /\ StructureOf(missing) = missing
  <2>1. IsSeq(<<"STORY_RISK_CONTRACT_SECTION">>)
    BY OneIsSeq
  <2> QED BY <2>1, DiagnosticsAre, StructureOfStructural DEF Structural
<1>4. IsSeq(linked) /\ StructureOf(linked) = <<>>
  BY RiskEvidenceSeq, DiagnosticsAre, StructureOfReported DEF Reported
<1>5. \A k \in 1..m : /\ IsSeq(OfField(k, TRUE)) /\ IsSeq(OfField(k, FALSE))
                      /\ StructureOf(OfField(k, TRUE)) = OfField(k, FALSE)
                      /\ StructureOf(OfField(k, FALSE)) = OfField(k, FALSE)
  <2> TAKE k \in 1..m
  <2> DEFINE count == Structural(<<"STORY_RISK_CONTRACT_FIELD_COUNT">>)
             literal == Structural(<<"STORY_RISK_CONTRACT_FIELD_LITERAL">>)
             p(ready) == Reported(Placeholder(k, ready))
  <2>1. IsSeq(count) /\ StructureOf(count) = count
    <3>1. IsSeq(<<"STORY_RISK_CONTRACT_FIELD_COUNT">>)
      BY OneIsSeq
    <3> QED BY <3>1, DiagnosticsAre, StructureOfStructural DEF Structural
  <2>2. IsSeq(literal) /\ StructureOf(literal) = literal
    <3>1. IsSeq(<<"STORY_RISK_CONTRACT_FIELD_LITERAL">>)
      BY OneIsSeq
    <3> QED BY <3>1, DiagnosticsAre, StructureOfStructural DEF Structural
  <2>3. p(FALSE) = <<>> /\ IsSeq(p(FALSE)) /\ StructureOf(p(FALSE)) = <<>>
    <3>1. Placeholder(k, FALSE) = <<>>
      BY DEF Flag
    <3>2. p(FALSE) = <<>>
      BY <3>1, NothingReported
    <3> QED BY <3>2, NothingReported, EmptyIsSeq
  <2>4. IsSeq(p(TRUE)) /\ StructureOf(p(TRUE)) = <<>>
    <3>1. IsSeq(Placeholder(k, TRUE))
      BY OneIsSeq, EmptyIsSeq DEF Flag
    <3> HIDE DEF Placeholder
    <3> QED BY <3>1, DiagnosticsAre, StructureOfReported DEF Reported
  <2>5. \/ OfField(k, TRUE) = count /\ OfField(k, FALSE) = count
        \/ OfField(k, TRUE) = literal /\ OfField(k, FALSE) = literal
        \/ OfField(k, TRUE) = p(TRUE) /\ OfField(k, FALSE) = p(FALSE)
    OBVIOUS
  <2> HIDE DEF OfField, count, literal, p
  <2> QED BY <2>1, <2>2, <2>3, <2>4, <2>5
<1>6. m \in Nat
  BY ContractFields
<1>7. T = [k \in 1..m |-> T[k]] /\ F = [k \in 1..m |-> F[k]]
  OBVIOUS
<1>8. \A k \in 1..m : /\ IsSeq(T[k]) /\ F[k] = StructureOf(T[k])
                      /\ IsSeq(F[k]) /\ F[k] = StructureOf(F[k])
  <2> HIDE DEF OfField
  <2> QED BY <1>5
<1> HIDE DEF lines, missing, linked, T, F, m
<1> DEFINE f == FlattenSeq(F)
           t == FlattenSeq(T)
           CT == CheckRiskContract(story, acceptance, signal, TRUE)
           CF == CheckRiskContract(story, acceptance, signal, FALSE)
<1>9. Structured(t, f) /\ IsSeq(f)
  <2>1. StructuredRows(T, F, m)
    BY <1>7, <1>8 DEF StructuredRows, Structured
  <2> QED BY <1>6, <2>1, StructuredFlat
<1>10. Structured(f, f)
  <2>1. StructuredRows(F, F, m)
    BY <1>7, <1>8 DEF StructuredRows, Structured
  <2> QED BY <1>6, <2>1, StructuredFlat
<1>11. f \o <<>> = f
  BY <1>9, ConcatEmptySeq DEF IsSeq
<1>13. /\ section.count # 1 => CT = lines \o missing /\ CF = lines \o missing
       /\ section.count = 1 => CT = lines \o (t \o linked) /\ CF = lines \o f
  BY <1>1, <1>11
<1> HIDE DEF f, t, CT, CF
<1>14. Structured(lines, lines) /\ Structured(missing, missing) /\ Structured(linked, <<>>)
  BY <1>2, <1>3, <1>4 DEF Structured
<1>15. Structured(t \o linked, f)
  <2>1. Structured(t \o linked, f \o <<>>)
    BY <1>9, <1>14, StructuredConcat
  <2> QED BY <1>11, <2>1
<1>16. Structured(lines \o missing, lines \o missing)
  BY <1>14, StructuredConcat
<1>17. Structured(lines \o (t \o linked), lines \o f)
  BY <1>14, <1>15, StructuredConcat
<1>18. Structured(lines \o f, lines \o f)
  BY <1>10, <1>14, StructuredConcat
<1>19. Structured(CT, CF) /\ Structured(CF, CF)
  BY ONLY <1>13, <1>16, <1>17, <1>18
<1> QED BY <1>19 DEF CT, CF

-----------------------------------------------------------------------------
(* The decisions a Story refers to.                                         *)

WordsTable(f, es) ==
    f = [i \in 0..Len(es) |->
            IF i = 0 THEN <<>>
            ELSE IF IsDecl(es[i]) /\ es[i].h = "Decision" /\ ExactValue(es[i].v)
                      /\ ~StandsIn(es[i].v.s, f[i - 1])
                   THEN f[i - 1] \o es[i].v.s ELSE f[i - 1]]

Counts(e) == IsDecl(e) /\ e.h = "Decision" /\ ExactValue(e.v)

\* A line has a value of words and a label.
LEMMA LineText ==
    ASSUME NEW e \in LineType
    PROVE  e.v \in TextType /\ e.v.s \in Seq(STRING) /\ e.h \in STRING
<1>1. e.v \in TextType /\ e.h \in STRING
  BY DEF LineType
<1> QED BY <1>1, TextWords

\* The words a Story refers to are collected by a table of its lines:
LEMMA WordsTableIs ==
    ASSUME NEW es \in Seq(LineType)
    PROVE  \E f : WordsTable(f, es) /\ f \in [0..Len(es) -> Seq(STRING)]
<1> DEFINE n == Len(es)
           T == Seq(STRING)
           w(i) == es[i].v.s
           D == [i \in 1..n |-> [x \in T |->
                    IF Counts(es[i]) /\ ~StandsIn(w(i), x) THEN x \o w(i) ELSE x]]
<1>1. n \in Nat /\ <<>> \in T
  OBVIOUS
<1>2. \A i \in 1..n : w(i) \in T
  <2>1. \A i \in 1..n : es[i] \in LineType
    OBVIOUS
  <2> QED BY <2>1, LineText
<1> HIDE DEF w
<1>3. Moves(D, n, T)
  <2>1. \A i \in 1..n, x \in T : x \o w(i) \in T
    BY <1>2
  <2> QED BY <2>1 DEF Moves
<1>4. PICK f : TableBy(f, D, <<>>, n, T)
  <2> HIDE DEF n, T, D
  <2> QED BY <1>1, <1>3, PrefixTable
<1>5. \A i \in 1..n : f[i] = IF Counts(es[i]) /\ ~StandsIn(w(i), f[i - 1])
                               THEN f[i - 1] \o w(i) ELSE f[i - 1]
  <2> TAKE i \in 1..n
  <2>1. f[i - 1] \in T
    <3>1. i - 1 \in 0..n
      BY <1>1
    <3> QED BY <3>1, <1>4 DEF TableBy
  <2>2. f[i] = D[i][f[i - 1]]
    BY <1>4 DEF TableBy
  <2> QED BY <2>1, <2>2
<1>6. f = [i \in 0..n |-> f[i]] /\ f \in [0..n -> T]
  BY <1>4 DEF TableBy
<1>7. \A i \in 0..n : f[i] = IF i = 0 THEN <<>>
            ELSE IF Counts(es[i]) /\ ~StandsIn(w(i), f[i - 1])
                   THEN f[i - 1] \o w(i) ELSE f[i - 1]
  <2> TAKE i \in 0..n
  <2>1. i = 0 \/ i \in 1..n
    BY <1>1
  <2> QED BY <2>1, <1>4, <1>5 DEF TableBy
<1> QED BY <1>6, <1>7 DEF WordsTable, Counts, w

\* ... they are words.
LEMMA ReferencedSeq ==
    ASSUME NEW es \in Seq(LineType)
    PROVE  ReferencedWords(es) \in Seq(STRING)
<1> DEFINE g == CHOOSE f : WordsTable(f, es)
<1>1. WordsTable(g, es)
  BY WordsTableIs
<1>2. ReferencedWords(es) = g[Len(es)]
  BY DEF ReferencedWords, WordsTable
<1> HIDE DEF g
<1>3. Len(es) \in Nat
  OBVIOUS
<1> DEFINE G == {m \in Nat : g[m] \in Seq(STRING)}
<1>4. \A i \in 0..Len(es) : g[i] = IF i = 0 THEN <<>>
            ELSE IF IsDecl(es[i]) /\ es[i].h = "Decision" /\ ExactValue(es[i].v)
                      /\ ~StandsIn(es[i].v.s, g[i - 1])
                   THEN g[i - 1] \o es[i].v.s ELSE g[i - 1]
  BY <1>1, Zenon DEF WordsTable
<1>5. 0 \in G
  <2>1. g[0] = <<>>
    BY <1>3, <1>4
  <2>2. <<>> \in Seq(STRING)
    OBVIOUS
  <2> QED BY <2>1, <2>2
<1>6. ASSUME NEW m \in 0..(Len(es) - 1), m \in G PROVE m + 1 \in G
  <2>1. m + 1 \in 0..Len(es) /\ m + 1 # 0 /\ (m + 1) - 1 = m /\ m + 1 \in 1..Len(es)
    BY <1>3
  <2>2. es[m + 1].v.s \in Seq(STRING)
    <3>1. es[m + 1] \in LineType
      BY <2>1
    <3> QED BY <3>1, LineText
  <2>3. g[m + 1] = g[m] \o es[m + 1].v.s \/ g[m + 1] = g[m]
    BY <1>4, <2>1
  <2>4. g[m] \in Seq(STRING)
    BY <1>6
  <2>5. g[m] \o es[m + 1].v.s \in Seq(STRING)
    BY <2>2, <2>4
  <2>6. g[m + 1] \in Seq(STRING)
    BY <2>3, <2>4, <2>5
  <2> QED BY <2>6
<1>7. 0..Len(es) \subseteq G
  <2> HIDE DEF G
  <2> QED BY <1>3, <1>5, <1>6, UpTo
<1> QED BY <1>2, <1>3, <1>7

\* Everything a Story refers to was resolved.
Settled(story, decision) ==
    \A id \in ToSet(ReferencedWords(Section(story, "## Architecture").entries)) :
        decision[id].kind \in {"missing", "ambiguous", "unreadable", "retired", "found"}

\* The codes of the governance block, in one list.
Governance(story, decision) ==
    LET mode == ReadTaskMode(story)
        referenced == ReferencedWords(Section(story, "## Architecture").entries)
    IN  TaskModeIssues(story) \o ReadAuthorityIssues(story, mode)
          \o ReadArchitectureIssues(story)
          \o Codes(referenced, LAMBDA k : DecisionIssues(referenced[k], mode,
                                                         decision[referenced[k]]))
          \o OwnerIssues(story) \o ReadRiskIssues(story)

\* No issue of the governance: none of its parts has one.
LEMMA GovernanceSeq ==
    ASSUME NEW story \in DocType, NEW decision, Settled(story, decision)
    PROVE  /\ IsSeq(Governance(story, decision))
           /\ Governance(story, decision) = <<>> =>
                 /\ TaskModeIssues(story) = <<>>
                 /\ ReadAuthorityIssues(story, ReadTaskMode(story)) = <<>>
                 /\ ReadArchitectureIssues(story) = <<>>
                 /\ ReadRiskIssues(story) = <<>>
<1> DEFINE mode == ReadTaskMode(story)
        referenced == ReferencedWords(Section(story, "## Architecture").entries)
        Q == [k \in 1..Len(referenced) |-> DecisionIssues(referenced[k], mode,
                                                         decision[referenced[k]])]
        a == TaskModeIssues(story)
        b == ReadAuthorityIssues(story, mode)
        c == ReadArchitectureIssues(story)
        d == FlattenSeq(Q)
        e == OwnerIssues(story)
        f == ReadRiskIssues(story)
<1>1. Governance(story, decision) = a \o b \o c \o d \o e \o f
  BY DEF Governance, Codes
<1>2. IsSeq(a) /\ IsSeq(b) /\ IsSeq(c) /\ IsSeq(e) /\ IsSeq(f)
  BY TaskModeIssuesSeq, AuthorityIssuesSeq, ArchitectureIssuesSeq, OwnerIssuesSeq, RiskIssuesSeq
<1>3. referenced \in Seq(STRING)
  BY SectionIs, ReferencedSeq
<1>4. \A k \in 1..Len(referenced) :
         decision[referenced[k]].kind \in {"missing", "ambiguous", "unreadable", "retired", "found"}
  <2>1. \A k \in 1..Len(referenced) : referenced[k] \in ToSet(referenced)
    <3> HIDE DEF referenced
    <3> QED BY <1>3 DEF ToSet
  <2> QED BY <2>1 DEF Settled
<1> HIDE DEF referenced
<1>5. Len(referenced) \in Nat
  BY <1>3
<1>6. \A k \in 1..Len(referenced) : IsSeq(Q[k])
  BY <1>4, DecisionIssuesSeq
<1>7. Q = [k \in 1..Len(referenced) |-> Q[k]]
  OBVIOUS
<1>8. IsSeq(d)
  <2> HIDE DEF Q
  <2> QED BY <1>5, <1>6, <1>7, FlatIsSeq
<1>9. IsSeq(a \o b) /\ (a \o b = <<>> => a = <<>> /\ b = <<>>)
  <2> HIDE DEF a, b, c, d, e, f
  <2> QED BY <1>2, ConcatIsSeq
<1> HIDE DEF a, b, c, d, e, f
<1>10. IsSeq(a \o b \o c) /\ (a \o b \o c = <<>> => a \o b = <<>> /\ c = <<>>)
  BY <1>2, <1>9, ConcatIsSeq
<1>11. IsSeq(a \o b \o c \o d) /\ (a \o b \o c \o d = <<>> => a \o b \o c = <<>>)
  BY <1>8, <1>10, ConcatIsSeq
<1>12. IsSeq(a \o b \o c \o d \o e) /\ (a \o b \o c \o d \o e = <<>> => a \o b \o c \o d = <<>>)
  BY <1>2, <1>11, ConcatIsSeq
<1>13. IsSeq(a \o b \o c \o d \o e \o f)
         /\ (a \o b \o c \o d \o e \o f = <<>> => a \o b \o c \o d \o e = <<>> /\ f = <<>>)
  BY <1>2, <1>12, ConcatIsSeq
<1> QED BY <1>1, <1>9, <1>10, <1>11, <1>12, <1>13 DEF a, b, c, f

-----------------------------------------------------------------------------
(* Readiness changes nothing of the default contract.                       *)

\* Codes of the structure are all of the structural part,
LEMMA StructuralIs ==
    ASSUME NEW codes, IsSeq(codes)
    PROVE  /\ Structured(Structural(codes), Structural(codes))
           /\ Structural(codes) = <<>> => codes = <<>>
BY DiagnosticsAre, StructureOfStructural DEF Structured, Structural

\* ... and those of readiness none of it.
LEMMA ReportedIs ==
    ASSUME NEW codes, IsSeq(codes)
    PROVE  Structured(Reported(codes), <<>>)
BY DiagnosticsAre, StructureOfReported DEF Structured, Reported

\* Nothing has no structural part.
LEMMA NothingStructured == Structured(<<>>, <<>>)
BY NothingReported, EmptyIsSeq DEF Structured

\* The codes of the conditional block, in one list.
Conditional(story, acceptance) ==
    LET known == IsClassified(story, "Security sensitive")
                   /\ IsClassified(story, "Baseline conformance")
    IN  ClassificationIssues(story, "Security sensitive")
          \o ClassificationIssues(story, "Baseline conformance")
          \o (IF known THEN ConditionalIssues(story, acceptance) ELSE <<>>)

\* The issues of the conditional block.
LEMMA ConditionalIsSeq ==
    ASSUME NEW story, NEW acceptance \in DocType
    PROVE  IsSeq(Conditional(story, acceptance))
<1> DEFINE a == ClassificationIssues(story, "Security sensitive")
           b == ClassificationIssues(story, "Baseline conformance")
           c == ConditionalIssues(story, acceptance)
           known == IsClassified(story, "Security sensitive")
                      /\ IsClassified(story, "Baseline conformance")
           d == IF known THEN c ELSE <<>>
<1>1. IsSeq(a) /\ IsSeq(b) /\ IsSeq(c)
  BY ClassificationSeq, ConditionalSeq
<1>2. IsSeq(d)
  <2> HIDE DEF c, known
  <2> QED BY <1>1, EmptyIsSeq
<1>3. Conditional(story, acceptance) = a \o b \o d
  BY DEF Conditional
<1> HIDE DEF a, b, d
<1> QED BY <1>1, <1>2, <1>3, Concat3

\* The default contract of a Story is the same with readiness and without.
LEMMA StoryStructure ==
    ASSUME NEW directory, NEW story \in DocType, NEW acceptance \in DocType, NEW decision,
           Settled(story, decision)
    PROVE  /\ Structured(EvaluateStory(directory, story, acceptance, decision, TRUE),
                         EvaluateStory(directory, story, acceptance, decision, FALSE))
           /\ Structured(EvaluateStory(directory, story, acceptance, decision, FALSE),
                         EvaluateStory(directory, story, acceptance, decision, FALSE))
           /\ EvaluateStory(directory, story, acceptance, decision, FALSE) = <<>> =>
                 Governance(story, decision) = <<>>
<1> DEFINE signals == ReadSignals(story)
           n == Len(signals)
           id == Flag(~CarriesId(directory), "STORY_ID_INVALID")
           A == Structural(id)
           R == Reported(CheckStoryReadiness(story, acceptance))
           G == Structural(Governance(story, decision))
           T == [k \in 1..n |-> CheckRiskContract(story, acceptance, signals[k], TRUE)]
           F == [k \in 1..n |-> CheckRiskContract(story, acceptance, signals[k], FALSE)]
           t == FlattenSeq(T)
           f == FlattenSeq(F)
           C == Structural(Conditional(story, acceptance))
           ET == EvaluateStory(directory, story, acceptance, decision, TRUE)
           EF == EvaluateStory(directory, story, acceptance, decision, FALSE)
<1>1. ET = A \o R \o G \o t \o C
  BY DEF EvaluateStory, Governance, Conditional, Codes
<1>2. EF = A \o <<>> \o G \o f \o C
  BY DEF EvaluateStory, Governance, Conditional, Codes
<1>3. Structured(A, A)
  <2>1. IsSeq(id)
    BY OneIsSeq, EmptyIsSeq DEF Flag
  <2> HIDE DEF id
  <2> QED BY <2>1, StructuralIs
<1>4. Structured(R, <<>>)
  BY ReadinessSeq, ReportedIs
<1>5. Structured(G, G) /\ (G = <<>> => Governance(story, decision) = <<>>)
  <2>1. IsSeq(Governance(story, decision))
    BY GovernanceSeq
  <2> QED BY <2>1, StructuralIs
<1>6. Structured(C, C)
  <2>1. IsSeq(Conditional(story, acceptance))
    BY ConditionalIsSeq
  <2> QED BY <2>1, StructuralIs
<1>7. n \in Nat /\ \A k \in 1..n : signals[k] \in RiskSignals
  <2>1. IsSeq(signals) /\ \A k \in 1..n : signals[k] \in RiskSignals
    BY SignalsAre
  <2> HIDE DEF signals
  <2> QED BY <2>1, IsSeqLen
<1>8. \A k \in 1..n : Structured(T[k], F[k]) /\ Structured(F[k], F[k])
  <2> TAKE k \in 1..n
  <2>1. signals[k] \in RiskSignals
    BY <1>7
  <2> DEFINE s == signals[k]
  <2>2. /\ Structured(CheckRiskContract(story, acceptance, s, TRUE),
                      CheckRiskContract(story, acceptance, s, FALSE))
        /\ Structured(CheckRiskContract(story, acceptance, s, FALSE),
                      CheckRiskContract(story, acceptance, s, FALSE))
    <3> HIDE DEF s
    <3> QED BY <2>1, RiskContractStructure DEF s
  <2>3. T[k] = CheckRiskContract(story, acceptance, s, TRUE)
          /\ F[k] = CheckRiskContract(story, acceptance, s, FALSE)
    OBVIOUS
  <2> HIDE DEF T, F, s
  <2> QED BY <2>2, <2>3
<1>9. T = [k \in 1..n |-> T[k]] /\ F = [k \in 1..n |-> F[k]]
  OBVIOUS
<1> HIDE DEF T, F
<1>10. Structured(t, f) /\ Structured(f, f)
  <2>1. StructuredRows(T, F, n) /\ StructuredRows(F, F, n)
    <3> HIDE DEF n
    <3> QED BY <1>8, <1>9 DEF StructuredRows
  <2> HIDE DEF n
  <2> QED BY <1>7, <2>1, StructuredFlat
<1> HIDE DEF A, R, G, t, f, C, ET, EF
<1>11. Structured(A \o R, A \o <<>>) /\ Structured(A \o <<>>, A \o <<>>)
  BY <1>3, <1>4, NothingStructured, StructuredConcat
<1>12. Structured(A \o R \o G, A \o <<>> \o G) /\ Structured(A \o <<>> \o G, A \o <<>> \o G)
  BY <1>5, <1>11, StructuredConcat
<1>13. /\ Structured(A \o R \o G \o t, A \o <<>> \o G \o f)
       /\ Structured(A \o <<>> \o G \o f, A \o <<>> \o G \o f)
  BY <1>10, <1>12, StructuredConcat
<1>14. Structured(ET, EF) /\ Structured(EF, EF)
  BY <1>1, <1>2, <1>6, <1>13, StructuredConcat
<1>15. EF = <<>> => Governance(story, decision) = <<>>
  <2>1. IsSeq(A \o <<>>) /\ IsSeq(G) /\ IsSeq(A \o <<>> \o G) /\ IsSeq(f) /\ IsSeq(C)
          /\ IsSeq(A \o <<>> \o G \o f)
    BY <1>5, <1>6, <1>10, <1>11, <1>12, <1>13 DEF Structured
  <2>2. EF = <<>> => A \o <<>> \o G \o f = <<>>
    BY <1>2, <2>1, ConcatIsSeq
  <2>3. A \o <<>> \o G \o f = <<>> => A \o <<>> \o G = <<>>
    BY <2>1, ConcatIsSeq
  <2>4. A \o <<>> \o G = <<>> => G = <<>>
    BY <2>1, ConcatIsSeq
  <2> QED BY <1>5, <2>2, <2>3, <2>4
<1> QED BY <1>14, <1>15 DEF ET, EF

-----------------------------------------------------------------------------
(* What the contract finds nothing wrong with has a plan.                   *)

\* Rows without issues have none together.
LEMMA AllClear ==
    ASSUME NEW n \in Nat, NEW Q, Q = [i \in 1..n |-> Q[i]], \A i \in 1..n : Q[i] = <<>>
    PROVE  FlattenSeq(Q) = <<>>
<1>1. \A i \in 1..n : IsSeq(Q[i])
  BY EmptyIsSeq
<1> QED BY <1>1, FlatIsSeq

\* Nothing after nothing.
LEMMA NothingAfter ==
    ASSUME NEW a, NEW b, a = <<>>, b = <<>>
    PROVE  a \o b = <<>>
OBVIOUS

\* What the Story reads as an exact value, the plan reads as a literal,
LEMMA ValueIsLiteral ==
    ASSUME NEW v, ExactValue(v)
    PROVE  ExactLiteral(v)
BY DEF ExactValue, ExactLiteral, OneOf, EvidencePlaceholders

\* ... and so it does a known signal.
LEMMA SignalIsLiteral ==
    ASSUME NEW v, StructuredLiteral(v), OneOf(v, RiskSignals)
    PROVE  ExactLiteral(v)
<1>1. PICK w \in RiskSignals : v.s = <<w>>
  BY DEF OneOf
<1>2. w \notin DeclarationPlaceholders
  BY <1>1 DEF RiskSignals, DeclarationPlaceholders
<1>3. ASSUME NEW x \in DeclarationPlaceholders, v.s = <<x>> PROVE FALSE
  <2>1. <<w>>[1] = w /\ <<x>>[1] = x
    OBVIOUS
  <2>2. <<w>> = <<x>>
    BY <1>1, <1>3
  <2> QED BY ONLY <1>2, <2>1, <2>2, <1>3
<1> QED BY <1>3 DEF ExactLiteral, StructuredLiteral, OneOf

\* What is repeated to the one is repeated to the other.
LEMMA RepeatedSame ==
    ASSUME NEW section, RepeatedSection(section) = <<>>
    PROVE  Repeated(section) = <<>>
<1>1. <<"STORY_SECTION_REPEATED">> # <<>>
  BY OneIsSeq
<1>2. ~(section.count > 1)
  BY <1>1 DEF RepeatedSection, Flag
<1> QED BY <1>2 DEF Repeated, Flag

\* An authority the contract finds nothing wrong with is one to the plan,
LEMMA PlanAuthorityClear ==
    ASSUME NEW story \in DocType, NEW mode, ReadAuthorityIssues(story, mode) = <<>>
    PROVE  PlanAuthorityIssues(story) = <<>>
<1> DEFINE section == Section(story, "## Authority")
           es == section.entries
           n == Len(es)
           Of(i) == IF ~IsDecl(es[i]) THEN <<"VERIFICATION_AUTHORITY_ENTRY_INVALID">>
                 ELSE IF es[i].h \notin Operations THEN <<"VERIFICATION_AUTHORITY_UNKNOWN_OPERATION">>
                 ELSE IF \E j \in 1..(i - 1) : IsDecl(es[j]) /\ es[j].h = es[i].h
                   THEN <<"VERIFICATION_AUTHORITY_REPEATED">>
                 ELSE Flag(~IsWord(es[i].v, {"yes", "no"}), "VERIFICATION_AUTHORITY_VALUE_INVALID")
           Q == [i \in 1..n |-> Of(i)]
<1>1. PlanAuthorityIssues(story) = FlattenSeq(Q) \o Repeated(section)
  BY DEF PlanAuthorityIssues, Codes
<1>2. n \in Nat
  BY EntriesLength
<1>3. /\ \A i \in 1..n : /\ IsDecl(es[i]) /\ es[i].h \in Operations
                         /\ ~\E j \in 1..(i - 1) : IsDecl(es[j]) /\ es[j].h = es[i].h
                         /\ IsWord(es[i].v, {"yes", "no"})
      /\ RepeatedSection(section) = <<>>
  BY AuthorityIssuesSeq
<1>4. \A i \in 1..n : Q[i] = <<>>
  BY <1>3 DEF Flag
<1>5. Q = [i \in 1..n |-> Q[i]]
  OBVIOUS
<1>6. FlattenSeq(Q) = <<>>
  <2> HIDE DEF Q, n
  <2> QED BY <1>2, <1>4, <1>5, AllClear
<1>7. Repeated(section) = <<>>
  <2> HIDE DEF section
  <2> QED BY <1>3, RepeatedSame
<1> QED BY <1>1, <1>6, <1>7, NothingAfter

\* ... and an architecture,
LEMMA PlanArchitectureClear ==
    ASSUME NEW story \in DocType, ReadArchitectureIssues(story) = <<>>
    PROVE  PlanArchitectureIssues(story) = <<>>
<1> DEFINE section == Section(story, "## Architecture")
           es == section.entries
           n == Len(es)
           impacts == Values(es, "Impact")
           Of(i) == IF ~IsDecl(es[i]) THEN <<"VERIFICATION_ARCHITECTURE_ENTRY_INVALID">>
                 ELSE IF es[i].h = "Impact" THEN <<>>
                 ELSE IF es[i].h \notin ArchitectureLabels
                   THEN <<"VERIFICATION_ARCHITECTURE_UNKNOWN_LABEL">>
                 ELSE Flag(~ExactLiteral(es[i].v), "VERIFICATION_ARCHITECTURE_LITERAL_INVALID")
           Q == [i \in 1..n |-> Of(i)]
           d == DeclaredIssues(impacts, Levels, "VERIFICATION_ARCHITECTURE_IMPACT_REPEATED",
                               "VERIFICATION_ARCHITECTURE_IMPACT_INVALID")
<1>1. PlanArchitectureIssues(story) = FlattenSeq(Q) \o Repeated(section) \o d
  BY DEF PlanArchitectureIssues, Codes
<1>2. n \in Nat
  BY EntriesLength
<1>3. /\ \A i \in 1..n :
            /\ IsDecl(es[i])
            /\ es[i].h # "Impact" => es[i].h \in ArchitectureLabels /\ ExactValue(es[i].v)
      /\ RepeatedSection(section) = <<>>
      /\ impacts = <<>> \/ (Len(impacts) = 1 /\ IsWord(impacts[1], Levels))
  BY ArchitectureIssuesSeq
<1>4. \A i \in 1..n : Q[i] = <<>>
  BY <1>3, ValueIsLiteral DEF Flag
<1>5. Q = [i \in 1..n |-> Q[i]]
  OBVIOUS
<1>6. FlattenSeq(Q) = <<>>
  <2> HIDE DEF Q, n
  <2> QED BY <1>2, <1>4, <1>5, AllClear
<1>7. Repeated(section) = <<>>
  <2> HIDE DEF section
  <2> QED BY <1>3, RepeatedSame
<1>8. d = <<>>
  <2>1. impacts \in Seq(TextType)
    BY SectionIs, ValuesIs
  <2> HIDE DEF impacts
  <2> QED BY <1>3, <2>1, DeclaredIssuesSeq
<1> HIDE DEF d, Q, section
<1>9. FlattenSeq(Q) \o Repeated(section) = <<>>
  BY <1>6, <1>7, NothingAfter
<1> QED BY <1>1, <1>8, <1>9, NothingAfter

\* ... and a risk:
LEMMA PlanRiskClear ==
    ASSUME NEW story \in DocType, ReadRiskIssues(story) = <<>>
    PROVE  PlanRiskIssues(story) = <<>>
<1> DEFINE section == Section(story, "## Risk")
           es == section.entries
           n == Len(es)
           levels == Values(es, "Level")
           Signal(v) == StructuredLiteral(v) /\ OneOf(v, RiskSignals)
           OfSignal(i) ==
            IF ~ExactLiteral(es[i].v) THEN <<"VERIFICATION_RISK_SIGNAL_INVALID">>
            ELSE IF ~Signal(es[i].v) THEN <<"VERIFICATION_RISK_SIGNAL_UNKNOWN">>
            ELSE Flag(\E j \in 1..(i - 1) :
                        IsDecl(es[j]) /\ es[j].h = "Signal" /\ es[j].v = es[i].v,
                      "VERIFICATION_RISK_SIGNAL_REPEATED")
           Of(i) == IF ~IsDecl(es[i]) THEN <<"VERIFICATION_RISK_ENTRY_INVALID">>
                 ELSE IF es[i].h = "Level" THEN <<>>
                 ELSE IF es[i].h = "Reason"
                   THEN Flag(~ExactLiteral(es[i].v), "VERIFICATION_RISK_REASON_INVALID")
                 ELSE IF es[i].h = "Signal" THEN OfSignal(i)
                 ELSE <<"VERIFICATION_RISK_UNKNOWN_LABEL">>
           Q == [i \in 1..n |-> Of(i)]
           d == DeclaredIssues(levels, Levels, "VERIFICATION_RISK_LEVEL_REPEATED",
                               "VERIFICATION_RISK_LEVEL_INVALID")
<1>1. PlanRiskIssues(story) = FlattenSeq(Q) \o Repeated(section) \o d
  BY DEF PlanRiskIssues, Codes
<1>2. n \in Nat
  BY EntriesLength
<1>3. /\ \A i \in 1..n :
            /\ IsDecl(es[i])
            /\ \/ es[i].h = "Level"
               \/ es[i].h = "Reason" /\ ExactValue(es[i].v)
               \/ /\ es[i].h = "Signal"
                  /\ StructuredLiteral(es[i].v) /\ OneOf(es[i].v, RiskSignals)
                  /\ ~\E j \in 1..(i - 1) :
                        IsDecl(es[j]) /\ es[j].h = "Signal" /\ es[j].v = es[i].v
      /\ RepeatedSection(section) = <<>>
      /\ levels = <<>> \/ (Len(levels) = 1 /\ IsWord(levels[1], Levels))
  BY RiskIssuesSeq
<1>4. \A i \in 1..n : Q[i] = <<>>
  <2> TAKE i \in 1..n
  <2>1. ExactValue(es[i].v) => ExactLiteral(es[i].v)
    BY ValueIsLiteral
  <2>2. StructuredLiteral(es[i].v) /\ OneOf(es[i].v, RiskSignals) => ExactLiteral(es[i].v)
    BY SignalIsLiteral
  <2>3. Of(i) = <<>>
    BY <1>3, <2>1, <2>2 DEF Flag
  <2> QED BY <2>3
<1>5. Q = [i \in 1..n |-> Q[i]]
  OBVIOUS
<1>6. FlattenSeq(Q) = <<>>
  <2> HIDE DEF Q, n
  <2> QED BY <1>2, <1>4, <1>5, AllClear
<1>7. Repeated(section) = <<>>
  <2> HIDE DEF section
  <2> QED BY <1>3, RepeatedSame
<1>8. d = <<>>
  <2>1. levels \in Seq(TextType)
    BY SectionIs, ValuesIs
  <2> HIDE DEF levels
  <2> QED BY <1>3, <2>1, DeclaredIssuesSeq
<1> HIDE DEF d, Q, section
<1>9. FlattenSeq(Q) \o Repeated(section) = <<>>
  BY <1>6, <1>7, NothingAfter
<1> QED BY <1>1, <1>8, <1>9, NothingAfter

\* ... the plan of a Story without governance issues has none.
LEMMA PlanClear ==
    ASSUME NEW story \in DocType, TaskModeIssues(story) = <<>>,
           ReadAuthorityIssues(story, ReadTaskMode(story)) = <<>>,
           ReadArchitectureIssues(story) = <<>>, ReadRiskIssues(story) = <<>>
    PROVE  PlanIssues(story) = <<>>
<1> DEFINE modes == PlanTaskModes(story)
           d == DeclaredIssues(modes, TaskModes, "VERIFICATION_TASK_MODE_REPEATED",
                               "VERIFICATION_TASK_MODE_INVALID")
<1>1. d = <<>>
  <2>1. TaskModeIssues(story)
          = DeclaredIssues(modes, TaskModes, "STORY_TASK_MODE_REPEATED", "STORY_TASK_MODE_INVALID")
    BY DEF TaskModeIssues, DeclaredIssues, TaskModes_, PlanTaskModes
  <2>2. modes \in Seq(TextType)
    BY SectionIs, ValuesIs DEF PlanTaskModes
  <2> HIDE DEF modes
  <2> QED BY <2>1, <2>2, DeclaredIssuesSeq
<1>2. PlanAuthorityIssues(story) = <<>> /\ PlanArchitectureIssues(story) = <<>>
        /\ PlanRiskIssues(story) = <<>>
  BY PlanAuthorityClear, PlanArchitectureClear, PlanRiskClear
<1>3. PlanIssues(story) = d \o PlanAuthorityIssues(story) \o PlanArchitectureIssues(story)
                            \o PlanRiskIssues(story)
  BY DEF PlanIssues
<1> QED BY <1>1, <1>2, <1>3, NothingAfter

\* The first of the chosen positions of a sequence, if there is one.
LEMMA FirstOf ==
    ASSUME NEW n \in Nat, NEW chosen, NEW i \in 1..n, i \in chosen
    PROVE  \E k \in 1..n : k \in chosen /\ \A j \in 1..(k - 1) : j \notin chosen
<1> DEFINE T == {k \in 1..n : k \in chosen}
<1>1. T \subseteq Nat /\ T # {}
  OBVIOUS
<1>2. PICK k \in T : \A y \in T : k <= y
  <2> HIDE DEF T
  <2> QED BY <1>1, SmallestOfSet
<1>3. ASSUME NEW j \in 1..(k - 1), j \in chosen PROVE FALSE
  <2>1. j \in 1..n /\ j < k
    BY <1>2, <1>3
  <2>2. j \in T
    BY <2>1, <1>3
  <2> QED BY <1>2, <2>1, <2>2
<1> QED BY <1>2, <1>3

\* The first declaration of a label decides its first value.
LEMMA FirstDeclared ==
    ASSUME NEW es \in Seq(LineType), NEW label
    PROVE  \/ /\ Values(es, label) = <<>>
              /\ \A i \in 1..Len(es) : ~(IsDecl(es[i]) /\ es[i].h = label)
           \/ \E k \in 1..Len(es) :
                /\ IsDecl(es[k]) /\ es[k].h = label
                /\ \A j \in 1..(k - 1) : ~(IsDecl(es[j]) /\ es[j].h = label)
                /\ Values(es, label) # <<>> /\ Values(es, label)[1] = es[k].v
<1> DEFINE c == Declaring(es, label)
<1>1. Len(es) \in Nat
  OBVIOUS
<1>2. \A i \in 1..Len(es) : i \in c <=> IsDecl(es[i]) /\ es[i].h = label
  BY DEF Declaring
<1>3. CASE \A i \in 1..Len(es) : i \notin c
  <2>1. \A i \in 1..Len(es) : ~(IsDecl(es[i]) /\ es[i].h = label)
    BY <1>2, <1>3
  <2> QED BY <2>1, ValuesIs
<1>4. CASE \E i \in 1..Len(es) : i \in c
  <2>1. PICK k \in 1..Len(es) : k \in c /\ \A j \in 1..(k - 1) : j \notin c
    <3> HIDE DEF c
    <3> QED BY <1>1, <1>4, FirstOf
  <2>2. Len(Values(es, label)) > 0 /\ Values(es, label)[1] = es[k].v
    BY <2>1, ValuesFirst
  <2>3. Values(es, label) # <<>>
    BY <2>2
  <2>4. \A j \in 1..(k - 1) : j \in 1..Len(es)
    BY <1>1
  <2> QED BY <1>2, <2>1, <2>2, <2>3, <2>4
<1> QED BY <1>3, <1>4

\* Both readers give an operation the same authority.
LEMMA AuthoritySame ==
    ASSUME NEW story \in DocType, NEW mode
    PROVE  PlanAuthority(story, mode) = ReadAuthority(story, mode)
<1> DEFINE es == Section(story, "## Authority").entries
           first(op, i) == /\ IsDecl(es[i]) /\ es[i].h = op
                           /\ \A j \in 1..(i - 1) : ~(IsDecl(es[j]) /\ es[j].h = op)
           decides(op, i) == first(op, i) /\ IsWord(es[i].v, {"yes", "no"})
           default(op) == op = "plan" \/ (op = "modify" /\ mode \in {"execution", "mixed"})
           read(op) == IF \E i \in 1..Len(es) : decides(op, i)
              THEN \E i \in 1..Len(es) : decides(op, i) /\ es[i].v = Plain("yes")
              ELSE default(op)
<1>1. ReadAuthority(story, mode) = [op \in Operations |-> read(op)]
  BY DEF ReadAuthority
<1>2. PlanAuthority(story, mode) = [op \in Operations |-> Grant(es, op, default(op))]
  BY DEF PlanAuthority, DefaultAuthority
<1>3. es \in Seq(LineType)
  BY SectionIs
<1> HIDE DEF es
<1>4. ASSUME NEW op \in Operations PROVE Grant(es, op, default(op)) = read(op)
  <2> DEFINE given == Values(es, op)
  <2> HIDE DEF default
  <2>1. CASE given = <<>> /\ \A i \in 1..Len(es) : ~(IsDecl(es[i]) /\ es[i].h = op)
    <3>1. ~\E i \in 1..Len(es) : decides(op, i)
      BY <2>1
    <3>2. Grant(es, op, default(op)) = default(op)
      BY <2>1 DEF Grant
    <3> QED BY <3>1, <3>2
  <2>2. CASE \E k \in 1..Len(es) : first(op, k) /\ given # <<>> /\ given[1] = es[k].v
    <3>1. PICK k \in 1..Len(es) : first(op, k) /\ given # <<>> /\ given[1] = es[k].v
      BY <2>2
    <3>2. \A i \in 1..Len(es) : first(op, i) => i = k
      <4> TAKE i \in 1..Len(es)
      <4> HAVE first(op, i)
      <4>1. ~(i < k) /\ ~(k < i)
        <5>1. i \in Nat /\ k \in Nat /\ 0 < i /\ 0 < k
          BY <1>3
        <5>2. i < k => i \in 1..(k - 1)
          BY <5>1
        <5>3. k < i => k \in 1..(i - 1)
          BY <5>1
        <5> QED BY <3>1, <5>2, <5>3
      <4>2. i \in Int /\ k \in Int
        BY <1>3
      <4> HIDE DEF first
      <4> QED BY <4>1, <4>2
    <3> DEFINE says == IsWord(es[k].v, {"yes", "no"})
               yes == es[k].v = Plain("yes")
    <3> HIDE DEF first
    <3>3. Grant(es, op, default(op)) = IF ~says THEN default(op) ELSE yes
      BY <3>1 DEF Grant
    <3>4. (\E i \in 1..Len(es) : decides(op, i)) <=> says
      BY <3>1, <3>2
    <3>5. (\E i \in 1..Len(es) : decides(op, i) /\ es[i].v = Plain("yes")) <=> says /\ yes
      BY <3>1, <3>2
    <3> HIDE DEF decides, says, yes
    <3> DEFINE some == \E i \in 1..Len(es) : decides(op, i)
               granted == \E i \in 1..Len(es) : decides(op, i) /\ es[i].v = Plain("yes")
    <3>6. read(op) = IF some THEN granted ELSE default(op)
      OBVIOUS
    <3>7. some \in BOOLEAN /\ granted \in BOOLEAN /\ says \in BOOLEAN /\ yes \in BOOLEAN
      BY DEF says, yes, IsWord
    <3>8. (some <=> says) /\ (granted <=> says /\ yes)
      BY <3>4, <3>5
    <3> HIDE DEF read, some, granted
    <3>9. CASE says
      <4>1. some /\ granted = yes
        BY <3>7, <3>8, <3>9
      <4> QED BY <3>3, <3>6, <3>9, <4>1
    <3>10. CASE ~says
      <4>1. ~some
        BY <3>8, <3>10
      <4> QED BY <3>3, <3>6, <3>10, <4>1
    <3> QED BY <3>9, <3>10
  <2>3. \/ given = <<>> /\ \A i \in 1..Len(es) : ~(IsDecl(es[i]) /\ es[i].h = op)
        \/ \E k \in 1..Len(es) : first(op, k) /\ given # <<>> /\ given[1] = es[k].v
    <3>1. \/ given = <<>> /\ \A i \in 1..Len(es) : ~(IsDecl(es[i]) /\ es[i].h = op)
          \/ \E k \in 1..Len(es) :
                /\ IsDecl(es[k]) /\ es[k].h = op
                /\ \A j \in 1..(k - 1) : ~(IsDecl(es[j]) /\ es[j].h = op)
                /\ given # <<>> /\ given[1] = es[k].v
      BY ONLY <1>3, FirstDeclared
    <3> HIDE DEF given
    <3> QED BY <3>1
  <2> HIDE DEF first, given, read
  <2> QED BY ONLY <2>1, <2>2, <2>3
<1> HIDE DEF read, default
<1> QED BY <1>1, <1>2, <1>4

\* The plan is what the reader of the contract reads.
LEMMA PlanIsRead ==
    ASSUME NEW story \in DocType
    PROVE  LET plan == ResolvePlan(story)
           IN  /\ plan.taskMode = ReadTaskMode(story)
               /\ plan.authority = ReadAuthority(story, ReadTaskMode(story))
               /\ plan.riskLevel = ReadRiskLevel(story)
               /\ plan.architectureImpact
                    = ReadLevel(Values(Section(story, "## Architecture").entries, "Impact"))
<1>1. PlanTaskMode(story) = ReadTaskMode(story)
  BY DEF PlanTaskMode, ReadTaskMode, PlanTaskModes, TaskModes_, Declared
<1>2. PlanRiskLevel(story) = ReadRiskLevel(story)
  BY DEF PlanRiskLevel, ReadRiskLevel, ReadLevel
<1>3. PlanImpact(story) = ReadLevel(Values(Section(story, "## Architecture").entries, "Impact"))
  BY DEF PlanImpact, ReadLevel
<1>4. /\ ResolvePlan(story).taskMode = PlanTaskMode(story)
      /\ ResolvePlan(story).authority = PlanAuthority(story, PlanTaskMode(story))
      /\ ResolvePlan(story).riskLevel = PlanRiskLevel(story)
      /\ ResolvePlan(story).architectureImpact = PlanImpact(story)
  BY DEF ResolvePlan
<1>5. PlanAuthority(story, ReadTaskMode(story)) = ReadAuthority(story, ReadTaskMode(story))
  BY AuthoritySame
<1> QED BY <1>1, <1>2, <1>3, <1>4, <1>5

-----------------------------------------------------------------------------
(* What the defects of a record leave.                                      *)

\* A plan without issues has an authority every line of which says yes or no.
LEMMA PlanAuthoritySeq ==
    ASSUME NEW story \in DocType
    PROVE  /\ IsSeq(PlanAuthorityIssues(story))
           /\ PlanAuthorityIssues(story) = <<>> =>
                LET es == Section(story, "## Authority").entries
                IN  \A i \in 1..Len(es) : IsWord(es[i].v, {"yes", "no"})
<1> DEFINE section == Section(story, "## Authority")
           es == section.entries
           n == Len(es)
           Of(i) == IF ~IsDecl(es[i]) THEN <<"VERIFICATION_AUTHORITY_ENTRY_INVALID">>
                 ELSE IF es[i].h \notin Operations THEN <<"VERIFICATION_AUTHORITY_UNKNOWN_OPERATION">>
                 ELSE IF \E j \in 1..(i - 1) : IsDecl(es[j]) /\ es[j].h = es[i].h
                   THEN <<"VERIFICATION_AUTHORITY_REPEATED">>
                 ELSE Flag(~IsWord(es[i].v, {"yes", "no"}), "VERIFICATION_AUTHORITY_VALUE_INVALID")
           Q == [i \in 1..n |-> Of(i)]
<1>1. PlanAuthorityIssues(story) = FlattenSeq(Q) \o Repeated(section)
  BY DEF PlanAuthorityIssues, Codes
<1>2. n \in Nat
  BY EntriesLength
<1>3. \A i \in 1..n : IsSeq(Q[i])
  BY OneIsSeq, EmptyIsSeq DEF Flag
<1>4. \A i \in 1..n : Q[i] = <<>> => IsWord(es[i].v, {"yes", "no"})
  BY OneIsSeq DEF Flag
<1>5. Q = [i \in 1..n |-> Q[i]]
  OBVIOUS
<1>6. IsSeq(Repeated(section))
  BY OneIsSeq, EmptyIsSeq DEF Flag, Repeated
<1>7. IsSeq(FlattenSeq(Q)) /\ (FlattenSeq(Q) = <<>> <=> \A i \in 1..n : Q[i] = <<>>)
  <2> HIDE DEF n, Q
  <2> QED BY <1>2, <1>3, <1>5, FlatIsSeq
<1> HIDE DEF Q, section
<1>8. /\ IsSeq(PlanAuthorityIssues(story))
      /\ PlanAuthorityIssues(story) = <<>> => FlattenSeq(Q) = <<>>
  BY <1>1, <1>6, <1>7, ConcatIsSeq
<1> QED BY <1>4, <1>7, <1>8 DEF section

\* The issues of the plan's architecture,
LEMMA PlanArchitectureSeq ==
    ASSUME NEW story \in DocType
    PROVE  IsSeq(PlanArchitectureIssues(story))
<1> DEFINE section == Section(story, "## Architecture")
           es == section.entries
           n == Len(es)
           impacts == Values(es, "Impact")
           Of(i) == IF ~IsDecl(es[i]) THEN <<"VERIFICATION_ARCHITECTURE_ENTRY_INVALID">>
                 ELSE IF es[i].h = "Impact" THEN <<>>
                 ELSE IF es[i].h \notin ArchitectureLabels
                   THEN <<"VERIFICATION_ARCHITECTURE_UNKNOWN_LABEL">>
                 ELSE Flag(~ExactLiteral(es[i].v), "VERIFICATION_ARCHITECTURE_LITERAL_INVALID")
           Q == [i \in 1..n |-> Of(i)]
           d == DeclaredIssues(impacts, Levels, "VERIFICATION_ARCHITECTURE_IMPACT_REPEATED",
                               "VERIFICATION_ARCHITECTURE_IMPACT_INVALID")
<1>1. PlanArchitectureIssues(story) = FlattenSeq(Q) \o Repeated(section) \o d
  BY DEF PlanArchitectureIssues, Codes
<1>2. n \in Nat
  BY EntriesLength
<1>3. \A i \in 1..n : IsSeq(Q[i])
  BY OneIsSeq, EmptyIsSeq DEF Flag
<1>4. Q = [i \in 1..n |-> Q[i]]
  OBVIOUS
<1>5. IsSeq(FlattenSeq(Q))
  <2> HIDE DEF n, Q
  <2> QED BY <1>2, <1>3, <1>4, FlatIsSeq
<1>6. IsSeq(Repeated(section))
  BY OneIsSeq, EmptyIsSeq DEF Flag, Repeated
<1>7. IsSeq(d)
  <2>1. impacts \in Seq(TextType)
    BY SectionIs, ValuesIs
  <2> HIDE DEF impacts
  <2> QED BY <2>1, DeclaredIssuesSeq
<1> HIDE DEF Q, d, section
<1> QED BY <1>1, <1>5, <1>6, <1>7, Concat3

\* ... and of its risk.
LEMMA PlanRiskSeq ==
    ASSUME NEW story \in DocType
    PROVE  IsSeq(PlanRiskIssues(story))
<1> DEFINE section == Section(story, "## Risk")
           es == section.entries
           n == Len(es)
           levels == Values(es, "Level")
           Signal(v) == StructuredLiteral(v) /\ OneOf(v, RiskSignals)
           OfSignal(i) ==
            IF ~ExactLiteral(es[i].v) THEN <<"VERIFICATION_RISK_SIGNAL_INVALID">>
            ELSE IF ~Signal(es[i].v) THEN <<"VERIFICATION_RISK_SIGNAL_UNKNOWN">>
            ELSE Flag(\E j \in 1..(i - 1) :
                        IsDecl(es[j]) /\ es[j].h = "Signal" /\ es[j].v = es[i].v,
                      "VERIFICATION_RISK_SIGNAL_REPEATED")
           Of(i) == IF ~IsDecl(es[i]) THEN <<"VERIFICATION_RISK_ENTRY_INVALID">>
                 ELSE IF es[i].h = "Level" THEN <<>>
                 ELSE IF es[i].h = "Reason"
                   THEN Flag(~ExactLiteral(es[i].v), "VERIFICATION_RISK_REASON_INVALID")
                 ELSE IF es[i].h = "Signal" THEN OfSignal(i)
                 ELSE <<"VERIFICATION_RISK_UNKNOWN_LABEL">>
           Q == [i \in 1..n |-> Of(i)]
           d == DeclaredIssues(levels, Levels, "VERIFICATION_RISK_LEVEL_REPEATED",
                               "VERIFICATION_RISK_LEVEL_INVALID")
<1>1. PlanRiskIssues(story) = FlattenSeq(Q) \o Repeated(section) \o d
  BY DEF PlanRiskIssues, Codes
<1>2. n \in Nat
  BY EntriesLength
<1>3. \A i \in 1..n : IsSeq(Q[i])
  BY OneIsSeq, EmptyIsSeq DEF Flag
<1>4. Q = [i \in 1..n |-> Q[i]]
  OBVIOUS
<1>5. IsSeq(FlattenSeq(Q))
  <2> HIDE DEF n, Q
  <2> QED BY <1>2, <1>3, <1>4, FlatIsSeq
<1>6. IsSeq(Repeated(section))
  BY OneIsSeq, EmptyIsSeq DEF Flag, Repeated
<1>7. IsSeq(d)
  <2>1. levels \in Seq(TextType)
    BY SectionIs, ValuesIs
  <2> HIDE DEF levels
  <2> QED BY <2>1, DeclaredIssuesSeq
<1> HIDE DEF Q, d, section
<1> QED BY <1>1, <1>5, <1>6, <1>7, Concat3

NothingIn(a, b, c, d) == a \o b \o c \o d = <<>>

\* Four lists that are nothing together are nothing each.
LEMMA Concat4 ==
    ASSUME NEW a, NEW b, NEW c, NEW d, IsSeq(a), IsSeq(b), IsSeq(c), IsSeq(d),
           NothingIn(a, b, c, d)
    PROVE  a = <<>> /\ b = <<>> /\ c = <<>> /\ d = <<>>
<1>1. IsSeq(a \o b) /\ (a \o b = <<>> => a = <<>> /\ b = <<>>)
  BY ConcatIsSeq
<1>2. IsSeq(a \o b \o c) /\ (a \o b \o c = <<>> => a \o b = <<>> /\ c = <<>>)
  BY <1>1, ConcatIsSeq
<1>3. a \o b \o c \o d = <<>> => a \o b \o c = <<>> /\ d = <<>>
  BY <1>2, ConcatIsSeq
<1> QED BY <1>1, <1>2, <1>3 DEF NothingIn

\* The elements of a sequence are at its positions.
LEMMA Elements ==
    ASSUME NEW S, NEW es \in Seq(S)
    PROVE  /\ \A l \in ToSet(es) : \E i \in 1..Len(es) : l = es[i]
           /\ \A i \in 1..Len(es) : es[i] \in ToSet(es)
BY DEF ToSet

\* In a plan without issues every line of the authority says yes or no.
LEMMA PlanAuthorityStated ==
    ASSUME NEW story \in DocType, PlanIssues(story) = <<>>,
           NEW i \in 1..Len(Section(story, "## Authority").entries)
    PROVE  IsWord(Section(story, "## Authority").entries[i].v, {"yes", "no"})
<1> DEFINE modes == PlanTaskModes(story)
           d == DeclaredIssues(modes, TaskModes, "VERIFICATION_TASK_MODE_REPEATED",
                               "VERIFICATION_TASK_MODE_INVALID")
           b == PlanAuthorityIssues(story)
           c == PlanArchitectureIssues(story)
           e == PlanRiskIssues(story)
<1>1. PlanIssues(story) = d \o b \o c \o e
  BY DEF PlanIssues
<1>2. IsSeq(d)
  <2>1. modes \in Seq(TextType)
    BY SectionIs, ValuesIs DEF PlanTaskModes
  <2> HIDE DEF modes
  <2> QED BY <2>1, DeclaredIssuesSeq
<1>3. IsSeq(b) /\ IsSeq(c) /\ IsSeq(e)
  BY PlanAuthoritySeq, PlanArchitectureSeq, PlanRiskSeq
<1> HIDE DEF d, b, c, e
<1>7. b = <<>>
  <2>1. NothingIn(d, b, c, e)
    BY <1>1 DEF NothingIn
  <2> QED BY ONLY <1>2, <1>3, <2>1, Concat4
<1> QED BY <1>7, PlanAuthoritySeq DEF b

\* What the plan grants, the Story says or leaves to the task mode.
LEMMA GrantedIsSaid ==
    ASSUME NEW story \in DocType, NEW mode, NEW op \in Operations, PlanIssues(story) = <<>>,
           PlanAuthority(story, mode)[op]
    PROVE  \/ Says(story, "## Authority", op, Plain("yes"))
           \/ op \in {"plan", "modify"} /\ ~Says(story, "## Authority", op, Plain("no"))
<1> DEFINE es == Section(story, "## Authority").entries
           given == Values(es, op)
           default == op = "plan" \/ (op = "modify" /\ mode \in {"execution", "mixed"})
<1>1. Grant(es, op, default)
  BY DEF PlanAuthority, DefaultAuthority
<1>2. es \in Seq(LineType) /\ \A i \in 1..Len(es) : IsWord(es[i].v, {"yes", "no"})
  BY SectionIs, PlanAuthorityStated
<1>3. \A value : Says(story, "## Authority", op, value) <=>
                   \E i \in 1..Len(es) : IsDecl(es[i]) /\ es[i].h = op /\ es[i].v = value
  <2>1. \A value : Says(story, "## Authority", op, value) <=>
                     \E l \in ToSet(es) : IsDecl(l) /\ l.h = op /\ l.v = value
    BY DEF Says
  <2> HIDE DEF es
  <2>2. /\ \A l \in ToSet(es) : \E i \in 1..Len(es) : l = es[i]
        /\ \A i \in 1..Len(es) : es[i] \in ToSet(es)
    BY <1>2, Elements
  <2> TAKE value
  <2>3. ASSUME NEW l \in ToSet(es), IsDecl(l), l.h = op, l.v = value
        PROVE  \E i \in 1..Len(es) : IsDecl(es[i]) /\ es[i].h = op /\ es[i].v = value
    <3>1. PICK i \in 1..Len(es) : l = es[i]
      BY ONLY <2>2, <2>3
    <3> QED BY ONLY <2>3, <3>1
  <2>4. ASSUME NEW i \in 1..Len(es), IsDecl(es[i]), es[i].h = op, es[i].v = value
        PROVE  \E l \in ToSet(es) : IsDecl(l) /\ l.h = op /\ l.v = value
    BY ONLY <2>2, <2>4
  <2> QED BY ONLY <2>1, <2>3, <2>4
<1> HIDE DEF es
<1>4. CASE given = <<>> /\ \A i \in 1..Len(es) : ~(IsDecl(es[i]) /\ es[i].h = op)
  <2>1. default
    BY <1>1, <1>4 DEF Grant
  <2>2. ~Says(story, "## Authority", op, Plain("no"))
    BY <1>3, <1>4
  <2> QED BY <2>1, <2>2
<1>5. CASE \E k \in 1..Len(es) : IsDecl(es[k]) /\ es[k].h = op /\ given # <<>> /\ given[1] = es[k].v
  <2>1. PICK k \in 1..Len(es) : IsDecl(es[k]) /\ es[k].h = op /\ given # <<>> /\ given[1] = es[k].v
    BY <1>5
  <2>2. IsWord(given[1], {"yes", "no"})
    BY <1>2, <2>1
  <2>3. es[k].v = Plain("yes")
    BY <1>1, <2>1, <2>2 DEF Grant
  <2> QED BY <1>3, <2>1, <2>3
<1>6. \/ given = <<>> /\ \A i \in 1..Len(es) : ~(IsDecl(es[i]) /\ es[i].h = op)
      \/ \E k \in 1..Len(es) : IsDecl(es[k]) /\ es[k].h = op /\ given # <<>> /\ given[1] = es[k].v
  <2>1. \/ given = <<>> /\ \A i \in 1..Len(es) : ~(IsDecl(es[i]) /\ es[i].h = op)
        \/ \E k \in 1..Len(es) :
                /\ IsDecl(es[k]) /\ es[k].h = op
                /\ \A j \in 1..(k - 1) : ~(IsDecl(es[j]) /\ es[j].h = op)
                /\ given # <<>> /\ given[1] = es[k].v
    BY ONLY <1>2, FirstDeclared
  <2> HIDE DEF given
  <2> QED BY <2>1
<1> HIDE DEF given
<1> QED BY ONLY <1>4, <1>5, <1>6

CountedChecks(es) == Counted(es, ChecksIn(es))
CountedEvidence(es, criteria) == Counted(es, CriteriaIn(es, criteria))

\* Checks without a defect are all counted and detailed,
LEMMA CheckDefectsSeq ==
    ASSUME NEW es \in Seq(LineType)
    PROVE  /\ IsSeq(CheckDefects(es))
           /\ CheckDefects(es) = <<>> =>
                \A i \in 1..Len(es) : i \in CountedChecks(es) /\ Detailed(es[i])
<1> DEFINE counted == CountedChecks(es)
           n == Len(es)
           Of(i) == IF ~IsDecl(es[i]) THEN <<"VERIFICATION_CHECK_ENTRY_INVALID">>
                 ELSE IF es[i] \notin ChecksIn(es) THEN <<"VERIFICATION_CHECK_UNKNOWN">>
                 ELSE IF i \notin counted THEN <<"VERIFICATION_CHECK_REPEATED">>
                 ELSE IF ~IsWord(es[i].v, CheckStatuses) THEN <<"VERIFICATION_CHECK_STATUS_INVALID">>
                 ELSE Flag(~Detailed(es[i]), "VERIFICATION_CHECK_DETAIL_INVALID")
           Q == [i \in 1..n |-> Of(i)]
<1>1. CheckDefects(es) = FlattenSeq(Q)
  BY DEF CheckDefects, Codes, CountedChecks
<1>2. n \in Nat
  OBVIOUS
<1> HIDE DEF counted
<1>3. \A i \in 1..n : IsSeq(Q[i])
  BY OneIsSeq, EmptyIsSeq DEF Flag
<1>4. \A i \in 1..n : Q[i] = <<>> => i \in counted /\ Detailed(es[i])
  BY OneIsSeq DEF Flag
<1>5. Q = [i \in 1..n |-> Q[i]]
  OBVIOUS
<1>6. IsSeq(FlattenSeq(Q)) /\ (FlattenSeq(Q) = <<>> <=> \A i \in 1..n : Q[i] = <<>>)
  <2> HIDE DEF n, Q
  <2> QED BY <1>2, <1>3, <1>5, FlatIsSeq
<1> HIDE DEF Q
<1> QED BY <1>1, <1>4, <1>6 DEF counted

\* ... and so is evidence,
LEMMA EvidenceDefectsSeq ==
    ASSUME NEW es \in Seq(LineType), NEW criteria
    PROVE  /\ IsSeq(EvidenceDefects(es, criteria))
           /\ EvidenceDefects(es, criteria) = <<>> =>
                \A i \in 1..Len(es) : i \in CountedEvidence(es, criteria) /\ Detailed(es[i])
<1> DEFINE counted == CountedEvidence(es, criteria)
           n == Len(es)
           Of(i) == IF ~IsDecl(es[i]) THEN <<"VERIFICATION_EVIDENCE_ENTRY_INVALID">>
                 ELSE IF es[i].n = 0 THEN <<"VERIFICATION_EVIDENCE_AC_INVALID">>
                 ELSE IF es[i].h \notin criteria THEN <<"VERIFICATION_EVIDENCE_AC_UNKNOWN">>
                 ELSE IF i \notin counted THEN <<"VERIFICATION_EVIDENCE_AC_REPEATED">>
                 ELSE IF ~IsWord(es[i].v, EvidenceStatuses)
                   THEN <<"VERIFICATION_EVIDENCE_STATUS_INVALID">>
                 ELSE Flag(~Detailed(es[i]), "VERIFICATION_EVIDENCE_DETAIL_INVALID")
           Q == [i \in 1..n |-> Of(i)]
<1>1. EvidenceDefects(es, criteria) = FlattenSeq(Q)
  BY DEF EvidenceDefects, Codes, CountedEvidence
<1>2. n \in Nat
  OBVIOUS
<1> HIDE DEF counted
<1>3. \A i \in 1..n : IsSeq(Q[i])
  BY OneIsSeq, EmptyIsSeq DEF Flag
<1>4. \A i \in 1..n : Q[i] = <<>> => i \in counted /\ Detailed(es[i])
  BY OneIsSeq DEF Flag
<1>5. Q = [i \in 1..n |-> Q[i]]
  OBVIOUS
<1>6. IsSeq(FlattenSeq(Q)) /\ (FlattenSeq(Q) = <<>> <=> \A i \in 1..n : Q[i] = <<>>)
  <2> HIDE DEF n, Q
  <2> QED BY <1>2, <1>3, <1>5, FlatIsSeq
<1> HIDE DEF Q
<1> QED BY <1>1, <1>4, <1>6 DEF counted

\* ... and the authority used names operations.
LEMMA AuthorityDefectsSeq ==
    ASSUME NEW es \in Seq(LineType)
    PROVE  /\ IsSeq(AuthorityDefects(es))
           /\ AuthorityDefects(es) = <<>> => \A i \in 1..Len(es) : NamesOperation(es[i])
<1> DEFINE n == Len(es)
           Q == [i \in 1..n |-> Flag(~NamesOperation(es[i]), "VERIFICATION_AUTHORITY_USED_UNKNOWN")]
<1>1. AuthorityDefects(es) = FlattenSeq(Q)
  BY DEF AuthorityDefects, Codes
<1>2. n \in Nat
  OBVIOUS
<1>3. \A i \in 1..n : IsSeq(Q[i]) /\ (Q[i] = <<>> => NamesOperation(es[i]))
  BY OneIsSeq, EmptyIsSeq DEF Flag
<1>4. Q = [i \in 1..n |-> Q[i]]
  OBVIOUS
<1>5. IsSeq(FlattenSeq(Q)) /\ (FlattenSeq(Q) = <<>> <=> \A i \in 1..n : Q[i] = <<>>)
  <2> HIDE DEF n, Q
  <2> QED BY <1>2, <1>3, <1>4, FlatIsSeq
<1> HIDE DEF Q
<1> QED BY <1>1, <1>3, <1>5

\* The defects of the risk.
LEMMA RiskDefectsSeq ==
    ASSUME NEW es \in Seq(LineType)
    PROVE  IsSeq(RiskDefects(es))
<1> DEFINE n == Len(es)
           Q == [i \in 1..n |-> Flag(~(es[i].t = "entry" /\ ExactLiteral(es[i].v)),
                              "VERIFICATION_RESIDUAL_RISK_INVALID")]
<1>1. RiskDefects(es) = FlattenSeq(Q)
  BY DEF RiskDefects, Codes
<1>2. n \in Nat
  OBVIOUS
<1>3. \A i \in 1..n : IsSeq(Q[i])
  BY OneIsSeq, EmptyIsSeq DEF Flag
<1>4. Q = [i \in 1..n |-> Q[i]]
  OBVIOUS
<1> HIDE DEF n, Q
<1> QED BY <1>1, <1>2, <1>3, <1>4, FlatIsSeq

\* A text is a word if it is plainly that word.
LEMMA WordIs ==
    ASSUME NEW v \in TextType, NEW word
    PROVE  IsWord(v, {word}) <=> v = Plain(word)
<1>1. v = [q |-> v.q, s |-> v.s]
  BY DEF TextType
<1>2. IsWord(v, {word}) <=> v.q = "prose" /\ v.s = <<word>>
  BY DEF IsWord, OneOf
<1>3. Plain(word).q = "prose" /\ Plain(word).s = <<word>>
        /\ Plain(word) = [q |-> "prose", s |-> <<word>>]
  BY DEF Plain, Text
<1> QED BY <1>1, <1>2, <1>3

\* A line of a record that counts as a pass, or as a failure.
PassingLine(es, name) == \E l \in ToSet(es) : l.h = name /\ l.v = Plain("pass") /\ HasDetail(l)

\* What has passed has a passing line.
LEMMA PassedIs ==
    ASSUME NEW es \in Seq(LineType), NEW counted, counted \subseteq 1..Len(es), NEW name,
           \A i \in 1..Len(es) : i \in counted /\ Detailed(es[i]), Passed(es, counted, name)
    PROVE  PassingLine(es, name)
<1>1. PICK i \in counted : es[i].h = name /\ IsWord(es[i].v, {"pass"})
  BY DEF Passed
<1>2. i \in 1..Len(es) /\ es[i] \in LineType /\ es[i] \in ToSet(es)
  BY Elements
<1>3. es[i].v = Plain("pass")
  BY <1>1, <1>2, LineText, WordIs
<1>4. HasDetail(es[i])
  BY <1>2 DEF HasDetail, Detailed
<1> QED BY <1>1, <1>2, <1>3, <1>4 DEF PassingLine

\* What has not failed has no failing line.
LEMMA NoneFailed ==
    ASSUME NEW es \in Seq(LineType), NEW counted, \A i \in 1..Len(es) : i \in counted,
           ~Failed(es, counted), NEW l \in ToSet(es)
    PROVE  l.v # Plain("fail")
<1> SUFFICES ASSUME l.v = Plain("fail") PROVE FALSE
  OBVIOUS
<1>1. PICK i \in 1..Len(es) : l = es[i]
  BY Elements
<1>2. es[i] \in LineType /\ i \in counted
  OBVIOUS
<1>3. IsWord(es[i].v, {"fail"})
  BY <1>1, <1>2, LineText, WordIs
<1> QED BY <1>2, <1>3 DEF Failed

\* What is counted is there.
LEMMA CountedWithin ==
    ASSUME NEW es, NEW named
    PROVE  Counted(es, named) \subseteq 1..Len(es)
BY DEF Counted

\* Every identified box of an acceptance document is a criterion.
LEMMA CriteriaHas ==
    ASSUME NEW acceptance \in DocType, NEW box \in ToSet(ContentLines(acceptance)),
           box.t = "box", box.h \in AcceptanceIds
    PROVE  box.h \in ToSet(CriteriaOf(acceptance))
<1> DEFINE content == ContentLines(acceptance)
           c == {i \in 1..Len(content) : content[i].t = "box" /\ content[i].h \in AcceptanceIds}
           boxes == Picked(content, c)
           Ids == [k \in 1..Len(boxes) |-> boxes[k].h]
           once == {k \in 1..Len(Ids) : \A j \in 1..(k - 1) : Ids[j] # Ids[k]}
<1>1. CriteriaOf(acceptance) = Picked(Ids, once)
  BY DEF CriteriaOf, Where
<1>2. content \in Seq(LineType)
  BY ContentType
<1>3. PICK i \in 1..Len(content) : box = content[i]
  <2> HIDE DEF content
  <2> QED BY <1>2, Elements DEF content
<1>4. i \in c
  BY <1>3
<1> HIDE DEF content, c
<1>5. /\ boxes \in Seq(LineType)
      /\ \A m \in 1..Len(content) : m \in c =>
            \E k \in 1..Len(boxes) : boxes[k] = content[m]
  BY <1>2, PickedIs
<1>6. PICK k \in 1..Len(boxes) : boxes[k] = box
  BY <1>3, <1>4, <1>5
<1> HIDE DEF boxes
<1>7. Len(boxes) \in Nat /\ \A m \in 1..Len(boxes) : boxes[m].h \in STRING
  <2>1. \A m \in 1..Len(boxes) : boxes[m] \in LineType
    BY <1>5
  <2> QED BY <1>5, <2>1, LineText
<1>8. Ids \in Seq(STRING) /\ Len(Ids) = Len(boxes) /\ Ids[k] = box.h
  BY <1>6, <1>7
<1> DEFINE same == {m \in 1..Len(Ids) : Ids[m] = box.h}
<1>9. \E f \in 1..Len(Ids) : f \in same /\ \A j \in 1..(f - 1) : j \notin same
  <2>1. k \in 1..Len(Ids) /\ k \in same /\ Len(Ids) \in Nat
    BY <1>7, <1>8
  <2> HIDE DEF same, Ids
  <2> QED BY <2>1, FirstOf
<1>10. PICK f \in 1..Len(Ids) : f \in same /\ \A j \in 1..(f - 1) : j \notin same
  BY <1>9
<1> HIDE DEF Ids
<1>11. Ids[f] = box.h /\ f \in once
  <2>1. Ids[f] = box.h
    BY <1>10
  <2>2. \A j \in 1..(f - 1) : j \in 1..Len(Ids)
    BY <1>7, <1>8
  <2> QED BY <1>10, <2>1, <2>2
<1> HIDE DEF once
<1>12. /\ Picked(Ids, once) \in Seq(STRING)
       /\ \E m \in 1..Len(Picked(Ids, once)) : Picked(Ids, once)[m] = Ids[f]
  BY <1>8, <1>11, PickedIs
<1> DEFINE p == Picked(Ids, once)
<1>13. PICK m \in 1..Len(p) : p[m] = Ids[f]
  BY <1>12
<1>14. p \in Seq(STRING) /\ p = CriteriaOf(acceptance)
  BY <1>1, <1>12
<1> HIDE DEF p
<1> QED BY <1>11, <1>13, <1>14, Elements

-----------------------------------------------------------------------------
(* The layers that are required.                                            *)

\* The layers a Story's risk and impact require.
Requires(story) == ToSet(ResolvePlan(story).requiredChecks)

\* A level that is declared plainly is the one declared.
LEMMA DeclaredLevel ==
    ASSUME NEW values
    PROVE  /\ Declared(values, Levels, "low") \in Levels
           /\ \A w \in Levels : values = <<Plain(w)>> => Declared(values, Levels, "low") = w
<1>1. ASSUME IsWord(values[1], Levels) PROVE values[1].s[1] \in Levels
  <2>1. OneOf(values[1], Levels)
    BY <1>1 DEF IsWord
  <2> DEFINE v == values[1]
  <2> HIDE DEF v, Levels
  <2>2. v.s[1] \in Levels
    BY <2>1, OneOfWord DEF v
  <2> QED BY <2>2 DEF v
<1>2. Declared(values, Levels, "low") \in Levels
  <2>1. "low" \in Levels
    BY DEF Levels
  <2> HIDE DEF Levels
  <2> QED BY <1>1, <2>1 DEF Declared
<1>3. ASSUME NEW w \in Levels, values = <<Plain(w)>>
      PROVE  Declared(values, Levels, "low") = w
  <2>1. Len(values) = 1 /\ values[1] = Plain(w)
    BY <1>3
  <2>2. Plain(w).q = "prose" /\ Plain(w).s = <<w>> /\ Plain(w).s[1] = w
    BY DEF Plain, Text
  <2>3. IsWord(values[1], Levels)
    BY <2>1, <2>2 DEF IsWord, OneOf
  <2> QED BY <2>1, <2>2, <2>3 DEF Declared
<1> QED BY <1>2, <1>3

\* The layers of a level.
LEMMA ProfileSeq ==
    ASSUME NEW level \in Levels
    PROVE  /\ Profile[level] \in Seq(Layers)
           /\ {"lint", "static", "unit"} \subseteq ToSet(Profile[level])
           /\ level \in {"medium", "high"} => "integration" \in ToSet(Profile[level])
           /\ level = "high" => {"contract", "e2e"} \subseteq ToSet(Profile[level])
<1> DEFINE three == <<"lint", "static", "unit">>
           four == <<"lint", "static", "unit", "integration">>
           six == <<"lint", "static", "unit", "integration", "contract", "e2e">>
<1>1. three \in Seq(Layers) /\ four \in Seq(Layers) /\ six \in Seq(Layers)
  BY DEF Layers
<1>2. /\ Len(three) = 3 /\ three[1] = "lint" /\ three[2] = "static" /\ three[3] = "unit"
      /\ Len(four) = 4 /\ four[1] = "lint" /\ four[2] = "static" /\ four[3] = "unit"
      /\ four[4] = "integration"
      /\ Len(six) = 6 /\ six[1] = "lint" /\ six[2] = "static" /\ six[3] = "unit"
      /\ six[4] = "integration" /\ six[5] = "contract" /\ six[6] = "e2e"
  OBVIOUS
<1>3. Profile.low = three /\ Profile.medium = four /\ Profile.high = six
  BY DEF Profile
<1> HIDE DEF three, four, six
<1>4. {"lint", "static", "unit"} \subseteq ToSet(three)
  <2>1. 1 \in 1..Len(three) /\ 2 \in 1..Len(three) /\ 3 \in 1..Len(three)
    BY <1>2
  <2>2. three[1] \in ToSet(three) /\ three[2] \in ToSet(three) /\ three[3] \in ToSet(three)
    BY <1>1, <2>1, Elements, Zenon
  <2> QED BY <1>2, <2>2, Zenon
<1>5. {"lint", "static", "unit", "integration"} \subseteq ToSet(four)
  <2>1. 1 \in 1..Len(four) /\ 2 \in 1..Len(four) /\ 3 \in 1..Len(four) /\ 4 \in 1..Len(four)
    BY <1>2
  <2>2. /\ four[1] \in ToSet(four) /\ four[2] \in ToSet(four) /\ four[3] \in ToSet(four)
        /\ four[4] \in ToSet(four)
    BY <1>1, <2>1, Elements, Zenon
  <2> QED BY <1>2, <2>2, Zenon
<1>6. {"lint", "static", "unit", "integration", "contract", "e2e"} \subseteq ToSet(six)
  <2>1. /\ 1 \in 1..Len(six) /\ 2 \in 1..Len(six) /\ 3 \in 1..Len(six) /\ 4 \in 1..Len(six)
        /\ 5 \in 1..Len(six) /\ 6 \in 1..Len(six)
    BY <1>2
  <2>2. /\ six[1] \in ToSet(six) /\ six[2] \in ToSet(six) /\ six[3] \in ToSet(six)
        /\ six[4] \in ToSet(six) /\ six[5] \in ToSet(six) /\ six[6] \in ToSet(six)
    BY <1>1, <2>1, Elements, Zenon
  <2> QED BY <1>2, <2>2, Zenon
<1>7. CASE level = "low"
  BY <1>1, <1>3, <1>4, <1>7
<1>8. CASE level = "medium"
  BY <1>1, <1>3, <1>5, <1>8
<1>9. CASE level = "high"
  BY <1>1, <1>3, <1>6, <1>9
<1> QED BY <1>7, <1>8, <1>9 DEF Levels

\* The elements of two sequences after one another.
LEMMA InEither ==
    ASSUME NEW S, NEW a \in Seq(S), NEW b \in Seq(S)
    PROVE  ToSet(a \o b) = ToSet(a) \cup ToSet(b)
<1> DEFINE ab == a \o b
<1>1. /\ Len(a) \in Nat /\ Len(b) \in Nat /\ ab \in Seq(S) /\ Len(ab) = Len(a) + Len(b)
      /\ \A i \in 1..Len(a) : ab[i] = a[i]
      /\ \A i \in 1..Len(b) : ab[Len(a) + i] = b[i]
  OBVIOUS
<1> HIDE DEF ab
<1>2. ToSet(ab) = {ab[i] : i \in 1..Len(ab)} /\ ToSet(a) = {a[i] : i \in 1..Len(a)}
        /\ ToSet(b) = {b[i] : i \in 1..Len(b)}
  BY <1>1 DEF ToSet
<1>3. ASSUME NEW i \in 1..Len(ab) PROVE ab[i] \in ToSet(a) \cup ToSet(b)
  <2>1. CASE i <= Len(a)
    BY <1>1, <1>2, <2>1
  <2>2. CASE i > Len(a)
    <3>1. i - Len(a) \in 1..Len(b) /\ Len(a) + (i - Len(a)) = i
      BY <1>1, <2>2
    <3>2. ab[Len(a) + (i - Len(a))] = b[i - Len(a)]
      BY <1>1, <3>1
    <3> QED BY <1>2, <3>1, <3>2
  <2> QED BY <1>1, <2>1, <2>2
<1>4. ASSUME NEW i \in 1..Len(a) PROVE a[i] \in ToSet(ab)
  BY <1>1, <1>2
<1>5. ASSUME NEW i \in 1..Len(b) PROVE b[i] \in ToSet(ab)
  <2>1. Len(a) + i \in 1..Len(ab)
    BY <1>1
  <2> QED BY <1>1, <1>2, <2>1
<1> QED BY <1>2, <1>3, <1>4, <1>5 DEF ab

\* The layers a plan requires for its risk level and its impact.
LEMMA RequiredAre ==
    ASSUME NEW story
    PROVE  LET level == Values(Section(story, "## Risk").entries, "Level")
               impact == Values(Section(story, "## Architecture").entries, "Impact")
           IN  /\ {"lint", "static", "unit"} \subseteq Requires(story)
               /\ level \in {<<Plain("medium")>>, <<Plain("high")>>} => "integration" \in Requires(story)
               /\ level = <<Plain("high")>> => {"contract", "e2e"} \subseteq Requires(story)
               /\ impact \in {<<Plain("medium")>>, <<Plain("high")>>} =>
                      "architecture" \in Requires(story)
<1> DEFINE level == Values(Section(story, "## Risk").entries, "Level")
           impact == Values(Section(story, "## Architecture").entries, "Impact")
           risk == Declared(level, Levels, "low")
           reach == Declared(impact, Levels, "low")
           extra == IF reach # "low" THEN <<"architecture">> ELSE <<>>
<1>1. ResolvePlan(story).requiredChecks = Profile[risk] \o extra
  BY DEF ResolvePlan, PlanRiskLevel, PlanImpact
<1>2. "low" \in Levels /\ "medium" \in Levels /\ "high" \in Levels
  BY DEF Levels
<1>3. /\ risk \in Levels /\ (level = <<Plain("medium")>> => risk = "medium")
      /\ level = <<Plain("high")>> => risk = "high"
  <2> HIDE DEF level
  <2> QED BY <1>2, DeclaredLevel
<1>4. /\ impact = <<Plain("medium")>> => reach = "medium"
      /\ impact = <<Plain("high")>> => reach = "high"
  <2> HIDE DEF impact
  <2> QED BY <1>2, DeclaredLevel
<1>5. <<"architecture">> \in Seq(Layers) /\ <<>> \in Seq(Layers)
        /\ "architecture" \in ToSet(<<"architecture">>)
  <2>1. <<"architecture">>[1] = "architecture" /\ 1 \in 1..Len(<<"architecture">>)
    OBVIOUS
  <2>2. <<"architecture">> \in Seq(Layers) /\ <<>> \in Seq(Layers)
    BY DEF Layers
  <2> QED BY <2>1, <2>2, Elements
<1>6. extra \in Seq(Layers) /\ (reach # "low" => "architecture" \in ToSet(extra))
  <2> HIDE DEF reach
  <2> QED BY <1>5
<1> HIDE DEF extra, risk, reach, level, impact
<1>7. Profile[risk] \in Seq(Layers)
  BY <1>3, ProfileSeq
<1>8. Requires(story) = ToSet(Profile[risk]) \cup ToSet(extra)
  BY <1>1, <1>6, <1>7, InEither DEF Requires
<1>9. /\ {"lint", "static", "unit"} \subseteq ToSet(Profile[risk])
      /\ risk \in {"medium", "high"} => "integration" \in ToSet(Profile[risk])
      /\ risk = "high" => {"contract", "e2e"} \subseteq ToSet(Profile[risk])
  BY <1>3, ProfileSeq
<1>10. impact \in {<<Plain("medium")>>, <<Plain("high")>>} => "architecture" \in ToSet(extra)
  BY <1>4, <1>6
<1>11. /\ level \in {<<Plain("medium")>>, <<Plain("high")>>} => "integration" \in ToSet(Profile[risk])
       /\ level = <<Plain("high")>> => {"contract", "e2e"} \subseteq ToSet(Profile[risk])
  BY <1>3, <1>9
<1> QED BY <1>8, <1>9, <1>10, <1>11 DEF level, impact

-----------------------------------------------------------------------------
(* What a pass has read.                                                    *)

\* What a passing result says of the documents it was read from.
Proven(story, acceptance, record) ==
    LET checks == Section(record, "## Checks").entries
        evidence == Section(record, "## Evidence").entries
    IN  /\ PlanIssues(story) = <<>>
        /\ \A layer \in Requires(story) : PassingLine(checks, layer)
        /\ \A box \in ToSet(ContentLines(acceptance)) :
              box.t = "box" /\ box.h \in AcceptanceIds => PassingLine(evidence, box.h)
        /\ \A l \in ToSet(checks) \cup ToSet(evidence) : l.v # Plain("fail")
        /\ \A l \in ToSet(Section(record, "## Authority Used").entries) :
              /\ l.v.s[1] \in Operations
              /\ PlanAuthority(story, PlanTaskMode(story))[l.v.s[1]]

\* A result without a plan issue, a gap, a failure or a part is proven.
LEMMA ResultPasses ==
    ASSUME NEW story \in DocType, NEW acceptance \in DocType, NEW record \in DocType,
           NEW r, r = EvaluateResult(story, acceptance, TRUE, record),
           r.planIssues = <<>>, ~r.incomplete, r.status \notin {"fail", "partial"}
    PROVE  Proven(story, acceptance, record)
<1> DEFINE plan == ResolvePlan(story)
        criteria == CriteriaOf(acceptance)
        checkSection == Section(record, "## Checks")
        evidenceSection == Section(record, "## Evidence")
        checks == checkSection.entries
        evidence == evidenceSection.entries
        used == Section(record, "## Authority Used").entries
        risks == Section(record, "## Residual Risks").entries
        cc == CountedChecks(checks)
        ce == CountedEvidence(evidence, ToSet(criteria))
        d1 == CheckDefects(checks)
        d2 == EvidenceDefects(evidence, ToSet(criteria))
        d3 == AuthorityDefects(used)
        d4 == RiskDefects(risks)
        read == d1 \o d2 \o d3 \o d4
        conflicts == Conflicts(used, plan.authority)
        failed == \/ Failed(checks, cc)
                  \/ Failed(evidence, ce)
                  \/ conflicts # <<>>
        proven == /\ \A layer \in ToSet(plan.requiredChecks) : Passed(checks, cc, layer)
                  /\ \A id \in ToSet(criteria) : Passed(evidence, ce, id)
        silent == ~failed /\ ~proven /\ risks = <<>>
        stops == checkSection.count # 1 \/ evidenceSection.count # 1 \/ criteria = <<>>
        issues == PlanIssues(story)
        given == read # <<>> \/ silent
        said == IF failed THEN "fail" ELSE IF proven THEN "pass" ELSE "partial"
        whole == [plan |-> plan, planIssues |-> issues, incomplete |-> given, status |-> said]
<1>1. EvaluateResult(story, acceptance, TRUE, record)
        = IF stops THEN Stopped(plan, issues) ELSE whole
  BY DEF EvaluateResult, CountedChecks, CountedEvidence
<1> HIDE DEF read, silent, failed, proven, stops, plan, issues
<1>2. Stopped(plan, issues).incomplete
  BY DEF Stopped
<1>3. whole.planIssues = issues /\ whole.incomplete = given /\ whole.status = said
  <2> HIDE DEF given, said
  <2> QED OBVIOUS
<1> HIDE DEF whole
<1>0. issues = <<>> /\ ~given /\ said \notin {"fail", "partial"}
  <2>1. r = whole
    BY <1>1, <1>2
  <2> HIDE DEF given, said
  <2> QED BY <1>3, <2>1
<1>4. PlanIssues(story) = <<>> /\ read = <<>> /\ ~failed /\ proven
  <2>1. PlanIssues(story) = <<>> /\ read = <<>>
    BY <1>0 DEF issues
  <2>2. ~failed
    BY <1>0
  <2>3. proven
    BY <1>0, <2>2
  <2> QED BY <2>1, <2>2, <2>3
<1>5. /\ checks \in Seq(LineType) /\ evidence \in Seq(LineType)
      /\ used \in Seq(LineType) /\ risks \in Seq(LineType)
  BY SectionIs
<1>6. IsSeq(d1) /\ IsSeq(d2) /\ IsSeq(d3) /\ IsSeq(d4)
  <2> HIDE DEF checks, evidence, used, risks, criteria
  <2> QED BY <1>5, CheckDefectsSeq, EvidenceDefectsSeq, AuthorityDefectsSeq, RiskDefectsSeq
<1>7. d1 = <<>> /\ d2 = <<>> /\ d3 = <<>>
  <2>1. NothingIn(d1, d2, d3, d4)
    BY <1>4 DEF NothingIn, read
  <2> HIDE DEF d1, d2, d3, d4
  <2> QED BY ONLY <1>6, <2>1, Concat4
<1>8. \A i \in 1..Len(checks) : i \in cc /\ Detailed(checks[i])
  <2> HIDE DEF checks
  <2> QED BY <1>5, <1>7, CheckDefectsSeq
<1>9. \A i \in 1..Len(evidence) : i \in ce /\ Detailed(evidence[i])
  <2> HIDE DEF evidence, criteria
  <2> QED BY <1>5, <1>7, EvidenceDefectsSeq
<1>10. \A i \in 1..Len(used) : NamesOperation(used[i])
  <2> HIDE DEF used
  <2> QED BY <1>5, <1>7, AuthorityDefectsSeq
<1>11. cc \subseteq 1..Len(checks) /\ ce \subseteq 1..Len(evidence)
  BY CountedWithin DEF CountedChecks, CountedEvidence
<1>12. \A layer \in Requires(story) : PassingLine(checks, layer)
  <2> TAKE layer \in Requires(story)
  <2>1. Passed(checks, cc, layer)
    BY <1>4 DEF proven, Requires, plan
  <2> HIDE DEF checks, cc
  <2> QED BY <1>5, <1>8, <1>11, <2>1, PassedIs
<1>13. \A box \in ToSet(ContentLines(acceptance)) :
          box.t = "box" /\ box.h \in AcceptanceIds => PassingLine(evidence, box.h)
  <2> TAKE box \in ToSet(ContentLines(acceptance))
  <2> HAVE box.t = "box" /\ box.h \in AcceptanceIds
  <2>1. box.h \in ToSet(criteria)
    BY CriteriaHas
  <2>2. Passed(evidence, ce, box.h)
    BY <1>4, <2>1 DEF proven
  <2> HIDE DEF evidence, ce
  <2> QED BY <1>5, <1>9, <1>11, <2>2, PassedIs
<1>14. ~Failed(checks, cc) /\ ~Failed(evidence, ce) /\ conflicts = <<>>
  BY <1>4 DEF failed
<1>15. \A l \in ToSet(checks) \cup ToSet(evidence) : l.v # Plain("fail")
  <2> HIDE DEF checks, evidence, cc, ce
  <2>1. \A l \in ToSet(checks) : l.v # Plain("fail")
    BY <1>5, <1>8, <1>14, NoneFailed
  <2>2. \A l \in ToSet(evidence) : l.v # Plain("fail")
    BY <1>5, <1>9, <1>14, NoneFailed
  <2> QED BY <2>1, <2>2
<1>16. \A l \in ToSet(used) : /\ l.v.s[1] \in Operations
                              /\ PlanAuthority(story, PlanTaskMode(story))[l.v.s[1]]
  <2> DEFINE c == {i \in 1..Len(used) : NamesOperation(used[i]) /\ ~plan.authority[used[i].v.s[1]]}
  <2>1. conflicts = Picked(used, c)
    BY DEF Conflicts, Where
  <2>2. \A i \in 1..Len(used) : i \notin c
    <3> HIDE DEF used, c, conflicts
    <3> QED BY <1>5, <1>14, <2>1, PickedNone
  <2>3. \A i \in 1..Len(used) : plan.authority[used[i].v.s[1]]
    BY <1>10, <2>2
  <2>4. plan.authority = PlanAuthority(story, PlanTaskMode(story))
    BY DEF ResolvePlan, plan
  <2> HIDE DEF used, c
  <2>5. \A i \in 1..Len(used) : used[i].v.s[1] \in Operations
    <3> TAKE i \in 1..Len(used)
    <3>1. OneOf(used[i].v, Operations)
      BY <1>10 DEF NamesOperation, IsWord
    <3> DEFINE v == used[i].v
    <3> HIDE DEF v, Operations
    <3>2. v.s[1] \in Operations
      BY <3>1, OneOfWord DEF v
    <3> QED BY <3>2 DEF v
  <2> TAKE l \in ToSet(used)
  <2>6. PICK i \in 1..Len(used) : l = used[i]
    BY <1>5, Elements
  <2> QED BY <2>3, <2>4, <2>5, <2>6
<1> QED BY <1>4, <1>12, <1>13, <1>15, <1>16 DEF Proven
=============================================================================
