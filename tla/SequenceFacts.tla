---------------------------- MODULE SequenceFacts ----------------------------
(***************************************************************************)
(* What is selected from a sequence and what a sequence adds up to, as it   *)
(* grows by one element: the lemmas the proofs about histories, attempts    *)
(* and stock rest on.  Each is an induction over the positions of the      *)
(* sequence, made first-order: a set of numbers with 0 and every successor *)
(* is all of Nat (NatInd), because a number it lacked would be a least one *)
(* it lacks (Least), so that no step instantiates an operator.             *)
(***************************************************************************)
EXTENDS SequenceFolds, Integers, FiniteSetTheorems, WellFoundedInduction, TLAPS

\* A set of numbers has a least one.
LEMMA Least ==
  ASSUME NEW T \in SUBSET Nat, T # {}
  PROVE  \E x \in T : \A y \in T : x <= y
<1> DEFINE R == OpToRel(<, Nat)
<1>1. IsWellFoundedOn(R, Nat)
  BY NatLessThanWellFounded
<1>2. R = {ss \in Nat \X Nat : ss[1] < ss[2]}
  BY DEF OpToRel
<1> HIDE DEF R
<1>3. PICK x \in T : \A y \in T : ~ (<<y, x>> \in R)
  BY <1>1, WFMin
<1>4. ASSUME NEW y \in T PROVE x <= y
  <2>1. ~(<<y,x>> \in R)
    BY <1>3
  <2>2. x \in Nat /\ y \in Nat
   OBVIOUS
  <2>3. ~(y < x)
   BY <1>2, <2>1, <2>2
  <2> QED BY <2>2, <2>3
<1> QED BY <1>4

\* A set of numbers that holds 0 and every successor holds them all.
LEMMA NatInd ==
  ASSUME NEW S, 0 \in S, \A n \in Nat : n \in S => n + 1 \in S
  PROVE  Nat \subseteq S
<1> DEFINE T == Nat \ S
<1> SUFFICES ASSUME T # {} PROVE FALSE
  OBVIOUS
<1>1. PICK x \in T : \A y \in T : x <= y
  BY Least
<1>2. x # 0 /\ x \in Nat
  BY <1>1
<1>3. x - 1 \in Nat /\ x - 1 \in S
  BY <1>1, <1>2
<1> QED BY <1>1, <1>3

\* f is the recursion of Selected up to position n.
Picks(f, s, T, n) ==
  f = [i \in 0..n |-> IF i = 0 THEN <<>>
                      ELSE IF s[i] \in T THEN Append(f[i - 1], s[i])
                      ELSE f[i - 1]]

\* The recursion of Selected has a solution up to every position ...
LEMMA PicksExist ==
  ASSUME NEW s, NEW T, NEW n \in Nat
  PROVE  \E f : Picks(f, s, T, n)
<1> DEFINE N == {k \in Nat : \E f : Picks(f, s, T, k)}
<1>1. 0 \in N
  <2>1. Picks([i \in 0..0 |-> <<>>], s, T, 0)
    BY DEF Picks
  <2> QED
    BY <2>1
<1>2. ASSUME NEW k \in Nat, k \in N PROVE k + 1 \in N
  <2>1. PICK f : Picks(f, s, T, k)
    BY <1>2
  <2> DEFINE e == IF s[k + 1] \in T THEN Append(f[k], s[k + 1]) ELSE f[k]
             g == [i \in 0..(k + 1) |-> IF i = k + 1 THEN e ELSE f[i]]
  <2>2. \A i \in 0..k : f[i] = IF i = 0 THEN <<>>
                      ELSE IF s[i] \in T THEN Append(f[i - 1], s[i])
                      ELSE f[i - 1]
    BY <2>1 DEF Picks
  <2>3. \A i \in 0..k : g[i] = f[i]
    OBVIOUS
  <2>4. g[k + 1] = e
    OBVIOUS
  <2>6. ASSUME NEW i \in 0..(k + 1)
        PROVE  g[i] = IF i = 0 THEN <<>>
                      ELSE IF s[i] \in T THEN Append(g[i - 1], s[i])
                      ELSE g[i - 1]
    <3> HIDE DEF g
    <3>1. CASE i = k + 1
      <4>1. g[i - 1] = f[k] /\ i # 0
        BY <3>1, <2>3
      <4> QED
        BY <3>1, <4>1, <2>4
    <3>2. CASE i # k + 1
      <4>1. i \in 0..k /\ (i # 0 => i - 1 \in 0..k)
        BY <3>2
      <4> QED
        BY <4>1, <2>2, <2>3
    <3> QED BY <3>1, <3>2
  <2>5. Picks(g, s, T, k + 1)
    <3> DEFINE h == [i \in 0..(k + 1) |-> IF i = 0 THEN <<>>
                      ELSE IF s[i] \in T THEN Append(g[i - 1], s[i])
                      ELSE g[i - 1]]
    <3>1. g = [i \in 0..(k + 1) |-> g[i]]
      OBVIOUS
    <3> HIDE DEF g
    <3>2. \A i \in 0..(k + 1) : g[i] = h[i]
      BY <2>6
    <3>3. g = h
      BY <3>1, <3>2
    <3> QED
      BY <3>3 DEF Picks
  <2> QED
    BY <2>5
<1> HIDE DEF N
<1>3. Nat \subseteq N
  BY <1>1, <1>2, NatInd
<1> QED
  BY <1>3 DEF N

\* ... and no other, which depends on the elements up to there alone.
LEMMA PicksUnique ==
  ASSUME NEW s, NEW t, NEW T, NEW f, NEW g, NEW m \in Nat, NEW n \in Nat, n <= m,
         Picks(f, s, T, n), Picks(g, t, T, m), \A i \in 1..n : s[i] = t[i]
  PROVE  f[n] = g[n]
<1> DEFINE N == {k \in Nat : k <= n => f[k] = g[k]}
<1>0. \A i \in 0..n : f[i] = IF i = 0 THEN <<>>
                      ELSE IF s[i] \in T THEN Append(f[i - 1], s[i])
                      ELSE f[i - 1]
  BY DEF Picks
<1>00. \A i \in 0..m : g[i] = IF i = 0 THEN <<>>
                      ELSE IF t[i] \in T THEN Append(g[i - 1], t[i])
                      ELSE g[i - 1]
  BY DEF Picks
<1>1. 0 \in N
  BY <1>0, <1>00
<1>2. ASSUME NEW k \in Nat, k \in N PROVE k + 1 \in N
  <2> SUFFICES ASSUME k + 1 <= n PROVE f[k + 1] = g[k + 1]
    OBVIOUS
  <2>1. f[k] = g[k] /\ s[k + 1] = t[k + 1]
    BY <1>2
  <2>2. f[k + 1] = IF s[k + 1] \in T THEN Append(f[k], s[k + 1]) ELSE f[k]
    BY <1>0
  <2>3. g[k + 1] = IF t[k + 1] \in T THEN Append(g[k], t[k + 1]) ELSE g[k]
    BY <1>00
  <2> QED
    BY <2>1, <2>2, <2>3
<1> HIDE DEF N
<1>3. Nat \subseteq N
  BY <1>1, <1>2, NatInd
<1> QED
  BY <1>3 DEF N

\* What is selected is where that solution ends.
LEMMA SelectedPicks ==
  ASSUME NEW S, NEW s \in Seq(S), NEW T
  PROVE  \E f : Picks(f, s, T, Len(s)) /\ Selected(s, T) = f[Len(s)]
<1>0. Len(s) \in Nat
  OBVIOUS
<1>1. \E f : Picks(f, s, T, Len(s))
  BY <1>0, PicksExist
<1> QED
  BY <1>1 DEF Selected, Picks

\* What is selected is a sequence of elements of both sets.
LEMMA SelectedType ==
  ASSUME NEW S, NEW s \in Seq(S), NEW T
  PROVE  Selected(s, T) \in Seq(S \cap T)
<1>1. PICK f : Picks(f, s, T, Len(s)) /\ Selected(s, T) = f[Len(s)]
  BY SelectedPicks
<1> DEFINE N == {k \in Nat : k <= Len(s) => f[k] \in Seq(S \cap T)}
<1>2. \A i \in 0..Len(s) : f[i] = IF i = 0 THEN <<>>
                                 ELSE IF s[i] \in T THEN Append(f[i - 1], s[i])
                                 ELSE f[i - 1]
  BY <1>1 DEF Picks
<1>3. 0 \in N
  <2>1. f[0] = <<>> /\ <<>> \in Seq(S \cap T)
    BY <1>2
  <2> QED
    BY <2>1
<1>4. ASSUME NEW k \in Nat, k \in N PROVE k + 1 \in N
  <2> SUFFICES ASSUME k + 1 <= Len(s) PROVE f[k + 1] \in Seq(S \cap T)
    OBVIOUS
  <2>1. f[k] \in Seq(S \cap T) /\ s[k + 1] \in S
    BY <1>4
  <2>2. f[k + 1] = IF s[k + 1] \in T THEN Append(f[k], s[k + 1]) ELSE f[k]
    BY <1>2
  <2> QED
    BY <2>1, <2>2
<1> HIDE DEF N
<1>5. Nat \subseteq N
  BY <1>3, <1>4, NatInd
<1> QED
  BY <1>1, <1>5 DEF N

\* Nothing is selected from nothing.
LEMMA SelectedEmpty ==
  ASSUME NEW T
  PROVE  Selected(<<>>, T) = <<>>
<1>1. PICK f : Picks(f, <<>>, T, 0) /\ Selected(<<>>, T) = f[0]
  <2>1. <<>> \in Seq({}) /\ Len(<<>>) = 0
    OBVIOUS
  <2>2. \E f : Picks(f, <<>>, T, Len(<<>>)) /\ Selected(<<>>, T) = f[Len(<<>>)]
    BY <2>1, SelectedPicks
  <2> QED
    BY <2>1, <2>2
<1> QED
  BY <1>1 DEF Picks

\* One more element is selected if it belongs to the set.
LEMMA SelectedAppend ==
  ASSUME NEW S, NEW s \in Seq(S), NEW e \in S, NEW T
  PROVE  Selected(Append(s, e), T)
           = IF e \in T THEN Append(Selected(s, T), e) ELSE Selected(s, T)
<1> DEFINE t == Append(s, e)
           n == Len(s)
<1>1. /\ t \in Seq(S) /\ Len(t) = n + 1 /\ n \in Nat
      /\ t[n + 1] = e
      /\ \A i \in 1..n : s[i] = t[i]
  OBVIOUS
<1> HIDE DEF t
<1>2. PICK f : Picks(f, s, T, n) /\ Selected(s, T) = f[n]
  BY SelectedPicks
<1>3. PICK g : Picks(g, t, T, n + 1) /\ Selected(t, T) = g[n + 1]
  BY <1>1, SelectedPicks
<1>4. f[n] = g[n]
  BY <1>1, <1>2, <1>3, PicksUnique
<1>5. g[n + 1] = IF t[n + 1] \in T THEN Append(g[n], t[n + 1]) ELSE g[n]
  <2> HIDE DEF n
  <2>1. n + 1 \in 0..(n + 1) /\ n + 1 # 0 /\ (n + 1) - 1 = n
    BY <1>1
  <2> QED BY <1>3, <2>1 DEF Picks
<1> QED
  BY <1>1, <1>2, <1>3, <1>4, <1>5 DEF t

\* When every element belongs to the set, all of the sequence is selected.
LEMMA SelectedAll ==
  ASSUME NEW S, NEW s \in Seq(S), NEW T, \A i \in 1..Len(s) : s[i] \in T
  PROVE  Selected(s, T) = s
<1>1. PICK f : Picks(f, s, T, Len(s)) /\ Selected(s, T) = f[Len(s)]
  BY SelectedPicks
<1> DEFINE first(k) == [i \in 1..k |-> s[i]]
           N == {k \in Nat : k <= Len(s) => f[k] = first(k)}
<1>2. \A i \in 0..Len(s) : f[i] = IF i = 0 THEN <<>>
                                 ELSE IF s[i] \in T THEN Append(f[i - 1], s[i])
                                 ELSE f[i - 1]
  BY <1>1 DEF Picks
<1>3. 0 \in N
  <2>1. f[0] = <<>> /\ first(0) = <<>>
    BY <1>2
  <2> QED
    BY <2>1
<1>4. ASSUME NEW k \in Nat, k \in N PROVE k + 1 \in N
  <2> SUFFICES ASSUME k + 1 <= Len(s) PROVE f[k + 1] = first(k + 1)
    OBVIOUS
  <2>1. f[k] = first(k) /\ s[k + 1] \in T
    BY <1>4
  <2>2. f[k + 1] = Append(f[k], s[k + 1])
    <3>1. k + 1 \in 0..Len(s) /\ k + 1 # 0 /\ (k + 1) - 1 = k
      OBVIOUS
    <3> HIDE DEF first
    <3> QED
      BY <1>2, <2>1, <3>1
  <2>3. first(k) \in Seq(S) /\ Len(first(k)) = k /\ s[k + 1] \in S
    OBVIOUS
  <2>4. Append(first(k), s[k + 1]) = first(k + 1)
    BY <2>3
  <2> QED
    BY <2>1, <2>2, <2>4
<1> HIDE DEF N
<1>5. Nat \subseteq N
  BY <1>3, <1>4, NatInd
<1>6. first(Len(s)) = s
  OBVIOUS
<1> QED
  BY <1>1, <1>5, <1>6 DEF N

\* As many are selected as there are positions that hold one.
LEMMA SelectedCount ==
  ASSUME NEW S, NEW s \in Seq(S), NEW T
  PROVE  Cardinality({i \in 1..Len(s) : s[i] \in T}) = Len(Selected(s, T))
<1>1. PICK f : Picks(f, s, T, Len(s)) /\ Selected(s, T) = f[Len(s)]
  BY SelectedPicks
<1> DEFINE P(k) == {i \in 1..k : s[i] \in T}
           N == {k \in Nat : k <= Len(s) =>
                   /\ f[k] \in Seq(T) /\ IsFiniteSet(P(k)) /\ Cardinality(P(k)) = Len(f[k])}
<1>2. \A i \in 0..Len(s) : f[i] = IF i = 0 THEN <<>>
                                 ELSE IF s[i] \in T THEN Append(f[i - 1], s[i])
                                 ELSE f[i - 1]
  BY <1>1 DEF Picks
<1>3. 0 \in N
  <2>1. f[0] = <<>> /\ P(0) = {}
    BY <1>2
  <2>2. IsFiniteSet(P(0)) /\ Cardinality(P(0)) = 0
    BY <2>1, FS_EmptySet
  <2>3. f[0] \in Seq(T) /\ Len(f[0]) = 0
    BY <2>1
  <2> QED
    BY <2>2, <2>3
<1>4. ASSUME NEW k \in Nat, k \in N PROVE k + 1 \in N
  <2> SUFFICES ASSUME k + 1 <= Len(s)
               PROVE  /\ f[k + 1] \in Seq(T) /\ IsFiniteSet(P(k + 1))
                      /\ Cardinality(P(k + 1)) = Len(f[k + 1])
    OBVIOUS
  <2>1. f[k] \in Seq(T) /\ IsFiniteSet(P(k)) /\ Cardinality(P(k)) = Len(f[k])
    BY <1>4
  <2>2. f[k + 1] = IF s[k + 1] \in T THEN Append(f[k], s[k + 1]) ELSE f[k]
    <3>1. k + 1 \in 0..Len(s) /\ k + 1 # 0 /\ (k + 1) - 1 = k
      OBVIOUS
    <3> HIDE DEF P
    <3> QED
      BY <1>2, <3>1
  <2>3. P(k + 1) = IF s[k + 1] \in T THEN P(k) \cup {k + 1} ELSE P(k)
    OBVIOUS
  <2>4. k + 1 \notin P(k)
    OBVIOUS
  <2> HIDE DEF P
  <2>5. CASE s[k + 1] \in T
    <3>1. IsFiniteSet(P(k + 1)) /\ Cardinality(P(k + 1)) = Cardinality(P(k)) + 1
      <4>1. PICK A, B : A = P(k) /\ B = P(k + 1)
        OBVIOUS
      <4>2. IsFiniteSet(A) /\ k + 1 \notin A /\ B = A \cup {k + 1}
        BY <2>1, <2>3, <2>4, <2>5, <4>1
      <4>3. IsFiniteSet(B) /\ Cardinality(B) = Cardinality(A) + 1
        BY <4>2, FS_AddElement
      <4> QED
        BY <4>1, <4>3
    <3>2. f[k + 1] \in Seq(T) /\ Len(f[k + 1]) = Len(f[k]) + 1
      BY <2>1, <2>2, <2>5
    <3> QED
      BY <2>1, <3>1, <3>2
  <2>6. CASE s[k + 1] \notin T
    BY <2>1, <2>2, <2>3, <2>6
  <2> QED
    BY <2>5, <2>6
<1> HIDE DEF N
<1>5. Nat \subseteq N
  BY <1>3, <1>4, NatInd
<1>6. Len(s) \in N
  BY <1>5
<1> QED
  BY <1>1, <1>6 DEF N

\* Where nothing is selected there is nothing of the kind.
LEMMA SelectedNone ==
  ASSUME NEW S, NEW s \in Seq(S), NEW T, Selected(s, T) = <<>>, NEW i \in 1..Len(s)
  PROVE  s[i] \notin T
<1> DEFINE H == {k \in 1..Len(s) : s[k] \in T}
<1>1. Cardinality(H) = 0
  <2>1. PICK t : t = Selected(s, T) /\ Len(t) = 0
    OBVIOUS
  <2> QED
    BY <2>1, SelectedCount
<1>2. IsFiniteSet(H)
  <2>1. Len(s) \in Nat
    OBVIOUS
  <2>2. IsFiniteSet(1..Len(s)) /\ H \subseteq 1..Len(s)
    BY <2>1, FS_Interval
  <2> HIDE DEF H
  <2> QED
    BY <2>2, FS_Subset
<1>3. H = {}
  <2> HIDE DEF H
  <2> QED
    BY <1>1, <1>2, FS_EmptySet
<1> QED
  BY <1>3

\* No more is selected than there is.
LEMMA SelectedShorter ==
  ASSUME NEW S, NEW s \in Seq(S), NEW T
  PROVE  Len(Selected(s, T)) \in Nat /\ Len(Selected(s, T)) <= Len(s)
<1> DEFINE H == {i \in 1..Len(s) : s[i] \in T}
<1>1. Len(s) \in Nat /\ H \subseteq 1..Len(s)
  OBVIOUS
<1> HIDE DEF H
<1>2. IsFiniteSet(1..Len(s)) /\ Cardinality(1..Len(s)) = Len(s)
  BY <1>1, FS_Interval
<1>3. Cardinality(H) \in Nat /\ Cardinality(H) <= Len(s)
  <2>1. IsFiniteSet(H) /\ Cardinality(H) <= Cardinality(1..Len(s))
    BY <1>1, <1>2, FS_Subset
  <2> QED
    BY <1>2, <2>1, FS_CardinalityType
<1> QED
  BY <1>3, SelectedCount DEF H

-----------------------------------------------------------------------------
(* Sums *)

\* f is the recursion of Total up to position n.
Sums(f, s, n) == f = [i \in 0..n |-> IF i = 0 THEN 0 ELSE f[i - 1] + s[i]]

\* The recursion of Total has a solution up to every position ...
LEMMA SumsExist ==
  ASSUME NEW s, NEW n \in Nat
  PROVE  \E f : Sums(f, s, n)
<1> DEFINE N == {k \in Nat : \E f : Sums(f, s, k)}
<1>1. 0 \in N
  <2>1. Sums([i \in 0..0 |-> 0], s, 0)
    BY DEF Sums
  <2> QED
    BY <2>1
<1>2. ASSUME NEW k \in Nat, k \in N PROVE k + 1 \in N
  <2>1. PICK f : Sums(f, s, k)
    BY <1>2
  <2> DEFINE g == [i \in 0..(k + 1) |-> IF i = k + 1 THEN f[k] + s[k + 1] ELSE f[i]]
  <2>2. \A i \in 0..k : f[i] = IF i = 0 THEN 0 ELSE f[i - 1] + s[i]
    BY <2>1 DEF Sums
  <2>3. (\A i \in 0..k : g[i] = f[i]) /\ g[k + 1] = f[k] + s[k + 1]
    OBVIOUS
  <2>4. g = [i \in 0..(k + 1) |-> g[i]]
    OBVIOUS
  <2> HIDE DEF g
  <2>5. ASSUME NEW i \in 0..(k + 1)
        PROVE  g[i] = IF i = 0 THEN 0 ELSE g[i - 1] + s[i]
    <3>1. CASE i = k + 1
      BY <3>1, <2>3
    <3>2. CASE i # k + 1
      <4>1. i \in 0..k /\ (i # 0 => i - 1 \in 0..k)
        BY <3>2
      <4> QED
        BY <4>1, <2>2, <2>3
    <3> QED
      BY <3>1, <3>2
  <2>6. Sums(g, s, k + 1)
    BY <2>4, <2>5 DEF Sums
  <2> QED
    BY <2>6
<1> HIDE DEF N
<1>3. Nat \subseteq N
  BY <1>1, <1>2, NatInd
<1> QED
  BY <1>3 DEF N

\* ... and no other, which depends on the elements up to there alone.
LEMMA SumsUnique ==
  ASSUME NEW s, NEW t, NEW f, NEW g, NEW m \in Nat, NEW n \in Nat, n <= m,
         Sums(f, s, n), Sums(g, t, m), \A i \in 1..n : s[i] = t[i]
  PROVE  f[n] = g[n]
<1> DEFINE N == {k \in Nat : k <= n => f[k] = g[k]}
<1>1. \A i \in 0..n : f[i] = IF i = 0 THEN 0 ELSE f[i - 1] + s[i]
  BY DEF Sums
<1>2. \A i \in 0..m : g[i] = IF i = 0 THEN 0 ELSE g[i - 1] + t[i]
  BY DEF Sums
<1>3. 0 \in N
  BY <1>1, <1>2
<1>4. ASSUME NEW k \in Nat, k \in N PROVE k + 1 \in N
  <2> SUFFICES ASSUME k + 1 <= n PROVE f[k + 1] = g[k + 1]
    OBVIOUS
  <2>1. f[k] = g[k] /\ s[k + 1] = t[k + 1]
    BY <1>4
  <2>2. f[k + 1] = f[k] + s[k + 1]
    BY <1>1
  <2>3. g[k + 1] = g[k] + t[k + 1]
    BY <1>2
  <2> QED
    BY <2>1, <2>2, <2>3
<1> HIDE DEF N
<1>5. Nat \subseteq N
  BY <1>3, <1>4, NatInd
<1> QED
  BY <1>5 DEF N

\* A total is where that solution ends.
LEMMA TotalSums ==
  ASSUME NEW s, Len(s) \in Nat
  PROVE  \E f : Sums(f, s, Len(s)) /\ Total(s) = f[Len(s)]
<1>1. \E f : Sums(f, s, Len(s))
  BY SumsExist
<1> QED
  BY <1>1 DEF Total, Sums

\* Nothing adds up to 0.
LEMMA TotalEmpty == Total(<<>>) = 0
<1>1. Len(<<>>) = 0
  OBVIOUS
<1>2. \E f : Sums(f, <<>>, Len(<<>>)) /\ Total(<<>>) = f[Len(<<>>)]
  BY <1>1, TotalSums
<1> QED
  BY <1>1, <1>2 DEF Sums

\* One more element is added to the total.
LEMMA TotalAppend ==
  ASSUME NEW S, NEW s \in Seq(S), NEW e \in S
  PROVE  Total(Append(s, e)) = Total(s) + e
<1> DEFINE t == Append(s, e)
           n == Len(s)
<1>1. /\ Len(t) = n + 1 /\ n \in Nat
      /\ t[n + 1] = e
      /\ \A i \in 1..n : s[i] = t[i]
  OBVIOUS
<1> HIDE DEF t
<1>2. PICK f : Sums(f, s, n) /\ Total(s) = f[n]
  BY <1>1, TotalSums
<1>3. PICK g : Sums(g, t, n + 1) /\ Total(t) = g[n + 1]
  BY <1>1, TotalSums
<1>4. f[n] = g[n]
  BY <1>1, <1>2, <1>3, SumsUnique
<1>5. g[n + 1] = g[n] + t[n + 1]
  <2> HIDE DEF n
  <2>1. n + 1 \in 0..(n + 1) /\ n + 1 # 0 /\ (n + 1) - 1 = n
    BY <1>1
  <2> QED
    BY <1>3, <2>1 DEF Sums
<1> QED
  BY <1>1, <1>2, <1>3, <1>4, <1>5 DEF t

\* Natural numbers add up to one.
LEMMA TotalNat ==
  ASSUME NEW s \in Seq(Nat)
  PROVE  Total(s) \in Nat
<1>1. PICK f : Sums(f, s, Len(s)) /\ Total(s) = f[Len(s)]
  BY TotalSums
<1> DEFINE N == {k \in Nat : k <= Len(s) => f[k] \in Nat}
<1>2. \A i \in 0..Len(s) : f[i] = IF i = 0 THEN 0 ELSE f[i - 1] + s[i]
  BY <1>1 DEF Sums
<1>3. 0 \in N
  BY <1>2
<1>4. ASSUME NEW k \in Nat, k \in N PROVE k + 1 \in N
  BY <1>2, <1>4
<1> HIDE DEF N
<1>5. Nat \subseteq N
  BY <1>3, <1>4, NatInd
<1> QED
  BY <1>1, <1>5 DEF N

-----------------------------------------------------------------------------
(* Short sequences *)

\* Two sequences with the same elements in the same places are one.
LEMMA SameSequence ==
  ASSUME NEW S, NEW s \in Seq(S), NEW t \in Seq(S),
         Len(s) = Len(t), \A i \in 1..Len(s) : s[i] = t[i]
  PROVE  s = t
<1>1. s = [i \in 1..Len(s) |-> s[i]] /\ t = [i \in 1..Len(t) |-> t[i]]
  OBVIOUS
<1> QED
  BY <1>1

\* Sequences of one and of two elements joined with one more.
LEMMA JoinedPair ==
  ASSUME NEW x, NEW y
  PROVE  <<x>> \o <<y>> = <<x, y>>
<1>1. PICK S, u, v, z : S = {x, y} /\ u = <<x>> /\ v = <<y>> /\ z = <<x, y>>
  OBVIOUS
<1>2. PICK w : w = u \o v
  OBVIOUS
<1>3. /\ u \in Seq(S) /\ v \in Seq(S) /\ z \in Seq(S)
      /\ Len(u) = 1 /\ Len(v) = 1 /\ Len(z) = 2
      /\ u[1] = x /\ v[1] = y /\ z[1] = x /\ z[2] = y
  BY <1>1
<1>4. w \in Seq(S) /\ Len(w) = 2 /\ w[1] = u[1] /\ w[2] = v[1]
  BY <1>1, <1>2, <1>3
<1>5. \A i \in 1..Len(w) : i = 1 \/ i = 2
  BY <1>4
<1>6. Len(w) = Len(z) /\ \A i \in 1..Len(w) : w[i] = z[i]
  BY <1>3, <1>4, <1>5
<1>7. w = z
  BY <1>3, <1>4, <1>6, SameSequence
<1> QED
  BY <1>1, <1>2, <1>7

LEMMA JoinedTriple ==
  ASSUME NEW x, NEW y, NEW c
  PROVE  <<x, y>> \o <<c>> = <<x, y, c>>
<1>1. PICK S, u, v, z : S = {x, y, c} /\ u = <<x, y>> /\ v = <<c>> /\ z = <<x, y, c>>
  OBVIOUS
<1>2. PICK w : w = u \o v
  OBVIOUS
<1>3. /\ u \in Seq(S) /\ v \in Seq(S) /\ z \in Seq(S)
      /\ Len(u) = 2 /\ Len(v) = 1 /\ Len(z) = 3
      /\ u[1] = x /\ u[2] = y /\ v[1] = c /\ z[1] = x /\ z[2] = y /\ z[3] = c
  BY <1>1
<1>4. w \in Seq(S) /\ Len(w) = 3 /\ w[1] = u[1] /\ w[2] = u[2] /\ w[3] = v[1]
  BY <1>1, <1>2, <1>3
<1>5. \A i \in 1..Len(w) : i = 1 \/ i = 2 \/ i = 3
  BY <1>4
<1>6. Len(w) = Len(z) /\ \A i \in 1..Len(w) : w[i] = z[i]
  BY <1>3, <1>4, <1>5
<1>7. w = z
  BY <1>3, <1>4, <1>6, SameSequence
<1> QED
  BY <1>1, <1>2, <1>7

\* A sequence that is not empty is its front with its last element ...
LEMMA FrontAndLast ==
  ASSUME NEW S, NEW s \in Seq(S), NEW n, n = Len(s), n > 0, NEW f, f = SubSeq(s, 1, n - 1)
  PROVE  /\ f \in Seq(S) /\ Len(f) = n - 1 /\ s[n] \in S /\ n \in Nat
         /\ s = Append(f, s[n])
         /\ \A i \in 1..(n - 1) : f[i] = s[i]
<1>1. n \in Nat /\ n \in 1..n /\ s[n] \in S
  OBVIOUS
<1>2. /\ f \in Seq(S) /\ Len(f) = n - 1
      /\ \A i \in 1..(n - 1) : f[i] = s[i]
  BY <1>1
<1>3. PICK t : t = Append(f, s[n])
  OBVIOUS
<1>4. /\ t \in Seq(S) /\ Len(t) = n /\ t[n] = s[n]
      /\ \A i \in 1..(n - 1) : t[i] = f[i]
  BY <1>1, <1>2, <1>3
<1>5. \A i \in 1..Len(s) : s[i] = t[i]
  BY <1>1, <1>2, <1>4
<1> QED
  BY <1>1, <1>2, <1>3, <1>4, <1>5, SameSequence

\* ... and, with another element in place of that one, the same front with the other.
LEMMA LastReplaced ==
  ASSUME NEW S, NEW s \in Seq(S), NEW n, n = Len(s), n > 0, NEW f, f = SubSeq(s, 1, n - 1),
         NEW e \in S, NEW u, u = [s EXCEPT ![n] = e]
  PROVE  u = Append(f, e) /\ u \in Seq(S) /\ Len(u) = n /\ u[n] = e
<1>1. /\ f \in Seq(S) /\ Len(f) = n - 1 /\ n \in Nat
      /\ \A i \in 1..(n - 1) : f[i] = s[i]
  BY FrontAndLast
<1>2. /\ u \in Seq(S) /\ Len(u) = n /\ u[n] = e
      /\ \A i \in 1..(n - 1) : u[i] = s[i]
  BY <1>1
<1>3. PICK t : t = Append(f, e)
  OBVIOUS
<1>4. /\ t \in Seq(S) /\ Len(t) = n /\ t[n] = e
      /\ \A i \in 1..(n - 1) : t[i] = f[i]
  BY <1>1, <1>3
<1>5. \A i \in 1..Len(u) : u[i] = t[i]
  BY <1>1, <1>2, <1>4
<1> QED
  BY <1>2, <1>3, <1>4, <1>5, SameSequence

-----------------------------------------------------------------------------
(* Sequences that are joined *)

\* The operator \o, as one the provers do not look into: they lose themselves in the
\* equations of a lemma that has it.
Joined(s, t) == s \o t

LEMMA JoinedAppend ==
  ASSUME NEW S, NEW s \in Seq(S), NEW t \in Seq(S), NEW e \in S
  PROVE  Joined(s, Append(t, e)) = Append(Joined(s, t), e) /\ Joined(s, t) \in Seq(S)
BY DEF Joined

LEMMA JoinedType ==
  ASSUME NEW S, NEW s \in Seq(S), NEW t \in Seq(S)
  PROVE  Joined(s, t) \in Seq(S)
BY DEF Joined

LEMMA JoinedLength ==
  ASSUME NEW S, NEW s \in Seq(S), NEW t \in Seq(S)
  PROVE  Len(Joined(s, t)) = Len(s) + Len(t)
BY DEF Joined

LEMMA JoinedFirst ==
  ASSUME NEW S, NEW s \in Seq(S), NEW t \in Seq(S), NEW u, u = Joined(s, t)
  PROVE  \A i \in 1..Len(s) : u[i] = s[i]
BY DEF Joined

\* What is selected from two sequences that are joined is joined.
LEMMA SelectedJoinAppend ==
  ASSUME NEW S, NEW s \in Seq(S), NEW t \in Seq(S), NEW e \in S, NEW T,
         Selected(Joined(s, t), T) = Joined(Selected(s, T), Selected(t, T))
  PROVE  Selected(Joined(s, Append(t, e)), T)
           = Joined(Selected(s, T), Selected(Append(t, e), T))
<1>1. PICK a, b, w, U : /\ a = Selected(s, T) /\ b = Selected(t, T)
                        /\ w = Joined(s, t) /\ U = S \cap T
  OBVIOUS
<1>2. a \in Seq(U) /\ b \in Seq(U)
  BY <1>1, SelectedType
<1>3. Joined(s, Append(t, e)) = Append(w, e) /\ w \in Seq(S)
  BY <1>1, JoinedAppend
<1>4. Selected(Append(t, e), T) = IF e \in T THEN Append(b, e) ELSE b
  BY <1>1, SelectedAppend
<1>5. Selected(Append(w, e), T) = IF e \in T THEN Append(Joined(a, b), e) ELSE Joined(a, b)
  <2>1. Selected(Append(w, e), T)
          = IF e \in T THEN Append(Selected(w, T), e) ELSE Selected(w, T)
    BY <1>3, SelectedAppend
  <2> QED
    BY <1>1, <2>1
<1>6. e \in T => Joined(a, Append(b, e)) = Append(Joined(a, b), e)
  <2>1. ASSUME e \in U PROVE Joined(a, Append(b, e)) = Append(Joined(a, b), e)
    BY <1>2, <2>1, JoinedAppend
  <2> QED
    BY <1>1, <2>1
<1> QED
  BY <1>1, <1>3, <1>4, <1>5, <1>6

LEMMA SelectedJoin ==
  ASSUME NEW S, NEW s \in Seq(S), NEW t \in Seq(S), NEW T
  PROVE  Selected(Joined(s, t), T) = Joined(Selected(s, T), Selected(t, T))
<1> DEFINE N == {k \in Nat : \A u \in Seq(S) :
                   Len(u) = k => Selected(Joined(s, u), T)
                                   = Joined(Selected(s, T), Selected(u, T))}
<1>1. PICK a : a = Selected(s, T)
  OBVIOUS
<1>2. a \in Seq(S \cap T)
  BY <1>1, SelectedType
<1>3. 0 \in N
  <2>1. ASSUME NEW u \in Seq(S), Len(u) = 0
        PROVE  Selected(Joined(s, u), T) = Joined(Selected(s, T), Selected(u, T))
    <3>1. u = <<>>
      BY <2>1
    <3>2. Joined(s, u) = s /\ Joined(a, <<>>) = a
      BY <1>2, <3>1 DEF Joined
    <3>3. Selected(u, T) = <<>>
      BY <3>1, SelectedEmpty
    <3> QED
      BY <1>1, <3>2, <3>3
  <2> QED
    BY <2>1
<1>4. ASSUME NEW k \in Nat, k \in N PROVE k + 1 \in N
  <2>1. \A u \in Seq(S) :
          Len(u) = k => Selected(Joined(s, u), T) = Joined(Selected(s, T), Selected(u, T))
    BY <1>4
  <2> HIDE DEF N
  <2>2. ASSUME NEW u \in Seq(S), Len(u) = k + 1
        PROVE  Selected(Joined(s, u), T) = Joined(Selected(s, T), Selected(u, T))
    <3>1. PICK n, f, e : n = Len(u) /\ f = SubSeq(u, 1, n - 1) /\ e = u[n]
      OBVIOUS
    <3>2. n > 0 /\ n - 1 = k
      BY <2>2, <3>1
    <3>3. f \in Seq(S) /\ Len(f) = k /\ e \in S
      BY <3>1, <3>2, FrontAndLast
    <3>4. u = Append(f, e)
      BY <3>1, <3>2, FrontAndLast
    <3>5. Selected(Joined(s, f), T) = Joined(Selected(s, T), Selected(f, T))
      BY <2>1, <3>3
    <3>6. Selected(Joined(s, Append(f, e)), T)
            = Joined(Selected(s, T), Selected(Append(f, e), T))
      BY <3>3, <3>5, SelectedJoinAppend
    <3> QED
      BY <3>4, <3>6
  <2> QED
    BY <2>2 DEF N
<1> HIDE DEF N
<1>5. Nat \subseteq N
  BY <1>3, <1>4, NatInd
<1>6. Len(t) \in N
  BY <1>5
<1> QED
  BY <1>6 DEF N

\* Where there is nothing of the kind, nothing is selected.
LEMMA SelectedOutside ==
  ASSUME NEW S, NEW s \in Seq(S), NEW T, \A i \in 1..Len(s) : s[i] \notin T
  PROVE  Selected(s, T) = <<>>
<1>1. {i \in 1..Len(s) : s[i] \in T} = {}
  OBVIOUS
<1>2. PICK t : t = Selected(s, T)
  OBVIOUS
<1>3. t \in Seq(S \cap T) /\ Len(t) = 0
  BY <1>1, <1>2, SelectedType, SelectedCount, FS_EmptySet
<1> QED
  BY <1>2, <1>3

\* g counts m numbers on from low.
Counts(g, low, m) == g \in Seq(Nat) /\ Len(g) = m /\ \A j \in 1..m : g[j] = low + j

\* A range of positions, selected from all of them.
LEMMA SelectedRange ==
  ASSUME NEW n \in Nat, NEW low \in Nat, NEW high \in Nat, low <= high, high <= n,
         NEW T, \A k \in 1..n : k \in T <=> low < k /\ k <= high,
         NEW s, s = [k \in 1..n |-> k]
  PROVE  Counts(Selected(s, T), low, high - low)
<1>2. s \in Seq(Nat) /\ Len(s) = n /\ \A k \in 1..n : s[k] = k
  OBVIOUS
<1>3. PICK f : Picks(f, s, T, n) /\ Selected(s, T) = f[n]
  BY <1>2, SelectedPicks
<1>4. \A i \in 0..n : f[i] = IF i = 0 THEN <<>>
                             ELSE IF s[i] \in T THEN Append(f[i - 1], s[i])
                             ELSE f[i - 1]
  BY <1>3 DEF Picks
<1> DEFINE size(k) == IF k <= low THEN 0 ELSE IF k <= high THEN k - low ELSE high - low
           N == {k \in Nat : k <= n => Counts(f[k], low, size(k))}
<1>5. 0 \in N
  <2>1. f[0] = <<>> /\ size(0) = 0
    <3>1. 0 \in 0..n
      OBVIOUS
    <3>2. f[0] = <<>>
      BY <1>4, <3>1
    <3> QED
      BY <3>2
  <2>2. PICK g : g = <<>>
    OBVIOUS
  <2>3. g \in Seq(Nat) /\ Len(g) = 0 /\ 1..0 = {}
    BY <2>2
  <2>4. Counts(g, low, 0)
    BY <2>3 DEF Counts
  <2> QED
    BY <2>1, <2>2, <2>4
<1>6. ASSUME NEW k \in Nat, k \in N PROVE k + 1 \in N
  <2> SUFFICES ASSUME k + 1 <= n PROVE Counts(f[k + 1], low, size(k + 1))
    OBVIOUS
  <2>1. PICK g : g = f[k]
    OBVIOUS
  <2>2. Counts(g, low, size(k))
    BY <1>6, <2>1
  <2>3. f[k + 1] = IF k + 1 \in T THEN Append(g, k + 1) ELSE g
    <3>1. k + 1 \in 0..n /\ k + 1 # 0 /\ (k + 1) - 1 = k /\ s[k + 1] = k + 1
      BY <1>2
    <3> QED
      BY <1>4, <2>1, <3>1
  <2>4. k + 1 \in T <=> low < k + 1 /\ k + 1 <= high
    OBVIOUS
  <2>5. CASE k + 1 \in T
    <3>1. PICK m \in Nat : m = k - low /\ size(k) = m /\ size(k + 1) = m + 1
      BY <2>4, <2>5
    <3> HIDE DEF size
    <3>2. PICK h : h = Append(g, k + 1)
      OBVIOUS
    <3>3. g \in Seq(Nat) /\ Len(g) = m /\ \A j \in 1..m : g[j] = low + j
      BY <2>2, <3>1 DEF Counts
    <3>4. /\ h \in Seq(Nat) /\ Len(h) = m + 1 /\ h[m + 1] = k + 1
          /\ \A j \in 1..m : h[j] = g[j]
      BY <3>2, <3>3
    <3>5. \A j \in 1..(m + 1) : h[j] = low + j
      <4>1. \A j \in 1..(m + 1) : j \in 1..m \/ j = m + 1
        OBVIOUS
      <4>2. k + 1 = low + (m + 1)
        BY <3>1
      <4> QED
        BY <3>3, <3>4, <4>1, <4>2
    <3>6. f[k + 1] = h
      BY <2>3, <2>5, <3>2
    <3> QED
      BY <3>1, <3>4, <3>5, <3>6 DEF Counts
  <2>6. CASE k + 1 \notin T
    <3>1. size(k + 1) = size(k)
      BY <2>4, <2>6
    <3> HIDE DEF size
    <3> QED
      BY <2>1, <2>2, <2>3, <2>6, <3>1
  <2> QED
    BY <2>5, <2>6
<1> HIDE DEF N
<1>7. Nat \subseteq N
  BY <1>5, <1>6, NatInd
<1>8. PICK t, m : t = f[n] /\ m = high - low
  OBVIOUS
<1>9. size(n) = m /\ m \in Nat
  BY <1>8
<1>10. t \in Seq(Nat) /\ Len(t) = m /\ \A j \in 1..m : t[j] = low + j
  <2> HIDE DEF size
  <2>1. Counts(t, low, m)
    BY <1>7, <1>8, <1>9 DEF N
  <2> QED
    BY <2>1 DEF Counts
<1> QED
  BY <1>3, <1>8, <1>10 DEF Counts
=============================================================================
