----------------------------- MODULE SumTheorems -----------------------------
(***************************************************************************)
(* Sums over finite sets, MapThenSumSet of the community modules, which    *)
(* the models use to count rows.  The sum is a fold that takes the         *)
(* elements in an order of its own; here it is shown to have the value a   *)
(* reader expects in whatever order.  Every induction is over the          *)
(* subsets of a finite set: a smallest one that does not have a property   *)
(* is shown not to exist (WFMin).  And the least of some numbers, Min.     *)
(***************************************************************************)
EXTENDS FiniteSetsExt, SequencesExt, FiniteSetTheorems, WellFoundedInduction, Integers, TLAPS

(* The least of some numbers is one of them.                               *)
LEMMA LeastIsElement ==
    ASSUME NEW S, S \subseteq Nat, S # {}
    PROVE  Min(S) \in S /\ \A y \in S : Min(S) <= y
<1> DEFINE Less == {p \in Nat \X Nat : p[1] < p[2]}
<1>0. IsWellFoundedOn(Less, Nat)
  BY NatLessThanWellFounded DEF OpToRel
<1>1. PICK x \in S : \A y \in S : <<y, x>> \notin Less
  <2> HIDE DEF Less
  <2> QED
    BY <1>0, WFMin
<1>2. ASSUME NEW y \in S PROVE x <= y
  <2>1. <<y, x>>[1] = y /\ <<y, x>>[2] = x /\ <<y, x>> \in Nat \X Nat
    OBVIOUS
  <2> QED
    BY <2>1, <1>1
<1> QED
  BY <1>2 DEF Min

-----------------------------------------------------------------------------
Sum(w, S) == MapThenSumSet(LAMBDA x : w[x], S)

(* The function on the subsets of S that the fold computes.                *)
Some(s)         == CHOOSE x \in s : TRUE
Rest(s)         == s \ {Some(s)}
Fold(w, g, s)   == IF s = {} THEN 0 ELSE w[Some(s)] + g[Rest(s)]
IsFold(w, S, g) == g = [s \in SUBSET S |-> Fold(w, g, s)]
FoldOf(w, S)    == CHOOSE g : IsFold(w, S, g)
Same(w, v, S)   == \A x \in S : w[x] = v[x]
Counts(w, S)    == \A x \in S : w[x] \in Nat
Below(w, v, S)  == \A x \in S : w[x] <= v[x]

(* The element that the fold takes is one.                                 *)
LEMMA SomeIsElement ==
    ASSUME NEW s, s # {}
    PROVE  Some(s) \in s /\ Rest(s) \subseteq s /\ Rest(s) # s
  BY DEF Some, Rest

(* A property of sets that a finite set does not have, one of its smallest *)
(* subsets does not have either: induction, without naming the property.   *)
LEMMA SmallestSubset ==
    ASSUME NEW S, IsFiniteSet(S), NEW Bad \in SUBSET (SUBSET S), Bad # {}
    PROVE  \E T \in Bad : \A U \in SUBSET T : U # T => U \notin Bad
<1>1. SUBSET S = FiniteSubsetsOf(S)
  BY FS_FiniteSubsetsOfFinite
<1>2. IsWellFoundedOn(StrictSubsetOrdering(S), SUBSET S)
  BY <1>1, FS_StrictSubsetOrderingWellFounded
<1>3. PICK T \in Bad : \A U \in Bad : <<U, T>> \notin StrictSubsetOrdering(S)
  BY <1>2, WFMin
<1>4. ASSUME NEW U \in SUBSET T, U # T, U \in Bad
      PROVE  FALSE
  <2>1. <<U, T>> \in StrictSubsetOrdering(S)
    BY <1>4 DEF StrictSubsetOrdering
  <2> QED
    BY <2>1, <1>3, <1>4
<1> QED
  BY <1>3, <1>4

(* Two folds agree where both are defined and the elements have the same   *)
(* values.                                                                 *)
LEMMA FoldsAgree ==
    ASSUME NEW w, NEW v, NEW S, NEW T, NEW g, NEW h, NEW U,
           IsFold(w, S, g), IsFold(v, T, h), IsFiniteSet(U),
           U \subseteq S, U \subseteq T, Same(w, v, U)
    PROVE  g[U] = h[U]
<1> DEFINE Bad == {V \in SUBSET U : g[V] # h[V]}
<1>0. Bad \in SUBSET (SUBSET U)
  OBVIOUS
<1>1. ASSUME Bad # {} PROVE FALSE
  <2>1. PICK V \in Bad : \A W \in SUBSET V : W # V => W \notin Bad
    <3> HIDE DEF Bad
    <3> QED
      BY <1>0, <1>1, SmallestSubset
  <2>2. g[V] = Fold(w, g, V) /\ h[V] = Fold(v, h, V)
    BY DEF IsFold
  <2>3. V # {}
    BY <2>1, <2>2 DEF Fold
  <2>4. Some(V) \in V /\ Rest(V) \subseteq V /\ Rest(V) # V
    BY <2>3, SomeIsElement
  <2>5. g[Rest(V)] = h[Rest(V)]
    BY <2>1, <2>4
  <2>6. w[Some(V)] = v[Some(V)]
    BY <2>4 DEF Same
  <2> QED
    BY <2>1, <2>2, <2>3, <2>5, <2>6 DEF Fold
<1> QED
  BY <1>1

(* There is such a function.                                               *)
LEMMA FoldExists ==
    ASSUME NEW w, NEW S, IsFiniteSet(S)
    PROVE  IsFold(w, S, FoldOf(w, S))
<1> DEFINE Bad == {V \in SUBSET S : ~\E g : IsFold(w, V, g)}
<1>0. Bad \in SUBSET (SUBSET S)
  OBVIOUS
<1>1. ASSUME Bad # {} PROVE FALSE
  <2>1. PICK V \in Bad : \A W \in SUBSET V : W # V => W \notin Bad
    <3> HIDE DEF Bad
    <3> QED
      BY <1>0, <1>1, SmallestSubset
  <2>2. \A W \in SUBSET V : W # V => IsFold(w, W, FoldOf(w, W))
    BY <2>1 DEF FoldOf
  <2> DEFINE g == [s \in SUBSET V |->
                     IF s = {} THEN 0 ELSE w[Some(s)] + FoldOf(w, Rest(s))[Rest(s)]]
  <2>3. ASSUME NEW s \in SUBSET V, s # {}
        PROVE  g[Rest(s)] = FoldOf(w, Rest(s))[Rest(s)]
    <3>1. Rest(s) \in SUBSET V /\ Rest(s) # V
      BY <2>3, SomeIsElement DEF Rest
    <3> DEFINE R == Rest(s)
    <3>2. IsFold(w, R, FoldOf(w, R))
      BY <2>2, <3>1
    <3>3. FoldOf(w, R)[R] = Fold(w, FoldOf(w, R), R)
      BY <3>2 DEF IsFold
    <3>4. CASE R = {}
      BY <3>1, <3>3, <3>4 DEF Fold
    <3>5. CASE R # {}
      <4>1. Rest(R) \subseteq R /\ Rest(R) # V
        BY <3>1, <3>5, SomeIsElement
      <4>2. IsFold(w, Rest(R), FoldOf(w, Rest(R)))
        BY <2>2, <3>1, <4>1
      <4>3. IsFiniteSet(Rest(R))
        BY <3>1, <4>1, FS_Subset
      <4> DEFINE Q == Rest(R)
                 a == FoldOf(w, R)
                 b == FoldOf(w, Q)
      <4>4. a[Q] = b[Q]
        <5> HIDE DEF R, Q, a, b
        <5>1. IsFold(w, R, a) /\ IsFold(w, Q, b) /\ IsFiniteSet(Q) /\ Q \subseteq R
               /\ Same(w, w, Q)
          BY <3>2, <4>1, <4>2, <4>3 DEF Q, a, b, Same
        <5> QED
          BY <5>1, FoldsAgree
      <4>5. g[R] = w[Some(R)] + FoldOf(w, Rest(R))[Rest(R)]
        BY <3>1, <3>5
      <4>6. a[R] = w[Some(R)] + a[Q]
        BY <3>3, <3>5 DEF Fold
      <4> QED
        BY <4>4, <4>5, <4>6
    <3> QED
      BY <3>4, <3>5
  <2>4. IsFold(w, V, g)
    <3>1. \A s \in SUBSET V : g[s] = Fold(w, g, s)
      BY <2>3 DEF Fold
    <3> QED
      BY <3>1 DEF IsFold
  <2> QED
    BY <2>1, <2>4
<1>2. \E g : IsFold(w, S, g)
  BY <1>1
<1> QED
  BY <1>2 DEF FoldOf

-----------------------------------------------------------------------------
(* The sum is the last value of the fold.                                  *)
LEMMA SumIsFold ==
    ASSUME NEW w, NEW S
    PROVE  Sum(w, S) = FoldOf(w, S)[S]
  BY DEF Sum, MapThenSumSet, MapThenFoldSet, FoldOf, IsFold, Fold, Some, Rest

(* The sum over no elements.                                               *)
LEMMA SumEmpty == ASSUME NEW w PROVE Sum(w, {}) = 0
<1>1. IsFold(w, {}, FoldOf(w, {}))
  BY FoldExists, FS_EmptySet
<1> QED
  BY <1>1, SumIsFold DEF IsFold, Fold

(* The sum of other values is another only if an element has another.      *)
LEMMA SumCongruent ==
    ASSUME NEW w, NEW v, NEW S, IsFiniteSet(S), Same(w, v, S)
    PROVE  Sum(w, S) = Sum(v, S)
<1>1. IsFold(w, S, FoldOf(w, S)) /\ IsFold(v, S, FoldOf(v, S))
  BY FoldExists
<1> DEFINE g == FoldOf(w, S)
           h == FoldOf(v, S)
<1>2. g[S] = h[S]
  <2> HIDE DEF g, h
  <2>1. IsFold(w, S, g) /\ IsFold(v, S, h)
    BY <1>1 DEF g, h
  <2> QED
    BY <2>1, FoldsAgree
<1> QED
  BY <1>2, SumIsFold

(* One step of the fold.                                                   *)
LEMMA SumStep ==
    ASSUME NEW w, NEW S, IsFiniteSet(S), S # {}
    PROVE  Sum(w, S) = w[Some(S)] + Sum(w, Rest(S))
<1>1. Rest(S) \subseteq S /\ IsFiniteSet(Rest(S))
  BY SomeIsElement, FS_Subset
<1>2. IsFold(w, S, FoldOf(w, S)) /\ IsFold(w, Rest(S), FoldOf(w, Rest(S)))
  BY <1>1, FoldExists
<1> DEFINE R == Rest(S)
           g == FoldOf(w, S)
           h == FoldOf(w, R)
<1>3. g[R] = h[R]
  <2> HIDE DEF R, g, h
  <2>1. IsFold(w, S, g) /\ IsFold(w, R, h) /\ R \subseteq S /\ IsFiniteSet(R)
         /\ Same(w, w, R)
    BY <1>1, <1>2 DEF R, g, h, Same
  <2> QED
    BY <2>1, FoldsAgree
<1>4. FoldOf(w, S)[S] = Fold(w, FoldOf(w, S), S)
  BY <1>2 DEF IsFold
<1> QED
  BY <1>3, <1>4, SumIsFold DEF Fold

(* A sum of natural numbers is one.                                        *)
LEMMA SumType ==
    ASSUME NEW w, NEW S, IsFiniteSet(S), Counts(w, S)
    PROVE  Sum(w, S) \in Nat
<1> DEFINE Bad == {V \in SUBSET S : Sum(w, V) \notin Nat}
<1>0. Bad \in SUBSET (SUBSET S)
  OBVIOUS
<1>1. ASSUME Bad # {} PROVE FALSE
  <2>1. PICK V \in Bad : \A W \in SUBSET V : W # V => W \notin Bad
    <3> HIDE DEF Bad
    <3> QED
      BY <1>0, <1>1, SmallestSubset
  <2>2. V # {}
    <3>1. Sum(w, {}) \in Nat
      BY SumEmpty
    <3> QED
      BY <2>1, <3>1
  <2>0. IsFiniteSet(V)
    BY <2>1, FS_Subset
  <2>3. Some(V) \in V /\ Rest(V) \subseteq V /\ Rest(V) # V
    BY <2>2, SomeIsElement
  <2>4. Sum(w, Rest(V)) \in Nat
    BY <2>1, <2>3
  <2>5. Sum(w, V) = w[Some(V)] + Sum(w, Rest(V))
    BY <2>0, <2>2, SumStep
  <2> QED
    BY <2>1, <2>3, <2>4, <2>5 DEF Counts
<1> QED
  BY <1>1

(* Whatever element is taken out first.                                    *)
THEOREM SumRemove ==
    ASSUME NEW w, NEW S, IsFiniteSet(S), Counts(w, S), NEW e \in S
    PROVE  Sum(w, S) = w[e] + Sum(w, S \ {e})
<1> DEFINE Bad == {V \in SUBSET S : \E x \in V : Sum(w, V) # w[x] + Sum(w, V \ {x})}
<1>0. Bad \in SUBSET (SUBSET S)
  OBVIOUS
<1>1. ASSUME Bad # {} PROVE FALSE
  <2>1. PICK V \in Bad : \A W \in SUBSET V : W # V => W \notin Bad
    <3> HIDE DEF Bad
    <3> QED
      BY <1>0, <1>1, SmallestSubset
  <2>2. PICK x \in V : Sum(w, V) # w[x] + Sum(w, V \ {x})
    BY <2>1
  <2> DEFINE c == Some(V)
  <2>3. c \in V /\ Rest(V) = V \ {c}
    BY <2>2, SomeIsElement DEF Rest
  <2> HIDE DEF c
  <2>4. IsFiniteSet(V) /\ IsFiniteSet(V \ {c}) /\ IsFiniteSet(V \ {x}) /\ IsFiniteSet(V \ {c, x})
    BY <2>1, FS_Subset
  <2>5. Sum(w, V) = w[c] + Sum(w, V \ {c})
    BY <2>2, <2>3, <2>4, SumStep DEF c
  <2>6. c # x
    BY <2>2, <2>5
  <2>7. Sum(w, V \ {c}) = w[x] + Sum(w, (V \ {c}) \ {x})
    BY <2>1, <2>2, <2>3, <2>6
  <2>8. Sum(w, V \ {x}) = w[c] + Sum(w, (V \ {x}) \ {c})
    BY <2>1, <2>2, <2>3, <2>6
  <2>9. (V \ {c}) \ {x} = V \ {c, x} /\ (V \ {x}) \ {c} = V \ {c, x}
    OBVIOUS
  <2>10. Sum(w, V \ {c, x}) \in Nat /\ w[c] \in Nat /\ w[x] \in Nat
    <3>1. Counts(w, V \ {c, x})
      BY <2>1 DEF Counts
    <3>2. Sum(w, V \ {c, x}) \in Nat
      BY <2>4, <3>1, SumType
    <3> QED
      BY <2>1, <2>2, <2>3, <3>2 DEF Counts
  <2>11. Sum(w, V) = w[c] + (w[x] + Sum(w, V \ {c, x}))
    BY <2>5, <2>7, <2>9
  <2>12. Sum(w, V \ {x}) = w[c] + Sum(w, V \ {c, x})
    BY <2>8, <2>9
  <2> QED
    BY <2>2, <2>10, <2>11, <2>12
<1> QED
  BY <1>1

(* Another value of one element.                                           *)
THEOREM SumChange ==
    ASSUME NEW w, NEW v, NEW S, IsFiniteSet(S), Counts(w, S), Counts(v, S),
           NEW e \in S, Same(w, v, S \ {e})
    PROVE  Sum(v, S) + w[e] = Sum(w, S) + v[e]
<1>1. Sum(w, S) = w[e] + Sum(w, S \ {e})
  BY SumRemove
<1>2. Sum(v, S) = v[e] + Sum(v, S \ {e})
  BY SumRemove
<1>3. IsFiniteSet(S \ {e}) /\ Counts(w, S \ {e})
  BY FS_Subset DEF Counts
<1>4. Sum(w, S \ {e}) = Sum(v, S \ {e}) /\ Sum(w, S \ {e}) \in Nat
  BY <1>3, SumCongruent, SumType
<1> QED
  BY <1>1, <1>2, <1>4 DEF Counts

(* The sum of sums.                                                        *)
THEOREM SumAdd ==
    ASSUME NEW w, NEW v, NEW S, IsFiniteSet(S), Counts(w, S), Counts(v, S),
           NEW u, \A x \in S : u[x] = w[x] + v[x]
    PROVE  Sum(u, S) = Sum(w, S) + Sum(v, S)
<1> DEFINE Bad == {V \in SUBSET S : Sum(u, V) # Sum(w, V) + Sum(v, V)}
<1>0. Bad \in SUBSET (SUBSET S)
  OBVIOUS
<1>1. ASSUME Bad # {} PROVE FALSE
  <2>1. PICK V \in Bad : \A W \in SUBSET V : W # V => W \notin Bad
    <3> HIDE DEF Bad
    <3> QED
      BY <1>0, <1>1, SmallestSubset
  <2>2. V # {}
    <3>1. Sum(u, {}) = Sum(w, {}) + Sum(v, {})
      BY SumEmpty
    <3> QED
      BY <2>1, <3>1
  <2>3. IsFiniteSet(V)
    BY <2>1, FS_Subset
  <2>4. Some(V) \in V /\ Rest(V) \subseteq V /\ Rest(V) # V
    BY <2>2, SomeIsElement
  <2>5. /\ Sum(u, V) = u[Some(V)] + Sum(u, Rest(V))
        /\ Sum(w, V) = w[Some(V)] + Sum(w, Rest(V))
        /\ Sum(v, V) = v[Some(V)] + Sum(v, Rest(V))
    BY <2>2, <2>3, SumStep
  <2>6. Sum(u, Rest(V)) = Sum(w, Rest(V)) + Sum(v, Rest(V))
    BY <2>1, <2>4
  <2>7. IsFiniteSet(Rest(V)) /\ Counts(w, Rest(V)) /\ Counts(v, Rest(V))
    BY <2>1, <2>3, <2>4, FS_Subset DEF Counts
  <2>8. Sum(w, Rest(V)) \in Nat /\ Sum(v, Rest(V)) \in Nat
    BY <2>7, SumType
  <2>9. /\ u[Some(V)] = w[Some(V)] + v[Some(V)]
        /\ w[Some(V)] \in Nat /\ v[Some(V)] \in Nat
    BY <2>1, <2>4 DEF Counts
  <2> QED
    BY <2>1, <2>5, <2>6, <2>8, <2>9
<1> QED
  BY <1>1

(* Larger values have a larger sum.                                        *)
LEMMA SumMonotone ==
    ASSUME NEW w, NEW v, NEW S, IsFiniteSet(S), Counts(w, S), Counts(v, S), Below(w, v, S)
    PROVE  Sum(w, S) <= Sum(v, S)
<1> DEFINE u == [x \in S |-> v[x] - w[x]]
<1>1. Counts(u, S) /\ \A x \in S : v[x] = w[x] + u[x]
  BY DEF Counts, Below
<1> HIDE DEF u
<1>2. Sum(v, S) = Sum(w, S) + Sum(u, S)
  BY <1>1, SumAdd
<1>3. Sum(w, S) \in Nat /\ Sum(u, S) \in Nat
  BY <1>1, SumType
<1> QED
  BY <1>2, <1>3

(* If no value is larger and the sums are equal, so are the values: what   *)
(* lets a comparison of totals find every row that was lost.               *)
THEOREM SumsTellLosses ==
    ASSUME NEW w, NEW v, NEW S, IsFiniteSet(S), Counts(w, S), Counts(v, S), Below(w, v, S),
           Sum(w, S) = Sum(v, S)
    PROVE  Same(w, v, S)
<1> SUFFICES ASSUME NEW e \in S
             PROVE  w[e] = v[e]
  BY DEF Same
<1>1. Sum(w, S) = w[e] + Sum(w, S \ {e}) /\ Sum(v, S) = v[e] + Sum(v, S \ {e})
  BY SumRemove
<1>2. /\ IsFiniteSet(S \ {e})
      /\ Counts(w, S \ {e}) /\ Counts(v, S \ {e}) /\ Below(w, v, S \ {e})
  BY FS_Subset DEF Counts, Below
<1>3. /\ Sum(w, S \ {e}) <= Sum(v, S \ {e})
      /\ Sum(w, S \ {e}) \in Nat /\ Sum(v, S \ {e}) \in Nat
  BY <1>2, SumMonotone, SumType
<1>4. w[e] \in Nat /\ v[e] \in Nat /\ w[e] <= v[e]
  BY DEF Counts, Below
<1>5. w[e] + Sum(w, S \ {e}) = v[e] + Sum(v, S \ {e})
  BY <1>1
<1> QED
  BY <1>3, <1>4, <1>5

(* Pairs, counted by their first parts, are counted all.                   *)
Parts(B, S) == {b \in B : b[1] \in S}
CountOf(B, S) == [x \in S |-> Cardinality({b \in B : b[1] = x})]

(* The sizes of the parts of a set of pairs add up to the size of the      *)
(* whole.                                                                  *)
THEOREM SumOfParts ==
    ASSUME NEW S, IsFiniteSet(S), NEW B, IsFiniteSet(B)
    PROVE  Counts(CountOf(B, S), S) /\ Sum(CountOf(B, S), S) = Cardinality(Parts(B, S))
<1> DEFINE w == CountOf(B, S)
<1>1. \A x \in S : w[x] = Cardinality({b \in B : b[1] = x}) /\ w[x] \in Nat
  <2> SUFFICES ASSUME NEW x \in S
               PROVE  Cardinality({b \in B : b[1] = x}) \in Nat
    BY DEF CountOf
  <2>1. IsFiniteSet({b \in B : b[1] = x})
    BY FS_Subset
  <2> QED
    BY <2>1, FS_CardinalityType
<1> HIDE DEF w
<1> DEFINE Bad == {V \in SUBSET S : Sum(w, V) # Cardinality(Parts(B, V))}
<1>0. Bad \in SUBSET (SUBSET S)
  OBVIOUS
<1>2. ASSUME Bad # {} PROVE FALSE
  <2>1. PICK V \in Bad : \A W \in SUBSET V : W # V => W \notin Bad
    <3> HIDE DEF Bad
    <3> QED
      BY <1>0, <1>2, SmallestSubset
  <2>2. V # {}
    <3>1. Sum(w, {}) = 0 /\ Parts(B, {}) = {} /\ Cardinality({}) = 0
      BY SumEmpty, FS_EmptySet DEF Parts
    <3> QED
      BY <2>1, <3>1
  <2>3. IsFiniteSet(V)
    BY <2>1, FS_Subset
  <2> DEFINE c == Some(V)
             R == Rest(V)
             C == {b \in B : b[1] = c}
             P == Parts(B, R)
  <2>4. c \in V /\ R \subseteq V /\ R # V /\ c \notin R /\ V = R \cup {c}
    BY <2>2, SomeIsElement DEF Rest
  <2>5. Sum(w, V) = w[c] + Sum(w, R)
    BY <2>2, <2>3, SumStep
  <2>6. Sum(w, R) = Cardinality(P)
    BY <2>1, <2>4
  <2>7. Parts(B, V) = P \cup C /\ P \cap C = {}
    BY <2>4 DEF Parts
  <2>8. IsFiniteSet(P) /\ IsFiniteSet(C)
    BY FS_Subset DEF Parts
  <2>9. w[c] = Cardinality(C)
    BY <1>1, <2>1, <2>4
  <2> HIDE DEF c, R, C, P
  <2>10. Cardinality(P \cup C) = Cardinality(P) + Cardinality(C) - Cardinality(P \cap C)
    BY <2>8, FS_Union
  <2>11. Cardinality({}) = 0 /\ Cardinality(P) \in Nat /\ Cardinality(C) \in Nat
    BY <2>8, FS_EmptySet, FS_CardinalityType
  <2>12. Cardinality(Parts(B, V)) = Cardinality(P) + Cardinality(C)
    <3>1. Cardinality(P \cup C) = Cardinality(P) + Cardinality(C) - 0
      BY <2>7, <2>10, <2>11
    <3> QED
      BY <2>7, <2>11, <3>1
  <2>13. Sum(w, V) # Cardinality(Parts(B, V))
    BY <2>1
  <2> QED
    BY <2>5, <2>6, <2>9, <2>11, <2>12, <2>13
<1> QED
  BY <1>1, <1>2 DEF w, Counts

(* Values may be added where they were put, what is 0 left out.            *)
Images(w, g, S) == {g[x] : x \in {y \in S : w[y] # 0}}

(* A sum is the sum over the places of its values, if no two share one.    *)
THEOREM SumOfImages ==
    ASSUME NEW w, NEW v, NEW g, NEW S, IsFiniteSet(S), Counts(w, S),
           \A x, y \in S : w[x] # 0 /\ w[y] # 0 /\ g[x] = g[y] => x = y,
           \A x \in S : w[x] # 0 => v[g[x]] = w[x]
    PROVE  Sum(w, S) = Sum(v, Images(w, g, S))
<1> DEFINE Bad == {V \in SUBSET S : Sum(w, V) # Sum(v, Images(w, g, V))}
<1>0. Bad \in SUBSET (SUBSET S)
  OBVIOUS
<1>1. ASSUME Bad # {} PROVE FALSE
  <2>1. PICK V \in Bad : \A W \in SUBSET V : W # V => W \notin Bad
    <3> HIDE DEF Bad
    <3> QED
      BY <1>0, <1>1, SmallestSubset
  <2>2. V # {}
    <3>1. Sum(w, {}) = 0 /\ Sum(v, {}) = 0 /\ Images(w, g, {}) = {}
      BY SumEmpty DEF Images
    <3> QED
      BY <2>1, <3>1
  <2>3. IsFiniteSet(V) /\ V \subseteq S
    BY <2>1, FS_Subset
  <2> DEFINE c == Some(V)
             R == Rest(V)
  <2>4. c \in V /\ R \subseteq V /\ R # V /\ c \notin R /\ V = R \cup {c}
    BY <2>2, SomeIsElement DEF Rest
  <2>5. Sum(w, V) = w[c] + Sum(w, R)
    BY <2>2, <2>3, SumStep
  <2>6. Sum(w, R) = Sum(v, Images(w, g, R))
    BY <2>1, <2>3, <2>4
  <2> HIDE DEF c, R
  <2>7. CASE w[c] = 0
    <3>1. Images(w, g, V) = Images(w, g, R)
      BY <2>4, <2>7 DEF Images
    <3>2. Sum(w, R) \in Nat
      BY <2>3, <2>4, FS_Subset, SumType DEF Counts
    <3>3. Sum(w, V) = Sum(w, R)
      BY <2>5, <2>7, <3>2
    <3> QED
      BY <2>1, <2>6, <3>1, <3>3
  <2>8. CASE w[c] # 0
    <3>1. Images(w, g, V) = Images(w, g, R) \cup {g[c]} /\ g[c] \notin Images(w, g, R)
      BY <2>3, <2>4, <2>8 DEF Images
    <3>2. Images(w, g, V) \ {g[c]} = Images(w, g, R)
      BY <3>1
    <3>3. IsFiniteSet(Images(w, g, V))
      <4> DEFINE D == {y \in V : w[y] # 0}
                 h == [x \in D |-> g[x]]
      <4>1. IsFiniteSet(D)
        BY <2>3, FS_Subset
      <4>2. h \in Surjection(D, Images(w, g, V))
        BY DEF Surjection, Images
      <4> HIDE DEF D, h
      <4> QED
        BY <4>1, <4>2, FS_Surjection
    <3>4. Counts(v, Images(w, g, V)) /\ v[g[c]] = w[c]
      BY <2>3, <2>4, <2>8 DEF Images, Counts
    <3>5. Sum(v, Images(w, g, V)) = v[g[c]] + Sum(v, Images(w, g, R))
      BY <3>1, <3>2, <3>3, <3>4, SumRemove
    <3> QED
      BY <2>1, <2>5, <2>6, <3>4, <3>5
  <2> QED
    BY <2>7, <2>8
<1> QED
  BY <1>1, FS_Subset

-----------------------------------------------------------------------------
(***************************************************************************)
(* Folds of sequences, FoldLeft of the community modules.  The step of a   *)
(* fold is a function G of the value so far and the next item, so that     *)
(* what is shown here once can be used for every fold there is.            *)
(***************************************************************************)
FoldBy(G, b, s) == FoldLeft(LAMBDA a, x : G[<<a, x>>], b, s)

(* The function on the subsets of places that the fold computes: it takes  *)
(* the last place first.                                                   *)
Before(V)                == V \ {Max(V)}
SeqStep(G, b, s, g, V)   == IF V = {} THEN b ELSE G[<<g[Before(V)], s[Max(V)]>>]
IsSeqFold(G, b, s, S, g) == g = [V \in SUBSET S |-> SeqStep(G, b, s, g, V)]
SeqFoldOf(G, b, s, S)    == CHOOSE g : IsSeqFold(G, b, s, S, g)
Indices(U)                == \E n \in Nat : U \subseteq 1..n
SameAt(s, t, U)          == \A i \in U : s[i] = t[i]
InStep(g, h, U)          == \A V \in SUBSET U : (V = {} \/ g[Before(V)] = h[Before(V)]) => g[V] = h[V]

(* The places of a sequence, and some of them.                             *)
LEMMA IndicesOfSeq ==
    ASSUME NEW X, NEW s \in Seq(X)
    PROVE  Indices(DOMAIN s) /\ \A i \in DOMAIN s : s[i] \in X
  BY DEF Indices

(* They are finitely many.                                                 *)
LEMMA SomeIndices ==
    ASSUME NEW U, Indices(U)
    PROVE  IsFiniteSet(U) /\ \A V \in SUBSET U : Indices(V)
<1>1. PICK n \in Nat : U \subseteq 1..n
  BY DEF Indices
<1>2. IsFiniteSet(1..n)
  BY <1>1, FS_Interval
<1>3. IsFiniteSet(U)
  BY <1>1, <1>2, FS_Subset
<1> QED
  BY <1>1, <1>3 DEF Indices

(* The greatest of some places is one of them.                             *)
LEMMA GreatestIsElement ==
    ASSUME NEW V, Indices(V), V # {}
    PROVE  Max(V) \in V /\ (\A y \in V : y <= Max(V)) /\ Before(V) \subseteq V /\ Before(V) # V
<1>0. PICK n \in Nat : V \subseteq 1..n
  BY DEF Indices
<1> DEFINE D == {n - y : y \in V}
<1>1. D \subseteq Nat /\ D # {}
  <2>1. PICK y \in V : TRUE
    OBVIOUS
  <2>2. n - y \in D /\ \A z \in V : n - z \in Nat
    BY <1>0, <2>1
  <2> QED
    BY <2>2
<1>2. Min(D) \in D /\ \A d \in D : Min(D) <= d
  <2> HIDE DEF D
  <2> QED
    BY <1>1, LeastIsElement
<1>3. PICK x \in V : Min(D) = n - x
  BY <1>2
<1>4. ASSUME NEW y \in V PROVE x >= y
  <2>1. n - x <= n - y
    BY <1>2, <1>3
  <2> QED
    BY <1>0, <2>1
<1>5. Max(V) \in V /\ \A y \in V : Max(V) >= y
  BY <1>4 DEF Max
<1> QED
  BY <1>5 DEF Before

(* What holds of 0 and passes from each number to the next holds up to n.  *)
LEMMA UpTo ==
    ASSUME NEW n \in Nat, NEW Good, 0 \in Good, \A k \in 0..n - 1 : k \in Good => k + 1 \in Good
    PROVE  \A k \in 0..n : k \in Good
<1> DEFINE Bad == {k \in 0..n : k \notin Good}
<1>1. ASSUME Bad # {} PROVE FALSE
  <2>1. Bad \subseteq Nat
    OBVIOUS
  <2>2. Min(Bad) \in Bad /\ \A y \in Bad : Min(Bad) <= y
    <3> HIDE DEF Bad
    <3> QED
      BY <1>1, <2>1, LeastIsElement
  <2>3. PICK m \in 0..n : m = Min(Bad) /\ m \notin Good /\ \A y \in Bad : m <= y
    BY <2>2
  <2>4. m # 0 /\ m - 1 \in 0..n - 1
    BY <2>3
  <2>5. m - 1 \in Good
    BY <2>3, <2>4
  <2> QED
    BY <2>3, <2>4, <2>5
<1> QED
  BY <1>1

(* Two functions on sets of places agree if the step by which each grows   *)
(* is the same.                                                            *)
LEMMA StepsAgree ==
    ASSUME NEW U, Indices(U), NEW g, NEW h, InStep(g, h, U)
    PROVE  \A V \in SUBSET U : g[V] = h[V]
<1> DEFINE Bad == {V \in SUBSET U : g[V] # h[V]}
<1>0. Bad \in SUBSET (SUBSET U) /\ IsFiniteSet(U)
  BY SomeIndices
<1>1. ASSUME Bad # {} PROVE FALSE
  <2>1. PICK V \in Bad : \A W \in SUBSET V : W # V => W \notin Bad
    <3> HIDE DEF Bad
    <3> QED
      BY <1>0, <1>1, SmallestSubset
  <2>2. V # {} /\ Indices(V)
    BY SomeIndices DEF InStep
  <2>3. Before(V) \subseteq V /\ Before(V) # V
    BY <2>2, GreatestIsElement
  <2> QED
    BY <2>1, <2>2, <2>3 DEF InStep
<1> QED
  BY <1>1

(* Folds of sequences that agree at some places agree there.               *)
LEMMA SeqFoldsAgree ==
    ASSUME NEW U, Indices(U), NEW S, NEW T, U \subseteq S, U \subseteq T,
           NEW G, NEW b, NEW s, NEW t, NEW g, NEW h, SameAt(s, t, U),
           IsSeqFold(G, b, s, S, g), IsSeqFold(G, b, t, T, h)
    PROVE  g[U] = h[U]
<1>1. \A V \in SUBSET U : g[V] = SeqStep(G, b, s, g, V) /\ h[V] = SeqStep(G, b, t, h, V)
  BY DEF IsSeqFold
<1>2. g[{}] = h[{}]
  BY <1>1 DEF SeqStep
<1>3. ASSUME NEW V \in SUBSET U, V # {}, g[Before(V)] = h[Before(V)]
      PROVE  g[V] = h[V]
  <2>1. Max(V) \in V
    BY <1>3, SomeIndices, GreatestIsElement
  <2> QED
    BY <1>1, <1>3, <2>1 DEF SeqStep, SameAt
<1>4. \A V \in SUBSET U : g[V] = h[V]
  <2>1. InStep(g, h, U)
    BY <1>2, <1>3 DEF InStep
  <2> QED
    BY <2>1, StepsAgree
<1> QED
  BY <1>4

(* There is such a function.                                               *)
LEMMA SeqFoldExists ==
    ASSUME NEW S, Indices(S), NEW G, NEW b, NEW s
    PROVE  IsSeqFold(G, b, s, S, SeqFoldOf(G, b, s, S))
<1> DEFINE Bad == {V \in SUBSET S : ~\E g : IsSeqFold(G, b, s, V, g)}
<1>0. Bad \in SUBSET (SUBSET S) /\ IsFiniteSet(S)
  BY SomeIndices
<1>1. ASSUME Bad # {} PROVE FALSE
  <2>1. PICK V \in Bad : \A W \in SUBSET V : W # V => W \notin Bad
    <3> HIDE DEF Bad
    <3> QED
      BY <1>0, <1>1, SmallestSubset
  <2>2. \A W \in SUBSET V : W # V => IsSeqFold(G, b, s, W, SeqFoldOf(G, b, s, W))
    BY <2>1 DEF SeqFoldOf
  <2> DEFINE val(W) == SeqFoldOf(G, b, s, W)[W]
             g == [W \in SUBSET V |-> IF W = {} THEN b ELSE G[<<val(Before(W)), s[Max(W)]>>]]
  <2>3. ASSUME NEW W \in SUBSET V, W # {} PROVE g[Before(W)] = val(Before(W))
    <3>1. PICK R : R = Before(W)
      OBVIOUS
    <3>2. R \in SUBSET V /\ R # V
      <4>1. Indices(W)
        BY SomeIndices
      <4>2. Before(W) \subseteq W /\ Before(W) # W
        BY <2>3, <4>1, GreatestIsElement
      <4> QED
        BY <3>1, <4>2
    <3>3. IsSeqFold(G, b, s, R, SeqFoldOf(G, b, s, R))
      BY <2>2, <3>2
    <3>4. val(R) = SeqStep(G, b, s, SeqFoldOf(G, b, s, R), R)
      BY <3>3 DEF IsSeqFold
    <3>5. CASE R = {}
      BY <3>1, <3>2, <3>4, <3>5 DEF SeqStep
    <3>6. CASE R # {}
      <4>1. PICK Q : Q = Before(R)
        OBVIOUS
      <4>0. Indices(R) /\ Indices(V)
        BY <3>2, SomeIndices
      <4>2. Q \subseteq R /\ Q # V /\ Q \in SUBSET V /\ Indices(Q)
        BY <3>2, <3>6, <4>0, <4>1, SomeIndices, GreatestIsElement
      <4>3. IsSeqFold(G, b, s, Q, SeqFoldOf(G, b, s, Q))
        BY <2>2, <4>2
      <4>4. SeqFoldOf(G, b, s, R)[Q] = val(Q)
        <5>1. PICK k, h : k = SeqFoldOf(G, b, s, R) /\ h = SeqFoldOf(G, b, s, Q)
          OBVIOUS
        <5>2. IsSeqFold(G, b, s, R, k) /\ IsSeqFold(G, b, s, Q, h) /\ SameAt(s, s, Q) /\ Q \subseteq Q
          BY <3>3, <4>3, <5>1 DEF SameAt
        <5> HIDE DEF Bad, val, g
        <5>3. k[Q] = h[Q]
          BY <4>2, <5>2, SeqFoldsAgree
        <5> QED
          BY <5>1, <5>3 DEF val
      <4>5. val(R) = G[<<val(Q), s[Max(R)]>>]
        BY <3>4, <3>6, <4>1, <4>4 DEF SeqStep
      <4>6. g[R] = G[<<val(Q), s[Max(R)]>>]
        BY <3>2, <3>6, <4>1
      <4> QED
        BY <3>1, <4>5, <4>6
    <3> QED
      BY <3>5, <3>6
  <2>4. \A W \in SUBSET V : g[W] = SeqStep(G, b, s, g, W)
    BY <2>3 DEF SeqStep
  <2>5. IsSeqFold(G, b, s, V, g)
    BY <2>4 DEF IsSeqFold
  <2> QED
    BY <2>1, <2>5
<1>2. \E g : IsSeqFold(G, b, s, S, g)
  BY <1>1
<1> QED
  BY <1>2 DEF SeqFoldOf

(* The fold is the value of that function at all places.                   *)
LEMMA FoldIsLast ==
    ASSUME NEW G, NEW b, NEW s
    PROVE  FoldBy(G, b, s) = SeqFoldOf(G, b, s, DOMAIN s)[DOMAIN s]
  BY DEF FoldBy, FoldLeft, MapThenFoldSet, SeqFoldOf, IsSeqFold, SeqStep, Before

(* A fold of no item.                                                      *)
LEMMA FoldEmpty == ASSUME NEW G, NEW b PROVE FoldBy(G, b, <<>>) = b
<1>1. DOMAIN <<>> = {} /\ Indices({})
  BY DEF Indices
<1>2. IsSeqFold(G, b, <<>>, {}, SeqFoldOf(G, b, <<>>, {}))
  BY <1>1, SeqFoldExists
<1>3. SeqFoldOf(G, b, <<>>, {})[{}] = b
  BY <1>2 DEF IsSeqFold, SeqStep
<1> QED
  BY <1>1, <1>3, FoldIsLast

(* A fold takes the last item last.                                        *)
THEOREM FoldAppend ==
    ASSUME NEW G, NEW b, NEW X, NEW s \in Seq(X), NEW x \in X
    PROVE  FoldBy(G, b, Append(s, x)) = G[<<FoldBy(G, b, s), x>>]
<1> DEFINE n == Len(s)
           t == Append(s, x)
           U == 1..n
           T == 1..n + 1
<1>1. n \in Nat /\ n + 1 \in Nat /\ DOMAIN s = U /\ DOMAIN t = T /\ t[n + 1] = x /\ \A i \in U : s[i] = t[i]
  OBVIOUS
<1> HIDE DEF t
<1>3. Indices(U) /\ Indices(T) /\ U \subseteq T /\ T # {} /\ n + 1 \in T
  BY <1>1 DEF Indices
<1>2. IsSeqFold(G, b, s, U, SeqFoldOf(G, b, s, U)) /\ IsSeqFold(G, b, t, T, SeqFoldOf(G, b, t, T))
  BY <1>1, <1>3, SeqFoldExists
<1>4. Max(T) = n + 1
  <2>1. Max(T) \in T /\ \A y \in T : y <= Max(T)
    BY <1>1, <1>3, GreatestIsElement
  <2> QED
    BY <1>1, <1>3, <2>1
<1>5. Before(T) = U
  BY <1>1, <1>4 DEF Before
<1>6. SeqFoldOf(G, b, t, T)[U] = SeqFoldOf(G, b, s, U)[U]
  <2>1. PICK k, h : k = SeqFoldOf(G, b, s, U) /\ h = SeqFoldOf(G, b, t, T)
    OBVIOUS
  <2>2. IsSeqFold(G, b, s, U, k) /\ IsSeqFold(G, b, t, T, h) /\ SameAt(t, s, U) /\ U \subseteq U
    BY <1>1, <1>2, <2>1 DEF SameAt
  <2> HIDE DEF U, T
  <2>3. h[U] = k[U]
    BY <1>1, <1>3, <2>2, SeqFoldsAgree
  <2> QED
    BY <2>1, <2>3
<1>7. SeqFoldOf(G, b, t, T)[T] = SeqStep(G, b, t, SeqFoldOf(G, b, t, T), T)
  BY <1>2 DEF IsSeqFold
<1>8. SeqFoldOf(G, b, t, T)[T] = G[<<SeqFoldOf(G, b, s, U)[U], x>>]
  BY <1>1, <1>3, <1>4, <1>5, <1>6, <1>7 DEF SeqStep
<1> QED
  BY <1>1, <1>8, FoldIsLast DEF t

(* A fold whose step stays among some values stays among them.             *)
LEMMA FoldStays ==
    ASSUME NEW X, NEW A, NEW G \in [A \X X -> A], NEW b \in A, NEW s \in Seq(X)
    PROVE  \A V \in SUBSET DOMAIN s : SeqFoldOf(G, b, s, DOMAIN s)[V] \in A
<1> DEFINE g == SeqFoldOf(G, b, s, DOMAIN s)
           h == [V \in SUBSET DOMAIN s |-> IF g[V] \in A THEN g[V] ELSE b]
<1>1. Indices(DOMAIN s) /\ \A i \in DOMAIN s : s[i] \in X
  BY IndicesOfSeq
<1>2. IsSeqFold(G, b, s, DOMAIN s, g)
  BY <1>1, SeqFoldExists
<1>3. \A V \in SUBSET DOMAIN s : g[V] = SeqStep(G, b, s, g, V)
  <2> HIDE DEF g
  <2> QED
    BY <1>2 DEF IsSeqFold
<1> HIDE DEF g
<1>4. g[{}] = h[{}]
  BY <1>3 DEF SeqStep
<1>5. ASSUME NEW V \in SUBSET DOMAIN s, V # {}, g[Before(V)] = h[Before(V)] PROVE g[V] = h[V]
  <2>1. Max(V) \in V /\ Before(V) \in SUBSET DOMAIN s
    BY <1>1, <1>5, SomeIndices, GreatestIsElement
  <2>2. g[Before(V)] \in A
    BY <1>5, <2>1
  <2>3. g[V] = G[<<g[Before(V)], s[Max(V)]>>]
    BY <1>3, <1>5 DEF SeqStep
  <2>4. g[V] \in A
    BY <1>1, <2>1, <2>2, <2>3
  <2> QED
    BY <2>4
<1>6. \A V \in SUBSET DOMAIN s : g[V] = h[V]
  <2>1. InStep(g, h, DOMAIN s)
    BY <1>4, <1>5 DEF InStep
  <2> HIDE DEF h
  <2> QED
    BY <1>1, <2>1, StepsAgree
<1> QED
  BY <1>6 DEF g

(* The value of such a fold at a set of places, by those before.           *)
LEMMA FoldEquation ==
    ASSUME NEW X, NEW A, NEW G \in [A \X X -> A], NEW b \in A, NEW s \in Seq(X)
    PROVE  LET g == SeqFoldOf(G, b, s, DOMAIN s)
           IN  /\ g = [V \in SUBSET DOMAIN s |-> IF V = {} THEN b ELSE G[<<g[Before(V)], s[Max(V)]>>]]
               /\ \A V \in SUBSET DOMAIN s : V # {} => g[Before(V)] \in A /\ s[Max(V)] \in X
<1> DEFINE g == SeqFoldOf(G, b, s, DOMAIN s)
<1>1. Indices(DOMAIN s) /\ \A i \in DOMAIN s : s[i] \in X
  BY IndicesOfSeq
<1>2. IsSeqFold(G, b, s, DOMAIN s, g)
  BY <1>1, SeqFoldExists
<1>3. ASSUME NEW V \in SUBSET DOMAIN s, V # {} PROVE g[Before(V)] \in A /\ s[Max(V)] \in X
  <2>1. Max(V) \in V /\ Before(V) \in SUBSET DOMAIN s
    BY <1>1, <1>3, SomeIndices, GreatestIsElement
  <2> QED
    BY <1>1, <2>1, FoldStays
<1> QED
  BY <1>2, <1>3 DEF IsSeqFold, SeqStep
-----------------------------------------------------------------------------
(* Sequences in one: the function that FlattenSeq computes up to n.        *)
FlatEq(ss, n, f) == f = [i \in 1..n |-> IF i = 1 THEN ss[i] ELSE f[i - 1] \o ss[i]]
FlatOf(ss, n)    == CHOOSE f : FlatEq(ss, n, f)

(* There is such a function, ...                                           *)
LEMMA FlatExists ==
    ASSUME NEW n \in Nat, NEW ss
    PROVE  FlatEq(ss, n, FlatOf(ss, n))
<1> DEFINE Good == {k \in Nat : \E f : FlatEq(ss, k, f)}
<1>1. 0 \in Good
  <2>1. FlatEq(ss, 0, [i \in 1..0 |-> 0])
    BY DEF FlatEq
  <2> QED
    BY <2>1
<1>2. ASSUME NEW k \in 0..n - 1, k \in Good PROVE k + 1 \in Good
  <2>1. PICK f : FlatEq(ss, k, f)
    BY <1>2
  <2> DEFINE h == [i \in 1..k + 1 |-> IF i = 1 THEN ss[i] ELSE f[i - 1] \o ss[i]]
  <2>2. ASSUME NEW i \in 1..k PROVE h[i] = f[i]
    <3>1. i \in 1..k + 1
      OBVIOUS
    <3>2. f[i] = IF i = 1 THEN ss[i] ELSE f[i - 1] \o ss[i]
      BY <2>1 DEF FlatEq
    <3> QED
      BY <3>1, <3>2
  <2>3. ASSUME NEW i \in 1..k + 1 PROVE h[i] = IF i = 1 THEN ss[i] ELSE h[i - 1] \o ss[i]
    <3>1. ASSUME i # 1 PROVE h[i - 1] = f[i - 1]
      <4>1. PICK j \in 1..k : j = i - 1
        BY <3>1
      <4>2. h[j] = f[j]
        BY <2>2
      <4> QED
        BY <4>1, <4>2
    <3> QED
      BY <3>1
  <2>4. FlatEq(ss, k + 1, h)
    <3> HIDE DEF h
    <3>1. PICK g : g = [i \in 1..k + 1 |-> IF i = 1 THEN ss[i] ELSE h[i - 1] \o ss[i]]
      OBVIOUS
    <3>2. h = [i \in 1..k + 1 |-> h[i]]
      BY DEF h
    <3>3. h = [i \in 1..k + 1 |-> IF i = 1 THEN ss[i] ELSE h[i - 1] \o ss[i]]
      BY <2>3, <3>2
    <3> QED
      BY <3>3 DEF FlatEq
  <2> QED
    BY <2>4
<1>3. n \in Good
  <2>1. \A k \in 0..n : k \in Good
    <3> HIDE DEF Good
    <3> QED
      BY <1>1, <1>2, UpTo
  <2> QED
    BY <2>1
<1> QED
  BY <1>3 DEF FlatOf

(* ... whose values are built from those before, ...                       *)
LEMMA FlatStep ==
    ASSUME NEW n \in Nat, NEW ss, NEW f, FlatEq(ss, n, f), NEW k \in 0..n - 1
    PROVE  f[k + 1] = (IF k = 0 THEN ss[k + 1] ELSE f[k] \o ss[k + 1])
<1>1. PICK i \in 1..n : i = k + 1 /\ i - 1 = k
  OBVIOUS
<1>2. f[i] = (IF i = 1 THEN ss[i] ELSE f[i - 1] \o ss[i])
  BY DEF FlatEq
<1> QED
  BY <1>1, <1>2

(* ... one for all sequences that begin alike.                             *)
LEMMA FlatsAgree ==
    ASSUME NEW n \in Nat, NEW m \in Nat, n <= m, NEW ss, NEW tt, SameAt(ss, tt, 1..n),
           NEW f, NEW h, FlatEq(ss, n, f), FlatEq(tt, m, h)
    PROVE  SameAt(f, h, 1..n)
<1> DEFINE Good == {k \in Nat : k # 0 => f[k] = h[k]}
<1>1. 0 \in Good
  OBVIOUS
<1>2. ASSUME NEW k \in 0..n - 1, k \in Good PROVE k + 1 \in Good
  <2>1. k + 1 \in 1..n /\ k \in 0..m - 1
    OBVIOUS
  <2>2. f[k + 1] = (IF k = 0 THEN ss[k + 1] ELSE f[k] \o ss[k + 1])
    BY FlatStep
  <2>3. h[k + 1] = (IF k = 0 THEN tt[k + 1] ELSE h[k] \o tt[k + 1])
    BY <2>1, FlatStep
  <2>4. k # 0 => f[k] = h[k]
    BY <1>2
  <2>5. ss[k + 1] = tt[k + 1]
    BY <2>1 DEF SameAt
  <2>6. f[k + 1] = h[k + 1]
    BY <2>2, <2>3, <2>4, <2>5
  <2> QED
    BY <2>6
<1>3. \A k \in 0..n : k \in Good
  <2> HIDE DEF Good
  <2> QED
    BY <1>1, <1>2, UpTo
<1> QED
  BY <1>3 DEF SameAt

(* Its values are sequences of the same items.                             *)
LEMMA FlatTyped ==
    ASSUME NEW R, NEW ss \in Seq(Seq(R)), NEW f, FlatEq(ss, Len(ss), f)
    PROVE  \A i \in 1..Len(ss) : f[i] \in Seq(R)
<1>0. PICK n \in Nat : n = Len(ss)
  OBVIOUS
<1> DEFINE Good == {k \in Nat : k # 0 => f[k] \in Seq(R)}
<1>1. 0 \in Good
  OBVIOUS
<1>2. ASSUME NEW k \in 0..n - 1, k \in Good PROVE k + 1 \in Good
  <2>1. ss[k + 1] \in Seq(R)
    BY <1>0
  <2>2. f[k + 1] = (IF k = 0 THEN ss[k + 1] ELSE f[k] \o ss[k + 1])
    BY <1>0, FlatStep
  <2>3. k # 0 => f[k] \in Seq(R)
    BY <1>2
  <2>4. f[k + 1] \in Seq(R)
    BY <2>1, <2>2, <2>3
  <2> QED
    BY <2>4
<1>3. \A k \in 0..n : k \in Good
  <2> HIDE DEF Good
  <2> QED
    BY <1>1, <1>2, UpTo
<1> QED
  BY <1>0, <1>3

(* No sequences in one, and one more.                                      *)
LEMMA FlattenEmpty == FlattenSeq(<<>>) = <<>>
  BY DEF FlattenSeq

(* The value of that function at the last sequence.                        *)
LEMMA FlattenIs ==
    ASSUME NEW X, NEW ss \in Seq(X), Len(ss) # 0
    PROVE  FlattenSeq(ss) = FlatOf(ss, Len(ss))[Len(ss)]
<1>1. ss # <<>>
  OBVIOUS
<1> QED
  BY <1>1 DEF FlattenSeq, FlatOf, FlatEq

(* Sequences of the same items in one are a sequence of them.              *)
LEMMA FlattenTyped ==
    ASSUME NEW R, NEW ss \in Seq(Seq(R))
    PROVE  FlattenSeq(ss) \in Seq(R)
<1>1. CASE Len(ss) = 0
  <2>1. ss = <<>>
    BY <1>1
  <2>2. FlattenSeq(ss) = <<>>
    BY <2>1, FlattenEmpty
  <2> QED
    BY <2>2
<1>2. CASE Len(ss) # 0
  <2>1. Len(ss) \in Nat /\ Len(ss) \in 1..Len(ss)
    BY <1>2
  <2>2. FlatEq(ss, Len(ss), FlatOf(ss, Len(ss)))
    BY <2>1, FlatExists
  <2>3. FlatOf(ss, Len(ss))[Len(ss)] \in Seq(R)
    BY <2>1, <2>2, FlatTyped
  <2> QED
    BY <1>2, <2>3, FlattenIs
<1> QED
  BY <1>1, <1>2

(* One more sequence comes last.                                           *)
LEMMA FlattenAppend ==
    ASSUME NEW R, NEW ss \in Seq(Seq(R)), NEW s \in Seq(R)
    PROVE  FlattenSeq(Append(ss, s)) = FlattenSeq(ss) \o s
<1>0. PICK tt : tt = Append(ss, s)
  OBVIOUS
<1>n. PICK n \in Nat : n = Len(ss)
  OBVIOUS
<1>1. tt \in Seq(Seq(R)) /\ Len(tt) = n + 1 /\ tt[n + 1] = s
  BY <1>0, <1>n
<1>1a. SameAt(ss, tt, 1..n)
  BY <1>0, <1>n DEF SameAt
<1>2. PICK f, h : f = FlatOf(ss, n) /\ h = FlatOf(tt, n + 1)
  OBVIOUS
<1>3. FlatEq(ss, n, f) /\ FlatEq(tt, n + 1, h)
  BY <1>2, FlatExists
<1>4. FlattenSeq(tt) = h[n + 1]
  <2>1. Len(tt) # 0
    BY <1>1
  <2> QED
    BY <1>1, <1>2, <2>1, FlattenIs
<1>5. h[n + 1] = (IF n = 0 THEN s ELSE h[n] \o s)
  <2>1. n \in 0..(n + 1) - 1 /\ n + 1 \in Nat
    OBVIOUS
  <2> QED
    BY <1>1, <1>3, <2>1, FlatStep
<1>6. CASE n = 0
  <2>1. ss = <<>>
    BY <1>6, <1>n
  <2>2. FlattenSeq(ss) = <<>>
    BY <2>1, FlattenEmpty
  <2>3. <<>> \o s = s
    OBVIOUS
  <2> QED
    BY <1>0, <1>4, <1>5, <1>6, <2>2, <2>3
<1>7. CASE n # 0
  <2>1. FlattenSeq(ss) = f[n]
    BY <1>7, <1>2, <1>n, FlattenIs
  <2>2. SameAt(f, h, 1..n)
    <3>1. n + 1 \in Nat /\ n <= n + 1
      OBVIOUS
    <3> QED
      BY <1>1a, <1>3, <3>1, FlatsAgree
  <2>3. f[n] = h[n]
    BY <1>7, <2>2 DEF SameAt
  <2> QED
    BY <1>0, <1>4, <1>5, <1>7, <2>1, <2>3
<1> QED
  BY <1>6, <1>7
(* What holds of no item and passes on to one item more holds of every     *)
(* sequence.                                                               *)
LEMMA ItemByItem ==
    ASSUME NEW X, NEW s \in Seq(X), NEW Good, <<>> \in Good,
           \A t \in Seq(X), x \in X : t \in Good => Append(t, x) \in Good
    PROVE  s \in Good
<1>0. PICK n \in Nat : n = Len(s)
  OBVIOUS
<1> DEFINE part(k) == SubSeq(s, 1, k)
           Reached == {k \in 0..n : part(k) \in Good}
<1>1. 0 \in Reached
  <2>1. part(0) = <<>> /\ 0 \in 0..n
    OBVIOUS
  <2> HIDE DEF part
  <2> QED
    BY <2>1
<1>2. ASSUME NEW k \in 0..n - 1, k \in Reached PROVE k + 1 \in Reached
  <2>1. k + 1 \in 0..n /\ s[k + 1] \in X /\ part(k) \in Seq(X)
    BY <1>0
  <2>2. part(k + 1) = Append(part(k), s[k + 1])
    BY <1>0
  <2> HIDE DEF part
  <2>3. Append(part(k), s[k + 1]) \in Good
    BY <1>2, <2>1
  <2> QED
    BY <2>1, <2>2, <2>3
<1>3. \A k \in 0..n : k \in Reached
  <2> HIDE DEF Reached
  <2> QED
    BY <1>1, <1>2, UpTo
<1>4. part(n) \in Good
  BY <1>3
<1>5. part(n) = s
  BY <1>0
<1> QED
  BY <1>4, <1>5

(* A sequence with an item is its front and its last item.                 *)
LEMMA FrontAndLast ==
    ASSUME NEW X, NEW s \in Seq(X), s # <<>>
    PROVE  Front(s) \in Seq(X) /\ Last(s) \in X /\ s = Append(Front(s), Last(s))
  BY DEF Front, Last
===============================================================================
