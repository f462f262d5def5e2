------------------------------ MODULE SumTheorems ------------------------------
(***************************************************************************)
(* What a sum over a finite set is.  MapThenSumSet, by which the model     *)
(* counts characters, is defined by a recursive function; that the         *)
(* function exists, and what it returns when an element is added, taken    *)
(* away or changed, is induction over the size of the set.  The induction  *)
(* theorems of the library take the predicate as a parameter; Least, which *)
(* follows from the well-foundedness of < on Nat, has a set in its place,  *)
(* and each induction below looks at the smallest size that fails.         *)
(***************************************************************************)
EXTENDS Integers, FiniteSets, FiniteSetsExt, FiniteSetTheorems, WellFoundedInduction, TLAPS

\* The element the fold takes first.
First(s) == CHOOSE x \in s : TRUE

\* h is the fold's recursive function for the weights w, on the subsets of S.
Folds(h, w, S) ==
    h = [s \in SUBSET S |-> IF s = {} THEN 0 ELSE w[First(s)] + h[s \ {First(s)}]]

\* The sum of the weights of S.
SumOf(w, S) == MapThenSumSet(LAMBDA i : w[i], S)

--------------------------------------------------------------------------------
(* Of two numbers *)

\* The smaller one.
LEMMA MinTwo == ASSUME NEW a \in Int, NEW b \in Int PROVE Min({a, b}) = IF a <= b THEN a ELSE b
BY DEF Min

\* The greater one.
LEMMA MaxTwo == ASSUME NEW a \in Int, NEW b \in Int PROVE Max({a, b}) = IF a >= b THEN a ELSE b
BY DEF Max

--------------------------------------------------------------------------------
(* Induction *)

\* Every set of natural numbers that is not empty has a least element.
LEMMA Least ==
    ASSUME NEW T \in SUBSET Nat, T # {}
    PROVE  \E n \in T : \A m \in T : n <= m
<1>1. \E n \in T : \A m \in T : ~(<<m, n>> \in OpToRel(<, Nat))
  BY WFMin, NatLessThanWellFounded
<1>2. PICK n \in T : \A m \in T : ~(<<m, n>> \in OpToRel(<, Nat))
  BY <1>1
<1>3. \A m \in T : ~(m < n)
  BY <1>2 DEF OpToRel
<1> QED BY <1>3

\* Of any finite sets there is one none of whose smaller companions is among
\* them: what fails for some finite set fails for a smallest one.
LEMMA LeastSet ==
    ASSUME NEW F, F # {}, \A S \in F : IsFiniteSet(S)
    PROVE  \E S \in F : \A T \in F : Cardinality(S) <= Cardinality(T)
<1> DEFINE N == {Cardinality(S) : S \in F}
<1>1. N \in SUBSET Nat /\ N # {}
  BY FS_CardinalityType
<1>2. PICK n \in N : \A m \in N : n <= m
  BY <1>1, Least
<1> QED BY <1>2

\* Taking the first element away makes a finite set smaller.
LEMMA TakeFirst ==
    ASSUME NEW S, IsFiniteSet(S), S # {}
    PROVE  /\ First(S) \in S /\ S \ {First(S)} \subseteq S /\ First(S) \notin S \ {First(S)}
           /\ IsFiniteSet(S \ {First(S)})
           /\ Cardinality(S) \in Nat /\ Cardinality(S \ {First(S)}) \in Nat
           /\ Cardinality(S \ {First(S)}) < Cardinality(S)
<1>1. First(S) \in S
  BY DEF First
<1>2. /\ IsFiniteSet(S \ {First(S)}) /\ Cardinality(S \ {First(S)}) = Cardinality(S) - 1
  BY <1>1, FS_RemoveElement
<1>3. Cardinality(S) \in Nat /\ Cardinality(S \ {First(S)}) \in Nat
  BY <1>2, FS_CardinalityType
<1> QED BY <1>1, <1>2, <1>3

--------------------------------------------------------------------------------
(* The fold's function exists and is one *)

\* Two of them agree wherever both are defined.
LEMMA FoldsAgree ==
    ASSUME NEW w, NEW A, NEW B, NEW g, NEW h, Folds(g, w, A), Folds(h, w, B),
           NEW S, IsFiniteSet(S), S \subseteq A, S \subseteq B
    PROVE  g[S] = h[S]
<1> DEFINE F == {T \in SUBSET S : g[T] # h[T]}
<1> SUFFICES ASSUME F # {} PROVE FALSE
  OBVIOUS
<1>1. \A T \in F : IsFiniteSet(T)
  BY FS_Subset
<1>2. PICK T \in F : \A U \in F : Cardinality(T) <= Cardinality(U)
  BY <1>1, LeastSet
<1>3. T \subseteq S /\ g[T] # h[T] /\ IsFiniteSet(T)
  BY <1>1, <1>2
<1>4. /\ g[T] = IF T = {} THEN 0 ELSE w[First(T)] + g[T \ {First(T)}]
      /\ h[T] = IF T = {} THEN 0 ELSE w[First(T)] + h[T \ {First(T)}]
  <2>1. T \in SUBSET A /\ T \in SUBSET B
    BY <1>3
  <2> QED BY <2>1 DEF Folds
<1>5. T # {}
  BY <1>3, <1>4
<1>6. g[T \ {First(T)}] = h[T \ {First(T)}]
  <2>1. T \ {First(T)} \subseteq S
    BY <1>3
  <2>2. ~(Cardinality(T) <= Cardinality(T \ {First(T)}))
    BY <1>3, <1>5, TakeFirst
  <2> QED BY <1>2, <2>1, <2>2
<1> QED BY <1>3, <1>4, <1>6

\* There is one on the subsets of every finite set.
LEMMA FoldsExist ==
    ASSUME NEW w, NEW S, IsFiniteSet(S)
    PROVE  \E h : Folds(h, w, S)
<1> DEFINE F == {T \in SUBSET S : ~ \E h : Folds(h, w, T)}
<1> SUFFICES ASSUME F # {} PROVE FALSE
  OBVIOUS
<1>1. \A T \in F : IsFiniteSet(T)
  BY FS_Subset
<1>2. PICK T \in F : \A U \in F : Cardinality(T) <= Cardinality(U)
  BY <1>1, LeastSet
<1>3. T \subseteq S /\ IsFiniteSet(T) /\ ~ \E h : Folds(h, w, T)
  BY <1>1, <1>2
<1> DEFINE K(u) == CHOOSE h : Folds(h, w, u)
           H == [s \in SUBSET T |->
                   IF s = {} THEN 0 ELSE w[First(s)] + K(s \ {First(s)})[s \ {First(s)}]]
<1>4. ASSUME NEW s \in SUBSET T, s # {}
      PROVE  Folds(K(s \ {First(s)}), w, s \ {First(s)})
  <2>1. IsFiniteSet(s) /\ Cardinality(s) <= Cardinality(T) /\ Cardinality(T) \in Nat
    BY <1>3, FS_Subset, FS_CardinalityType
  <2>2. /\ Cardinality(s) \in Nat /\ Cardinality(s \ {First(s)}) \in Nat
        /\ Cardinality(s \ {First(s)}) < Cardinality(s)
    BY <1>4, <2>1, TakeFirst
  <2>3. s \ {First(s)} \in SUBSET S /\ ~(Cardinality(T) <= Cardinality(s \ {First(s)}))
    BY <1>3, <2>1, <2>2
  <2>4. \E h : Folds(h, w, s \ {First(s)})
    BY <1>2, <2>3
  <2> QED BY <2>4
<1>5. ASSUME NEW s \in SUBSET T, s # {}
      PROVE  H[s \ {First(s)}] = K(s \ {First(s)})[s \ {First(s)}]
  <2> DEFINE u == s \ {First(s)}
             v == u \ {First(u)}
  <2>1. u \in SUBSET T /\ Folds(K(u), w, u) /\ IsFiniteSet(u)
    <3>1. u \in SUBSET T
      OBVIOUS
    <3>2. IsFiniteSet(u)
      BY <1>3, <3>1, FS_Subset
    <3> QED BY <1>4, <1>5, <3>1, <3>2
  <2>2. H[u] = IF u = {} THEN 0 ELSE w[First(u)] + K(v)[v]
    BY <2>1
  <2>3. K(u)[u] = IF u = {} THEN 0 ELSE w[First(u)] + K(u)[v]
    <3>1. u \in SUBSET u
      OBVIOUS
    <3> HIDE DEF K, u
    <3> QED BY <2>1, <3>1 DEF Folds
  <2>4. ASSUME u # {} PROVE K(v)[v] = K(u)[v]
    <3>1. Folds(K(v), w, v)
      BY <1>4, <2>1, <2>4
    <3>2. IsFiniteSet(v) /\ v \subseteq v /\ v \subseteq u
      BY <2>1, <2>4, TakeFirst
    <3> HIDE DEF K, u, v
    <3> QED BY <2>1, <3>1, <3>2, FoldsAgree
  <2> HIDE DEF K, u, v, H
  <2>5. H[u] = K(u)[u]
    BY <2>2, <2>3, <2>4
  <2> QED BY <2>5 DEF u
<1>6. ASSUME NEW s \in SUBSET T
      PROVE  H[s] = IF s = {} THEN 0 ELSE w[First(s)] + H[s \ {First(s)}]
  <2>1. H[s] = IF s = {} THEN 0 ELSE w[First(s)] + K(s \ {First(s)})[s \ {First(s)}]
    OBVIOUS
  <2>2. s # {} => H[s \ {First(s)}] = K(s \ {First(s)})[s \ {First(s)}]
    BY <1>5
  <2> HIDE DEF K, H
  <2> QED BY <2>1, <2>2
<1>7. H = [s \in SUBSET T |-> H[s]]
  OBVIOUS
<1> HIDE DEF H
<1>8. Folds(H, w, T)
  BY <1>6, <1>7 DEF Folds
<1> QED BY <1>3, <1>8

\* The sum is what the fold's function says of the whole set.
LEMMA SumFolds ==
    ASSUME NEW w, NEW S, IsFiniteSet(S), NEW h, Folds(h, w, S)
    PROVE  SumOf(w, S) = h[S]
<1> DEFINE g == CHOOSE f : Folds(f, w, S)
<1>1. SumOf(w, S) = g[S]
  BY DEF SumOf, MapThenSumSet, MapThenFoldSet, Folds, First
<1>2. Folds(g, w, S)
  BY FoldsExist
<1> HIDE DEF g
<1> QED BY <1>1, <1>2, FoldsAgree

--------------------------------------------------------------------------------
(* What a sum returns *)

\* Nothing adds up to nothing.
LEMMA SumEmpty == ASSUME NEW w PROVE SumOf(w, {}) = 0
<1>1. IsFiniteSet({})
  BY FS_EmptySet
<1>2. PICK h : Folds(h, w, {})
  BY <1>1, FoldsExist
<1>3. h[{}] = 0
  BY <1>2 DEF Folds
<1> QED BY <1>1, <1>2, <1>3, SumFolds

\* A sum is its first weight and the rest.
LEMMA SumFirst ==
    ASSUME NEW w, NEW S, IsFiniteSet(S), S # {}
    PROVE  SumOf(w, S) = w[First(S)] + SumOf(w, S \ {First(S)})
<1> DEFINE u == S \ {First(S)}
<1>1. PICK h : Folds(h, w, S)
  BY FoldsExist
<1>2. PICK g : Folds(g, w, u)
  BY TakeFirst, FoldsExist
<1>3. h[S] = w[First(S)] + h[u]
  BY <1>1 DEF Folds
<1>4. IsFiniteSet(u) /\ u \subseteq S
  BY TakeFirst
<1> HIDE DEF u
<1>5. h[u] = g[u]
  BY <1>1, <1>2, <1>4, FoldsAgree
<1>6. SumOf(w, S) = h[S] /\ SumOf(w, u) = g[u]
  BY <1>1, <1>2, <1>4, SumFolds
<1> QED BY <1>3, <1>5, <1>6 DEF u

\* Natural weights have a natural sum.
LEMMA SumType ==
    ASSUME NEW w, NEW S, IsFiniteSet(S), \A i \in S : w[i] \in Nat
    PROVE  SumOf(w, S) \in Nat
<1> DEFINE F == {T \in SUBSET S : SumOf(w, T) \notin Nat}
<1> SUFFICES ASSUME F # {} PROVE FALSE
  OBVIOUS
<1>1. \A T \in F : IsFiniteSet(T)
  BY FS_Subset
<1>2. PICK T \in F : \A U \in F : Cardinality(T) <= Cardinality(U)
  BY <1>1, LeastSet
<1>3. T \subseteq S /\ IsFiniteSet(T) /\ SumOf(w, T) \notin Nat
  BY <1>1, <1>2
<1>4. T # {}
  BY <1>3, SumEmpty
<1>5. SumOf(w, T \ {First(T)}) \in Nat
  <2>1. T \ {First(T)} \in SUBSET S /\ ~(Cardinality(T) <= Cardinality(T \ {First(T)}))
    BY <1>3, <1>4, TakeFirst
  <2> QED BY <1>2, <2>1
<1>6. First(T) \in S
  BY <1>3, <1>4, TakeFirst
<1> QED BY <1>3, <1>4, <1>5, <1>6, SumFirst

\* Whichever element is taken away, its weight is what the sum loses.
LEMMA SumRemove ==
    ASSUME NEW w, NEW S, IsFiniteSet(S), \A i \in S : w[i] \in Nat, NEW x \in S
    PROVE  SumOf(w, S) = w[x] + SumOf(w, S \ {x})
<1> DEFINE Loses(T) == \A y \in T : SumOf(w, T) = w[y] + SumOf(w, T \ {y})
           F == {T \in SUBSET S : ~Loses(T)}
<1> SUFFICES ASSUME F # {} PROVE FALSE
  OBVIOUS
<1>1. \A T \in F : IsFiniteSet(T)
  BY FS_Subset
<1>2. PICK T \in F : \A U \in F : Cardinality(T) <= Cardinality(U)
  <2> HIDE DEF F
  <2> QED BY <1>1, LeastSet
<1>3. PICK y \in T : T \subseteq S /\ IsFiniteSet(T) /\ SumOf(w, T) # w[y] + SumOf(w, T \ {y})
  BY <1>1, <1>2
<1> DEFINE f == First(T)
           T1 == T \ {f}
           T2 == T \ {y}
           T3 == (T \ {f}) \ {y}
<1>4. f \in T /\ T1 \subseteq S /\ ~(Cardinality(T) <= Cardinality(T1))
  BY <1>3, TakeFirst
<1>5. SumOf(w, T) = w[f] + SumOf(w, T1)
  BY <1>3, SumFirst
<1>6. y # f
  BY <1>3, <1>5
<1>7. T2 \subseteq S /\ ~(Cardinality(T) <= Cardinality(T2))
  <2>1. Cardinality(T2) = Cardinality(T) - 1 /\ Cardinality(T) \in Nat
    BY <1>3, FS_RemoveElement, FS_CardinalityType
  <2> QED BY <1>3, <2>1
<1>8. Loses(T1) /\ Loses(T2)
  <2> HIDE DEF Loses, f, T1, T2
  <2> QED BY <1>2, <1>4, <1>7
<1>9. SumOf(w, T1) = w[y] + SumOf(w, T3)
  BY <1>6, <1>8
<1>10. SumOf(w, T2) = w[f] + SumOf(w, T3)
  <2>1. f \in T2 /\ T2 \ {f} = T3
    BY <1>4, <1>6
  <2> QED BY <1>8, <2>1
<1>11. SumOf(w, T3) \in Nat /\ w[f] \in Nat /\ w[y] \in Nat
  <2>1. T3 \in SUBSET S
    BY <1>3
  <2>2. IsFiniteSet(T3)
    BY <2>1, FS_Subset
  <2>3. \A i \in T3 : w[i] \in Nat
    BY <2>1
  <2>4. SumOf(w, T3) \in Nat
    <3> HIDE DEF T3
    <3> QED BY <2>2, <2>3, SumType
  <2> QED BY <1>3, <1>4, <2>4
<1> HIDE DEF f, T1, T2, T3
<1>12. SumOf(w, T) = w[y] + SumOf(w, T2)
  BY <1>5, <1>9, <1>10, <1>11
<1> QED BY <1>3, <1>12 DEF T2

\* An element that was not there adds its weight.
LEMMA SumAdd ==
    ASSUME NEW w, NEW S, IsFiniteSet(S), \A i \in S : w[i] \in Nat,
           NEW x, x \notin S, w[x] \in Nat
    PROVE  SumOf(w, S \cup {x}) = SumOf(w, S) + w[x]
<1> DEFINE T == S \cup {x}
<1>1. IsFiniteSet(T) /\ (\A i \in T : w[i] \in Nat) /\ x \in T /\ T \ {x} = S
  BY FS_AddElement
<1>2. SumOf(w, S) \in Nat
  BY SumType
<1> HIDE DEF T
<1>3. SumOf(w, T) = w[x] + SumOf(w, S)
  BY <1>1, SumRemove
<1> QED BY <1>2, <1>3 DEF T

\* Only the weights of the elements count.
LEMMA SumSame ==
    ASSUME NEW v, NEW w, NEW S, IsFiniteSet(S), \A i \in S : v[i] = w[i]
    PROVE  SumOf(v, S) = SumOf(w, S)
<1>1. PICK h : Folds(h, v, S)
  BY FoldsExist
<1>2. ASSUME NEW s \in SUBSET S
      PROVE  h[s] = IF s = {} THEN 0 ELSE w[First(s)] + h[s \ {First(s)}]
  <2>1. h[s] = IF s = {} THEN 0 ELSE v[First(s)] + h[s \ {First(s)}]
    BY <1>1 DEF Folds
  <2>2. s # {} => First(s) \in S
    BY DEF First
  <2> QED BY <2>1, <2>2
<1>3. h = [s \in SUBSET S |-> h[s]]
  BY <1>1 DEF Folds
<1>4. Folds(h, w, S)
  BY <1>2, <1>3 DEF Folds
<1> QED BY <1>1, <1>4, SumFolds

\* Fewer elements have no greater sum.
LEMMA SumSubset ==
    ASSUME NEW w, NEW S, IsFiniteSet(S), \A i \in S : w[i] \in Nat, NEW T \in SUBSET S
    PROVE  SumOf(w, T) <= SumOf(w, S)
<1> DEFINE F == {U \in SUBSET S : T \subseteq U /\ ~(SumOf(w, T) <= SumOf(w, U))}
<1> SUFFICES ASSUME F # {} PROVE FALSE
  OBVIOUS
<1>1. \A U \in F : IsFiniteSet(U)
  BY FS_Subset
<1>2. PICK U \in F : \A V \in F : Cardinality(U) <= Cardinality(V)
  <2> HIDE DEF F
  <2> QED BY <1>1, LeastSet
<1>3. U \subseteq S /\ T \subseteq U /\ IsFiniteSet(U) /\ ~(SumOf(w, T) <= SumOf(w, U))
  BY <1>1, <1>2
<1>4. SumOf(w, T) \in Nat
  BY FS_Subset, SumType
<1>5. PICK x \in U : x \notin T
  BY <1>3, <1>4
<1> DEFINE V == U \ {x}
<1>6. V \subseteq S /\ T \subseteq V /\ IsFiniteSet(V) /\ ~(Cardinality(U) <= Cardinality(V))
  <2>1. IsFiniteSet(V) /\ Cardinality(V) = Cardinality(U) - 1 /\ Cardinality(U) \in Nat
    BY <1>3, FS_RemoveElement, FS_CardinalityType
  <2> QED BY <1>3, <1>5, <2>1
<1>7. SumOf(w, U) = w[x] + SumOf(w, V)
  BY <1>3, SumRemove
<1> HIDE DEF V
<1>8. SumOf(w, T) <= SumOf(w, V)
  BY <1>2, <1>6
<1>9. SumOf(w, V) \in Nat /\ w[x] \in Nat
  BY <1>3, <1>6, SumType
<1> QED BY <1>3, <1>4, <1>7, <1>8, <1>9

\* The sum over two sets that share nothing.
LEMMA SumUnion ==
    ASSUME NEW w, NEW S, IsFiniteSet(S), \A i \in S : w[i] \in Nat,
           NEW T \in SUBSET S, NEW R \in SUBSET S, T \cap R = {}
    PROVE  SumOf(w, T \cup R) = SumOf(w, T) + SumOf(w, R)
<1> DEFINE F == {U \in SUBSET R : SumOf(w, T \cup U) # SumOf(w, T) + SumOf(w, U)}
<1> SUFFICES ASSUME F # {} PROVE FALSE
  OBVIOUS
<1>0. IsFiniteSet(R) /\ IsFiniteSet(T)
  BY FS_Subset
<1>1. \A U \in F : IsFiniteSet(U)
  BY <1>0, FS_Subset
<1>2. PICK U \in F : \A V \in F : Cardinality(U) <= Cardinality(V)
  <2> HIDE DEF F
  <2> QED BY <1>1, LeastSet
<1>3. U \subseteq R /\ IsFiniteSet(U) /\ SumOf(w, T \cup U) # SumOf(w, T) + SumOf(w, U)
  BY <1>1, <1>2
<1>4. SumOf(w, T) \in Nat
  BY <1>0, SumType
<1>5. U # {}
  <2>1. SumOf(w, {}) = 0
    BY SumEmpty
  <2>2. T \cup {} = T
    OBVIOUS
  <2> SUFFICES ASSUME U = {} PROVE FALSE
    OBVIOUS
  <2>3. SumOf(w, T \cup U) = SumOf(w, T) /\ SumOf(w, U) = 0
    BY <2>1, <2>2
  <2> QED BY <1>3, <1>4, <2>3
<1>6. PICK x \in U : TRUE
  BY <1>5
<1> DEFINE V == U \ {x}
<1>7. V \subseteq R /\ V \subseteq U /\ x \notin V /\ U = V \cup {x} /\ IsFiniteSet(V) /\ ~(Cardinality(U) <= Cardinality(V))
  <2>1. IsFiniteSet(V) /\ Cardinality(V) = Cardinality(U) - 1 /\ Cardinality(U) \in Nat
    BY <1>3, <1>6, FS_RemoveElement, FS_CardinalityType
  <2> QED BY <1>3, <1>6, <2>1
<1> HIDE DEF V
<1>8. SumOf(w, T \cup V) = SumOf(w, T) + SumOf(w, V)
  BY <1>2, <1>7
<1>9. x \in S /\ w[x] \in Nat /\ x \notin T /\ \A i \in V : w[i] \in Nat
  BY <1>3, <1>6, <1>7
<1>10. SumOf(w, V) \in Nat
  BY <1>7, <1>9, SumType
<1>11. SumOf(w, U) = SumOf(w, V) + w[x]
  BY <1>7, <1>9, SumAdd
<1>12. IsFiniteSet(T \cup V) /\ x \notin T \cup V /\ \A i \in T \cup V : w[i] \in Nat
  BY <1>0, <1>7, <1>9, FS_Union
<1>13. SumOf(w, (T \cup V) \cup {x}) = SumOf(w, T \cup V) + w[x]
  <2> PICK W : W = T \cup V
    OBVIOUS
  <2> QED BY <1>9, <1>12, SumAdd
<1>14. T \cup U = (T \cup V) \cup {x}
  BY <1>7
<1>15. SumOf(w, T \cup U) = (SumOf(w, T) + SumOf(w, V)) + w[x]
  BY <1>8, <1>13, <1>14
<1>16. SumOf(w, U) = SumOf(w, V) + w[x] /\ SumOf(w, T \cup U) # SumOf(w, T) + SumOf(w, U)
  BY <1>3, <1>11
<1> QED BY <1>4, <1>9, <1>10, <1>15, <1>16

--------------------------------------------------------------------------------
(* The characters of some rows *)

\* What the rows of I have in characters.
CharsIn(rows, I) == MapThenSumSet(LAMBDA i : rows[i].chars, I)

\* The fold by which CharsIn counts, as a recursive function.
FoldsChars(h, rows, S) ==
    h = [s \in SUBSET S |-> IF s = {} THEN 0 ELSE rows[First(s)].chars + h[s \ {First(s)}]]

\* CharsIn is the sum of the rows' characters.
LEMMA CharsInSum ==
    ASSUME NEW rows, NEW I, IsFiniteSet(I)
    PROVE  CharsIn(rows, I) = SumOf([i \in I |-> rows[i].chars], I)
<1> DEFINE w == [i \in I |-> rows[i].chars]
           g == CHOOSE h : FoldsChars(h, rows, I)
<1>1. CharsIn(rows, I) = g[I]
  BY DEF CharsIn, MapThenSumSet, MapThenFoldSet, FoldsChars, First
<1>2. \A s \in SUBSET I : s # {} => w[First(s)] = rows[First(s)].chars
  BY DEF First
<1>3. PICK h : Folds(h, w, I)
  BY FoldsExist
<1> HIDE DEF w
<1>4. FoldsChars(h, rows, I)
  <2>1. h = [s \in SUBSET I |-> h[s]]
    BY <1>3 DEF Folds
  <2>2. \A s \in SUBSET I : h[s] = IF s = {} THEN 0 ELSE w[First(s)] + h[s \ {First(s)}]
    BY <1>3 DEF Folds
  <2>3. \A s \in SUBSET I : h[s] = IF s = {} THEN 0 ELSE rows[First(s)].chars + h[s \ {First(s)}]
    BY <1>2, <2>2
  <2> QED BY <2>1, <2>3 DEF FoldsChars
<1>5. FoldsChars(g, rows, I)
  BY <1>4
<1> HIDE DEF g
<1>6. Folds(g, w, I)
  <2>1. g = [s \in SUBSET I |-> g[s]]
    BY <1>5 DEF FoldsChars
  <2>2. \A s \in SUBSET I : g[s] = IF s = {} THEN 0 ELSE rows[First(s)].chars + g[s \ {First(s)}]
    BY <1>5 DEF FoldsChars
  <2>3. \A s \in SUBSET I : g[s] = IF s = {} THEN 0 ELSE w[First(s)] + g[s \ {First(s)}]
    BY <1>2, <2>2
  <2> QED BY <2>1, <2>3 DEF Folds
<1> QED BY <1>1, <1>6, SumFolds DEF w

\* The characters of two sets of rows that share nothing.
LEMMA CharsInUnion ==
    ASSUME NEW rows, NEW I, IsFiniteSet(I), \A i \in I : rows[i].chars \in Nat,
           NEW T \in SUBSET I, NEW R \in SUBSET I, T \cap R = {}
    PROVE  /\ CharsIn(rows, T \cup R) = CharsIn(rows, T) + CharsIn(rows, R)
           /\ CharsIn(rows, T) \in Nat /\ CharsIn(rows, R) \in Nat
<1> DEFINE w(J) == [i \in J |-> rows[i].chars]
<1> PICK v : v = w(I)
  OBVIOUS
<1>1. \A i \in I : v[i] = rows[i].chars /\ v[i] \in Nat
  OBVIOUS
<1>2. ASSUME NEW J \in SUBSET I PROVE CharsIn(rows, J) = SumOf(v, J) /\ SumOf(v, J) \in Nat
  <2>1. IsFiniteSet(J)
    BY FS_Subset
  <2>2. CharsIn(rows, J) = SumOf(w(J), J)
    BY <2>1, CharsInSum
  <2>3. \A i \in J : w(J)[i] = v[i] /\ v[i] \in Nat
    BY <1>1
  <2> HIDE DEF w
  <2> QED BY <2>1, <2>2, <2>3, SumSame, SumType
<1>3. SumOf(v, T \cup R) = SumOf(v, T) + SumOf(v, R)
  BY <1>1, SumUnion
<1>4. T \cup R \in SUBSET I
  OBVIOUS
<1> HIDE DEF w
<1> QED BY <1>2, <1>3, <1>4

\* Rows with the same characters.
LEMMA CharsInSame ==
    ASSUME NEW rows, NEW stored, NEW I, IsFiniteSet(I), \A i \in I : rows[i].chars = stored[i].chars
    PROVE  CharsIn(rows, I) = CharsIn(stored, I)
<1> DEFINE v == [i \in I |-> rows[i].chars]
           w == [i \in I |-> stored[i].chars]
<1>1. CharsIn(rows, I) = SumOf(v, I) /\ CharsIn(stored, I) = SumOf(w, I)
  BY CharsInSum
<1>2. \A i \in I : v[i] = w[i]
  OBVIOUS
<1> HIDE DEF v, w
<1> QED BY <1>1, <1>2, SumSame
================================================================================
