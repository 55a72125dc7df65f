--------------------------------- MODULE Sums ---------------------------------
(***************************************************************************)
(* What a sum over a finite set does when the set or the summands change:  *)
(* the lemmas that the theorems about amounts, shares and counts rest on.  *)
(*                                                                         *)
(* MapThenSumSet is defined by recursion on the set.  The library's        *)
(* induction takes an operator, so each lemma looks at a smallest set it   *)
(* could fail for: strict inclusion is well founded on finite sets.        *)
(***************************************************************************)
EXTENDS Integers, FiniteSetsExt, FiniteSetTheorems, WellFoundedInduction, TLAPS

Sum(W, S) == MapThenSumSet(LAMBDA x : W[x], S)

(* The function that MapThenFoldSet defines by recursion. *)
Chosen(s) == CHOOSE x \in s : TRUE

IsIter(g, W, S) ==
  g = [s \in SUBSET S |->
         IF s = {} THEN 0
         ELSE W[CHOOSE x \in s : TRUE] + g[s \ {CHOOSE x \in s : TRUE}]]

Iter(W, S) ==
  CHOOSE g : g = [s \in SUBSET S |->
                    IF s = {} THEN 0
                    ELSE W[CHOOSE x \in s : TRUE] + g[s \ {CHOOSE x \in s : TRUE}]]

LEMMA SumIsIter ==
  ASSUME NEW W, NEW S
  PROVE  Sum(W, S) = Iter(W, S)[S]
BY DEF Sum, Iter, MapThenSumSet, MapThenFoldSet

LEMMA Smallest ==
  ASSUME NEW S, IsFiniteSet(S), NEW B \in SUBSET SUBSET S, B # {}
  PROVE  \E T \in B : \A U \in SUBSET T : U # T => U \notin B
<1>1. IsWellFoundedOn(StrictSubsetOrdering(S), SUBSET S)
  BY FS_StrictSubsetOrderingWellFounded, FS_FiniteSubsetsOfFinite
<1>2. PICK T \in B : \A U \in B : ~ (<<U, T>> \in StrictSubsetOrdering(S))
  <2>1. B \subseteq SUBSET S
    OBVIOUS
  <2>. QED BY <1>1, <2>1, WFMin, Zenon
<1>3. ASSUME NEW U \in SUBSET T, U # T
      PROVE  U \notin B
  BY <1>2, <1>3 DEF StrictSubsetOrdering
<1>. QED BY <1>3

LEMMA IterEmpty ==
  ASSUME NEW W, NEW S, NEW g, IsIter(g, W, S)
  PROVE  g[{}] = 0
<1>1. {} \in SUBSET S
  OBVIOUS
<1>. QED BY <1>1 DEF IsIter

LEMMA IterAt ==
  ASSUME NEW W, NEW S, NEW g, IsIter(g, W, S), NEW s \in SUBSET S, s # {}
  PROVE  g[s] = W[Chosen(s)] + g[s \ {Chosen(s)}]
BY DEF IsIter, Chosen

LEMMA IterTop ==
  ASSUME NEW W, NEW S, NEW g, IsIter(g, W, S), S # {}
  PROVE  g[S] = W[Chosen(S)] + g[S \ {Chosen(S)}]
<1>1. S \in SUBSET S
  OBVIOUS
<1>. QED BY <1>1, IterAt

LEMMA ChosenIn ==
  ASSUME NEW s, s # {}
  PROVE  Chosen(s) \in s
BY DEF Chosen

LEMMA ItersAgree ==
  ASSUME NEW W, NEW S, NEW T, NEW g, NEW h, IsFiniteSet(S),
         IsIter(g, W, S), IsIter(h, W, T)
  PROVE  \A s \in SUBSET (S \cap T) : g[s] = h[s]
<1>. DEFINE B == {s \in SUBSET (S \cap T) : g[s] # h[s]}
<1>1. SUFFICES ASSUME B # {} PROVE FALSE
  OBVIOUS
<1>2. B \in SUBSET SUBSET S
  OBVIOUS
<1>3. PICK s \in B : \A U \in SUBSET s : U # s => U \notin B
  <2>. HIDE DEF B
  <2>. QED BY <1>1, <1>2, Smallest
<1>4. s \in SUBSET S /\ s \in SUBSET T /\ g[s] # h[s]
  OBVIOUS
<1>5. s # {}
  BY <1>4, IterEmpty
<1>6. s \ {Chosen(s)} \in SUBSET s /\ s \ {Chosen(s)} # s
  BY <1>5, ChosenIn
<1>7. g[s \ {Chosen(s)}] = h[s \ {Chosen(s)}]
  BY <1>3, <1>4, <1>6
<1>8. /\ g[s] = W[Chosen(s)] + g[s \ {Chosen(s)}]
      /\ h[s] = W[Chosen(s)] + h[s \ {Chosen(s)}]
  BY <1>4, <1>5, IterAt
<1>. QED BY <1>4, <1>7, <1>8

LEMMA IterExists ==
  ASSUME NEW W, NEW S, IsFiniteSet(S)
  PROVE  IsIter(Iter(W, S), W, S)
<1>. DEFINE B == {T \in SUBSET S : ~ \E g : IsIter(g, W, T)}
<1>1. \A T : (\E g : IsIter(g, W, T)) => IsIter(Iter(W, T), W, T)
  BY Zenon DEF IsIter, Iter
<1>2. B = {}
  <2>1. SUFFICES ASSUME B # {} PROVE FALSE
    OBVIOUS
  <2>2. B \in SUBSET SUBSET S
    OBVIOUS
  <2>3. PICK T \in B : \A U \in SUBSET T : U # T => U \notin B
    <3>. HIDE DEF B
    <3>. QED BY <2>1, <2>2, Smallest
  <2>4. T \in SUBSET S /\ ~ \E g : IsIter(g, W, T)
    OBVIOUS
  <2>5. \A U \in SUBSET T : U # T => IsIter(Iter(W, U), W, U)
    <3>1. \A U \in SUBSET T : U # T => \E g : IsIter(g, W, U)
      BY <2>3, <2>4
    <3>. QED BY <3>1, <1>1
  <2>6. \A U \in SUBSET T : IsFiniteSet(U)
    BY <2>4, FS_Subset
  <2>. DEFINE Below(s) == Iter(W, s \ {Chosen(s)})[s \ {Chosen(s)}]
              g == [s \in SUBSET T |->
                      IF s = {} THEN 0 ELSE W[Chosen(s)] + Below(s)]
  <2>7. ASSUME NEW s \in SUBSET T, s # {}
        PROVE  g[s \ {Chosen(s)}] = Below(s)
    <3>. DEFINE u == s \ {Chosen(s)}
    <3>1. u \in SUBSET T /\ u # T
      BY <2>7, ChosenIn
    <3>2. IsIter(Iter(W, u), W, u)
      BY <3>1, <2>5
    <3>3. CASE u = {}
      <4>1. Iter(W, u)[u] = 0
        BY <3>2, <3>3, IterEmpty
      <4>2. g[u] = 0
        BY <3>1, <3>3
      <4>. QED BY <4>1, <4>2
    <3>4. CASE u # {}
      <4>. DEFINE v == u \ {Chosen(u)}
      <4>1. v \in SUBSET u /\ v # u /\ v # T /\ v \in SUBSET T
        BY <3>1, <3>4, ChosenIn
      <4>2. IsIter(Iter(W, v), W, v)
        BY <4>1, <2>5
      <4>3. Iter(W, u)[v] = Iter(W, v)[v]
        BY <4>1, <4>2, <3>1, <3>2, <2>6, ItersAgree
      <4>4. Iter(W, u)[u] = W[Chosen(u)] + Iter(W, u)[v]
        <5>. HIDE DEF u
        <5>. QED BY <3>2, <3>4, IterTop
      <4>5. g[u] = W[Chosen(u)] + Iter(W, v)[v]
        BY <3>1, <3>4
      <4>. QED BY <4>3, <4>4, <4>5
    <3>. QED BY <3>3, <3>4
  <2>8. g = [s \in SUBSET T |->
               IF s = {} THEN 0 ELSE W[Chosen(s)] + g[s \ {Chosen(s)}]]
    <3>1. \A s \in SUBSET T :
            (IF s = {} THEN 0 ELSE W[Chosen(s)] + Below(s))
              = (IF s = {} THEN 0 ELSE W[Chosen(s)] + g[s \ {Chosen(s)}])
      BY <2>7
    <3>. HIDE DEF Below
    <3>. QED BY <3>1
  <2>9. IsIter(g, W, T)
    BY <2>8 DEF IsIter, Chosen
  <2>. QED BY <2>4, <2>9
<1>3. S \in SUBSET S
  OBVIOUS
<1>. QED BY <1>1, <1>2, <1>3

(* The sum over the empty set, and the element that the definition takes. *)
LEMMA SumEmpty ==
  ASSUME NEW W
  PROVE  Sum(W, {}) = 0
<1>1. IsIter(Iter(W, {}), W, {})
  BY IterExists, FS_EmptySet
<1>. QED BY <1>1, SumIsIter, IterEmpty

LEMMA SumChosen ==
  ASSUME NEW W, NEW S, IsFiniteSet(S), S # {}
  PROVE  Sum(W, S) = W[Chosen(S)] + Sum(W, S \ {Chosen(S)})
<1>. DEFINE U == S \ {Chosen(S)}
<1>1. U \in SUBSET S /\ IsFiniteSet(U)
  BY FS_Subset
<1>2. IsIter(Iter(W, S), W, S) /\ IsIter(Iter(W, U), W, U)
  BY <1>1, IterExists
<1>3. Iter(W, S)[U] = Iter(W, U)[U]
  BY <1>1, <1>2, ItersAgree
<1>4. Iter(W, S)[S] = W[Chosen(S)] + Iter(W, S)[U]
  BY <1>2, IterAt
<1>. QED BY <1>3, <1>4, SumIsIter

Ints(W, S) == \A x \in S : W[x] \in Int

LEMMA SumInt ==
  ASSUME NEW W, NEW S, IsFiniteSet(S), Ints(W, S)
  PROVE  Sum(W, S) \in Int
<1>. DEFINE B == {T \in SUBSET S : Sum(W, T) \notin Int}
<1>1. SUFFICES ASSUME B # {} PROVE FALSE
  OBVIOUS
<1>2. B \in SUBSET SUBSET S
  OBVIOUS
<1>3. PICK T \in B : \A U \in SUBSET T : U # T => U \notin B
  <2>. HIDE DEF B
  <2>. QED BY <1>1, <1>2, Smallest
<1>4. T \in SUBSET S /\ Sum(W, T) \notin Int
  OBVIOUS
<1>5. T # {}
  BY <1>4, SumEmpty
<1>6. T \ {Chosen(T)} \in SUBSET T /\ T \ {Chosen(T)} # T /\ Chosen(T) \in S
  BY <1>4, <1>5, ChosenIn
<1>7. Sum(W, T \ {Chosen(T)}) \in Int
  BY <1>3, <1>4, <1>6
<1>8. Sum(W, T) = W[Chosen(T)] + Sum(W, T \ {Chosen(T)})
  BY <1>4, <1>5, FS_Subset, SumChosen
<1>9. W[Chosen(T)] \in Int
  BY <1>6 DEF Ints
<1>. QED BY <1>4, <1>7, <1>8, <1>9

(* Any element may be taken: the sum does not depend on the order. *)
LEMMA SumTake ==
  ASSUME NEW W, NEW S, IsFiniteSet(S), Ints(W, S), NEW e \in S
  PROVE  Sum(W, S) = W[e] + Sum(W, S \ {e})
<1>. DEFINE B == {T \in SUBSET S : \E x \in T : Sum(W, T) # W[x] + Sum(W, T \ {x})}
<1>1. B = {}
  <2>1. SUFFICES ASSUME B # {} PROVE FALSE
    OBVIOUS
  <2>2. B \in SUBSET SUBSET S
    OBVIOUS
  <2>3. PICK T \in B : \A U \in SUBSET T : U # T => U \notin B
    <3>. HIDE DEF B
    <3>. QED BY <2>1, <2>2, Smallest
  <2>4. T \in SUBSET S
    OBVIOUS
  <2>5. PICK x \in T : Sum(W, T) # W[x] + Sum(W, T \ {x})
    OBVIOUS
  <2>. DEFINE c == Chosen(T)
  <2>6. c \in T /\ Sum(W, T) = W[c] + Sum(W, T \ {c})
    BY <2>4, ChosenIn, SumChosen, FS_Subset
  <2>7. x # c
    BY <2>5, <2>6
  <2>8. Sum(W, T \ {c}) = W[x] + Sum(W, (T \ {c}) \ {x})
    <3>1. T \ {c} \in SUBSET T /\ T \ {c} # T /\ T \ {c} \in SUBSET S /\ x \in T \ {c}
      BY <2>4, <2>6, <2>7
    <3>2. T \ {c} \notin B
      BY <3>1, <2>3
    <3>. QED BY <3>1, <3>2
  <2>9. Sum(W, T \ {x}) = W[c] + Sum(W, (T \ {x}) \ {c})
    <3>1. T \ {x} \in SUBSET T /\ T \ {x} # T /\ T \ {x} \in SUBSET S /\ c \in T \ {x}
      BY <2>4, <2>6, <2>7
    <3>2. T \ {x} \notin B
      BY <3>1, <2>3
    <3>. QED BY <3>1, <3>2
  <2>10. (T \ {x}) \ {c} = (T \ {c}) \ {x}
    OBVIOUS
  <2>11. Sum(W, (T \ {c}) \ {x}) \in Int
    <3>1. IsFiniteSet((T \ {c}) \ {x})
      BY <2>4, FS_Subset
    <3>2. Ints(W, (T \ {c}) \ {x})
      BY <2>4 DEF Ints
    <3>. QED BY <3>1, <3>2, SumInt
  <2>12. W[x] \in Int /\ W[c] \in Int
    BY <2>4, <2>6 DEF Ints
  <2>13. Sum(W, T) = W[x] + Sum(W, T \ {x})
    <3>. DEFINE n == Sum(W, (T \ {c}) \ {x})
    <3>1. Sum(W, T) = W[c] + (W[x] + n)
      BY <2>6, <2>8
    <3>2. Sum(W, T \ {x}) = W[c] + n
      BY <2>9, <2>10
    <3>. HIDE DEF n, c
    <3>3. n \in Int
      BY <2>11 DEF n
    <3>. QED BY <3>1, <3>2, <3>3, <2>12
  <2>. QED BY <2>5, <2>13
<1>2. S \notin B
  BY <1>1
<1>. QED BY <1>2

LEMMA SumAdd ==
  ASSUME NEW W, NEW S, IsFiniteSet(S), Ints(W, S), NEW e, e \notin S, W[e] \in Int
  PROVE  Sum(W, S \cup {e}) = W[e] + Sum(W, S)
<1>1. IsFiniteSet(S \cup {e})
  BY FS_AddElement
<1>2. Ints(W, S \cup {e}) /\ e \in S \cup {e} /\ (S \cup {e}) \ {e} = S
  BY DEF Ints
<1>. QED BY <1>1, <1>2, SumTake

(* Only the summands of the set count. *)
LEMMA SumSame ==
  ASSUME NEW W, NEW V, NEW S, IsFiniteSet(S), \A x \in S : W[x] = V[x]
  PROVE  Sum(W, S) = Sum(V, S)
<1>. DEFINE B == {T \in SUBSET S : Sum(W, T) # Sum(V, T)}
<1>1. SUFFICES ASSUME B # {} PROVE FALSE
  OBVIOUS
<1>2. B \in SUBSET SUBSET S
  OBVIOUS
<1>3. PICK T \in B : \A U \in SUBSET T : U # T => U \notin B
  <2>. HIDE DEF B
  <2>. QED BY <1>1, <1>2, Smallest
<1>4. T \in SUBSET S /\ Sum(W, T) # Sum(V, T)
  OBVIOUS
<1>5. T # {}
  BY <1>4, SumEmpty
<1>6. T \ {Chosen(T)} \in SUBSET T /\ T \ {Chosen(T)} # T /\ Chosen(T) \in S
  BY <1>4, <1>5, ChosenIn
<1>7. Sum(W, T \ {Chosen(T)}) = Sum(V, T \ {Chosen(T)})
  BY <1>3, <1>4, <1>6
<1>8. /\ Sum(W, T) = W[Chosen(T)] + Sum(W, T \ {Chosen(T)})
      /\ Sum(V, T) = V[Chosen(T)] + Sum(V, T \ {Chosen(T)})
  BY <1>4, <1>5, FS_Subset, SumChosen
<1>. QED BY <1>4, <1>6, <1>7, <1>8

(* The sum over two sets that share nothing. *)
LEMMA SumUnion ==
  ASSUME NEW W, NEW S, NEW T, IsFiniteSet(S), IsFiniteSet(T), S \cap T = {},
         Ints(W, S), Ints(W, T)
  PROVE  Sum(W, S \cup T) = Sum(W, S) + Sum(W, T)
<1>. DEFINE B == {U \in SUBSET T : Sum(W, S \cup U) # Sum(W, S) + Sum(W, U)}
<1>1. SUFFICES ASSUME B # {} PROVE FALSE
  <2>1. T \notin B
    OBVIOUS
  <2>. QED BY <2>1
<1>2. B \in SUBSET SUBSET T
  OBVIOUS
<1>3. PICK U \in B : \A X \in SUBSET U : X # U => X \notin B
  <2>. HIDE DEF B
  <2>. QED BY <1>1, <1>2, Smallest
<1>4. U \in SUBSET T /\ Sum(W, S \cup U) # Sum(W, S) + Sum(W, U)
  OBVIOUS
<1>5. Sum(W, S) \in Int
  BY SumInt
<1>6. CASE U = {}
  <2>1. S \cup U = S
    BY <1>6
  <2>. QED BY <1>4, <1>5, <1>6, <2>1, SumEmpty
<1>7. CASE U # {}
  <2>1. PICK e \in U : TRUE
    BY <1>7
  <2>. DEFINE X == U \ {e}
  <2>2. X \in SUBSET U /\ X # U /\ X \in SUBSET T /\ e \notin S /\ e \in T
    BY <1>4
  <2>3. Sum(W, S \cup X) = Sum(W, S) + Sum(W, X)
    BY <1>3, <2>2
  <2>4. IsFiniteSet(X) /\ IsFiniteSet(S \cup X) /\ Ints(W, X) /\ Ints(W, S \cup X)
    <3>1. IsFiniteSet(X)
      BY <2>2, FS_Subset
    <3>2. IsFiniteSet(S \cup X)
      BY <3>1, FS_Union
    <3>. QED BY <3>1, <3>2, <2>2 DEF Ints
  <2>5. W[e] \in Int
    BY <2>2 DEF Ints
  <2>6. Sum(W, U) = W[e] + Sum(W, X)
    <3>1. X \cup {e} = U /\ e \notin X
      OBVIOUS
    <3>. QED BY <3>1, <2>4, <2>5, SumAdd
  <2>7. Sum(W, S \cup U) = W[e] + Sum(W, S \cup X)
    <3>1. (S \cup X) \cup {e} = S \cup U /\ e \notin S \cup X
      BY <2>2
    <3>. QED BY <3>1, <2>4, <2>5, SumAdd
  <2>8. Sum(W, X) \in Int
    BY <2>4, SumInt
  <2>. QED BY <1>4, <1>5, <2>3, <2>5, <2>6, <2>7, <2>8
<1>. QED BY <1>6, <1>7

(* A sum is at least each part of it, when no summand is negative, and      *)
(* grows with its summands.                                                 *)
LEMMA SumNat ==
  ASSUME NEW W, NEW S, IsFiniteSet(S), \A x \in S : W[x] \in Nat
  PROVE  Sum(W, S) \in Nat
<1>. DEFINE B == {T \in SUBSET S : Sum(W, T) \notin Nat}
<1>1. SUFFICES ASSUME B # {} PROVE FALSE
  OBVIOUS
<1>2. B \in SUBSET SUBSET S
  OBVIOUS
<1>3. PICK T \in B : \A U \in SUBSET T : U # T => U \notin B
  <2>. HIDE DEF B
  <2>. QED BY <1>1, <1>2, Smallest
<1>4. T \in SUBSET S /\ Sum(W, T) \notin Nat
  OBVIOUS
<1>5. T # {}
  BY <1>4, SumEmpty
<1>6. T \ {Chosen(T)} \in SUBSET T /\ T \ {Chosen(T)} # T /\ Chosen(T) \in S
  BY <1>4, <1>5, ChosenIn
<1>7. Sum(W, T \ {Chosen(T)}) \in Nat
  BY <1>3, <1>4, <1>6
<1>8. Sum(W, T) = W[Chosen(T)] + Sum(W, T \ {Chosen(T)})
  BY <1>4, <1>5, FS_Subset, SumChosen
<1>. QED BY <1>4, <1>6, <1>7, <1>8

LEMMA SumPart ==
  ASSUME NEW W, NEW S, IsFiniteSet(S), NEW T \in SUBSET S, \A x \in S : W[x] \in Nat
  PROVE  Sum(W, T) <= Sum(W, S)
<1>1. IsFiniteSet(T) /\ IsFiniteSet(S \ T)
  BY FS_Subset
<1>2. /\ \A x \in T : W[x] \in Nat
      /\ \A x \in S \ T : W[x] \in Nat
      /\ Ints(W, T) /\ Ints(W, S \ T) /\ T \cap (S \ T) = {} /\ T \cup (S \ T) = S
  BY DEF Ints
<1>3. Sum(W, T) \in Nat /\ Sum(W, S \ T) \in Nat
  BY <1>1, <1>2, SumNat
<1>4. Sum(W, S) = Sum(W, T) + Sum(W, S \ T)
  <2>. DEFINE R == S \ T
  <2>1. Sum(W, T \cup R) = Sum(W, T) + Sum(W, R)
    <3>. HIDE DEF R
    <3>. QED BY <1>1, <1>2, SumUnion DEF R
  <2>. QED BY <1>2, <2>1
<1>. QED BY <1>3, <1>4

(* Summing up by key: the sums of the elements with each key make the sum   *)
(* of all.                                                                  *)
LEMMA SumByKey ==
  ASSUME NEW W, NEW S, IsFiniteSet(S), Ints(W, S), NEW K, NEW C, IsFiniteSet(C),
         \A x \in S : K[x] \in C,
         NEW F,
         \A k \in C : \E T \in SUBSET S :
                         F[k] = Sum(W, T) /\ \A x \in S : x \in T <=> K[x] = k
  PROVE  Sum(F, C) = Sum(W, S)
<1>. DEFINE Of(D) == {x \in S : K[x] \in D}
            B == {D \in SUBSET C : Sum(F, D) # Sum(W, Of(D))}
<1>1. B = {}
  <2>1. SUFFICES ASSUME B # {} PROVE FALSE
    OBVIOUS
  <2>2. B \in SUBSET SUBSET C
    OBVIOUS
  <2>3. PICK D \in B : \A U \in SUBSET D : U # D => U \notin B
    <3>. HIDE DEF B
    <3>. QED BY <2>1, <2>2, Smallest
  <2>4. D \in SUBSET C /\ Sum(F, D) # Sum(W, Of(D))
    OBVIOUS
  <2>5. D # {}
    <3>1. Of({}) = {}
      OBVIOUS
    <3>. HIDE DEF Of
    <3>. QED BY <2>4, <3>1, SumEmpty
  <2>. DEFINE k == Chosen(D)  E == D \ {k}  X == {x \in S : K[x] = k}
  <2>6. k \in D /\ k \in C /\ E \in SUBSET D /\ E # D /\ E \in SUBSET C
    BY <2>4, <2>5, ChosenIn
  <2>7. Sum(F, E) = Sum(W, Of(E))
    <3>1. E \notin B
      BY <2>3, <2>6
    <3>. QED BY <2>6, <3>1
  <2>8. Sum(F, D) = F[k] + Sum(F, E)
    BY <2>4, <2>5, FS_Subset, SumChosen
  <2>9. Of(D) = Of(E) \cup X /\ Of(E) \cap X = {}
    BY <2>6
  <2>10. IsFiniteSet(Of(E)) /\ IsFiniteSet(X) /\ Ints(W, Of(E)) /\ Ints(W, X)
    <3>1. Of(E) \in SUBSET S /\ X \in SUBSET S
      OBVIOUS
    <3>. HIDE DEF Of, X
    <3>. QED BY <3>1, FS_Subset DEF Ints
  <2>11. F[k] = Sum(W, X)
    <3>1. PICK T \in SUBSET S : F[k] = Sum(W, T) /\ \A x \in S : x \in T <=> K[x] = k
      BY <2>6
    <3>2. T = X
      BY <3>1
    <3>. QED BY <3>1, <3>2
  <2>12. Sum(W, Of(D)) = Sum(W, Of(E)) + Sum(W, X)
    <3>. HIDE DEF Of, X, E
    <3>. QED BY <2>9, <2>10, SumUnion
  <2>13. Sum(W, Of(E)) \in Int /\ Sum(W, X) \in Int
    <3>. HIDE DEF Of, X, E
    <3>. QED BY <2>10, SumInt
  <2>14. Sum(F, D) = Sum(W, Of(D))
    <3>. HIDE DEF Of, X, E, k
    <3>. QED BY <2>7, <2>8, <2>11, <2>12, <2>13
  <2>. QED BY <2>4, <2>14
<1>2. C \notin B /\ Of(C) = S
  BY <1>1
<1>. HIDE DEF Of
<1>. QED BY <1>2

(* One summand changes. *)
LEMMA SumChange ==
  ASSUME NEW W, NEW V, NEW S, IsFiniteSet(S), Ints(W, S), Ints(V, S), NEW e \in S,
         \A x \in S : x # e => W[x] = V[x]
  PROVE  Sum(V, S) = Sum(W, S) - W[e] + V[e]
<1>1. IsFiniteSet(S \ {e}) /\ Ints(W, S \ {e})
  BY FS_Subset DEF Ints
<1>2. Sum(W, S \ {e}) = Sum(V, S \ {e})
  BY <1>1, SumSame
<1>3. Sum(W, S) = W[e] + Sum(W, S \ {e}) /\ Sum(V, S) = V[e] + Sum(V, S \ {e})
  BY SumTake
<1>4. Sum(W, S \ {e}) \in Int /\ W[e] \in Int /\ V[e] \in Int
  BY <1>1, SumInt DEF Ints
<1>. QED BY <1>2, <1>3, <1>4

(* Each summand shrinks, or stays. *)
LEMMA SumLess ==
  ASSUME NEW W, NEW V, NEW S, IsFiniteSet(S), Ints(W, S), Ints(V, S),
         \A x \in S : W[x] <= V[x]
  PROVE  Sum(W, S) <= Sum(V, S)
<1>. DEFINE B == {T \in SUBSET S : ~ (Sum(W, T) <= Sum(V, T))}
<1>1. SUFFICES ASSUME B # {} PROVE FALSE
  OBVIOUS
<1>2. B \in SUBSET SUBSET S
  OBVIOUS
<1>3. PICK T \in B : \A U \in SUBSET T : U # T => U \notin B
  <2>. HIDE DEF B
  <2>. QED BY <1>1, <1>2, Smallest
<1>4. T \in SUBSET S /\ ~ (Sum(W, T) <= Sum(V, T))
  OBVIOUS
<1>5. T # {}
  BY <1>4, SumEmpty
<1>. DEFINE c == Chosen(T)  U == T \ {c}
<1>6. U \in SUBSET T /\ U # T /\ U \in SUBSET S /\ c \in S
  BY <1>4, <1>5, ChosenIn
<1>7. Sum(W, U) <= Sum(V, U)
  BY <1>3, <1>6
<1>8. Sum(W, T) = W[c] + Sum(W, U) /\ Sum(V, T) = V[c] + Sum(V, U)
  BY <1>4, <1>5, FS_Subset, SumChosen
<1>9. Sum(W, U) \in Int /\ Sum(V, U) \in Int
  BY <1>6, FS_Subset, SumInt DEF Ints
<1>10. W[c] \in Int /\ V[c] \in Int /\ W[c] <= V[c]
  BY <1>6 DEF Ints
<1>. HIDE DEF c, U
<1>. QED BY <1>4, <1>7, <1>8, <1>9, <1>10

(* What sums to something has a summand. *)
LEMMA SumPositive ==
  ASSUME NEW W, NEW S, IsFiniteSet(S), \A x \in S : W[x] \in Nat, Sum(W, S) > 0
  PROVE  \E x \in S : W[x] > 0
<1>. DEFINE B == {T \in SUBSET S : Sum(W, T) # 0}
<1>1. SUFFICES ASSUME \A x \in S : W[x] = 0 PROVE FALSE
  OBVIOUS
<1>2. B \in SUBSET SUBSET S /\ B # {}
  OBVIOUS
<1>3. PICK T \in B : \A U \in SUBSET T : U # T => U \notin B
  <2>. HIDE DEF B
  <2>. QED BY <1>2, Smallest
<1>4. T \in SUBSET S /\ Sum(W, T) # 0
  OBVIOUS
<1>5. T # {}
  BY <1>4, SumEmpty
<1>6. T \ {Chosen(T)} \in SUBSET T /\ T \ {Chosen(T)} # T /\ Chosen(T) \in S
  BY <1>4, <1>5, ChosenIn
<1>7. Sum(W, T \ {Chosen(T)}) = 0
  BY <1>3, <1>4, <1>6
<1>8. Sum(W, T) = W[Chosen(T)] + Sum(W, T \ {Chosen(T)})
  BY <1>4, <1>5, FS_Subset, SumChosen
<1>. QED BY <1>1, <1>4, <1>6, <1>7, <1>8

LEMMA Least ==
  ASSUME NEW S \in SUBSET Nat, S # {}
  PROVE  \E x \in S : \A y \in S : x <= y
<1>. DEFINE R == {ss \in Nat \X Nat : ss[1] < ss[2]}
<1>1. IsWellFoundedOn(R, Nat)
  BY NatLessThanWellFounded, Zenon DEF OpToRel
<1>2. PICK x \in S : \A y \in S : ~ (<<y, x>> \in R)
  <2>. HIDE DEF R
  <2>. QED BY <1>1, WFMin
<1>3. ASSUME NEW y \in S PROVE x <= y
  <2>1. y \in Nat /\ x \in Nat
    OBVIOUS
  <2>2. y < x => <<y, x>> \in R
    BY <2>1
  <2>. HIDE DEF R
  <2>. QED BY <1>2, <2>1, <2>2
<1>. QED BY <1>3

LEMMA Greatest ==
  ASSUME NEW n \in Nat, NEW S \in SUBSET (0..n), S # {}
  PROVE  Max(S) \in S /\ \A y \in S : y <= Max(S)
<1>. DEFINE R == {n - y : y \in S}
<1>1. R \in SUBSET Nat /\ R # {}
  <2>1. ASSUME NEW y \in S PROVE n - y \in Nat
    OBVIOUS
  <2>. QED BY <2>1
<1>2. PICK r \in R : \A z \in R : r <= z
  <2>. HIDE DEF R
  <2>. QED BY <1>1, Least
<1>3. PICK x \in S : r = n - x
  OBVIOUS
<1>4. \A y \in S : x >= y
  BY <1>2, <1>3
<1>5. Max(S) \in S /\ \A y \in S : Max(S) >= y
  BY <1>4, Zenon DEF Max
<1>. QED BY <1>5
================================================================================
