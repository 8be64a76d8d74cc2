----------------------------- MODULE FiniteSums -----------------------------
(***************************************************************************)
(* Facts about the sum of a function over a finite set, that proofs about  *)
(* counters rest on.                                                       *)
(***************************************************************************)
EXTENDS Integers, FiniteSets, FiniteSetsExt, FiniteSetTheorems, WellFoundedInduction, NaturalsInduction, TLAPS

LEMMA LessIsRelated ==
  ASSUME NEW p \in Nat, NEW q \in Nat, q < p
  PROVE  <<q, p>> \in OpToRel(<, Nat)
BY Zenon DEF OpToRel

LEMMA NatWellFounded ==
  \E R : IsWellFoundedOn(R, Nat) /\ \A p, q \in Nat : q < p => <<q, p>> \in R
BY Zenon, NatLessThanWellFounded, LessIsRelated

\* A set of natural numbers has a least element.
LEMMA Least ==
  ASSUME NEW S \in SUBSET Nat, S # {}
  PROVE  \E p \in S : \A q \in S : p <= q
<1>1. PICK R : IsWellFoundedOn(R, Nat) /\ \A p, q \in Nat : q < p => <<q, p>> \in R
  BY NatWellFounded
<1>2. PICK p \in S : \A q \in S : <<q, p>> \notin R
  BY <1>1, WFMin
<1>3. ASSUME NEW q \in S PROVE p <= q
  <2>1. p \in Nat /\ q \in Nat /\ ~(q < p)
    BY <1>1, <1>2
  <2>. QED BY <2>1
<1>. QED BY <1>3

\* Of sets of finite sets: one of the smallest.
LEMMA Smallest ==
  ASSUME NEW F, F # {}, \A A \in F : IsFiniteSet(A)
  PROVE  \E A \in F : \A B \in F : B \subseteq A => B = A
<1>. DEFINE Sizes == {Cardinality(A) : A \in F}
<1>1. Sizes \in SUBSET Nat /\ Sizes # {}
  BY FS_CardinalityType
<1>2. PICK n \in Sizes : \A m \in Sizes : n <= m
  BY <1>1, Least
<1>3. PICK A \in F : Cardinality(A) = n
  BY <1>2
<1>4. ASSUME NEW B \in F, B \subseteq A, B # A PROVE FALSE
  <2>1. IsFiniteSet(A) /\ IsFiniteSet(B) /\ B \in SUBSET A
    BY <1>4
  <2>2. Cardinality(B) <= Cardinality(A) /\ Cardinality(B) # Cardinality(A)
    BY <1>4, <2>1, FS_Subset
  <2>3. n <= Cardinality(B)
    BY <1>2
  <2>4. Cardinality(B) \in Nat /\ Cardinality(A) \in Nat
    BY <2>1, FS_CardinalityType
  <2>. QED BY <1>3, <2>2, <2>3, <2>4
<1>. QED BY <1>4

-----------------------------------------------------------------------------
(* The sum as the model writes it, and the recursive function behind it.   *)

Total(f, S) == MapThenSumSet(LAMBDA x : f[x], S)

Chosen(S) == CHOOSE x \in S : TRUE

Sums(f, S, iter) ==
    iter = [s \in SUBSET S |-> IF s = {} THEN 0 ELSE f[Chosen(s)] + iter[s \ {Chosen(s)}]]

LEMMA TotalDef ==
  ASSUME NEW f, NEW S
  PROVE  Total(f, S) = (CHOOSE iter : Sums(f, S, iter))[S]
BY Zenon DEF Total, MapThenSumSet, MapThenFoldSet, Sums, Chosen

\* Two such functions agree on the sets that both are defined on.
LEMMA SumsAgree ==
  ASSUME NEW f, NEW S, NEW T, NEW g, NEW h, Sums(f, S, g), Sums(f, T, h),
         NEW A, A \subseteq S, A \subseteq T, IsFiniteSet(A)
  PROVE  g[A] = h[A]
<1>. DEFINE F == {B \in SUBSET A : g[B] # h[B]}
<1>1. SUFFICES ASSUME F # {} PROVE FALSE
  BY DEF F
<1>2. \A B \in F : IsFiniteSet(B)
  BY FS_Subset
<1>3. PICK B \in F : \A C \in F : C \subseteq B => C = B
  <2>. HIDE DEF F
  <2>. QED BY <1>1, <1>2, Smallest
<1>4. B # {}
  BY DEF Sums
<1>5. Chosen(B) \in B
  BY <1>4 DEF Chosen
<1>6. g[B \ {Chosen(B)}] = h[B \ {Chosen(B)}]
  BY <1>3, <1>5
<1>7. g[B] = f[Chosen(B)] + g[B \ {Chosen(B)}] /\ h[B] = f[Chosen(B)] + h[B \ {Chosen(B)}]
  BY <1>4 DEF Sums
<1>. QED BY <1>6, <1>7

\* There is one for every finite set.
LEMMA SumsExist ==
  ASSUME NEW f, NEW S, IsFiniteSet(S)
  PROVE  \E g : Sums(f, S, g)
<1>. DEFINE F == {B \in SUBSET S : ~\E g : Sums(f, B, g)}
<1>1. SUFFICES ASSUME F # {} PROVE FALSE
  BY DEF F
<1>2. \A B \in F : IsFiniteSet(B)
  BY FS_Subset
<1>3. PICK B \in F : \A C \in F : C \subseteq B => C = B
  <2>. HIDE DEF F
  <2>. QED BY <1>1, <1>2, Smallest
<1>. DEFINE h[C \in SUBSET B] == CHOOSE g : Sums(f, C, g)
            Rest(C) == C \ {Chosen(C)}
            g == [C \in SUBSET B |-> IF C = {} THEN 0 ELSE f[Chosen(C)] + h[Rest(C)][Rest(C)]]
<1>4. ASSUME NEW C \in SUBSET B, C # B PROVE Sums(f, C, h[C])
  BY <1>3, <1>4
<1>5. ASSUME NEW C \in SUBSET B, C # {} PROVE Rest(C) \in SUBSET B /\ Rest(C) # B /\ IsFiniteSet(Rest(C))
  <2>1. Chosen(C) \in C
    BY <1>5 DEF Chosen
  <2>2. IsFiniteSet(B)
    BY <1>2
  <2>. QED BY <2>1, <2>2, FS_Subset
<1>. HIDE DEF h
<1>6. ASSUME NEW C \in SUBSET B, C # {} PROVE h[Rest(C)][Rest(C)] = g[Rest(C)]
  <2>. DEFINE D == Rest(C)
  <2>1. CASE D = {}
    BY <1>4, <1>5, <1>6, <2>1 DEF Sums
  <2>2. CASE D # {}
    <3>1. Rest(D) \subseteq D /\ D \subseteq B /\ D # B /\ Rest(D) # B /\ IsFiniteSet(Rest(D))
      BY <1>5, <1>6, <2>2
    <3>2. Sums(f, D, h[D]) /\ Sums(f, Rest(D), h[Rest(D)])
      BY <1>4, <3>1
    <3>3. h[D][D] = f[Chosen(D)] + h[D][Rest(D)]
      BY <2>2, <3>2 DEF Sums
    <3>4. h[D][Rest(D)] = h[Rest(D)][Rest(D)]
      <4>. DEFINE E == Rest(D)
                  hD == h[D]
                  hE == h[E]
      <4>1. Sums(f, D, hD) /\ Sums(f, E, hE) /\ E \subseteq D /\ IsFiniteSet(E)
        BY <3>1, <3>2
      <4>. HIDE DEF D, E, hD, hE
      <4>2. hD[E] = hE[E]
        BY <4>1, SumsAgree
      <4>. QED BY <4>2 DEF D, E, hD, hE
    <3>. QED BY <2>2, <3>1, <3>3, <3>4
  <2>. QED BY <2>1, <2>2
<1>7. Sums(f, B, g)
  BY <1>6 DEF Sums
<1>. QED BY <1>7

-----------------------------------------------------------------------------
LEMMA TotalEmpty ==
  ASSUME NEW f
  PROVE  Total(f, {}) = 0
<1>1. PICK g : Sums(f, {}, g)
  BY SumsExist, FS_EmptySet
<1>2. Sums(f, {}, CHOOSE iter : Sums(f, {}, iter))
  BY <1>1
<1>. QED BY <1>2, TotalDef DEF Sums

LEMMA TotalChosen ==
  ASSUME NEW f, NEW S, IsFiniteSet(S), S # {}
  PROVE  /\ Chosen(S) \in S
         /\ Total(f, S) = f[Chosen(S)] + Total(f, S \ {Chosen(S)})
<1>. DEFINE R == S \ {Chosen(S)}
            g == CHOOSE iter : Sums(f, S, iter)
            h == CHOOSE iter : Sums(f, R, iter)
<1>1. Chosen(S) \in S
  BY DEF Chosen
<1>2. IsFiniteSet(R)
  BY FS_Subset
<1>3. Sums(f, S, g) /\ Sums(f, R, h)
  BY <1>2, SumsExist
<1>. HIDE DEF g, h
<1>4. g[R] = h[R]
  BY <1>2, <1>3, SumsAgree
<1>5. g[S] = f[Chosen(S)] + g[R]
  BY <1>3 DEF Sums
<1>6. Total(f, S) = g[S] /\ Total(f, R) = h[R]
  BY TotalDef DEF g, h
<1>. QED BY <1>1, <1>4, <1>5, <1>6

\* A sum of natural numbers is one.
LEMMA TotalType ==
  ASSUME NEW f, NEW S, IsFiniteSet(S), \A x \in S : f[x] \in Nat
  PROVE  Total(f, S) \in Nat
<1>. DEFINE F == {A \in SUBSET S : Total(f, A) \notin Nat}
<1>1. SUFFICES ASSUME F # {} PROVE FALSE
  BY DEF F
<1>2. \A B \in F : IsFiniteSet(B)
  BY FS_Subset
<1>3. PICK B \in F : \A C \in F : C \subseteq B => C = B
  <2>. HIDE DEF F
  <2>. QED BY <1>1, <1>2, Smallest
<1>4. B # {}
  BY TotalEmpty
<1>5. Chosen(B) \in B /\ Total(f, B) = f[Chosen(B)] + Total(f, B \ {Chosen(B)})
  BY <1>2, <1>4, TotalChosen
<1>6. Total(f, B \ {Chosen(B)}) \in Nat
  BY <1>3, <1>5
<1>. QED BY <1>5, <1>6

\* Any element may be the one that is taken out first.
LEMMA TotalRemove ==
  ASSUME NEW f, NEW S, IsFiniteSet(S), \A x \in S : f[x] \in Nat, NEW a \in S
  PROVE  Total(f, S) = f[a] + Total(f, S \ {a})
<1>. DEFINE Good(A, b) == Total(f, A) = f[b] + Total(f, A \ {b})
            F == {A \in SUBSET S : \E b \in A : ~Good(A, b)}
<1>1. SUFFICES ASSUME F # {} PROVE FALSE
  BY DEF F
<1>2. \A B \in F : IsFiniteSet(B)
  BY FS_Subset
<1>3. PICK B \in F : \A C \in F : C \subseteq B => C = B
  <2>. HIDE DEF F
  <2>. QED BY <1>1, <1>2, Smallest
<1>4. PICK b \in B : ~Good(B, b)
  BY <1>3
<1>. DEFINE c == Chosen(B)
            R == B \ {b, c}
<1>5. c \in B /\ Good(B, c)
  BY <1>2, <1>4, TotalChosen
<1>. HIDE DEF c
<1>6. b # c
  BY <1>4, <1>5
<1>7. Good(B \ {c}, b) /\ Good(B \ {b}, c)
  BY <1>3, <1>4, <1>5, <1>6
<1>8. (B \ {c}) \ {b} = R /\ (B \ {b}) \ {c} = R
  OBVIOUS
<1>9. Total(f, R) \in Nat
  <2>1. R \in SUBSET S /\ IsFiniteSet(R)
    BY FS_Subset
  <2>. QED BY <2>1, TotalType
<1>. QED BY <1>4, <1>5, <1>7, <1>8, <1>9

\* The sum depends on f's values on the set alone, ...
LEMMA TotalSame ==
  ASSUME NEW f, NEW g, NEW S, IsFiniteSet(S), \A x \in S : f[x] = g[x]
  PROVE  Total(f, S) = Total(g, S)
<1>. DEFINE F == {A \in SUBSET S : Total(f, A) # Total(g, A)}
<1>1. SUFFICES ASSUME F # {} PROVE FALSE
  BY DEF F
<1>2. \A B \in F : IsFiniteSet(B)
  BY FS_Subset
<1>3. PICK B \in F : \A C \in F : C \subseteq B => C = B
  <2>. HIDE DEF F
  <2>. QED BY <1>1, <1>2, Smallest
<1>4. B # {}
  BY TotalEmpty
<1>5. /\ Chosen(B) \in B
      /\ Total(f, B) = f[Chosen(B)] + Total(f, B \ {Chosen(B)})
      /\ Total(g, B) = g[Chosen(B)] + Total(g, B \ {Chosen(B)})
  BY <1>2, <1>4, TotalChosen
<1>. QED BY <1>3, <1>5

\* ... and moves with one of them as that one moves.
LEMMA TotalUpdate ==
  ASSUME NEW f, NEW g, NEW S, IsFiniteSet(S), NEW a \in S,
         \A x \in S : f[x] \in Nat /\ g[x] \in Nat,
         \A x \in S \ {a} : f[x] = g[x]
  PROVE  /\ Total(f, S) \in Nat /\ Total(g, S) \in Nat
         /\ f[a] <= Total(f, S)
         /\ Total(g, S) = Total(f, S) - f[a] + g[a]
<1>. DEFINE R == S \ {a}
<1>1. IsFiniteSet(R)
  BY FS_Subset
<1>2. Total(f, R) = Total(g, R) /\ Total(f, R) \in Nat
  BY <1>1, TotalSame, TotalType
<1>3. Total(f, S) = f[a] + Total(f, R) /\ Total(g, S) = g[a] + Total(g, R)
  BY TotalRemove
<1>. QED BY <1>2, <1>3

\* A sum over more elements is no smaller.
LEMMA TotalAdd ==
  ASSUME NEW f, NEW S, IsFiniteSet(S), NEW a, a \notin S, \A x \in S \cup {a} : f[x] \in Nat
  PROVE  Total(f, S \cup {a}) = Total(f, S) + f[a] /\ Total(f, S) \in Nat
<1>1. IsFiniteSet(S \cup {a})
  BY FS_AddElement
<1>2. Total(f, S \cup {a}) = f[a] + Total(f, (S \cup {a}) \ {a})
  BY <1>1, TotalRemove
<1>3. (S \cup {a}) \ {a} = S
  OBVIOUS
<1>4. Total(f, S) \in Nat /\ f[a] \in Nat
  BY TotalType
<1>. QED BY <1>2, <1>3, <1>4

LEMMA TotalZero ==
  ASSUME NEW f, NEW S, IsFiniteSet(S), \A x \in S : f[x] = 0
  PROVE  Total(f, S) = 0
<1>. DEFINE F == {A \in SUBSET S : Total(f, A) # 0}
<1>1. SUFFICES ASSUME F # {} PROVE FALSE
  BY DEF F
<1>2. \A B \in F : IsFiniteSet(B)
  BY FS_Subset
<1>3. PICK B \in F : \A C \in F : C \subseteq B => C = B
  <2>. HIDE DEF F
  <2>. QED BY <1>1, <1>2, Smallest
<1>4. B # {}
  BY TotalEmpty
<1>5. Chosen(B) \in B /\ Total(f, B) = f[Chosen(B)] + Total(f, B \ {Chosen(B)})
  BY <1>2, <1>4, TotalChosen
<1>. QED BY <1>3, <1>5
=============================================================================
