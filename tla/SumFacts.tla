------------------------------ MODULE SumFacts ------------------------------
(***************************************************************************)
(* What the sums of the budgets obey.  SumFunctionOnSet(f, S) is a fold,   *)
(* defined by recursion over the subsets of S: that the recursion defines  *)
(* a function is shown here from the well-foundedness of the naturals, by  *)
(* smallest counterexamples, and then that an element can be taken out of  *)
(* a sum, and what a change of a function or a set does to one.            *)
(***************************************************************************)
EXTENDS Integers, FiniteSets, Functions, FiniteSetTheorems, WellFoundedInduction, TLAPS

\* A nonempty set of natural numbers has a least one.
LEMMA LeastNatural ==
    ASSUME NEW T \in SUBSET Nat, T # {}
    PROVE  \E n \in T : \A m \in T : n <= m
<1> DEFINE R == OpToRel(<, Nat)
<1>1. IsWellFoundedOn(R, Nat)
  BY NatLessThanWellFounded
<1>2. \A x, y \in Nat : y < x => <<y, x>> \in R
  BY DEF OpToRel
<1> HIDE DEF R
<1>3. PICK x \in T : \A y \in T : ~ (<<y, x>> \in R)
  BY <1>1, WFMin
<1>4. \A y \in T : ~ (y < x)
  BY <1>2, <1>3
<1>5. \A y \in T : x <= y
  BY <1>4
<1> QED BY <1>5

\* Among sets there is one no proper subset of which is another: a claim about
\* every finite set has a smallest counterexample, or none.
LEMMA SmallestSet ==
    ASSUME NEW S, IsFiniteSet(S), NEW Bad \in SUBSET SUBSET S, Bad # {}
    PROVE  \E B \in Bad : IsFiniteSet(B) /\ \A x \in B : B \ {x} \notin Bad
<1> DEFINE Sizes == {Cardinality(B) : B \in Bad}
<1>1. \A B \in Bad : IsFiniteSet(B) /\ Cardinality(B) \in Nat
  BY FS_Subset, FS_CardinalityType
<1>2. PICK n \in Sizes : \A m \in Sizes : n <= m
  <2>1. Sizes \in SUBSET Nat /\ Sizes # {}
    BY <1>1
  <2> HIDE DEF Sizes
  <2> QED BY <2>1, LeastNatural
<1>3. PICK B \in Bad : Cardinality(B) = n
  OBVIOUS
<1>4. \A C \in Bad : Cardinality(B) <= Cardinality(C)
  BY <1>2, <1>3
<1>5. ASSUME NEW x \in B PROVE B \ {x} \notin Bad
  <2>1. Cardinality(B \ {x}) = Cardinality(B) - 1
    BY <1>1, FS_RemoveElement
  <2>2. ~ (Cardinality(B) <= Cardinality(B \ {x}))
    BY <1>1, <2>1
  <2> QED BY <1>4, <2>2
<1> QED BY <1>1, <1>5

-----------------------------------------------------------------------------
(***************************************************************************)
(* The recursion.                                                          *)
(***************************************************************************)

SomeOf(s) == CHOOSE x \in s : TRUE

\* g sums f over every subset of D.
SumsUpTo(g, f, D) ==
    g = [s \in SUBSET D |-> IF s = {} THEN 0 ELSE f[SomeOf(s)] + g[s \ {SomeOf(s)}]]

Sums(f, D) == CHOOSE g : SumsUpTo(g, f, D)

LEMMA SumIsSums == \A f, S : SumFunctionOnSet(f, S) = Sums(f, S)[S]
<1> SUFFICES ASSUME NEW f, NEW S PROVE SumFunctionOnSet(f, S) = Sums(f, S)[S]
  OBVIOUS
<1> QED BY DEF SumFunctionOnSet, FoldFunctionOnSet, MapThenFoldSet, Sums, SumsUpTo, SomeOf

LEMMA SomeOfIn == \A s : s # {} => SomeOf(s) \in s
BY DEF SomeOf

LEMMA SumsAt ==
    ASSUME NEW g, NEW f, NEW D, SumsUpTo(g, f, D), NEW s \in SUBSET D
    PROVE  g[s] = IF s = {} THEN 0 ELSE f[SomeOf(s)] + g[s \ {SomeOf(s)}]
<1> DEFINE h == [t \in SUBSET D |-> IF t = {} THEN 0 ELSE f[SomeOf(t)] + g[t \ {SomeOf(t)}]]
<1>1. g = h
  BY DEF SumsUpTo
<1>2. h[s] = IF s = {} THEN 0 ELSE f[SomeOf(s)] + g[s \ {SomeOf(s)}]
  OBVIOUS
<1> HIDE DEF h
<1> QED BY <1>1, <1>2

\* Two such functions agree where both are defined.
LEMMA SumsAgree ==
    ASSUME NEW f, NEW D, NEW E, IsFiniteSet(D), NEW g, NEW h, SumsUpTo(g, f, D), SumsUpTo(h, f, E),
           NEW s \in SUBSET D, s \in SUBSET E
    PROVE  g[s] = h[s]
<1> DEFINE Bad == {t \in SUBSET D : t \in SUBSET E /\ g[t] # h[t]}
<1> SUFFICES ASSUME Bad # {} PROVE FALSE
  OBVIOUS
<1>1. PICK B \in Bad : \A x \in B : B \ {x} \notin Bad
  <2>1. Bad \in SUBSET SUBSET D
    OBVIOUS
  <2> HIDE DEF Bad
  <2> QED BY <2>1, SmallestSet
<1>2. B \in SUBSET D /\ B \in SUBSET E /\ g[B] # h[B]
  OBVIOUS
<1>3. /\ g[B] = IF B = {} THEN 0 ELSE f[SomeOf(B)] + g[B \ {SomeOf(B)}]
      /\ h[B] = IF B = {} THEN 0 ELSE f[SomeOf(B)] + h[B \ {SomeOf(B)}]
  BY <1>2, SumsAt
<1>4. B # {} => g[B \ {SomeOf(B)}] = h[B \ {SomeOf(B)}]
  BY <1>1, <1>2, SomeOfIn
<1> QED BY <1>2, <1>3, <1>4

\* The recursion defines a function: over a smallest set it did not, one could
\* be put together from those over the sets with one element less.
LEMMA SumsExist ==
    ASSUME NEW f, NEW S, IsFiniteSet(S)
    PROVE  SumsUpTo(Sums(f, S), f, S)
<1> DEFINE Bad == {D \in SUBSET S : ~ \E g : SumsUpTo(g, f, D)}
<1>1. ASSUME NEW B \in SUBSET S, IsFiniteSet(B), \A x \in B : B \ {x} \notin Bad
      PROVE  \E g : SumsUpTo(g, f, B)
  <2> DEFINE G(x) == Sums(f, B \ {x})
             g == [s \in SUBSET B |-> IF s = {} THEN 0 ELSE f[SomeOf(s)] + G(SomeOf(s))[s \ {SomeOf(s)}]]
  <2>1. \A x \in B : SumsUpTo(G(x), f, B \ {x}) /\ IsFiniteSet(B \ {x})
    <3> SUFFICES ASSUME NEW x \in B PROVE SumsUpTo(G(x), f, B \ {x}) /\ IsFiniteSet(B \ {x})
      OBVIOUS
    <3>1. \E h : SumsUpTo(h, f, B \ {x})
      BY <1>1
    <3> QED BY <1>1, <3>1, FS_RemoveElement DEF Sums
  <2>2. \A s \in SUBSET B : g[s] = IF s = {} THEN 0 ELSE f[SomeOf(s)] + G(SomeOf(s))[s \ {SomeOf(s)}]
    OBVIOUS
  <2>3. g = [s \in SUBSET B |-> g[s]]
    OBVIOUS
  <2> HIDE DEF G, g
  <2>4. ASSUME NEW s \in SUBSET B, s # {} PROVE G(SomeOf(s))[s \ {SomeOf(s)}] = g[s \ {SomeOf(s)}]
    <3> DEFINE a == SomeOf(s)
               t == s \ {a}
               b == SomeOf(t)
               u == t \ {b}
    <3>1. a \in B /\ t \in SUBSET (B \ {a}) /\ t \in SUBSET B
      BY <2>4, SomeOfIn
    <3>2. t # {} => b \in B /\ u \in SUBSET (B \ {a}) /\ u \in SUBSET (B \ {b})
      BY <2>4, SomeOfIn
    <3> HIDE DEF a
    <3>3. SumsUpTo(G(a), f, B \ {a}) /\ IsFiniteSet(B \ {a})
      BY <2>1, <3>1
    <3> HIDE DEF t
    <3>4. G(a)[t] = IF t = {} THEN 0 ELSE f[b] + G(a)[u]
      BY <3>1, <3>3, SumsAt
    <3>5. g[t] = IF t = {} THEN 0 ELSE f[b] + G(b)[u]
      BY <2>2, <3>1
    <3> HIDE DEF b, u
    <3>6. t # {} => SumsUpTo(G(b), f, B \ {b}) /\ IsFiniteSet(B \ {b})
      BY <2>1, <3>2
    <3>7. t # {} => G(b)[u] = G(a)[u]
      <4> SUFFICES ASSUME t # {} PROVE G(b)[u] = G(a)[u]
        OBVIOUS
      <4>1. SumsUpTo(G(b), f, B \ {b}) /\ IsFiniteSet(B \ {b})
        BY <3>6
      <4>2. u \in SUBSET (B \ {a}) /\ u \in SUBSET (B \ {b})
        BY <3>2
      <4> QED BY <3>3, <4>1, <4>2, SumsAgree
    <3>8. G(a)[t] = g[t]
      BY <3>4, <3>5, <3>7
    <3> QED BY <3>8 DEF t, a
  <2>5. g = [s \in SUBSET B |-> IF s = {} THEN 0 ELSE f[SomeOf(s)] + g[s \ {SomeOf(s)}]]
    <3>1. \A s \in SUBSET B : g[s] = IF s = {} THEN 0 ELSE f[SomeOf(s)] + g[s \ {SomeOf(s)}]
      BY <2>2, <2>4
    <3> QED BY <2>3, <3>1
  <2> QED BY <2>5 DEF SumsUpTo
<1>2. Bad = {}
  <2> SUFFICES ASSUME Bad # {} PROVE FALSE
    OBVIOUS
  <2>1. PICK B \in Bad : IsFiniteSet(B) /\ \A x \in B : B \ {x} \notin Bad
    <3>1. Bad \in SUBSET SUBSET S
      OBVIOUS
    <3> HIDE DEF Bad
    <3> QED BY <3>1, SmallestSet
  <2> QED BY <1>1, <2>1
<1>3. \E g : SumsUpTo(g, f, S)
  BY <1>2
<1> QED BY <1>3 DEF Sums

\* The sum over nothing, and the sum without the element that is chosen first.
LEMMA SumUnfolds ==
    ASSUME NEW f, NEW S, IsFiniteSet(S)
    PROVE  SumFunctionOnSet(f, S) =
             IF S = {} THEN 0 ELSE f[SomeOf(S)] + SumFunctionOnSet(f, S \ {SomeOf(S)})
<1> DEFINE T == S \ {SomeOf(S)}
<1>1. Sums(f, S)[S] = IF S = {} THEN 0 ELSE f[SomeOf(S)] + Sums(f, S)[T]
  BY SumsExist, SumsAt
<1>2. Sums(f, S)[T] = Sums(f, T)[T]
  <2>1. T \in SUBSET S /\ T \in SUBSET T /\ IsFiniteSet(T)
    BY FS_RemoveElement
  <2> HIDE DEF T
  <2> QED BY <2>1, SumsExist, SumsAgree
<1> HIDE DEF T
<1> QED BY <1>1, <1>2, SumIsSums DEF T

-----------------------------------------------------------------------------
(***************************************************************************)
(* Sums of integers.                                                       *)
(***************************************************************************)

LEMMA SumIsInt ==
    ASSUME NEW f, NEW S, IsFiniteSet(S), \A x \in S : f[x] \in Int
    PROVE  SumFunctionOnSet(f, S) \in Int
<1> DEFINE Bad == {T \in SUBSET S : SumFunctionOnSet(f, T) \notin Int}
<1> SUFFICES ASSUME Bad # {} PROVE FALSE
  OBVIOUS
<1>1. PICK B \in Bad : IsFiniteSet(B) /\ \A x \in B : B \ {x} \notin Bad
  <2>1. Bad \in SUBSET SUBSET S
    OBVIOUS
  <2> HIDE DEF Bad
  <2> QED BY <2>1, SmallestSet
<1>2. SumFunctionOnSet(f, B) = IF B = {} THEN 0 ELSE f[SomeOf(B)] + SumFunctionOnSet(f, B \ {SomeOf(B)})
  BY <1>1, SumUnfolds
<1>3. B # {} => f[SomeOf(B)] \in Int /\ SumFunctionOnSet(f, B \ {SomeOf(B)}) \in Int
  BY <1>1, SomeOfIn
<1> QED BY <1>1, <1>2, <1>3

\* SomeOf element can be taken out.
LEMMA SumWithout ==
    ASSUME NEW f, NEW S, IsFiniteSet(S), \A x \in S : f[x] \in Int, NEW a \in S
    PROVE  SumFunctionOnSet(f, S) = f[a] + SumFunctionOnSet(f, S \ {a})
<1> DEFINE Sum(T) == SumFunctionOnSet(f, T)
           Bad == {T \in SUBSET S : \E x \in T : Sum(T) # f[x] + Sum(T \ {x})}
<1>1. \A T \in SUBSET S : IsFiniteSet(T) /\ Sum(T) \in Int
  BY FS_Subset, SumIsInt
<1>2. Bad = {}
  <2> SUFFICES ASSUME Bad # {} PROVE FALSE
    OBVIOUS
  <2>1. PICK B \in Bad : \A x \in B : B \ {x} \notin Bad
    <3>1. Bad \in SUBSET SUBSET S
      OBVIOUS
    <3> HIDE DEF Bad
    <3> QED BY <3>1, SmallestSet
  <2>2. PICK x \in B : Sum(B) # f[x] + Sum(B \ {x})
    OBVIOUS
  <2> DEFINE p == SomeOf(B)
  <2>3. B \in SUBSET S /\ p \in B /\ p # x
    <3>1. Sum(B) = f[p] + Sum(B \ {p})
      BY <1>1, <2>2, SumUnfolds
    <3> QED BY <2>2, <3>1, SomeOfIn
  <2>4. Sum(B) = f[p] + Sum(B \ {p})
    BY <1>1, <2>2, SumUnfolds
  <2> HIDE DEF p
  <2>5. Sum(B \ {p}) = f[x] + Sum((B \ {p}) \ {x})
    BY <2>1, <2>3
  <2>6. Sum(B \ {x}) = f[p] + Sum((B \ {x}) \ {p})
    BY <2>1, <2>3
  <2>7. (B \ {p}) \ {x} = (B \ {x}) \ {p} /\ (B \ {p}) \ {x} \in SUBSET S
    BY <2>3
  <2> DEFINE s == Sum((B \ {x}) \ {p})
  <2>8. f[x] \in Int /\ f[p] \in Int /\ s \in Int
    BY <1>1, <2>3, <2>7
  <2>9. Sum(B) = f[p] + (f[x] + s) /\ Sum(B \ {x}) = f[p] + s
    BY <2>4, <2>5, <2>6, <2>7
  <2> HIDE DEF s, Sum
  <2>10. Sum(B) = f[x] + Sum(B \ {x})
    BY <2>8, <2>9
  <2> QED BY <2>2, <2>10
<1> QED BY <1>2

LEMMA SumOfNone == \A f : SumFunctionOnSet(f, {}) = 0
BY FS_EmptySet, SumUnfolds

\* Greater terms, and more of them that are not negative, make no smaller sum.
LEMMA SumMonotone ==
    ASSUME NEW f, NEW g, NEW T, IsFiniteSet(T), NEW S \in SUBSET T,
           \A x \in S : f[x] \in Int /\ f[x] <= g[x],
           \A x \in T : g[x] \in Int /\ (x \notin S => 0 <= g[x])
    PROVE  SumFunctionOnSet(f, S) <= SumFunctionOnSet(g, T)
<1> DEFINE F(U) == SumFunctionOnSet(f, U)
           G(U) == SumFunctionOnSet(g, U)
           Bad == {U \in SUBSET T : ~ (F(S \cap U) <= G(U))}
<1>1. ASSUME NEW U \in SUBSET T PROVE /\ IsFiniteSet(U) /\ IsFiniteSet(S \cap U)
                                      /\ F(S \cap U) \in Int /\ G(U) \in Int
  <2>1. IsFiniteSet(U) /\ IsFiniteSet(S \cap U)
    BY FS_Subset
  <2> QED BY <2>1, SumIsInt
<1>2. Bad = {}
  <2> SUFFICES ASSUME Bad # {} PROVE FALSE
    OBVIOUS
  <2>1. PICK B \in Bad : \A x \in B : B \ {x} \notin Bad
    <3>1. Bad \in SUBSET SUBSET T
      OBVIOUS
    <3> HIDE DEF Bad
    <3> QED BY <3>1, SmallestSet
  <2>2. B \in SUBSET T /\ ~ (F(S \cap B) <= G(B))
    OBVIOUS
  <2>3. B # {}
    <3>1. S \cap {} = {} /\ F({}) = 0 /\ G({}) = 0
      BY SumOfNone
    <3> HIDE DEF F, G
    <3> QED BY <2>2, <3>1
  <2>4. PICK x \in B : TRUE
    BY <2>3
  <2> DEFINE C == B \ {x}
  <2>5. C \in SUBSET T /\ F(S \cap C) <= G(C)
    BY <2>1, <2>2
  <2>6. G(B) = g[x] + G(C)
    <3>1. \A y \in B : g[y] \in Int
      BY <2>2
    <3> QED BY <1>1, <2>2, <3>1, SumWithout
  <2>7. x \in S => F(S \cap B) = f[x] + F(S \cap C)
    <3> SUFFICES ASSUME x \in S PROVE F(S \cap B) = f[x] + F(S \cap C)
      OBVIOUS
    <3>1. x \in S \cap B /\ (S \cap B) \ {x} = S \cap C /\ \A y \in S \cap B : f[y] \in Int
      OBVIOUS
    <3> HIDE DEF C
    <3>2. F(S \cap B) = f[x] + F((S \cap B) \ {x})
      BY <1>1, <2>2, <3>1, SumWithout
    <3> QED BY <3>1, <3>2
  <2>8. x \notin S => S \cap B = S \cap C
    OBVIOUS
  <2>9. F(S \cap C) \in Int /\ G(C) \in Int /\ F(S \cap B) \in Int /\ G(B) \in Int
    BY <1>1, <2>2, <2>5
  <2>10. g[x] \in Int /\ (x \in S => f[x] \in Int /\ f[x] <= g[x]) /\ (x \notin S => 0 <= g[x])
    BY <2>2
  <2> HIDE DEF F, G, C
  <2>11. CASE x \in S
    BY <2>2, <2>5, <2>6, <2>7, <2>9, <2>10, <2>11
  <2>12. CASE x \notin S
    <3>1. F(S \cap B) = F(S \cap C) /\ 0 <= g[x]
      BY <2>8, <2>10, <2>12
    <3> QED BY <2>2, <2>5, <2>6, <2>9, <2>10, <3>1
  <2> QED BY <2>11, <2>12
<1>3. S \cap T = S /\ T \in SUBSET T
  OBVIOUS
<1> QED BY <1>2, <1>3

\* Only the values on a set matter to the sum over it.
LEMMA SumSame ==
    ASSUME NEW f, NEW g, NEW S, IsFiniteSet(S), \A x \in S : f[x] \in Int /\ f[x] = g[x]
    PROVE  SumFunctionOnSet(f, S) = SumFunctionOnSet(g, S)
<1>1. S \in SUBSET S /\ \A x \in S : /\ g[x] \in Int /\ f[x] <= g[x] /\ g[x] <= f[x]
                                     /\ (x \notin S => 0 <= g[x] /\ 0 <= f[x])
  OBVIOUS
<1>2. SumFunctionOnSet(f, S) <= SumFunctionOnSet(g, S)
  BY <1>1, SumMonotone
<1>3. SumFunctionOnSet(g, S) <= SumFunctionOnSet(f, S)
  BY <1>1, SumMonotone
<1>4. SumFunctionOnSet(f, S) \in Int /\ SumFunctionOnSet(g, S) \in Int
  BY <1>1, SumIsInt
<1> QED BY <1>2, <1>3, <1>4

\* An element is added, or one term changes.
LEMMA SumWith ==
    ASSUME NEW f, NEW S, IsFiniteSet(S), NEW a, a \notin S, \A x \in S \cup {a} : f[x] \in Int
    PROVE  SumFunctionOnSet(f, S \cup {a}) = f[a] + SumFunctionOnSet(f, S)
<1>1. (S \cup {a}) \ {a} = S /\ a \in S \cup {a} /\ IsFiniteSet(S \cup {a})
  BY FS_AddElement
<1>2. SumFunctionOnSet(f, S \cup {a}) = f[a] + SumFunctionOnSet(f, (S \cup {a}) \ {a})
  BY <1>1, SumWithout
<1> QED BY <1>1, <1>2

\* Two sets that have nothing in common.
LEMMA SumDisjoint ==
    ASSUME NEW f, NEW S, NEW T, IsFiniteSet(S), IsFiniteSet(T), S \cap T = {},
           \A x \in S \cup T : f[x] \in Int
    PROVE  SumFunctionOnSet(f, S \cup T) = SumFunctionOnSet(f, S) + SumFunctionOnSet(f, T)
<1> DEFINE F(U) == SumFunctionOnSet(f, U)
           Bad == {U \in SUBSET T : F(S \cup U) # F(S) + F(U)}
<1>1. ASSUME NEW U \in SUBSET T PROVE IsFiniteSet(U) /\ IsFiniteSet(S \cup U) /\ F(S \cup U) \in Int /\ F(U) \in Int
  <2>1. IsFiniteSet(U) /\ IsFiniteSet(S \cup U)
    BY FS_Subset, FS_Union
  <2>2. (\A x \in U : f[x] \in Int) /\ (\A x \in S \cup U : f[x] \in Int)
    OBVIOUS
  <2> QED BY <2>1, <2>2, SumIsInt
<1>2. F(S) \in Int
  BY SumIsInt
<1>3. Bad = {}
  <2> SUFFICES ASSUME Bad # {} PROVE FALSE
    OBVIOUS
  <2>1. PICK B \in Bad : \A x \in B : B \ {x} \notin Bad
    <3>1. Bad \in SUBSET SUBSET T
      OBVIOUS
    <3> HIDE DEF Bad
    <3> QED BY <3>1, SmallestSet
  <2>2. B \in SUBSET T /\ F(S \cup B) # F(S) + F(B)
    OBVIOUS
  <2>3. B # {}
    <3>1. S \cup {} = S /\ F({}) = 0
      BY SumOfNone
    <3> HIDE DEF F
    <3> QED BY <1>2, <2>2, <3>1
  <2>4. PICK x \in B : TRUE
    BY <2>3
  <2> DEFINE C == B \ {x}
  <2>5. C \in SUBSET T /\ F(S \cup C) = F(S) + F(C)
    BY <2>1, <2>2
  <2>6. F(B) = f[x] + F(C)
    <3>1. \A y \in B : f[y] \in Int
      BY <2>2
    <3> QED BY <1>1, <2>2, <3>1, SumWithout
  <2>7. F(S \cup B) = f[x] + F(S \cup C)
    <3>1. x \in S \cup B /\ (S \cup B) \ {x} = S \cup C /\ \A y \in S \cup B : f[y] \in Int
      BY <2>2
    <3>2. IsFiniteSet(S \cup B)
      BY <1>1, <2>2
    <3> HIDE DEF C
    <3>3. F(S \cup B) = f[x] + F((S \cup B) \ {x})
      BY <3>1, <3>2, SumWithout
    <3> QED BY <3>1, <3>3
  <2>8. f[x] \in Int /\ F(S \cup C) \in Int /\ F(C) \in Int
    BY <1>1, <2>2, <2>5
  <2> HIDE DEF F, C
  <2> QED BY <1>2, <2>2, <2>5, <2>6, <2>7, <2>8
<1>4. T \in SUBSET T
  OBVIOUS
<1> QED BY <1>3, <1>4

\* A product of a successor.
LEMMA OneMore == \A n, k \in Nat : (n + 1) * k = n * k + k
OBVIOUS

\* If no owner has more than its share, they have no more than all shares.
LEMMA SumOfShares ==
    ASSUME NEW f, NEW T, IsFiniteSet(T), NEW own, NEW P, IsFiniteSet(P), NEW share \in Nat,
           \A x \in T : f[x] \in Int /\ own[x] \in P,
           \A p \in P : SumFunctionOnSet(f, {x \in T : own[x] = p}) <= share
    PROVE  SumFunctionOnSet(f, T) <= Cardinality(P) * share
<1> DEFINE Part(Q) == {x \in T : own[x] \in Q}
           Of(p) == {x \in T : own[x] = p}
           Bad == {Q \in SUBSET P : ~ (SumFunctionOnSet(f, Part(Q)) <= Cardinality(Q) * share)}
<1>1. \A U \in SUBSET T : IsFiniteSet(U) /\ SumFunctionOnSet(f, U) \in Int
  <2> SUFFICES ASSUME NEW U \in SUBSET T PROVE IsFiniteSet(U) /\ SumFunctionOnSet(f, U) \in Int
    OBVIOUS
  <2>1. IsFiniteSet(U) /\ \A x \in U : f[x] \in Int
    BY FS_Subset
  <2> QED BY <2>1, SumIsInt
<1>2. Bad = {}
  <2> SUFFICES ASSUME Bad # {} PROVE FALSE
    OBVIOUS
  <2>1. PICK B \in Bad : IsFiniteSet(B) /\ \A x \in B : B \ {x} \notin Bad
    <3>1. Bad \in SUBSET SUBSET P
      OBVIOUS
    <3> HIDE DEF Bad
    <3> QED BY <3>1, SmallestSet
  <2>2. B \in SUBSET P /\ ~ (SumFunctionOnSet(f, Part(B)) <= Cardinality(B) * share)
    OBVIOUS
  <2>3. CASE B = {}
    <3>1. Part(B) = {} /\ Cardinality(B) = 0
      BY <2>3, FS_EmptySet
    <3>2. SumFunctionOnSet(f, Part(B)) = 0
      BY <3>1, SumOfNone
    <3> QED BY <2>2, <3>1, <3>2
  <2>4. CASE B # {}
    <3>1. PICK p \in B : TRUE
      BY <2>4
    <3> DEFINE R == B \ {p}
    <3>2. R \in SUBSET P /\ R \notin Bad /\ p \in P
      BY <2>1, <2>2
    <3>3. SumFunctionOnSet(f, Part(R)) <= Cardinality(R) * share
      BY <3>2
    <3>4. IsFiniteSet(R) /\ Cardinality(R) \in Nat /\ Cardinality(B) = Cardinality(R) + 1
      <4>1. IsFiniteSet(R) /\ Cardinality(R) = Cardinality(B) - 1
        BY <2>1, FS_RemoveElement
      <4>2. Cardinality(R) \in Nat /\ Cardinality(B) \in Nat
        BY <2>1, <4>1, FS_CardinalityType
      <4> QED BY <4>1, <4>2
    <3>5. Part(B) = Part(R) \cup Of(p) /\ Part(R) \cap Of(p) = {}
      OBVIOUS
    <3>6. Part(R) \in SUBSET T /\ Of(p) \in SUBSET T
      OBVIOUS
    <3>7. SumFunctionOnSet(f, Of(p)) <= share
      BY <3>2
    <3> HIDE DEF R, Part, Of, Bad
    <3>8. SumFunctionOnSet(f, Part(R) \cup Of(p)) = SumFunctionOnSet(f, Part(R)) + SumFunctionOnSet(f, Of(p))
      <4>1. \A x \in Part(R) \cup Of(p) : f[x] \in Int
        BY <3>6
      <4> QED BY <1>1, <3>5, <3>6, <4>1, SumDisjoint
    <3>9. Cardinality(B) * share = Cardinality(R) * share + share /\ Cardinality(R) * share \in Nat
      BY <3>4, OneMore
    <3>10. SumFunctionOnSet(f, Part(R)) \in Int /\ SumFunctionOnSet(f, Of(p)) \in Int
      BY <1>1, <3>6
    <3>11. SumFunctionOnSet(f, Part(B)) <= Cardinality(B) * share
      BY <3>3, <3>5, <3>7, <3>8, <3>9, <3>10
    <3> QED BY <2>2, <3>11
  <2> QED BY <2>3, <2>4
<1>3. Part(P) = T /\ P \in SUBSET P
  OBVIOUS
<1>4. SumFunctionOnSet(f, Part(P)) <= Cardinality(P) * share
  BY <1>2, <1>3
<1> QED BY <1>3, <1>4
=============================================================================
