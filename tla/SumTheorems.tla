---------------------------- MODULE SumTheorems ----------------------------
(***************************************************************************)
(* What the community modules' SumFunctionOnSet computes, for every finite *)
(* set of indices: the number of tokens when each index x has f[x] of      *)
(* them.  Everything else about sums follows from facts about finite sets. *)
(***************************************************************************)
EXTENDS FiniteSetTheorems, TLAPS

Tokens(f, S) == {p \in S \X Nat : p[2] \in 1..f[p[1]]}

\* f is a natural number on each index of the finite set S.
Summable(f, S) == IsFiniteSet(S) /\ \A x \in S : f[x] \in Nat

LEMMA SplitTokens ==
    ASSUME NEW f, NEW S, \A y \in S : f[y] \in Nat, NEW x \in S
    PROVE  /\ Tokens(f, S) = Tokens(f, S \ {x}) \cup ({x} \X (1..f[x]))
           /\ Tokens(f, S \ {x}) \cap ({x} \X (1..f[x])) = {}
  BY DEF Tokens

\* The tokens of one index.
LEMMA Column ==
    ASSUME NEW x, NEW n \in Nat
    PROVE  IsFiniteSet({x} \X (1..n)) /\ Cardinality({x} \X (1..n)) = n
<1>1. IsFiniteSet({x}) /\ Cardinality({x}) = 1
  BY FS_Singleton
<1>2. IsFiniteSet(1..n) /\ Cardinality(1..n) = n
  BY FS_Interval
<1>3. /\ IsFiniteSet({x} \X (1..n))
      /\ Cardinality({x} \X (1..n)) = Cardinality({x}) * Cardinality(1..n)
  BY <1>1, <1>2, FS_Product
<1>4. 1 * n = n
  OBVIOUS
<1> QED
  BY <1>1, <1>2, <1>3, <1>4

\* A bound on all of them.
LEMMA TokensFinite ==
    ASSUME NEW f, NEW S, Summable(f, S)
    PROVE  IsFiniteSet(Tokens(f, S)) /\ Cardinality(Tokens(f, S)) \in Nat
<1> DEFINE col == [x \in S |-> {x} \X (1..f[x])]
           cols == {col[x] : x \in S}
<1>1. col \in Surjection(S, cols)
  BY DEF Surjection
<1>2. IsFiniteSet(cols)
  BY <1>1, FS_Surjection DEF Summable
<1>3. \A c \in cols : IsFiniteSet(c)
  <2> SUFFICES ASSUME NEW x \in S PROVE IsFiniteSet({x} \X (1..f[x]))
    OBVIOUS
  <2> QED
    BY Column DEF Summable
<1>4. IsFiniteSet(UNION cols)
  BY <1>2, <1>3, FS_UNION
<1>5. Tokens(f, S) \in SUBSET UNION cols
  BY DEF Tokens, Summable
<1> QED
  BY <1>4, <1>5, FS_Subset, FS_CardinalityType

LEMMA CountSplit ==
    ASSUME NEW f, NEW S, Summable(f, S), NEW x \in S
    PROVE  Cardinality(Tokens(f, S)) = f[x] + Cardinality(Tokens(f, S \ {x}))
<1> DEFINE A == Tokens(f, S \ {x})
           B == {x} \X (1..f[x])
<1>1. Tokens(f, S) = A \cup B /\ A \cap B = {} /\ f[x] \in Nat
  BY SplitTokens DEF Summable
<1>2. Summable(f, S \ {x})
  BY FS_RemoveElement DEF Summable
<1>3. IsFiniteSet(A) /\ Cardinality(A) \in Nat
  BY <1>2, TokensFinite
<1>4. IsFiniteSet(B) /\ Cardinality(B) = f[x]
  BY <1>1, Column
<1> HIDE DEF A, B
<1>5. Cardinality(A \cup B) = Cardinality(A) + Cardinality(B) - Cardinality(A \cap B)
  BY <1>3, <1>4, FS_Union
<1>6. Cardinality(A \cap B) = 0
  BY <1>1, FS_EmptySet
<1>7. Cardinality(Tokens(f, S)) = f[x] + Cardinality(A)
  BY <1>1, <1>3, <1>4, <1>5, <1>6
<1> QED
  BY <1>7 DEF A

----------------------------------------------------------------------------
(* The fold *)

\* h satisfies the equation by which the fold defines its recursive function.
Iterates(h, f, S) ==
    h = [s \in SUBSET S |->
            IF s = {} THEN 0 ELSE f[CHOOSE x \in s : TRUE] + h[s \ {CHOOSE x \in s : TRUE}]]

LEMMA CountIterates ==
    ASSUME NEW f, NEW S, Summable(f, S)
    PROVE  Iterates([s \in SUBSET S |-> Cardinality(Tokens(f, s))], f, S)
<1> DEFINE g == [s \in SUBSET S |-> Cardinality(Tokens(f, s))]
<1>1. ASSUME NEW s \in SUBSET S
      PROVE  g[s] = IF s = {} THEN 0
                    ELSE f[CHOOSE x \in s : TRUE] + g[s \ {CHOOSE x \in s : TRUE}]
  <2>1. CASE s = {}
    <3>1. Tokens(f, s) = {}
      BY <2>1 DEF Tokens
    <3> QED
      BY <2>1, <3>1, FS_EmptySet
  <2>2. CASE s # {}
    <3> DEFINE x == CHOOSE x \in s : TRUE
    <3>1. x \in s
      BY <2>2
    <3>2. Summable(f, s)
      BY FS_Subset DEF Summable
    <3> HIDE DEF x
    <3>3. Cardinality(Tokens(f, s)) = f[x] + Cardinality(Tokens(f, s \ {x}))
      BY <3>1, <3>2, CountSplit
    <3>4. s \ {x} \in SUBSET S
      OBVIOUS
    <3>5. g[s] = f[x] + g[s \ {x}]
      BY <3>3, <3>4
    <3> QED
      BY <2>2, <3>5 DEF x
  <2> QED
    BY <2>1, <2>2
<1> QED
  BY <1>1 DEF Iterates

LEMMA IterateOnce ==
    ASSUME NEW h, NEW f, NEW S, Iterates(h, f, S), NEW s \in SUBSET S, s # {}
    PROVE  \E x \in s : /\ s \ {x} \in SUBSET S
                        /\ h[s] = f[x] + h[s \ {x}]
                        /\ x = CHOOSE y \in s : TRUE
<1> DEFINE x == CHOOSE y \in s : TRUE
<1>1. x \in s
  OBVIOUS
<1>2. h[s] = f[x] + h[s \ {x}]
  BY Zenon DEF Iterates
<1> QED
  BY <1>1, <1>2

\* The equation has one solution.
LEMMA IteratesUnique ==
    ASSUME NEW f, NEW S, Summable(f, S), NEW g, NEW h, Iterates(g, f, S), Iterates(h, f, S)
    PROVE  g[S] = h[S]
<1> DEFINE Diff == {s \in SUBSET S : g[s] # h[s]}
           Sizes == {Cardinality(s) : s \in Diff}
<1> SUFFICES ASSUME g[S] # h[S] PROVE FALSE
  OBVIOUS
<1>1. \A s \in SUBSET S : IsFiniteSet(s) /\ Cardinality(s) \in Nat
  BY FS_Subset, FS_CardinalityType DEF Summable
<1>2. Sizes \subseteq Nat /\ Sizes # {}
  BY <1>1
<1>3. PICK n \in Sizes : \A m \in Sizes : ~(<<m, n>> \in OpToRel(<, Nat))
  <2> HIDE DEF Sizes
  <2> QED
    BY <1>2, WFMin, NatLessThanWellFounded
<1>4. PICK s \in Diff : n = Cardinality(s)
  OBVIOUS
<1>5. \A m \in Sizes : ~(m < n)
  BY <1>2, <1>3 DEF OpToRel
<1>6. s # {}
  BY DEF Iterates
<1>7. PICK x \in s : s \ {x} \in SUBSET S /\ g[s] = f[x] + g[s \ {x}] /\ x = CHOOSE y \in s : TRUE
  BY <1>6, IterateOnce
<1>8. h[s] = f[x] + h[s \ {x}]
  <2>1. PICK y \in s : h[s] = f[y] + h[s \ {y}] /\ y = CHOOSE z \in s : TRUE
    BY <1>6, IterateOnce
  <2>2. x = y
    BY <1>7, <2>1
  <2> QED
    BY <2>1, <2>2
<1>9. s \ {x} \in Diff
  BY <1>7, <1>8
<1>10. Cardinality(s \ {x}) = Cardinality(s) - 1
  BY <1>1, FS_RemoveElement
<1>11. Cardinality(s \ {x}) \in Sizes
  BY <1>9
<1>12. Cardinality(s) \in Nat
  BY <1>1
<1> HIDE DEF Sizes, Diff
<1> QED
  BY <1>4, <1>5, <1>10, <1>11, <1>12

LEMMA SumIterates ==
    ASSUME NEW f, NEW S, NEW g, Iterates(g, f, S)
    PROVE  \E h : Iterates(h, f, S) /\ SumFunctionOnSet(f, S) = h[S]
<1> DEFINE h == CHOOSE h : Iterates(h, f, S)
<1>1. Iterates(h, f, S)
  BY Zenon
<1>2. SumFunctionOnSet(f, S) = h[S]
  BY DEF SumFunctionOnSet, FoldFunctionOnSet, MapThenFoldSet, Iterates
<1> QED
  BY <1>1, <1>2

\* A sum counts the tokens.
THEOREM SumCounts ==
    ASSUME NEW f, NEW S, Summable(f, S)
    PROVE  SumFunctionOnSet(f, S) = Cardinality(Tokens(f, S))
<1> DEFINE g == [s \in SUBSET S |-> Cardinality(Tokens(f, s))]
<1>1. Iterates(g, f, S)
  BY CountIterates
<1>2. g[S] = Cardinality(Tokens(f, S))
  OBVIOUS
<1> HIDE DEF g
<1>3. PICK h : Iterates(h, f, S) /\ SumFunctionOnSet(f, S) = h[S]
  BY <1>1, SumIterates
<1> QED
  BY <1>1, <1>2, <1>3, IteratesUnique

----------------------------------------------------------------------------
(* Sums of functions *)

LEMMA SumOfFunction ==
    ASSUME NEW S, IsFiniteSet(S), NEW f \in [S -> Nat]
    PROVE  SumFunction(f) = Cardinality(Tokens(f, S)) /\ Summable(f, S)
<1>1. Summable(f, S) /\ DOMAIN f = S
  BY DEF Summable
<1> QED
  BY <1>1, SumCounts DEF SumFunction

LEMMA SumType ==
    ASSUME NEW S, IsFiniteSet(S), NEW f \in [S -> Nat]
    PROVE  SumFunction(f) \in Nat
  BY SumOfFunction, TokensFinite

\* More indices and larger values make no smaller sum.
LEMMA SumMonotone ==
    ASSUME NEW S, NEW T, IsFiniteSet(T), S \subseteq T,
           NEW f \in [S -> Nat], NEW g \in [T -> Nat], \A x \in S : f[x] <= g[x]
    PROVE  SumFunction(f) <= SumFunction(g)
<1>1. IsFiniteSet(S)
  BY FS_Subset
<1>2. Tokens(f, S) \subseteq Tokens(g, T)
  <2> SUFFICES ASSUME NEW p \in Tokens(f, S) PROVE p \in Tokens(g, T)
    OBVIOUS
  <2>1. p \in S \X Nat /\ p[2] \in 1..f[p[1]] /\ p[1] \in S
    BY DEF Tokens
  <2>2. f[p[1]] <= g[p[1]] /\ f[p[1]] \in Nat /\ g[p[1]] \in Nat
    BY <2>1
  <2>3. p[2] \in 1..g[p[1]]
    BY <2>1, <2>2
  <2> QED
    BY <2>1, <2>3 DEF Tokens
<1>3. IsFiniteSet(Tokens(g, T))
  BY SumOfFunction, TokensFinite
<1> QED
  BY <1>1, <1>2, <1>3, SumOfFunction, FS_Subset

\* Indices at which the value is zero do not matter.
LEMMA SumExtend ==
    ASSUME NEW S, NEW T, IsFiniteSet(T), S \subseteq T,
           NEW f \in [S -> Nat], NEW g \in [T -> Nat],
           \A x \in S : f[x] = g[x], \A x \in T \ S : g[x] = 0
    PROVE  SumFunction(f) = SumFunction(g)
<1>1. IsFiniteSet(S)
  BY FS_Subset
<1>2. Tokens(f, S) = Tokens(g, T)
  <2>1. Tokens(f, S) \subseteq Tokens(g, T)
    BY DEF Tokens
  <2>2. ASSUME NEW p \in Tokens(g, T) PROVE p \in Tokens(f, S)
    <3>1. p \in T \X Nat /\ p[2] \in 1..g[p[1]] /\ p[1] \in T
      BY DEF Tokens
    <3>2. p[1] \in S
      BY <3>1
    <3> QED
      BY <3>1, <3>2 DEF Tokens
  <2> QED
    BY <2>1, <2>2
<1> QED
  BY <1>1, <1>2, SumOfFunction

\* One value changes.
LEMMA SumUpdate ==
    ASSUME NEW S, IsFiniteSet(S), NEW f \in [S -> Nat], NEW g \in [S -> Nat],
           NEW x \in S, \A y \in S : y # x => f[y] = g[y]
    PROVE  SumFunction(g) + f[x] = SumFunction(f) + g[x]
<1>1. SumFunction(f) = Cardinality(Tokens(f, S)) /\ Summable(f, S)
  BY SumOfFunction
<1>2. SumFunction(g) = Cardinality(Tokens(g, S)) /\ Summable(g, S)
  BY SumOfFunction
<1>3. Tokens(f, S \ {x}) = Tokens(g, S \ {x})
  BY DEF Tokens
<1> DEFINE n == Cardinality(Tokens(f, S \ {x}))
<1>4. SumFunction(f) = f[x] + n
  BY <1>1, CountSplit
<1>5. SumFunction(g) = g[x] + n
  BY <1>2, <1>3, CountSplit
<1>6. n \in Nat
  <2>1. Summable(f, S \ {x})
    BY <1>1, FS_RemoveElement DEF Summable
  <2> QED
    BY <2>1, TokensFinite
<1> HIDE DEF n
<1>7. f[x] \in Nat /\ g[x] \in Nat
  OBVIOUS
<1> QED
  BY <1>4, <1>5, <1>6, <1>7

\* Values of at most c.
LEMMA SumBounded ==
    ASSUME NEW S, IsFiniteSet(S), NEW c \in Nat, NEW f \in [S -> 0..c]
    PROVE  SumFunction(f) <= c * Cardinality(S)
<1>1. f \in [S -> Nat]
  OBVIOUS
<1>2. Tokens(f, S) \subseteq S \X (1..c)
  <2> SUFFICES ASSUME NEW p \in Tokens(f, S) PROVE p \in S \X (1..c)
    OBVIOUS
  <2>1. p \in S \X Nat /\ p[2] \in 1..f[p[1]] /\ p[1] \in S
    BY DEF Tokens
  <2>2. f[p[1]] \in 0..c
    BY <2>1
  <2>3. p[2] \in 1..c
    BY <2>1, <2>2
  <2> QED
    BY <2>1, <2>3
<1>3. IsFiniteSet(1..c) /\ Cardinality(1..c) = c
  BY FS_Interval
<1>4. /\ IsFiniteSet(S \X (1..c))
      /\ Cardinality(S \X (1..c)) = Cardinality(S) * Cardinality(1..c)
  BY <1>3, FS_Product
<1>5. Cardinality(Tokens(f, S)) <= Cardinality(S \X (1..c))
  BY <1>2, <1>4, FS_Subset
<1>6. Cardinality(S) \in Nat
  BY FS_CardinalityType
<1>7. Cardinality(S) * c = c * Cardinality(S)
  BY <1>6
<1> QED
  BY <1>1, <1>3, <1>4, <1>5, <1>7, SumOfFunction

LEMMA SumOfNothing == SumFunction(<< >>) = 0
<1>1. << >> \in [{} -> Nat]
  OBVIOUS
<1>2. Tokens(<< >>, {}) = {}
  BY DEF Tokens
<1> QED
  BY <1>1, <1>2, SumOfFunction, FS_EmptySet

LEMMA UpTo == IsFiniteSet(1..1) /\ IsFiniteSet(1..2)
<1>1. 1 \in Int /\ 2 \in Int
  OBVIOUS
<1> QED
  BY <1>1, FS_Interval, Zenon

\* Sums of one and of two values.
LEMMA SumOfOne ==
    ASSUME NEW f \in [1..1 -> Nat]
    PROVE  SumFunction(f) = f[1]
<1>1. IsFiniteSet(1..1) /\ 1 \in 1..1
  BY UpTo
<1>2. SumFunction(f) = Cardinality(Tokens(f, 1..1)) /\ Summable(f, 1..1)
  BY <1>1, SumOfFunction
<1>3. Cardinality(Tokens(f, 1..1)) = f[1] + Cardinality(Tokens(f, (1..1) \ {1}))
  BY <1>1, <1>2, CountSplit
<1>4. Tokens(f, (1..1) \ {1}) = {}
  BY DEF Tokens
<1> QED
  BY <1>2, <1>3, <1>4, FS_EmptySet

LEMMA SumOfTwo ==
    ASSUME NEW f \in [1..2 -> Nat]
    PROVE  SumFunction(f) = f[1] + f[2]
<1>1. IsFiniteSet(1..2) /\ 1 \in 1..2 /\ 2 \in 1..2
  BY UpTo
<1> DEFINE g == [f EXCEPT ![1] = 0]
           h == [g EXCEPT ![2] = 0]
<1>2. g \in [1..2 -> Nat] /\ h \in [1..2 -> Nat] /\ g[1] = 0 /\ g[2] = f[2] /\ h[2] = 0 /\ h[1] = 0
  OBVIOUS
<1>3. \A y \in 1..2 : /\ y # 1 => f[y] = g[y]
                      /\ y # 2 => g[y] = h[y]
                      /\ h[y] = 0
  OBVIOUS
<1>4. h \in [1..2 -> 0..0]
  BY <1>2, <1>3
<1> HIDE DEF g, h
<1>5. SumFunction(g) + f[1] = SumFunction(f) + 0
  BY <1>1, <1>2, <1>3, SumUpdate
<1>6. SumFunction(h) + f[2] = SumFunction(g) + 0
  BY <1>1, <1>2, <1>3, SumUpdate
<1>7. SumFunction(h) <= 0 * Cardinality(1..2)
  BY <1>1, <1>4, SumBounded
<1>8. SumFunction(h) \in Nat /\ SumFunction(g) \in Nat /\ SumFunction(f) \in Nat /\ Cardinality(1..2) \in Nat
  BY <1>1, <1>2, SumType, FS_CardinalityType
<1>9. f[1] \in Nat /\ f[2] \in Nat
  BY <1>1
<1>10. SumFunction(h) = 0
  BY <1>7, <1>8
<1> QED
  BY <1>5, <1>6, <1>8, <1>9, <1>10

=============================================================================
