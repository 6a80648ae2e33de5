------------------------------ MODULE SumLemmas ------------------------------
(***************************************************************************)
(* Sums over finite sets, as FiniteSetsExt and Functions define them: what *)
(* adding, removing or changing one term does to a sum.  The proofs about  *)
(* the earnings ledger and about trust scores rest on them.                *)
(*                                                                         *)
(* A sum is a recursive function on the subsets of a set.  Induction is    *)
(* by a smallest counterexample: the set of the subsets that refute a      *)
(* statement, were it not empty, would have a minimal element.             *)
(***************************************************************************)
EXTENDS Integers, FiniteSetsExt, Functions, FiniteSetTheorems, TLAPS

LEMMA MinimalSubset ==
    ASSUME NEW S, IsFiniteSet(S), NEW Bad, Bad \subseteq SUBSET S, Bad # {}
    PROVE  \E T \in Bad : \A U \in SUBSET T : U # T => U \notin Bad
<1>1. IsWellFoundedOn(StrictSubsetOrdering(S), SUBSET S)
  BY FS_StrictSubsetOrderingWellFounded, FS_FiniteSubsetsOfFinite
<1>2. PICK T \in Bad : \A U \in Bad : ~ (<<U, T>> \in StrictSubsetOrdering(S))
  <2> HIDE DEF StrictSubsetOrdering
  <2> QED
    BY <1>1, WFMin
<1>3. ASSUME NEW U \in SUBSET T, U # T, U \in Bad PROVE FALSE
  <2>1. <<U, T>> \in StrictSubsetOrdering(S)
    BY <1>3 DEF StrictSubsetOrdering
  <2> QED
    BY <1>2, <1>3, <2>1
<1> QED
  BY <1>3

(* The element a fold takes next, and the equation its function meets.     *)
Chosen(s) == CHOOSE x \in s : TRUE

Unchosen(s) == s \ {Chosen(s)}

Adds(g, f, S) == g = [s \in SUBSET S |-> IF s = {} THEN 0 ELSE f[Chosen(s)] + g[Unchosen(s)]]

Sum(f, S) == MapThenSumSet(LAMBDA x : f[x], S)

LEMMA ChosenOf == ASSUME NEW s, s # {} PROVE Chosen(s) \in s /\ Unchosen(s) \in SUBSET s /\ Unchosen(s) # s
<1>1. Chosen(s) \in s
  BY DEF Chosen
<1> QED
  BY <1>1 DEF Unchosen

(* Two functions that meet the equation agree where both are defined.      *)
LEMMA AddsAgree ==
    ASSUME NEW f, NEW S, NEW T, IsFiniteSet(S), NEW g, NEW h, Adds(g, f, S), Adds(h, f, T)
    PROVE  \A s \in SUBSET (S \cap T) : g[s] = h[s]
<1> DEFINE Bad == {s \in SUBSET (S \cap T) : g[s] # h[s]}
<1>1. CASE Bad = {}
  BY <1>1
<1>2. CASE Bad # {}
  <2>1. PICK s \in Bad : \A u \in SUBSET s : u # s => u \notin Bad
    <3>1. Bad \subseteq SUBSET S
      OBVIOUS
    <3> HIDE DEF Bad
    <3> QED
      BY <1>2, <3>1, MinimalSubset
  <2>2. s \in SUBSET S /\ s \in SUBSET T
    OBVIOUS
  <2>3. /\ g[s] = IF s = {} THEN 0 ELSE f[Chosen(s)] + g[Unchosen(s)]
        /\ h[s] = IF s = {} THEN 0 ELSE f[Chosen(s)] + h[Unchosen(s)]
    BY <2>2 DEF Adds
  <2>4. CASE s # {}
    <3>1. g[Unchosen(s)] = h[Unchosen(s)]
      BY <2>1, <2>4, ChosenOf
    <3> QED
      BY <2>3, <3>1
  <2> QED
    BY <2>3, <2>4
<1> QED
  BY <1>1, <1>2

LEMMA AddsExists ==
    ASSUME NEW f, NEW S, IsFiniteSet(S)
    PROVE  \E g : Adds(g, f, S)
<1> DEFINE Bad == {T \in SUBSET S : ~ \E g : Adds(g, f, T)}
<1>1. CASE Bad = {}
  BY <1>1
<1>2. CASE Bad # {}
  <2>1. PICK T \in Bad : \A U \in SUBSET T : U # T => U \notin Bad
    <3>1. Bad \subseteq SUBSET S
      OBVIOUS
    <3> HIDE DEF Bad
    <3> QED
      BY <1>2, <3>1, MinimalSubset
  <2> DEFINE G(U) == CHOOSE g : Adds(g, f, U)
             g == [s \in SUBSET T |-> IF s = {} THEN 0 ELSE f[Chosen(s)] + G(Unchosen(s))[Unchosen(s)]]
  <2>2. \A U \in SUBSET T : U # T => Adds(G(U), f, U)
    BY <2>1
  <2>3. ASSUME NEW s \in SUBSET T, s # {} PROVE g[Unchosen(s)] = G(Unchosen(s))[Unchosen(s)]
    <3> DEFINE u == Unchosen(s)
    <3>1. u \in SUBSET T /\ u # T
      BY <2>3, ChosenOf
    <3>2. Adds(G(u), f, u)
      BY <2>2, <3>1
    <3>3. G(u)[u] = IF u = {} THEN 0 ELSE f[Chosen(u)] + G(u)[Unchosen(u)]
      BY <3>2 DEF Adds
    <3>4. ASSUME u # {} PROVE G(u)[Unchosen(u)] = G(Unchosen(u))[Unchosen(u)]
      <4>1. Unchosen(u) \in SUBSET u /\ Unchosen(u) # T
        BY <3>1, <3>4, ChosenOf
      <4>2. Adds(G(Unchosen(u)), f, Unchosen(u))
        BY <2>2, <3>1, <4>1
      <4>3. IsFiniteSet(u)
        BY <3>1, FS_Subset
      <4> QED
        BY <3>2, <4>1, <4>2, <4>3, AddsAgree
    <3>5. g[u] = IF u = {} THEN 0 ELSE f[Chosen(u)] + G(Unchosen(u))[Unchosen(u)]
      BY <3>1
    <3> QED
      BY <3>3, <3>4, <3>5
  <2>4. ASSUME NEW s \in SUBSET T PROVE g[s] = IF s = {} THEN 0 ELSE f[Chosen(s)] + g[Unchosen(s)]
    <3>1. g[s] = IF s = {} THEN 0 ELSE f[Chosen(s)] + G(Unchosen(s))[Unchosen(s)]
      OBVIOUS
    <3>2. s # {} => g[Unchosen(s)] = G(Unchosen(s))[Unchosen(s)]
      BY <2>3
    <3> HIDE DEF g, G
    <3> QED
      BY <3>1, <3>2
  <2>5. g = [s \in SUBSET T |-> g[s]]
    OBVIOUS
  <2>6. Adds(g, f, T)
    <3> HIDE DEF g
    <3> QED
      BY <2>4, <2>5 DEF Adds
  <2> QED
    BY <2>1, <2>6
<1> QED
  BY <1>1, <1>2

LEMMA SumIsAdded ==
    ASSUME NEW f, NEW S, IsFiniteSet(S)
    PROVE  \E g : Adds(g, f, S) /\ Sum(f, S) = g[S]
<1> DEFINE g == CHOOSE h : Adds(h, f, S)
<1>1. Adds(g, f, S)
  BY AddsExists
<1>2. Sum(f, S) = g[S]
  BY DEF Sum, MapThenSumSet, MapThenFoldSet, Adds, Chosen, Unchosen
<1> QED
  BY <1>1, <1>2

(* A sum of nothing.                                                       *)
LEMMA SumEmpty == ASSUME NEW f PROVE Sum(f, {}) = 0
<1>1. IsFiniteSet({})
  BY FS_EmptySet
<1>2. PICK g : Adds(g, f, {}) /\ Sum(f, {}) = g[{}]
  BY <1>1, SumIsAdded
<1>3. {} \in SUBSET {}
  OBVIOUS
<1>4. g[{}] = 0
  BY <1>2, <1>3 DEF Adds
<1> QED
  BY <1>2, <1>4

LEMMA SumChosen ==
    ASSUME NEW f, NEW S, IsFiniteSet(S), S # {}
    PROVE  Sum(f, S) = f[Chosen(S)] + Sum(f, Unchosen(S))
<1>1. PICK g : Adds(g, f, S) /\ Sum(f, S) = g[S]
  BY SumIsAdded
<1>2. Unchosen(S) \in SUBSET S /\ IsFiniteSet(Unchosen(S))
  BY ChosenOf, FS_Subset
<1>3. PICK h : Adds(h, f, Unchosen(S)) /\ Sum(f, Unchosen(S)) = h[Unchosen(S)]
  BY <1>2, SumIsAdded
<1>4. g[Unchosen(S)] = h[Unchosen(S)]
  BY <1>1, <1>2, <1>3, AddsAgree
<1>5. g[S] = f[Chosen(S)] + g[Unchosen(S)]
  BY <1>1 DEF Adds
<1> QED
  BY <1>1, <1>3, <1>4, <1>5

(* A sum of integers is one; of naturals likewise.                         *)
LEMMA SumInt ==
    ASSUME NEW f, NEW S, IsFiniteSet(S), \A x \in S : f[x] \in Int
    PROVE  Sum(f, S) \in Int
<1> DEFINE Bad == {s \in SUBSET S : Sum(f, s) \notin Int}
<1>1. CASE Bad = {}
  BY <1>1
<1>2. CASE Bad # {}
  <2>1. PICK s \in Bad : \A u \in SUBSET s : u # s => u \notin Bad
    <3>1. Bad \subseteq SUBSET S
      OBVIOUS
    <3> HIDE DEF Bad
    <3> QED
      BY <1>2, <3>1, MinimalSubset
  <2>2. IsFiniteSet(s)
    BY FS_Subset
  <2>3. CASE s = {}
    BY <2>3, SumEmpty
  <2>4. CASE s # {}
    <3>1. Sum(f, Unchosen(s)) \in Int
      BY <2>1, <2>4, ChosenOf
    <3>2. f[Chosen(s)] \in Int
      BY <2>4, ChosenOf
    <3> QED
      BY <2>2, <2>4, <3>1, <3>2, SumChosen
  <2> QED
    BY <2>3, <2>4
<1> QED
  BY <1>1, <1>2

LEMMA SumNat ==
    ASSUME NEW f, NEW S, IsFiniteSet(S), \A x \in S : f[x] \in Nat
    PROVE  Sum(f, S) \in Nat
<1> DEFINE Bad == {s \in SUBSET S : Sum(f, s) \notin Nat}
<1>1. CASE Bad = {}
  BY <1>1
<1>2. CASE Bad # {}
  <2>1. PICK s \in Bad : \A u \in SUBSET s : u # s => u \notin Bad
    <3>1. Bad \subseteq SUBSET S
      OBVIOUS
    <3> HIDE DEF Bad
    <3> QED
      BY <1>2, <3>1, MinimalSubset
  <2>2. IsFiniteSet(s)
    BY FS_Subset
  <2>3. CASE s = {}
    BY <2>3, SumEmpty
  <2>4. CASE s # {}
    <3>1. Sum(f, Unchosen(s)) \in Nat
      BY <2>1, <2>4, ChosenOf
    <3>2. f[Chosen(s)] \in Nat
      BY <2>4, ChosenOf
    <3> QED
      BY <2>2, <2>4, <3>1, <3>2, SumChosen
  <2> QED
    BY <2>3, <2>4
<1> QED
  BY <1>1, <1>2

(* Any term can be taken out of a sum, whatever order the fold takes.      *)
LEMMA SumSplit ==
    ASSUME NEW f, NEW S, IsFiniteSet(S), \A x \in S : f[x] \in Int, NEW e \in S
    PROVE  Sum(f, S) = f[e] + Sum(f, S \ {e})
<1> DEFINE Bad == {s \in SUBSET S : \E x \in s : Sum(f, s) # f[x] + Sum(f, s \ {x})}
<1>1. CASE Bad = {}
  BY <1>1
<1>2. CASE Bad # {}
  <2>1. PICK s \in Bad : \A u \in SUBSET s : u # s => u \notin Bad
    <3>1. Bad \subseteq SUBSET S
      OBVIOUS
    <3> HIDE DEF Bad
    <3> QED
      BY <1>2, <3>1, MinimalSubset
  <2>2. PICK x \in s : Sum(f, s) # f[x] + Sum(f, s \ {x})
    OBVIOUS
  <2>3. IsFiniteSet(s) /\ IsFiniteSet(Unchosen(s))
    BY FS_Subset DEF Unchosen
  <2> DEFINE c == Chosen(s)
             t == Unchosen(s) \ {x}
  <2>4. c \in s /\ c # x
    BY <2>2, <2>3, ChosenOf, SumChosen DEF Unchosen
  <2>5. Sum(f, s) = f[c] + Sum(f, Unchosen(s))
    BY <2>3, <2>4, SumChosen
  <2>6. Sum(f, Unchosen(s)) = f[x] + Sum(f, t)
    <3>1. Unchosen(s) \notin Bad /\ Unchosen(s) \in SUBSET S /\ x \in Unchosen(s)
      BY <2>1, <2>4, ChosenOf DEF Unchosen
    <3> QED
      BY <3>1
  <2>7. Sum(f, s \ {x}) = f[c] + Sum(f, t)
    <3>1. s \ {x} \notin Bad /\ s \ {x} \in SUBSET S /\ c \in s \ {x} /\ s \ {x} # s
      BY <2>1, <2>4
    <3>2. (s \ {x}) \ {c} = t
      BY DEF Unchosen
    <3> QED
      BY <3>1, <3>2
  <2>8. Sum(f, t) \in Int /\ f[c] \in Int /\ f[x] \in Int
    <3>1. t \in SUBSET S /\ IsFiniteSet(t)
      BY <2>3, FS_Subset DEF Unchosen
    <3> QED
      BY <2>4, <3>1, SumInt
  <2> HIDE DEF Bad, c, t
  <2> QED
    BY <2>2, <2>5, <2>6, <2>7, <2>8
<1> QED
  BY <1>1, <1>2
-------------------------------------------------------------------------------
(* What a change of the terms, or of the set, does to a sum.               *)

LEMMA SumMonotone ==
    ASSUME NEW f, NEW g, NEW S, IsFiniteSet(S),
           \A x \in S : f[x] \in Int /\ g[x] \in Int /\ f[x] <= g[x]
    PROVE  Sum(f, S) <= Sum(g, S)
<1> DEFINE Bad == {s \in SUBSET S : ~(Sum(f, s) <= Sum(g, s))}
<1>1. CASE Bad = {}
  BY <1>1
<1>2. CASE Bad # {}
  <2>1. PICK s \in Bad : \A u \in SUBSET s : u # s => u \notin Bad
    <3>1. Bad \subseteq SUBSET S
      OBVIOUS
    <3> HIDE DEF Bad
    <3> QED
      BY <1>2, <3>1, MinimalSubset
  <2>2. IsFiniteSet(s)
    BY FS_Subset
  <2>3. s # {}
    BY SumEmpty
  <2> DEFINE c == Chosen(s)
             r == Unchosen(s)
  <2>4. c \in s /\ r \in SUBSET s /\ r # s /\ IsFiniteSet(r)
    BY <2>2, <2>3, ChosenOf, FS_Subset
  <2>5. Sum(f, s) = f[c] + Sum(f, r) /\ Sum(g, s) = g[c] + Sum(g, r)
    BY <2>2, <2>3, SumChosen
  <2>6. Sum(f, r) <= Sum(g, r)
    BY <2>1, <2>4
  <2>7. Sum(f, r) \in Int /\ Sum(g, r) \in Int
    BY <2>4, SumInt
  <2>8. f[c] \in Int /\ g[c] \in Int /\ f[c] <= g[c]
    BY <2>4
  <2> HIDE DEF c, r
  <2>9. ~(Sum(f, s) <= Sum(g, s))
    BY <2>1
  <2> QED
    BY <2>5, <2>6, <2>7, <2>8, <2>9
<1> QED
  BY <1>1, <1>2

LEMMA SumSame ==
    ASSUME NEW f, NEW g, NEW S, IsFiniteSet(S), \A x \in S : f[x] \in Int /\ f[x] = g[x]
    PROVE  Sum(f, S) = Sum(g, S)
<1>1. Sum(f, S) <= Sum(g, S) /\ Sum(g, S) <= Sum(f, S)
  BY SumMonotone
<1>2. Sum(f, S) \in Int /\ Sum(g, S) \in Int
  BY SumInt
<1> QED
  BY <1>1, <1>2

(* The terms negated.                                                      *)
LEMMA SumNegated ==
    ASSUME NEW f, NEW g, NEW S, IsFiniteSet(S), \A x \in S : f[x] \in Int /\ g[x] = 0 - f[x]
    PROVE  Sum(g, S) = 0 - Sum(f, S)
<1> DEFINE Bad == {s \in SUBSET S : Sum(g, s) # 0 - Sum(f, s)}
<1>1. CASE Bad = {}
  BY <1>1
<1>2. CASE Bad # {}
  <2>1. PICK s \in Bad : \A u \in SUBSET s : u # s => u \notin Bad
    <3>1. Bad \subseteq SUBSET S
      OBVIOUS
    <3> HIDE DEF Bad
    <3> QED
      BY <1>2, <3>1, MinimalSubset
  <2>2. IsFiniteSet(s)
    BY FS_Subset
  <2>3. s # {}
    BY SumEmpty
  <2> DEFINE c == Chosen(s)
             r == Unchosen(s)
  <2>4. c \in s /\ r \in SUBSET s /\ r # s /\ IsFiniteSet(r)
    BY <2>2, <2>3, ChosenOf, FS_Subset
  <2>5. Sum(f, s) = f[c] + Sum(f, r) /\ Sum(g, s) = g[c] + Sum(g, r)
    BY <2>2, <2>3, SumChosen
  <2>6. Sum(g, r) = 0 - Sum(f, r)
    BY <2>1, <2>4
  <2>7. Sum(f, r) \in Int
    BY <2>4, SumInt
  <2>8. f[c] \in Int /\ g[c] = 0 - f[c]
    BY <2>4
  <2> HIDE DEF c, r
  <2>9. Sum(g, s) # 0 - Sum(f, s)
    BY <2>1
  <2> QED
    BY <2>5, <2>6, <2>7, <2>8, <2>9
<1> QED
  BY <1>1, <1>2

LEMMA SumAdd ==
    ASSUME NEW f, NEW S, IsFiniteSet(S), NEW e, e \notin S, \A x \in S \cup {e} : f[x] \in Int
    PROVE  Sum(f, S \cup {e}) = Sum(f, S) + f[e]
<1>1. IsFiniteSet(S \cup {e})
  BY FS_AddElement
<1>2. (S \cup {e}) \ {e} = S
  OBVIOUS
<1>3. Sum(f, S \cup {e}) = f[e] + Sum(f, (S \cup {e}) \ {e})
  BY <1>1, SumSplit
<1>4. Sum(f, S) \in Int
  BY SumInt
<1>5. Sum(f, (S \cup {e}) \ {e}) = Sum(f, S)
  BY <1>2, Zenon
<1> QED
  BY <1>3, <1>4, <1>5

(* Two sets apart: their sums add up.                                      *)
LEMMA SumUnion ==
    ASSUME NEW f, NEW S, NEW T, IsFiniteSet(S), IsFiniteSet(T), S \cap T = {},
           \A x \in S \cup T : f[x] \in Int
    PROVE  Sum(f, S \cup T) = Sum(f, S) + Sum(f, T)
<1> DEFINE Bad == {s \in SUBSET T : Sum(f, S \cup s) # Sum(f, S) + Sum(f, s)}
<1>1. CASE Bad = {}
  BY <1>1
<1>2. CASE Bad # {}
  <2>1. PICK s \in Bad : \A u \in SUBSET s : u # s => u \notin Bad
    <3>1. Bad \subseteq SUBSET T
      OBVIOUS
    <3> HIDE DEF Bad
    <3> QED
      BY <1>2, <3>1, MinimalSubset
  <2>2. IsFiniteSet(s)
    BY FS_Subset
  <2>3. s # {}
    <3>1. S \cup {} = S
      OBVIOUS
    <3>2. Sum(f, S) \in Int
      BY SumInt
    <3>3. s = {} => Sum(f, S \cup s) = Sum(f, S) /\ Sum(f, s) = 0
      BY <3>1, SumEmpty, Zenon
    <3> QED
      BY <3>2, <3>3
  <2> DEFINE c == Chosen(s)
             r == Unchosen(s)
  <2>4. c \in s /\ r \in SUBSET s /\ r # s /\ IsFiniteSet(r) /\ s = r \cup {c} /\ c \notin r
    BY <2>2, <2>3, ChosenOf, FS_Subset DEF Unchosen
  <2> HIDE DEF c, r
  <2>5. Sum(f, S \cup r) = Sum(f, S) + Sum(f, r)
    BY <2>1, <2>4
  <2>6. IsFiniteSet(S \cup r) /\ c \notin S \cup r /\ (S \cup r) \cup {c} = S \cup s
    BY <2>4, FS_Union
  <2>7. Sum(f, S \cup s) = Sum(f, S \cup r) + f[c]
    BY <2>4, <2>6, SumAdd
  <2>8. Sum(f, s) = Sum(f, r) + f[c]
    BY <2>4, SumAdd
  <2>9. Sum(f, S) \in Int /\ Sum(f, r) \in Int /\ f[c] \in Int
    BY <2>4, SumInt
  <2>10. Sum(f, S \cup s) # Sum(f, S) + Sum(f, s)
    BY <2>1
  <2> QED
    BY <2>5, <2>7, <2>8, <2>9, <2>10
<1> QED
  BY <1>1, <1>2

(* A part of a sum of naturals is no larger than the sum.                  *)
LEMMA SumSubset ==
    ASSUME NEW f, NEW S, IsFiniteSet(S), NEW T \in SUBSET S, \A x \in S : f[x] \in Nat
    PROVE  Sum(f, T) <= Sum(f, S)
<1>1. IsFiniteSet(T) /\ IsFiniteSet(S \ T) /\ T \cup (S \ T) = S /\ T \cap (S \ T) = {}
  BY FS_Subset
<1>2. Sum(f, T \cup (S \ T)) = Sum(f, T) + Sum(f, S \ T)
  BY <1>1, SumUnion
<1>3. Sum(f, T) \in Nat /\ Sum(f, S \ T) \in Nat
  BY <1>1, SumNat
<1>4. Sum(f, T \cup (S \ T)) = Sum(f, S)
  BY <1>1, Zenon
<1> QED
  BY <1>2, <1>3, <1>4

(* Every term of a sum of naturals is covered by it.                       *)
LEMMA SumTerm ==
    ASSUME NEW f, NEW S, IsFiniteSet(S), NEW e \in S, \A x \in S : f[x] \in Nat
    PROVE  f[e] <= Sum(f, S)
<1>1. Sum(f, S) = f[e] + Sum(f, S \ {e})
  BY SumSplit
<1>2. Sum(f, S \ {e}) \in Nat
  BY FS_Subset, SumNat
<1> QED
  BY <1>1, <1>2

LEMMA SumChange ==
    ASSUME NEW f, NEW S, IsFiniteSet(S), NEW e \in S, NEW v \in Int, NEW g,
           \A x \in S : f[x] \in Int, g[e] = v, \A x \in S \ {e} : g[x] = f[x]
    PROVE  Sum(g, S) = Sum(f, S) - f[e] + v
<1>1. Sum(f, S) = f[e] + Sum(f, S \ {e})
  BY SumSplit
<1>2. Sum(g, S) = v + Sum(g, S \ {e})
  BY SumSplit
<1>3. IsFiniteSet(S \ {e})
  BY FS_Subset
<1>4. Sum(g, S \ {e}) = Sum(f, S \ {e})
  BY <1>3, SumSame
<1>5. Sum(f, S \ {e}) \in Int
  BY <1>3, SumInt
<1> QED
  BY <1>1, <1>2, <1>4, <1>5

LEMMA OneMore == ASSUME NEW n \in Nat, NEW b \in Int PROVE (n + 1) * b = n * b + b /\ n * b \in Int
OBVIOUS

(* A set in parts, each of which sums to b at most.                        *)
LEMMA SumOfParts ==
    ASSUME NEW f, NEW S, IsFiniteSet(S), \A x \in S : f[x] \in Int,
           NEW K, IsFiniteSet(K), NEW part, \A x \in S : part[x] \in K,
           NEW b \in Int, \A k \in K : Sum(f, {x \in S : part[x] = k}) <= b
    PROVE  Sum(f, S) <= Cardinality(K) * b
<1> DEFINE In(k) == {x \in S : part[x] \in k}
           Bad == {k \in SUBSET K : ~(Sum(f, In(k)) <= Cardinality(k) * b)}
<1>1. CASE Bad = {}
  <2>1. In(K) = S
    OBVIOUS
  <2> QED
    BY <1>1, <2>1
<1>2. CASE Bad # {}
  <2>1. PICK k \in Bad : \A u \in SUBSET k : u # k => u \notin Bad
    <3>1. Bad \subseteq SUBSET K
      OBVIOUS
    <3> HIDE DEF Bad
    <3> QED
      BY <1>2, <3>1, MinimalSubset
  <2>2. IsFiniteSet(k) /\ k \in SUBSET K
    BY FS_Subset
  <2>3. k # {}
    <3>1. In({}) = {}
      OBVIOUS
    <3>2. ASSUME k = {} PROVE Sum(f, In(k)) <= Cardinality(k) * b
      BY <3>1, <3>2, SumEmpty, FS_EmptySet
    <3> QED
      BY <3>2
  <2> DEFINE c == Chosen(k)
             r == Unchosen(k)
  <2>4. c \in k /\ r \in SUBSET k /\ r # k /\ IsFiniteSet(r) /\ k = r \cup {c} /\ c \notin r
    BY <2>2, <2>3, ChosenOf, FS_Subset DEF Unchosen
  <2>5. Cardinality(k) = Cardinality(r) + 1 /\ Cardinality(r) \in Nat
    BY <2>4, FS_AddElement, FS_CardinalityType
  <2> HIDE DEF c, r
  <2>6. Sum(f, In(r)) <= Cardinality(r) * b
    BY <2>1, <2>2, <2>4
  <2> DEFINE one == {x \in S : part[x] = c}
  <2>7. In(k) = In(r) \cup one /\ In(r) \cap one = {}
    BY <2>4
  <2>8. IsFiniteSet(In(r)) /\ IsFiniteSet(one)
    BY FS_Subset
  <2>9. Sum(f, In(k)) = Sum(f, In(r)) + Sum(f, one)
    BY <2>7, <2>8, SumUnion
  <2>10. Sum(f, one) <= b
    BY <2>2, <2>4
  <2>11. Sum(f, In(r)) \in Int /\ Sum(f, one) \in Int
    BY <2>8, SumInt
  <2>12. ~(Sum(f, In(k)) <= Cardinality(k) * b)
    BY <2>1
  <2>13. Cardinality(k) * b = Cardinality(r) * b + b /\ Cardinality(r) * b \in Int
    BY <2>5, OneMore
  <2> HIDE DEF In, one
  <2> QED
    BY <2>6, <2>9, <2>10, <2>11, <2>12, <2>13
<1> QED
  BY <1>1, <1>2

(* Terms of b at most.                                                     *)
LEMMA SumAtMost ==
    ASSUME NEW f, NEW S, IsFiniteSet(S), NEW b \in Int, \A x \in S : f[x] \in Int /\ f[x] <= b
    PROVE  Sum(f, S) <= Cardinality(S) * b
<1> DEFINE part == [x \in S |-> x]
<1>1. ASSUME NEW k \in S PROVE Sum(f, {x \in S : part[x] = k}) <= b
  <2>1. {x \in S : part[x] = k} = {} \cup {k}
    OBVIOUS
  <2>2. Sum(f, {} \cup {k}) = Sum(f, {}) + f[k]
    BY FS_EmptySet, SumAdd
  <2>3. Sum(f, {x \in S : part[x] = k}) = Sum(f, {} \cup {k})
    BY <2>1, Zenon
  <2> HIDE DEF part
  <2> QED
    BY <2>2, <2>3, SumEmpty
<1>2. \A x \in S : part[x] \in S
  OBVIOUS
<1> HIDE DEF part
<1> QED
  BY <1>1, <1>2, SumOfParts
=============================================================================
