---------------------------- MODULE SumTheorems ----------------------------
(***************************************************************************)
(* Facts about SumFunctionOnSet, with which LedgerStore adds up entries    *)
(* and balances: the sum of a finite set of integers is an integer, does   *)
(* not depend on the order of its terms, and changes by one term when the  *)
(* set does.  Induction is by a smallest counterexample: a set of subsets  *)
(* of a finite set has a member that contains no other.                    *)
(***************************************************************************)
EXTENDS Integers, FiniteSets, Functions, FiniteSetTheorems, TLAPS

(* The term that the fold adds next. *)
Pick(s) == CHOOSE x \in s : TRUE

(* g gives the sum of f over each subset of S: the recursion of the fold. *)
IsSum(g, f, S) ==
    g = [s \in SUBSET S |-> IF s = {} THEN 0 ELSE f[Pick(s)] + g[s \ {Pick(s)}]]

(* A set of subsets of a finite set has a member none of whose proper subsets
   is in it. *)
LEMMA SmallestSubset ==
    ASSUME NEW S, IsFiniteSet(S), NEW B, B \subseteq SUBSET S, B # {}
    PROVE  \E m \in B : \A t \in SUBSET m : t # m => t \notin B
<1>1. B \subseteq FiniteSubsetsOf(S)
  BY FS_Subset DEF FiniteSubsetsOf
<1>2. PICK m \in B : \A t \in B : ~ <<t, m>> \in StrictSubsetOrdering(S)
  BY <1>1, WFMin, FS_StrictSubsetOrderingWellFounded
<1>3. \A t \in SUBSET m : t # m => t \notin B
  BY <1>1, <1>2 DEF StrictSubsetOrdering, FiniteSubsetsOf
<1> QED BY <1>3

(* The next term is one of the terms. *)
LEMMA PickedIsMember == ASSUME NEW s, s # {} PROVE Pick(s) \in s
  BY DEF Pick

(* The recursion, one step at a time. *)
LEMMA SumUnfolds ==
    ASSUME NEW f, NEW S, NEW g, IsSum(g, f, S)
    PROVE  /\ g[{}] = 0
           /\ \A s \in SUBSET S : s # {} => g[s] = f[Pick(s)] + g[s \ {Pick(s)}]
  BY DEF IsSum

(* Two solutions of the recursion agree wherever both are defined. *)
LEMMA SumUnique ==
    ASSUME NEW f, NEW S, NEW T, NEW g, NEW h, IsSum(g, f, S), IsSum(h, f, T),
           NEW u, u \subseteq S, u \subseteq T, IsFiniteSet(u)
    PROVE  g[u] = h[u]
<1> DEFINE B == {s \in SUBSET u : g[s] # h[s]}
<1> SUFFICES ASSUME B # {} PROVE FALSE
  OBVIOUS
<1>1. PICK m \in B : \A t \in SUBSET m : t # m => t \notin B
  <2>1. B \subseteq SUBSET u /\ B # {}
    OBVIOUS
  <2> HIDE DEF B
  <2> QED BY <2>1, SmallestSubset
<1>2. m # {}
  BY <1>1, SumUnfolds
<1>3. g[m \ {Pick(m)}] = h[m \ {Pick(m)}]
  BY <1>1, <1>2, PickedIsMember
<1>4. g[m] = h[m]
  BY <1>1, <1>2, <1>3, SumUnfolds
<1> QED BY <1>1, <1>4

(* The recursion has a solution: on a smallest set without one it could be put
   together from the solutions on its proper subsets. *)
LEMMA SumExists ==
    ASSUME NEW f, NEW S, IsFiniteSet(S)
    PROVE  \E g : IsSum(g, f, S)
<1> DEFINE B == {s \in SUBSET S : ~ \E g : IsSum(g, f, s)}
           G(s) == CHOOSE g : IsSum(g, f, s)
<1> SUFFICES ASSUME B # {} PROVE FALSE
  OBVIOUS
<1>1. PICK m \in B : \A t \in SUBSET m : t # m => t \notin B
  <2>1. B \subseteq SUBSET S /\ B # {}
    OBVIOUS
  <2> HIDE DEF B
  <2> QED BY <2>1, SmallestSubset
<1> DEFINE Rest(s) == s \ {Pick(s)}
           h == [s \in SUBSET m |-> IF s = {} THEN 0 ELSE f[Pick(s)] + G(Rest(s))[Rest(s)]]
<1>2. ASSUME NEW t \in SUBSET m, t # m PROVE IsSum(G(t), f, t) /\ IsFiniteSet(t)
  <2>1. \E g : IsSum(g, f, t)
    BY <1>1, <1>2
  <2> HIDE DEF IsSum
  <2>2. IsSum(G(t), f, t)
    BY <2>1
  <2> QED BY <2>2, <1>1, FS_Subset
<1>3. ASSUME NEW u \in SUBSET m, u # m PROVE h[u] = G(u)[u]
  <2>1. CASE u = {}
    BY <1>2, <1>3, <2>1, SumUnfolds
  <2>2. CASE u # {}
    <3>1. Rest(u) \in SUBSET m /\ Rest(u) # m /\ Rest(u) \subseteq u
      BY <2>2, PickedIsMember
    <3>2. IsSum(G(u), f, u) /\ IsSum(G(Rest(u)), f, Rest(u)) /\ IsFiniteSet(Rest(u))
      BY <1>2, <1>3, <3>1
    <3>3. G(u)[Rest(u)] = G(Rest(u))[Rest(u)]
      BY <3>1, <3>2, SumUnique
    <3>4. G(u)[u] = f[Pick(u)] + G(u)[Rest(u)]
      BY <2>2, <3>2, SumUnfolds
    <3>5. h[u] = f[Pick(u)] + G(Rest(u))[Rest(u)]
      BY <2>2
    <3> QED BY <3>3, <3>4, <3>5
  <2> QED BY <2>1, <2>2
<1>4. h = [s \in SUBSET m |-> IF s = {} THEN 0 ELSE f[Pick(s)] + h[Rest(s)]]
  <2>1. ASSUME NEW s \in SUBSET m, s # {}
        PROVE  h[s] = f[Pick(s)] + h[Rest(s)]
    <3>1. Rest(s) \in SUBSET m /\ Rest(s) # m
      BY <2>1, PickedIsMember
    <3>2. h[Rest(s)] = G(Rest(s))[Rest(s)]
      BY <1>3, <3>1
    <3> QED BY <2>1, <3>2
  <2>2. h[{}] = 0
    OBVIOUS
  <2>3. h = [s \in SUBSET m |-> h[s]]
    OBVIOUS
  <2> HIDE DEF h
  <2>4. ASSUME NEW s \in SUBSET m
        PROVE h[s] = IF s = {} THEN 0 ELSE f[Pick(s)] + h[Rest(s)]
    BY <2>1, <2>2
  <2> QED BY <2>3, <2>4
<1>5. IsSum(h, f, m)
  BY <1>4 DEF IsSum
<1> QED BY <1>1, <1>5

(* SumFunctionOnSet is that solution. *)
LEMMA SumIs ==
    ASSUME NEW f, NEW S, IsFiniteSet(S)
    PROVE  \E g : IsSum(g, f, S) /\ SumFunctionOnSet(f, S) = g[S]
<1> DEFINE g == CHOOSE g : IsSum(g, f, S)
<1>1. IsSum(g, f, S)
  BY SumExists
<1>2. SumFunctionOnSet(f, S) = g[S]
  BY Zenon DEF SumFunctionOnSet, FoldFunctionOnSet, MapThenFoldSet, IsSum, Pick
<1> QED BY <1>1, <1>2

(* The same, with and without one of the terms. *)
LEMMA TwoSums ==
    ASSUME NEW f, NEW S, IsFiniteSet(S), NEW x \in S
    PROVE  \E g, h : /\ IsSum(g, f, S) /\ IsSum(h, f, S \ {x})
                     /\ SumFunctionOnSet(f, S) = g[S]
                     /\ SumFunctionOnSet(f, S \ {x}) = h[S \ {x}]
  BY SumIs, FS_RemoveElement

(* The sum of no numbers. *)
LEMMA SumEmpty == ASSUME NEW f PROVE SumFunctionOnSet(f, {}) = 0
<1>1. PICK g : IsSum(g, f, {}) /\ SumFunctionOnSet(f, {}) = g[{}]
  BY SumIs, FS_EmptySet
<1> QED BY <1>1, SumUnfolds

(* The recursion, in terms of the sums themselves. *)
LEMMA SumPick ==
    ASSUME NEW f, NEW S, IsFiniteSet(S), S # {}
    PROVE  SumFunctionOnSet(f, S) = f[Pick(S)] + SumFunctionOnSet(f, S \ {Pick(S)})
<1>0. Pick(S) \in S
  BY PickedIsMember
<1>1. PICK g, h : /\ IsSum(g, f, S) /\ IsSum(h, f, S \ {Pick(S)})
                  /\ SumFunctionOnSet(f, S) = g[S]
                  /\ SumFunctionOnSet(f, S \ {Pick(S)}) = h[S \ {Pick(S)}]
  BY <1>0, TwoSums
<1>2. g[S] = f[Pick(S)] + g[S \ {Pick(S)}]
  BY <1>1, SumUnfolds
<1>3. g[S \ {Pick(S)}] = h[S \ {Pick(S)}]
  BY <1>1, SumUnique, FS_RemoveElement
<1> QED BY <1>1, <1>2, <1>3

(* A sum of integers is one. *)
LEMMA SumInt ==
    ASSUME NEW f, NEW S, IsFiniteSet(S), \A x \in S : f[x] \in Int
    PROVE  SumFunctionOnSet(f, S) \in Int
<1> DEFINE B == {s \in SUBSET S : SumFunctionOnSet(f, s) \notin Int}
<1> SUFFICES ASSUME B # {} PROVE FALSE
  OBVIOUS
<1>1. PICK m \in B : \A t \in SUBSET m : t # m => t \notin B
  <2>1. B \subseteq SUBSET S /\ B # {}
    OBVIOUS
  <2> HIDE DEF B
  <2> QED BY <2>1, SmallestSubset
<1>2. m # {} /\ IsFiniteSet(m)
  <2>1. SumFunctionOnSet(f, {}) \in Int
    BY SumEmpty
  <2> QED BY <1>1, <2>1, FS_Subset
<1>3. SumFunctionOnSet(f, m \ {Pick(m)}) \in Int
  BY <1>1, <1>2, PickedIsMember
<1>4. f[Pick(m)] \in Int
  BY <1>1, <1>2, PickedIsMember
<1> QED BY <1>1, <1>2, <1>3, <1>4, SumPick

(* The terms may be added in any order. *)
LEMMA SumRemove ==
    ASSUME NEW f, NEW S, IsFiniteSet(S), \A x \in S : f[x] \in Int, NEW x \in S
    PROVE  SumFunctionOnSet(f, S) = f[x] + SumFunctionOnSet(f, S \ {x})
<1> DEFINE B == {s \in SUBSET S : \E y \in s :
                    SumFunctionOnSet(f, s) # f[y] + SumFunctionOnSet(f, s \ {y})}
<1> SUFFICES ASSUME B # {} PROVE FALSE
  OBVIOUS
<1>1. PICK m \in B : \A t \in SUBSET m : t # m => t \notin B
  <2>1. B \subseteq SUBSET S /\ B # {}
    OBVIOUS
  <2> HIDE DEF B
  <2> QED BY <2>1, SmallestSubset
<1>2. PICK y \in m : SumFunctionOnSet(f, m) # f[y] + SumFunctionOnSet(f, m \ {y})
  BY <1>1
<1> DEFINE c == Pick(m)
<1>3. c \in m /\ m \in SUBSET S /\ IsFiniteSet(m)
  BY <1>1, <1>2, PickedIsMember, FS_Subset
<1>4. SumFunctionOnSet(f, m) = f[c] + SumFunctionOnSet(f, m \ {c})
  BY <1>2, <1>3, SumPick
<1>5. c # y
  BY <1>2, <1>4
<1>6. SumFunctionOnSet(f, m \ {c}) = f[y] + SumFunctionOnSet(f, (m \ {c}) \ {y})
  <2>1. m \ {c} \in SUBSET m /\ m \ {c} # m /\ y \in m \ {c}
    BY <1>3, <1>5
  <2> QED BY <1>1, <1>3, <2>1
<1>7. SumFunctionOnSet(f, m \ {y}) = f[c] + SumFunctionOnSet(f, (m \ {y}) \ {c})
  <2>1. m \ {y} \in SUBSET m /\ m \ {y} # m /\ c \in m \ {y}
    BY <1>2, <1>3, <1>5
  <2> QED BY <1>1, <1>3, <2>1
<1>8. (m \ {y}) \ {c} = (m \ {c}) \ {y} /\ IsFiniteSet((m \ {c}) \ {y})
  BY <1>3, FS_RemoveElement
<1>9. SumFunctionOnSet(f, (m \ {c}) \ {y}) \in Int /\ f[c] \in Int /\ f[y] \in Int
  BY <1>2, <1>3, <1>8, SumInt
<1> HIDE DEF c
<1> QED BY <1>2, <1>4, <1>6, <1>7, <1>8, <1>9

(* One term more. *)
LEMMA SumAdd ==
    ASSUME NEW f, NEW S, IsFiniteSet(S), NEW x, x \notin S, \A y \in S \cup {x} : f[y] \in Int
    PROVE  SumFunctionOnSet(f, S \cup {x}) = f[x] + SumFunctionOnSet(f, S)
<1>1. IsFiniteSet(S \cup {x}) /\ (S \cup {x}) \ {x} = S
  BY FS_AddElement
<1> QED BY <1>1, SumRemove

(* Only the terms matter. *)
LEMMA SumSame ==
    ASSUME NEW f, NEW g, NEW S, IsFiniteSet(S), \A x \in S : f[x] = g[x]
    PROVE  SumFunctionOnSet(f, S) = SumFunctionOnSet(g, S)
<1> DEFINE B == {s \in SUBSET S : SumFunctionOnSet(f, s) # SumFunctionOnSet(g, s)}
<1> SUFFICES ASSUME B # {} PROVE FALSE
  OBVIOUS
<1>1. PICK m \in B : \A t \in SUBSET m : t # m => t \notin B
  <2>1. B \subseteq SUBSET S /\ B # {}
    OBVIOUS
  <2> HIDE DEF B
  <2> QED BY <2>1, SmallestSubset
<1>2. m # {} /\ IsFiniteSet(m)
  BY <1>1, SumEmpty, FS_Subset
<1>3. SumFunctionOnSet(f, m \ {Pick(m)}) = SumFunctionOnSet(g, m \ {Pick(m)})
  BY <1>1, <1>2, PickedIsMember
<1>4. f[Pick(m)] = g[Pick(m)]
  BY <1>1, <1>2, PickedIsMember
<1> QED BY <1>1, <1>2, <1>3, <1>4, SumPick

(* Zeros add up to zero. *)
LEMMA SumOfZeros ==
    ASSUME NEW f, NEW S, IsFiniteSet(S), \A x \in S : f[x] = 0
    PROVE  SumFunctionOnSet(f, S) = 0
<1> DEFINE B == {s \in SUBSET S : SumFunctionOnSet(f, s) # 0}
<1> SUFFICES ASSUME B # {} PROVE FALSE
  OBVIOUS
<1>1. PICK m \in B : \A t \in SUBSET m : t # m => t \notin B
  <2>1. B \subseteq SUBSET S /\ B # {}
    OBVIOUS
  <2> HIDE DEF B
  <2> QED BY <2>1, SmallestSubset
<1>2. m # {} /\ IsFiniteSet(m)
  <2>1. SumFunctionOnSet(f, {}) = 0
    BY SumEmpty
  <2> QED BY <1>1, <2>1, FS_Subset
<1>3. SumFunctionOnSet(f, m \ {Pick(m)}) = 0 /\ f[Pick(m)] = 0
  BY <1>1, <1>2, PickedIsMember
<1> QED BY <1>1, <1>2, <1>3, SumPick
=============================================================================
