------------------------- MODULE SupersessionFacts --------------------------
(***************************************************************************)
(* Lemmas about Supersession chains: every chain that leads to earlier     *)
(* mints ends, and what it ends at after a merge and after a mint.  First  *)
(* those about the least and the greatest of a set of numbers.             *)
(***************************************************************************)
EXTENDS Supersession, FiniteSetsExt, TLAPS, WellFoundedInduction

(* A non-empty set of numbers has a least one. *)
LEMMA LeastNat ==
  ASSUME NEW T \in SUBSET Nat, T # {}
  PROVE  \E x \in T : \A y \in T : x <= y
<1> DEFINE R == OpToRel(<, Nat)
<1>1. IsWellFoundedOn(R, Nat)
  BY NatLessThanWellFounded
<1>2. \A x, y \in Nat : <<y, x>> \in R <=> y < x
  BY DEF OpToRel
<1>3. PICK x \in T : \A y \in T : ~ (<<y, x>> \in R)
  <2> HIDE DEF R
  <2> QED BY <1>1, WFMin
<1>4. \A y \in T : ~ (y < x)
  BY <1>2, <1>3
<1> QED BY <1>4

LEMMA MinIsMember ==
  ASSUME NEW T \in SUBSET Nat, T # {}
  PROVE  Min(T) \in T /\ \A t \in T : Min(T) <= t
<1>1. \E x \in T : \A y \in T : x <= y
  BY LeastNat
<1> QED BY <1>1 DEF Min

(* The greatest of numbers that have a bound is one of them. *)
LEMMA MaxIsMember ==
  ASSUME NEW T \in SUBSET Nat, T # {}, NEW n \in Nat, \A t \in T : t <= n
  PROVE  Max(T) \in T /\ \A t \in T : t <= Max(T)
<1> DEFINE Bounds == {b \in Nat : \A t \in T : t <= b}
<1>1. PICK b \in Bounds : \A c \in Bounds : b <= c
  <2>1. Bounds \in SUBSET Nat /\ Bounds # {}
    OBVIOUS
  <2> HIDE DEF Bounds
  <2> QED BY <2>1, LeastNat
<1>2. b \in T
  <2>1. ASSUME b \notin T PROVE FALSE
    <3>1. PICK t \in T : TRUE
      OBVIOUS
    <3>2. t < b /\ \A u \in T : u < b
      BY <1>1, <2>1
    <3>3. b - 1 \in Bounds
      BY <1>1, <3>2
    <3> QED BY <1>1, <3>3
  <2> QED BY <2>1
<1>3. \E x \in T : \A y \in T : x >= y
  BY <1>1, <1>2
<1> HIDE DEF Bounds
<1>4. Max(T) \in T /\ \A y \in T : Max(T) >= y
  BY <1>3 DEF Max
<1> QED BY <1>4

(* Every link leads to a smaller number, so every chain ends. *)
WellLinked(links, n) ==
  /\ n \in Nat
  /\ links \in [1 .. n -> Nat]
  /\ \A i \in 1 .. n : links[i] < i

(* The recursive equation of Fold on the first m elements. *)
Folds(f, links, m) ==
  f = [i \in 1 .. m |-> IF links[i] = None THEN i ELSE f[links[i]]]

(* The same equation, pointwise. *)
IsFold(f, links, n) ==
  \A i \in 1 .. n : f[i] = IF links[i] = None THEN i ELSE f[links[i]]

(* The recursive equation of Fold has a solution on every prefix. *)
LEMMA FoldsExists ==
  ASSUME NEW links, NEW n, WellLinked(links, n)
  PROVE  \A m \in 0 .. n : \E f : Folds(f, links, m)
<1> DEFINE Bad == { m \in 0 .. n : ~ \E f : Folds(f, links, m) }
<1> SUFFICES ASSUME Bad # {} PROVE FALSE
  OBVIOUS
<1>1. PICK m \in Bad : \A k \in Bad : m <= k
  <2>1. Bad \in SUBSET Nat
    BY DEF WellLinked
  <2> QED BY <2>1, LeastNat
<1>2. m # 0
  <2>1. Folds([i \in 1 .. 0 |-> 0], links, 0)
    BY DEF Folds
  <2> QED BY <2>1, <1>1
<1>3. m - 1 \in 0 .. n /\ m - 1 \notin Bad
  BY <1>1, <1>2 DEF WellLinked
<1>4. PICK f : Folds(f, links, m - 1)
  BY <1>3
<1> DEFINE g == [i \in 1 .. m |-> IF links[i] = None THEN i ELSE f[links[i]]]
<1>5. \A i \in 1 .. m : links[i] # None => links[i] \in 1 .. m - 1
  BY <1>1 DEF WellLinked, None
<1>6. \A i \in 1 .. m - 1 : g[i] = f[i]
  <2>1. \A i \in 1 .. m - 1 : f[i] = IF links[i] = None THEN i ELSE f[links[i]]
    BY <1>4 DEF Folds
  <2>2. 1 .. m - 1 \subseteq 1 .. m
    BY <1>1 DEF WellLinked
  <2> QED BY <2>1, <2>2
<1>7. \A i \in 1 .. m : g[i] = IF links[i] = None THEN i ELSE g[links[i]]
  BY <1>5, <1>6
<1>8. Folds(g, links, m)
  BY <1>7 DEF Folds
<1> QED BY <1>8, <1>1

(* Fold is what its recursive definition says. *)
LEMMA FoldEquation ==
  ASSUME NEW links, NEW n, WellLinked(links, n)
  PROVE  /\ DOMAIN Fold(links) = 1 .. n
         /\ IsFold(Fold(links), links, n)
<1>1. DOMAIN links = 1 .. n /\ n \in 0 .. n
  BY DEF WellLinked
<1>2. \E f : Folds(f, links, n)
  BY <1>1, FoldsExists
<1>3. Folds(Fold(links), links, n)
  BY <1>1, <1>2 DEF Fold, Folds
<1> HIDE DEF Fold
<1> QED BY <1>3 DEF Folds, IsFold

(* A function that satisfies the equation is Fold. *)
LEMMA FoldUnique ==
  ASSUME NEW links, NEW n, WellLinked(links, n), NEW g, IsFold(g, links, n)
  PROVE  \A i \in 1 .. n : Fold(links)[i] = g[i]
<1> DEFINE Bad == { i \in 1 .. n : Fold(links)[i] # g[i] }
<1> SUFFICES ASSUME Bad # {} PROVE FALSE
  OBVIOUS
<1>1. PICK i \in Bad : \A k \in Bad : i <= k
  <2>1. Bad \in SUBSET Nat
    BY DEF WellLinked
  <2> QED BY <2>1, LeastNat
<1>2. links[i] # None
  BY <1>1, FoldEquation DEF IsFold
<1>3. links[i] \in 1 .. n /\ links[i] < i
  BY <1>1, <1>2 DEF WellLinked, None
<1>4. Fold(links)[links[i]] = g[links[i]]
  BY <1>1, <1>3
<1>5. Fold(links)[i] = Fold(links)[links[i]] /\ g[i] = g[links[i]]
  BY <1>1, <1>2, FoldEquation DEF IsFold
<1> QED BY <1>1, <1>4, <1>5

(* A chain ends at a survivor minted no later. *)
LEMMA FoldEnds ==
  ASSUME NEW links, NEW n, WellLinked(links, n)
  PROVE  \A i \in 1 .. n : Fold(links)[i] \in 1 .. i /\ links[Fold(links)[i]] = None
<1> DEFINE Bad == { i \in 1 .. n : ~ (Fold(links)[i] \in 1 .. i /\ links[Fold(links)[i]] = None) }
<1> SUFFICES ASSUME Bad # {} PROVE FALSE
  OBVIOUS
<1>1. PICK i \in Bad : \A k \in Bad : i <= k
  <2>1. Bad \in SUBSET Nat
    BY DEF WellLinked
  <2> QED BY <2>1, LeastNat
<1>2. links[i] # None
  BY <1>1, FoldEquation DEF IsFold
<1>3. links[i] \in 1 .. n /\ links[i] < i
  BY <1>1, <1>2 DEF WellLinked, None
<1>4. Fold(links)[links[i]] \in 1 .. links[i] /\ links[Fold(links)[links[i]]] = None
  BY <1>1, <1>3
<1>5. Fold(links)[i] = Fold(links)[links[i]]
  BY <1>1, <1>2, FoldEquation DEF IsFold
<1> QED BY <1>1, <1>3, <1>4, <1>5

(* A survivor folds to itself. *)
LEMMA FoldFixed ==
  ASSUME NEW links, NEW n, WellLinked(links, n), NEW i \in 1 .. n, links[i] = None
  PROVE  Fold(links)[i] = i
BY FoldEquation DEF IsFold

(* Superseding survivors by an earlier survivor moves their families, and   *)
(* only theirs, to it.                                                      *)
LEMMA FoldAfterMerge ==
  ASSUME NEW links, NEW n, WellLinked(links, n),
         NEW t \in 1 .. n, links[t] = None,
         NEW losers \in SUBSET (1 .. n),
         \A l \in losers : links[l] = None /\ t < l,
         NEW merged, merged = [i \in 1 .. n |-> IF i \in losers THEN t ELSE links[i]]
  PROVE  /\ WellLinked(merged, n)
         /\ \A i \in 1 .. n : Fold(merged)[i] =
              IF Fold(links)[i] \in losers THEN t ELSE Fold(links)[i]
<1> DEFINE g == [i \in 1 .. n |-> IF Fold(links)[i] \in losers THEN t ELSE Fold(links)[i]]
<1>1. WellLinked(merged, n)
  BY DEF WellLinked
<1>2. t \notin losers /\ Fold(links)[t] = t
  <2>1. t \notin losers
    BY DEF WellLinked
  <2> QED BY <2>1, FoldFixed
<1>3. ASSUME NEW i \in 1 .. n
      PROVE  g[i] = IF merged[i] = None THEN i ELSE g[merged[i]]
  <2>1. CASE i \in losers
    <3>1. Fold(links)[i] = i /\ merged[i] = t /\ t # None
      BY <2>1, FoldFixed DEF None
    <3> QED BY <3>1, <2>1, <1>2
  <2>2. CASE i \notin losers /\ links[i] = None
    <3>1. Fold(links)[i] = i /\ merged[i] = None
      BY <2>2, FoldFixed
    <3> QED BY <3>1, <2>2
  <2>3. CASE i \notin losers /\ links[i] # None
    <3>1. merged[i] = links[i] /\ links[i] \in 1 .. n
      BY <2>3 DEF WellLinked, None
    <3>2. Fold(links)[i] = Fold(links)[links[i]]
      BY <2>3, FoldEquation DEF IsFold
    <3> QED BY <3>1, <3>2, <2>3
  <2> QED BY <2>1, <2>2, <2>3
<1>4. \A i \in 1 .. n : Fold(merged)[i] = g[i]
  <2>1. IsFold(g, merged, n)
    BY <1>3 DEF IsFold
  <2> HIDE DEF g
  <2> QED BY <1>1, <2>1, FoldUnique
<1> QED BY <1>1, <1>4

(* Minting moves nobody, and what is minted survives. *)
LEMMA FoldAfterMint ==
  ASSUME NEW links, NEW n, WellLinked(links, n),
         NEW minted, minted = [i \in 1 .. n + 1 |-> IF i = n + 1 THEN None ELSE links[i]]
  PROVE  /\ WellLinked(minted, n + 1)
         /\ \A i \in 1 .. n : Fold(minted)[i] = Fold(links)[i]
         /\ Fold(minted)[n + 1] = n + 1
<1> DEFINE g == [i \in 1 .. n + 1 |-> IF i = n + 1 THEN n + 1 ELSE Fold(links)[i]]
<1>1. WellLinked(minted, n + 1)
  BY DEF WellLinked, None
<1>2. ASSUME NEW i \in 1 .. n + 1
      PROVE  g[i] = IF minted[i] = None THEN i ELSE g[minted[i]]
  <2>1. CASE i = n + 1
    BY <2>1 DEF WellLinked
  <2>2. CASE i # n + 1
    <3>1. i \in 1 .. n /\ minted[i] = links[i]
      BY <2>2 DEF WellLinked
    <3>2. links[i] # None => links[i] \in 1 .. n
      BY <3>1 DEF WellLinked, None
    <3>3. Fold(links)[i] = IF links[i] = None THEN i ELSE Fold(links)[links[i]]
      BY <3>1, FoldEquation DEF IsFold
    <3> QED BY <2>2, <3>1, <3>2, <3>3 DEF WellLinked
  <2> QED BY <2>1, <2>2
<1>3. \A i \in 1 .. n + 1 : Fold(minted)[i] = g[i]
  <2>1. IsFold(g, minted, n + 1)
    BY <1>2 DEF IsFold
  <2> HIDE DEF g
  <2> QED BY <1>1, <2>1, FoldUnique
<1>4. n + 1 \in 1 .. n + 1 /\ \A i \in 1 .. n : i \in 1 .. n + 1 /\ i # n + 1
  BY DEF WellLinked
<1>5. g[n + 1] = n + 1 /\ \A i \in 1 .. n : g[i] = Fold(links)[i]
  BY <1>4
<1> HIDE DEF g
<1> QED BY <1>1, <1>3, <1>4, <1>5
=============================================================================
