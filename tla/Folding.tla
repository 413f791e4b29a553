------------------------------ MODULE Folding -------------------------------
(***************************************************************************)
(* FoldLeft of the community modules, for any operator Op: where it starts *)
(* and what one more element does.  An instance of this module gives the   *)
(* facts for an operator of the model.  Sums over a finite set, which the  *)
(* community modules also write as folds, come after it.                   *)
(***************************************************************************)
EXTENDS SequencesExt, Integers, WellFoundedInduction, FiniteSetTheorems, TLAPS

CONSTANT Op(_, _, _)  \* what one element does to a value, given a parameter

Fold(p, base, s) == FoldLeft(LAMBDA w, e : Op(p, w, e), base, s)

\* A set of numbers that has 0 and the successor of each of its members has all.
LEMMA NatInSteps ==
  ASSUME NEW T, 0 \in T, \A n \in Nat : n \in T => n + 1 \in T
  PROVE  Nat \subseteq T
<1> DEFINE Rest == Nat \ T
<1> SUFFICES ASSUME Rest # {} PROVE FALSE
  OBVIOUS
<1>1. PICK x \in Rest : \A y \in Rest : ~ (<<y, x>> \in OpToRel(<, Nat))
  BY NatLessThanWellFounded, WFMin
<1>2. x # 0 /\ x \in Nat
  OBVIOUS
<1>3. x - 1 \in Nat /\ x - 1 < x /\ (x - 1) + 1 = x
  BY <1>2
<1>4. x - 1 \in Rest
  BY <1>3
<1>5. <<x - 1, x>> \in OpToRel(<, Nat)
  BY <1>2, <1>3 DEF OpToRel
<1> QED
  BY <1>1, <1>4, <1>5

LEMMA MaxIs ==
  ASSUME NEW S, NEW x \in S, \A y \in S : x >= y /\ y \in Int
  PROVE  Max(S) = x
<1>1. \A z \in S : (\A y \in S : z >= y) => z = x
  OBVIOUS
<1> QED
  BY <1>1 DEF Max

\* The recursive function FoldLeft is defined by, over the positions of s.
Unfolded(g, p, base, s, m) ==
  g = [t \in SUBSET (1 .. m) |-> IF t = {} THEN base ELSE Op(p, g[t \ {Max(t)}], s[Max(t)])]

LEMMA FoldIsChosen ==
  ASSUME NEW p, NEW base, NEW s
  PROVE  Fold(p, base, s) =
           (CHOOSE g : g = [t \in SUBSET DOMAIN s |->
                              IF t = {} THEN base ELSE Op(p, g[t \ {Max(t)}], s[Max(t)])])[DOMAIN s]
BY DEF Fold, FoldLeft, MapThenFoldSet

\* Such a function exists: it is extended by one position at a time.
LEMMA UnfoldedExists ==
  ASSUME NEW p, NEW base, NEW s
  PROVE  \A m \in Nat : \E g : Unfolded(g, p, base, s, m)
<1> DEFINE T == {m \in Nat : \E g : Unfolded(g, p, base, s, m)}
<1>1. 0 \in T
  <2> DEFINE g == [t \in SUBSET (1 .. 0) |-> base]
  <2>1. \A t \in SUBSET (1 .. 0) : t = {}
    OBVIOUS
  <2>2. Unfolded(g, p, base, s, 0)
    BY <2>1 DEF Unfolded
  <2> QED
    BY <2>2
<1>2. ASSUME NEW n \in Nat, n \in T
      PROVE  n + 1 \in T
  <2>1. PICK g : Unfolded(g, p, base, s, n)
    BY <1>2
  <2> DEFINE h == [t \in SUBSET (1 .. n + 1) |->
                     IF n + 1 \in t THEN Op(p, g[t \ {n + 1}], s[n + 1]) ELSE g[t]]
  <2>2. ASSUME NEW t \in SUBSET (1 .. n + 1)
        PROVE  h[t] = IF t = {} THEN base ELSE Op(p, h[t \ {Max(t)}], s[Max(t)])
    <3>1. CASE n + 1 \in t
      <4>1. Max(t) = n + 1
        <5>1. \A y \in t : n + 1 >= y /\ y \in Int
          OBVIOUS
        <5> QED
          BY <3>1, <5>1, MaxIs
      <4>2. t \ {n + 1} \in SUBSET (1 .. n) /\ n + 1 \notin t \ {n + 1}
        OBVIOUS
      <4>3. h[t \ {n + 1}] = g[t \ {n + 1}]
        BY <4>2
      <4> QED
        BY <3>1, <4>1, <4>3
    <3>2. CASE n + 1 \notin t
      <4>1. t \in SUBSET (1 .. n)
        BY <3>2
      <4>2. h[t] = g[t]
        BY <3>2
      <4>3. CASE t = {}
        BY <2>1, <4>1, <4>2, <4>3 DEF Unfolded
      <4>4. CASE t # {}
        <5>1. g[t] = Op(p, g[t \ {Max(t)}], s[Max(t)])
          BY <2>1, <4>1, <4>4 DEF Unfolded
        <5>2. h[t \ {Max(t)}] = g[t \ {Max(t)}]
          BY <3>2
        <5> QED
          BY <4>2, <4>4, <5>1, <5>2
      <4> QED
        BY <4>3, <4>4
    <3> QED
      BY <3>1, <3>2
  <2>3. Unfolded(h, p, base, s, n + 1)
    <3> HIDE DEF h
    <3>1. h = [t \in SUBSET (1 .. n + 1) |-> h[t]]
      BY DEF h
    <3> QED
      BY <2>2, <3>1 DEF Unfolded
  <2> QED
    BY <2>3
<1> HIDE DEF T
<1>3. Nat \subseteq T
  BY <1>1, <1>2, NatInSteps
<1> QED
  BY <1>3 DEF T

\* On the first positions it takes one value, step by step.
LEMMA UnfoldedBase ==
  ASSUME NEW p, NEW base, NEW s, NEW m \in Nat, NEW g, Unfolded(g, p, base, s, m)
  PROVE  g[1 .. 0] = base
<1>1. 1 .. 0 = {} /\ {} \in SUBSET (1 .. m)
  OBVIOUS
<1> QED
  BY <1>1 DEF Unfolded

LEMMA UnfoldedStep ==
  ASSUME NEW p, NEW base, NEW s, NEW m \in Nat, NEW g, Unfolded(g, p, base, s, m), NEW n \in 0 .. m - 1
  PROVE  g[1 .. n + 1] = Op(p, g[1 .. n], s[n + 1])
<1>1. /\ 1 .. n + 1 \in SUBSET (1 .. m) /\ n + 1 \in 1 .. n + 1
      /\ (1 .. n + 1) \ {n + 1} = 1 .. n
  OBVIOUS
<1>2. Max(1 .. n + 1) = n + 1
  <2>1. \A y \in 1 .. n + 1 : n + 1 >= y /\ y \in Int
    OBVIOUS
  <2> QED
    BY <1>1, <2>1, MaxIs
<1> QED
  BY <1>1, <1>2 DEF Unfolded

\* Two of them agree as far as their sequences do.
LEMMA UnfoldedAgree ==
  ASSUME NEW p, NEW base, NEW s, NEW m \in Nat, NEW g, Unfolded(g, p, base, s, m),
         NEW r, NEW k \in Nat, NEW h, Unfolded(h, p, base, r, k),
         m <= k, \A i \in 1 .. m : s[i] = r[i]
  PROVE  g[1 .. m] = h[1 .. m]
<1> DEFINE T == {n \in Nat : n <= m => g[1 .. n] = h[1 .. n]}
<1>1. 0 \in T
  <2>1. g[1 .. 0] = base
    BY UnfoldedBase
  <2>2. h[1 .. 0] = base
    BY UnfoldedBase
  <2> QED
    BY <2>1, <2>2
<1>2. ASSUME NEW n \in Nat, n \in T
      PROVE  n + 1 \in T
  <2> SUFFICES ASSUME n + 1 <= m PROVE g[1 .. n + 1] = h[1 .. n + 1]
    OBVIOUS
  <2>1. n \in 0 .. m - 1 /\ n \in 0 .. k - 1 /\ s[n + 1] = r[n + 1] /\ g[1 .. n] = h[1 .. n]
    BY <1>2
  <2> QED
    <3>1. g[1 .. n + 1] = Op(p, g[1 .. n], s[n + 1])
      BY <2>1, UnfoldedStep
    <3>2. h[1 .. n + 1] = Op(p, h[1 .. n], r[n + 1])
      BY <2>1, UnfoldedStep
    <3> QED
      BY <2>1, <3>1, <3>2
<1> HIDE DEF T
<1>3. Nat \subseteq T
  BY <1>1, <1>2, NatInSteps
<1> QED
  BY <1>3 DEF T

\* The function FoldLeft applies is one of them.
LEMMA FoldIsUnfolded ==
  ASSUME NEW p, NEW base, NEW E, NEW s \in Seq(E)
  PROVE  \E g : Unfolded(g, p, base, s, Len(s)) /\ Fold(p, base, s) = g[1 .. Len(s)]
<1>1. DOMAIN s = 1 .. Len(s) /\ Len(s) \in Nat
  OBVIOUS
<1> DEFINE g == CHOOSE g : Unfolded(g, p, base, s, Len(s))
<1>2. Unfolded(g, p, base, s, Len(s))
  BY <1>1, UnfoldedExists
<1>3. Fold(p, base, s) = g[1 .. Len(s)]
  BY <1>1, FoldIsChosen DEF Unfolded
<1> QED
  BY <1>2, <1>3

\* Folding nothing leaves the base.
LEMMA FoldNothing ==
  ASSUME NEW p, NEW base
  PROVE  Fold(p, base, <<>>) = base
<1>1. <<>> \in Seq({}) /\ Len(<<>>) = 0
  OBVIOUS
<1>2. PICK g : Unfolded(g, p, base, <<>>, 0) /\ Fold(p, base, <<>>) = g[1 .. 0]
  BY <1>1, FoldIsUnfolded
<1> QED
  BY <1>2, UnfoldedBase

\* The last element is folded last.
LEMMA FoldAppend ==
  ASSUME NEW p, NEW base, NEW E, NEW s \in Seq(E), NEW x \in E
  PROVE  Fold(p, base, Append(s, x)) = Op(p, Fold(p, base, s), x)
<1> DEFINE r == Append(s, x)
           m == Len(s)
<1>1. /\ r \in Seq(E) /\ m \in Nat /\ Len(r) = m + 1 /\ r[m + 1] = x
      /\ \A i \in 1 .. m : s[i] = r[i]
  OBVIOUS
<1>2. PICK g : Unfolded(g, p, base, s, m) /\ Fold(p, base, s) = g[1 .. m]
  BY FoldIsUnfolded
<1> HIDE DEF r, m
<1>3. PICK h : Unfolded(h, p, base, r, m + 1) /\ Fold(p, base, r) = h[1 .. m + 1]
  BY <1>1, FoldIsUnfolded
<1>4. g[1 .. m] = h[1 .. m]
  BY <1>1, <1>2, <1>3, UnfoldedAgree
<1>5. h[1 .. m + 1] = Op(p, h[1 .. m], r[m + 1])
  BY <1>1, <1>3, UnfoldedStep
<1>6. Fold(p, base, r) = Op(p, Fold(p, base, s), x)
  BY <1>1, <1>2, <1>3, <1>4, <1>5
<1> QED
  BY <1>6 DEF r

LEMMA FoldOne ==
  ASSUME NEW p, NEW base, NEW x
  PROVE  Fold(p, base, <<x>>) = Op(p, base, x)
<1> DEFINE e == <<>>
<1>1. e \in Seq({x}) /\ x \in {x}
  OBVIOUS
<1>2. Append(e, x) = <<x>>
  OBVIOUS
<1>3. Fold(p, base, e) = base
  BY FoldNothing
<1> HIDE DEF e
<1>4. Fold(p, base, Append(e, x)) = Op(p, Fold(p, base, e), x)
  BY <1>1, FoldAppend
<1> QED
  BY <1>2, <1>3, <1>4

-----------------------------------------------------------------------------
\* A set of sequences that has the empty one and what is got by appending to any
\* of its members has all.
LEMMA SeqInSteps ==
  ASSUME NEW E, NEW T, <<>> \in T,
         \A s \in Seq(E) : s \in T => \A x \in E : Append(s, x) \in T
  PROVE  Seq(E) \subseteq T
<1> DEFINE L == {n \in Nat : \A s \in Seq(E) : Len(s) = n => s \in T}
<1>1. 0 \in L
  <2>1. \A s \in Seq(E) : Len(s) = 0 => s = <<>>
    OBVIOUS
  <2> QED
    BY <2>1
<1>2. ASSUME NEW n \in Nat, n \in L
      PROVE  n + 1 \in L
  <2> SUFFICES ASSUME NEW s \in Seq(E), Len(s) = n + 1 PROVE s \in T
    OBVIOUS
  <2> DEFINE f == SubSeq(s, 1, n)
  <2>1. f \in Seq(E) /\ Len(f) = n /\ s[n + 1] \in E
    OBVIOUS
  <2>2. s = Append(f, s[n + 1])
    OBVIOUS
  <2>3. f \in T
    BY <1>2, <2>1
  <2> HIDE DEF f
  <2> QED
    BY <2>1, <2>2, <2>3
<1> HIDE DEF L
<1>3. Nat \subseteq L
  BY <1>1, <1>2, NatInSteps
<1> QED
  <2>1. \A s \in Seq(E) : Len(s) \in Nat
    OBVIOUS
  <2> QED
    BY <1>3, <2>1 DEF L

\* What every element keeps holds of the whole fold.
LEMMA FoldKeeps ==
  ASSUME NEW p, NEW E, NEW V, NEW base \in V,
         \A w \in V, x \in E : Op(p, w, x) \in V
  PROVE  \A s \in Seq(E) : Fold(p, base, s) \in V
<1> DEFINE T == {s \in Seq(E) : Fold(p, base, s) \in V}
<1>1. <<>> \in T
  BY FoldNothing
<1>2. \A s \in Seq(E) : s \in T => \A x \in E : Append(s, x) \in T
  <2> SUFFICES ASSUME NEW s \in Seq(E), s \in T, NEW x \in E PROVE Append(s, x) \in T
    OBVIOUS
  <2>1. Fold(p, base, Append(s, x)) = Op(p, Fold(p, base, s), x)
    BY FoldAppend
  <2>2. Append(s, x) \in Seq(E)
    OBVIOUS
  <2> QED
    BY <2>1, <2>2
<1> HIDE DEF T
<1>3. Seq(E) \subseteq T
  BY <1>1, <1>2, SeqInSteps
<1> QED
  BY <1>3 DEF T

-----------------------------------------------------------------------------
(* Sums over a finite set                                                  *)

\* The order in which a sum is taken.
Pick(t) == CHOOSE x \in t : TRUE

\* g gives the sum of f over each of the subsets D of a set.
Sums(g, f, D) == g = [t \in D |-> IF t = {} THEN 0 ELSE f[Pick(t)] + g[t \ {Pick(t)}]]

\* Taking an element away.
LEMMA OneLess ==
  ASSUME NEW t, IsFiniteSet(t), NEW x \in t
  PROVE  Cardinality(t \ {x}) \in Nat /\ Cardinality(t) = Cardinality(t \ {x}) + 1
<1>1. Cardinality(t \ {x}) = Cardinality(t) - 1
  BY FS_RemoveElement
<1>2. Cardinality(t) \in Nat /\ Cardinality(t \ {x}) \in Nat
  BY FS_CardinalityType, FS_RemoveElement
<1> QED
  BY <1>1, <1>2

\* There are such sums: over sets of at most n elements, for each n.
LEMMA SumsExist ==
  ASSUME NEW f, NEW S, IsFiniteSet(S)
  PROVE  \E g : Sums(g, f, SUBSET S)
<1> DEFINE D(n) == {u \in SUBSET S : Cardinality(u) <= n}
           T == {n \in Nat : \E g : Sums(g, f, D(n))}
<1>0. \A u \in SUBSET S : IsFiniteSet(u) /\ Cardinality(u) \in Nat
  BY FS_Subset, FS_CardinalityType
<1>1. 0 \in T
  <2> DEFINE g == [t \in D(0) |-> 0]
  <2>1. \A t \in D(0) : t = {}
    BY <1>0, FS_EmptySet
  <2>2. Sums(g, f, D(0))
    BY <2>1 DEF Sums
  <2> QED
    BY <2>2
<1>2. ASSUME NEW n \in Nat, n \in T
      PROVE  n + 1 \in T
  <2>1. PICK g : Sums(g, f, D(n))
    BY <1>2
  <2> DEFINE h == [t \in D(n + 1) |-> IF t = {} THEN 0 ELSE f[Pick(t)] + g[t \ {Pick(t)}]]
  <2>2. D(n) \subseteq D(n + 1)
    BY <1>0
  <2>3. \A u \in D(n) : h[u] = g[u]
    BY <2>1, <2>2 DEF Sums
  <2>4. ASSUME NEW t \in D(n + 1), t # {} PROVE t \ {Pick(t)} \in D(n)
    <3>1. Pick(t) \in t
      BY <2>4 DEF Pick
    <3>2. /\ Cardinality(t \ {Pick(t)}) \in Nat
          /\ Cardinality(t) = Cardinality(t \ {Pick(t)}) + 1
      BY <1>0, <3>1, OneLess
    <3> QED
      BY <3>2
  <2>5. h = [t \in D(n + 1) |-> IF t = {} THEN 0 ELSE f[Pick(t)] + h[t \ {Pick(t)}]]
    BY <2>3, <2>4
  <2> HIDE DEF h
  <2>6. Sums(h, f, D(n + 1))
    BY <2>5 DEF Sums
  <2>7. \E q : Sums(q, f, D(n + 1))
    BY <2>6
  <2> HIDE DEF D
  <2> QED
    BY <2>7
<1> HIDE DEF T
<1>3. Cardinality(S) \in T
  <2>1. Nat \subseteq T
    BY <1>1, <1>2, NatInSteps
  <2> QED
    BY <2>1, FS_CardinalityType
<1>4. D(Cardinality(S)) = SUBSET S
  <2>1. \A u \in SUBSET S : Cardinality(u) <= Cardinality(S)
    BY FS_Subset
  <2> QED
    BY <2>1
<1> QED
  BY <1>3, <1>4 DEF T

\* g sums f over the subsets of S, whichever element comes first.
SumsUp(g, f, S) ==
  /\ g[{}] = 0
  /\ \A t \in SUBSET S : g[t] \in Int
  /\ \A t \in SUBSET S : \A x \in t : g[t] = f[x] + g[t \ {x}]

LEMMA SumsAny ==
  ASSUME NEW f, NEW S, IsFiniteSet(S), \A x \in S : f[x] \in Int,
         NEW g, Sums(g, f, SUBSET S)
  PROVE  SumsUp(g, f, S)
<1> DEFINE Good(t) == g[t] \in Int /\ \A x \in t : g[t] = f[x] + g[t \ {x}]
           T == {n \in Nat : \A t \in SUBSET S : Cardinality(t) <= n => Good(t)}
<1>0. \A u \in SUBSET S : IsFiniteSet(u) /\ Cardinality(u) \in Nat
  BY FS_Subset, FS_CardinalityType
<1>1. /\ g[{}] = 0
      /\ \A t \in SUBSET S : t # {} => /\ Pick(t) \in t
                                       /\ g[t] = f[Pick(t)] + g[t \ {Pick(t)}]
  BY DEF Sums, Pick
<1>2. 0 \in T
  <2>1. \A t \in SUBSET S : Cardinality(t) <= 0 => t = {}
    BY <1>0, FS_EmptySet
  <2>2. Good({})
    BY <1>1
  <2> HIDE DEF Good
  <2> QED
    BY <2>1, <2>2
<1>3. ASSUME NEW n \in Nat, n \in T
      PROVE  n + 1 \in T
  <2> HIDE DEF Good
  <2>0. \A u \in SUBSET S : Cardinality(u) <= n => Good(u)
    BY <1>3
  <2> SUFFICES ASSUME NEW t \in SUBSET S, Cardinality(t) = n + 1 PROVE Good(t)
    <3> SUFFICES ASSUME NEW t \in SUBSET S, Cardinality(t) <= n + 1, ~ (Cardinality(t) <= n)
                 PROVE Cardinality(t) = n + 1
      BY <2>0
    <3> QED
      BY <1>0
  <2>1. ASSUME NEW x \in t PROVE Good(t \ {x})
    <3>1. Cardinality(t \ {x}) = n
      BY <1>0, OneLess
    <3> QED
      BY <2>0, <3>1
  <2> USE DEF Good
  <2> DEFINE p == Pick(t)
  <2>2. p \in t /\ g[t] = f[p] + g[t \ {p}]
    <3>1. t # {}
      BY FS_EmptySet
    <3> QED
      BY <1>1, <3>1
  <2> HIDE DEF p
  <2>3. g[t] \in Int
    <3>1. g[t \ {p}] \in Int /\ f[p] \in Int
      BY <2>1, <2>2
    <3> QED
      BY <2>2, <3>1
  <2>4. ASSUME NEW x \in t PROVE g[t] = f[x] + g[t \ {x}]
    <3>1. CASE x = p
      BY <2>2, <3>1
    <3>2. CASE x # p
      <4>1. x \in t \ {p} /\ p \in t \ {x} /\ (t \ {p}) \ {x} = (t \ {x}) \ {p}
        BY <2>2, <3>2
      <4> DEFINE r == (t \ {x}) \ {p}
      <4>2. g[t \ {p}] = f[x] + g[r]
        BY <2>1, <2>2, <4>1
      <4>3. g[t \ {x}] = f[p] + g[r]
        BY <2>1, <4>1
      <4>4. f[x] \in Int /\ f[p] \in Int
        BY <2>2
      <4>5. g[r] \in Int
        <5>1. Cardinality(t \ {x}) = n
          BY <1>0, OneLess
        <5>2. Cardinality(r) <= n
          <6>1. t \ {x} \in SUBSET S
            OBVIOUS
          <6>2. Cardinality(r) \in Nat /\ Cardinality(t \ {x}) = Cardinality(r) + 1
            BY <1>0, <4>1, <6>1, OneLess
          <6> HIDE DEF r
          <6> QED
            BY <5>1, <6>2
        <5>3. r \in SUBSET S
          OBVIOUS
        <5>4. Good(r)
          <6> HIDE DEF Good, r
          <6> QED
            BY <2>0, <5>2, <5>3
        <5> QED
          BY <5>4
      <4> HIDE DEF r
      <4>6. f[p] + (f[x] + g[r]) = f[x] + (f[p] + g[r])
        BY <4>4, <4>5
      <4> QED
        BY <2>2, <4>2, <4>3, <4>6
    <3> QED
      BY <3>1, <3>2
  <2> QED
    BY <2>3, <2>4
<1> HIDE DEF T
<1>4. Nat \subseteq T
  BY <1>2, <1>3, NatInSteps
<1>5. \A t \in SUBSET S : Good(t)
  <2> HIDE DEF Good
  <2> QED
    BY <1>0, <1>4 DEF T
<1> QED
  BY <1>1, <1>5 DEF SumsUp

\* A set of subsets of a finite set S that has {} and, with each of its members,
\* what is got by adding an element of S, has S.
LEMMA SubsetInSteps ==
  ASSUME NEW S, IsFiniteSet(S), NEW T, {} \in T,
         \A u \in SUBSET S : u \in T => \A x \in S \ u : u \cup {x} \in T
  PROVE  S \in T
<1> DEFINE L == {n \in Nat : \A u \in SUBSET S : Cardinality(u) = n => u \in T}
<1>0. \A u \in SUBSET S : IsFiniteSet(u) /\ Cardinality(u) \in Nat
  BY FS_Subset, FS_CardinalityType
<1>1. 0 \in L
  <2>1. \A u \in SUBSET S : Cardinality(u) = 0 => u = {}
    BY <1>0, FS_EmptySet
  <2> QED
    BY <2>1
<1>2. ASSUME NEW n \in Nat, n \in L
      PROVE  n + 1 \in L
  <2> SUFFICES ASSUME NEW u \in SUBSET S, Cardinality(u) = n + 1 PROVE u \in T
    OBVIOUS
  <2>0. u # {}
    BY <1>0, FS_EmptySet
  <2>1. PICK x : x \in u
    BY <2>0
  <2>2. Cardinality(u \ {x}) = n
    BY <1>0, <2>1, OneLess
  <2>3. u \ {x} \in SUBSET S /\ x \in S \ (u \ {x}) /\ (u \ {x}) \cup {x} = u
    BY <2>1
  <2>4. u \ {x} \in T
    BY <1>2, <2>2, <2>3
  <2> QED
    BY <2>3, <2>4
<1> HIDE DEF L
<1>3. Nat \subseteq L
  BY <1>1, <1>2, NatInSteps
<1> QED
  BY <1>0, <1>3 DEF L

\* Equal terms, equal sums.
LEMMA SumsUpAgree ==
  ASSUME NEW R, IsFiniteSet(R), NEW f, NEW k, \A x \in R : f[x] = k[x],
         NEW g, SumsUp(g, f, R), NEW h, SumsUp(h, k, R)
  PROVE  g[R] = h[R]
<1> DEFINE T == {u \in SUBSET R : g[u] = h[u]}
<1>1. {} \in T
  BY DEF SumsUp
<1>2. ASSUME NEW u \in SUBSET R, u \in T, NEW x \in R \ u
      PROVE  u \cup {x} \in T
  <2>1. u \cup {x} \in SUBSET R /\ x \in u \cup {x} /\ (u \cup {x}) \ {x} = u
    OBVIOUS
  <2> DEFINE v == u \cup {x}
  <2> HIDE DEF v
  <2>2. v \in SUBSET R /\ x \in v /\ v \ {x} = u
    BY <2>1 DEF v
  <2>3. g[v] = f[x] + g[u] /\ h[v] = k[x] + h[u]
    BY <2>2 DEF SumsUp
  <2>4. v \in T
    BY <1>2, <2>2, <2>3
  <2> QED
    BY <2>4 DEF v
<1> HIDE DEF T
<1>3. R \in T
  BY <1>1, <1>2, SubsetInSteps
<1> QED
  BY <1>3 DEF T

\* A sum over a set is one over its subsets.
LEMMA SumsUpWithin ==
  ASSUME NEW R, NEW f, NEW g, SumsUp(g, f, R), NEW S \in SUBSET R
  PROVE  SumsUp(g, f, S)
BY DEF SumsUp

LEMMA SumsUpExist ==
  ASSUME NEW f, NEW S, IsFiniteSet(S), \A x \in S : f[x] \in Int
  PROVE  \E g : SumsUp(g, f, S)
<1>1. PICK g : Sums(g, f, SUBSET S)
  BY SumsExist
<1> QED
  BY <1>1, SumsAny

\* The sum that the folds of the community modules take is this one.
SumOf(f, S) == (CHOOSE g : Sums(g, f, SUBSET S))[S]

LEMMA SumIsChosen ==
  ASSUME NEW R, IsFiniteSet(R), NEW f, \A x \in R : f[x] \in Int,
         NEW h, SumsUp(h, f, R), NEW S \in SUBSET R
  PROVE  SumOf(f, S) = h[S]
<1> DEFINE g == CHOOSE g : Sums(g, f, SUBSET S)
<1>1. IsFiniteSet(S) /\ \A x \in S : f[x] \in Int
  BY FS_Subset
<1>2. Sums(g, f, SUBSET S)
  BY <1>1, SumsExist
<1> HIDE DEF g
<1>3. SumsUp(g, f, S)
  BY <1>1, <1>2, SumsAny
<1>4. SumsUp(h, f, S)
  BY SumsUpWithin
<1>5. g[S] = h[S]
  BY <1>1, <1>3, <1>4, SumsUpAgree
<1> QED
  BY <1>5 DEF g, SumOf

\* Terms that are those of another sum, or their negatives, and a constant.
Shifted(f, k, R, a, d) == \A x \in R : k[x] \in Int /\ f[x] = a + d * k[x]

LEMMA SumsUpShifted ==
  ASSUME NEW R, IsFiniteSet(R), NEW a \in Int, NEW d \in {1, -1}, NEW f, NEW k,
         Shifted(f, k, R, a, d),
         NEW g, SumsUp(g, f, R), NEW h, SumsUp(h, k, R)
  PROVE  g[R] = a * Cardinality(R) + d * h[R]
<1> DEFINE T == {u \in SUBSET R : g[u] = a * Cardinality(u) + d * h[u]}
<1>1. {} \in T
  <2>1. Cardinality({}) = 0
    BY FS_EmptySet
  <2> QED
    BY <2>1 DEF SumsUp
<1>2. ASSUME NEW u \in SUBSET R, u \in T, NEW x \in R \ u
      PROVE  u \cup {x} \in T
  <2> DEFINE v == u \cup {x}
  <2>1. v \in SUBSET R /\ x \in v /\ v \ {x} = u
    OBVIOUS
  <2> HIDE DEF v
  <2>2. Cardinality(u) \in Nat /\ Cardinality(v) = Cardinality(u) + 1
    BY <2>1, OneLess, FS_Subset
  <2>3. g[v] = f[x] + g[u] /\ h[v] = k[x] + h[u] /\ h[u] \in Int
    BY <2>1 DEF SumsUp
  <2>4. k[x] \in Int /\ f[x] = a + d * k[x]
    BY DEF Shifted
  <2>5. g[u] = a * Cardinality(u) + d * h[u]
    BY <1>2
  <2>6. ASSUME NEW n \in Nat, NEW y \in Int, NEW z \in Int
        PROVE  (a + d * y) + (a * n + d * z) = a * (n + 1) + d * (y + z)
    <3>1. a * (n + 1) = a * n + a
      OBVIOUS
    <3> QED
      BY <3>1
  <2>7. g[v] = a * Cardinality(v) + d * h[v]
    BY <2>2, <2>3, <2>4, <2>5, <2>6
  <2> QED
    BY <2>1, <2>7 DEF v
<1> HIDE DEF T
<1>3. R \in T
  BY <1>1, <1>2, SubsetInSteps
<1> QED
  BY <1>3 DEF T

\* A value of f over a finite set is the least.
LEMMA LeastExists ==
  ASSUME NEW D, IsFiniteSet(D), D # {}, NEW f, \A x \in D : f[x] \in Int
  PROVE  \E x \in D : \A y \in D : f[x] <= f[y]
<1> DEFINE T == {u \in SUBSET D : u # {} => \E x \in u : \A y \in u : f[x] <= f[y]}
<1>1. {} \in T
  OBVIOUS
<1>2. ASSUME NEW u \in SUBSET D, u \in T, NEW z \in D \ u
      PROVE  u \cup {z} \in T
  <2>1. CASE u = {}
    BY <2>1
  <2>2. CASE u # {}
    <3>1. PICK x \in u : \A y \in u : f[x] <= f[y]
      BY <1>2, <2>2
    <3>2. CASE f[x] <= f[z]
      BY <3>1, <3>2
    <3>3. CASE ~ f[x] <= f[z]
      <4>1. f[x] \in Int /\ f[z] \in Int /\ \A y \in u : f[y] \in Int
        OBVIOUS
      <4>2. \A y \in u \cup {z} : f[z] <= f[y]
        BY <3>1, <3>3, <4>1
      <4> QED
        BY <4>2
    <3> QED
      BY <3>2, <3>3
  <2> QED
    BY <2>1, <2>2
<1> HIDE DEF T
<1>3. D \in T
  BY <1>1, <1>2, SubsetInSteps
<1> QED
  BY <1>3 DEF T
=============================================================================
