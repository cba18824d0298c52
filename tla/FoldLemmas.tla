----------------------------- MODULE FoldLemmas -----------------------------
(***************************************************************************)
(* Induction over data, in a form the provers can use.  The library's      *)
(* induction theorems take an operator; here the claim is a set instead,   *)
(* that of the values for which it holds, and the induction comes from     *)
(* the well-foundedness of the naturals.  With it the recursive functions  *)
(* inside the folds of the community modules are shown to exist, so that   *)
(* they satisfy the equation that defines them.                            *)
(***************************************************************************)
EXTENDS Integers, Sequences, FiniteSetTheorems, WellFoundedInduction, TLAPS

NatLess == {p \in Nat \X Nat : p[1] < p[2]}

LEMMA NatLessIsWellFounded == IsWellFoundedOn(NatLess, Nat)
BY NatLessThanWellFounded DEF OpToRel, NatLess

\* A set with zero and all its successors has every natural number.
LEMMA NatSetInduction ==
    ASSUME NEW S, 0 \in S, \A n \in Nat : n \in S => n + 1 \in S
    PROVE  \A n \in Nat : n \in S
<1> SUFFICES ASSUME NEW m \in Nat, m \notin S
             PROVE  FALSE
  OBVIOUS
<1> DEFINE T == Nat \ S
<1>1. T # {} /\ T \subseteq Nat
  OBVIOUS
<1>2. PICK x \in T : \A y \in T : ~ (<<y, x>> \in NatLess)
  BY <1>1, WFMin, NatLessIsWellFounded
<1>3. \A y \in T : ~ (y < x)
  BY <1>1, <1>2 DEF NatLess
<1>4. x # 0 /\ x \in Nat
  OBVIOUS
<1>5. x - 1 \in Nat /\ x - 1 < x /\ (x - 1) + 1 = x
  BY <1>4
<1>6. x - 1 \in S
  BY <1>3, <1>5
<1>7. QED
  BY <1>5, <1>6

(***************************************************************************)
(* The recursion of MapThenFoldSet: a value for each subset of a finite    *)
(* set, from that of the subset without one chosen element.                *)
(***************************************************************************)
FoldsOver(g, D, base, op, pick) ==
    \A s \in SUBSET D : g[s] = IF s = {} THEN base ELSE op[<<pick[s], g[s \ {pick[s]}]>>]

LEMMA FoldExists ==
    ASSUME NEW D, IsFiniteSet(D),
           NEW V, NEW base \in V, NEW op \in [D \X V -> V],
           NEW pick, \A s \in SUBSET D : s # {} => pick[s] \in s
    PROVE  \E g \in [SUBSET D -> V] : FoldsOver(g, D, base, op, pick)
<1> DEFINE Level(n) == {s \in SUBSET D : Cardinality(s) <= n}
           Val(g, s) == IF s = {} THEN base ELSE op[<<pick[s], g[s \ {pick[s]}]>>]
           Upto == {n \in Nat : \E g \in [Level(n) -> V] : \A s \in Level(n) : g[s] = Val(g, s)}
<1>1. \A s \in SUBSET D : IsFiniteSet(s) /\ Cardinality(s) \in Nat
  BY FS_Subset, FS_CardinalityType
<1>2. \A s \in SUBSET D : s # {} =>
        /\ pick[s] \in D /\ s \ {pick[s]} \in SUBSET D
        /\ Cardinality(s \ {pick[s]}) = Cardinality(s) - 1
  BY <1>1, FS_RemoveElement
<1>3. 0 \in Upto
  <2>1. \A s \in Level(0) : s = {}
    BY <1>1, FS_EmptySet
  <2>2. [s \in Level(0) |-> base] \in [Level(0) -> V]
    OBVIOUS
  <2>3. QED
    BY <2>1, <2>2
<1>4. ASSUME NEW n \in Nat, n \in Upto
      PROVE  n + 1 \in Upto
  <2>1. PICK g \in [Level(n) -> V] : \A s \in Level(n) : g[s] = Val(g, s)
    BY <1>4
  <2> DEFINE h == [s \in Level(n + 1) |-> Val(g, s)]
  <2>2. \A s \in Level(n + 1) : s # {} => pick[s] \in D /\ s \ {pick[s]} \in Level(n)
    BY <1>1, <1>2
  <2>3. \A s \in Level(n + 1) : Val(g, s) \in V
    BY <2>2
  <2>4. h \in [Level(n + 1) -> V]
    BY <2>3
  <2>5. \A s \in Level(n) : s \in Level(n + 1)
    BY <1>1
  <2>6. \A s \in Level(n) : h[s] = g[s]
    BY <2>1, <2>5
  <2>7. \A s \in Level(n + 1) : h[s] = Val(h, s)
    BY <2>2, <2>6
  <2>8. \E f \in [Level(n + 1) -> V] : \A s \in Level(n + 1) : f[s] = Val(f, s)
    <3> HIDE DEF h, Level
    <3> WITNESS h \in [Level(n + 1) -> V]
    <3> QED BY <2>7
  <2>9. n + 1 \in Nat
    OBVIOUS
  <2> HIDE DEF Level, Val
  <2>10. QED
    BY <2>8, <2>9
<1>5. Cardinality(D) \in Upto
  <2> HIDE DEF Upto
  <2>1. QED
    BY <1>3, <1>4, NatSetInduction, FS_CardinalityType
<1>6. Level(Cardinality(D)) = SUBSET D
  BY FS_Subset
<1>7. QED
  BY <1>5, <1>6 DEF FoldsOver

\* The recursion over an initial segment of the naturals.
CountsOver(g, N, base, op) ==
    \A k \in 0 .. N : g[k] = IF k = 0 THEN base ELSE op[<<k, g[k - 1]>>]

LEMMA RecursionExists ==
    ASSUME NEW N \in Nat, NEW V, NEW base \in V, NEW op \in [(1 .. N) \X V -> V]
    PROVE  \E g \in [0 .. N -> V] : CountsOver(g, N, base, op)
<1> DEFINE Val(g, k) == IF k = 0 THEN base ELSE op[<<k, g[k - 1]>>]
           Upto == {n \in Nat : n <= N =>
                      \E g \in [0 .. n -> V] : \A k \in 0 .. n : g[k] = Val(g, k)}
<1>1. 0 \in Upto
  <2> DEFINE f == [k \in 0 .. 0 |-> base]
  <2>1. f \in [0 .. 0 -> V] /\ \A k \in 0 .. 0 : f[k] = Val(f, k)
    OBVIOUS
  <2> HIDE DEF f
  <2>2. \E g \in [0 .. 0 -> V] : \A k \in 0 .. 0 : g[k] = Val(g, k)
    BY <2>1
  <2>3. QED
    BY <2>2
<1>2. ASSUME NEW n \in Nat, n \in Upto, n + 1 <= N
      PROVE  n + 1 \in Upto
  <2>1. PICK g \in [0 .. n -> V] : \A k \in 0 .. n : g[k] = Val(g, k)
    BY <1>2
  <2> DEFINE h == [k \in 0 .. n + 1 |-> Val(g, k)]
  <2>2. \A k \in 0 .. n + 1 : k # 0 => k \in 1 .. N /\ k - 1 \in 0 .. n
    BY <1>2
  <2>3. h \in [0 .. n + 1 -> V]
    BY <2>2
  <2>4. \A k \in 0 .. n : h[k] = g[k]
    BY <2>1
  <2>5. \A k \in 0 .. n + 1 : h[k] = Val(h, k)
    BY <2>2, <2>4
  <2>6. \E f \in [0 .. n + 1 -> V] : \A k \in 0 .. n + 1 : f[k] = Val(f, k)
    <3> HIDE DEF h
    <3> WITNESS h \in [0 .. n + 1 -> V]
    <3> QED BY <2>5
  <2>7. QED
    BY <2>6
<1>3. \A n \in Nat : n \in Upto => n + 1 \in Upto
  BY <1>2
<1>4. N \in Upto
  <2> HIDE DEF Upto
  <2>1. QED
    BY <1>1, <1>3, NatSetInduction
<1>5. QED
  BY <1>4 DEF CountsOver

\* What holds of the empty sequence, and of a longer one with the shorter,
\* holds of every sequence.
LEMMA SequencesGrow ==
    ASSUME NEW X, NEW S, << >> \in S,
           \A s \in Seq(X) : \A x \in X : s \in S => Append(s, x) \in S
    PROVE  \A s \in Seq(X) : s \in S
<1> DEFINE T == {n \in Nat : \A s \in Seq(X) : Len(s) = n => s \in S}
<1>1. 0 \in T
  <2>1. \A s \in Seq(X) : Len(s) = 0 => s = << >>
    OBVIOUS
  <2> QED BY <2>1
<1>2. ASSUME NEW n \in Nat, n \in T
      PROVE  n + 1 \in T
  <2>1. ASSUME NEW s \in Seq(X), Len(s) = n + 1
        PROVE  s \in S
    <3> DEFINE r == SubSeq(s, 1, n)
    <3>1. r \in Seq(X) /\ Len(r) = n /\ s[n + 1] \in X /\ s = Append(r, s[n + 1])
      BY <2>1
    <3>2. r \in S
      BY <1>2, <3>1
    <3> QED BY <3>1, <3>2
  <2> QED BY <2>1
<1>3. \A n \in Nat : n \in T
  <2>1. \A n \in Nat : n \in T => n + 1 \in T
    BY <1>2
  <2> HIDE DEF T
  <2> QED BY <1>1, <2>1, NatSetInduction
<1> QED BY <1>3
=============================================================================
