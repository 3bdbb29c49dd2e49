------------------------------- MODULE FoldFacts -------------------------------
(***************************************************************************)
(* What a left fold over a sequence keeps.  The fold of the community      *)
(* modules is a recursive function on the sets of indices, so a fact about *)
(* it needs that function to exist: FoldFunctionExists gives one for any   *)
(* step that is a function on a set of values, and Climb carries a         *)
(* property from index to index.  The modules that fold (Terminal's        *)
(* parameters and attributes, Transport's records) cite them with their    *)
(* own step.                                                               *)
(***************************************************************************)
EXTENDS SequencesExt, FiniteSetTheorems, WellFoundedInduction, TLAPS

(* A non-empty set of naturals has a least element. *)
LEMMA LeastNatural ==
  ASSUME NEW T, T \subseteq Nat, T # {}
  PROVE  \E x \in T : \A y \in T : x <= y
<1>1. PICK x \in T : \A y \in T : ~ (<<y, x>> \in OpToRel(<, Nat))
  BY NatLessThanWellFounded, WFMin
<1>2. \A y \in T : ~(y < x)
  BY <1>1 DEF OpToRel
<1>3. \A y \in T : x \in Nat /\ y \in Nat
  OBVIOUS
<1> QED  BY <1>2, <1>3

(* A set of naturals with 0 and, with each member, the next one, up to n.  *)
LEMMA Climb ==
  ASSUME NEW n \in Nat, NEW P, 0 \in P, \A k \in 1..n : (k - 1 \in P) => (k \in P)
  PROVE  0..n \subseteq P
<1> DEFINE T == {k \in 0..n : k \notin P}
<1>1. SUFFICES ASSUME T # {} PROVE FALSE
  OBVIOUS
<1>2. T \subseteq Nat
  OBVIOUS
<1>3. PICK k \in T : \A y \in T : k <= y
  BY <1>1, <1>2, LeastNatural
<1>4. k \in 1..n
  <2>1. k \in 0..n /\ k # 0
    BY <1>3
  <2> QED  BY <2>1
<1>5. k - 1 \in P
  <2>1. k - 1 \in 0..n /\ ~(k <= k - 1)
    BY <1>4
  <2>2. k - 1 \notin T
    BY <1>3, <2>1
  <2> QED  BY <2>1, <2>2
<1> QED  BY <1>3, <1>4, <1>5

(* A non-empty set of indices has its maximum in it, below what bounds it. *)
LEMMA MaxOfIndices ==
  ASSUME NEW n \in Nat, NEW s, s \subseteq 1..n, s # {}
  PROVE  /\ Max(s) \in s
         /\ \A y \in s : y <= Max(s)
<1> DEFINE T == {n - x : x \in s}
<1>1. T \subseteq Nat /\ T # {}
  <2>1. \A x \in s : x \in 1..n /\ n - x \in Nat
    OBVIOUS
  <2>2. PICK x \in s : TRUE
    OBVIOUS
  <2>3. n - x \in T
    OBVIOUS
  <2> QED  BY <2>1, <2>3
<1>2. PICK u \in T : \A y \in T : u <= y
  BY <1>1, LeastNatural
<1>3. PICK m \in s : u = n - m
  BY <1>2
<1>4. \A y \in s : m >= y
  <2> TAKE y \in s
  <2>1. n - y \in T /\ y \in 1..n /\ m \in 1..n
    BY <1>3
  <2>2. u <= n - y
    BY <2>1, <1>2
  <2> QED  BY <2>1, <2>2, <1>3
<1>5. \E x \in s : \A y \in s : x >= y
  BY <1>4
<1>6. Max(s) \in s /\ \A y \in s : Max(s) >= y
  BY <1>5 DEF Max
<1>7. \A y \in s : y \in Nat
  OBVIOUS
<1> QED  BY <1>6, <1>7

LEMMA MaxOfRange ==
  ASSUME NEW n \in Nat, NEW k \in 1..n
  PROVE  /\ 1..k # {}
         /\ 1..k \in SUBSET (1..n)
         /\ Max(1..k) = k
         /\ (1..k) \ {k} = 1..(k - 1)
<1>1. 1..k \subseteq 1..n /\ k \in 1..k
  OBVIOUS
<1>2. Max(1..k) \in 1..k /\ k <= Max(1..k)
  BY <1>1, MaxOfIndices
<1>3. Max(1..k) = k
  BY <1>2
<1>4. (1..k) \ {k} = 1..(k - 1)
  OBVIOUS
<1> QED  BY <1>1, <1>3, <1>4

(* The equation of a fold over n values from base, with the step F at each *)
(* index and value so far.                                                 *)
IsFold(h, n, base, F) ==
  \A s \in SUBSET (1..n) :
    h[s] = IF s = {} THEN base ELSE F[<<Max(s), h[s \ {Max(s)}]>>]

(* The recursive function of a fold exists when its step is a function on  *)
(* a set of values: it is built up along the largest index of a set.       *)
LEMMA FoldFunctionExists ==
  ASSUME NEW n \in Nat, NEW A, NEW base \in A,
         NEW F, \A i \in 1..n, a \in A : F[<<i, a>>] \in A
  PROVE  \E h \in [SUBSET (1..n) -> A] : IsFold(h, n, base, F)
<1> DEFINE Rec(h, D) == \A s \in D :
             h[s] = IF s = {} THEN base ELSE F[<<Max(s), h[s \ {Max(s)}]>>]
           Good == {k \in Nat : \E h \in [SUBSET (1..k) -> A] : Rec(h, SUBSET (1..k))}
           P == {k \in 0..n : k \in Good}
<1>1. 0 \in P
  <2>1. SUBSET (1..0) = {{}}
    OBVIOUS
  <2> DEFINE h == [s \in SUBSET (1..0) |-> base]
  <2>2. h \in [SUBSET (1..0) -> A] /\ Rec(h, SUBSET (1..0))
    BY <2>1
  <2>3. 0 \in Good
    BY <2>2, Zenon
  <2> QED  BY <2>3
<1>2. ASSUME NEW k \in 1..n, k - 1 \in P
      PROVE  k \in P
  <2>1. PICK h \in [SUBSET (1..(k - 1)) -> A] : Rec(h, SUBSET (1..(k - 1)))
    BY <1>2
  <2> DEFINE g == [s \in SUBSET (1..k) |->
                     IF s = {} THEN base ELSE F[<<Max(s), h[s \ {Max(s)}]>>]]
  <2>2. ASSUME NEW s \in SUBSET (1..k), s # {}
        PROVE  /\ Max(s) \in 1..n
               /\ s \ {Max(s)} \in SUBSET (1..(k - 1))
    <3>1. k \in Nat /\ s \subseteq 1..k
      OBVIOUS
    <3>2. Max(s) \in s /\ \A y \in s : y <= Max(s)
      BY <2>2, <3>1, MaxOfIndices
    <3> DEFINE m == Max(s)
    <3> HIDE DEF m
    <3>3. m \in s /\ \A y \in s : y <= m
      BY <3>2 DEF m
    <3>4. m \in 1..k /\ k \in 1..n
      BY <3>1, <3>3
    <3>5. \A y \in s : y # m => y \in 1..(k - 1)
      <4> TAKE y \in s
      <4>1. y \in 1..k /\ y <= m
        BY <3>1, <3>3
      <4> QED  BY <4>1, <3>4
    <3>6. m \in 1..n /\ s \ {m} \in SUBSET (1..(k - 1))
      BY <3>4, <3>5
    <3> QED  BY <3>6 DEF m
  <2>3. g \in [SUBSET (1..k) -> A]
    <3>1. ASSUME NEW s \in SUBSET (1..k) PROVE g[s] \in A
      <4>1. CASE s = {}
        BY <4>1
      <4>2. CASE s # {}
        <5>1. h[s \ {Max(s)}] \in A
          BY <4>2, <2>2
        <5>2. F[<<Max(s), h[s \ {Max(s)}]>>] \in A
          BY <5>1, <4>2, <2>2
        <5> QED  BY <5>2, <4>2
      <4> QED  BY <4>1, <4>2
    <3> QED  BY <3>1
  <2>4. \A s \in SUBSET (1..(k - 1)) : s \in SUBSET (1..k) /\ g[s] = h[s]
    BY <2>1
  <2>5. Rec(g, SUBSET (1..k))
    <3> TAKE s \in SUBSET (1..k)
    <3>1. CASE s = {}
      BY <3>1
    <3>2. CASE s # {}
      <4>1. g[s \ {Max(s)}] = h[s \ {Max(s)}]
        BY <3>2, <2>2, <2>4
      <4> QED  BY <4>1, <3>2
    <3> QED  BY <3>1, <3>2
  <2>6. k \in Good
    <3> HIDE DEF g
    <3>1. k \in Nat
      OBVIOUS
    <3>2. \E f \in [SUBSET (1..k) -> A] : Rec(f, SUBSET (1..k))
      BY <2>3, <2>5, Zenon
    <3> QED  BY <3>1, <3>2, Zenon
  <2>7. k \in 0..n
    OBVIOUS
  <2> QED  BY <2>6, <2>7, Zenon
<1>3. 0..n \subseteq P
  <2> HIDE DEF P
  <2> QED  BY <1>1, <1>2, Climb
<1>4. n \in Good
  <2> HIDE DEF Good
  <2>1. n \in 0..n
    OBVIOUS
  <2> QED  BY <1>3, <2>1, Zenon
<1> QED  BY <1>4 DEF IsFold

=============================================================================
