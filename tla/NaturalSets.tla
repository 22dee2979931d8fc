---------------------------- MODULE NaturalSets ----------------------------
(***************************************************************************)
(* Facts about least and greatest elements of sets of naturals, for the    *)
(* proofs of the other modules.                                            *)
(***************************************************************************)
EXTENDS Integers, FiniteSetsExt, WellFoundedInduction, TLAPS

(* The least element of a set of naturals: the library's well-founded minimum
   at the order of the naturals. *)
LEMMA LeastElement ==
    ASSUME NEW D \in SUBSET Nat, D # {}
    PROVE  \E m \in D : \A n \in D : m <= n
<1> DEFINE R == OpToRel(<, Nat)
<1>1. IsWellFoundedOn(R, Nat)
  BY NatLessThanWellFounded
<1>2. \A x, y \in Nat : y < x => <<y, x>> \in R
  BY DEF OpToRel
<1> HIDE DEF R
<1>3. PICK m \in D : \A n \in D : ~(<<n, m>> \in R)
  BY <1>1, WFMin
<1>4. ASSUME NEW n \in D PROVE m <= n
  <2>1. ~(n < m)
    BY <1>2, <1>3
  <2> QED
    BY <2>1
<1> QED
  BY <1>4

(* Induction up to a bound, over a set: what holds at 0 and passes from each number to the
   next holds throughout. *)
LEMMA UpTo ==
    ASSUME NEW n \in Nat, NEW S, 0 \in S, \A k \in 1 .. n : k - 1 \in S => k \in S
    PROVE  \A k \in 0 .. n : k \in S
<1> DEFINE D == {k \in 0 .. n : k \notin S}
<1>1. SUFFICES ASSUME D # {} PROVE FALSE
  BY <1>1
<1>2. PICK m \in D : \A k \in D : m <= k
  <2>1. D \in SUBSET Nat
    OBVIOUS
  <2> HIDE DEF D
  <2> QED
    BY <1>1, <2>1, LeastElement
<1>3. m \in 1 .. n /\ m - 1 \in 0 .. n /\ m \notin S
  OBVIOUS
<1>4. m - 1 \in S
  <2>1. ~(m <= m - 1)
    BY <1>3
  <2> QED
    BY <1>2, <1>3, <2>1
<1> QED
  BY <1>3, <1>4

(* Max is the element that no other exceeds. *)
LEMMA MaxIs ==
    ASSUME NEW S, S \subseteq Nat, NEW m \in S, \A n \in S : n <= m
    PROVE  Max(S) = m
<1> DEFINE Greatest(x) == \A n \in S : x >= n
<1>1. Max(S) = CHOOSE x \in S : Greatest(x)
  BY Zenon DEF Max
<1>2. Greatest(m) /\ \A x \in S : Greatest(x) => x = m
  <2>1. Greatest(m)
    OBVIOUS
  <2>2. ASSUME NEW x \in S, Greatest(x) PROVE x = m
    <3>1. x >= m /\ x <= m /\ x \in Nat /\ m \in Nat
      BY <2>2
    <3> QED
      BY <3>1
  <2> QED
    BY <2>1, <2>2
<1> HIDE DEF Greatest
<1> QED
  BY <1>1, <1>2

(* A nonempty set with an upper bound has a maximum: the bound's distance to it
   is the least. *)
LEMMA MaxFacts ==
    ASSUME NEW S, S \subseteq Nat, S # {}, NEW b \in Nat, \A n \in S : n <= b
    PROVE  Max(S) \in S /\ \A n \in S : n <= Max(S)
<1> DEFINE D == {b - n : n \in S}
<1>1. D \in SUBSET Nat /\ D # {}
  <2>1. \A n \in S : b - n \in Nat
    OBVIOUS
  <2> QED
    BY <2>1
<1>2. PICK d \in D : \A e \in D : d <= e
  <2> HIDE DEF D
  <2> QED
    BY <1>1, LeastElement
<1>3. PICK m \in S : d = b - m
  OBVIOUS
<1>4. ASSUME NEW n \in S PROVE n <= m
  <2>1. b - m <= b - n
    BY <1>2, <1>3
  <2> QED
    BY <2>1
<1>5. Max(S) = m
  BY <1>4, MaxIs
<1> QED
  BY <1>4, <1>5

\* The lesser of two naturals is a natural.
LEMMA MinOfTwo ==
    ASSUME NEW a \in Nat, NEW b \in Nat
    PROVE  Min({a} \cup {b}) \in Nat
<1>1. CASE a <= b
  BY <1>1 DEF Min
<1>2. CASE b <= a
  BY <1>2 DEF Min
<1> QED
  BY <1>1, <1>2
=============================================================================
