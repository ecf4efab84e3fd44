---------------------------- MODULE NumberLemmas -----------------------------
(***************************************************************************)
(* Facts about numbers that the proofs of several components need: least   *)
(* and greatest elements, for the searches that take the first slot or the *)
(* last space; induction in terms of sets, for what a loop or a table      *)
(* computes; and remainders close to the divisor, for rings.               *)
(***************************************************************************)
EXTENDS Integers, WellFoundedInduction, TLAPS

\* A search from below finds something where there is something: a set of
\* naturals that is not empty has a least element.
LEMMA LeastElement ==
  ASSUME NEW S \in SUBSET Nat, S # {}
  PROVE  \E m \in S : \A n \in S : m <= n
<1> DEFINE Below == {p \in Nat \X Nat : p[1] < p[2]}
<1>1. OpToRel(<, Nat) = Below
  BY DEF OpToRel
<1>2. IsWellFoundedOn(Below, Nat)
  BY <1>1, NatLessThanWellFounded
<1> HIDE DEF Below
<1>3. PICK m \in S : \A n \in S : <<n, m>> \notin Below
  BY <1>2, WFMin
<1>4. ASSUME NEW n \in S PROVE m <= n
  <2>1. m \in Nat /\ n \in Nat
    OBVIOUS
  <2>2. ~ (n < m)
    BY <2>1, <1>3 DEF Below
  <2>3. QED
    BY <2>1, <2>2
<1>5. QED
  BY <1>4

\* A search from above does: a set of naturals with a bound has a greatest element.
LEMMA GreatestElement ==
  ASSUME NEW S \in SUBSET Nat, S # {}, NEW b \in Nat, \A n \in S : n <= b
  PROVE  \E m \in S : \A n \in S : n <= m
<1> DEFINE D == {b - n : n \in S}
<1>1. D \in SUBSET Nat /\ D # {}
  <2>1. ASSUME NEW n \in S PROVE b - n \in Nat
    OBVIOUS
  <2>2. QED
    BY <2>1
<1>2. PICK d \in D : \A e \in D : d <= e
  BY <1>1, LeastElement
<1>3. PICK m \in S : d = b - m
  OBVIOUS
<1>4. ASSUME NEW n \in S PROVE n <= m
  <2>1. b - n \in D
    OBVIOUS
  <2>2. d <= b - n
    BY <2>1, <1>2
  <2>3. QED
    BY <2>2, <1>3
<1>5. QED
  BY <1>4

\* Induction, with the set of the numbers that have the property in its place.
LEMMA SetInduction ==
  ASSUME NEW S, 0 \in S, \A n \in Nat : n \in S => n + 1 \in S
  PROVE  \A n \in Nat : n \in S
<1> SUFFICES ASSUME Nat \ S # {} PROVE FALSE
  OBVIOUS
<1>1. PICK m \in Nat \ S : \A n \in Nat \ S : m <= n
  BY LeastElement
<1>2. m - 1 \in Nat /\ m - 1 \in S
  BY <1>1
<1>3. QED
  BY <1>1, <1>2

\* The index arithmetic of a ring of b cells: one time around at most, either way.
LEMMA Remainder ==
  ASSUME NEW b \in Nat, b > 0, NEW x \in Int
  PROVE  /\ x % b \in 0 .. b - 1
         /\ 0 <= x /\ x < b => x % b = x
         /\ - b <= x /\ x < 0 => x % b = x + b
         /\ b <= x /\ x < 2 * b => x % b = x - b
<1>1. x % b \in 0 .. b - 1
  OBVIOUS
<1>2. 0 <= x /\ x < b => x % b = x
  OBVIOUS
<1>3. - b <= x /\ x < 0 => x % b = x + b
  OBVIOUS
<1>4. b <= x /\ x < 2 * b => x % b = x - b
  OBVIOUS
<1>5. QED
  BY <1>1, <1>2, <1>3, <1>4

\* Quotient and remainder, for the sectors of a byte.
LEMMA Division ==
  ASSUME NEW a \in Nat, NEW b \in Nat, b > 0
  PROVE  a \div b \in Nat /\ a % b \in 0 .. b - 1 /\ a = (a \div b) * b + (a % b)
OBVIOUS
==============================================================================
