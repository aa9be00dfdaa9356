----------------------------- MODULE NaturalFacts -----------------------------
(***************************************************************************)
(* Facts about the naturals that the proofs of several components share:   *)
(* the least number, and induction in the form of a set that contains 0    *)
(* and the successors of its members.                                      *)
(***************************************************************************)
EXTENDS Integers, WellFoundedInduction, TLAPS

\* Less than, as a relation on the naturals.
Less == {p \in Nat \X Nat : p[1] < p[2]}

\* What is not less is at least.
LEMMA NotLess == ASSUME NEW i \in Nat, NEW j \in Nat, <<i, j>> \notin Less PROVE j <= i
<1>1. <<i, j>> \in Nat \X Nat /\ <<i, j>>[1] = i /\ <<i, j>>[2] = j
  OBVIOUS
<1>2. ~ (i < j)
  BY <1>1 DEF Less
<1> QED
  BY <1>2

\* A set of naturals that is not empty has a least element.
LEMMA LeastNatural ==
  ASSUME NEW S, S \subseteq Nat, S # {}
  PROVE  \E t \in S : \A u \in S : t <= u
<1>1. OpToRel(<, Nat) = Less
  BY DEF OpToRel, Less
<1>2. IsWellFoundedOn(Less, Nat)
  BY <1>1, NatLessThanWellFounded
<1>3. PICK t \in S : \A u \in S : <<u, t>> \notin Less
  BY <1>2, WFMin
<1>4. \A u \in S : t <= u
  BY <1>3, NotLess
<1> QED
  BY <1>4

\* A set that contains 0, and with every number up to N the next one, contains
\* all of them: the induction the provers can be given, since it is about a set
\* and not about a predicate.
LEMMA InductionUpTo ==
  ASSUME NEW N \in Nat, NEW S, 0 \in S, \A n \in 0..N : n \in S /\ n < N => n + 1 \in S
  PROVE  0..N \subseteq S
<1> DEFINE missing == (0..N) \ S
<1>1. SUFFICES ASSUME missing # {} PROVE FALSE
  OBVIOUS
<1>2. PICK n \in missing : \A m \in missing : n <= m
  <2>1. missing \subseteq Nat
    OBVIOUS
  <2> HIDE DEF missing
  <2> QED
    BY <1>1, <2>1, LeastNatural
<1>3. n - 1 \in 0..N /\ n - 1 < N /\ n - 1 \notin missing
  BY <1>2
<1>4. n \in S
  BY <1>3
<1> QED
  BY <1>2, <1>4
=============================================================================
