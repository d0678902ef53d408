------------------------------ MODULE OrderLemmas ------------------------------
(* Facts about finite sets of integers that the proofs of several modules  *)
(* cite: the operators that CHOOSE a largest or smallest element are meant.*)
EXTENDS Integers, FiniteSets, FiniteSetTheorems, WellFoundedInduction, TLAPS

(* A finite nonempty set of integers has a largest element: a smallest set *)
(* without one would still have one when an element is taken away.         *)
LEMMA FiniteMax ==
  ASSUME NEW S, IsFiniteSet(S), S # {}, S \subseteq Int
  PROVE  \E x \in S : \A y \in S : y <= x
<1> DEFINE HasMax(T) == \E x \in T : \A y \in T : y <= x
           Bad == {T \in FiniteSubsetsOf(Int) : T # {} /\ ~HasMax(T)}
<1>1. SUFFICES ASSUME Bad # {} PROVE FALSE
  BY DEF FiniteSubsetsOf
<1>2. PICK T \in Bad : \A U \in Bad : ~(<<U, T>> \in StrictSubsetOrdering(Int))
  <2>1. Bad \subseteq FiniteSubsetsOf(Int)
    OBVIOUS
  <2> HIDE DEF Bad
  <2> QED
    BY <1>1, <2>1, FS_StrictSubsetOrderingWellFounded, WFMin
<1>3. T \subseteq Int /\ IsFiniteSet(T) /\ T # {} /\ ~HasMax(T)
  BY <1>2 DEF FiniteSubsetsOf
<1>4. PICK x : x \in T
  BY <1>3
<1> DEFINE U == T \ {x}
<1>5. CASE U = {}
  <2>1. \A y \in T : y = x
    BY <1>5
  <2> QED
    BY <1>3, <1>4, <2>1
<1>6. CASE U # {}
  <2>1. U \in FiniteSubsetsOf(Int)
    BY <1>3, FS_RemoveElement DEF FiniteSubsetsOf
  <2>2. <<U, T>> \in StrictSubsetOrdering(Int)
    BY <1>3, <1>4 DEF StrictSubsetOrdering
  <2>3. HasMax(U)
    BY <1>2, <1>6, <2>1, <2>2
  <2>4. PICK u \in U : \A y \in U : y <= u
    BY <2>3
  <2>5. CASE x <= u
    <3>1. \A y \in T : y <= u
      BY <2>4, <2>5
    <3> QED
      BY <1>3, <2>4, <3>1
  <2>6. CASE ~(x <= u)
    <3>1. x \in Int /\ u \in Int /\ u <= x
      BY <1>3, <1>4, <2>6
    <3>2. \A y \in T : y <= x
      BY <1>3, <2>4, <3>1
    <3> QED
      BY <1>3, <1>4, <3>2
  <2> QED
    BY <2>5, <2>6
<1> QED
  BY <1>5, <1>6

(* A nonempty set of natural numbers has a smallest element. *)
LEMMA NatMin ==
  ASSUME NEW S, S # {}, S \subseteq Nat
  PROVE  \E x \in S : \A y \in S : x <= y
<1>1. PICK x \in S : \A y \in S : ~(<<y, x>> \in OpToRel(<, Nat))
  BY NatLessThanWellFounded, WFMin
<1>2. ASSUME NEW y \in S PROVE x <= y
  <2>1. x \in Nat /\ y \in Nat
    OBVIOUS
  <2>2. ~(y < x)
    BY <1>1, <2>1 DEF OpToRel
  <2> QED
    BY <2>1, <2>2
<1> QED
  BY <1>2
=============================================================================
