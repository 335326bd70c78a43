----------------------------- MODULE Induction ------------------------------
(***************************************************************************)
(* Induction over the naturals for sets and functions, in place of the     *)
(* library's theorems, whose operator parameters the provers cannot        *)
(* instantiate.                                                            *)
(***************************************************************************)
EXTENDS Integers, WellFoundedInduction, TLAPS

(***************************************************************************)
(* A nonempty set of naturals has a least element.                         *)
(***************************************************************************)
LEMMA LeastElement ==
  ASSUME NEW T \in SUBSET Nat, T # {}
  PROVE  \E x \in T : \A y \in T : x <= y
<1> DEFINE R == {ss \in Nat \X Nat : ss[1] < ss[2]}
<1>1. IsWellFoundedOn(R, Nat)
  BY NatLessThanWellFounded, Zenon DEF OpToRel
<1>2. PICK x \in T : \A y \in T : ~(<<y, x>> \in R)
  <2> HIDE DEF R
  <2> QED BY <1>1, WFMin
<1>3. ASSUME NEW y \in T PROVE x <= y
  <2>1. y \in Nat /\ x \in Nat OBVIOUS
  <2>2. ~(<<y, x>> \in R) BY <1>2
  <2>3. ~(y < x) BY <2>1, <2>2
  <2> QED BY <2>1, <2>3
<1> QED BY <1>3

(***************************************************************************)
(* A set that has 0 and, up to n, the successor of each number it has.     *)
(***************************************************************************)
LEMMA SetInduction ==
  ASSUME NEW n \in Nat, NEW S, 0 \in S,
         \A i \in 1..n : i - 1 \in S => i \in S
  PROVE  \A i \in 0..n : i \in S
<1> SUFFICES ASSUME NEW m \in 0..n, m \notin S PROVE FALSE
  OBVIOUS
<1> DEFINE T == {i \in 0..n : i \notin S}
<1>1. T \in SUBSET Nat /\ T # {} OBVIOUS
<1>2. PICK x \in T : \A y \in T : x <= y
  <2> HIDE DEF T
  <2> QED BY <1>1, LeastElement
<1>3. x \in 1..n /\ x - 1 \in 0..n OBVIOUS
<1>4. x - 1 \in S BY <1>2, <1>3
<1> QED BY <1>3, <1>4

(***************************************************************************)
(* The values of a recursive function stay in V if its step stays in V.    *)
(***************************************************************************)
LEMMA RecursiveRange ==
  ASSUME NEW n \in Nat, NEW V, NEW f, f[0] \in V,
         \A i \in 1..n : f[i-1] \in V => f[i] \in V
  PROVE  \A i \in 0..n : f[i] \in V
<1> DEFINE S == {i \in 0..n : f[i] \in V}
<1>1. 0 \in S OBVIOUS
<1>2. \A i \in 1..n : i - 1 \in S => i \in S OBVIOUS
<1>3. \A i \in 0..n : i \in S
  <2> HIDE DEF S
  <2> QED BY <1>1, <1>2, SetInduction
<1> QED BY <1>3

(***************************************************************************)
(* The steps of a recursive function from 0..n to V, and the functions     *)
(* with first value b and step G.                                          *)
(***************************************************************************)
Steps(n, V) == [V \X (1..n) -> V]

IsRecursive(f, n, b, G) ==
  /\ f[0] = b
  /\ \A i \in 1..n : f[i] = G[<<f[i-1], i>>]

(***************************************************************************)
(* There is such a function.                                               *)
(***************************************************************************)
LEMMA RecursiveExists ==
  ASSUME NEW n \in Nat, NEW V, NEW b \in V, NEW G \in Steps(n, V)
  PROVE  \E f \in [0..n -> V] : IsRecursive(f, n, b, G)
<1> USE DEF Steps
<1> DEFINE Good(m, f) == /\ f[0] = b
                         /\ \A i \in 1..m : f[i] = G[<<f[i-1], i>>]
           S == {m \in 0..n : \E f \in [0..m -> V] : Good(m, f)}
<1>1. 0 \in S
  <2> DEFINE g == [i \in 0..0 |-> b]
  <2>1. g \in [0..0 -> V] OBVIOUS
  <2>2. g[0] = b /\ 1..0 = {} OBVIOUS
  <2> HIDE DEF g
  <2>3. Good(0, g) BY <2>2
  <2> QED BY <2>1, <2>3
<1>2. ASSUME NEW m \in 1..n, m - 1 \in S PROVE m \in S
  <2>1. PICK f \in [0..(m-1) -> V] : Good(m-1, f) BY <1>2
  <2> DEFINE g == [i \in 0..m |-> IF i = m THEN G[<<f[m-1], m>>] ELSE f[i]]
  <2>2. m - 1 \in 0..(m-1) /\ f[m-1] \in V OBVIOUS
  <2>3. g \in [0..m -> V]
    <3>1. G[<<f[m-1], m>>] \in V BY <2>2
    <3> QED BY <3>1
  <2>4. g[0] = b BY <2>1
  <2>5. ASSUME NEW i \in 1..m PROVE g[i] = G[<<g[i-1], i>>]
    <3>1. g[i-1] = f[i-1] OBVIOUS
    <3>2. CASE i = m
      <4>1. g[m] = G[<<f[m-1], m>>] OBVIOUS
      <4>2. g[m-1] = f[m-1] BY <3>1, <3>2
      <4> HIDE DEF g
      <4> QED BY <3>2, <4>1, <4>2
    <3>3. CASE i # m
      <4>1. i \in 1..(m-1) BY <3>3
      <4>2. f[i] = G[<<f[i-1], i>>] BY <2>1, <4>1
      <4>3. g[i] = f[i] BY <3>3
      <4> QED BY <3>1, <4>2, <4>3
    <3> QED BY <3>2, <3>3
  <2> HIDE DEF g
  <2>6. Good(m, g) BY <2>4, <2>5
  <2> QED BY <2>3, <2>6
<1>3. \A i \in 0..n : i \in S
  <2> HIDE DEF S
  <2> QED BY <1>1, <1>2, SetInduction
<1> QED BY <1>3 DEF IsRecursive
=============================================================================
