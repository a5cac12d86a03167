----------------------------- MODULE Loops_proofs -----------------------------
(***************************************************************************)
(* Induction over the passes of a loop.  A loop of the code is modelled by *)
(* a recursive function of the number of passes made,                      *)
(*     LET r[k \in 0..n] == IF k = 0 THEN base ELSE step(k, r[k - 1])      *)
(* and the provers see it as the CHOOSE of a function that satisfies this  *)
(* equation.  They cannot instantiate an induction theorem whose           *)
(* hypothesis is an operator, so the induction is over sets of numbers:    *)
(* one that has 0 and, with each pass, the next one, has all of them.      *)
(***************************************************************************)
EXTENDS Integers, WellFoundedInduction, TLAPS

(* A set of natural numbers has a least one. *)
LEMMA LeastNumber ==
    ASSUME NEW T \in SUBSET Nat, T # {}
    PROVE  \E m \in T : \A n \in T : m <= n
<1> DEFINE R == {p \in Nat \X Nat : p[1] < p[2]}
<1>1. IsWellFoundedOn(R, Nat)
    BY NatLessThanWellFounded DEF OpToRel
<1>2. PICK m \in T : \A n \in T : ~ (<<n, m>> \in R)
    BY <1>1, WFMin
<1>3. ASSUME NEW n \in T PROVE m <= n
  <2>1. m \in Nat /\ n \in Nat /\ ~ (<<n, m>> \in R)
    BY <1>2
  <2>2. n < m => <<n, m>> \in R
    BY <2>1
  <2> QED
    BY <2>1, <2>2
<1> QED
    BY <1>3

(* Induction on the passes of a loop. *)
LEMMA PassInduction ==
    ASSUME NEW n \in Nat, NEW T, 0 \in T,
           \A m \in 0..(n - 1) : m \in T => m + 1 \in T
    PROVE  \A m \in 0..n : m \in T
<1> DEFINE Rest == {m \in 0..n : m \notin T}
<1>1. SUFFICES ASSUME Rest # {} PROVE FALSE
    OBVIOUS
<1>2. PICK m \in Rest : \A k \in Rest : m <= k
  <2>1. Rest \in SUBSET Nat
    OBVIOUS
  <2> HIDE DEF Rest
  <2> QED
    BY <1>1, <2>1, LeastNumber
<1>3. m \in 1..n /\ m - 1 \in 0..(n - 1) /\ m - 1 \in 0..n
    BY DEF Rest
<1>4. m - 1 \in T
    BY <1>2, <1>3
<1> QED
    BY <1>3, <1>4

(* The values a loop runs through in m passes. *)
Runs(m, V, base, step) == {r \in [0..m -> V] :
    r[0] = base /\ \A i \in 1..m : r[i] = step[<<i, r[i - 1]>>]}

(* A loop that stays in V has a value after every pass. *)
LEMMA LoopExists ==
    ASSUME NEW n \in Nat, NEW V, NEW base \in V, NEW step \in [(1..n) \X V -> V]
    PROVE  Runs(n, V, base, step) # {}
<1> USE DEF Runs
<1> DEFINE Run(m) == Runs(m, V, base, step)
           T == {m \in 0..n : Run(m) # {}}
<1>1. 0 \in T
  <2>1. [i \in 0..0 |-> base] \in Run(0)
    OBVIOUS
  <2> QED
    BY <2>1
<1>2. ASSUME NEW m \in 0..(n - 1), m \in T PROVE m + 1 \in T
  <2>1. PICK r : r \in Run(m)
    BY <1>2
  <2>2. /\ r \in [0..m -> V] /\ r[0] = base
        /\ \A i \in 1..m : r[i] = step[<<i, r[i - 1]>>]
    BY <2>1
  <2>3. PICK v : v = step[<<m + 1, r[m]>>]
    OBVIOUS
  <2>4. m + 1 \in 1..n /\ r[m] \in V /\ v \in V
    BY <2>2, <2>3
  <2>5. PICK f : f = [i \in 0..(m + 1) |-> IF i = m + 1 THEN v ELSE r[i]]
    OBVIOUS
  <2>6. f \in [0..(m + 1) -> V] /\ f[0] = base
    BY <2>2, <2>4, <2>5
  <2>7. ASSUME NEW i \in 1..(m + 1) PROVE f[i] = step[<<i, f[i - 1]>>]
    <3>1. CASE i = m + 1
      <4>1. f[i] = v /\ f[i - 1] = r[m]
        BY <2>5, <3>1
      <4> QED
        BY <4>1, <2>3, <3>1
    <3>2. CASE i # m + 1
      <4>1. i \in 1..m /\ f[i] = r[i] /\ f[i - 1] = r[i - 1]
        BY <2>5, <3>2
      <4> QED
        BY <4>1, <2>2
    <3> QED
      BY <3>1, <3>2
  <2>8. f \in Run(m + 1)
    BY <2>6, <2>7
  <2> QED
    BY <2>4, <2>8
<1>3. n \in T
  <2> HIDE DEF T
  <2> QED
    BY <1>1, <1>2, PassInduction
<1> QED
    BY <1>3

===============================================================================
