----------------------------- MODULE LoopProofs -----------------------------
(***************************************************************************)
(* Loops that repeat Body: in round k it turns the value h and the         *)
(* arguments p and q, which stay the same, into Body(h, p, q, k).  A model *)
(* writes such a loop as a recursive function, of which nothing can be     *)
(* said until it is known to exist.  A module that proves something about  *)
(* its loops instantiates this one with the body of each of them.          *)
(***************************************************************************)
EXTENDS Integers, WellFoundedInduction, TLAPS

CONSTANT Body(_, _, _, _)

(* A set of numbers that is not empty has a least one.                     *)
LEMMA LeastNumber ==
  ASSUME NEW T \in SUBSET Nat, T # {}
  PROVE  \E n \in T : \A m \in T : n <= m
<1>1. PICK n \in T : \A m \in T : <<m, n>> \notin OpToRel(<, Nat)
  BY NatLessThanWellFounded, WFMin
<1>2. \A m \in T : ~(m < n)
  BY <1>1 DEF OpToRel
<1> QED BY <1>2

(* The values after 0, 1, ..., n rounds that begin with g: what the body   *)
(* of a recursive function h[k \in 0 .. n] of a model denotes.             *)
Loop(g, p, q, n) ==
  CHOOSE h : h = [k \in 0 .. n |-> IF k = 0 THEN g ELSE Body(h[k - 1], p, q, k)]

(* The loop exists, whatever its body and however many rounds it has: it   *)
(* begins with g, and each round applies Body to the value before it.      *)
LEMMA LoopSteps ==
  ASSUME NEW g, NEW p, NEW q, NEW n \in Nat
  PROVE  /\ Loop(g, p, q, n)[0] = g
         /\ \A k \in 1 .. n : Loop(g, p, q, n)[k] = Body(Loop(g, p, q, n)[k - 1], p, q, k)
<1> DEFINE To(m) == \E h : h = [k \in 0 .. m |-> IF k = 0 THEN g ELSE Body(h[k - 1], p, q, k)]
           Bad == {m \in Nat : ~To(m)}
<1>1. Bad = {}
  <2> SUFFICES ASSUME Bad # {} PROVE FALSE
    OBVIOUS
  <2>1. PICK m \in Bad : \A l \in Bad : m <= l
    BY LeastNumber
  <2>2. m # 0
    <3>1. [k \in 0 .. 0 |-> g]
             = [k \in 0 .. 0 |-> IF k = 0 THEN g ELSE Body([l \in 0 .. 0 |-> g][k - 1], p, q, k)]
      OBVIOUS
    <3>2. To(0)
      BY <3>1
    <3> QED BY <3>2
  <2>3. m - 1 \in Nat /\ ~(m <= m - 1)
    BY <2>2
  <2>4. PICK h : h = [k \in 0 .. m - 1 |-> IF k = 0 THEN g ELSE Body(h[k - 1], p, q, k)]
    BY <2>1, <2>3
  <2> DEFINE f == [k \in 0 .. m |-> IF k = m THEN Body(h[m - 1], p, q, m) ELSE h[k]]
  <2>5. ASSUME NEW k \in 0 .. m
        PROVE  f[k] = IF k = 0 THEN g ELSE Body(f[k - 1], p, q, k)
    <3>1. CASE k = m
      <4>1. f[k] = Body(h[m - 1], p, q, m) /\ f[k - 1] = h[m - 1]
        BY <2>3, <3>1
      <4> QED BY <2>2, <3>1, <4>1
    <3>2. CASE k # m
      <4>1. k \in 0 .. m - 1 /\ f[k] = h[k]
        BY <2>3, <3>2
      <4>2. k # 0 => k - 1 \in 0 .. m /\ k - 1 # m /\ f[k - 1] = h[k - 1]
        BY <2>3, <3>2
      <4>3. h[k] = IF k = 0 THEN g ELSE Body(h[k - 1], p, q, k)
        BY <2>4, <4>1
      <4> QED BY <4>1, <4>2, <4>3
    <3> QED BY <3>1, <3>2
  <2>6. f = [k \in 0 .. m |-> IF k = 0 THEN g ELSE Body(f[k - 1], p, q, k)]
    <3>1. f = [k \in 0 .. m |-> f[k]]
      OBVIOUS
    <3> HIDE DEF f
    <3> QED BY <2>5, <3>1
  <2> QED BY <2>6
<1>2. Loop(g, p, q, n)
        = [k \in 0 .. n |-> IF k = 0 THEN g ELSE Body(Loop(g, p, q, n)[k - 1], p, q, k)]
  <2>1. To(n)
    BY <1>1
  <2> QED BY <2>1 DEF Loop
<1> QED
  BY <1>2
=============================================================================
