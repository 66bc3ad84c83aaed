------------------------ MODULE ArDetectMarkerProofs ------------------------
(***************************************************************************)
(* Proofs about ArDetectMarker.  The loops of arDetectMarker are folds; a  *)
(* lemma for each gives the sequence of its intermediate results (its      *)
(* trace), and induction over the trace what the loop establishes.         *)
(***************************************************************************)
EXTENDS ArDetectMarker, SequenceTheorems, WellFoundedInduction, TLAPS

-----------------------------------------------------------------------------
(* Induction and folds. *)

LessNat == {p \in Nat \X Nat : p[1] < p[2]}

LEMMA LessNatWF == IsWellFoundedOn(LessNat, Nat)
  BY NatLessThanWellFounded DEF OpToRel, LessNat

\* Induction, for the set of numbers that have a property.
LEMMA Induct ==
    ASSUME NEW T, 0 \in T, \A k \in Nat : k \in T => k + 1 \in T
    PROVE  Nat \subseteq T
<1> SUFFICES ASSUME Nat \ T # {} PROVE FALSE OBVIOUS
<1>1. PICK m \in Nat \ T : \A y \in Nat \ T : <<y, m>> \notin LessNat
  BY LessNatWF, WFMin
<1>2. m - 1 \in Nat /\ <<m - 1, m>> \in LessNat BY DEF LessNat
<1>3. m - 1 \in T BY <1>1, <1>2
<1> QED BY <1>2, <1>3

\* The same up to n.
LEMMA InductTo ==
    ASSUME NEW n \in Nat, NEW T, 0 \in T, \A k \in 0..(n - 1) : k \in T => k + 1 \in T
    PROVE  0..n \subseteq T
<1> DEFINE U == {k \in Nat : k <= n => k \in T}
<1>1. 0 \in U OBVIOUS
<1>2. ASSUME NEW k \in Nat, k \in U PROVE k + 1 \in U BY <1>2
<1>3. Nat \subseteq U BY <1>1, <1>2, Induct
<1> QED BY <1>3

\* Every non-empty set of numbers has a least one.
LEMMA Least ==
    ASSUME NEW B, B \subseteq Nat, B # {}
    PROVE  \E k \in B : \A j \in B : k <= j
<1>1. PICK k \in B : \A j \in B : <<j, k>> \notin LessNat BY LessNatWF, WFMin
<1>2. ASSUME NEW j \in B PROVE k <= j
  <2>1. j \in Nat /\ k \in Nat OBVIOUS
  <2>2. ~(j < k) BY <1>1, <2>1 DEF LessNat
  <2> QED BY <2>1, <2>2
<1> QED BY <1>2

\* The greatest of some of the numbers up to m.
LEMMA MaxIn ==
    ASSUME NEW m \in Nat, NEW t \in SUBSET (1..m), t # {}
    PROVE  Max(t) \in t /\ \A y \in t : Max(t) >= y
<1> DEFINE B == {m - x : x \in t}
<1>1. \A x \in t : x \in 1..m OBVIOUS
<1>2. \A x \in t : m - x \in Nat BY <1>1
<1>3. B \subseteq Nat /\ B # {} BY <1>2
<1>4. PICK k \in B : \A j \in B : k <= j BY <1>3, Least
<1>5. PICK x \in t : k = m - x BY <1>4
<1>6. \A y \in t : m - y \in B OBVIOUS
<1>7. \A y \in t : x >= y
  <2> SUFFICES ASSUME NEW y \in t PROVE x >= y OBVIOUS
  <2>1. m - x <= m - y BY <1>4, <1>5, <1>6
  <2> QED BY <1>1, <2>1
<1> QED BY <1>7 DEF Max

\* it is a fold from b with the step F over the sets of indices up to n.
Iterates(it, n, b, F) ==
    /\ it[{}] = b
    /\ \A t \in SUBSET (1..n) : t # {} => it[t] = F[<<Max(t), it[t \ {Max(t)}]>>]

\* The recursion over the sets of indices by which FoldLeft is defined has a
\* solution, for a step F given as a function.
LEMMA FoldExists ==
    ASSUME NEW X, NEW b \in X, NEW n \in Nat, NEW F \in [(1..n) \X X -> X]
    PROVE  \E it \in [SUBSET (1..n) -> X] : Iterates(it, n, b, F)
<1> DEFINE Sol(m, it) ==
             it = [t \in SUBSET (1..m) |->
                     IF t = {} THEN b ELSE F[<<Max(t), it[t \ {Max(t)}]>>]]
           T == {m \in Nat : \E it \in [SUBSET (1..m) -> X] : Sol(m, it)}
<1>1. 0 \in T
  <2> DEFINE it == [t \in SUBSET (1..0) |-> b]
  <2>1. it \in [SUBSET (1..0) -> X] OBVIOUS
  <2>2. \A t \in SUBSET (1..0) : t = {} OBVIOUS
  <2>3. Sol(0, it) BY <2>2
  <2> QED BY <2>1, <2>3
<1>2. ASSUME NEW m \in 0..(n - 1), m \in T PROVE m + 1 \in T
  <2>1. PICK it \in [SUBSET (1..m) -> X] : Sol(m, it) BY <1>2
  <2> DEFINE S == SUBSET (1..(m + 1))
             g == [t \in S |-> IF m + 1 \in t THEN F[<<m + 1, it[t \ {m + 1}]>>] ELSE it[t]]
  <2>2. ASSUME NEW t \in S, m + 1 \in t
        PROVE  Max(t) = m + 1 /\ t \ {m + 1} \in SUBSET (1..m)
    <3>1. \A y \in t : y \in 1..(m + 1) OBVIOUS
    <3>2. \A y \in t : m + 1 >= y BY <3>1
    <3>3. Max(t) \in t /\ \A y \in t : Max(t) >= y BY <2>2, <3>2 DEF Max
    <3>4. Max(t) = m + 1
      <4>1. Max(t) \in 1..(m + 1) BY <3>1, <3>3
      <4>2. Max(t) >= m + 1 BY <2>2, <3>3
      <4> HIDE DEF S
      <4> QED BY <4>1, <4>2
    <3>5. \A y \in t \ {m + 1} : y \in 1..m BY <3>1
    <3> QED BY <3>4, <3>5
  <2>3. \A t \in S : m + 1 \notin t => t \in SUBSET (1..m) OBVIOUS
  <2>4. \A t \in SUBSET (1..m) : t \in S /\ m + 1 \notin t OBVIOUS
  <2>5. \A t \in SUBSET (1..m) : t # {} => Max(t) \in t BY <1>2, MaxIn
  <2>6. \A t \in SUBSET (1..m) : t # {} => t \ {Max(t)} \in SUBSET (1..m) OBVIOUS
  <2>7. m + 1 \in 1..n OBVIOUS
  <2>8. g \in [S -> X] BY <2>1, <2>2, <2>3, <2>7
  <2>9. \A t \in SUBSET (1..m) : g[t] = it[t] BY <2>4
  <2>10. ASSUME NEW t \in S
         PROVE  g[t] = IF t = {} THEN b ELSE F[<<Max(t), g[t \ {Max(t)}]>>]
    <3>1. CASE m + 1 \in t
      <4>1. g[t] = F[<<m + 1, it[t \ {m + 1}]>>] BY <3>1
      <4>2. Max(t) = m + 1 /\ t \ {m + 1} \in SUBSET (1..m) BY <2>2, <3>1
      <4>3. g[t \ {m + 1}] = it[t \ {m + 1}] BY <2>9, <4>2
      <4> QED BY <3>1, <4>1, <4>2, <4>3
    <3>2. CASE m + 1 \notin t
      <4>1. t \in SUBSET (1..m) BY <2>3, <3>2
      <4>2. g[t] = it[t] BY <2>9, <4>1
      <4>3. it[t] = IF t = {} THEN b ELSE F[<<Max(t), it[t \ {Max(t)}]>>]
        BY <2>1, <4>1
      <4>4. t # {} => g[t \ {Max(t)}] = it[t \ {Max(t)}] BY <2>6, <2>9, <4>1
      <4> QED BY <4>2, <4>3, <4>4
    <3> QED BY <3>1, <3>2
  <2> HIDE DEF g
  <2>11. g = [t \in S |-> IF t = {} THEN b ELSE F[<<Max(t), g[t \ {Max(t)}]>>]]
    BY <2>8, <2>10
  <2>12. Sol(m + 1, g) BY <2>11
  <2>13. m + 1 \in Nat BY <1>2
  <2>14. g \in [SUBSET (1..(m + 1)) -> X] BY <2>8
  <2> HIDE DEF Sol, S
  <2> QED BY <2>12, <2>13, <2>14
<1> HIDE DEF T
<1>3. 0..n \subseteq T BY <1>1, <1>2, InductTo
<1>4. n \in T BY <1>3
<1>5. PICK it \in [SUBSET (1..n) -> X] : Sol(n, it) BY <1>4 DEF T
<1>6. it[{}] = b BY <1>5
<1>7. \A t \in SUBSET (1..n) : t # {} => it[t] = F[<<Max(t), it[t \ {Max(t)}]>>]
  BY <1>5
<1> QED BY <1>6, <1>7 DEF Iterates

LEMMA UpTo ==
    ASSUME NEW k \in Nat, k # 0
    PROVE  Max(1..k) = k /\ 1..k # {} /\ (1..k) \ {Max(1..k)} = 1..(k - 1)
<1>0. 1..k \in SUBSET (1..k) /\ k \in 1..k OBVIOUS
<1>1. Max(1..k) \in 1..k /\ \A y \in 1..k : Max(1..k) >= y BY <1>0, MaxIn
<1>2. Max(1..k) = k BY <1>1
<1>3. (1..k) \ {k} = 1..(k - 1) OBVIOUS
<1> QED BY <1>2, <1>3

-----------------------------------------------------------------------------
(* The loops and their traces: f[k] is the result after k elements. *)

InheritRun(f, n, w, h) ==
    /\ f[0] = w /\ f[n] = FoldLeft(Inherit, w, h)
    /\ \A k \in 1..n : f[k] = Inherit(f[k - 1], h[k])

LEMMA InheritTrace ==
    ASSUME NEW W, NEW w \in W, NEW h, NEW n \in Nat, DOMAIN h = 1..n,
           \A v \in W : \A k \in 1..n : Inherit(v, h[k]) \in W
    PROVE  \E f \in [0..n -> W] : InheritRun(f, n, w, h)
<1> DEFINE F == [p \in (1..n) \X W |-> Inherit(p[2], h[p[1]])]
           Sol(it) == it = [t \in SUBSET (1..n) |->
                        IF t = {} THEN w ELSE Inherit(it[t \ {Max(t)}], h[Max(t)])]
<1>1. F \in [(1..n) \X W -> W] OBVIOUS
<1>2. PICK s \in [SUBSET (1..n) -> W] : Iterates(s, n, w, F)
  <2> HIDE DEF F
  <2> QED BY <1>1, FoldExists
<1>3. Sol(s)
  <2>1. ASSUME NEW t \in SUBSET (1..n), t # {}
        PROVE  F[<<Max(t), s[t \ {Max(t)}]>>] = Inherit(s[t \ {Max(t)}], h[Max(t)])
    <3>1. Max(t) \in 1..n BY <2>1, MaxIn
    <3> QED BY <3>1
  <2> HIDE DEF F
  <2> QED BY <1>2, <2>1 DEF Iterates
<1> DEFINE it == CHOOSE i : Sol(i)
<1>4. Sol(it) BY <1>3
<1>5. FoldLeft(Inherit, w, h) = it[1..n] BY DEF FoldLeft, MapThenFoldSet
<1> HIDE DEF it, F
<1>6. it[1..0] = w
  <2>1. it[{}] = w BY <1>4
  <2>2. 1..0 = {} OBVIOUS
  <2> QED BY <2>1, <2>2
<1>7. \A k \in 1..n : it[1..k] = Inherit(it[1..(k - 1)], h[k])
  <2> SUFFICES ASSUME NEW k \in 1..n PROVE it[1..k] = Inherit(it[1..(k - 1)], h[k])
    OBVIOUS
  <2>1. 1..k \in SUBSET (1..n) OBVIOUS
  <2>2. Max(1..k) = k /\ 1..k # {} /\ (1..k) \ {Max(1..k)} = 1..(k - 1) BY UpTo
  <2>3. it[1..k] = Inherit(it[(1..k) \ {Max(1..k)}], h[Max(1..k)])
    BY <1>4, <2>1, <2>2
  <2> HIDE DEF Sol
  <2> QED BY <2>2, <2>3
<1> HIDE DEF Sol
<1> DEFINE f == [k \in 0..n |-> it[1..k]]
           T == {k \in 0..n : it[1..k] \in W}
<1>8. 0..n \subseteq T
  <2>1. 0 \in T BY <1>6
  <2>2. ASSUME NEW k \in 0..(n - 1), k \in T PROVE k + 1 \in T
    <3>1. k + 1 \in 1..n /\ (k + 1) - 1 = k OBVIOUS
    <3>2. it[1..(k + 1)] = Inherit(it[1..k], h[k + 1]) BY <1>7, <3>1
    <3> QED BY <2>2, <3>1, <3>2
  <2> HIDE DEF T
  <2> QED BY <2>1, <2>2, InductTo
<1>9. f \in [0..n -> W] BY <1>8
<1>10. f[0] = w /\ f[n] = FoldLeft(Inherit, w, h) BY <1>5, <1>6
<1>11. \A k \in 1..n : f[k] = Inherit(f[k - 1], h[k]) BY <1>7
<1>12. InheritRun(f, n, w, h) BY <1>10, <1>11 DEF InheritRun
<1> QED BY <1>9, <1>12

AgeRun(f, n, w, h) ==
    /\ f[0] = w /\ f[n] = FoldLeft(Age, w, h)
    /\ \A k \in 1..n : f[k] = Age(f[k - 1], h[k])

LEMMA AgeTrace ==
    ASSUME NEW W, NEW w \in W, NEW h, NEW n \in Nat, DOMAIN h = 1..n,
           \A v \in W : \A k \in 1..n : Age(v, h[k]) \in W
    PROVE  \E f \in [0..n -> W] : AgeRun(f, n, w, h)
<1> DEFINE F == [p \in (1..n) \X W |-> Age(p[2], h[p[1]])]
           Sol(it) == it = [t \in SUBSET (1..n) |->
                        IF t = {} THEN w ELSE Age(it[t \ {Max(t)}], h[Max(t)])]
<1>1. F \in [(1..n) \X W -> W] OBVIOUS
<1>2. PICK s \in [SUBSET (1..n) -> W] : Iterates(s, n, w, F)
  <2> HIDE DEF F
  <2> QED BY <1>1, FoldExists
<1>3. Sol(s)
  <2>1. ASSUME NEW t \in SUBSET (1..n), t # {}
        PROVE  F[<<Max(t), s[t \ {Max(t)}]>>] = Age(s[t \ {Max(t)}], h[Max(t)])
    <3>1. Max(t) \in 1..n BY <2>1, MaxIn
    <3> QED BY <3>1
  <2> HIDE DEF F
  <2> QED BY <1>2, <2>1 DEF Iterates
<1> DEFINE it == CHOOSE i : Sol(i)
<1>4. Sol(it) BY <1>3
<1>5. FoldLeft(Age, w, h) = it[1..n] BY DEF FoldLeft, MapThenFoldSet
<1> HIDE DEF it, F
<1>6. it[1..0] = w
  <2>1. it[{}] = w BY <1>4
  <2>2. 1..0 = {} OBVIOUS
  <2> QED BY <2>1, <2>2
<1>7. \A k \in 1..n : it[1..k] = Age(it[1..(k - 1)], h[k])
  <2> SUFFICES ASSUME NEW k \in 1..n PROVE it[1..k] = Age(it[1..(k - 1)], h[k])
    OBVIOUS
  <2>1. 1..k \in SUBSET (1..n) OBVIOUS
  <2>2. Max(1..k) = k /\ 1..k # {} /\ (1..k) \ {Max(1..k)} = 1..(k - 1) BY UpTo
  <2>3. it[1..k] = Age(it[(1..k) \ {Max(1..k)}], h[Max(1..k)])
    BY <1>4, <2>1, <2>2
  <2> HIDE DEF Sol
  <2> QED BY <2>2, <2>3
<1> HIDE DEF Sol
<1> DEFINE f == [k \in 0..n |-> it[1..k]]
           T == {k \in 0..n : it[1..k] \in W}
<1>8. 0..n \subseteq T
  <2>1. 0 \in T BY <1>6
  <2>2. ASSUME NEW k \in 0..(n - 1), k \in T PROVE k + 1 \in T
    <3>1. k + 1 \in 1..n /\ (k + 1) - 1 = k OBVIOUS
    <3>2. it[1..(k + 1)] = Age(it[1..k], h[k + 1]) BY <1>7, <3>1
    <3> QED BY <2>2, <3>1, <3>2
  <2> HIDE DEF T
  <2> QED BY <2>1, <2>2, InductTo
<1>9. f \in [0..n -> W] BY <1>8
<1>10. f[0] = w /\ f[n] = FoldLeft(Age, w, h) BY <1>5, <1>6
<1>11. \A k \in 1..n : f[k] = Age(f[k - 1], h[k]) BY <1>7
<1>12. AgeRun(f, n, w, h) BY <1>10, <1>11 DEF AgeRun
<1> QED BY <1>9, <1>12

EnterRun(f, n, w, h) ==
    /\ f[0] = w /\ f[n] = FoldLeft(Enter, w, h)
    /\ \A k \in 1..n : f[k] = Enter(f[k - 1], h[k])

LEMMA EnterTrace ==
    ASSUME NEW W, NEW w \in W, NEW h, NEW n \in Nat, DOMAIN h = 1..n,
           \A v \in W : \A k \in 1..n : Enter(v, h[k]) \in W
    PROVE  \E f \in [0..n -> W] : EnterRun(f, n, w, h)
<1> DEFINE F == [p \in (1..n) \X W |-> Enter(p[2], h[p[1]])]
           Sol(it) == it = [t \in SUBSET (1..n) |->
                        IF t = {} THEN w ELSE Enter(it[t \ {Max(t)}], h[Max(t)])]
<1>1. F \in [(1..n) \X W -> W] OBVIOUS
<1>2. PICK s \in [SUBSET (1..n) -> W] : Iterates(s, n, w, F)
  <2> HIDE DEF F
  <2> QED BY <1>1, FoldExists
<1>3. Sol(s)
  <2>1. ASSUME NEW t \in SUBSET (1..n), t # {}
        PROVE  F[<<Max(t), s[t \ {Max(t)}]>>] = Enter(s[t \ {Max(t)}], h[Max(t)])
    <3>1. Max(t) \in 1..n BY <2>1, MaxIn
    <3> QED BY <3>1
  <2> HIDE DEF F
  <2> QED BY <1>2, <2>1 DEF Iterates
<1> DEFINE it == CHOOSE i : Sol(i)
<1>4. Sol(it) BY <1>3
<1>5. FoldLeft(Enter, w, h) = it[1..n] BY DEF FoldLeft, MapThenFoldSet
<1> HIDE DEF it, F
<1>6. it[1..0] = w
  <2>1. it[{}] = w BY <1>4
  <2>2. 1..0 = {} OBVIOUS
  <2> QED BY <2>1, <2>2
<1>7. \A k \in 1..n : it[1..k] = Enter(it[1..(k - 1)], h[k])
  <2> SUFFICES ASSUME NEW k \in 1..n PROVE it[1..k] = Enter(it[1..(k - 1)], h[k])
    OBVIOUS
  <2>1. 1..k \in SUBSET (1..n) OBVIOUS
  <2>2. Max(1..k) = k /\ 1..k # {} /\ (1..k) \ {Max(1..k)} = 1..(k - 1) BY UpTo
  <2>3. it[1..k] = Enter(it[(1..k) \ {Max(1..k)}], h[Max(1..k)])
    BY <1>4, <2>1, <2>2
  <2> HIDE DEF Sol
  <2> QED BY <2>2, <2>3
<1> HIDE DEF Sol
<1> DEFINE f == [k \in 0..n |-> it[1..k]]
           T == {k \in 0..n : it[1..k] \in W}
<1>8. 0..n \subseteq T
  <2>1. 0 \in T BY <1>6
  <2>2. ASSUME NEW k \in 0..(n - 1), k \in T PROVE k + 1 \in T
    <3>1. k + 1 \in 1..n /\ (k + 1) - 1 = k OBVIOUS
    <3>2. it[1..(k + 1)] = Enter(it[1..k], h[k + 1]) BY <1>7, <3>1
    <3> QED BY <2>2, <3>1, <3>2
  <2> HIDE DEF T
  <2> QED BY <2>1, <2>2, InductTo
<1>9. f \in [0..n -> W] BY <1>8
<1>10. f[0] = w /\ f[n] = FoldLeft(Enter, w, h) BY <1>5, <1>6
<1>11. \A k \in 1..n : f[k] = Enter(f[k - 1], h[k]) BY <1>7
<1>12. EnterRun(f, n, w, h) BY <1>10, <1>11 DEF EnterRun
<1> QED BY <1>9, <1>12

AddBackRun(f, n, w, h) ==
    /\ f[0] = w /\ f[n] = FoldLeft(AddBack, w, h)
    /\ \A k \in 1..n : f[k] = AddBack(f[k - 1], h[k])

LEMMA AddBackTrace ==
    ASSUME NEW W, NEW w \in W, NEW h, NEW n \in Nat, DOMAIN h = 1..n,
           \A v \in W : \A k \in 1..n : AddBack(v, h[k]) \in W
    PROVE  \E f \in [0..n -> W] : AddBackRun(f, n, w, h)
<1> DEFINE F == [p \in (1..n) \X W |-> AddBack(p[2], h[p[1]])]
           Sol(it) == it = [t \in SUBSET (1..n) |->
                        IF t = {} THEN w ELSE AddBack(it[t \ {Max(t)}], h[Max(t)])]
<1>1. F \in [(1..n) \X W -> W] OBVIOUS
<1>2. PICK s \in [SUBSET (1..n) -> W] : Iterates(s, n, w, F)
  <2> HIDE DEF F
  <2> QED BY <1>1, FoldExists
<1>3. Sol(s)
  <2>1. ASSUME NEW t \in SUBSET (1..n), t # {}
        PROVE  F[<<Max(t), s[t \ {Max(t)}]>>] = AddBack(s[t \ {Max(t)}], h[Max(t)])
    <3>1. Max(t) \in 1..n BY <2>1, MaxIn
    <3> QED BY <3>1
  <2> HIDE DEF F
  <2> QED BY <1>2, <2>1 DEF Iterates
<1> DEFINE it == CHOOSE i : Sol(i)
<1>4. Sol(it) BY <1>3
<1>5. FoldLeft(AddBack, w, h) = it[1..n] BY DEF FoldLeft, MapThenFoldSet
<1> HIDE DEF it, F
<1>6. it[1..0] = w
  <2>1. it[{}] = w BY <1>4
  <2>2. 1..0 = {} OBVIOUS
  <2> QED BY <2>1, <2>2
<1>7. \A k \in 1..n : it[1..k] = AddBack(it[1..(k - 1)], h[k])
  <2> SUFFICES ASSUME NEW k \in 1..n PROVE it[1..k] = AddBack(it[1..(k - 1)], h[k])
    OBVIOUS
  <2>1. 1..k \in SUBSET (1..n) OBVIOUS
  <2>2. Max(1..k) = k /\ 1..k # {} /\ (1..k) \ {Max(1..k)} = 1..(k - 1) BY UpTo
  <2>3. it[1..k] = AddBack(it[(1..k) \ {Max(1..k)}], h[Max(1..k)])
    BY <1>4, <2>1, <2>2
  <2> HIDE DEF Sol
  <2> QED BY <2>2, <2>3
<1> HIDE DEF Sol
<1> DEFINE f == [k \in 0..n |-> it[1..k]]
           T == {k \in 0..n : it[1..k] \in W}
<1>8. 0..n \subseteq T
  <2>1. 0 \in T BY <1>6
  <2>2. ASSUME NEW k \in 0..(n - 1), k \in T PROVE k + 1 \in T
    <3>1. k + 1 \in 1..n /\ (k + 1) - 1 = k OBVIOUS
    <3>2. it[1..(k + 1)] = AddBack(it[1..k], h[k + 1]) BY <1>7, <3>1
    <3> QED BY <2>2, <3>1, <3>2
  <2> HIDE DEF T
  <2> QED BY <2>1, <2>2, InductTo
<1>9. f \in [0..n -> W] BY <1>8
<1>10. f[0] = w /\ f[n] = FoldLeft(AddBack, w, h) BY <1>5, <1>6
<1>11. \A k \in 1..n : f[k] = AddBack(f[k - 1], h[k]) BY <1>7
<1>12. AddBackRun(f, n, w, h) BY <1>10, <1>11 DEF AddBackRun
<1> QED BY <1>9, <1>12

-----------------------------------------------------------------------------
(* A square takes over a better identification. *)

LEMMA Distances ==
    ASSUME NEW e, NEW m, e.pos \in Int, m.pos \in Int
    PROVE  Distance(e, m) \in Nat
BY DEF Distance

\* cid is one of the squares near the earlier marker, when there is one.
LEMMA NearestIn ==
    ASSUME NEW n \in Nat, NEW w \in [1..n -> Marker], NEW e \in Entry
    PROVE  LET near == {j \in 1..n : Near(e, w[j])} IN
           IF near = {} THEN Nearest(e, w) = 0 ELSE Nearest(e, w) \in near
<1> DEFINE near == {j \in 1..n : Near(e, w[j])}
           D == {Distance(e, w[j]) : j \in near}
<1>1. \A j \in near : Distance(e, w[j]) \in Nat
  <2>1. e.pos \in Int BY DetectAssumption DEF Entry
  <2>2. \A j \in near : w[j].pos \in Int BY DetectAssumption DEF Marker
  <2> QED BY <2>1, <2>2, Distances
<1>2. CASE near = {} BY <1>2 DEF Nearest
<1>3. CASE near # {}
  <2>1. D \subseteq Nat /\ D # {} BY <1>1, <1>3
  <2>2. PICK d \in D : \A x \in D : d <= x BY <2>1, Least
  <2> DEFINE J == {j \in near : Distance(e, w[j]) = d}
  <2>3. J \subseteq Nat /\ J # {} BY <2>2
  <2>4. PICK j \in J : \A k \in J : j <= k BY <2>3, Least
  <2>5. \A k \in near :
           \/ Distance(e, w[j]) < Distance(e, w[k])
           \/ Distance(e, w[j]) = Distance(e, w[k]) /\ j <= k
    <3> SUFFICES ASSUME NEW k \in near
                 PROVE  \/ Distance(e, w[j]) < Distance(e, w[k])
                        \/ Distance(e, w[j]) = Distance(e, w[k]) /\ j <= k
      OBVIOUS
    <3>1. d <= Distance(e, w[k]) /\ d = Distance(e, w[j]) BY <2>2, <2>4
    <3>2. Distance(e, w[k]) \in Nat /\ d \in Nat BY <1>1, <2>1
    <3>3. d = Distance(e, w[k]) => j <= k BY <2>4
    <3> QED BY <3>1, <3>2, <3>3
  <2>6. j \in near BY <2>4
  <2> HIDE DEF J, D
  <2> QED BY <1>3, <2>5, <2>6 DEF Nearest
<1> QED BY <1>2, <1>3

\* One earlier marker: no square moves, grows or gets worse, and if there are squares
\* near the marker, one of them is at least as good.
LEMMA InheritStep ==
    ASSUME NEW n \in Nat, NEW w \in [1..n -> Marker], NEW e \in Entry
    PROVE  /\ Inherit(w, e) \in [1..n -> Marker]
           /\ \A j \in 1..n : /\ Inherit(w, e)[j].pos = w[j].pos
                              /\ Inherit(w, e)[j].area = w[j].area
                              /\ Inherit(w, e)[j].cf >= w[j].cf
           /\ (\E j \in 1..n : Near(e, w[j])) =>
                 \E j \in 1..n : Near(e, w[j]) /\ Inherit(w, e)[j].cf >= e.cf
<1> DEFINE cid == Nearest(e, w)
           near == {j \in 1..n : Near(e, w[j])}
<1>1. IF near = {} THEN cid = 0 ELSE cid \in near BY NearestIn
<1>2. e.cf \in Nat /\ e.cf \in Confidences /\ e.id \in Patterns
  BY DetectAssumption DEF Entry
<1>3. \A j \in 1..n : w[j].cf \in Nat BY DetectAssumption DEF Marker
<1>4. CASE cid # 0 /\ w[cid].cf < e.cf
  <2>1. cid \in near BY <1>1, <1>4
  <2>2. Inherit(w, e) = [w EXCEPT ![cid].cf = e.cf, ![cid].id = e.id]
    BY <1>4 DEF Inherit
  <2>3. Inherit(w, e)[cid] = [w[cid] EXCEPT !.cf = e.cf, !.id = e.id]
    BY <2>1, <2>2
  <2>4. \A j \in (1..n) \ {cid} : Inherit(w, e)[j] = w[j] BY <2>1, <2>2
  <2>5. Inherit(w, e)[cid] \in Marker /\ Inherit(w, e)[cid].cf = e.cf
        /\ Inherit(w, e)[cid].pos = w[cid].pos
        /\ Inherit(w, e)[cid].area = w[cid].area
    BY <1>2, <2>1, <2>3 DEF Marker
  <2>6. DOMAIN Inherit(w, e) = 1..n BY <2>2
  <2>7. Inherit(w, e) = [j \in 1..n |-> Inherit(w, e)[j]] BY <2>2
  <2>8. Inherit(w, e) \in [1..n -> Marker] BY <2>1, <2>4, <2>5, <2>7
  <2>9. \A j \in 1..n : /\ Inherit(w, e)[j].pos = w[j].pos
                        /\ Inherit(w, e)[j].area = w[j].area
                        /\ Inherit(w, e)[j].cf >= w[j].cf
    BY <1>2, <1>3, <1>4, <2>4, <2>5
  <2>10. Near(e, w[cid]) /\ Inherit(w, e)[cid].cf >= e.cf BY <1>2, <2>1, <2>5
  <2> QED BY <2>1, <2>8, <2>9, <2>10
<1>5. CASE ~(cid # 0 /\ w[cid].cf < e.cf)
  <2>1. Inherit(w, e) = w BY <1>5 DEF Inherit
  <2>2. \A j \in 1..n : w[j].cf >= w[j].cf BY <1>3
  <2>3. near # {} => cid \in near /\ w[cid].cf >= e.cf
    BY <1>1, <1>2, <1>3, <1>5
  <2> HIDE DEF cid
  <2> QED BY <2>1, <2>2, <2>3
<1> QED BY <1>4, <1>5

\* All of them.
LEMMA Inherited ==
    ASSUME NEW n \in Nat, NEW w \in [1..n -> Marker], NEW h \in Seq(Entry)
    PROVE  LET v == FoldLeft(Inherit, w, h) IN
           /\ v \in [1..n -> Marker]
           /\ \A j \in 1..n : v[j].pos = w[j].pos /\ v[j].area = w[j].area
           /\ \A i \in 1..Len(h) : (\E j \in 1..n : Near(h[i], w[j])) =>
                 \E j \in 1..n : Near(h[i], w[j]) /\ v[j].cf >= h[i].cf
<1> DEFINE v == FoldLeft(Inherit, w, h)
           W == {u \in [1..n -> Marker] :
                   \A j \in 1..n : u[j].pos = w[j].pos /\ u[j].area = w[j].area}
           m == Len(h)
<1>1. w \in W /\ m \in Nat /\ DOMAIN h = 1..m OBVIOUS
<1>2. \A u \in W : \A k \in 1..m : Inherit(u, h[k]) \in W
  <2> SUFFICES ASSUME NEW u \in W, NEW k \in 1..m PROVE Inherit(u, h[k]) \in W
    OBVIOUS
  <2>1. h[k] \in Entry /\ u \in [1..n -> Marker] OBVIOUS
  <2> QED BY <2>1, InheritStep
<1>3. PICK f \in [0..m -> W] : InheritRun(f, m, w, h)
  <2> HIDE DEF W, m
  <2> QED BY <1>1, <1>2, InheritTrace
<1>4. f[0] = w /\ f[m] = v /\ \A k \in 1..m : f[k] = Inherit(f[k - 1], h[k])
  BY <1>3 DEF InheritRun
<1> HIDE DEF v
<1>5. v \in W BY <1>1, <1>4
<1>6. ASSUME NEW i \in 1..m, \E j \in 1..n : Near(h[i], w[j])
      PROVE  \E j \in 1..n : Near(h[i], w[j]) /\ v[j].cf >= h[i].cf
  <2>1. f[i - 1] \in W /\ f[i] = Inherit(f[i - 1], h[i]) BY <1>1, <1>4
  <2>2. \A j \in 1..n : Near(h[i], f[i - 1][j]) <=> Near(h[i], w[j])
    BY <2>1 DEF Near, Distance
  <2>3. h[i] \in Entry /\ f[i - 1] \in [1..n -> Marker] BY <2>1
  <2>4. PICK j \in 1..n : Near(h[i], f[i - 1][j]) /\ f[i][j].cf >= h[i].cf
    <3> HIDE DEF W, m
    <3>1. (\E j \in 1..n : Near(h[i], f[i - 1][j])) =>
             \E j \in 1..n : /\ Near(h[i], f[i - 1][j])
                            /\ Inherit(f[i - 1], h[i])[j].cf >= h[i].cf
      BY <2>3, InheritStep
    <3> QED BY <1>6, <2>1, <2>2, <3>1
  <2> DEFINE T == {k \in 0..m : k >= i => f[k][j].cf >= h[i].cf}
  <2>5. 0..m \subseteq T
    <3>1. 0 \in T BY <1>1
    <3>2. ASSUME NEW k \in 0..(m - 1), k \in T PROVE k + 1 \in T
      <4>1. k + 1 \in 1..m /\ (k + 1) - 1 = k BY <1>1
      <4>2. f[k] \in [1..n -> Marker] /\ h[k + 1] \in Entry BY <4>1
      <4>3. f[k + 1] = Inherit(f[k], h[k + 1]) BY <1>4, <4>1
      <4>4. f[k + 1][j].cf >= f[k][j].cf /\ f[k + 1] \in [1..n -> Marker]
        <5> HIDE DEF W, m
        <5>1. Inherit(f[k], h[k + 1]) \in [1..n -> Marker]
              /\ \A x \in 1..n : Inherit(f[k], h[k + 1])[x].cf >= f[k][x].cf
          BY <4>2, InheritStep
        <5> QED BY <4>3, <5>1
      <4>5. f[k + 1][j].cf \in Nat /\ f[k][j].cf \in Nat /\ h[i].cf \in Nat
        BY <2>3, <4>2, <4>4, DetectAssumption DEF Marker, Entry
      <4>6. CASE k >= i BY <3>2, <4>1, <4>4, <4>5, <4>6
      <4>7. CASE k + 1 = i BY <2>4, <4>1, <4>7
      <4>8. CASE k + 1 < i BY <4>1, <4>8
      <4> QED BY <4>6, <4>7, <4>8
    <3> HIDE DEF T, m
    <3> QED BY <1>1, <3>1, <3>2, InductTo
  <2>6. m \in T BY <1>1, <2>5
  <2>7. v[j].cf >= h[i].cf BY <1>4, <2>6
  <2> QED BY <2>2, <2>4, <2>7
<1> QED BY <1>5, <1>6 DEF v

-----------------------------------------------------------------------------
(* The history ages. *)

\* No two entries are of the same pattern.
OneEach(h) == \A i, j \in DOMAIN h : h[i].id = h[j].id => i = j

LEMMA OlderEntry ==
    ASSUME NEW e \in Entry
    PROVE  /\ Older(e).count = e.count + 1 /\ Older(e).id = e.id /\ Older(e).pos = e.pos
           /\ Older(e).area = e.area
           /\ Forgotten(Older(e).count) <=> e.count = CountMax - 1
           /\ ~Forgotten(Older(e).count) => Older(e) \in Entry
<1>1. /\ e.count \in 1..(CountMax - 1) /\ e.id \in Patterns /\ e.pos \in Places
      /\ e.cf \in Confidences /\ e.area \in Areas \cup {0} /\ CountMax \in Nat
  BY DetectAssumption DEF Entry
<1>2. Older(e) = [id |-> e.id, cf |-> e.cf, pos |-> e.pos, area |-> e.area,
                  count |-> e.count + 1]
  BY DEF Older, Entry
<1> QED BY <1>1, <1>2 DEF Entry, Forgotten

\* The first k entries of h have aged and make up the history a.
AgedTo(a, h, k) ==
    /\ OneEach(a)
    /\ \A j \in 1..Len(a) : \E i \in 1..k : a[j] = Older(h[i])
    /\ \A i \in 1..k : h[i].count < CountMax - 1 =>
          \E j \in 1..Len(a) : a[j] = Older(h[i])

LEMMA AgeStep ==
    ASSUME NEW h \in Seq(Entry), OneEach(h), NEW k \in 1..Len(h),
           NEW a \in Seq(Entry), AgedTo(a, h, k - 1)
    PROVE  Age(a, h[k]) \in Seq(Entry) /\ AgedTo(Age(a, h[k]), h, k)
<1> DEFINE o == Older(h[k])
<1>1. /\ h[k] \in Entry /\ k - 1 \in Nat /\ k \in Nat
      /\ \A i \in 1..(k - 1) : i \in DOMAIN h /\ i \in 1..k /\ i # k
      /\ \A i \in 1..k : i = k \/ i \in 1..(k - 1)
  OBVIOUS
<1>2. CASE Forgotten(o.count)
  <2>1. Age(a, h[k]) = a BY <1>2 DEF Age
  <2>2. ~(h[k].count < CountMax - 1)
    BY <1>1, <1>2, OlderEntry, DetectAssumption
  <2> QED BY <1>1, <2>1, <2>2 DEF AgedTo
<1>3. CASE ~Forgotten(o.count)
  <2> DEFINE b == Append(a, o)
  <2>1. Age(a, h[k]) = b BY <1>3 DEF Age
  <2>2. o \in Entry /\ o.id = h[k].id BY <1>1, <1>3, OlderEntry
  <2>3. /\ b \in Seq(Entry) /\ Len(b) = Len(a) + 1 /\ b[Len(b)] = o
        /\ \A j \in 1..Len(a) : b[j] = a[j] /\ j \in 1..Len(b)
        /\ \A j \in 1..Len(b) : j = Len(b) \/ j \in 1..Len(a)
        /\ Len(b) \in 1..Len(b)
    BY <2>2
  <2> HIDE DEF b, o
  <2>4. \A j \in 1..Len(a) : a[j].id # o.id
    <3> SUFFICES ASSUME NEW j \in 1..Len(a) PROVE a[j].id # o.id OBVIOUS
    <3>1. PICK i \in 1..(k - 1) : a[j] = Older(h[i]) BY DEF AgedTo
    <3>2. h[i] \in Entry BY <1>1
    <3>3. a[j].id = h[i].id BY <3>1, <3>2, OlderEntry
    <3> QED BY <1>1, <2>2, <3>3 DEF OneEach
  <2>5. OneEach(b) BY <2>3, <2>4 DEF AgedTo, OneEach
  <2>6. ASSUME NEW j \in 1..Len(b) PROVE \E i \in 1..k : b[j] = Older(h[i])
    <3>1. CASE j = Len(b) BY <1>1, <2>3, <3>1 DEF o
    <3>2. CASE j \in 1..Len(a)
      <4>1. PICK i \in 1..(k - 1) : a[j] = Older(h[i]) BY <3>2 DEF AgedTo
      <4> QED BY <1>1, <2>3, <3>2, <4>1
    <3> QED BY <2>3, <3>1, <3>2
  <2>7. ASSUME NEW i \in 1..k, h[i].count < CountMax - 1
        PROVE  \E j \in 1..Len(b) : b[j] = Older(h[i])
    <3>1. CASE i = k BY <2>3, <3>1 DEF o
    <3>2. CASE i \in 1..(k - 1)
      <4>1. PICK j \in 1..Len(a) : a[j] = Older(h[i]) BY <2>7, <3>2 DEF AgedTo
      <4> QED BY <2>3, <4>1
    <3> QED BY <1>1, <3>1, <3>2
  <2> QED BY <2>1, <2>3, <2>5, <2>6, <2>7 DEF AgedTo
<1> QED BY <1>2, <1>3

LEMMA AgedHistory ==
    ASSUME NEW h \in Seq(Entry), OneEach(h)
    PROVE  Aged(h) \in Seq(Entry) /\ AgedTo(Aged(h), h, Len(h))
<1> DEFINE n == Len(h)
           w == <<>>
           W == Seq(Entry)
<1>1. w \in W /\ n \in Nat /\ DOMAIN h = 1..n OBVIOUS
<1>2. \A v \in W : \A k \in 1..n : Age(v, h[k]) \in W
  <2> SUFFICES ASSUME NEW v \in Seq(Entry), NEW k \in 1..n
               PROVE  Age(v, h[k]) \in Seq(Entry)
    OBVIOUS
  <2>1. h[k] \in Entry OBVIOUS
  <2>2. ~Forgotten(Older(h[k]).count) => Older(h[k]) \in Entry
    BY <2>1, OlderEntry
  <2> QED BY <2>2 DEF Age
<1>3. PICK f \in [0..n -> W] : AgeRun(f, n, w, h)
  <2> HIDE DEF W, n, w
  <2> QED BY <1>1, <1>2, AgeTrace
<1>4. f[0] = w /\ f[n] = Aged(h) /\ \A k \in 1..n : f[k] = Age(f[k - 1], h[k])
  BY <1>3 DEF AgeRun, Aged
<1> DEFINE T == {k \in 0..n : f[k] \in Seq(Entry) /\ AgedTo(f[k], h, k)}
<1>5. 0 \in T
  <2>1. /\ w \in Seq(Entry) /\ DOMAIN w = {} /\ Len(w) = 0
        /\ 1..0 = {} /\ 1..Len(w) = {}
    OBVIOUS
  <2>2. AgedTo(w, h, 0) BY <2>1 DEF AgedTo, OneEach
  <2> HIDE DEF w
  <2> QED BY <1>1, <1>4, <2>1, <2>2
<1>6. ASSUME NEW k \in 0..(n - 1), k \in T PROVE k + 1 \in T
  <2>1. k + 1 \in 1..n /\ (k + 1) - 1 = k BY <1>1
  <2>2. f[k + 1] = Age(f[k], h[k + 1]) BY <1>4, <2>1
  <2>3. f[k] \in Seq(Entry) /\ AgedTo(f[k], h, k) BY <1>6
  <2>4. f[k + 1] \in Seq(Entry) /\ AgedTo(f[k + 1], h, k + 1)
    BY <2>1, <2>2, <2>3, AgeStep
  <2> QED BY <2>1, <2>4
<1>7. n \in T
  <2> HIDE DEF T, n
  <2>1. 0..n \subseteq T BY <1>1, <1>5, <1>6, InductTo
  <2> QED BY <1>1, <2>1
<1> QED BY <1>4, <1>7

-----------------------------------------------------------------------------
(* The markers found are entered into the history. *)

\* The first k markers found have been entered into the aged history a.
EnteredTo(h, a, found, k) ==
    /\ OneEach(h)
    /\ \A j \in 1..Len(h) :
          \/ \E m \in 1..k : found[m].id = h[j].id /\ h[j] = AsEntry(found[m])
          \/ /\ \E i \in 1..Len(a) : h[j] = a[i]
             /\ \A m \in 1..k : found[m].id # h[j].id
    /\ \A i \in 1..Len(a) : \E j \in 1..Len(h) : h[j].id = a[i].id

LEMMA MarkerEntry ==
    ASSUME NEW m \in Marker, m.id # NoId
    PROVE  AsEntry(m) \in Entry /\ AsEntry(m).id = m.id /\ AsEntry(m).pos = m.pos
BY DetectAssumption DEF Marker, Entry, AsEntry

LEMMA EnterStep ==
    ASSUME NEW found \in Seq(Marker), NEW k \in 1..Len(found), NEW a \in Seq(Entry),
           NEW h \in Seq(Entry), EnteredTo(h, a, found, k - 1)
    PROVE  Enter(h, found[k]) \in Seq(Entry) /\ EnteredTo(Enter(h, found[k]), a, found, k)
<1> DEFINE m == found[k]
           b == Enter(h, m)
           new == AsEntry(m)
<1>1. /\ m \in Marker /\ k - 1 \in Nat /\ k \in Nat /\ k \in 1..k
      /\ \A i \in 1..(k - 1) : i \in 1..k
      /\ \A i \in 1..k : i = k \/ i \in 1..(k - 1)
  OBVIOUS
<1>2. \A j \in 1..Len(h) : h[j] \in Entry /\ h[j].id # NoId
  <2>1. \A j \in 1..Len(h) : h[j] \in Entry OBVIOUS
  <2>2. \A e \in Entry : e.id # NoId BY DetectAssumption DEF Entry
  <2> QED BY <2>1, <2>2
<1>3. /\ \A i, j \in 1..Len(h) : h[i].id = h[j].id => i = j
      /\ \A i \in 1..Len(a) : \E j \in 1..Len(h) : h[j].id = a[i].id
  BY DEF EnteredTo, OneEach
<1>4. \A j \in 1..Len(h) : h[j].id # m.id =>
         \/ \E x \in 1..k : found[x].id = h[j].id /\ h[j] = AsEntry(found[x])
         \/ /\ \E i \in 1..Len(a) : h[j] = a[i]
            /\ \A x \in 1..k : found[x].id # h[j].id
  <2> SUFFICES ASSUME NEW j \in 1..Len(h), h[j].id # m.id
               PROVE  \/ \E x \in 1..k : found[x].id = h[j].id /\ h[j] = AsEntry(found[x])
                      \/ /\ \E i \in 1..Len(a) : h[j] = a[i]
                         /\ \A x \in 1..k : found[x].id # h[j].id
    OBVIOUS
  <2>1. CASE \E x \in 1..(k - 1) : found[x].id = h[j].id /\ h[j] = AsEntry(found[x])
    BY <1>1, <2>1
  <2>2. CASE /\ \E i \in 1..Len(a) : h[j] = a[i]
             /\ \A x \in 1..(k - 1) : found[x].id # h[j].id
    BY <1>1, <2>2
  <2> QED BY <2>1, <2>2 DEF EnteredTo
<1>5. CASE m.id = NoId
  <2>1. b = h BY <1>5 DEF Enter
  <2>2. \A j \in 1..Len(h) : h[j].id # m.id BY <1>2, <1>5
  <2> QED BY <1>4, <2>1, <2>2 DEF EnteredTo
<1>6. CASE m.id # NoId /\ \E j \in DOMAIN h : h[j].id = m.id
  <2>1. b = [j \in DOMAIN h |-> IF h[j].id = m.id THEN new ELSE h[j]]
    BY <1>6 DEF Enter
  <2>2. new \in Entry /\ new.id = m.id BY <1>1, <1>6, MarkerEntry
  <2> HIDE DEF b, new, m
  <2>3. b \in [1..Len(h) -> Entry] BY <1>2, <2>1, <2>2
  <2>4. b \in Seq(Entry) /\ Len(b) = Len(h) BY <2>3
  <2>5. \A j \in 1..Len(h) : b[j].id = h[j].id BY <2>1, <2>2
  <2>6. OneEach(b) BY <1>3, <2>3, <2>4, <2>5 DEF OneEach
  <2>7. ASSUME NEW j \in 1..Len(b)
        PROVE  \/ \E x \in 1..k : found[x].id = b[j].id /\ b[j] = AsEntry(found[x])
               \/ /\ \E i \in 1..Len(a) : b[j] = a[i]
                  /\ \A x \in 1..k : found[x].id # b[j].id
    <3>1. CASE h[j].id = m.id
      <4>1. b[j] = AsEntry(found[k]) /\ b[j].id = found[k].id
        BY <2>1, <2>2, <2>4, <3>1 DEF new, m
      <4> QED BY <1>1, <4>1
    <3>2. CASE h[j].id # m.id
      <4>1. b[j] = h[j] BY <2>1, <2>4, <3>2
      <4> QED BY <1>4, <2>4, <3>2, <4>1
    <3> QED BY <3>1, <3>2
  <2>8. \A i \in 1..Len(a) : \E j \in 1..Len(b) : b[j].id = a[i].id
    BY <1>3, <2>4, <2>5
  <2>9. EnteredTo(b, a, found, k) BY <2>6, <2>7, <2>8 DEF EnteredTo
  <2> QED BY <2>4, <2>9 DEF b, m
<1>7. CASE m.id # NoId /\ ~\E j \in DOMAIN h : h[j].id = m.id
  <2>1. b = Append(h, new) BY <1>7 DEF Enter
  <2>2. new \in Entry /\ new.id = m.id BY <1>1, <1>7, MarkerEntry
  <2> HIDE DEF b, new, m
  <2>3. /\ b \in Seq(Entry) /\ Len(b) = Len(h) + 1 /\ b[Len(b)] = new
        /\ \A j \in 1..Len(h) : b[j] = h[j] /\ j \in 1..Len(b)
        /\ \A j \in 1..Len(b) : j = Len(b) \/ j \in 1..Len(h)
    BY <2>1, <2>2
  <2>4. \A j \in 1..Len(h) : h[j].id # m.id BY <1>7
  <2>5. OneEach(b)
    <3>1. DOMAIN b = 1..Len(b) BY <2>3
    <3>2. \A j \in 1..Len(h) : b[j].id = h[j].id /\ b[j].id # m.id BY <2>3, <2>4
    <3>3. b[Len(b)].id = m.id BY <2>2, <2>3
    <3> QED BY <1>3, <2>3, <3>1, <3>2, <3>3 DEF OneEach
  <2>6. ASSUME NEW j \in 1..Len(b)
        PROVE  \/ \E x \in 1..k : found[x].id = b[j].id /\ b[j] = AsEntry(found[x])
               \/ /\ \E i \in 1..Len(a) : b[j] = a[i]
                  /\ \A x \in 1..k : found[x].id # b[j].id
    <3>1. CASE j = Len(b)
      <4>1. b[j] = AsEntry(found[k]) /\ b[j].id = found[k].id
        BY <2>2, <2>3, <3>1 DEF new, m
      <4> QED BY <1>1, <4>1
    <3>2. CASE j \in 1..Len(h) BY <1>4, <2>3, <2>4, <3>2
    <3> QED BY <2>3, <3>1, <3>2
  <2>7. \A i \in 1..Len(a) : \E j \in 1..Len(b) : b[j].id = a[i].id
    BY <1>3, <2>3
  <2>8. EnteredTo(b, a, found, k) BY <2>5, <2>6, <2>7 DEF EnteredTo
  <2> QED BY <2>3, <2>8 DEF b, m
<1> QED BY <1>5, <1>6, <1>7

LEMMA Entered ==
    ASSUME NEW found \in Seq(Marker), NEW a \in Seq(Entry), OneEach(a)
    PROVE  LET h == FoldLeft(Enter, a, found) IN
           h \in Seq(Entry) /\ EnteredTo(h, a, found, Len(found))
<1> DEFINE n == Len(found)
           W == Seq(Entry)
<1>1. a \in W /\ n \in Nat /\ DOMAIN found = 1..n OBVIOUS
<1>2. \A v \in W : \A k \in 1..n : Enter(v, found[k]) \in W
  <2> SUFFICES ASSUME NEW v \in Seq(Entry), NEW m \in Marker
               PROVE  Enter(v, m) \in Seq(Entry)
    OBVIOUS
  <2>1. m.id # NoId => AsEntry(m) \in Entry BY MarkerEntry
  <2>2. CASE m.id = NoId BY <2>2 DEF Enter
  <2>3. CASE m.id # NoId /\ \E j \in DOMAIN v : v[j].id = m.id
    <3> DEFINE u == [j \in DOMAIN v |-> IF v[j].id = m.id THEN AsEntry(m) ELSE v[j]]
    <3>1. u \in [1..Len(v) -> Entry] BY <2>1, <2>3
    <3>2. u \in Seq(Entry) BY <3>1
    <3> QED BY <2>3, <3>2 DEF Enter
  <2>4. CASE m.id # NoId /\ ~\E j \in DOMAIN v : v[j].id = m.id
    BY <2>1, <2>4 DEF Enter
  <2> QED BY <2>2, <2>3, <2>4
<1>3. PICK f \in [0..n -> W] : EnterRun(f, n, a, found)
  <2> HIDE DEF W, n
  <2> QED BY <1>1, <1>2, EnterTrace
<1>4. /\ f[0] = a /\ f[n] = FoldLeft(Enter, a, found)
      /\ \A k \in 1..n : f[k] = Enter(f[k - 1], found[k])
  BY <1>3 DEF EnterRun
<1> DEFINE T == {k \in 0..n : EnteredTo(f[k], a, found, k)}
<1>5. 0 \in T
  <2>1. 1..0 = {} OBVIOUS
  <2>2. EnteredTo(a, a, found, 0) BY <2>1 DEF EnteredTo
  <2> QED BY <1>1, <1>4, <2>2
<1>6. ASSUME NEW k \in 0..(n - 1), k \in T PROVE k + 1 \in T
  <2>1. k + 1 \in 1..n /\ (k + 1) - 1 = k /\ k \in 0..n BY <1>1
  <2>2. f[k + 1] = Enter(f[k], found[k + 1]) BY <1>4, <2>1
  <2>3. f[k] \in Seq(Entry) /\ EnteredTo(f[k], a, found, k) BY <1>6, <2>1
  <2>4. EnteredTo(f[k + 1], a, found, k + 1) BY <2>1, <2>2, <2>3, EnterStep
  <2> QED BY <2>1, <2>4
<1>7. n \in T
  <2> HIDE DEF T, n
  <2>1. 0..n \subseteq T BY <1>1, <1>5, <1>6, InductTo
  <2> QED BY <1>1, <2>1
<1>8. f[n] \in Seq(Entry) BY <1>1
<1> QED BY <1>4, <1>7, <1>8

-----------------------------------------------------------------------------
(* Markers of the history with nothing near them are added. *)

\* The first k entries of the history h have been compared with the markers w.
AddedTo(w, found, h, k) ==
    /\ Len(found) <= Len(w) /\ Len(w) <= Len(found) + k
    /\ \A j \in 1..Len(found) : w[j] = found[j]
    /\ \A j \in (Len(found) + 1)..Len(w) :
          \E i \in 1..k : /\ w[j] = AsMarker(h[i])
                          /\ \A m \in 1..Len(found) : ~Near(h[i], found[m])
    /\ \A i \in 1..k : \E j \in 1..Len(w) : w[j] = AsMarker(h[i]) \/ Near(h[i], w[j])

LEMMA AddBackStep ==
    ASSUME NEW found \in Seq(Marker), NEW h \in Seq(Entry), NEW k \in 1..Len(h),
           NEW w \in Seq(Marker), AddedTo(w, found, h, k - 1)
    PROVE  /\ AddBack(w, h[k]) \in Seq(Marker)
           /\ AddedTo(AddBack(w, h[k]), found, h, k)
<1> DEFINE e == h[k]
           b == AddBack(w, e)
           new == AsMarker(e)
<1>1. /\ e \in Entry /\ k - 1 \in Nat /\ k \in Nat /\ k \in 1..k
      /\ \A i \in 1..(k - 1) : i \in 1..k
      /\ \A i \in 1..k : i = k \/ i \in 1..(k - 1)
      /\ Len(found) \in Nat /\ Len(w) \in Nat
  OBVIOUS
<1>2. CASE \E j \in DOMAIN w : Near(e, w[j])
  <2>1. b = w BY <1>2 DEF AddBack
  <2>2. PICK x \in 1..Len(w) : Near(e, w[x]) BY <1>2
  <2>3. Len(w) <= Len(found) + k BY <1>1 DEF AddedTo
  <2>4. ASSUME NEW i \in 1..k
        PROVE  \E j \in 1..Len(w) : w[j] = AsMarker(h[i]) \/ Near(h[i], w[j])
    <3>1. CASE i = k BY <2>2, <3>1
    <3>2. CASE i \in 1..(k - 1) BY <3>2 DEF AddedTo
    <3> QED BY <1>1, <3>1, <3>2
  <2>5. ASSUME NEW j \in (Len(found) + 1)..Len(w)
        PROVE  \E i \in 1..k : /\ w[j] = AsMarker(h[i])
                               /\ \A m \in 1..Len(found) : ~Near(h[i], found[m])
    BY <1>1 DEF AddedTo
  <2>6. AddedTo(w, found, h, k) BY <2>3, <2>4, <2>5 DEF AddedTo
  <2> QED BY <2>1, <2>6
<1>3. CASE ~\E j \in DOMAIN w : Near(e, w[j])
  <2>1. b = Append(w, new) BY <1>3 DEF AddBack
  <2>2. new \in Marker BY <1>1 DEF AsMarker, Entry, Marker
  <2> HIDE DEF b, new, e
  <2>3. /\ b \in Seq(Marker) /\ Len(b) = Len(w) + 1 /\ b[Len(b)] = new
        /\ \A j \in 1..Len(w) : b[j] = w[j] /\ j \in 1..Len(b)
        /\ Len(b) \in 1..Len(b)
    BY <2>1, <2>2
  <2>4. Len(found) <= Len(w) /\ Len(w) <= Len(found) + (k - 1) BY DEF AddedTo
  <2>5. Len(found) <= Len(b) /\ Len(b) <= Len(found) + k BY <1>1, <2>3, <2>4
  <2>6. \A j \in 1..Len(found) : j \in 1..Len(w) BY <1>1, <2>4
  <2>7. \A j \in 1..Len(found) : b[j] = found[j] BY <2>3, <2>6 DEF AddedTo
  <2>8. \A m \in 1..Len(found) : ~Near(e, found[m])
    BY <1>3, <2>6 DEF AddedTo
  <2>9. ASSUME NEW j \in (Len(found) + 1)..Len(b)
        PROVE  \E i \in 1..k : /\ b[j] = AsMarker(h[i])
                               /\ \A m \in 1..Len(found) : ~Near(h[i], found[m])
    <3>1. CASE j = Len(b)
      <4>1. b[j] = AsMarker(h[k]) BY <2>3, <3>1 DEF new, e
      <4>2. \A m \in 1..Len(found) : ~Near(h[k], found[m]) BY <2>8 DEF e
      <4> QED BY <1>1, <4>1, <4>2
    <3>2. CASE j # Len(b)
      <4>1. j \in (Len(found) + 1)..Len(w) /\ j \in 1..Len(w)
        BY <1>1, <2>3, <3>2
      <4>2. PICK i \in 1..(k - 1) :
               /\ w[j] = AsMarker(h[i])
               /\ \A m \in 1..Len(found) : ~Near(h[i], found[m])
        BY <4>1 DEF AddedTo
      <4> QED BY <1>1, <2>3, <4>1, <4>2
    <3> QED BY <3>1, <3>2
  <2>10. ASSUME NEW i \in 1..k
         PROVE  \E j \in 1..Len(b) : b[j] = AsMarker(h[i]) \/ Near(h[i], b[j])
    <3>1. CASE i = k BY <2>3, <3>1 DEF new, e
    <3>2. CASE i \in 1..(k - 1)
      <4>1. PICK j \in 1..Len(w) : w[j] = AsMarker(h[i]) \/ Near(h[i], w[j])
        BY <3>2 DEF AddedTo
      <4> QED BY <2>3, <4>1
    <3> QED BY <1>1, <3>1, <3>2
  <2>11. AddedTo(b, found, h, k) BY <2>5, <2>7, <2>9, <2>10 DEF AddedTo
  <2> QED BY <2>3, <2>11 DEF b, e
<1> QED BY <1>2, <1>3

LEMMA Added ==
    ASSUME NEW found \in Seq(Marker), NEW h \in Seq(Entry)
    PROVE  LET w == FoldLeft(AddBack, found, h) IN
           w \in Seq(Marker) /\ AddedTo(w, found, h, Len(h))
<1> DEFINE n == Len(h)
           W == Seq(Marker)
<1>1. found \in W /\ n \in Nat /\ DOMAIN h = 1..n OBVIOUS
<1>2. \A v \in W : \A k \in 1..n : AddBack(v, h[k]) \in W
  <2> SUFFICES ASSUME NEW v \in Seq(Marker), NEW e \in Entry
               PROVE  AddBack(v, e) \in Seq(Marker)
    OBVIOUS
  <2>1. AsMarker(e) \in Marker BY DEF AsMarker, Entry, Marker
  <2> QED BY <2>1 DEF AddBack
<1>3. PICK f \in [0..n -> W] : AddBackRun(f, n, found, h)
  <2> HIDE DEF W, n
  <2> QED BY <1>1, <1>2, AddBackTrace
<1>4. /\ f[0] = found /\ f[n] = FoldLeft(AddBack, found, h)
      /\ \A k \in 1..n : f[k] = AddBack(f[k - 1], h[k])
  BY <1>3 DEF AddBackRun
<1> DEFINE T == {k \in 0..n : AddedTo(f[k], found, h, k)}
<1>5. 0 \in T
  <2>1. 1..0 = {} /\ Len(found) \in Nat /\ (Len(found) + 1)..Len(found) = {} OBVIOUS
  <2>2. AddedTo(found, found, h, 0) BY <2>1 DEF AddedTo
  <2> QED BY <1>1, <1>4, <2>2
<1>6. ASSUME NEW k \in 0..(n - 1), k \in T PROVE k + 1 \in T
  <2>1. k + 1 \in 1..n /\ (k + 1) - 1 = k /\ k \in 0..n BY <1>1
  <2>2. f[k + 1] = AddBack(f[k], h[k + 1]) BY <1>4, <2>1
  <2>3. f[k] \in Seq(Marker) /\ AddedTo(f[k], found, h, k) BY <1>6, <2>1
  <2>4. AddedTo(f[k + 1], found, h, k + 1) BY <2>1, <2>2, <2>3, AddBackStep
  <2> QED BY <2>1, <2>4
<1>7. n \in T
  <2> HIDE DEF T, n
  <2>1. 0..n \subseteq T BY <1>1, <1>5, <1>6, InductTo
  <2> QED BY <1>1, <2>1
<1>8. f[n] \in Seq(Marker) BY <1>1
<1> QED BY <1>4, <1>7, <1>8

-----------------------------------------------------------------------------
(* The whole of arDetectMarker. *)

Found(image) == Identified(FoldLeft(Inherit, image, prev_info))

LEMMA IdentifiedMarkers ==
    ASSUME NEW n \in Nat, NEW w \in [1..n -> Marker]
    PROVE  /\ Identified(w) \in [1..n -> Marker]
           /\ \A j \in 1..n : /\ Identified(w)[j].pos = w[j].pos
                              /\ Identified(w)[j].area = w[j].area
                              /\ Identified(w)[j].cf = w[j].cf
<1> DEFINE v == Identified(w)
<1>1. v = [j \in 1..n |-> IF w[j].cf < CfMin THEN [w[j] EXCEPT !.id = NoId] ELSE w[j]]
  BY DEF Identified
<1>2. \A m \in Marker : /\ [m EXCEPT !.id = NoId] \in Marker
                        /\ [m EXCEPT !.id = NoId].pos = m.pos
                        /\ [m EXCEPT !.id = NoId].area = m.area
                        /\ [m EXCEPT !.id = NoId].cf = m.cf
  BY DEF Marker
<1> HIDE DEF v
<1>3. \A j \in 1..n : /\ v[j] \in Marker /\ v[j].pos = w[j].pos
                      /\ v[j].area = w[j].area /\ v[j].cf = w[j].cf
  BY <1>1, <1>2
<1>4. v \in [1..n -> Marker] BY <1>1, <1>3
<1> QED BY <1>3, <1>4 DEF v

\* What one call does, from the lemmas about its loops.
LEMMA Detected ==
    ASSUME TypeOK, OneEach(prev_info), NEW image \in Images, arDetectMarker(image)
    PROVE  /\ Found(image) \in Seq(Marker) /\ Len(Found(image)) = squares'
           /\ squares' \in 0..MaxSquares
           /\ Aged(prev_info) \in Seq(Entry)
           /\ AgedTo(Aged(prev_info), prev_info, Len(prev_info))
           /\ prev_info' \in Seq(Entry)
           /\ EnteredTo(prev_info', Aged(prev_info), Found(image), squares')
           /\ wmarker_info' \in Seq(Marker)
           /\ AddedTo(wmarker_info', Found(image), prev_info', Len(prev_info'))
           /\ \A i \in 1..Len(prev_info) :
                (\E j \in 1..squares' : Near(prev_info[i], Found(image)[j])) =>
                   \E j \in 1..squares' : /\ Near(prev_info[i], Found(image)[j])
                                          /\ Found(image)[j].cf >= prev_info[i].cf
<1> DEFINE n == Len(image)
           found == Found(image)
           v == FoldLeft(Inherit, image, prev_info)
<1>1. n \in Nat /\ n \in 0..MaxSquares /\ image \in [1..n -> Marker]
  <2>1. PICK m \in 0..MaxSquares : image \in [1..m -> Square] BY DEF Images
  <2>2. image \in [1..m -> Marker] BY <2>1 DEF Square
  <2>3. m \in Nat BY DetectAssumption
  <2>4. n = m BY <2>2, <2>3
  <2> QED BY <2>2, <2>3, <2>4
<1>2. prev_info \in Seq(Entry) BY DEF TypeOK
<1>3. /\ v \in [1..n -> Marker]
      /\ \A j \in 1..n : v[j].pos = image[j].pos /\ v[j].area = image[j].area
      /\ \A i \in 1..Len(prev_info) : (\E j \in 1..n : Near(prev_info[i], image[j])) =>
            \E j \in 1..n : Near(prev_info[i], image[j]) /\ v[j].cf >= prev_info[i].cf
  <2> HIDE DEF n
  <2> QED BY <1>1, <1>2, Inherited
<1>4. /\ found \in [1..n -> Marker]
      /\ \A j \in 1..n : /\ found[j].pos = v[j].pos /\ found[j].area = v[j].area
                         /\ found[j].cf = v[j].cf
  <2> HIDE DEF n, v
  <2> QED BY <1>1, <1>3, IdentifiedMarkers DEF Found, v
<1>5. found \in Seq(Marker) /\ Len(found) = n /\ squares' = n
  <2>1. squares' = n BY DEF arDetectMarker
  <2> HIDE DEF n, found
  <2> QED BY <1>1, <1>4, <2>1
<1>6. /\ Aged(prev_info) \in Seq(Entry)
      /\ AgedTo(Aged(prev_info), prev_info, Len(prev_info))
  BY <1>2, AgedHistory
<1>7. OneEach(Aged(prev_info)) BY <1>6 DEF AgedTo
<1> HIDE DEF found, v, n
<1>8. prev_info' = FoldLeft(Enter, Aged(prev_info), found)
      /\ wmarker_info' = FoldLeft(AddBack, found, prev_info')
  BY DEF arDetectMarker, found, Found
<1>9. /\ prev_info' \in Seq(Entry)
      /\ EnteredTo(prev_info', Aged(prev_info), found, n)
  BY <1>5, <1>6, <1>7, <1>8, Entered
<1>10. /\ wmarker_info' \in Seq(Marker)
       /\ AddedTo(wmarker_info', found, prev_info', Len(prev_info'))
  BY <1>5, <1>8, <1>9, Added
<1>11. \A i \in 1..Len(prev_info) : \A j \in 1..n :
          Near(prev_info[i], found[j]) <=> Near(prev_info[i], image[j])
  BY <1>3, <1>4 DEF Near, Distance
<1>12. \A i \in 1..Len(prev_info) : (\E j \in 1..n : Near(prev_info[i], found[j])) =>
          \E j \in 1..n : Near(prev_info[i], found[j]) /\ found[j].cf >= prev_info[i].cf
  BY <1>3, <1>4, <1>11
<1> QED BY <1>1, <1>5, <1>6, <1>9, <1>10, <1>12 DEF found

\* The count of an entry is the number of calls since its pattern was seen,
\* counting from 1.
CountsCalls == \A j \in DOMAIN prev_info : unseen[prev_info[j].id] = prev_info[j].count - 1

HInv == TypeOK /\ OneEach(prev_info) /\ OnePerPattern /\ CountsCalls /\ AddedBackRecent

LEMMA InitHInv == Init => HInv
<1> SUFFICES ASSUME Init PROVE HInv OBVIOUS
<1>1. /\ prev_info = <<>> /\ wmarker_info = <<>> /\ squares = 0
      /\ unseen = [p \in Patterns |-> CountMax]
  BY DEF Init
<1>2. DOMAIN prev_info = {} /\ Len(prev_info) = 0 /\ Len(wmarker_info) = 0
  BY <1>1
<1>3. TypeOK BY <1>1, DetectAssumption DEF TypeOK
<1>4. OneEach(prev_info) /\ CountsCalls BY <1>2 DEF OneEach, CountsCalls
<1>5. OnePerPattern BY <1>1, <1>2 DEF OnePerPattern
<1>6. AddedBackRecent
  <2>1. (squares + 1)..Len(wmarker_info) = {} BY <1>1, <1>2
  <2> QED BY <2>1 DEF AddedBackRecent
<1> QED BY <1>3, <1>4, <1>5, <1>6 DEF HInv

LEMMA NextHInv == HInv /\ [Next]_vars => HInv'
<1> SUFFICES ASSUME HInv, [Next]_vars PROVE HInv' OBVIOUS
<1>1. CASE UNCHANGED vars
  BY <1>1 DEF HInv, vars, TypeOK, OneEach, OnePerPattern, CountsCalls, AddedBackRecent
<1>2. ASSUME NEW image \in Images, arDetectMarker(image) PROVE HInv'
  <2> DEFINE found == Found(image)
             a == Aged(prev_info)
             n == squares'
  <2>1. /\ found \in Seq(Marker) /\ Len(found) = n /\ n \in 0..MaxSquares
        /\ a \in Seq(Entry) /\ AgedTo(a, prev_info, Len(prev_info))
        /\ prev_info' \in Seq(Entry) /\ EnteredTo(prev_info', a, found, n)
        /\ wmarker_info' \in Seq(Marker)
        /\ AddedTo(wmarker_info', found, prev_info', Len(prev_info'))
    BY <1>2, Detected DEF HInv
  <2>2. unseen' = [p \in Patterns |->
                     IF p \in {found[i].id : i \in DOMAIN found} THEN 0
                     ELSE IF unseen[p] < CountMax THEN unseen[p] + 1 ELSE CountMax]
    BY <1>2 DEF arDetectMarker, Found
  <2> HIDE DEF found, a, n
  <2>3. unseen \in [Patterns -> 0..CountMax] /\ CountMax \in Nat \ {0, 1}
    BY DetectAssumption DEF HInv, TypeOK
  <2>4. unseen' \in [Patterns -> 0..CountMax] BY <2>2, <2>3
  <2>5. TypeOK' BY <2>1, <2>4 DEF TypeOK, n
  <2>6. OneEach(prev_info)' BY <2>1 DEF EnteredTo, OneEach
  <2>7. Len(wmarker_info') <= n + Len(prev_info') BY <2>1 DEF AddedTo
  <2>8. OnePerPattern' BY <2>6, <2>7 DEF OnePerPattern, OneEach, n
  <2>9. ASSUME NEW j \in 1..Len(prev_info')
        PROVE  LET e == prev_info'[j] IN
               /\ e \in Entry /\ unseen'[e.id] = e.count - 1
               /\ e.count = 1 => \E m \in 1..n : e.pos = found[m].pos /\ e.area = found[m].area
    <3> DEFINE e == prev_info'[j]
    <3>1. e \in Entry /\ e.id \in Patterns
      <4>1. e \in Entry BY <2>1
      <4> HIDE DEF e
      <4> QED BY <4>1 DEF Entry
    <3>2. CASE \E m \in 1..n : found[m].id = e.id /\ e = AsEntry(found[m])
      <4>1. PICK m \in 1..n : found[m].id = e.id /\ e = AsEntry(found[m]) BY <3>2
      <4>2. e.count = 1 /\ e.pos = found[m].pos /\ e.area = found[m].area
        BY <4>1 DEF AsEntry
      <4>3. unseen'[e.id] = 0 BY <2>1, <2>2, <3>1, <4>1
      <4> QED BY <3>1, <4>2, <4>3
    <3>3. CASE (\E i \in 1..Len(a) : e = a[i]) /\ \A m \in 1..n : found[m].id # e.id
      <4>1. PICK i \in 1..Len(prev_info) : e = Older(prev_info[i])
        BY <2>1, <3>3 DEF AgedTo
      <4> DEFINE o == prev_info[i]
      <4>2. o \in Entry BY DEF HInv, TypeOK
      <4>3. e.count = o.count + 1 /\ e.id = o.id BY <4>1, <4>2, OlderEntry
      <4>4. unseen[o.id] = o.count - 1 BY DEF HInv, CountsCalls
      <4>5. o.count \in 1..(CountMax - 1) BY <4>2 DEF Entry
      <4> HIDE DEF o, e
      <4>6. e.id \notin {found[m].id : m \in DOMAIN found} BY <2>1, <3>3
      <4>7. unseen'[e.id] = IF unseen[e.id] < CountMax THEN unseen[e.id] + 1 ELSE CountMax
        BY <2>2, <3>1, <4>6
      <4>8. unseen'[e.id] = e.count - 1 BY <2>3, <4>3, <4>4, <4>5, <4>7
      <4>9. e.count # 1 BY <4>3, <4>5
      <4> QED BY <3>1, <4>8, <4>9 DEF e
    <3> QED BY <2>1, <3>2, <3>3 DEF EnteredTo
  <2>10. CountsCalls' BY <2>1, <2>9 DEF CountsCalls
  <2>11. AddedBackRecent'
    <3> SUFFICES ASSUME NEW k \in (n + 1)..Len(wmarker_info')
                 PROVE  /\ unseen'[wmarker_info'[k].id] <= CountMax - 2
                        /\ unseen'[wmarker_info'[k].id] = 0 => wmarker_info'[k].area = 0
      BY DEF AddedBackRecent, n
    <3>1. PICK i \in 1..Len(prev_info') :
             /\ wmarker_info'[k] = AsMarker(prev_info'[i])
             /\ \A m \in 1..n : ~Near(prev_info'[i], found[m])
      BY <2>1 DEF AddedTo
    <3> DEFINE e == prev_info'[i]
    <3>2. /\ e \in Entry /\ unseen'[e.id] = e.count - 1
          /\ e.count = 1 => \E m \in 1..n : e.pos = found[m].pos /\ e.area = found[m].area
      BY <2>9
    <3>3. wmarker_info'[k].id = e.id /\ wmarker_info'[k].area = e.area
      BY <3>1 DEF AsMarker
    <3>4. e.count = 1 => e.area = 0
      <4> SUFFICES ASSUME NEW m \in 1..n, e.pos = found[m].pos, e.area = found[m].area,
                          e.area # 0
                   PROVE  FALSE
        BY <3>2
      <4>1. e.pos \in Int BY <3>2, DetectAssumption DEF Entry
      <4>2. Near(e, found[m]) BY <4>1 DEF Near, Distance
      <4> QED BY <3>1, <4>2
    <3>5. e.count \in 1..(CountMax - 1) BY <3>2 DEF Entry
    <3> HIDE DEF e
    <3> QED BY <2>3, <3>2, <3>3, <3>4, <3>5
  <2> QED BY <2>5, <2>6, <2>8, <2>10, <2>11 DEF HInv
<1> QED BY <1>1, <1>2 DEF Next

-----------------------------------------------------------------------------
(* The theorems. *)

\* The history and the markers returned are well formed in every reachable
\* state.
THEOREM TypeCorrect == Spec => []TypeOK
<1>1. HInv => TypeOK BY DEF HInv
<1> QED BY InitHInv, NextHInv, <1>1, PTL DEF Spec

\* The history never holds two sightings of one pattern, and no more markers
\* are returned than the image has squares and the history has entries:
\* whatever is seen, prev_info and wmarker_info are written inside arrays
\* with room for the patterns and the squares.
THEOREM HistoryOnePerPattern == Spec => []OnePerPattern
<1>1. HInv => OnePerPattern BY DEF HInv
<1> QED BY InitHInv, NextHInv, <1>1, PTL DEF Spec

\* A marker reported without a square near it was seen at most CountMax - 2
\* calls ago, and not in this image unless its square had the area 0.
THEOREM AddedBackWereSeen == Spec => []AddedBackRecent
<1>1. HInv => AddedBackRecent BY DEF HInv
<1> QED BY InitHInv, NextHInv, <1>1, PTL DEF Spec

\* No identified marker vanishes from one image to the next.
THEOREM IdentifiedPersist == Spec => MarkersPersist
<1> DEFINE P == \A i \in DOMAIN prev_info : prev_info[i].count < CountMax - 1 =>
                  \E k \in DOMAIN wmarker_info' :
                     \/ wmarker_info'[k].id = prev_info[i].id
                     \/ /\ Near(prev_info[i], wmarker_info'[k])
                        /\ wmarker_info'[k].cf >= prev_info[i].cf \/ k > squares'
<1>1. HInv /\ [Next]_vars => [P]_vars
  <2> SUFFICES ASSUME HInv, NEW image \in Images, arDetectMarker(image) PROVE P
    BY DEF Next
  <2> DEFINE found == Found(image)
             a == Aged(prev_info)
             n == squares'
  <2>1. /\ found \in Seq(Marker) /\ Len(found) = n /\ n \in 0..MaxSquares
        /\ a \in Seq(Entry) /\ AgedTo(a, prev_info, Len(prev_info))
        /\ prev_info' \in Seq(Entry) /\ EnteredTo(prev_info', a, found, n)
        /\ wmarker_info' \in Seq(Marker)
        /\ AddedTo(wmarker_info', found, prev_info', Len(prev_info'))
        /\ \A i \in 1..Len(prev_info) :
              (\E j \in 1..n : Near(prev_info[i], found[j])) =>
                 \E j \in 1..n : Near(prev_info[i], found[j]) /\ found[j].cf >= prev_info[i].cf
    BY Detected DEF HInv
  <2> HIDE DEF found, a, n
  <2>2. /\ \A j \in 1..n : j \in DOMAIN wmarker_info' /\ wmarker_info'[j] = found[j]
        /\ \A j \in 1..Len(wmarker_info') : j \in DOMAIN wmarker_info'
        /\ n \in Nat
    BY <2>1 DEF AddedTo
  <2> SUFFICES ASSUME NEW i \in 1..Len(prev_info), prev_info[i].count < CountMax - 1
               PROVE  \E k \in DOMAIN wmarker_info' :
                        \/ wmarker_info'[k].id = prev_info[i].id
                        \/ /\ Near(prev_info[i], wmarker_info'[k])
                           /\ wmarker_info'[k].cf >= prev_info[i].cf \/ k > squares'
    BY DEF HInv, TypeOK
  <2> DEFINE e == prev_info[i]
  <2>3. e \in Entry BY DEF HInv, TypeOK
  <2>4. PICK x \in 1..Len(a) : a[x] = Older(e) BY <2>1 DEF AgedTo
  <2>5. a[x].id = e.id /\ a[x].pos = e.pos /\ a[x].area = e.area BY <2>3, <2>4, OlderEntry
  <2>6. PICK y \in 1..Len(prev_info') : prev_info'[y].id = e.id
    <3>1. \A z \in 1..Len(a) : \E j \in 1..Len(prev_info') : prev_info'[j].id = a[z].id
      BY <2>1 DEF EnteredTo
    <3> QED BY <2>5, <3>1
  <2>7. CASE \E m \in 1..n : found[m].id = e.id BY <2>2, <2>7
  <2>8. CASE \A m \in 1..n : found[m].id # e.id
    <3>1. PICK z \in 1..Len(a) : prev_info'[y] = a[z]
      BY <2>1, <2>6, <2>8 DEF EnteredTo
    <3>2. z = x BY <2>1, <2>5, <2>6, <3>1 DEF AgedTo, OneEach
    <3>3. prev_info'[y].pos = e.pos /\ prev_info'[y].area = e.area BY <2>5, <3>1, <3>2
    <3>4. PICK k \in 1..Len(wmarker_info') :
             wmarker_info'[k] = AsMarker(prev_info'[y]) \/ Near(prev_info'[y], wmarker_info'[k])
      BY <2>1 DEF AddedTo
    <3>5. CASE wmarker_info'[k] = AsMarker(prev_info'[y])
      BY <2>2, <2>6, <3>5 DEF AsMarker
    <3>6. CASE Near(prev_info'[y], wmarker_info'[k])
      <4>1. Near(e, wmarker_info'[k]) BY <3>3, <3>6 DEF Near, Distance
      <4>2. CASE k > squares' BY <2>2, <4>1, <4>2
      <4>3. CASE k <= n
        <5>1. k \in 1..n BY <2>2, <4>3
        <5>2. Near(e, found[k]) BY <2>2, <4>1, <5>1
        <5>3. PICK j \in 1..n : Near(e, found[j]) /\ found[j].cf >= e.cf
          BY <2>1, <5>1, <5>2
        <5> QED BY <2>2, <5>3
      <4> QED BY <2>2, <4>2, <4>3 DEF n
    <3> QED BY <3>4, <3>5, <3>6
  <2> QED BY <2>7, <2>8
<1>2. MarkersPersist <=> [][P]_vars BY PTL DEF MarkersPersist
<1> HIDE DEF P
<1> QED BY InitHInv, NextHInv, <1>1, <1>2, PTL DEF Spec
=============================================================================
