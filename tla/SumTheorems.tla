---------------------------- MODULE SumTheorems -----------------------------
(***************************************************************************)
(* What the proofs need to know of Sum.  The sums are recursive functions, *)
(* so each fact is an induction; it is carried out as the search for a     *)
(* least counterexample (LeastNumber), which the provers can follow.       *)
(***************************************************************************)
EXTENDS Sums, WellFoundedInduction, TLAPS

(* Every nonempty set of natural numbers has a least member. *)
LEMMA LeastNumber ==
  ASSUME NEW T, T \subseteq Nat, T # {}
  PROVE  \E m \in T : \A k \in T : m <= k
<1> DEFINE R == {ss \in Nat \X Nat : ss[1] < ss[2]}
<1>1. IsWellFoundedOn(R, Nat)
  BY NatLessThanWellFounded DEF OpToRel
<1> HIDE DEF R
<1>2. PICK m \in T : \A y \in T : ~(<<y, m>> \in R)
  BY <1>1, WFMin
<1>3. ASSUME NEW k \in T PROVE m <= k
  <2>1. k \in Nat /\ m \in Nat OBVIOUS
  <2>2. ~(<<k, m>> \in R) BY <1>2
  <2>3. ~(k < m) BY <2>1, <2>2 DEF R
  <2> QED BY <2>1, <2>3
<1> QED BY <1>2, <1>3

(* The equation that defines PartialSums, as a predicate. *)
IsPartialSums(s, f, n) == s = [i \in 0..n |-> IF i = 0 THEN 0 ELSE s[i-1] + f[i]]

(* The recursive definition of PartialSums has a solution. *)
LEMMA PartialSumsExist ==
  ASSUME NEW n \in Nat, NEW f
  PROVE  \E s : IsPartialSums(s, f, n)
<1> DEFINE T == {k \in Nat : ~ \E s : IsPartialSums(s, f, k)}
<1>1. SUFFICES ASSUME T # {} PROVE FALSE
  OBVIOUS
<1>2. PICK m \in T : \A k \in T : m <= k
  BY <1>1, LeastNumber
<1>3. m # 0
  <2>1. IsPartialSums([i \in 0..0 |-> 0], f, 0) BY DEF IsPartialSums
  <2> QED BY <2>1, <1>2
<1>4. m-1 \in Nat /\ m - 1 \notin T
  BY <1>2, <1>3
<1>5. PICK s : IsPartialSums(s, f, m-1)
  BY <1>4
<1>6. IsPartialSums([i \in 0..m |-> IF i = m THEN s[m-1] + f[m] ELSE s[i]], f, m)
  <2> DEFINE t == [i \in 0..m |-> IF i = m THEN s[m-1] + f[m] ELSE s[i]]
  <2>1. \A i \in 0..m-1 : s[i] = IF i = 0 THEN 0 ELSE s[i-1] + f[i]
    BY <1>5 DEF IsPartialSums
  <2>2. \A i \in 0..m : t[i] = IF i = 0 THEN 0 ELSE t[i-1] + f[i]
    BY <2>1, <1>2, <1>3
  <2>3. t = [i \in 0..m |-> t[i]]
    OBVIOUS
  <2>4. t = [i \in 0..m |-> IF i = 0 THEN 0 ELSE t[i-1] + f[i]]
    BY <2>2, <2>3
  <2> QED BY <2>4 DEF IsPartialSums
<1> QED BY <1>2, <1>6

(* PartialSums satisfies its recursion equation. *)
LEMMA PartialSumsDef ==
  ASSUME NEW n \in Nat, NEW f
  PROVE  \A i \in 0..n :
           PartialSums(f, n)[i] = IF i = 0 THEN 0 ELSE PartialSums(f, n)[i-1] + f[i]
<1> DEFINE s == PartialSums(f, n)
<1>1. s = CHOOSE x : IsPartialSums(x, f, n)
  BY DEF PartialSums, IsPartialSums
<1>2. IsPartialSums(s, f, n)
  BY <1>1, PartialSumsExist
<1> HIDE DEF s
<1>3. QED BY <1>2 DEF IsPartialSums, s

(* Partial sums of integers are integers. *)
LEMMA PartialSumsType ==
  ASSUME NEW n \in Nat, NEW f \in [1..n -> Int]
  PROVE  \A i \in 0..n : PartialSums(f, n)[i] \in Int
<1> DEFINE s == PartialSums(f, n)
           T == {k \in Nat : k <= n /\ s[k] \notin Int}
<1>1. \A i \in 0..n : s[i] = IF i = 0 THEN 0 ELSE s[i-1] + f[i]
  BY PartialSumsDef
<1> HIDE DEF s
<1>2. SUFFICES ASSUME T # {} PROVE FALSE
  BY DEF s
<1>3. PICK m \in T : \A k \in T : m <= k
  BY <1>2, LeastNumber
<1>4. m # 0
  BY <1>1, <1>3
<1>5. m-1 \in 0..n /\ m \in 1..n /\ m - 1 \notin T
  BY <1>3, <1>4
<1>6. s[m-1] \in Int
  BY <1>5
<1>7. s[m] = s[m-1] + f[m]
  BY <1>1, <1>4, <1>5
<1> QED BY <1>3, <1>5, <1>6, <1>7

(* Partial sums of natural numbers are natural numbers. *)
LEMMA PartialSumsNat ==
  ASSUME NEW n \in Nat, NEW f \in [1..n -> Nat]
  PROVE  \A i \in 0..n : PartialSums(f, n)[i] \in Nat
<1> DEFINE s == PartialSums(f, n)
           T == {k \in Nat : k <= n /\ s[k] \notin Nat}
<1>1. \A i \in 0..n : s[i] = IF i = 0 THEN 0 ELSE s[i-1] + f[i]
  BY PartialSumsDef
<1> HIDE DEF s
<1>2. SUFFICES ASSUME T # {} PROVE FALSE
  BY DEF s
<1>3. PICK m \in T : \A k \in T : m <= k
  BY <1>2, LeastNumber
<1>4. m # 0
  BY <1>1, <1>3
<1>5. m-1 \in 0..n /\ m \in 1..n /\ m - 1 \notin T
  BY <1>3, <1>4
<1>6. s[m-1] \in Nat
  BY <1>5
<1>7. s[m] = s[m-1] + f[m]
  BY <1>1, <1>4, <1>5
<1> QED BY <1>3, <1>5, <1>6, <1>7

(* The sum of natural numbers is one: the totals that the contracts keep. *)
THEOREM SumNat ==
  ASSUME NEW n \in Nat, NEW f \in [1..n -> Nat]
  PROVE  Sum(f, n) \in Nat
BY PartialSumsNat DEF Sum

(* The sum of integers is an integer. *)
THEOREM SumInt ==
  ASSUME NEW n \in Nat, NEW f \in [1..n -> Int]
  PROVE  Sum(f, n) \in Int
BY PartialSumsType DEF Sum

(* The sum of zeros is zero: the totals of the initial state. *)
THEOREM SumZero ==
  ASSUME NEW n \in Nat, NEW f, f = [i \in 1..n |-> 0]
  PROVE  Sum(f, n) = 0
<1> DEFINE s == PartialSums(f, n)
           T == {k \in Nat : k <= n /\ s[k] # 0}
<1>1. \A i \in 0..n : s[i] = IF i = 0 THEN 0 ELSE s[i-1] + f[i]
  BY PartialSumsDef
<1> HIDE DEF s
<1>2. SUFFICES ASSUME T # {} PROVE FALSE
  BY DEF Sum, s
<1>3. PICK m \in T : \A k \in T : m <= k
  BY <1>2, LeastNumber
<1>4. m # 0
  BY <1>1, <1>3
<1>5. m-1 \in 0..n /\ m \in 1..n /\ m - 1 \notin T
  BY <1>3, <1>4
<1>6. s[m-1] = 0
  BY <1>5
<1>7. s[m] = s[m-1] + f[m]
  BY <1>1, <1>4, <1>5
<1> QED BY <1>3, <1>5, <1>6, <1>7

(* Changing one term changes the sum by as much: what a transaction on one *)
(* channel or one buyer does to the totals over all of them.               *)
THEOREM SumUpdate ==
  ASSUME NEW n \in Nat, NEW f \in [1..n -> Int], NEW g \in [1..n -> Int],
         NEW c \in 1..n, \A j \in 1..n : j # c => g[j] = f[j]
  PROVE  Sum(g, n) = Sum(f, n) + g[c] - f[c]
<1> DEFINE s == PartialSums(f, n)
           t == PartialSums(g, n)
           T == {k \in Nat : k <= n /\ t[k] # IF k < c THEN s[k] ELSE s[k] + g[c] - f[c]}
<1>1. \A i \in 0..n : s[i] = IF i = 0 THEN 0 ELSE s[i-1] + f[i]
  BY PartialSumsDef
<1>2. \A i \in 0..n : t[i] = IF i = 0 THEN 0 ELSE t[i-1] + g[i]
  BY PartialSumsDef
<1>3. \A i \in 0..n : s[i] \in Int /\ t[i] \in Int
  BY PartialSumsType
<1> HIDE DEF s, t
<1>4. SUFFICES ASSUME T # {} PROVE FALSE
  BY DEF Sum, s, t
<1>5. PICK m \in T : \A k \in T : m <= k
  BY <1>4, LeastNumber
<1>6. m # 0
  BY <1>1, <1>2, <1>5
<1>7. m-1 \in 0..n /\ m \in 1..n /\ m - 1 \notin T
  BY <1>5, <1>6
<1>8. t[m-1] = IF m-1 < c THEN s[m-1] ELSE s[m-1] + g[c] - f[c]
  BY <1>7
<1> HIDE DEF T
<1>9. /\ s[m] = s[m-1] + f[m]
      /\ t[m] = t[m-1] + g[m]
  <2>1. m \in 0..n
    BY <1>7
  <2>2. s[m] = s[m-1] + f[m]
    BY <1>1, <1>6, <2>1
  <2>3. t[m] = t[m-1] + g[m]
    BY <1>2, <1>6, <2>1
  <2> QED BY <2>2, <2>3
<1>10. g[m] = IF m = c THEN g[c] ELSE f[m]
  BY <1>7
<1>11. t[m] = IF m < c THEN s[m] ELSE s[m] + g[c] - f[c]
  BY <1>3, <1>7, <1>8, <1>9, <1>10
<1> QED BY <1>5, <1>11 DEF T

(* A sum of natural numbers is at least each of its terms: the lock of one *)
(* channel is covered by the total.                                        *)
THEOREM SumMember ==
  ASSUME NEW n \in Nat, NEW f \in [1..n -> Nat], NEW c \in 1..n
  PROVE  f[c] <= Sum(f, n)
<1> DEFINE g == [f EXCEPT ![c] = 0]
<1>1. g \in [1..n -> Nat] /\ f \in [1..n -> Int] /\ g \in [1..n -> Int]
  OBVIOUS
<1>2. g[c] = 0 /\ \A j \in 1..n : j # c => f[j] = g[j]
  OBVIOUS
<1>3. Sum(g, n) \in Nat /\ Sum(f, n) \in Nat
  BY <1>1, SumNat
<1> HIDE DEF g
<1>4. Sum(f, n) = Sum(g, n) + f[c] - g[c]
  BY <1>1, <1>2, SumUpdate
<1> QED BY <1>2, <1>3, <1>4

(* A sum depends on the terms it adds up and on nothing else: on an epoch, *)
(* not on the table that holds it.                                         *)
THEOREM SumSame ==
  ASSUME NEW n \in Nat, NEW f, NEW g, \A j \in 1..n : f[j] = g[j]
  PROVE  Sum(f, n) = Sum(g, n)
<1> DEFINE s == PartialSums(f, n)
           t == PartialSums(g, n)
           T == {k \in Nat : k <= n /\ s[k] # t[k]}
<1>1. \A i \in 0..n : s[i] = IF i = 0 THEN 0 ELSE s[i-1] + f[i]
  BY PartialSumsDef
<1>2. \A i \in 0..n : t[i] = IF i = 0 THEN 0 ELSE t[i-1] + g[i]
  BY PartialSumsDef
<1> HIDE DEF s, t
<1>3. SUFFICES ASSUME T # {} PROVE FALSE
  BY DEF Sum, s, t
<1>4. PICK m \in T : \A k \in T : m <= k
  BY <1>3, LeastNumber
<1>5. m # 0
  BY <1>1, <1>2, <1>4
<1>6. m-1 \in 0..n /\ m \in 0..n /\ m \in 1..n /\ m - 1 \notin T
  BY <1>4, <1>5
<1>7. s[m-1] = t[m-1] /\ f[m] = g[m]
  BY <1>6
<1>8. s[m] = s[m-1] + f[m] /\ t[m] = t[m-1] + g[m]
  BY <1>1, <1>2, <1>5, <1>6
<1> QED BY <1>4, <1>7, <1>8

(* Adding a multiple of one function to another adds that multiple of its  *)
(* sum: what a payout spread over the stake adds to what stakers are owed. *)
THEOREM SumLinear ==
  ASSUME NEW n \in Nat, NEW f \in [1..n -> Int], NEW g \in [1..n -> Int],
         NEW h \in [1..n -> Int], NEW a \in Int, \A j \in 1..n : h[j] = f[j] + a * g[j]
  PROVE  Sum(h, n) = Sum(f, n) + a * Sum(g, n)
<1> DEFINE s == PartialSums(f, n)
           t == PartialSums(g, n)
           u == PartialSums(h, n)
           T == {k \in Nat : k <= n /\ u[k] # s[k] + a * t[k]}
<1>1. \A i \in 0..n : s[i] = IF i = 0 THEN 0 ELSE s[i-1] + f[i]
  BY PartialSumsDef
<1>2. \A i \in 0..n : t[i] = IF i = 0 THEN 0 ELSE t[i-1] + g[i]
  BY PartialSumsDef
<1>3. \A i \in 0..n : u[i] = IF i = 0 THEN 0 ELSE u[i-1] + h[i]
  BY PartialSumsDef
<1>4. \A i \in 0..n : s[i] \in Int /\ t[i] \in Int /\ u[i] \in Int
  BY PartialSumsType
<1> HIDE DEF s, t, u
<1>5. SUFFICES ASSUME T # {} PROVE FALSE
  BY DEF Sum, s, t, u
<1>6. PICK m \in T : \A k \in T : m <= k
  BY <1>5, LeastNumber
<1>7. m # 0
  BY <1>1, <1>2, <1>3, <1>6
<1>8. m-1 \in 0..n /\ m \in 0..n /\ m \in 1..n /\ m - 1 \notin T
  BY <1>6, <1>7
<1>9. u[m-1] = s[m-1] + a * t[m-1] /\ h[m] = f[m] + a * g[m]
  BY <1>8
<1>10. s[m] = s[m-1] + f[m] /\ t[m] = t[m-1] + g[m] /\ u[m] = u[m-1] + h[m]
  BY <1>1, <1>2, <1>3, <1>7, <1>8
<1>11. a * (t[m-1] + g[m]) = a * t[m-1] + a * g[m]
  BY <1>4, <1>8
<1>12. f[m] \in Int /\ g[m] \in Int /\ s[m-1] \in Int /\ a * t[m-1] \in Int /\ a * g[m] \in Int
  BY <1>4, <1>8
<1>13. u[m] = s[m] + a * t[m]
  <2> DEFINE x == a * t[m-1]
             y == a * g[m]
  <2>1. a * t[m] = x + y
    BY <1>10, <1>11
  <2>2. u[m] = (s[m-1] + x) + (f[m] + y) /\ x \in Int /\ y \in Int
    BY <1>9, <1>10, <1>12
  <2> HIDE DEF x, y
  <2> DEFINE v == s[m-1]
             w == f[m]
  <2>3. v \in Int /\ w \in Int
    BY <1>12
  <2> HIDE DEF v, w
  <2>4. (v + x) + (w + y) = (v + w) + (x + y)
    BY <2>2, <2>3
  <2> QED BY <1>10, <2>1, <2>2, <2>4 DEF v, w
<1> QED BY <1>6, <1>13

(* No term larger makes no larger sum. *)
THEOREM SumMonotone ==
  ASSUME NEW n \in Nat, NEW f \in [1..n -> Int], NEW g \in [1..n -> Int],
         \A j \in 1..n : f[j] <= g[j]
  PROVE  Sum(f, n) <= Sum(g, n)
<1> DEFINE h == [j \in 1..n |-> g[j] - f[j]]
           one == 1
<1>1. h \in [1..n -> Nat] /\ h \in [1..n -> Int]
  OBVIOUS
<1>2. Sum(h, n) \in Nat /\ Sum(f, n) \in Int
  BY <1>1, SumNat, SumInt
<1>3. one \in Int /\ \A j \in 1..n : g[j] = f[j] + one * h[j]
  OBVIOUS
<1> HIDE DEF h, one
<1>4. Sum(g, n) = Sum(f, n) + one * Sum(h, n)
  BY <1>1, <1>3, SumLinear
<1>5. one * Sum(h, n) = Sum(h, n)
  BY <1>2 DEF one
<1> QED BY <1>2, <1>4, <1>5
=============================================================================
