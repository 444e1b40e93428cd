---------------------------- MODULE NumberLemmas -----------------------------
(***************************************************************************)
(* Lemmas for what is computed from one number to the next: the least      *)
(* counterexample, which stands for an induction, and the existence of the *)
(* functions that recursive definitions choose.                            *)
(***************************************************************************)
EXTENDS Integers, WellFoundedInduction, TLAPS

\* A set of numbers that is not empty has a least one.
LEMMA LeastNumber ==
  ASSUME NEW T, T \subseteq Nat, T # {}
  PROVE  \E n \in T : \A m \in T : n <= m
<1> DEFINE Less == {ss \in Nat \X Nat : ss[1] < ss[2]}
<1>1. IsWellFoundedOn(Less, Nat)
  BY NatLessThanWellFounded DEF OpToRel
<1> HIDE DEF Less
<1>2. PICK n \in T : \A m \in T : <<m, n>> \notin Less
  BY <1>1, WFMin
<1>3. ASSUME NEW m \in T
      PROVE  n <= m
  <2>1. m \in Nat /\ n \in Nat
    OBVIOUS
  <2>2. m < n => <<m, n>> \in Less
    BY <2>1 DEF Less
  <2>3. QED
    BY <1>2, <2>1, <2>2
<1>4. QED
  BY <1>3

\* The first n values of f begin with a and go on by the function G.
Goes(f, n, a, G) == \A i \in 1 .. n : f[i] = IF i = 1 THEN a ELSE G[<<f[i - 1], i>>]

\* There is such a function.
LEMMA StepByStep ==
  ASSUME NEW X, NEW a \in X, NEW G \in [X \X Nat -> X], NEW n \in Nat
  PROVE  \E f \in [1 .. n -> X] : Goes(f, n, a, G)
<1> DEFINE Wrong == {m \in Nat : ~ \E f \in [1 .. m -> X] : Goes(f, m, a, G)}
<1>1. SUFFICES ASSUME Wrong # {} PROVE FALSE
  OBVIOUS
<1>2. PICK m \in Wrong : \A j \in Wrong : m <= j
  <2>1. Wrong \subseteq Nat
    OBVIOUS
  <2>2. QED
    BY <1>1, <2>1, LeastNumber, Zenon
<1>3. m \in Nat /\ ~ \E f \in [1 .. m -> X] : Goes(f, m, a, G)
  BY <1>2
<1>4. m # 0
  <2>1. ASSUME m = 0 PROVE FALSE
    <3>1. [i \in 1 .. m |-> a] \in [1 .. m -> X]
      OBVIOUS
    <3>2. Goes([i \in 1 .. m |-> a], m, a, G)
      BY <2>1 DEF Goes
    <3>3. QED
      BY <1>3, <3>1, <3>2
  <2>2. QED
    BY <2>1
<1>5. PICK f \in [1 .. m - 1 -> X] : Goes(f, m - 1, a, G)
  <2>1. m - 1 \in Nat /\ ~ m <= m - 1
    BY <1>3, <1>4
  <2>2. m - 1 \notin Wrong
    BY <1>2, <2>1
  <2>3. QED
    BY <2>1, <2>2
<1> DEFINE g == [i \in 1 .. m |-> IF i < m THEN f[i] ELSE IF m = 1 THEN a ELSE G[<<f[m - 1], m>>]]
<1>6. \A i \in 1 .. m - 1 : g[i] = f[i] /\ f[i] \in X
  BY <1>3, <1>5
<1>7. g[m] = (IF m = 1 THEN a ELSE G[<<f[m - 1], m>>])
  BY <1>3, <1>4
<1>8. g[m] \in X
  <2>1. CASE m = 1
    BY <1>7, <2>1
  <2>2. CASE m # 1
    <3>1. m - 1 \in 1 .. m - 1
      BY <1>3, <1>4, <2>2
    <3>2. <<f[m - 1], m>> \in X \X Nat
      BY <1>3, <1>6, <3>1
    <3>3. QED
      BY <1>7, <2>2, <3>2
  <2>3. QED
    BY <2>1, <2>2
<1> HIDE DEF g
<1>9. \A i \in 1 .. m : i = m \/ i \in 1 .. m - 1
  BY <1>3
<1>10. g \in [1 .. m -> X]
  <2>1. \A i \in 1 .. m : g[i] \in X
    BY <1>6, <1>8, <1>9
  <2>2. QED
    BY <2>1 DEF g
<1>11. Goes(g, m, a, G)
  <2>1. SUFFICES ASSUME NEW i \in 1 .. m
                 PROVE  g[i] = IF i = 1 THEN a ELSE G[<<g[i - 1], i>>]
    BY DEF Goes
  <2>2. CASE i = 1
    <3>1. CASE m = 1
      BY <1>7, <2>2, <3>1
    <3>2. CASE m # 1
      <4>1. i \in 1 .. m - 1
        BY <1>3, <1>4, <2>2, <3>2
      <4>2. QED
        BY <1>5, <1>6, <2>2, <4>1 DEF Goes
    <3>3. QED
      BY <3>1, <3>2
  <2>3. CASE i # 1 /\ i \in 1 .. m - 1
    <3>1. i - 1 \in 1 .. m - 1
      BY <1>3, <2>3
    <3>2. QED
      BY <1>5, <1>6, <2>3, <3>1 DEF Goes
  <2>4. CASE i # 1 /\ i = m
    <3>1. m - 1 \in 1 .. m - 1
      BY <1>3, <2>4
    <3>2. QED
      BY <1>6, <1>7, <2>4, <3>1
  <2>5. QED
    BY <1>9, <2>2, <2>3, <2>4
<1>12. QED
  BY <1>3, <1>10, <1>11

\* The quotient and the remainder of a number below a multiple of p, as of an index in a
\* matrix with p columns
LEMMA Division ==
  ASSUME NEW p \in Nat \ {0}, NEW n \in Nat, NEW m \in Nat, n < m * p
  PROVE  \E q \in 0 .. m - 1, r \in 0 .. p - 1 : q = n \div p /\ r = n % p /\ n = q * p + r
<1>1. PICK q \in Nat, r \in Nat : q = n \div p /\ r = n % p
  OBVIOUS
<1>2. r \in 0 .. p - 1
  BY <1>1
<1>3. n = q * p + r
  BY <1>1
<1>4. ASSUME q >= m PROVE FALSE
  <2>1. PICK d \in Nat : q = m + d
    BY <1>4
  <2>2. q * p = m * p + d * p
    BY <2>1
  <2>3. d * p >= 0 /\ m * p \in Int /\ d * p \in Int
    OBVIOUS
  <2>4. r >= 0
    BY <1>2
  <2>5. QED
    BY <1>3, <2>2, <2>3, <2>4
<1>5. q \in 0 .. m - 1
  BY <1>4
<1>6. QED
  BY <1>1, <1>2, <1>3, <1>5, Zenon

\* They are the only ones.
LEMMA Division2 ==
  ASSUME NEW p \in Nat \ {0}, NEW q \in Nat, NEW r \in 0 .. p - 1
  PROVE  (q * p + r) \div p = q /\ (q * p + r) % p = r
OBVIOUS

\* h is the running sum of w, from a: what a recursive definition of it chooses.
Sums(h, n, a, w) ==
  /\ h \in [1 .. n + 1 -> Nat]
  /\ h[1] = a
  /\ \A i \in 1 .. n : h[i + 1] = h[i] + w[i]

\* A recursive definition of the running sum chooses one.
LEMMA RunningSum ==
  ASSUME NEW n \in Nat, NEW a \in Nat, NEW w \in [1 .. n -> Nat],
         NEW h, h = CHOOSE g : g = [i \in 1 .. n + 1 |-> IF i = 1 THEN a ELSE g[i - 1] + w[i - 1]]
  PROVE  Sums(h, n, a, w)
<1> DEFINE G == [xi \in Nat \X Nat |-> IF xi[2] - 1 \in 1 .. n THEN xi[1] + w[xi[2] - 1] ELSE 0]
           F(f) == [i \in 1 .. n + 1 |-> IF i = 1 THEN a ELSE f[i - 1] + w[i - 1]]
<1>1. n + 1 \in Nat
  OBVIOUS
<1>2. G \in [Nat \X Nat -> Nat]
  <2>1. ASSUME NEW xi \in Nat \X Nat, xi[2] - 1 \in 1 .. n
        PROVE  xi[1] + w[xi[2] - 1] \in Nat
    <3>1. PICK b \in Nat, c \in Nat : b = xi[1] /\ c = w[xi[2] - 1]
      BY <2>1
    <3>2. QED
      BY <3>1
  <2>2. QED
    BY <2>1
<1>3. PICK f \in [1 .. n + 1 -> Nat] : Goes(f, n + 1, a, G)
  <2> HIDE DEF G
  <2>1. QED
    BY <1>1, <1>2, StepByStep, Zenon
<1>4. ASSUME NEW i \in 1 .. n + 1, i # 1
      PROVE  G[<<f[i - 1], i>>] = f[i - 1] + w[i - 1]
  <2>1. i - 1 \in 1 .. n + 1 /\ i - 1 \in 1 .. n /\ i \in Nat
    BY <1>4
  <2>2. PICK b \in Nat : b = f[i - 1]
    BY <2>1
  <2>3. G[<<b, i>>] = b + w[i - 1]
    BY <2>1
  <2>4. QED
    BY <2>2, <2>3
<1> HIDE DEF G
<1>5. f = F(f)
  <2>1. \A i \in 1 .. n + 1 : f[i] = IF i = 1 THEN a ELSE G[<<f[i - 1], i>>]
    BY <1>3 DEF Goes
  <2>2. \A i \in 1 .. n + 1 : f[i] = IF i = 1 THEN a ELSE f[i - 1] + w[i - 1]
    BY <1>4, <2>1
  <2>3. f = [i \in 1 .. n + 1 |-> f[i]]
    OBVIOUS
  <2>4. QED
    BY <2>2, <2>3
<1>6. h = F(h)
  <2>1. h = CHOOSE g : g = F(g)
    OBVIOUS
  <2> HIDE DEF F
  <2>2. QED
    BY <1>5, <2>1
<1>7. \A i \in 1 .. n + 1 : h[i] = IF i = 1 THEN a ELSE h[i - 1] + w[i - 1]
  BY <1>6
<1>8. h = [i \in 1 .. n + 1 |-> h[i]]
  <2>1. DOMAIN h = 1 .. n + 1 /\ h = [i \in DOMAIN h |-> h[i]]
    BY <1>6
  <2>2. QED
    BY <2>1
<1> HIDE DEF F
<1> DEFINE Wrong == {i \in 1 .. n + 1 : h[i] \notin Nat}
<1>9. Wrong = {}
  <2>1. SUFFICES ASSUME Wrong # {} PROVE FALSE
    OBVIOUS
  <2>2. PICK i \in Wrong : \A j \in Wrong : i <= j
    <3>1. Wrong \subseteq Nat
      OBVIOUS
    <3>2. QED
      BY <2>1, <3>1, LeastNumber, Zenon
  <2>3. i \in 1 .. n + 1 /\ i # 1
    BY <1>7, <2>2
  <2>4. i - 1 \in 1 .. n /\ i - 1 \in 1 .. n + 1 /\ ~ i <= i - 1
    BY <2>3
  <2>5. h[i - 1] \in Nat /\ w[i - 1] \in Nat
    BY <2>2, <2>4
  <2>6. h[i] = h[i - 1] + w[i - 1]
    BY <1>7, <2>3
  <2>7. QED
    BY <2>2, <2>5, <2>6
<1>10. h \in [1 .. n + 1 -> Nat]
  BY <1>8, <1>9
<1>11. h[1] = a
  <2>1. 1 \in 1 .. n + 1
    OBVIOUS
  <2>2. QED
    BY <1>7, <2>1
<1>12. ASSUME NEW i \in 1 .. n
       PROVE  h[i + 1] = h[i] + w[i]
  <2>1. PICK j \in 1 .. n + 1 : j = i + 1 /\ j # 1 /\ j - 1 = i
    OBVIOUS
  <2>2. h[j] = h[j - 1] + w[j - 1]
    BY <1>7, <2>1
  <2>3. QED
    BY <2>1, <2>2
<1>13. QED
  BY <1>10, <1>11, <1>12 DEF Sums

\* The first n values of f and g are the same.
Agree(f, g, n) == \A i \in 1 .. n : f[i] = g[i]

\* Running sums of sequences that begin alike agree there.
LEMMA SumsAgree ==
  ASSUME NEW n \in Nat, NEW m \in Nat, n <= m, NEW a \in Nat,
         NEW w \in [1 .. n -> Nat], NEW v \in [1 .. m -> Nat], Agree(v, w, n),
         NEW h, Sums(h, n, a, w), NEW g, Sums(g, m, a, v)
  PROVE  Agree(g, h, n + 1)
<1> DEFINE Wrong == {i \in 1 .. n + 1 : g[i] # h[i]}
<1>1. SUFFICES ASSUME Wrong # {} PROVE FALSE
  BY DEF Agree
<1>2. PICK i \in Wrong : \A j \in Wrong : i <= j
  <2>1. Wrong \subseteq Nat
    OBVIOUS
  <2>2. QED
    BY <1>1, <2>1, LeastNumber, Zenon
<1>3. i \in 1 .. n + 1 /\ i # 1 /\ g[i] # h[i]
  BY <1>2 DEF Sums
<1>4. PICK j \in 1 .. n : j + 1 = i /\ j \in 1 .. m /\ j \in 1 .. n + 1 /\ ~ i <= j
  <2>1. i \in 2 .. n + 1
    BY <1>3
  <2>2. i - 1 \in 1 .. n /\ i - 1 + 1 = i /\ i - 1 \in 1 .. m /\ i - 1 \in 1 .. n + 1 /\ ~ i <= i - 1
    BY <2>1
  <2>3. QED
    BY <2>2
<1>5. g[j] = h[j]
  BY <1>2, <1>4
<1>6. g[j + 1] = g[j] + v[j] /\ h[j + 1] = h[j] + w[j]
  BY <1>4 DEF Sums
<1>7. v[j] = w[j]
  BY <1>4 DEF Agree
<1>8. QED
  BY <1>3, <1>4, <1>5, <1>6, <1>7
=============================================================================
