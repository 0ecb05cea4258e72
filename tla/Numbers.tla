------------------------------ MODULE Numbers ------------------------------
(***************************************************************************)
(* Remainders, on which the proofs about 32-bit positions on a ring rest,  *)
(* least elements and sums.                                                *)
(***************************************************************************)
EXTENDS Integers, WellFoundedInduction, TLAPS

\* Euclidean division, as the provers need to be told it.
LEMMA DivMod ==
  ASSUME NEW a \in Nat, NEW n \in Nat \ {0}
  PROVE  /\ a \div n \in Nat /\ a % n \in 0 .. n - 1
         /\ a = n * (a \div n) + (a % n)
  OBVIOUS

\* The remainder is the only one there is.
LEMMA ModUnique ==
  ASSUME NEW n \in Nat \ {0}, NEW q \in Nat, NEW r \in 0 .. n - 1
  PROVE  (n * q + r) % n = r
  OBVIOUS

\* Two numbers less than n apart leave different remainders: distinct
\* live words of the ring never share a cell.
LEMMA ModDiffer ==
  ASSUME NEW n \in Nat \ {0}, NEW a \in Nat, NEW b \in Nat, a < b, b - a < n
  PROVE  a % n # b % n
<1> DEFINE p == a \div n
           q == b \div n
<1>1. /\ p \in Nat /\ q \in Nat
      /\ a = n * p + (a % n) /\ b = n * q + (b % n)
  BY DivMod
<1> SUFFICES ASSUME a % n = b % n PROVE FALSE
  OBVIOUS
<1>2. b - a = n * (q - p)
  BY <1>1
<1> HIDE DEF p, q
<1>3. CASE q - p >= 1
  <2>1. n * (q - p) >= n
    BY <1>3, <1>1
  <2> QED BY <2>1, <1>2
<1>4. CASE q - p <= 0
  <2>1. n * (q - p) <= 0
    BY <1>4, <1>1
  <2> QED BY <2>1, <1>2
<1> QED BY <1>1, <1>3, <1>4

\* Cutting a position to 32 bits first does not change its cell, because the
\* ring divides 2^32.
LEMMA ModMod ==
  ASSUME NEW n \in Nat \ {0}, NEW m \in Nat \ {0}, m % n = 0, NEW a \in Nat
  PROVE  (a % m) % n = a % n
<1> DEFINE f == m \div n
           q == a \div m
           u == a % m
           v == u % n
           s == u \div n
<1>1. m = n * f /\ f \in Nat
  BY DivMod
<1>2. /\ q \in Nat /\ u \in Nat /\ a = m * q + u
  BY DivMod
<1>3. /\ s \in Nat /\ v \in 0 .. n - 1 /\ u = n * s + v
  BY <1>2, DivMod
<1> HIDE DEF f, q, u, v, s
<1>4. a = n * (f * q + s) + v
  BY <1>1, <1>2, <1>3
<1>5. f * q + s \in Nat
  BY <1>1, <1>2, <1>3
<1>6. a % n = v
  BY <1>3, <1>4, <1>5, ModUnique
<1> QED
  BY <1>6 DEF v, u
\* A small number is its own remainder.
LEMMA ModSmall ==
  ASSUME NEW n \in Nat \ {0}, NEW a \in 0..n-1
  PROVE  a % n = a
  OBVIOUS
\* Inside one lap of the ring the cell moves with the position.
LEMMA ModAdd ==
  ASSUME NEW n \in Nat \ {0}, NEW a \in Nat, NEW j \in Nat, (a % n) + j < n
  PROVE  (a + j) % n = (a % n) + j
<1>1. a \div n \in Nat /\ a % n \in 0 .. n - 1 /\ a = n * (a \div n) + (a % n)
  BY DivMod
<1>2. a + j = n * (a \div n) + ((a % n) + j)
  BY <1>1
<1>3. (a % n) + j \in 0 .. n - 1
  BY <1>1
<1> QED BY <1>1, <1>2, <1>3, ModUnique

-----------------------------------------------------------------------------
\* A set of numbers has a least one.
LEMMA LeastExists ==
  ASSUME NEW S \in SUBSET Nat, S # {}
  PROVE  \E x \in S : \A y \in S : x <= y
<1>1. PICK x \in S : \A y \in S : <<y, x>> \notin OpToRel(<, Nat)
  BY NatLessThanWellFounded, WFMin
<1>2. \A y \in S : ~(y < x)
  BY <1>1 DEF OpToRel
<1> QED BY <1>2

\* There is a function of the sums of f.
LEMMA SumExists ==
  ASSUME NEW f, NEW n \in Nat
  PROVE  \E s : s = [m \in 0 .. n |-> IF m = 0 THEN 0 ELSE s[m - 1] + f[m]]
<1> DEFINE Ex(k) == \E s : s = [m \in 0 .. k |-> IF m = 0 THEN 0 ELSE s[m - 1] + f[m]]
           Bad == {k \in Nat : ~Ex(k)}
<1>1. Ex(0)
  <2> DEFINE z == [m \in 0 .. 0 |-> 0]
  <2>1. z = [m \in 0 .. 0 |-> IF m = 0 THEN 0 ELSE z[m - 1] + f[m]]
    OBVIOUS
  <2> QED BY <2>1
<1>2. ASSUME NEW k \in Nat, Ex(k) PROVE Ex(k + 1)
  <2>1. PICK s : s = [m \in 0 .. k |-> IF m = 0 THEN 0 ELSE s[m - 1] + f[m]]
    BY <1>2
  <2> DEFINE z == [m \in 0 .. k + 1 |-> IF m = k + 1 THEN s[k] + f[k + 1] ELSE s[m]]
  <2>2. ASSUME NEW m \in 0 .. k + 1
        PROVE  z[m] = IF m = 0 THEN 0 ELSE z[m - 1] + f[m]
    <3>1. CASE m = k + 1
      <4>1. z[m] = s[k] + f[k + 1] /\ z[m - 1] = s[k]
        BY <3>1
      <4> QED BY <3>1, <4>1
    <3>2. CASE m \in 1 .. k
      <4>1. z[m] = s[m] /\ z[m - 1] = s[m - 1] /\ s[m] = s[m - 1] + f[m]
        BY <2>1, <3>2
      <4> QED BY <3>2, <4>1
    <3>3. CASE m = 0
      BY <2>1, <3>3
    <3> QED BY <3>1, <3>2, <3>3
  <2>3. z = [m \in 0 .. k + 1 |-> z[m]]
    OBVIOUS
  <2> HIDE DEF z
  <2>4. z = [m \in 0 .. k + 1 |-> IF m = 0 THEN 0 ELSE z[m - 1] + f[m]]
    BY <2>2, <2>3
  <2> QED BY <2>4
<1> HIDE DEF Ex
<1>3. CASE Bad # {}
  <2>1. PICK b \in Bad : \A y \in Bad : b <= y
    BY <1>3, LeastExists
  <2>2. b \in Nat /\ ~Ex(b) /\ b # 0
    BY <1>1
  <2>3. b - 1 \in Nat /\ Ex(b - 1)
    BY <2>1, <2>2
  <2> QED BY <1>2, <2>2, <2>3
<1>4. CASE Bad = {}
  BY <1>4 DEF Ex
<1> QED BY <1>3, <1>4

\* s[m] is the sum of the first m of f.
IsSum(s, f, n) == s[0] = 0 /\ \A m \in 1 .. n : s[m] = s[m - 1] + f[m]

\* What holds at the start of a range and from each to the next holds in all of it.
LEMMA CountsUp ==
  ASSUME NEW n \in Nat, NEW S, 0 \in S, \A m \in 0 .. n : m \in S /\ m < n => m + 1 \in S
  PROVE  \A m \in 0 .. n : m \in S
<1> DEFINE Bad == {m \in 0 .. n : m \notin S}
<1>1. CASE Bad # {}
  <2>0. Bad \in SUBSET Nat
    OBVIOUS
  <2>1. PICK b \in Bad : \A y \in Bad : b <= y
    <3> HIDE DEF Bad
    <3> QED BY <1>1, <2>0, LeastExists
  <2>2. b \in 0 .. n /\ b \notin S /\ b # 0
    OBVIOUS
  <2>3. b - 1 \in 0 .. n /\ b - 1 \in S /\ b - 1 < n
    BY <2>1, <2>2
  <2> QED BY <2>2, <2>3
<1>2. CASE Bad = {}
  BY <1>2
<1> QED BY <1>1, <1>2

\* Changing one of the terms changes the sum by as much.
LEMMA SumChange ==
  ASSUME NEW n \in Nat, NEW c \in 1 .. n, NEW f, NEW g, NEW s, NEW z,
         IsSum(s, f, n), IsSum(z, g, n),
         \A m \in 1 .. n : f[m] \in Nat /\ g[m] \in Nat /\ (m # c => g[m] = f[m])
  PROVE  s[n] \in Nat /\ z[n] \in Nat /\ s[n] >= f[c] /\ z[n] = s[n] - f[c] + g[c]
<1> DEFINE Before(m) == s[m] \in Nat /\ z[m] = s[m]
           After(m) == s[m] \in Nat /\ z[m] \in Nat /\ s[m] >= f[c] /\ z[m] = s[m] - f[c] + g[c]
           S == {m \in Nat : IF m < c THEN Before(m) ELSE After(m)}
<1>1. 0 \in S
  BY DEF IsSum
<1>2. ASSUME NEW m \in 0 .. n, m \in S, m < n PROVE m + 1 \in S
  <2>1. /\ m + 1 \in 1 .. n /\ (m + 1) - 1 = m
        /\ s[m + 1] = s[m] + f[m + 1] /\ z[m + 1] = z[m] + g[m + 1]
    <3>1. m + 1 \in 1 .. n /\ (m + 1) - 1 = m
      BY <1>2
    <3> QED BY <3>1 DEF IsSum
  <2>2. f[m + 1] \in Nat /\ g[m + 1] \in Nat /\ (m + 1 # c => g[m + 1] = f[m + 1])
    BY <2>1
  <2>3. CASE m + 1 < c
    <3>1. Before(m)
      BY <1>2, <2>3
    <3> QED BY <2>1, <2>2, <2>3, <3>1
  <2>4. CASE m + 1 = c
    <3>1. Before(m)
      BY <1>2, <2>4
    <3>2. After(m + 1)
      BY <2>1, <2>2, <2>4, <3>1
    <3> QED BY <2>4, <3>2
  <2>5. CASE m >= c
    <3>1. After(m)
      BY <1>2, <2>5
    <3>2. After(m + 1)
      BY <2>1, <2>2, <2>5, <3>1
    <3> QED BY <2>5, <3>2
  <2> QED BY <1>2, <2>3, <2>4, <2>5
<1> HIDE DEF S
<1>3. n \in S
  BY ONLY <1>1, <1>2, n \in Nat, CountsUp
<1> QED BY <1>3 DEF S

LEMMA SumSame ==
  ASSUME NEW n \in Nat, NEW f, NEW g, NEW s, NEW z, IsSum(s, f, n), IsSum(z, g, n),
         \A m \in 1 .. n : g[m] = f[m]
  PROVE  z[n] = s[n]
<1> DEFINE S == {m \in Nat : z[m] = s[m]}
<1>1. 0 \in S
  BY DEF IsSum
<1>2. ASSUME NEW m \in 0 .. n, m \in S, m < n PROVE m + 1 \in S
  <2>1. m + 1 \in 1 .. n /\ (m + 1) - 1 = m
    BY <1>2
  <2> QED BY <1>2, <2>1 DEF IsSum
<1> HIDE DEF S
<1>3. n \in S
  BY ONLY <1>1, <1>2, n \in Nat, CountsUp
<1> QED BY <1>3 DEF S

LEMMA SumOfNone ==
  ASSUME NEW n \in Nat, NEW f, NEW s, IsSum(s, f, n), \A m \in 1 .. n : f[m] = 0
  PROVE  s[n] = 0
<1> DEFINE S == {m \in Nat : s[m] = 0}
<1>1. 0 \in S
  BY DEF IsSum
<1>2. ASSUME NEW m \in 0 .. n, m \in S, m < n PROVE m + 1 \in S
  <2>1. m + 1 \in 1 .. n /\ (m + 1) - 1 = m
    BY <1>2
  <2> QED BY <1>2, <2>1 DEF IsSum
<1> HIDE DEF S
<1>3. n \in S
  BY ONLY <1>1, <1>2, n \in Nat, CountsUp
<1> QED BY <1>3 DEF S
=============================================================================
