------------------------------ MODULE AmountProofs ------------------------------
(* What the digits of an amount come to: the policy engine compares and        *)
(* subtracts decimal strings as the numbers they stand for (PolicyEngine), and *)
(* a word of calldata has one number and a number one word (TransferCore).     *)
EXTENDS PolicyEngine, TransferCore, WellFoundedInduction, SequenceTheorems, TLAPS

-----------------------------------------------------------------------------
(* Induction, over a set of numbers instead of a formula. *)

LEMMA LeastNumber ==
  ASSUME NEW S \in SUBSET Nat, S # {}
  PROVE  \E m \in S : \A k \in S : m <= k
<1> DEFINE R == {p \in Nat \X Nat : p[1] < p[2]}
<1>1. IsWellFoundedOn(R, Nat)
  BY NatLessThanWellFounded DEF OpToRel, IsWellFoundedOn
<1>2. PICK m \in S : \A k \in S : <<k, m>> \notin R
  <2> HIDE DEF R
  <2> QED BY <1>1, WFMin
<1>3. ASSUME NEW k \in S, k < m PROVE FALSE
  <2>1. <<k, m>> \in R
    BY <1>3
  <2> QED BY <1>2, <2>1
<1> QED BY <1>3

\* From the first place of a string to its last.
LEMMA Upward ==
  ASSUME NEW n \in Nat, NEW T,
         n > 0 => 1 \in T,
         \A i \in 1..n : i < n /\ i \in T => i + 1 \in T
  PROVE  \A i \in 1..n : i \in T
<1> DEFINE W == {i \in 1..n : i \notin T}
<1> SUFFICES ASSUME W # {} PROVE FALSE
  OBVIOUS
<1>1. PICK m \in W : \A k \in W : m <= k
  <2>1. W \in SUBSET Nat
    OBVIOUS
  <2> HIDE DEF W
  <2> QED BY <2>1, LeastNumber
<1>2. m \in 2..n
  OBVIOUS
<1>3. m - 1 \in 1..n /\ m - 1 \notin W
  BY <1>1, <1>2
<1> QED BY <1>2, <1>3

\* From the last place of a string to its first.
LEMMA Downward ==
  ASSUME NEW n \in Nat, NEW T,
         n > 0 => n \in T,
         \A i \in 1..n : i < n /\ i + 1 \in T => i \in T
  PROVE  \A i \in 1..n : i \in T
<1> DEFINE U == {i \in 1..n : n + 1 - i \in T}
<1>1. n > 0 => 1 \in U
  OBVIOUS
<1>2. ASSUME NEW i \in 1..n, i < n, i \in U PROVE i + 1 \in U
  <2>1. n - i \in 1..n /\ n - i < n /\ (n - i) + 1 = n + 1 - i /\ n + 1 - (i + 1) = n - i
    BY <1>2
  <2> QED BY <1>2, <2>1
<1>3. \A i \in 1..n : i \in U
  <2> HIDE DEF U
  <2> QED BY <1>1, <1>2, Upward
<1>4. ASSUME NEW i \in 1..n PROVE i \in T
  <2>1. n + 1 - i \in 1..n /\ n + 1 - (n + 1 - i) = i
    OBVIOUS
  <2> QED BY <1>3, <2>1
<1> QED BY <1>4

-----------------------------------------------------------------------------
(* The value of a string. *)

\* v[i] is the value of the first i digits of s.
Values(v, s, base) ==
  /\ v \in [1..Len(s) -> Nat]
  /\ \A i \in 1..Len(s) : v[i] = s[i] + (IF i = 1 THEN 0 ELSE v[i - 1] * base)

LEMMA Product ==
  ASSUME NEW a \in Nat, NEW b \in Nat PROVE a * b \in Nat
OBVIOUS

LEMMA Scaled ==
  ASSUME NEW a \in Nat, NEW b \in Nat, NEW c \in Nat, a <= b
  PROVE  a * c <= b * c
OBVIOUS

LEMMA OneMore ==
  ASSUME NEW a \in Nat, NEW c \in Nat
  PROVE  (a + 1) * c = a * c + c
OBVIOUS

LEMMA ValuesExist ==
  ASSUME NEW s \in Seq(Nat), NEW base \in Nat
  PROVE  \E v : Values(v, s, base)
<1> DEFINE Good(v, n) == /\ v \in [1..n -> Nat]
                         /\ \A i \in 1..n : v[i] = s[i] + (IF i = 1 THEN 0 ELSE v[i - 1] * base)
           N == Len(s)
           T == {n \in 1..N : \E v : Good(v, n)}
<1>1. N \in Nat /\ \A i \in 1..N : s[i] \in Nat
  OBVIOUS
<1> HIDE DEF N
<1>2. N > 0 => 1 \in T
  <2> SUFFICES ASSUME N > 0 PROVE \E v : Good(v, 1)
    BY <1>1
  <2>1. Good([i \in 1..1 |-> s[1]], 1)
    BY <1>1
  <2> QED BY <2>1
<1>3. ASSUME NEW n \in 1..N, n < N, n \in T PROVE n + 1 \in T
  <2>1. PICK v : Good(v, n)
    BY <1>3
  <2> DEFINE x == s[n + 1] + v[n] * base
             w == [i \in 1..(n + 1) |-> IF i = n + 1 THEN x ELSE v[i]]
  <2>2. x \in Nat
    <3>1. v[n] \in Nat /\ s[n + 1] \in Nat
      BY <1>1, <1>3, <2>1
    <3> DEFINE y == v[n] * base
    <3>2. y \in Nat
      BY <3>1, Product
    <3>3. x = s[n + 1] + y
      OBVIOUS
    <3> HIDE DEF x, y
    <3> QED BY <3>1, <3>2, <3>3
  <2> HIDE DEF x
  <2>3. w \in [1..(n + 1) -> Nat]
    BY <1>3, <2>1, <2>2
  <2>4. ASSUME NEW i \in 1..(n + 1)
        PROVE  w[i] = s[i] + (IF i = 1 THEN 0 ELSE w[i - 1] * base)
    <3>1. CASE i = n + 1
      <4>1. w[i] = x /\ w[i - 1] = v[n] /\ i # 1
        BY <1>3, <3>1
      <4> HIDE DEF w
      <4> QED BY <3>1, <4>1 DEF x
    <3>2. CASE i # n + 1
      <4>1. i \in 1..n /\ w[i] = v[i] /\ (i # 1 => w[i - 1] = v[i - 1])
        BY <1>3, <3>2
      <4> HIDE DEF w
      <4> QED BY <2>1, <4>1
    <3> QED BY <3>1, <3>2
  <2> HIDE DEF w
  <2>5. Good(w, n + 1)
    BY <2>3, <2>4
  <2>6. n + 1 \in 1..N
    BY <1>1, <1>3
  <2> HIDE DEF Good
  <2> QED BY <2>5, <2>6
<1>4. \A n \in 1..N : n \in T
  <2> HIDE DEF T
  <2> QED BY <1>1, <1>2, <1>3, Upward
<1>5. CASE N = 0
  <2>1. Good(<<>>, N)
    BY <1>5
  <2> QED BY <2>1 DEF Values, N
<1>6. CASE N # 0
  <2>1. PICK v : Good(v, N)
    <3> HIDE DEF Good
    <3>1. N \in 1..N /\ N \in T
      <4> HIDE DEF T
      <4> QED BY <1>1, <1>4, <1>6
    <3> QED BY <3>1
  <2>2. Values(v, s, base)
    BY <2>1 DEF Values, N
  <2> QED BY <2>2
<1> QED BY <1>5, <1>6

LEMMA ValueIs ==
  ASSUME NEW s \in Seq(Nat), s # <<>>, NEW base \in Nat
  PROVE  \E v : Values(v, s, base) /\ ValueOf(s, base) = v[Len(s)]
<1> DEFINE g == CHOOSE f : f = [i \in 1..Len(s) |->
                                  s[i] + (IF i = 1 THEN 0 ELSE f[i - 1] * base)]
<1>1. ValueOf(s, base) = g[Len(s)]
  BY DEF ValueOf
<1>2. PICK v : Values(v, s, base)
  BY ValuesExist
<1>3. v = [i \in 1..Len(s) |-> s[i] + (IF i = 1 THEN 0 ELSE v[i - 1] * base)]
  BY <1>2 DEF Values
<1>4. g = [i \in 1..Len(s) |-> s[i] + (IF i = 1 THEN 0 ELSE g[i - 1] * base)]
  BY <1>3
<1> HIDE DEF g
<1>5. \A i \in 1..Len(s) : g[i] \in Nat
  <2> DEFINE N == Len(s)
             T == {i \in 1..N : g[i] \in Nat}
  <2>1. N \in Nat /\ \A i \in 1..N : s[i] \in Nat
    OBVIOUS
  <2>2. \A i \in 1..N : g[i] = s[i] + (IF i = 1 THEN 0 ELSE g[i - 1] * base)
    BY <1>4
  <2> HIDE DEF N
  <2>3. N > 0 => 1 \in T
    BY <2>1, <2>2
  <2>4. ASSUME NEW i \in 1..N, i < N, i \in T PROVE i + 1 \in T
    <3>1. i + 1 \in 1..N /\ i + 1 # 1 /\ (i + 1) - 1 = i /\ s[i + 1] \in Nat
      BY <2>1, <2>4
    <3>2. g[i + 1] = s[i + 1] + g[i] * base
      BY <2>2, <3>1
    <3>3. g[i] * base \in Nat
      BY <2>4, Product
    <3> QED BY <3>1, <3>2, <3>3
  <2>5. \A i \in 1..N : i \in T
    <3> HIDE DEF T
    <3> QED BY <2>1, <2>3, <2>4, Upward
  <2> QED BY <2>5 DEF N
<1>6. Values(g, s, base)
  BY <1>4, <1>5 DEF Values
<1> QED BY <1>1, <1>6

LEMMA ValueIsNatural ==
  ASSUME NEW s \in Seq(Nat), s # <<>>, NEW base \in Nat
  PROVE  ValueOf(s, base) \in Nat
<1>1. PICK v : Values(v, s, base) /\ ValueOf(s, base) = v[Len(s)]
  BY ValueIs
<1>2. Len(s) \in 1..Len(s)
  OBVIOUS
<1> QED BY <1>1, <1>2 DEF Values

LEMMA Places ==
  ASSUME NEW S, NEW s \in Seq(S), s # <<>>
  PROVE  Len(s) \in Nat \ {0} /\ \A i \in 1..Len(s) : s[i] \in S
<1>1. Len(s) \in Nat /\ \A i \in 1..Len(s) : s[i] \in S
  OBVIOUS
<1>2. Len(s) # 0
  OBVIOUS
<1> QED BY <1>1, <1>2

\* Zeros in front change nothing.
LEMMA Padding ==
  ASSUME NEW base \in Nat, NEW s \in Seq(Nat), NEW t \in Seq(Nat), s # <<>>,
         NEW k \in Nat, Len(t) = k + Len(s),
         \A i \in 1..k : t[i] = 0,
         \A i \in 1..Len(s) : t[k + i] = s[i]
  PROVE  ValueOf(t, base) = ValueOf(s, base)
<1> DEFINE N == Len(s)
           M == Len(t)
<1>0. N \in Nat \ {0} /\ M = k + N /\ t # <<>>
  OBVIOUS
<1>1. PICK v : Values(v, s, base) /\ ValueOf(s, base) = v[N]
  BY ValueIs
<1>2. PICK w : Values(w, t, base) /\ ValueOf(t, base) = w[M]
  BY <1>0, ValueIs
<1>3. /\ \A i \in 1..N : v[i] = s[i] + (IF i = 1 THEN 0 ELSE v[i - 1] * base)
      /\ \A i \in 1..M : w[i] = t[i] + (IF i = 1 THEN 0 ELSE w[i - 1] * base)
      /\ \A i \in 1..N : t[k + i] = s[i] /\ s[i] \in Nat
  <2>1. \A i \in 1..N : v[i] = s[i] + (IF i = 1 THEN 0 ELSE v[i - 1] * base)
    BY <1>1 DEF Values
  <2>2. \A i \in 1..M : w[i] = t[i] + (IF i = 1 THEN 0 ELSE w[i - 1] * base)
    BY <1>2 DEF Values
  <2>3. \A i \in 1..N : s[i] \in Nat
    BY Places
  <2> QED BY <2>1, <2>2, <2>3
<1> HIDE DEF N, M
<1>4. 0 * base = 0
  OBVIOUS
<1>5. \A i \in 1..k : w[i] = 0
  <2> DEFINE T == {i \in 1..k : w[i] = 0}
  <2>1. k > 0 => 1 \in T
    <3> SUFFICES ASSUME k > 0 PROVE w[1] = 0
      OBVIOUS
    <3>1. 1 \in 1..k /\ 1 \in 1..M /\ t[1] = 0
      BY <1>0
    <3>2. w[1] = t[1] + 0
      BY <1>3, <3>1
    <3> QED BY <3>1, <3>2
  <2>2. ASSUME NEW i \in 1..k, i < k, i \in T PROVE i + 1 \in T
    <3>1. i + 1 \in 1..k /\ i + 1 \in 1..M /\ i + 1 # 1 /\ (i + 1) - 1 = i
      BY <1>0, <2>2
    <3>2. w[i + 1] = t[i + 1] + w[i] * base
      BY <1>3, <3>1
    <3> QED BY <1>4, <2>2, <3>1, <3>2
  <2>3. \A i \in 1..k : i \in T
    <3> HIDE DEF T
    <3> QED BY <2>1, <2>2, Upward
  <2> QED BY <2>3
<1>6. \A i \in 1..N : w[k + i] = v[i]
  <2> DEFINE T == {i \in 1..N : w[k + i] = v[i]}
  <2>1. N > 0 => 1 \in T
    <3>1. k + 1 \in 1..M /\ 1 \in 1..N /\ v[1] = s[1] /\ t[k + 1] = s[1] /\ s[1] \in Nat
      BY <1>0, <1>3
    <3>2. CASE k = 0
      BY <1>3, <3>1, <3>2
    <3>3. CASE k # 0
      <4>1. w[k] = 0 /\ k + 1 # 1 /\ (k + 1) - 1 = k
        BY <1>5, <3>3
      <4>2. w[k + 1] = t[k + 1] + w[k] * base
        BY <1>3, <3>1, <4>1
      <4> QED BY <1>4, <3>1, <4>1, <4>2
    <3> QED BY <3>2, <3>3
  <2>2. ASSUME NEW i \in 1..N, i < N, i \in T PROVE i + 1 \in T
    <3>1. /\ i + 1 \in 1..N /\ i + 1 # 1 /\ (i + 1) - 1 = i
          /\ k + (i + 1) \in 1..M /\ k + (i + 1) # 1 /\ (k + (i + 1)) - 1 = k + i
      BY <1>0, <2>2
    <3>2. v[i + 1] = s[i + 1] + v[i] * base /\ w[k + (i + 1)] = t[k + (i + 1)] + w[k + i] * base
      BY <1>3, <3>1
    <3> QED BY <1>3, <2>2, <3>1, <3>2
  <2>3. \A i \in 1..N : i \in T
    <3> HIDE DEF T
    <3> QED BY <1>0, <2>1, <2>2, Upward
  <2> QED BY <2>3
<1> QED BY <1>0, <1>1, <1>2, <1>6

-----------------------------------------------------------------------------
(* The order of strings. *)

LEMMA FirstDigitDecides ==
  ASSUME NEW base \in Nat, NEW c \in 0..(base - 1), NEW d \in 0..(base - 1),
         NEW p \in Nat, NEW q \in Nat,
         (p = q /\ c < d) \/ p + base <= q
  PROVE  (c + p) + 1 <= d + q
OBVIOUS

LEMMA BeforeIsLess ==
  ASSUME NEW base \in Nat, NEW s \in Seq(0..(base - 1)), NEW t \in Seq(0..(base - 1)),
         Len(s) = Len(t), Before(s, t)
  PROVE  ValueOf(s, base) < ValueOf(t, base)
<1> DEFINE N == Len(s)
<1>0. /\ N \in Nat \ {0} /\ Len(t) = N /\ s # <<>> /\ t # <<>>
      /\ s \in Seq(Nat) /\ t \in Seq(Nat)
      /\ \A i \in 1..N : s[i] \in 0..(base - 1) /\ t[i] \in 0..(base - 1)
  <2>1. Seq(0..(base - 1)) \subseteq Seq(Nat)
    OBVIOUS
  <2>2. PICK a \in 1..N : s[a] < t[a]
    BY DEF Before
  <2>3. N \in Nat \ {0} /\ Len(t) = N
    BY <2>2
  <2>4. s # <<>> /\ t # <<>>
    <3>1. \A q : Len(q) # 0 => q # <<>>
      OBVIOUS
    <3> QED BY <2>3, <3>1
  <2>5. \A i \in 1..N : s[i] \in 0..(base - 1) /\ t[i] \in 0..(base - 1)
    BY <2>3, <2>4, Places
  <2>6. s \in Seq(Nat) /\ t \in Seq(Nat)
    <3> HIDE DEF N
    <3> QED BY <2>1
  <2> QED BY <2>3, <2>4, <2>5, <2>6
<1>1. PICK v : Values(v, s, base) /\ ValueOf(s, base) = v[N]
  BY <1>0, ValueIs
<1>2. PICK w : Values(w, t, base) /\ ValueOf(t, base) = w[N]
  BY <1>0, ValueIs
<1>3. PICK a \in 1..N : s[a] < t[a] /\ \A j \in 1..(a - 1) : s[j] = t[j]
  BY DEF Before
<1>4. /\ \A i \in 1..N : v[i] = s[i] + (IF i = 1 THEN 0 ELSE v[i - 1] * base)
      /\ \A i \in 1..N : w[i] = t[i] + (IF i = 1 THEN 0 ELSE w[i - 1] * base)
      /\ \A i \in 1..N : v[i] \in Nat /\ w[i] \in Nat
  BY <1>0, <1>1, <1>2 DEF Values
<1> HIDE DEF N
<1> DEFINE T == {i \in 1..N : /\ i < a => v[i] = w[i]
                              /\ i >= a => v[i] + 1 <= w[i]}
<1>5. N > 0 => 1 \in T
  BY <1>0, <1>3, <1>4
<1>6. ASSUME NEW i \in 1..N, i < N, i \in T PROVE i + 1 \in T
  <2>1. i + 1 \in 1..N /\ i + 1 # 1 /\ (i + 1) - 1 = i
    BY <1>0, <1>6
  <2>2. v[i + 1] = s[i + 1] + v[i] * base /\ w[i + 1] = t[i + 1] + w[i] * base
    BY <1>4, <2>1
  <2>3. s[i + 1] \in 0..(base - 1) /\ t[i + 1] \in 0..(base - 1)
    BY <1>0, <2>1
  <2>4. v[i] * base \in Nat /\ w[i] * base \in Nat
    BY <1>4, Product
  <2>5. CASE i + 1 < a
    BY <1>3, <1>6, <2>1, <2>2, <2>5
  <2>6. CASE i + 1 = a
    <3>1. v[i] = w[i] /\ s[i + 1] < t[i + 1]
      BY <1>3, <1>6, <2>6
    <3>2. v[i + 1] + 1 <= w[i + 1]
      BY <2>2, <2>3, <2>4, <3>1, FirstDigitDecides
    <3> QED BY <2>1, <2>6, <3>2
  <2>7. CASE i + 1 > a
    <3>1. v[i] + 1 <= w[i]
      BY <1>6, <2>7
    <3>2. (v[i] + 1) * base <= w[i] * base
      <4>1. v[i] + 1 \in Nat /\ w[i] \in Nat
        BY <1>4
      <4> QED BY <3>1, <4>1, Scaled
    <3>3. (v[i] + 1) * base = v[i] * base + base
      BY <1>4, OneMore
    <3>4. v[i] * base + base <= w[i] * base
      BY <3>2, <3>3
    <3>5. v[i + 1] + 1 <= w[i + 1]
      BY <2>2, <2>3, <2>4, <3>4, FirstDigitDecides
    <3> QED BY <2>1, <2>7, <3>5
  <2> QED BY <1>6, <2>5, <2>6, <2>7
<1>7. \A i \in 1..N : i \in T
  <2> HIDE DEF T
  <2> QED BY <1>0, <1>5, <1>6, Upward
<1>8. v[N] + 1 <= w[N] /\ v[N] \in Nat /\ w[N] \in Nat
  BY <1>0, <1>4, <1>7
<1> QED BY <1>1, <1>2, <1>8

LEMMA OneIsBefore ==
  ASSUME NEW s \in Seq(Nat), NEW t \in Seq(Nat), Len(s) = Len(t), s # t
  PROVE  Before(s, t) \/ Before(t, s)
<1> DEFINE D == {i \in 1..Len(s) : s[i] # t[i]}
<1>1. D # {}
  BY SeqEqual
<1>2. PICK a \in D : \A i \in D : a <= i
  <2>1. D \in SUBSET Nat
    OBVIOUS
  <2> HIDE DEF D
  <2> QED BY <1>1, <2>1, LeastNumber
<1>3. /\ a \in 1..Len(s) /\ a \in 1..Len(t) /\ s[a] \in Nat /\ t[a] \in Nat
      /\ s[a] < t[a] \/ t[a] < s[a]
  OBVIOUS
<1>4. \A j \in 1..(a - 1) : s[j] = t[j]
  BY <1>2, <1>3
<1> QED BY <1>3, <1>4 DEF Before

\* The string with zeros in front, up to length n.
Padded(s, n) == [i \in 1..n |-> IF i <= n - Len(s) THEN 0 ELSE s[i - (n - Len(s))]]

LEMMA PaddedIs ==
  ASSUME NEW base \in Nat, base > 0, NEW s \in Seq(0..(base - 1)), s # <<>>,
         NEW n \in Nat, Len(s) <= n
  PROVE  /\ Padded(s, n) \in Seq(0..(base - 1)) /\ Len(Padded(s, n)) = n
         /\ \A i \in 1..n : Padded(s, n)[i] \in 0..(base - 1)
         /\ ValueOf(Padded(s, n), base) = ValueOf(s, base)
<1> DEFINE N == Len(s)
           k == n - N
           p == Padded(s, n)
<1>1. N \in Nat \ {0} /\ k \in Nat /\ n = k + N /\ \A i \in 1..N : s[i] \in 0..(base - 1)
  OBVIOUS
<1>2. p = [i \in 1..n |-> IF i <= k THEN 0 ELSE s[i - k]]
  BY DEF Padded
<1>3. \A i \in 1..n : p[i] \in 0..(base - 1)
  <2> HIDE DEF p, k, N
  <2>1. 0 \in 0..(base - 1)
    OBVIOUS
  <2> TAKE i \in 1..n
  <2>2. CASE i <= k
    BY <1>2, <2>1, <2>2
  <2>3. CASE ~(i <= k)
    <3>1. i - k \in 1..N
      BY <1>1, <2>3
    <3> QED BY <1>1, <1>2, <2>3, <3>1
  <2> QED BY <2>2, <2>3
<1>4. p \in Seq(0..(base - 1)) /\ Len(p) = n
  <2>1. p \in [1..n -> 0..(base - 1)]
    <3> HIDE DEF p
    <3> QED BY <1>2, <1>3
  <2> HIDE DEF p
  <2> QED BY <2>1
<1>5. \A i \in 1..k : p[i] = 0
  <2> HIDE DEF p, k, N
  <2> QED BY <1>1, <1>2
<1>6. \A i \in 1..N : p[k + i] = s[i]
  <2> HIDE DEF p, k, N
  <2> TAKE i \in 1..N
  <2>1. k + i \in 1..n /\ ~(k + i <= k) /\ (k + i) - k = i
    BY <1>1
  <2> QED BY <1>2, <2>1
<1>7. p \in Seq(Nat) /\ s \in Seq(Nat)
  <2>1. Seq(0..(base - 1)) \subseteq Seq(Nat)
    OBVIOUS
  <2> HIDE DEF p
  <2> QED BY <1>4, <2>1
<1>8. ValueOf(p, base) = ValueOf(s, base)
  <2>1. k \in Nat /\ Len(p) = k + Len(s)
    BY <1>1, <1>4
  <2>2. \A i \in 1..Len(s) : p[k + i] = s[i]
    BY <1>6
  <2> HIDE DEF p, k, N
  <2> QED BY <1>5, <1>7, <2>1, <2>2, Padding
<1> HIDE DEF p
<1>9. QED BY <1>3, <1>4, <1>8 DEF p

\* What the policy engine calls canonical.
Strings == {s \in Seq(0..(Base - 1)) : Canonical(s)}

LEMMA StringsAre ==
  ASSUME NEW s \in Strings
  PROVE  /\ s \in Seq(0..(Base - 1)) /\ s \in Seq(Nat) /\ s # <<>>
         /\ Len(s) \in Nat \ {0} /\ \A i \in 1..Len(s) : s[i] \in 0..(Base - 1)
         /\ NumberOf(s) \in Nat
<1>1. Base \in Nat /\ Base > 1
  BY PolicyEngineAssumption
<1>2. s \in Seq(0..(Base - 1)) /\ s # <<>>
  BY DEF Strings, Canonical
<1>3. Seq(0..(Base - 1)) \subseteq Seq(Nat)
  BY <1>1
<1>4. Len(s) \in Nat \ {0} /\ \A i \in 1..Len(s) : s[i] \in 0..(Base - 1)
  BY <1>2, Places
<1>5. NumberOf(s) \in Nat
  BY <1>1, <1>2, <1>3, ValueIsNatural DEF NumberOf
<1> QED BY <1>2, <1>3, <1>4, <1>5

\* A canonical string that is longer is more: its first digit is not a zero.
LEMMA LongerIsMore ==
  ASSUME NEW s \in Strings, NEW t \in Strings, Len(s) < Len(t)
  PROVE  NumberOf(s) < NumberOf(t)
<1> DEFINE n == Len(t)
           p == Padded(s, n)
<1>1. Base \in Nat /\ Base > 1
  BY PolicyEngineAssumption
<1>2. /\ s \in Seq(0..(Base - 1)) /\ s # <<>> /\ Len(s) \in Nat \ {0}
      /\ t \in Seq(0..(Base - 1)) /\ n \in Nat \ {0} /\ \A i \in 1..n : t[i] \in 0..(Base - 1)
  BY StringsAre
<1>3. p \in Seq(0..(Base - 1)) /\ Len(p) = n /\ ValueOf(p, Base) = ValueOf(s, Base)
  <2>1. Base > 0 /\ n \in Nat /\ Len(s) <= n
    BY <1>1, <1>2
  <2> HIDE DEF n
  <2> QED BY <1>1, <1>2, <2>1, PaddedIs
<1>4. p[1] = 0
  BY <1>2 DEF Padded
<1>5. 0 < t[1]
  <2>1. t[1] # 0
    BY <1>2 DEF Strings, Canonical
  <2> QED BY <1>1, <1>2, <2>1
<1> HIDE DEF p
<1>6. Before(p, t)
  <2>1. 1 \in 1..n /\ \A j \in 1..(1 - 1) : p[j] = t[j]
    BY <1>2
  <2> QED BY <1>3, <1>4, <1>5, <2>1 DEF Before
<1>7. ValueOf(p, Base) < ValueOf(t, Base)
  BY <1>1, <1>2, <1>3, <1>6, BeforeIsLess
<1> QED BY <1>3, <1>7 DEF NumberOf

\* compareAtomic is the order of the numbers.
LEMMA AtMostIs ==
  ASSUME NEW s \in Strings, NEW t \in Strings
  PROVE  isAtomicAtMost(s, t) <=> NumberOf(s) <= NumberOf(t)
<1>1. /\ Base \in Nat
      /\ s \in Seq(0..(Base - 1)) /\ t \in Seq(0..(Base - 1))
      /\ s \in Seq(Nat) /\ t \in Seq(Nat) /\ Len(s) \in Nat /\ Len(t) \in Nat
      /\ NumberOf(s) \in Nat /\ NumberOf(t) \in Nat
  BY StringsAre, PolicyEngineAssumption
<1>2. CASE Len(s) < Len(t)
  <2>1. NumberOf(s) < NumberOf(t)
    BY <1>2, LongerIsMore
  <2>2. compareAtomic(s, t) = 1
    BY <1>1, <1>2 DEF compareAtomic
  <2> QED BY <1>1, <2>1, <2>2 DEF isAtomicAtMost
<1>3. CASE Len(s) > Len(t)
  <2>1. NumberOf(t) < NumberOf(s)
    BY <1>1, <1>3, LongerIsMore
  <2>2. compareAtomic(s, t) = 2
    BY <1>1, <1>3 DEF compareAtomic
  <2> QED BY <1>1, <2>1, <2>2 DEF isAtomicAtMost
<1>4. CASE Len(s) = Len(t)
  <2>1. CASE s = t
    <3>1. compareAtomic(s, t) = 0
      BY <1>1, <2>1 DEF compareAtomic
    <3> QED BY <1>1, <2>1, <3>1 DEF isAtomicAtMost
  <2>2. CASE s # t
    <3>1. compareAtomic(s, t) = IF Before(s, t) THEN 1 ELSE 2
      BY <1>1, <1>4, <2>2 DEF compareAtomic
    <3>2. CASE Before(s, t)
      <4>1. NumberOf(s) < NumberOf(t)
        BY <1>1, <1>4, <3>2, BeforeIsLess DEF NumberOf
      <4> QED BY <1>1, <3>1, <3>2, <4>1 DEF isAtomicAtMost
    <3>3. CASE ~Before(s, t)
      <4>1. Before(t, s)
        BY <1>1, <1>4, <2>2, <3>3, OneIsBefore
      <4>2. NumberOf(t) < NumberOf(s)
        BY <1>1, <1>4, <4>1, BeforeIsLess DEF NumberOf
      <4> QED BY <1>1, <3>1, <3>3, <4>2 DEF isAtomicAtMost
    <3> QED BY <3>2, <3>3
  <2> QED BY <2>1, <2>2
<1> QED BY <1>1, <1>2, <1>3, <1>4

-----------------------------------------------------------------------------
(* Subtraction. *)

LEMMA BorrowsAre ==
  ASSUME NEW left \in Seq(Nat), NEW right
  PROVE  \A i \in 1..(Len(left) + 1) :
           Borrows(left, right)[i] =
             IF i > Len(left) THEN 0
             ELSE IF left[i] < RightDigit(left, right, i) + Borrows(left, right)[i + 1]
                  THEN 1 ELSE 0
<1> DEFINE N == Len(left)
           M == N + 1
           Step(i, x) == IF i > N THEN 0
                         ELSE IF left[i] < RightDigit(left, right, i) + x THEN 1 ELSE 0
           Good(f, n) == f \in [1..M -> 0..1] /\ \A i \in n..M : f[i] = Step(i, f[i + 1])
           T == {n \in 1..M : \E f : Good(f, n)}
           g == CHOOSE f : f = [i \in 1..M |-> Step(i, f[i + 1])]
<1>1. N \in Nat /\ M \in Nat
  OBVIOUS
<1>2. \A i, x : Step(i, x) \in 0..1
  OBVIOUS
<1>3. Borrows(left, right) = g
  BY DEF Borrows
<1>4. M > 0 => M \in T
  <2> DEFINE f == [i \in 1..M |-> 0]
  <2>1. f \in [1..M -> 0..1]
    OBVIOUS
  <2>2. ASSUME NEW i \in M..M PROVE f[i] = Step(i, f[i + 1])
    <3>1. i = M /\ i > N /\ i \in 1..M
      BY <1>1
    <3> HIDE DEF M, N
    <3> QED BY <3>1
  <2> HIDE DEF f, Step
  <2>3. Good(f, M)
    BY <2>1, <2>2
  <2>4. M \in 1..M
    BY <1>1
  <2> HIDE DEF Good, M
  <2> QED BY <2>3, <2>4
<1>5. ASSUME NEW n \in 1..M, n < M, n + 1 \in T PROVE n \in T
  <2>1. PICK f : Good(f, n + 1)
    BY <1>5
  <2> HIDE DEF Step, M, N
  <2> DEFINE x == Step(n, f[n + 1])
             h == [i \in 1..M |-> IF i = n THEN x ELSE f[i]]
  <2>2. x \in 0..1
    <3> HIDE DEF x
    <3> QED BY <1>2 DEF x
  <2> HIDE DEF x
  <2>3. h \in [1..M -> 0..1]
    BY <2>1, <2>2
  <2>4. ASSUME NEW i \in n..M PROVE h[i] = Step(i, h[i + 1])
    <3>1. CASE i = n
      <4>1. h[n] = x /\ h[n + 1] = f[n + 1]
        <5>1. n \in 1..M /\ n + 1 \in 1..M /\ n + 1 # n
          BY <1>1, <1>5
        <5> QED BY <5>1
      <4> HIDE DEF h
      <4> QED BY <3>1, <4>1 DEF x
    <3>2. CASE i # n
      <4>1. i \in (n + 1)..M /\ i \in 1..M
        BY <1>1, <3>2
      <4>2. f[i] = Step(i, f[i + 1])
        BY <2>1, <4>1
      <4>3. h[i] = f[i]
        BY <3>2, <4>1
      <4>4. CASE i = M
        <5>1. Step(i, f[i + 1]) = 0 /\ Step(i, h[i + 1]) = 0
          <6>1. i > N
            BY <1>1, <4>4 DEF M
          <6> HIDE DEF h
          <6> QED BY <6>1 DEF Step
        <5> HIDE DEF h
        <5> QED BY <4>2, <4>3, <5>1
      <4>5. CASE i # M
        <5>1. i + 1 \in 1..M /\ i + 1 # n
          BY <1>1, <4>1, <4>5
        <5>2. h[i + 1] = f[i + 1]
          BY <5>1
        <5> HIDE DEF h
        <5> QED BY <4>2, <4>3, <5>2
      <4> QED BY <4>4, <4>5
    <3> QED BY <3>1, <3>2
  <2> HIDE DEF h
  <2>5. Good(h, n)
    BY <2>3, <2>4
  <2> HIDE DEF Good
  <2> QED BY <1>5, <2>5
<1>6. \A n \in 1..M : n \in T
  <2> HIDE DEF T, M
  <2> QED BY <1>1, <1>4, <1>5, Downward
<1>7. g = [i \in 1..M |-> Step(i, g[i + 1])]
  <2>1. PICK f : Good(f, 1)
    <3>1. 1 \in T
      <4>1. 1 \in 1..M
        BY <1>1
      <4> HIDE DEF T, M
      <4> QED BY <1>6, <4>1
    <3> HIDE DEF Good, M
    <3> QED BY <3>1
  <2> HIDE DEF Step, M
  <2>2. f = [i \in 1..M |-> Step(i, f[i + 1])]
    BY <2>1
  <2> QED BY <2>2
<1> HIDE DEF g, Step
<1>8. \A i \in 1..M : g[i] = Step(i, g[i + 1])
  <2> HIDE DEF M
  <2> QED BY <1>7
<1> QED BY <1>3, <1>8 DEF Step

\* One digit: what it borrows keeps the difference a digit.
LEMMA BorrowedDigit ==
  ASSUME NEW B \in Nat, NEW x \in 0..(B - 1), NEW y \in 0..(B - 1), NEW c \in 0..1,
         NEW o, o = IF x < y + c THEN 1 ELSE 0
  PROVE  ((x + B * o) - c) - y \in 0..(B - 1)
<1>1. CASE x < y + c
  <2>1. o = 1 /\ B * o = B
    BY <1>1
  <2>2. (x + B) - c - y \in 0..(B - 1)
    BY <1>1
  <2> QED BY <2>1, <2>2
<1>2. CASE ~(x < y + c)
  <2>1. o = 0 /\ B * o = 0
    BY <1>2
  <2>2. (x + 0) - c - y \in 0..(B - 1)
    BY <1>2
  <2> QED BY <2>1, <2>2
<1> QED BY <1>1, <1>2

\* A borrow from beyond the first digit: left would be the smaller one.
LEMMA BorrowIsLess ==
  ASSUME NEW B \in Nat, NEW x \in 0..(B - 1), NEW y \in 0..(B - 1), NEW c \in 0..1,
         NEW o, o = IF x < y + c THEN 1 ELSE 0,
         NEW p \in Nat, NEW q \in Nat, p < q + o
  PROVE  x + p * B < (y + q * B) + c
<1>1. p * B \in Nat /\ q * B \in Nat
  BY Product
<1>2. CASE x < y + c
  <2>1. o = 1 /\ p <= q
    BY <1>2
  <2>2. p * B <= q * B
    BY <2>1, Scaled
  <2> DEFINE u == p * B
             v == q * B
  <2> SUFFICES x + u < (y + v) + c
    OBVIOUS
  <2>3. u \in Nat /\ v \in Nat /\ u <= v
    BY <1>1, <2>2
  <2> HIDE DEF u, v
  <2> QED BY <1>2, <2>3
<1>3. CASE ~(x < y + c)
  <2>1. o = 0 /\ p + 1 <= q /\ p + 1 \in Nat
    BY <1>3
  <2>2. (p + 1) * B <= q * B
    BY <2>1, Scaled
  <2>3. (p + 1) * B = p * B + B
    BY OneMore
  <2> DEFINE u == p * B
             v == q * B
  <2> SUFFICES x + u < (y + v) + c
    OBVIOUS
  <2>4. u \in Nat /\ v \in Nat /\ u + B <= v
    BY <1>1, <2>2, <2>3
  <2> HIDE DEF u, v
  <2> QED BY <2>4
<1> QED BY <1>2, <1>3

\* What is borrowed is given back one digit to the left: the digits x and y with
\* the difference d, before them p and q with the difference e.
Borrowing(B, x, y, c, o, d, p, q, e) ==
  /\ B \in Nat /\ x \in 0..(B - 1) /\ y \in 0..(B - 1) /\ c \in 0..1 /\ o \in 0..1
  /\ d \in Nat /\ d = ((x + B * o) - c) - y
  /\ p \in Nat /\ q \in Nat /\ e \in Nat /\ (e + q) + o = p

LEMMA BorrowCancels ==
  ASSUME NEW B, NEW x, NEW y, NEW c, NEW o, NEW d, NEW p, NEW q, NEW e,
         Borrowing(B, x, y, c, o, d, p, q, e)
  PROVE  ((d + e * B) + (y + q * B)) + c = x + p * B
<1> USE DEF Borrowing
<1> DEFINE u == e * B
           v == q * B
           w == p * B
           z == B * o
<1>1. u \in Nat /\ v \in Nat /\ w \in Nat /\ z \in Nat
  <2>1. o \in Nat
    OBVIOUS
  <2> QED BY <2>1, Product
<1>2. w = (u + v) + z
  <2>1. o = 0 \/ o = 1
    OBVIOUS
  <2>2. (e + q) * B = u + v
    OBVIOUS
  <2>3. CASE o = 0
    <3>1. z = 0 /\ p = e + q
      BY <2>3
    <3>2. w = (e + q) * B
      BY <3>1
    <3> HIDE DEF u, v, w, z
    <3> QED BY <1>1, <2>2, <3>1, <3>2
  <2>4. CASE o = 1
    <3>1. z = B /\ p = (e + q) + 1 /\ e + q \in Nat
      BY <2>4
    <3>2. w = ((e + q) + 1) * B
      BY <3>1
    <3>3. ((e + q) + 1) * B = (e + q) * B + B
      BY <3>1, OneMore
    <3> HIDE DEF u, v, w, z
    <3> QED BY <1>1, <2>2, <3>1, <3>2, <3>3
  <2> QED BY <2>1, <2>3, <2>4
<1> SUFFICES ((d + u) + (y + v)) + c = x + w
  OBVIOUS
<1>3. d = ((x + z) - c) - y
  OBVIOUS
<1> HIDE DEF u, v, w, z
<1> QED BY <1>1, <1>2, <1>3

\* Two strings of one length, digit by digit.
Subtraction(B, N, l, r, b, d) ==
  /\ l \in Seq(0..(B - 1)) /\ Len(l) = N
  /\ r \in Seq(0..(B - 1)) /\ Len(r) = N
  /\ ValueOf(r, B) <= ValueOf(l, B)
  /\ \A i \in 1..(N + 1) :
       b[i] = IF i > N THEN 0 ELSE IF l[i] < r[i] + b[i + 1] THEN 1 ELSE 0
  /\ d = [i \in 1..N |-> ((l[i] + B * b[i]) - b[i + 1]) - r[i]]

LEMMA Difference ==
  ASSUME NEW B \in Nat, NEW N \in Nat \ {0}, NEW l, NEW r, NEW b, NEW d,
         Subtraction(B, N, l, r, b, d)
  PROVE  /\ d \in Seq(0..(B - 1)) /\ Len(d) = N
         /\ ValueOf(d, B) + ValueOf(r, B) = ValueOf(l, B)
<1>1. /\ l # <<>> /\ r # <<>> /\ l \in Seq(Nat) /\ r \in Seq(Nat)
      /\ Len(l) = N /\ Len(r) = N
      /\ \A i \in 1..N : l[i] \in 0..(B - 1) /\ r[i] \in 0..(B - 1)
  <2>1. Seq(0..(B - 1)) \subseteq Seq(Nat)
    OBVIOUS
  <2>2. l \in Seq(0..(B - 1)) /\ Len(l) = N /\ r \in Seq(0..(B - 1)) /\ Len(r) = N
    BY DEF Subtraction
  <2>3. l # <<>> /\ r # <<>>
    BY <2>2
  <2> QED BY <2>1, <2>2, <2>3, Places
<1>2. PICK v : Values(v, l, B) /\ ValueOf(l, B) = v[N]
  BY <1>1, ValueIs
<1>3. PICK w : Values(w, r, B) /\ ValueOf(r, B) = w[N]
  BY <1>1, ValueIs
<1>4. /\ \A i \in 1..N : v[i] = l[i] + (IF i = 1 THEN 0 ELSE v[i - 1] * B)
      /\ \A i \in 1..N : w[i] = r[i] + (IF i = 1 THEN 0 ELSE w[i - 1] * B)
      /\ \A i \in 1..N : v[i] \in Nat /\ w[i] \in Nat
  BY <1>1, <1>2, <1>3 DEF Values
<1>5. /\ \A i \in 1..(N + 1) : b[i] \in 0..1
      /\ b[N + 1] = 0
      /\ \A i \in 1..N : b[i] = IF l[i] < r[i] + b[i + 1] THEN 1 ELSE 0
      /\ \A i \in 1..N : b[i + 1] \in 0..1
  <2>0. \A i \in 1..(N + 1) :
          b[i] = IF i > N THEN 0 ELSE IF l[i] < r[i] + b[i + 1] THEN 1 ELSE 0
    BY DEF Subtraction
  <2>1. \A i \in 1..(N + 1) : b[i] \in 0..1
    BY <2>0
  <2>2. N + 1 \in 1..(N + 1) /\ \A i \in 1..N : i \in 1..(N + 1) /\ i + 1 \in 1..(N + 1)
    OBVIOUS
  <2>3. b[N + 1] = 0
    BY <2>0, <2>2
  <2>4. \A i \in 1..N : b[i] = IF l[i] < r[i] + b[i + 1] THEN 1 ELSE 0
    BY <2>0, <2>2
  <2> QED BY <2>1, <2>2, <2>3, <2>4
<1>6. d \in Seq(0..(B - 1)) /\ Len(d) = N /\ \A i \in 1..N : d[i] \in 0..(B - 1)
  <2>1. ASSUME NEW i \in 1..N PROVE ((l[i] + B * b[i]) - b[i + 1]) - r[i] \in 0..(B - 1)
    BY <1>1, <1>5, BorrowedDigit
  <2>2. d \in [1..N -> 0..(B - 1)]
    BY <2>1 DEF Subtraction
  <2> QED BY <2>2
<1>7. b[1] = 0
  <2> SUFFICES ASSUME b[1] # 0 PROVE FALSE
    OBVIOUS
  <2> DEFINE T == {i \in 1..N : v[i] < w[i] + b[i + 1]}
  <2>1. N > 0 => 1 \in T
    <3>1. 1 \in 1..N /\ v[1] = l[1] /\ w[1] = r[1]
      BY <1>1, <1>4
    <3>2. l[1] < r[1] + b[1 + 1]
      BY <1>5, <3>1
    <3> QED BY <3>1, <3>2
  <2>2. ASSUME NEW i \in 1..N, i < N, i \in T PROVE i + 1 \in T
    <3>1. i + 1 \in 1..N /\ i + 1 # 1 /\ (i + 1) - 1 = i
      BY <2>2
    <3>2. v[i + 1] = l[i + 1] + v[i] * B /\ w[i + 1] = r[i + 1] + w[i] * B
      BY <1>4, <3>1
    <3>3. /\ l[i + 1] \in 0..(B - 1) /\ r[i + 1] \in 0..(B - 1) /\ b[(i + 1) + 1] \in 0..1
          /\ b[i + 1] = IF l[i + 1] < r[i + 1] + b[(i + 1) + 1] THEN 1 ELSE 0
          /\ v[i] \in Nat /\ w[i] \in Nat
      BY <1>1, <1>4, <1>5, <3>1
    <3>4. v[i] < w[i] + b[i + 1]
      BY <2>2
    <3>5. l[i + 1] + v[i] * B < (r[i + 1] + w[i] * B) + b[(i + 1) + 1]
      BY <3>3, <3>4, BorrowIsLess
    <3> QED BY <3>1, <3>2, <3>5
  <2>3. \A i \in 1..N : i \in T
    <3> HIDE DEF T
    <3> QED BY <2>1, <2>2, Upward
  <2>4. v[N] < w[N] + b[N + 1]
    <3>1. N \in 1..N
      OBVIOUS
    <3> QED BY <2>3, <3>1
  <2>5. ValueOf(r, B) <= ValueOf(l, B)
    BY DEF Subtraction
  <2>6. v[N] \in Nat /\ w[N] \in Nat
    BY <1>4
  <2> QED BY <1>2, <1>3, <1>5, <2>4, <2>5, <2>6
<1>8. PICK e : Values(e, d, B) /\ ValueOf(d, B) = e[N]
  <2>1. d \in Seq(Nat) /\ d # <<>>
    <3>1. Seq(0..(B - 1)) \subseteq Seq(Nat)
      OBVIOUS
    <3>2. \A q : Len(q) = N => q # <<>>
      OBVIOUS
    <3> QED BY <1>6, <3>1, <3>2
  <2> QED BY <1>6, <2>1, ValueIs
<1>9. /\ \A i \in 1..N : e[i] = d[i] + (IF i = 1 THEN 0 ELSE e[i - 1] * B)
      /\ \A i \in 1..N : e[i] \in Nat
  BY <1>6, <1>8 DEF Values
<1>10. \A i \in 1..N : (e[i] + w[i]) + b[i + 1] = v[i]
  <2> DEFINE T == {i \in 1..N : (e[i] + w[i]) + b[i + 1] = v[i]}
  <2>0. \A i \in 1..N : d[i] = ((l[i] + B * b[i]) - b[i + 1]) - r[i]
    BY DEF Subtraction
  <2>1. N > 0 => 1 \in T
    <3>1. /\ 1 \in 1..N /\ v[1] = l[1] /\ w[1] = r[1] /\ e[1] = d[1]
          /\ d[1] = ((l[1] + B * b[1]) - b[1 + 1]) - r[1]
          /\ l[1] \in Nat /\ r[1] \in Nat /\ b[1 + 1] \in Nat
      <4>1. 1 \in 1..N
        OBVIOUS
      <4>2. l[1] \in Nat /\ r[1] \in Nat /\ b[1 + 1] \in Nat /\ d[1] \in Nat
        <5>1. /\ l[1] \in 0..(B - 1) /\ r[1] \in 0..(B - 1) /\ d[1] \in 0..(B - 1)
              /\ b[1 + 1] \in 0..1
          BY <1>1, <1>5, <1>6, <4>1
        <5> QED BY <5>1
      <4>3. v[1] = l[1] + 0 /\ w[1] = r[1] + 0 /\ e[1] = d[1] + 0
        BY <1>4, <1>9, <4>1
      <4> QED BY <2>0, <4>1, <4>2, <4>3
    <3>2. B * b[1] = 0
      BY <1>7
    <3> QED BY <3>1, <3>2
  <2>2. ASSUME NEW i \in 1..N, i < N, i \in T PROVE i + 1 \in T
    <3>1. i + 1 \in 1..N /\ i + 1 # 1 /\ (i + 1) - 1 = i
      BY <2>2
    <3>2. /\ v[i + 1] = l[i + 1] + v[i] * B /\ w[i + 1] = r[i + 1] + w[i] * B
          /\ e[i + 1] = d[i + 1] + e[i] * B
      BY <1>4, <1>9, <3>1
    <3>3. /\ l[i + 1] \in 0..(B - 1) /\ r[i + 1] \in 0..(B - 1) /\ b[(i + 1) + 1] \in 0..1
          /\ b[i + 1] \in 0..1 /\ d[i + 1] \in Nat
          /\ v[i] \in Nat /\ w[i] \in Nat /\ e[i] \in Nat
      <4>1. d[i + 1] \in 0..(B - 1)
        BY <1>6, <3>1
      <4>2. l[i + 1] \in 0..(B - 1) /\ r[i + 1] \in 0..(B - 1)
        BY <1>1, <3>1
      <4>3. b[(i + 1) + 1] \in 0..1 /\ b[i + 1] \in 0..1
        BY <1>5, <3>1
      <4>4. v[i] \in Nat /\ w[i] \in Nat /\ e[i] \in Nat
        BY <1>4, <1>9
      <4>5. d[i + 1] \in Nat
        BY <4>1
      <4> QED BY <4>2, <4>3, <4>4, <4>5
    <3>4. d[i + 1] = ((l[i + 1] + B * b[i + 1]) - b[(i + 1) + 1]) - r[i + 1]
      BY <2>0, <3>1
    <3>5. (e[i] + w[i]) + b[i + 1] = v[i]
      BY <2>2
    <3>6. ((d[i + 1] + e[i] * B) + (r[i + 1] + w[i] * B)) + b[(i + 1) + 1] =
          l[i + 1] + v[i] * B
      <4>1. Borrowing(B, l[i + 1], r[i + 1], b[(i + 1) + 1], b[i + 1], d[i + 1],
                      v[i], w[i], e[i])
        BY <3>3, <3>4, <3>5 DEF Borrowing
      <4> QED BY <4>1, BorrowCancels
    <3> QED BY <3>1, <3>2, <3>6
  <2>3. \A i \in 1..N : i \in T
    <3> HIDE DEF T
    <3> QED BY <2>1, <2>2, Upward
  <2> QED BY <2>3
<1>11. e[N] + w[N] = v[N]
  <2>1. N \in 1..N
    OBVIOUS
  <2>2. (e[N] + w[N]) + b[N + 1] = v[N]
    BY <1>10, <2>1
  <2>3. e[N] \in Nat /\ w[N] \in Nat
    BY <1>4, <1>9, <2>1
  <2> QED BY <1>5, <2>2, <2>3
<1> QED BY <1>2, <1>3, <1>6, <1>8, <1>11

LEMMA StripIs ==
  ASSUME NEW s \in Seq(0..(Base - 1)), s # <<>>
  PROVE  StripZeros(s) \in Strings /\ NumberOf(StripZeros(s)) = NumberOf(s)
<1> DEFINE N == Len(s)
           First(i) == (s[i] # 0 \/ i = N) /\ \A j \in 1..(i - 1) : s[j] = 0
           D == {i \in 1..N : s[i] # 0 \/ i = N}
           a == CHOOSE i \in 1..N : First(i)
           k == a - 1
           z == SubSeq(s, a, N)
<1>1. /\ Base \in Nat /\ N \in Nat \ {0} /\ \A i \in 1..N : s[i] \in 0..(Base - 1)
  BY PolicyEngineAssumption, Places
<1>2. a \in 1..N /\ First(a)
  <2>1. PICK m \in D : \A i \in D : m <= i
    <3>1. D \in SUBSET Nat /\ N \in D
      BY <1>1
    <3> HIDE DEF D
    <3> QED BY <3>1, LeastNumber
  <2>2. First(m)
    <3>1. ASSUME NEW j \in 1..(m - 1) PROVE s[j] = 0
      <4>1. j \in 1..N /\ ~(m <= j)
        BY <1>1
      <4> QED BY <2>1, <4>1
    <3> QED BY <3>1
  <2> HIDE DEF First, N
  <2> QED BY <2>1, <2>2
<1>3. StripZeros(s) = z
  BY DEF StripZeros
<1> HIDE DEF a
<1>4. z \in Seq(0..(Base - 1)) /\ Len(z) = N - k /\ \A i \in 1..(N - k) : z[i] = s[k + i]
  <2>1. a \in Int /\ N \in Int /\ 1 <= a /\ a <= N
    BY <1>1, <1>2
  <2>2. \A i \in a..N : s[i] \in 0..(Base - 1)
    BY <1>1, <2>1
  <2>3. /\ z \in Seq(0..(Base - 1)) /\ Len(z) = (N - a) + 1
        /\ \A i \in 1..((N - a) + 1) : z[i] = s[(a + i) - 1]
    <3> HIDE DEF N
    <3> QED BY <2>1, <2>2, SubSeqProperties
  <2>4. N - k = (N - a) + 1 /\ \A i \in 1..(N - k) : (a + i) - 1 = k + i
    BY <2>1
  <2> HIDE DEF z, k, N
  <2> QED BY <2>3, <2>4
<1>5. k \in Nat /\ Len(z) \in Nat \ {0} /\ N = k + Len(z)
  BY <1>1, <1>2, <1>4
<1>6. z # <<>> /\ z[1] = s[a]
  <2>1. 1 \in 1..(N - k) /\ k + 1 = a
    BY <1>1, <1>2
  <2> HIDE DEF z, k, N
  <2>2. z[1] = s[a]
    BY <1>4, <2>1
  <2>3. \A q : Len(q) # 0 => q # <<>>
    OBVIOUS
  <2> QED BY <1>5, <2>2, <2>3
<1>7. z[1] = 0 => Len(z) = 1
  <2> SUFFICES ASSUME s[a] = 0 PROVE Len(z) = 1
    BY <1>6
  <2>1. a = N
    BY <1>2
  <2> QED BY <1>1, <1>4, <2>1
<1>8. ValueOf(s, Base) = ValueOf(z, Base)
  <2>1. Seq(0..(Base - 1)) \subseteq Seq(Nat)
    BY <1>1
  <2>2. z \in Seq(Nat) /\ s \in Seq(Nat)
    <3> HIDE DEF z
    <3> QED BY <1>4, <2>1
  <2>3. \A i \in 1..k : s[i] = 0
    BY <1>2
  <2>4. \A i \in 1..Len(z) : s[k + i] = z[i]
    <3> HIDE DEF z, k, N
    <3>1. Len(z) = N - k
      BY <1>4
    <3> QED BY <1>4, <3>1
  <2>5. Len(s) = k + Len(z)
    BY <1>5
  <2> HIDE DEF z, k, N
  <2> QED BY <1>1, <1>5, <1>6, <2>2, <2>3, <2>4, <2>5, Padding
<1>9. z \in Strings
  <2> HIDE DEF z, k, N
  <2> QED BY <1>4, <1>6, <1>7 DEF Strings, Canonical
<1> HIDE DEF z
<1> QED BY <1>3, <1>8, <1>9 DEF NumberOf

LEMMA ZeroIs == << 0 >> \in Strings /\ NumberOf(<< 0 >>) = 0
<1> DEFINE z == << 0 >>
<1>1. Base \in Nat /\ Base > 1
  BY PolicyEngineAssumption
<1>2. Len(z) = 1 /\ z[1] = 0 /\ z # <<>>
  OBVIOUS
<1>3. z \in Seq(Nat) /\ z \in Seq(0..(Base - 1))
  BY <1>1
<1> HIDE DEF z
<1>4. PICK v : Values(v, z, Base) /\ ValueOf(z, Base) = v[Len(z)]
  BY <1>1, <1>2, <1>3, ValueIs
<1>5. v[1] = 0
  <2>1. 1 \in 1..Len(z)
    BY <1>2
  <2> QED BY <1>2, <1>4, <2>1 DEF Values
<1>6. z \in Strings
  BY <1>2, <1>3 DEF Strings, Canonical
<1> QED BY <1>2, <1>4, <1>5, <1>6 DEF NumberOf, z

\* subtractAtomic is the subtraction of the numbers, zero where it would be less.
LEMMA SubtractIs ==
  ASSUME NEW left \in Strings, NEW right \in Strings
  PROVE  /\ subtractAtomic(left, right) \in Strings
         /\ NumberOf(subtractAtomic(left, right)) =
              IF NumberOf(right) <= NumberOf(left)
              THEN NumberOf(left) - NumberOf(right) ELSE 0
<1> DEFINE N == Len(left)
           r == Padded(right, N)
           b == Borrows(left, right)
           d == [i \in 1..N |-> ((left[i] + Base * b[i]) - b[i + 1]) - r[i]]
           D == [i \in 1..N |->
                   ((left[i] + Base * b[i]) - b[i + 1]) - RightDigit(left, right, i)]
<1>1. /\ Base \in Nat /\ Base > 1 /\ Base > 0
      /\ left \in Seq(0..(Base - 1)) /\ left \in Seq(Nat) /\ N \in Nat \ {0}
      /\ right \in Seq(0..(Base - 1)) /\ right # <<>> /\ Len(right) \in Nat
      /\ NumberOf(left) \in Nat /\ NumberOf(right) \in Nat
  BY StringsAre, PolicyEngineAssumption
<1>2. CASE ~isAtomicAtMost(right, left)
  <2>1. subtractAtomic(left, right) = << 0 >>
    BY <1>2 DEF subtractAtomic
  <2>2. ~(NumberOf(right) <= NumberOf(left))
    BY <1>2, AtMostIs
  <2> QED BY <2>1, <2>2, ZeroIs
<1>3. CASE isAtomicAtMost(right, left)
  <2>1. NumberOf(right) <= NumberOf(left)
    BY <1>3, AtMostIs
  <2>2. Len(right) <= N
    <3> SUFFICES ASSUME N < Len(right) PROVE FALSE
      BY <1>1
    <3>1. NumberOf(left) < NumberOf(right)
      BY LongerIsMore
    <3> QED BY <1>1, <2>1, <3>1
  <2>3. r \in Seq(0..(Base - 1)) /\ Len(r) = N /\ ValueOf(r, Base) = ValueOf(right, Base)
    <3>1. N \in Nat
      BY <1>1
    <3> HIDE DEF N
    <3> QED BY <1>1, <2>2, <3>1, PaddedIs
  <2>4. ASSUME NEW i \in 1..N PROVE RightDigit(left, right, i) = r[i]
    <3>1. r[i] = IF i <= N - Len(right) THEN 0 ELSE right[i - (N - Len(right))]
      BY DEF Padded
    <3>2. RightDigit(left, right, i) =
            IF i - (N - Len(right)) >= 1 THEN right[i - (N - Len(right))] ELSE 0
      BY DEF RightDigit
    <3> HIDE DEF r
    <3>3. i - (N - Len(right)) >= 1 <=> ~(i <= N - Len(right))
      BY <1>1
    <3> HIDE DEF N
    <3> QED BY <3>1, <3>2, <3>3
  <2>5. \A i \in 1..(N + 1) :
          b[i] = IF i > N THEN 0 ELSE IF left[i] < r[i] + b[i + 1] THEN 1 ELSE 0
    <3>1. \A i \in 1..(N + 1) :
            b[i] = IF i > N THEN 0
                   ELSE IF left[i] < RightDigit(left, right, i) + b[i + 1] THEN 1 ELSE 0
      BY <1>1, BorrowsAre
    <3>2. \A i \in 1..(N + 1) : i > N \/ i \in 1..N
      BY <1>1
    <3> HIDE DEF b, r, N
    <3> QED BY <2>4, <3>1, <3>2
  <2>6. Subtraction(Base, N, left, r, b, d)
    <3>1. ValueOf(r, Base) <= ValueOf(left, Base)
      BY <2>1, <2>3 DEF NumberOf
    <3>2. Len(left) = N /\ d = [i \in 1..N |-> ((left[i] + Base * b[i]) - b[i + 1]) - r[i]]
      OBVIOUS
    <3> HIDE DEF b, r, N, d
    <3> QED BY <1>1, <2>3, <2>5, <3>1, <3>2 DEF Subtraction
  <2>7. D = d
    <3> HIDE DEF b, r, N
    <3> QED BY <2>4
  <2>8. subtractAtomic(left, right) = StripZeros(D)
    <3>1. subtractAtomic(left, right) = IF ~isAtomicAtMost(right, left) THEN << 0 >> ELSE StripZeros(D)
      BY Zenon DEF subtractAtomic
    <3> HIDE DEF D
    <3> QED BY <1>3, <3>1
  <2> HIDE DEF b, r, N, d, D
  <2>9. /\ d \in Seq(0..(Base - 1)) /\ Len(d) = N
        /\ ValueOf(d, Base) + ValueOf(r, Base) = ValueOf(left, Base)
    BY <1>1, <2>6, Difference
  <2>10. d # <<>>
    <3>1. \A q : Len(q) # 0 => q # <<>>
      OBVIOUS
    <3> QED BY <1>1, <2>9, <3>1
  <2>11. /\ StripZeros(d) \in Strings
         /\ NumberOf(StripZeros(d)) = NumberOf(d)
    BY <2>9, <2>10, StripIs
  <2>12. NumberOf(d) + NumberOf(right) = NumberOf(left) /\ NumberOf(d) \in Nat
    <3>1. NumberOf(StripZeros(d)) \in Nat
      BY <2>11, StringsAre
    <3> QED BY <2>3, <2>9, <2>11, <3>1 DEF NumberOf
  <2>13. NumberOf(d) = NumberOf(left) - NumberOf(right)
    BY <1>1, <2>12
  <2> QED BY <2>1, <2>7, <2>8, <2>11, <2>13
<1> QED BY <1>2, <1>3

-----------------------------------------------------------------------------
(* PolicyEngine: what an allowed decision rests on.                            *)

\* What the schemas make of a policy, an intent and a context.
PolicyTypeOK ==
  /\ policy.window \in [from : Nat, until : Nat]
  /\ canonicalIntent.window \in [from : Nat, until : Nat]
  /\ context.at \in Nat
  /\ policy.mode \in {"read-only", "review-required", "autonomous-within-policy"}
  /\ \A f \in Facts : canonicalIntent[f] \in BOOLEAN

\* No rule of evaluateRules fails: the facts that the rules are about.
LEMMA RulesHold ==
  ASSUME PolicyTypeOK, FailedRules = {}
  PROVE  /\ policy.status = "active"
         /\ isWithinWindow(context.at, policy.window)
         /\ isWithinWindow(context.at, canonicalIntent.window)
         /\ Transfer => \A f \in Facts : canonicalIntent[f]
         /\ Transfer => policy.mode # "read-only"
<1>1. /\ policy.status = "active"
      /\ isWithinWindow(context.at, policy.window)
      /\ isWithinWindow(context.at, canonicalIntent.window)
      /\ Transfer => policy.mode # "read-only"
  BY DEF FailedRules
<1>2. /\ canonicalIntent.agentMatches /\ canonicalIntent.walletMatches
      /\ canonicalIntent.chainAllowed
      /\ Transfer => canonicalIntent.assetAllowed /\ canonicalIntent.recipientAllowed
      /\ Transfer => canonicalIntent.assetIsBudget
  BY DEF FailedRules
<1> QED
  BY <1>1, <1>2 DEF Facts

\* One evaluation, of any policy for any intent at any time.
LEMMA EvaluationInForce ==
  ASSUME PolicyTypeOK, EvaluatePolicy
  PROVE  PolicyTypeOK' /\ AllowedOnlyInForce'
<1>1. UNCHANGED <<policy, canonicalIntent, context>>
  BY DEF EvaluatePolicy
<1>2. PolicyTypeOK' /\ Transfer' = Transfer
  BY <1>1 DEF PolicyTypeOK, Transfer
<1>3. ASSUME decision' \in {"ALLOW_AUTONOMOUS", "REQUIRE_APPROVAL", "ALLOW_READ"}
      PROVE  /\ FailedRules = {}
             /\ decision' = "ALLOW_AUTONOMOUS" => Transfer /\ policy.mode # "review-required"
  <2>1. ~WellFormed \/ FailedRules # {} => decision' = "DENY"
    BY DEF EvaluatePolicy
  <2>2. WellFormed /\ FailedRules = {} /\ ~Transfer => decision' = "ALLOW_READ"
    BY DEF EvaluatePolicy
  <2>3. WellFormed /\ FailedRules = {} /\ Transfer /\ policy.mode = "review-required"
          => decision' = "REQUIRE_APPROVAL"
    BY DEF EvaluatePolicy
  <2> QED
    BY <1>3, <2>1, <2>2, <2>3
<1>4. \A window \in [from : Nat, until : Nat] :
        isWithinWindow(context.at, window) => context.at \in window.from..(window.until - 1)
  BY DEF isWithinWindow, PolicyTypeOK
<1>5. ASSUME decision' \in {"ALLOW_AUTONOMOUS", "REQUIRE_APPROVAL", "ALLOW_READ"}
      PROVE  /\ policy.status = "active"
             /\ context.at \in policy.window.from..(policy.window.until - 1)
             /\ context.at \in canonicalIntent.window.from..(canonicalIntent.window.until - 1)
             /\ Transfer => \A f \in Facts : canonicalIntent[f]
             /\ decision' = "ALLOW_AUTONOMOUS" => policy.mode = "autonomous-within-policy"
  BY <1>3, <1>4, <1>5, RulesHold DEF PolicyTypeOK
<1> QED
  BY <1>1, <1>2, <1>5 DEF AllowedOnlyInForce

LEMMA PolicyInitTyped == PolicyInit => PolicyTypeOK /\ decision = "NONE"
<1> SUFFICES ASSUME PolicyInit PROVE PolicyTypeOK /\ decision = "NONE"
  OBVIOUS
<1>1. PICK p \in Policies, i \in Intents :
        \E amount, perTransaction, total \in Positive, spent \in LimitAmounts :
          /\ policy = [f \in DOMAIN p \union {"perTransaction", "total"} |->
                         IF f = "total" THEN total
                         ELSE IF f = "perTransaction" THEN perTransaction ELSE p[f]]
          /\ canonicalIntent = [f \in DOMAIN i \union {"amount"} |->
                         IF f = "amount" THEN amount ELSE i[f]]
          /\ context = [at |-> 3, spent |-> spent, budgetGrade |-> 2, recipientGrade |-> 2]
          /\ decision = "NONE"
  BY DEF PolicyInit
<1>2. /\ {"window", "mode"} \subseteq DOMAIN p
      /\ p.window \in [from : Nat, until : Nat]
      /\ p.mode \in {"read-only", "review-required", "autonomous-within-policy"}
  BY DEF Policies, GoodPolicy
<1>3. /\ {"window"} \union Facts \subseteq DOMAIN i
      /\ i.window \in [from : Nat, until : Nat]
      /\ \A f \in Facts : i[f] \in BOOLEAN
  <2>1. /\ {"window"} \union Facts \subseteq DOMAIN GoodIntent
        /\ "window" \notin Facts /\ "action" \notin Facts
        /\ GoodIntent.window \in [from : Nat, until : Nat]
        /\ \A f \in Facts : GoodIntent[f] \in BOOLEAN
    BY DEF GoodIntent, Facts
  <2>2. "maxFee" \notin Facts /\ "maxFee" # "window" /\ "action" # "window"
    BY DEF Facts
  <2> DEFINE Typed(j) == /\ {"window"} \union Facts \subseteq DOMAIN j
                         /\ j["window"] \in [from : Nat, until : Nat]
                         /\ \A f \in Facts : j[f] \in BOOLEAN
  <2>3. ASSUME NEW j, Typed(j), NEW k, NEW v,
               k \in Facts => v \in BOOLEAN,
               k = "window" => v \in [from : Nat, until : Nat]
        PROVE  Typed([j EXCEPT ![k] = v])
    BY <2>3
  <2>4. Typed(GoodIntent)
    BY <2>1
  <2> HIDE DEF Typed
  <2>5. \A f \in Facts : Typed([GoodIntent EXCEPT ![f] = FALSE])
    BY <2>1, <2>3, <2>4
  <2>6. ASSUME NEW f \in Facts
        PROVE  Typed([GoodIntent EXCEPT !["action"] = "wallet.read_state", ![f] = FALSE])
    <3>1. Typed([GoodIntent EXCEPT !["action"] = "wallet.read_state"])
      BY <2>1, <2>2, <2>3, <2>4
    <3> QED
      BY <2>1, <2>3, <3>1
  <2>7. \A w \in [from : {0, 3, 4}, until : {3, 4}] :
          Typed([GoodIntent EXCEPT !["window"] = w])
    BY <2>1, <2>3, <2>4
  <2>8. \A fee \in LimitAmounts : Typed([GoodIntent EXCEPT !["maxFee"] = fee])
    BY <2>2, <2>3, <2>4
  <2>9. Typed(i)
    <3> DEFINE A == {[GoodIntent EXCEPT ![f] = FALSE] : f \in Facts}
               B == {[GoodIntent EXCEPT !.action = "wallet.read_state", ![f] = FALSE] :
                       f \in Facts}
               C == {[GoodIntent EXCEPT !.window = w] : w \in [from : {0, 3, 4}, until : {3, 4}]}
               D == {[GoodIntent EXCEPT !.maxFee = fee] : fee \in LimitAmounts}
    <3>1. i \in {GoodIntent} \union A \union B \union C \union D
      BY Zenon DEF Intents
    <3>2. i \in A => Typed(i)
      BY <2>5
    <3>3. i \in B => Typed(i)
      BY <2>6, Zenon
    <3>4. i \in C => Typed(i)
      BY <2>7
    <3>5. i \in D => Typed(i)
      BY <2>8
    <3> HIDE DEF A, B, C, D
    <3> QED
      BY <2>4, <3>1, <3>2, <3>3, <3>4, <3>5
  <2> QED
    BY <2>9 DEF Typed
<1>4. /\ policy.window = p.window /\ policy.mode = p.mode
      /\ canonicalIntent.window = i.window /\ context.at = 3 /\ decision = "NONE"
      /\ \A f \in Facts : canonicalIntent[f] = i[f]
  BY <1>1, <1>2, <1>3 DEF Facts
<1> QED
  BY <1>2, <1>3, <1>4 DEF PolicyTypeOK

-----------------------------------------------------------------------------
(* PolicyEngine: the decision and the numbers. *)

\* What every evaluation is given: strings that the schemas accept, the limits and
\* the amount not zero, and the caller's time and grades of PolicyInit.
PolicyAmounts ==
  /\ canonicalIntent.amount \in Strings \ {<< 0 >>}
  /\ policy.perTransaction \in Strings \ {<< 0 >>}
  /\ policy.total \in Strings \ {<< 0 >>}
  /\ context.spent \in Strings
  /\ context.at = 3 /\ context.budgetGrade = 2 /\ context.recipientGrade = 2

LEMMA PositiveIsMore ==
  ASSUME NEW s \in Strings, s # << 0 >>
  PROVE  NumberOf(s) > 0
<1> DEFINE zero == << 0 >>
<1>1. zero \in Strings /\ NumberOf(zero) = 0 /\ Len(zero) = 1 /\ zero[1] = 0 /\ s # zero
  BY ZeroIs
<1>2. s \in Seq(Nat) /\ Len(s) \in Nat \ {0} /\ NumberOf(s) \in Nat
  BY StringsAre
<1> HIDE DEF zero
<1>3. ~isAtomicAtMost(s, zero)
  <2>1. CASE Len(s) > 1
    <3>1. compareAtomic(s, zero) = 2
      BY <1>1, <1>2, <2>1 DEF compareAtomic
    <3> QED BY <3>1 DEF isAtomicAtMost
  <2>2. CASE Len(s) = 1
    <3>1. s[1] \in Nat
      <4>1. 1 \in 1..Len(s)
        BY <2>2
      <4>2. s[1] \in 0..(Base - 1)
        BY <4>1, StringsAre
      <4> QED BY <4>2, PolicyEngineAssumption
    <3>2. ~Before(s, zero)
      <4>1. \A i \in 1..Len(s) : i = 1
        BY <2>2
      <4> QED BY <1>1, <3>1, <4>1 DEF Before
    <3>3. compareAtomic(s, zero) = 2
      BY <1>1, <2>2, <3>2 DEF compareAtomic
    <3> QED BY <3>3 DEF isAtomicAtMost
  <2>3. Len(s) > 1 \/ Len(s) = 1
    <3>1. \A n \in Nat \ {0} : n > 1 \/ n = 1
      OBVIOUS
    <3>2. Len(s) \in Nat \ {0}
      BY <1>2
    <3> QED BY <3>1, <3>2, Zenon
  <2> QED BY <2>1, <2>2, <2>3
<1> QED BY <1>1, <1>2, <1>3, AtMostIs

\* The two rules about amounts are the limits in numbers.
LEMMA LimitsAreNumbers ==
  ASSUME PolicyAmounts
  PROVE  WithinLimits <=>
           /\ isAtomicAtMost(canonicalIntent.amount, policy.perTransaction)
           /\ isAtomicAtMost(canonicalIntent.amount,
                             subtractAtomic(policy.total, context.spent))
<1> DEFINE a == canonicalIntent.amount
           t == policy.total
           s == context.spent
           r == subtractAtomic(t, s)
<1>1. /\ a \in Strings /\ a # << 0 >> /\ t \in Strings /\ s \in Strings
      /\ policy.perTransaction \in Strings
  BY DEF PolicyAmounts
<1>2. /\ r \in Strings
      /\ NumberOf(r) = IF NumberOf(s) <= NumberOf(t) THEN NumberOf(t) - NumberOf(s) ELSE 0
  <2> HIDE DEF t, s
  <2> QED BY <1>1, SubtractIs
<1>3. NumberOf(a) \in Nat /\ NumberOf(a) > 0 /\ NumberOf(t) \in Nat /\ NumberOf(s) \in Nat
  <2> HIDE DEF a, t, s
  <2> QED BY <1>1, StringsAre, PositiveIsMore
<1>4. isAtomicAtMost(a, policy.perTransaction) <=> NumberOf(a) <= NumberOf(policy.perTransaction)
  <2> HIDE DEF a
  <2> QED BY <1>1, AtMostIs
<1>5. isAtomicAtMost(a, r) <=> NumberOf(a) <= NumberOf(r)
  <2> HIDE DEF a, r
  <2> QED BY <1>1, <1>2, AtMostIs
<1>6. NumberOf(a) <= NumberOf(r) <=> NumberOf(s) + NumberOf(a) <= NumberOf(t)
  <2> HIDE DEF a, r, s, t
  <2>1. CASE NumberOf(s) <= NumberOf(t)
    BY <1>2, <1>3, <2>1
  <2>2. CASE ~(NumberOf(s) <= NumberOf(t))
    BY <1>2, <1>3, <2>2
  <2> QED BY <2>1, <2>2
<1> QED BY <1>4, <1>5, <1>6 DEF WithinLimits

\* With every other fact in order, no rule fails within the limits.
LEMMA FittingIsAllowed ==
  ASSUME PolicyAmounts, WithinLimits,
         \A f \in DOMAIN GoodIntent : canonicalIntent[f] = GoodIntent[f],
         \A f \in DOMAIN GoodPolicy : policy[f] = GoodPolicy[f]
  PROVE  WellFormed /\ FailedRules = {}
<1>1. /\ canonicalIntent.agentMatches /\ canonicalIntent.walletMatches
      /\ canonicalIntent.chainAllowed /\ canonicalIntent.assetAllowed
      /\ canonicalIntent.recipientAllowed /\ canonicalIntent.assetIsBudget
      /\ canonicalIntent.action = "asset.transfer"
      /\ canonicalIntent.window = [from |-> 2, until |-> 5]
      /\ canonicalIntent.maxFee = Usual.fee
  BY DEF GoodIntent
<1>2. /\ policy.status = "active" /\ policy.window = [from |-> 1, until |-> 9]
      /\ policy.actions = {"asset.transfer", "wallet.read_state"}
      /\ policy.mode = "autonomous-within-policy" /\ policy.feeLimit = Usual.fee
      /\ policy.budgetGrade = 2 /\ policy.recipientGrade = 2
  BY DEF GoodPolicy
<1>3. context.at = 3 /\ context.budgetGrade = 2 /\ context.recipientGrade = 2
  BY DEF PolicyAmounts
<1>4. WellFormed
  <2>1. /\ canonicalIntent.amount # << 0 >> /\ policy.total # << 0 >>
        /\ policy.perTransaction # << 0 >>
    BY DEF PolicyAmounts
  <2> QED BY <1>1, <1>2, <2>1 DEF WellFormed, MaxLifetime
<1>5. isWithinWindow(context.at, policy.window) /\ isWithinWindow(context.at, canonicalIntent.window)
  BY <1>1, <1>2, <1>3 DEF isWithinWindow
<1>6. isAtomicAtMost(canonicalIntent.maxFee, policy.feeLimit)
  <2>1. Usual.fee \in Strings
    BY PolicyEngineAssumption DEF Strings
  <2>2. Len(Usual.fee) \in Nat
    BY <2>1, StringsAre
  <2> QED BY <1>1, <1>2, <2>2 DEF isAtomicAtMost, compareAtomic
<1>7. /\ isAtomicAtMost(canonicalIntent.amount, policy.perTransaction)
      /\ isAtomicAtMost(canonicalIntent.amount, subtractAtomic(policy.total, context.spent))
  BY LimitsAreNumbers
<1>8. /\ meetsMinimumEnforcementGrade(context.budgetGrade, policy.budgetGrade)
      /\ meetsMinimumEnforcementGrade(context.recipientGrade, policy.recipientGrade)
  BY <1>2, <1>3 DEF meetsMinimumEnforcementGrade
<1>9. canonicalIntent.action \in policy.actions /\ policy.mode # "read-only"
  BY <1>1, <1>2
<1>10. FailedRules = {}
  BY <1>1, <1>2, <1>5, <1>6, <1>7, <1>8, <1>9 DEF FailedRules
<1> QED BY <1>4, <1>10

LEMMA EvaluationFits ==
  ASSUME PolicyTypeOK, PolicyAmounts, EvaluatePolicy
  PROVE  AllowedTransferFits' /\ FittingTransferIsAllowed'
<1>1. UNCHANGED <<policy, canonicalIntent, context>>
  BY DEF EvaluatePolicy
<1>2. WithinLimits' <=> WithinLimits
  BY <1>1 DEF WithinLimits
<1>3. AllowedTransferFits'
  <2> SUFFICES ASSUME Allowed' PROVE WithinLimits
    BY <1>2 DEF AllowedTransferFits
  <2>1. FailedRules = {} /\ Transfer
    BY DEF EvaluatePolicy, Allowed
  <2>2. /\ isAtomicAtMost(canonicalIntent.amount, policy.perTransaction)
        /\ isAtomicAtMost(canonicalIntent.amount,
                          subtractAtomic(policy.total, context.spent))
    BY <2>1 DEF FailedRules
  <2> QED BY <2>2, LimitsAreNumbers
<1>4. FittingTransferIsAllowed'
  <2> SUFFICES ASSUME decision' = "DENY", WithinLimits,
                      \A f \in DOMAIN GoodIntent : canonicalIntent[f] = GoodIntent[f],
                      \A f \in DOMAIN GoodPolicy : policy[f] = GoodPolicy[f]
               PROVE  FALSE
    BY <1>1, <1>2 DEF FittingTransferIsAllowed
  <2>1. WellFormed /\ FailedRules = {}
    BY FittingIsAllowed
  <2> QED BY <2>1 DEF EvaluatePolicy
<1> QED BY <1>3, <1>4

LEMMA PolicyInitAmounts == PolicyInit => PolicyAmounts
<1> SUFFICES ASSUME PolicyInit PROVE PolicyAmounts
  OBVIOUS
<1>1. PICK p \in Policies, i \in Intents :
        \E amount, perTransaction, total \in Positive, spent \in LimitAmounts :
          /\ policy = [f \in DOMAIN p \union {"perTransaction", "total"} |->
                         IF f = "total" THEN total
                         ELSE IF f = "perTransaction" THEN perTransaction ELSE p[f]]
          /\ canonicalIntent = [f \in DOMAIN i \union {"amount"} |->
                         IF f = "amount" THEN amount ELSE i[f]]
          /\ context = [at |-> 3, spent |-> spent, budgetGrade |-> 2, recipientGrade |-> 2]
  BY DEF PolicyInit
<1>2. PICK amount \in Positive, perTransaction \in Positive, total \in Positive,
           spent \in LimitAmounts :
        /\ policy = [f \in DOMAIN p \union {"perTransaction", "total"} |->
                       IF f = "total" THEN total
                       ELSE IF f = "perTransaction" THEN perTransaction ELSE p[f]]
        /\ canonicalIntent = [f \in DOMAIN i \union {"amount"} |->
                       IF f = "amount" THEN amount ELSE i[f]]
        /\ context = [at |-> 3, spent |-> spent, budgetGrade |-> 2, recipientGrade |-> 2]
  BY <1>1
<1>3. /\ canonicalIntent.amount = amount /\ policy.perTransaction = perTransaction
      /\ policy.total = total /\ context.spent = spent
      /\ context.at = 3 /\ context.budgetGrade = 2 /\ context.recipientGrade = 2
  BY <1>2
<1>4. LimitAmounts \subseteq Strings /\ Positive \subseteq Strings \ {<< 0 >>}
  BY PolicyEngineAssumption DEF Strings, Positive
<1> QED BY <1>3, <1>4 DEF PolicyAmounts

\* The invariant of the evaluation: what it is given, and what its answer says
\* of it.
PolicyInv ==
  /\ PolicyTypeOK /\ PolicyAmounts
  /\ AllowedOnlyInForce /\ AllowedTransferFits /\ FittingTransferIsAllowed

LEMMA EvaluationHolds == PolicySpec => []PolicyInv
<1>1. PolicyInit => PolicyInv
  BY PolicyInitTyped, PolicyInitAmounts
  DEF PolicyInv, AllowedOnlyInForce, AllowedTransferFits, Allowed, FittingTransferIsAllowed
<1>2. PolicyInv /\ [EvaluatePolicy]_policyVars => PolicyInv'
  <2> SUFFICES ASSUME PolicyInv, [EvaluatePolicy]_policyVars PROVE PolicyInv'
    OBVIOUS
  <2>1. CASE EvaluatePolicy
    <3>1. PolicyAmounts'
      BY <2>1 DEF EvaluatePolicy, PolicyInv, PolicyAmounts
    <3> QED BY <2>1, <3>1, EvaluationInForce, EvaluationFits DEF PolicyInv
  <2>2. CASE UNCHANGED policyVars
    BY <2>2
    DEF policyVars, PolicyInv, PolicyTypeOK, PolicyAmounts, AllowedOnlyInForce, Transfer,
        AllowedTransferFits, Allowed, FittingTransferIsAllowed, WithinLimits
  <2> QED BY <2>1, <2>2
<1> QED BY <1>1, <1>2, PTL DEF PolicySpec

\* Nothing is allowed outside the policy's or the intent's window, after a change
\* of the policy's status or on a fact that is not the policy's, and nothing goes
\* ahead without its owner unless the policy says so (evaluatePolicy).
THEOREM AllowedIsInForce == PolicySpec => []AllowedOnlyInForce
<1>1. PolicyInv => AllowedOnlyInForce
  BY DEF PolicyInv
<1> QED BY <1>1, EvaluationHolds, PTL

\* An allowed transfer is within its transaction limit, and within the total with
\* all that was spent before, as numbers: for strings of any length, and whatever
\* was spent (compareAtomic and subtractAtomic, which see only digits).
THEOREM AllowedTransfersFit == PolicySpec => []AllowedTransferFits
<1>1. PolicyInv => AllowedTransferFits
  BY DEF PolicyInv
<1> QED BY <1>1, EvaluationHolds, PTL

\* And nothing that fits is refused when every other fact is in order: the digit
\* arithmetic loses nothing of a limit (evaluateRules).
THEOREM FittingTransfersAreAllowed == PolicySpec => []FittingTransferIsAllowed
<1>1. PolicyInv => FittingTransferIsAllowed
  BY DEF PolicyInv
<1> QED BY <1>1, EvaluationHolds, PTL

-----------------------------------------------------------------------------
(* TransferCore: a word and its number. *)

LEMMA Division ==
  ASSUME NEW n \in Nat, NEW R \in Nat, R > 0
  PROVE  /\ n \div R \in Nat /\ n % R \in 0..(R - 1)
         /\ n = (n % R) + (n \div R) * R
<1>1. n \div R \in Int /\ n % R \in 0..(R - 1)
  OBVIOUS
<1>2. n = R * (n \div R) + (n % R)
  OBVIOUS
<1>3. R * (n \div R) = (n \div R) * R
  BY <1>1
<1>4. n \div R \in Nat
  <2> DEFINE k == n \div R
  <2> SUFFICES ASSUME k < 0 PROVE FALSE
    BY <1>1
  <2>1. k + 1 <= 0 /\ k \in Int
    BY <1>1
  <2>2. R * k <= 0 - R
    BY <2>1
  <2> DEFINE m == n % R
             x == R * k
  <2>3. n = x + m /\ m \in 0..(R - 1) /\ x <= 0 - R /\ x \in Int
    BY <1>1, <1>2, <2>2
  <2> HIDE DEF m, x, k
  <2> QED BY <2>3
<1> QED BY <1>1, <1>2, <1>3, <1>4

LEMMA DivisionIs ==
  ASSUME NEW R \in Nat, NEW d \in 0..(R - 1), NEW k \in Nat
  PROVE  (d + k * R) \div R = k /\ (d + k * R) % R = d
<1> DEFINE n == d + k * R
           j == n \div R
           m == n % R
<1>1. n \in Nat /\ R > 0
  BY Product
<1> HIDE DEF n
<1>2. j \in Nat /\ m \in 0..(R - 1) /\ n = m + j * R
  BY <1>1, Division
<1> HIDE DEF j, m
<1>3. ~(k < j)
  <2> SUFFICES ASSUME k + 1 <= j PROVE FALSE
    BY <1>2
  <2>1. (k + 1) * R <= j * R
    BY <1>2, Scaled
  <2>2. (k + 1) * R = k * R + R
    BY OneMore
  <2> DEFINE x == k * R
             y == j * R
  <2>3. x \in Nat /\ y \in Nat /\ x + R <= y /\ d + x = m + y
    BY <1>2, <2>1, <2>2, Product DEF n
  <2> HIDE DEF x, y
  <2> QED BY <1>2, <2>3
<1>4. ~(j < k)
  <2> SUFFICES ASSUME j + 1 <= k PROVE FALSE
    BY <1>2
  <2>1. (j + 1) * R <= k * R
    BY <1>2, Scaled
  <2>2. (j + 1) * R = j * R + R
    BY <1>2, OneMore
  <2> DEFINE x == k * R
             y == j * R
  <2>3. x \in Nat /\ y \in Nat /\ y + R <= x /\ d + x = m + y
    BY <1>2, <2>1, <2>2, Product DEF n
  <2> HIDE DEF x, y
  <2> QED BY <1>2, <2>3
<1>5. j = k
  BY <1>2, <1>3, <1>4
<1>6. m = d
  <2> DEFINE x == k * R
  <2>1. x \in Nat /\ d + x = m + x
    BY <1>2, <1>5, Product DEF n
  <2> HIDE DEF x
  <2> QED BY <1>2, <2>1
<1> QED BY <1>5, <1>6 DEF j, m, n

LEMMA WordSize ==
  /\ Radix \in Nat /\ Radix > 1 /\ WordLength \in Nat \ {0}
  /\ AddressLength \in 1..WordLength
BY TransferCoreAssumption

LEMMA QuotientsAre ==
  ASSUME NEW n \in Nat
  PROVE  /\ \A i \in 1..WordLength : Quotients(n)[i] \in Nat
         /\ Quotients(n)[WordLength] = n
         /\ \A i \in 1..(WordLength - 1) : Quotients(n)[i] = Quotients(n)[i + 1] \div Radix
<1> DEFINE M == WordLength
           Step(i, x) == IF i = M THEN n ELSE x \div Radix
           Good(f, k) == f \in [1..M -> Nat] /\ \A i \in k..M : f[i] = Step(i, f[i + 1])
           T == {k \in 1..M : \E f : Good(f, k)}
           g == CHOOSE f : f = [i \in 1..M |-> Step(i, f[i + 1])]
<1>1. M \in Nat \ {0} /\ Radix \in Nat /\ Radix > 0
  BY WordSize
<1>2. \A i : \A x \in Nat : Step(i, x) \in Nat
  BY <1>1, Division
<1>3. Quotients(n) = g
  BY DEF Quotients
<1>4. M > 0 => M \in T
  <2> DEFINE f == [i \in 1..M |-> n]
  <2>1. f \in [1..M -> Nat] /\ f[M] = n
    BY <1>1
  <2>2. ASSUME NEW i \in M..M PROVE f[i] = Step(i, f[i + 1])
    <3>1. i = M
      BY <1>1
    <3> HIDE DEF M, f
    <3> QED BY <2>1, <3>1
  <2> HIDE DEF f, Step
  <2>3. Good(f, M)
    BY <2>1, <2>2
  <2>4. M \in 1..M
    BY <1>1
  <2> HIDE DEF Good, M
  <2> QED BY <2>3, <2>4
<1>5. ASSUME NEW k \in 1..M, k < M, k + 1 \in T PROVE k \in T
  <2>1. PICK f : Good(f, k + 1)
    BY <1>5
  <2> HIDE DEF Step, M
  <2> DEFINE x == Step(k, f[k + 1])
             h == [i \in 1..M |-> IF i = k THEN x ELSE f[i]]
  <2>2. x \in Nat
    <3>1. f[k + 1] \in Nat
      <4>1. k + 1 \in 1..M
        BY <1>1, <1>5
      <4> QED BY <2>1, <4>1
    <3> HIDE DEF x
    <3> QED BY <1>2, <3>1 DEF x
  <2> HIDE DEF x
  <2>3. h \in [1..M -> Nat]
    BY <2>1, <2>2
  <2>4. ASSUME NEW i \in k..M PROVE h[i] = Step(i, h[i + 1])
    <3>1. CASE i = k
      <4>1. h[k] = x /\ h[k + 1] = f[k + 1]
        <5>1. k \in 1..M /\ k + 1 \in 1..M /\ k + 1 # k
          BY <1>1, <1>5
        <5> QED BY <5>1
      <4> HIDE DEF h
      <4> QED BY <3>1, <4>1 DEF x
    <3>2. CASE i # k
      <4>1. i \in (k + 1)..M /\ i \in 1..M
        BY <1>1, <3>2
      <4>2. f[i] = Step(i, f[i + 1])
        BY <2>1, <4>1
      <4>3. h[i] = f[i]
        BY <3>2, <4>1
      <4>4. CASE i = M
        <5> HIDE DEF h
        <5>1. Step(i, f[i + 1]) = Step(i, h[i + 1])
          BY <4>4 DEF Step
        <5> QED BY <4>2, <4>3, <5>1
      <4>5. CASE i # M
        <5>1. i + 1 \in 1..M /\ i + 1 # k
          BY <1>1, <4>1, <4>5
        <5>2. h[i + 1] = f[i + 1]
          BY <5>1
        <5> HIDE DEF h
        <5> QED BY <4>2, <4>3, <5>2
      <4> QED BY <4>4, <4>5
    <3> QED BY <3>1, <3>2
  <2> HIDE DEF h
  <2>5. Good(h, k)
    BY <2>3, <2>4
  <2> HIDE DEF Good
  <2> QED BY <1>5, <2>5
<1>6. \A k \in 1..M : k \in T
  <2> HIDE DEF T, M
  <2> QED BY <1>1, <1>4, <1>5, Downward
<1>7. g = [i \in 1..M |-> Step(i, g[i + 1])]
  <2>1. PICK f : Good(f, 1)
    <3>1. 1 \in T
      <4>1. 1 \in 1..M
        BY <1>1
      <4> HIDE DEF T, M
      <4> QED BY <1>6, <4>1
    <3> HIDE DEF Good, M
    <3> QED BY <3>1
  <2> HIDE DEF Step, M
  <2>2. f = [i \in 1..M |-> Step(i, f[i + 1])]
    BY <2>1
  <2> QED BY <2>2
<1> HIDE DEF g, Step
<1>8. \A i \in 1..M : g[i] = Step(i, g[i + 1])
  <2> HIDE DEF M
  <2> QED BY <1>7
<1>9. g[M] = n /\ \A i \in 1..(M - 1) : g[i] = g[i + 1] \div Radix
  <2>1. M \in 1..M /\ \A i \in 1..(M - 1) : i \in 1..M /\ i # M
    BY <1>1
  <2> HIDE DEF M
  <2> QED BY <1>8, <2>1 DEF Step
<1>10. \A i \in 1..M : g[i] \in Nat
  <2> DEFINE U == {i \in 1..M : g[i] \in Nat}
  <2>1. M > 0 => M \in U
    BY <1>1, <1>9
  <2>2. ASSUME NEW i \in 1..M, i < M, i + 1 \in U PROVE i \in U
    <3>1. i \in 1..(M - 1) /\ g[i + 1] \in Nat
      BY <1>1, <2>2
    <3>2. g[i + 1] \div Radix \in Nat
      BY <1>1, <3>1, Division
    <3> QED BY <1>9, <3>1, <3>2
  <2>3. \A i \in 1..M : i \in U
    <3> HIDE DEF U, M
    <3> QED BY <1>1, <2>1, <2>2, Downward
  <2> QED BY <2>3
<1> QED BY <1>3, <1>9, <1>10

\* A word of digits.
IsWord(w) == w \in Seq(HexDigits) /\ Len(w) = WordLength

LEMMA WordDigits ==
  ASSUME NEW w, IsWord(w)
  PROVE  /\ w \in Seq(Nat) /\ w # <<>>
         /\ \A i \in 1..WordLength : w[i] \in 0..(Radix - 1)
         /\ \E v : /\ WordValue(w) = v[WordLength]
                   /\ \A i \in 1..WordLength : v[i] \in Nat
                   /\ v[1] = w[1]
                   /\ \A i \in 1..(WordLength - 1) : v[i + 1] = w[i + 1] + v[i] * Radix
<1>1. /\ Radix \in Nat /\ Radix > 1 /\ WordLength \in Nat \ {0}
      /\ w \in Seq(0..(Radix - 1)) /\ Len(w) = WordLength
  BY WordSize DEF IsWord, HexDigits
<1>2. Seq(0..(Radix - 1)) \subseteq Seq(Nat)
  BY <1>1
<1>3. w # <<>>
  <2>1. \A q : Len(q) # 0 => q # <<>>
    OBVIOUS
  <2> QED BY <1>1, <2>1
<1>4. \A i \in 1..WordLength : w[i] \in 0..(Radix - 1)
  BY <1>1, <1>3, Places
<1>5. PICK v : Values(v, w, Radix) /\ ValueOf(w, Radix) = v[Len(w)]
  BY <1>1, <1>2, <1>3, ValueIs
<1>6. /\ v \in [1..WordLength -> Nat]
      /\ \A i \in 1..WordLength : v[i] = w[i] + (IF i = 1 THEN 0 ELSE v[i - 1] * Radix)
  BY <1>1, <1>5 DEF Values
<1>7. v[1] = w[1]
  <2>1. 1 \in 1..WordLength /\ w[1] \in Nat
    BY <1>1, <1>4
  <2>2. v[1] = w[1] + 0
    BY <1>6, <2>1
  <2> QED BY <2>1, <2>2
<1>8. ASSUME NEW i \in 1..(WordLength - 1) PROVE v[i + 1] = w[i + 1] + v[i] * Radix
  <2>1. i + 1 \in 1..WordLength /\ i + 1 # 1 /\ (i + 1) - 1 = i
    BY <1>1
  <2> QED BY <1>6, <2>1
<1>9. \A i \in 1..WordLength : v[i] \in Nat
  BY <1>6
<1>10. WordValue(w) = v[WordLength]
  BY <1>1, <1>5 DEF WordValue
<1> QED BY <1>1, <1>2, <1>3, <1>4, <1>7, <1>8, <1>9, <1>10

\* A word is the word of its number, and its number fits: the decoder's number
\* determines the digits.
LEMMA WordOfValue ==
  ASSUME NEW w, IsWord(w)
  PROVE  WordValue(w) \in Nat /\ FitsWord(WordValue(w)) /\ WordOf(WordValue(w)) = w
<1> DEFINE n == WordValue(w)
           q == Quotients(n)
           M == WordLength
<1>0. Radix \in Nat /\ Radix > 1 /\ M \in Nat \ {0}
  BY WordSize
<1>1. PICK v : /\ n = v[M]
               /\ \A i \in 1..M : v[i] \in Nat
               /\ v[1] = w[1]
               /\ \A i \in 1..(M - 1) : v[i + 1] = w[i + 1] + v[i] * Radix
  BY WordDigits
<1>2. \A i \in 1..M : w[i] \in 0..(Radix - 1)
  BY WordDigits
<1>3. n \in Nat
  <2>1. M \in 1..M
    BY <1>0
  <2> QED BY <1>1, <2>1
<1> HIDE DEF n
<1>4. q[M] = n /\ \A i \in 1..(M - 1) : q[i] = q[i + 1] \div Radix
  BY <1>3, QuotientsAre
<1> HIDE DEF q, M
<1> DEFINE T == {i \in 1..M : q[i] = v[i]}
<1>5. M > 0 => M \in T
  BY <1>0, <1>1, <1>4
<1>6. ASSUME NEW i \in 1..M, i < M, i + 1 \in T PROVE i \in T
  <2>1. i \in 1..(M - 1) /\ i + 1 \in 1..M /\ q[i + 1] = v[i + 1]
    BY <1>0, <1>6
  <2>2. q[i] = (w[i + 1] + v[i] * Radix) \div Radix
    BY <1>1, <1>4, <2>1
  <2>3. (w[i + 1] + v[i] * Radix) \div Radix = v[i]
    BY <1>0, <1>1, <1>2, <2>1, DivisionIs
  <2> QED BY <2>2, <2>3
<1>7. \A i \in 1..M : i \in T
  <2> HIDE DEF T
  <2> QED BY <1>0, <1>5, <1>6, Downward
<1>8. q[1] = w[1] /\ w[1] \in 0..(Radix - 1)
  <2>1. 1 \in 1..M
    BY <1>0
  <2> QED BY <1>1, <1>2, <1>7, <2>1
<1>9. ASSUME NEW i \in 1..M PROVE q[i] % Radix = w[i]
  <2>1. CASE i = 1
    <3>1. w[1] + 0 * Radix = w[1] /\ 0 \in Nat
      BY <1>0, <1>8
    <3>2. (w[1] + 0 * Radix) % Radix = w[1]
      BY <1>0, <1>8, <3>1, DivisionIs
    <3> QED BY <1>8, <2>1, <3>1, <3>2
  <2>2. CASE i # 1
    <3>1. i - 1 \in 1..(M - 1) /\ (i - 1) + 1 = i /\ i - 1 \in 1..M
      BY <1>0, <2>2
    <3>2. v[i] = w[i] + v[i - 1] * Radix /\ v[i - 1] \in Nat /\ w[i] \in 0..(Radix - 1)
      BY <1>1, <1>2, <3>1
    <3>3. (w[i] + v[i - 1] * Radix) % Radix = w[i]
      BY <1>0, <3>2, DivisionIs
    <3> QED BY <1>7, <3>2, <3>3
  <2> QED BY <2>1, <2>2
<1>10. FitsWord(n)
  BY <1>0, <1>8 DEF FitsWord, q
<1>11. WordOf(n) = w
  <2>1. WordOf(n) = [i \in 1..M |-> q[i] % Radix]
    BY DEF WordOf, q, M
  <2>2. w = [i \in 1..M |-> w[i]]
    <3>1. w \in Seq(HexDigits) /\ Len(w) = M
      BY DEF IsWord, M
    <3> QED BY <3>1
  <2> HIDE DEF q
  <2> QED BY <1>9, <2>1, <2>2
<1> QED BY <1>3, <1>10, <1>11 DEF n

\* And a number that fits is the number of its word: encoding loses nothing.
LEMMA ValueOfWord ==
  ASSUME NEW n \in Nat, FitsWord(n)
  PROVE  IsWord(WordOf(n)) /\ WordValue(WordOf(n)) = n
<1> DEFINE q == Quotients(n)
           M == WordLength
           w == WordOf(n)
<1>0. Radix \in Nat /\ Radix > 1 /\ M \in Nat \ {0}
  BY WordSize
<1>1. /\ \A i \in 1..M : q[i] \in Nat
      /\ q[M] = n
      /\ \A i \in 1..(M - 1) : q[i] = q[i + 1] \div Radix
  BY QuotientsAre
<1>2. q[1] < Radix
  BY DEF FitsWord
<1>3. w = [i \in 1..M |-> q[i] % Radix]
  BY DEF WordOf
<1> HIDE DEF q, w
<1>4. \A i \in 1..M : q[i] % Radix \in HexDigits
  <2>1. \A i \in 1..M : q[i] % Radix \in 0..(Radix - 1)
    BY <1>0, <1>1, Division
  <2> QED BY <2>1 DEF HexDigits
<1>5. IsWord(w)
  <2>1. w \in [1..M -> HexDigits]
    BY <1>3, <1>4
  <2> QED BY <1>0, <2>1 DEF IsWord
<1>6. PICK v : /\ WordValue(w) = v[M]
               /\ \A i \in 1..M : v[i] \in Nat
               /\ v[1] = w[1]
               /\ \A i \in 1..(M - 1) : v[i + 1] = w[i + 1] + v[i] * Radix
  BY <1>5, WordDigits
<1> HIDE DEF M
<1> DEFINE T == {i \in 1..M : v[i] = q[i]}
<1>7. M > 0 => 1 \in T
  <2>1. 1 \in 1..M /\ w[1] = q[1] % Radix /\ q[1] \in Nat
    BY <1>0, <1>1, <1>3
  <2>2. q[1] % Radix = q[1]
    <3>1. q[1] \in 0..(Radix - 1) /\ q[1] + 0 * Radix = q[1] /\ 0 \in Nat
      BY <1>0, <1>2, <2>1
    <3>2. (q[1] + 0 * Radix) % Radix = q[1]
      BY <1>0, <3>1, DivisionIs
    <3> QED BY <3>1, <3>2
  <2> QED BY <1>6, <2>1, <2>2
<1>8. ASSUME NEW i \in 1..M, i < M, i \in T PROVE i + 1 \in T
  <2>1. i \in 1..(M - 1) /\ i + 1 \in 1..M /\ v[i] = q[i]
    BY <1>0, <1>8
  <2>2. v[i + 1] = (q[i + 1] % Radix) + (q[i + 1] \div Radix) * Radix
    BY <1>1, <1>3, <1>6, <2>1
  <2>3. q[i + 1] \in Nat /\ Radix > 0
    BY <1>0, <1>1, <2>1
  <2>4. q[i + 1] = (q[i + 1] % Radix) + (q[i + 1] \div Radix) * Radix
    BY <1>0, <2>3, Division
  <2> QED BY <2>1, <2>2, <2>4
<1>9. \A i \in 1..M : i \in T
  <2> HIDE DEF T
  <2> QED BY <1>0, <1>7, <1>8, Upward
<1>10. v[M] = n
  <2>1. M \in 1..M
    BY <1>0
  <2> QED BY <1>1, <1>9, <2>1
<1> QED BY <1>5, <1>6, <1>10 DEF w

-----------------------------------------------------------------------------
(* TransferCore: the places of the calldata. *)

IsAddress(r) == r \in Seq(HexDigits) /\ Len(r) = AddressLength
PaddingLength == WordLength - AddressLength

Layout(data, r, w) ==
  /\ data \in Seq(HexDigits) /\ Len(data) = CalldataLength
  /\ \A i \in 1..Len(Selector) : data[i] = Selector[i]
  /\ \A i \in 1..PaddingLength : data[Len(Selector) + i] = 0
  /\ \A i \in 1..AddressLength : data[Len(Selector) + PaddingLength + i] = r[i]
  /\ \A i \in 1..WordLength : data[Len(Selector) + WordLength + i] = w[i]

LEMMA Sizes ==
  /\ Len(Selector) \in Nat /\ Selector \in Seq(HexDigits) /\ Len(Selector) % 2 = 0
  /\ WordLength \in Nat \ {0} /\ AddressLength \in Nat \ {0} /\ PaddingLength \in Nat
  /\ WordLength = PaddingLength + AddressLength
  /\ CalldataLength = Len(Selector) + PaddingLength + AddressLength + WordLength
  /\ CalldataLength \in Nat /\ CalldataLength % 2 = 0
  /\ 0 \in HexDigits /\ HexDigits \subseteq 0..Radix
<1>1. /\ Selector \in Seq(HexDigits) /\ Len(Selector) % 2 = 0
      /\ AddressLength \in 1..WordLength /\ WordLength \in Nat /\ Radix \in Nat \ {0, 1}
  BY TransferCoreAssumption DEF HexDigits
<1>2. Len(Selector) \in Nat
  BY <1>1, LenProperties
<1>3. 0 \in HexDigits /\ HexDigits \subseteq 0..Radix
  BY <1>1 DEF HexDigits
<1> DEFINE l == Len(Selector)
<1>4. l \in Nat /\ l % 2 = 0
  BY <1>1, <1>2
<1> HIDE DEF l
<1>5. /\ PaddingLength \in Nat /\ WordLength = PaddingLength + AddressLength
      /\ l + 2 * WordLength = l + PaddingLength + AddressLength + WordLength
      /\ l + 2 * WordLength \in Nat /\ (l + 2 * WordLength) % 2 = 0
  BY <1>1, <1>4 DEF PaddingLength
<1>6. CalldataLength = l + 2 * WordLength
  BY DEF CalldataLength, l
<1> QED BY <1>1, <1>2, <1>3, <1>5, <1>6 DEF l

LEMMA EncodeLayout ==
  ASSUME NEW r, IsAddress(r), NEW w, IsWord(w)
  PROVE  Layout(Selector \o Zeros(WordLength - AddressLength) \o r \o w, r, w)
<1> DEFINE L == Len(Selector)
           P == PaddingLength
           A == AddressLength
           W == WordLength
           z == Zeros(P)
           s1 == Selector \o z
           s2 == s1 \o r
           s3 == s2 \o w
<1>1. /\ L \in Nat /\ P \in Nat /\ A \in Nat /\ W \in Nat /\ W = P + A
      /\ CalldataLength = L + P + A + W
      /\ Selector \in Seq(HexDigits) /\ 0 \in HexDigits
      /\ r \in Seq(HexDigits) /\ Len(r) = A /\ w \in Seq(HexDigits) /\ Len(w) = W
  BY Sizes DEF IsAddress, IsWord
<1>2. z \in Seq(HexDigits) /\ Len(z) = P /\ \A i \in 1..P : z[i] = 0
  <2>1. z = [i \in 1..P |-> 0]
    BY DEF Zeros
  <2>2. z \in [1..P -> HexDigits]
    BY <1>1, <2>1
  <2> HIDE DEF z, P
  <2> QED BY <1>1, <2>1, <2>2
<1> HIDE DEF L, P, A, W, z
<1>3. /\ s1 \in Seq(HexDigits) /\ Len(s1) = L + P
      /\ \A i \in 1..(L + P) : s1[i] = IF i <= L THEN Selector[i] ELSE z[i - L]
  <2>1. /\ Selector \o z \in Seq(HexDigits) /\ Len(Selector \o z) = Len(Selector) + Len(z)
        /\ \A i \in 1..(Len(Selector) + Len(z)) :
             (Selector \o z)[i] = IF i <= Len(Selector) THEN Selector[i] ELSE z[i - Len(Selector)]
    <3>1. Selector \in Seq(HexDigits) /\ z \in Seq(HexDigits)
      BY <1>1, <1>2
    <3> QED BY <3>1, ConcatProperties
  <2>2. Len(Selector) = L /\ Len(z) = P
    BY <1>2 DEF L
  <2> QED BY <2>1, <2>2
<1> HIDE DEF s1
<1>4. /\ s2 \in Seq(HexDigits) /\ Len(s2) = L + P + A
      /\ \A i \in 1..(L + P + A) : s2[i] = IF i <= L + P THEN s1[i] ELSE r[i - (L + P)]
  <2> DEFINE m == L + P
  <2>1. m \in Nat /\ s1 \in Seq(HexDigits) /\ Len(s1) = m
    BY <1>1, <1>3
  <2> HIDE DEF m
  <2>2. /\ s1 \o r \in Seq(HexDigits) /\ Len(s1 \o r) = m + A
        /\ \A i \in 1..(m + A) : (s1 \o r)[i] = IF i <= m THEN s1[i] ELSE r[i - m]
    <3>1. r \in Seq(HexDigits) /\ Len(r) = A
      BY <1>1
    <3>2. /\ s1 \o r \in Seq(HexDigits) /\ Len(s1 \o r) = Len(s1) + Len(r)
          /\ \A i \in 1..(Len(s1) + Len(r)) :
               (s1 \o r)[i] = IF i <= Len(s1) THEN s1[i] ELSE r[i - Len(s1)]
      BY <2>1, <3>1, ConcatProperties
    <3> QED BY <2>1, <3>1, <3>2
  <2> QED BY <2>2 DEF m
<1> HIDE DEF s2
<1>5. /\ s3 \in Seq(HexDigits) /\ Len(s3) = L + P + A + W
      /\ \A i \in 1..(L + P + A + W) :
           s3[i] = IF i <= L + P + A THEN s2[i] ELSE w[i - (L + P + A)]
  <2> DEFINE m == L + P + A
  <2>1. m \in Nat /\ s2 \in Seq(HexDigits) /\ Len(s2) = m
    BY <1>1, <1>4
  <2> HIDE DEF m
  <2>2. /\ s2 \o w \in Seq(HexDigits) /\ Len(s2 \o w) = m + W
        /\ \A i \in 1..(m + W) : (s2 \o w)[i] = IF i <= m THEN s2[i] ELSE w[i - m]
    <3>1. w \in Seq(HexDigits) /\ Len(w) = W
      BY <1>1
    <3>2. /\ s2 \o w \in Seq(HexDigits) /\ Len(s2 \o w) = Len(s2) + Len(w)
          /\ \A i \in 1..(Len(s2) + Len(w)) :
               (s2 \o w)[i] = IF i <= Len(s2) THEN s2[i] ELSE w[i - Len(s2)]
      BY <2>1, <3>1, ConcatProperties
    <3> QED BY <2>1, <3>1, <3>2
  <2> QED BY <2>2 DEF m
<1> HIDE DEF s3
<1>6. \A i \in 1..L : s3[i] = Selector[i]
  <2> TAKE i \in 1..L
  <2>1. i \in 1..(L + P) /\ i \in 1..(L + P + A) /\ i \in 1..(L + P + A + W)
        /\ i <= L + P + A /\ i <= L + P /\ i <= L
    BY <1>1
  <2> QED BY <1>3, <1>4, <1>5, <2>1
<1>7. \A i \in 1..P : s3[L + i] = 0
  <2> TAKE i \in 1..P
  <2>1. L + i \in 1..(L + P) /\ L + i \in 1..(L + P + A) /\ L + i \in 1..(L + P + A + W)
        /\ L + i <= L + P + A /\ L + i <= L + P /\ ~(L + i <= L) /\ (L + i) - L = i
    BY <1>1
  <2>2. s3[L + i] = s2[L + i]
    BY <1>5, <2>1
  <2>3. s2[L + i] = s1[L + i]
    BY <1>4, <2>1
  <2>4. s1[L + i] = z[i]
    BY <1>3, <2>1
  <2> QED BY <1>2, <2>2, <2>3, <2>4
<1>8. \A i \in 1..A : s3[L + P + i] = r[i]
  <2> TAKE i \in 1..A
  <2>1. L + P + i \in 1..(L + P + A) /\ L + P + i \in 1..(L + P + A + W)
        /\ L + P + i <= L + P + A /\ ~(L + P + i <= L + P) /\ (L + P + i) - (L + P) = i
    BY <1>1
  <2> QED BY <1>4, <1>5, <2>1
<1>9. \A i \in 1..W : s3[L + W + i] = w[i]
  <2> TAKE i \in 1..W
  <2>1. L + W + i \in 1..(L + P + A + W)
        /\ ~(L + W + i <= L + P + A) /\ (L + W + i) - (L + P + A) = i
    BY <1>1
  <2> QED BY <1>5, <2>1
<1>10. Layout(s3, r, w)
  BY <1>1, <1>5, <1>6, <1>7, <1>8, <1>9 DEF Layout, L, P, A, W
<1>11. s3 = Selector \o Zeros(WordLength - AddressLength) \o r \o w
  BY DEF s3, s2, s1, z, P, PaddingLength
<1> QED BY <1>10, <1>11

LEMMA LayoutIsUnique ==
  ASSUME NEW data, NEW other, NEW r, NEW w, Layout(data, r, w), Layout(other, r, w)
  PROVE  data = other
<1> DEFINE L == Len(Selector)
           P == PaddingLength
           A == AddressLength
           W == WordLength
           C == CalldataLength
<1>1. /\ L \in Nat /\ P \in Nat /\ A \in Nat /\ W \in Nat /\ W = P + A /\ C = L + P + A + W
  BY Sizes
<1>2. /\ \A i \in 1..L : data[i] = other[i]
      /\ \A i \in 1..P : data[L + i] = other[L + i]
      /\ \A i \in 1..A : data[L + P + i] = other[L + P + i]
      /\ \A i \in 1..W : data[L + W + i] = other[L + W + i]
  BY DEF Layout
<1> HIDE DEF L, P, A, W, C
<1>3. ASSUME NEW i \in 1..C PROVE data[i] = other[i]
  <2>1. CASE i <= L
    <3>1. i \in 1..L
      BY <1>1, <2>1
    <3> QED BY <1>2, <3>1
  <2>2. CASE L < i /\ i <= L + P
    <3>1. i - L \in 1..P /\ L + (i - L) = i
      BY <1>1, <2>2
    <3> QED BY <1>2, <3>1
  <2>3. CASE L + P < i /\ i <= L + P + A
    <3>1. i - (L + P) \in 1..A /\ L + P + (i - (L + P)) = i
      BY <1>1, <2>3
    <3> QED BY <1>2, <3>1
  <2>4. CASE L + P + A < i
    <3>1. i - (L + W) \in 1..W /\ L + W + (i - (L + W)) = i
      BY <1>1, <2>4
    <3> QED BY <1>2, <3>1
  <2> QED BY <1>1, <2>1, <2>2, <2>3, <2>4
<1>4. data \in Seq(HexDigits) /\ other \in Seq(HexDigits) /\ Len(data) = C /\ Len(other) = C
  BY DEF Layout, C
<1> QED BY <1>3, <1>4, SeqEqual

LEMMA Part ==
  ASSUME NEW S, NEW s \in Seq(S), NEW a \in Nat, NEW k \in Nat, a + k <= Len(s)
  PROVE  /\ SubSeq(s, a + 1, a + k) \in Seq(S) /\ Len(SubSeq(s, a + 1, a + k)) = k
         /\ \A i \in 1..k : SubSeq(s, a + 1, a + k)[i] = s[a + i]
<1> DEFINE m == a + 1
           n == a + k
           N == Len(s)
<1>1. N \in Nat /\ \A i \in 1..N : s[i] \in S
  BY LenProperties, ElementOfSeq
<1>2. m \in Int /\ n \in Int /\ \A i \in m..n : i \in 1..N
  BY <1>1
<1>3. \A i \in m..n : s[i] \in S
  <2> HIDE DEF m, n, N
  <2> QED BY <1>1, <1>2
<1>4. (n - m) + 1 = k /\ (m <= n <=> k > 0) /\ \A i \in 1..k : (m + i) - 1 = a + i
  OBVIOUS
<1> HIDE DEF m, n, N
<1>5. /\ SubSeq(s, m, n) \in Seq(S)
      /\ Len(SubSeq(s, m, n)) = IF m <= n THEN (n - m) + 1 ELSE 0
      /\ \A i \in 1..((n - m) + 1) : SubSeq(s, m, n)[i] = s[(m + i) - 1]
  BY <1>2, <1>3, SubSeqProperties
<1>6. Len(SubSeq(s, m, n)) = k
  BY <1>4, <1>5
<1>7. \A i \in 1..k : SubSeq(s, m, n)[i] = s[a + i]
  BY <1>4, <1>5
<1> QED BY <1>5, <1>6, <1>7 DEF m, n

\* Where the decoder reads: the selector, the padding, the address, the amount.
Parts(data, S) ==
  /\ SubSeq(data, 1, Len(Selector)) \in Seq(S)
  /\ Len(SubSeq(data, 1, Len(Selector))) = Len(Selector)
  /\ \A i \in 1..Len(Selector) : SubSeq(data, 1, Len(Selector))[i] = data[i]
  /\ PaddingIn(AddressWord(data)) \in Seq(S)
  /\ Len(PaddingIn(AddressWord(data))) = PaddingLength
  /\ \A i \in 1..PaddingLength :
       PaddingIn(AddressWord(data))[i] = data[Len(Selector) + i]
  /\ AddressIn(AddressWord(data)) \in Seq(S)
  /\ Len(AddressIn(AddressWord(data))) = AddressLength
  /\ \A i \in 1..AddressLength :
       AddressIn(AddressWord(data))[i] = data[Len(Selector) + PaddingLength + i]
  /\ AmountWord(data) \in Seq(S)
  /\ Len(AmountWord(data)) = WordLength
  /\ \A i \in 1..WordLength :
       AmountWord(data)[i] = data[Len(Selector) + WordLength + i]

LEMMA PartsOf ==
  ASSUME NEW S, NEW data \in Seq(S), Len(data) = CalldataLength
  PROVE  Parts(data, S)
<1> DEFINE L == Len(Selector)
           P == PaddingLength
           A == AddressLength
           W == WordLength
           C == CalldataLength
           word == AddressWord(data)
<1>1. /\ L \in Nat /\ P \in Nat /\ A \in Nat /\ W \in Nat /\ W = P + A /\ C = L + P + A + W
      /\ P = W - A
  BY Sizes DEF PaddingLength
<1>2. /\ Len(data) = C
      /\ word = SubSeq(data, L + 1, L + W)
      /\ PaddingIn(word) = SubSeq(word, 1, W - A)
      /\ AddressIn(word) = SubSeq(word, W - A + 1, W)
      /\ AmountWord(data) = SubSeq(data, L + W + 1, Len(data))
  BY DEF AddressWord, PaddingIn, AddressIn, AmountWord
<1> HIDE DEF L, P, A, W, C, word
<1>3. /\ SubSeq(data, 1, L) \in Seq(S) /\ Len(SubSeq(data, 1, L)) = L
      /\ \A i \in 1..L : SubSeq(data, 1, L)[i] = data[i]
  <2>1. 0 + L <= Len(data) /\ 0 + 1 = 1 /\ 0 + L = L /\ 0 \in Nat /\ \A i \in 1..L : 0 + i = i
    BY <1>1, <1>2
  <2>2. /\ SubSeq(data, 0 + 1, 0 + L) \in Seq(S) /\ Len(SubSeq(data, 0 + 1, 0 + L)) = L
        /\ \A i \in 1..L : SubSeq(data, 0 + 1, 0 + L)[i] = data[0 + i]
    BY <1>1, <2>1, Part
  <2> QED BY <2>1, <2>2
<1>4. word \in Seq(S) /\ Len(word) = W /\ \A i \in 1..W : word[i] = data[L + i]
  <2>1. L + W <= Len(data)
    BY <1>1, <1>2
  <2> QED BY <1>1, <1>2, <2>1, Part
<1>5. /\ PaddingIn(word) \in Seq(S) /\ Len(PaddingIn(word)) = P
      /\ \A i \in 1..P : PaddingIn(word)[i] = data[L + i]
  <2>1. 0 + P <= Len(word) /\ 0 + 1 = 1 /\ 0 + P = P /\ 0 \in Nat
        /\ \A i \in 1..P : 0 + i = i /\ i \in 1..W
    BY <1>1, <1>4
  <2>2. /\ SubSeq(word, 0 + 1, 0 + P) \in Seq(S) /\ Len(SubSeq(word, 0 + 1, 0 + P)) = P
        /\ \A i \in 1..P : SubSeq(word, 0 + 1, 0 + P)[i] = word[0 + i]
    BY <1>1, <1>4, <2>1, Part
  <2>3. PaddingIn(word) = SubSeq(word, 0 + 1, 0 + P)
    BY <1>1, <1>2, <2>1
  <2> QED BY <1>4, <2>1, <2>2, <2>3
<1>6. /\ AddressIn(word) \in Seq(S) /\ Len(AddressIn(word)) = A
      /\ \A i \in 1..A : AddressIn(word)[i] = data[L + P + i]
  <2>1. P + A <= Len(word) /\ P + A = W /\ W - A + 1 = P + 1
        /\ \A i \in 1..A : P + i \in 1..W /\ L + (P + i) = L + P + i
    BY <1>1, <1>4
  <2>2. /\ SubSeq(word, P + 1, P + A) \in Seq(S) /\ Len(SubSeq(word, P + 1, P + A)) = A
        /\ \A i \in 1..A : SubSeq(word, P + 1, P + A)[i] = word[P + i]
    BY <1>1, <1>4, <2>1, Part
  <2>3. AddressIn(word) = SubSeq(word, P + 1, P + A)
    BY <1>2, <2>1
  <2> QED BY <1>4, <2>1, <2>2, <2>3
<1>7. /\ AmountWord(data) \in Seq(S) /\ Len(AmountWord(data)) = W
      /\ \A i \in 1..W : AmountWord(data)[i] = data[L + W + i]
  <2>1. L + W \in Nat /\ (L + W) + W <= Len(data) /\ Len(data) = (L + W) + W
    BY <1>1, <1>2
  <2>2. AmountWord(data) = SubSeq(data, (L + W) + 1, (L + W) + W)
    BY <1>2, <2>1
  <2> DEFINE a == L + W
  <2>3. a \in Nat /\ a + W <= Len(data) /\ AmountWord(data) = SubSeq(data, a + 1, a + W)
    BY <2>1, <2>2
  <2> HIDE DEF a
  <2>4. /\ AmountWord(data) \in Seq(S) /\ Len(AmountWord(data)) = W
        /\ \A i \in 1..W : AmountWord(data)[i] = data[a + i]
    BY <1>1, <2>3, Part
  <2> QED BY <2>4 DEF a
<1> QED BY <1>3, <1>5, <1>6, <1>7 DEF Parts, L, P, A, W, word

\* The decoder undoes the encoder.
LEMMA LayoutDecodes ==
  ASSUME NEW data, NEW r, NEW w, IsAddress(r), IsWord(w), Layout(data, r, w)
  PROVE  decodeTransferIndependent(data) =
           [ok |-> TRUE, recipient |-> r, amount |-> Decimal(WordValue(w))]
<1>1. /\ data \in Seq(HexDigits) /\ Len(data) = CalldataLength
      /\ \A i \in 1..Len(Selector) : data[i] = Selector[i]
      /\ \A i \in 1..PaddingLength : data[Len(Selector) + i] = 0
      /\ \A i \in 1..AddressLength : data[Len(Selector) + PaddingLength + i] = r[i]
      /\ \A i \in 1..WordLength : data[Len(Selector) + WordLength + i] = w[i]
  BY DEF Layout
<1>0. Parts(data, HexDigits)
  BY <1>1, PartsOf
<1>2. Hexadecimal(data)
  BY <1>1, ElementOfSeq DEF Hexadecimal
<1>3. Len(data) % 2 = 0 /\ ~(Len(data) < CalldataLength) /\ ~(Len(data) > CalldataLength)
  BY <1>1, Sizes
<1>4. SubSeq(data, 1, Len(Selector)) = Selector
  <2> DEFINE s == SubSeq(data, 1, Len(Selector))
  <2>1. s \in Seq(HexDigits) /\ Len(s) = Len(Selector) /\ \A i \in 1..Len(s) : s[i] = Selector[i]
    BY <1>1, <1>0 DEF Parts
  <2> HIDE DEF s
  <2> QED BY <2>1, Sizes, SeqEqual DEF s
<1>5. PaddingIn(AddressWord(data)) = Zeros(WordLength - AddressLength)
  <2> DEFINE s == PaddingIn(AddressWord(data))
  <2>1. s \in Seq(HexDigits) /\ Len(s) = PaddingLength /\ \A i \in 1..PaddingLength : s[i] = 0
    BY <1>1, <1>0 DEF Parts
  <2> HIDE DEF s
  <2>2. s \in [1..PaddingLength -> HexDigits]
    BY <2>1, LenProperties
  <2>3. s = [i \in 1..PaddingLength |-> 0]
    BY <2>1, <2>2
  <2> QED BY <2>3 DEF s, Zeros, PaddingLength
<1>6. AddressIn(AddressWord(data)) = r
  <2> DEFINE s == AddressIn(AddressWord(data))
  <2>1. s \in Seq(HexDigits) /\ Len(s) = AddressLength
        /\ \A i \in 1..AddressLength : s[i] = r[i]
    BY <1>1, <1>0 DEF Parts
  <2> HIDE DEF s
  <2> QED BY <2>1, SeqEqual DEF s, IsAddress
<1>7. AmountWord(data) = w
  <2> DEFINE s == AmountWord(data)
  <2>1. s \in Seq(HexDigits) /\ Len(s) = WordLength /\ \A i \in 1..WordLength : s[i] = w[i]
    BY <1>1, <1>0 DEF Parts
  <2> HIDE DEF s
  <2> QED BY <2>1, SeqEqual DEF s, IsWord
<1> QED BY <1>2, <1>3, <1>4, <1>5, <1>6, <1>7 DEF decodeTransferIndependent, Decoded

\* And what it accepts is what the encoder makes of its answer.
LEMMA DecodesLayout ==
  ASSUME NEW S, NEW data \in Seq(S), decodeTransferIndependent(data).ok
  PROVE  /\ decodeTransferIndependent(data) =
              [ok |-> TRUE, recipient |-> AddressIn(AddressWord(data)),
               amount |-> Decimal(WordValue(AmountWord(data)))]
         /\ IsWord(AmountWord(data))
         /\ Layout(data, AddressIn(AddressWord(data)), AmountWord(data))
<1>1. /\ Hexadecimal(data) /\ Len(data) % 2 = 0
      /\ ~(Len(data) < CalldataLength) /\ ~(Len(data) > CalldataLength)
      /\ SubSeq(data, 1, Len(Selector)) = Selector
      /\ PaddingIn(AddressWord(data)) = Zeros(WordLength - AddressLength)
      /\ decodeTransferIndependent(data) = Decoded(data)
  BY DEF decodeTransferIndependent, Failure
<1>2. data \in Seq(HexDigits)
  <2>1. data \in [1..Len(data) -> HexDigits] /\ Len(data) \in Nat
    BY <1>1, LenProperties DEF Hexadecimal
  <2> QED BY <2>1
<1>3. Len(data) = CalldataLength
  <2>1. Len(data) \in Nat /\ CalldataLength \in Nat
    BY LenProperties, Sizes
  <2> QED BY <1>1, <2>1
<1>4. Parts(data, HexDigits)
  BY <1>2, <1>3, PartsOf
<1>5. IsWord(AmountWord(data))
  BY <1>4 DEF Parts, IsWord
<1>6. \A i \in 1..Len(Selector) : data[i] = Selector[i]
  BY <1>1, <1>4 DEF Parts
<1>7. \A i \in 1..PaddingLength : data[Len(Selector) + i] = 0
  <2>1. \A i \in 1..PaddingLength : PaddingIn(AddressWord(data))[i] = 0
    BY <1>1 DEF Zeros, PaddingLength
  <2> QED BY <1>4, <2>1 DEF Parts
<1>8. /\ \A i \in 1..AddressLength :
           data[Len(Selector) + PaddingLength + i] = AddressIn(AddressWord(data))[i]
      /\ \A i \in 1..WordLength : data[Len(Selector) + WordLength + i] = AmountWord(data)[i]
  BY <1>4 DEF Parts
<1>9. Layout(data, AddressIn(AddressWord(data)), AmountWord(data))
  BY <1>2, <1>3, <1>6, <1>7, <1>8 DEF Layout
<1> QED BY <1>1, <1>5, <1>9 DEF Decoded

-----------------------------------------------------------------------------
(* TransferCore: the inductive invariant. *)

Intentions ==
  [action : {"asset.transfer", "wallet.read_state"}, chain : {"local", "other"},
   token : TokenAddresses, recipient : Recipients, amount : Amounts]

Contexts ==
  [wallet : {"wallet"}, token : TokenAddresses, fixture : Nat, operation : {"one", "another"}]

Cores ==
  [ok : {TRUE}, keys : {"good", "bad"}, action : {"good", "bad"}, chain : {"local", "other"},
   from : {"wallet", "other"}, target : TokenAddresses, value : {"good", "bad"},
   calldata : Seq(0..Radix), selector : {"good", "bad"}, recipient : Recipients,
   amount : [number : Nat, padded : BOOLEAN], nonce : {"good", "bad"}, fixture : Nat,
   provenance : [intent : {"this", "another"}, operation : {"one", "another"}]]

CoreTypeOK ==
  /\ intent \in Intentions
  /\ trusted \in Contexts
  /\ candidate \in Cores \union {NoResult}
  /\ edits \in Nat /\ contexts \in Nat

\* Before the first edit and in the first context the candidate is the
\* constructor's, and what was decoded is the decoding of it; an answer is about
\* a candidate, and once it is given nothing moves.
CoreInv ==
  /\ CoreTypeOK
  /\ candidate = NoResult => decoded = NoResult /\ verification = "NONE"
  /\ candidate # NoResult /\ edits = 0 /\ contexts = 0 =>
       /\ Constructible /\ candidate = Core
       /\ decoded \in {NoResult, decodeTransferIndependent(candidate.calldata)}
  /\ VerifiedIsConstructed
  /\ ConstructedIsVerified

LEMMA Inputs ==
  /\ \A r \in Recipients : IsAddress(r)
  /\ Amounts \subseteq Nat
  /\ Radix \in Nat
BY TransferCoreAssumption DEF IsAddress, HexDigits

LEMMA CandidateIs ==
  ASSUME CoreTypeOK
  PROVE  /\ candidate.ok <=> candidate # NoResult
         /\ candidate.ok => candidate \in Cores
<1>1. NoResult.ok = FALSE
  BY DEF NoResult
<1>2. \A c \in Cores : c.ok = TRUE
  BY DEF Cores
<1> QED BY <1>1, <1>2 DEF CoreTypeOK

\* The constructor's candidate is decoded, to its recipient and its amount.
LEMMA CoreDecodes ==
  ASSUME CoreTypeOK, Constructible
  PROVE  /\ Core \in Cores
         /\ decodeTransferIndependent(Core.calldata) =
              [ok |-> TRUE, recipient |-> intent.recipient, amount |-> Decimal(intent.amount)]
<1> DEFINE r == intent.recipient
           n == intent.amount
           w == WordOf(n)
           data == Encode(r, n)
<1>1. r \in Recipients /\ n \in Amounts /\ FitsWord(n)
  BY DEF CoreTypeOK, Intentions, Constructible
<1>2. IsAddress(r) /\ n \in Nat
  BY <1>1, Inputs
<1> HIDE DEF r, n
<1>3. IsWord(w) /\ WordValue(w) = n
  BY <1>1, <1>2, ValueOfWord
<1>4. Layout(data, r, w)
  <2> HIDE DEF w
  <2>1. data = Selector \o Zeros(WordLength - AddressLength) \o r \o w
    BY DEF Encode, w
  <2> QED BY <1>2, <1>3, <2>1, EncodeLayout
<1>5. data \in Seq(0..Radix)
  <2>1. data \in Seq(HexDigits)
    BY <1>4 DEF Layout
  <2>2. Seq(HexDigits) \subseteq Seq(0..Radix)
    BY Inputs DEF HexDigits
  <2> HIDE DEF data
  <2> QED BY <2>1, <2>2
<1> HIDE DEF w, data
<1>6. decodeTransferIndependent(data) = [ok |-> TRUE, recipient |-> r, amount |-> Decimal(n)]
  BY <1>2, <1>3, <1>4, LayoutDecodes
<1>7. Core.calldata = data
  BY DEF Core, data, r, n
<1>8. Core \in Cores
  <2>1. /\ trusted.wallet \in {"wallet", "other"} /\ trusted.token \in TokenAddresses
        /\ trusted.fixture \in Nat /\ trusted.operation \in {"one", "another"}
    BY DEF CoreTypeOK, Contexts
  <2>2. Decimal(n) \in [number : Nat, padded : BOOLEAN]
    BY <1>2 DEF Decimal
  <2>3. Provenance \in [intent : {"this", "another"}, operation : {"one", "another"}]
    BY <2>1 DEF Provenance
  <2> QED BY <1>1, <1>5, <2>1, <2>2, <2>3 DEF Core, Cores, data, r, n
<1> QED BY <1>6, <1>7, <1>8 DEF r, n

\* What the verifier lets pass: every field is the constructor's, and the digits
\* are, because the decoder's answer leaves no other.
LEMMA AcceptedIsCore ==
  ASSUME CoreTypeOK, NEW c \in Cores, NEW d, VerificationOf(c, d) = "ok"
  PROVE  Constructible /\ c = Core
<1> DEFINE actual == decodeTransferIndependent(c.calldata)
<1>1. /\ intent.action = "asset.transfer" /\ c.keys = "good" /\ actual.ok
      /\ c.provenance = Provenance /\ c.action = "good" /\ c.selector = "good"
      /\ c.chain = "local" /\ c.chain = intent.chain /\ c.from = trusted.wallet
      /\ c.target = trusted.token /\ c.target = intent.token /\ c.value = "good"
      /\ c.recipient = intent.recipient /\ actual.recipient = intent.recipient
      /\ c.amount = Decimal(intent.amount) /\ actual.amount = Decimal(intent.amount)
      /\ c.nonce = "good" /\ c.fixture = trusted.fixture
  <2> HIDE DEF actual
  <2>1. VerificationOf(c, d) =
          IF intent.action # "asset.transfer" THEN "INVALID_INTENT"
          ELSE IF c.keys # "good" THEN "INVALID_CANDIDATE"
          ELSE IF ~actual.ok THEN "DECODE_FAILED"
          ELSE IF d # actual THEN "CALLDATA_MISMATCH"
          ELSE IF c.provenance # Provenance THEN "PROVENANCE_MISMATCH"
          ELSE IF c.action # "good" THEN "ACTION_MISMATCH"
          ELSE IF c.selector # "good" THEN "SELECTOR_MISMATCH"
          ELSE IF c.chain # "local" \/ c.chain # intent.chain THEN "CHAIN_MISMATCH"
          ELSE IF c.from # trusted.wallet THEN "SENDER_MISMATCH"
          ELSE IF c.target # trusted.token \/ c.target # intent.token THEN "TARGET_MISMATCH"
          ELSE IF c.value # "good" THEN "NATIVE_VALUE_MISMATCH"
          ELSE IF c.recipient # intent.recipient \/ actual.recipient # intent.recipient
          THEN "RECIPIENT_MISMATCH"
          ELSE IF c.amount # Decimal(intent.amount) \/ actual.amount # Decimal(intent.amount)
          THEN "AMOUNT_MISMATCH"
          ELSE IF c.nonce # "good" THEN "NONCE_STRATEGY_MISMATCH"
          ELSE IF c.fixture # trusted.fixture THEN "FIXTURE_MISMATCH"
          ELSE "ok"
    BY Zenon DEF VerificationOf, actual
  <2> QED BY <2>1
<1>2. c.calldata \in Seq(0..Radix)
  BY DEF Cores
<1> DEFINE data == c.calldata
           w == AmountWord(data)
<1>3. /\ actual = [ok |-> TRUE, recipient |-> AddressIn(AddressWord(data)),
                   amount |-> Decimal(WordValue(w))]
      /\ IsWord(w) /\ Layout(data, AddressIn(AddressWord(data)), w)
  <2> HIDE DEF data
  <2>1. data \in Seq(0..Radix) /\ decodeTransferIndependent(data).ok
    BY <1>1, <1>2 DEF data
  <2>2. actual = decodeTransferIndependent(data)
    BY DEF data
  <2> HIDE DEF actual
  <2> QED BY <2>1, <2>2, DecodesLayout
<1> HIDE DEF actual, data, w
<1>4. AddressIn(AddressWord(data)) = intent.recipient /\ WordValue(w) = intent.amount
  BY <1>1, <1>3 DEF Decimal
<1>5. FitsWord(intent.amount) /\ w = WordOf(intent.amount)
  BY <1>3, <1>4, WordOfValue
<1>6. Constructible
  BY <1>1, <1>5 DEF Constructible
<1>7. data = Encode(intent.recipient, intent.amount)
  <2>1. IsAddress(intent.recipient)
    BY Inputs DEF CoreTypeOK, Intentions
  <2>2. Layout(Encode(intent.recipient, intent.amount), intent.recipient, w)
    BY <1>3, <1>5, <2>1, EncodeLayout DEF Encode
  <2> QED BY <1>3, <1>4, <2>2, LayoutIsUnique
<1>8. c = [ok |-> c.ok, keys |-> c.keys, action |-> c.action, chain |-> c.chain,
           from |-> c.from, target |-> c.target, value |-> c.value,
           calldata |-> c.calldata, selector |-> c.selector, recipient |-> c.recipient,
           amount |-> c.amount, nonce |-> c.nonce, fixture |-> c.fixture,
           provenance |-> c.provenance] /\ c.ok = TRUE
  BY DEF Cores
<1>9. c = Core
  BY <1>1, <1>7, <1>8 DEF Core, data
<1> QED BY <1>6, <1>9

\* And it lets the constructor's pass.
LEMMA CoreIsAccepted ==
  ASSUME CoreTypeOK, Constructible
  PROVE  VerificationOf(Core, decodeTransferIndependent(Core.calldata)) = "ok"
<1> DEFINE actual == decodeTransferIndependent(Core.calldata)
<1>1. actual = [ok |-> TRUE, recipient |-> intent.recipient, amount |-> Decimal(intent.amount)]
  BY CoreDecodes
<1> HIDE DEF actual
<1>2. /\ intent.action = "asset.transfer" /\ intent.chain = "local"
      /\ intent.token = trusted.token
  BY DEF Constructible
<1>3. /\ Core.keys = "good" /\ Core.provenance = Provenance /\ Core.action = "good"
      /\ Core.selector = "good" /\ Core.chain = "local" /\ Core.from = trusted.wallet
      /\ Core.target = trusted.token /\ Core.value = "good"
      /\ Core.recipient = intent.recipient /\ Core.amount = Decimal(intent.amount)
      /\ Core.nonce = "good" /\ Core.fixture = trusted.fixture
  BY DEF Core
<1>4. actual.ok /\ actual.recipient = intent.recipient /\ actual.amount = Decimal(intent.amount)
  BY <1>1
<1> QED BY <1>2, <1>3, <1>4 DEF VerificationOf, actual

LEMMA CoreInitInv == CoreInit => CoreInv
<1> SUFFICES ASSUME CoreInit PROVE CoreInv
  OBVIOUS
<1>1. CoreTypeOK
  BY DEF CoreInit, CoreTypeOK, Intentions, Contexts
<1> QED BY <1>1 DEF CoreInit, CoreInv, VerifiedIsConstructed, ConstructedIsVerified

LEMMA ConstructKeepsCore ==
  ASSUME CoreInv, constructTransferCore
  PROVE  CoreInv'
<1>1. /\ candidate = NoResult /\ Constructible /\ candidate' = Core
      /\ UNCHANGED <<intent, trusted, decoded, verification, edits, contexts>>
  BY DEF constructTransferCore
<1>2. CoreTypeOK /\ decoded = NoResult /\ verification = "NONE"
  BY <1>1 DEF CoreInv
<1>3. Constructible' /\ Core' = Core
  BY <1>1 DEF Constructible, Core, Provenance
<1>4. Core \in Cores
  BY <1>1, <1>2, CoreDecodes
<1>5. CoreTypeOK'
  BY <1>1, <1>2, <1>4 DEF CoreTypeOK
<1>6. Core.ok = TRUE /\ NoResult.ok = FALSE
  BY DEF Core, NoResult
<1>7. candidate' # NoResult
  BY <1>1, <1>6
<1> QED
  BY <1>1, <1>2, <1>3, <1>5, <1>7
  DEF CoreInv, VerifiedIsConstructed, ConstructedIsVerified

LEMMA DecodeKeepsCore ==
  ASSUME CoreInv, Decode
  PROVE  CoreInv'
<1>1. /\ candidate.ok /\ verification = "NONE"
      /\ decoded' = decodeTransferIndependent(candidate.calldata)
      /\ UNCHANGED <<intent, trusted, candidate, verification, edits, contexts>>
  BY DEF Decode
<1>2. CoreTypeOK /\ candidate # NoResult
  BY <1>1, CandidateIs DEF CoreInv
<1>3. CoreTypeOK'
  BY <1>1, <1>2 DEF CoreTypeOK
<1>4. (Constructible' <=> Constructible) /\ Core' = Core
  BY <1>1 DEF Constructible, Core, Provenance
<1> QED
  BY <1>1, <1>2, <1>3, <1>4 DEF CoreInv, VerifiedIsConstructed, ConstructedIsVerified

LEMMA VerifyKeepsCore ==
  ASSUME CoreInv, VerifyCandidate
  PROVE  CoreInv'
<1>1. /\ candidate.ok /\ decoded # NoResult /\ verification = "NONE"
      /\ verification' = VerificationOf(candidate, decoded)
      /\ UNCHANGED <<intent, trusted, candidate, decoded, edits, contexts>>
  BY DEF VerifyCandidate
<1>2. CoreTypeOK /\ candidate # NoResult /\ candidate \in Cores
  BY <1>1, CandidateIs DEF CoreInv
<1>3. CoreTypeOK'
  BY <1>1, <1>2 DEF CoreTypeOK
<1>4. (Constructible' <=> Constructible) /\ Core' = Core
  BY <1>1 DEF Constructible, Core, Provenance
<1>5. VerifiedIsConstructed'
  BY <1>1, <1>2, <1>4, AcceptedIsCore DEF VerifiedIsConstructed
<1>6. ConstructedIsVerified'
  <2> SUFFICES ASSUME edits = 0, contexts = 0 PROVE verification' = "ok"
    BY <1>1 DEF ConstructedIsVerified
  <2>1. /\ Constructible /\ candidate = Core
        /\ decoded = decodeTransferIndependent(candidate.calldata)
    BY <1>1, <1>2 DEF CoreInv
  <2> QED BY <1>1, <1>2, <2>1, CoreIsAccepted
<1> QED
  BY <1>1, <1>2, <1>3, <1>4, <1>5, <1>6 DEF CoreInv

LEMMA EditedCalldataIs ==
  ASSUME NEW data \in Seq(0..Radix), NEW e \in EditedCalldata(data)
  PROVE  e \in Seq(0..Radix)
<1>1. Radix \in Nat \ {0, 1}
  BY TransferCoreAssumption
<1>2. \/ \E i \in DOMAIN data, d \in 0..Radix : e = [data EXCEPT ![i] = d]
      \/ e \in {Append(data, 0), Append(data, 1)}
      \/ data # <<>> /\ e = SubSeq(data, 1, Len(data) - 1)
  BY DEF EditedCalldata
<1>3. ASSUME NEW i \in DOMAIN data, NEW d \in 0..Radix, e = [data EXCEPT ![i] = d]
      PROVE  e \in Seq(0..Radix)
  <2>1. i \in 1..Len(data)
    BY LenProperties
  <2> QED BY <1>3, <2>1, ExceptSeq
<1>4. CASE e \in {Append(data, 0), Append(data, 1)}
  <2>1. 0 \in 0..Radix /\ 1 \in 0..Radix
    BY <1>1
  <2>2. Append(data, 0) \in Seq(0..Radix) /\ Append(data, 1) \in Seq(0..Radix)
    BY <2>1, AppendProperties
  <2> QED BY <1>4, <2>2
<1>5. CASE data # <<>> /\ e = SubSeq(data, 1, Len(data) - 1)
  <2>1. Len(data) \in Nat \ {0} /\ \A i \in 1..Len(data) : data[i] \in 0..Radix
    BY <1>5, Places
  <2>2. 1 \in Int /\ Len(data) - 1 \in Int /\ \A i \in 1..(Len(data) - 1) : i \in 1..Len(data)
    BY <2>1
  <2>3. \A i \in 1..(Len(data) - 1) : data[i] \in 0..Radix
    BY <2>1, <2>2
  <2> QED BY <1>5, <2>2, <2>3, SubSeqProperties
<1> QED BY <1>2, <1>3, <1>4, <1>5

LEMMA EditedIsCore ==
  ASSUME NEW c \in Cores, NEW e \in Edited(c)
  PROVE  e \in Cores
<1>1. \/ \E data \in EditedCalldata(c.calldata) : e = [c EXCEPT !.calldata = data]
      \/ \E r \in Recipients : e = [c EXCEPT !.recipient = r]
      \/ \E n \in Amounts, p \in BOOLEAN : e = [c EXCEPT !.amount = [number |-> n, padded |-> p]]
      \/ \E t \in TokenAddresses : e = [c EXCEPT !.target = t]
      \/ e \in {[c EXCEPT !.keys = "bad"], [c EXCEPT !.action = "bad"],
                [c EXCEPT !.chain = "other"], [c EXCEPT !.from = "other"]}
      \/ e \in {[c EXCEPT !.value = "bad"], [c EXCEPT !.selector = "bad"],
                [c EXCEPT !.nonce = "bad"], [c EXCEPT !.fixture = 0]}
      \/ e = [c EXCEPT !.provenance.intent = "another"]
  BY DEF Edited
<1>2. ASSUME NEW data \in EditedCalldata(c.calldata), e = [c EXCEPT !.calldata = data]
      PROVE  e \in Cores
  <2>1. c.calldata \in Seq(0..Radix)
    BY DEF Cores
  <2>2. data \in Seq(0..Radix)
    BY <2>1, EditedCalldataIs
  <2> QED BY <1>2, <2>2 DEF Cores
<1>3. ASSUME NEW r \in Recipients, e = [c EXCEPT !.recipient = r] PROVE e \in Cores
  BY <1>3 DEF Cores
<1>4. ASSUME NEW n \in Amounts, NEW p \in BOOLEAN,
             e = [c EXCEPT !.amount = [number |-> n, padded |-> p]]
      PROVE  e \in Cores
  <2>1. [number |-> n, padded |-> p] \in [number : Nat, padded : BOOLEAN]
    BY Inputs
  <2> QED BY <1>4, <2>1 DEF Cores
<1>5. ASSUME NEW t \in TokenAddresses, e = [c EXCEPT !.target = t] PROVE e \in Cores
  BY <1>5 DEF Cores
<1>6. CASE e \in {[c EXCEPT !.keys = "bad"], [c EXCEPT !.action = "bad"],
                 [c EXCEPT !.chain = "other"], [c EXCEPT !.from = "other"]}
  <2>1. [c EXCEPT !.keys = "bad"] \in Cores
    BY DEF Cores
  <2>2. [c EXCEPT !.action = "bad"] \in Cores
    BY DEF Cores
  <2>3. [c EXCEPT !.chain = "other"] \in Cores
    BY DEF Cores
  <2>4. [c EXCEPT !.from = "other"] \in Cores
    BY DEF Cores
  <2> QED BY <1>6, <2>1, <2>2, <2>3, <2>4
<1>7. CASE e \in {[c EXCEPT !.value = "bad"], [c EXCEPT !.selector = "bad"],
                 [c EXCEPT !.nonce = "bad"], [c EXCEPT !.fixture = 0]}
  <2>1. [c EXCEPT !.value = "bad"] \in Cores
    BY DEF Cores
  <2>2. [c EXCEPT !.selector = "bad"] \in Cores
    BY DEF Cores
  <2>3. [c EXCEPT !.nonce = "bad"] \in Cores
    BY DEF Cores
  <2>4. [c EXCEPT !.fixture = 0] \in Cores
    BY DEF Cores
  <2> QED BY <1>7, <2>1, <2>2, <2>3, <2>4
<1>8. CASE e = [c EXCEPT !.provenance.intent = "another"]
  <2>1. [c.provenance EXCEPT !.intent = "another"]
          \in [intent : {"this", "another"}, operation : {"one", "another"}]
    BY DEF Cores
  <2> QED BY <1>8, <2>1 DEF Cores
<1> QED BY <1>1, <1>2, <1>3, <1>4, <1>5, <1>6, <1>7, <1>8

LEMMA EditKeepsCore ==
  ASSUME CoreInv, Edit
  PROVE  CoreInv'
<1>1. /\ candidate.ok /\ verification = "NONE"
      /\ candidate' \in Edited(candidate) /\ edits' = edits + 1
      /\ UNCHANGED <<intent, trusted, decoded, verification, contexts>>
  BY DEF Edit
<1>2. CoreTypeOK /\ candidate \in Cores
  BY <1>1, CandidateIs DEF CoreInv
<1>3. candidate' \in Cores
  BY <1>1, <1>2, EditedIsCore
<1>4. candidate' # NoResult
  BY <1>3 DEF Cores, NoResult
<1>5. CoreTypeOK' /\ edits' # 0
  BY <1>1, <1>2, <1>3 DEF CoreTypeOK
<1> QED
  BY <1>1, <1>4, <1>5 DEF CoreInv, VerifiedIsConstructed, ConstructedIsVerified

LEMMA ChangeKeepsCore ==
  ASSUME CoreInv, ChangeContext
  PROVE  CoreInv'
<1>1. /\ verification = "NONE" /\ contexts' = contexts + 1
      /\ UNCHANGED <<intent, candidate, decoded, verification, edits>>
      /\ \/ trusted' = [trusted EXCEPT !.operation = "another"]
         \/ \E t \in TokenAddresses :
              trusted' = [trusted EXCEPT !.fixture = @ + 1, !.token = t]
  BY DEF ChangeContext
<1>2. CoreTypeOK /\ (candidate = NoResult => decoded = NoResult)
  BY DEF CoreInv
<1>3. trusted' \in Contexts
  <2>1. trusted \in Contexts
    BY <1>2 DEF CoreTypeOK
  <2>2. [trusted EXCEPT !.operation = "another"] \in Contexts
    BY <2>1 DEF Contexts
  <2>3. \A t \in TokenAddresses : [trusted EXCEPT !.fixture = @ + 1, !.token = t] \in Contexts
    <3> TAKE t \in TokenAddresses
    <3>1. trusted.fixture + 1 \in Nat
      BY <2>1 DEF Contexts
    <3> QED BY <2>1, <3>1 DEF Contexts
  <2> QED BY <1>1, <2>2, <2>3
<1>4. CoreTypeOK' /\ contexts' # 0
  <2>1. contexts \in Nat
    BY <1>2 DEF CoreTypeOK
  <2>2. contexts' \in Nat /\ contexts' # 0
    <3>1. contexts' = contexts + 1
      BY <1>1
    <3> QED BY <2>1, <3>1
  <2> QED BY <1>1, <1>2, <1>3, <2>2 DEF CoreTypeOK
<1> QED
  BY <1>1, <1>2, <1>4 DEF CoreInv, VerifiedIsConstructed, ConstructedIsVerified

LEMMA CoreStep == CoreInv /\ [CoreNext]_coreVars => CoreInv'
<1> SUFFICES ASSUME CoreInv, [CoreNext]_coreVars PROVE CoreInv'
  OBVIOUS
<1>1. CASE UNCHANGED coreVars
  BY <1>1
  DEF coreVars, CoreInv, CoreTypeOK, Constructible, Core, Provenance,
      VerifiedIsConstructed, ConstructedIsVerified
<1> QED
  BY <1>1, ConstructKeepsCore, DecodeKeepsCore, VerifyKeepsCore, EditKeepsCore,
     ChangeKeepsCore
  DEF CoreNext

-----------------------------------------------------------------------------
(* TransferCore: the theorems. *)

\* The invariant of construction, decoding and verification
\* (construct-transfer.ts, decode-transfer.ts, verify-transfer.ts).
THEOREM CoreHolds == CoreSpec => []CoreInv
BY CoreInitInv, CoreStep, PTL DEF CoreSpec

\* The verifier accepts the constructor's candidate and no other, whatever the
\* caller did to its fields and its calldata and whenever the context changed.
THEOREM VerifiedIsTheConstructed == CoreSpec => []VerifiedIsConstructed
<1>1. CoreInv => VerifiedIsConstructed
  BY DEF CoreInv
<1> QED BY <1>1, CoreHolds, PTL

\* What the constructor makes, the independent decoder reads back and the
\* verifier accepts: for every recipient and every amount that fits a word.
THEOREM ConstructedAlwaysVerifies == CoreSpec => []ConstructedIsVerified
<1>1. CoreInv => ConstructedIsVerified
  BY DEF CoreInv
<1> QED BY <1>1, CoreHolds, PTL

=============================================================================
