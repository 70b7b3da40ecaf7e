----------------------------- MODULE SumsProofs -----------------------------
(***************************************************************************)
(* Numbers, recursion on them, and the sum of a list of amounts: what the  *)
(* proofs about the arithmetic and about the outputs share.  A predicate   *)
(* on numbers is the set of those it holds of.                             *)
(***************************************************************************)
EXTENDS Sums, WellFoundedInduction, TLAPS

-----------------------------------------------------------------------------
(* Numbers and recursion on them. *)

(* Every set of numbers that is not empty has a least one. *)
LEMMA LeastNumber ==
  ASSUME NEW T \in SUBSET Nat, T # {}
  PROVE  \E m \in T : \A k \in T : m <= k
<1>1. PICK m \in T : \A y \in T : ~ (<<y, m>> \in OpToRel(<, Nat))
  BY NatLessThanWellFounded, WFMin
<1>2. \A y \in T : ~ (y < m)
  BY <1>1, Zenon DEF OpToRel
<1> QED BY <1>2

(* Induction, the predicate being a set. *)
LEMMA Induction ==
  ASSUME NEW S, 0 \in S, \A i \in Nat : i \in S => i + 1 \in S
  PROVE  \A i \in Nat : i \in S
<1> SUFFICES ASSUME NEW x \in Nat, x \notin S
             PROVE  FALSE
  OBVIOUS
<1>1. PICK m \in Nat \ S : \A k \in Nat \ S : m <= k
  BY LeastNumber, Zenon
<1>2. m # 0 /\ m - 1 \in Nat /\ m - 1 \in S
  BY <1>1
<1> QED BY <1>1, <1>2

(* Induction from all smaller numbers. *)
LEMMA StrongInduction ==
  ASSUME NEW S, \A i \in Nat : (\A j \in Nat : j < i => j \in S) => i \in S
  PROVE  \A i \in Nat : i \in S
<1> SUFFICES ASSUME NEW x \in Nat, x \notin S
             PROVE  FALSE
  OBVIOUS
<1>1. PICK m \in Nat \ S : \A k \in Nat \ S : m <= k
  BY LeastNumber, Zenon
<1>2. \A j \in Nat : j < m => j \in S
  BY <1>1
<1> QED BY <1>1, <1>2

(* A bounded set of numbers that is not empty has a greatest one. *)
LEMMA GreatestNumber ==
  ASSUME NEW T \in SUBSET Nat, T # {}, NEW b \in Nat, \A k \in T : k <= b
  PROVE  \E m \in T : \A k \in T : k <= m
<1> DEFINE bounds == {c \in Nat : \A k \in T : k <= c}
<1>1. bounds # {}
  OBVIOUS
<1>2. PICK c \in bounds : \A d \in bounds : c <= d
  BY <1>1, LeastNumber, Zenon
<1>3. CASE c \in T
  BY <1>2, <1>3
<1>4. CASE c \notin T
  <2>1. \A k \in T : k < c
    BY <1>2, <1>4
  <2>2. c # 0 /\ c - 1 \in Nat
    <3>1. PICK k \in T : TRUE
      BY Zenon
    <3> QED BY <2>1, <1>2, <3>1
  <2>3. c - 1 \in bounds
    BY <2>1, <2>2
  <2> QED BY <1>2, <2>2, <2>3
<1> QED BY <1>3, <1>4

(* The value of f at r is given, or made from its value at down[r]. *)
Recurs(f, stop, down, base, step) ==
    \A r \in Nat : f[r] = IF r \in stop THEN base[r] ELSE step[<<r, f[down[r]]>>]

(* Such a function exists when down[r] is smaller than r. *)
LEMMA Descent ==
  ASSUME NEW V, NEW stop \in SUBSET Nat, NEW down \in [Nat -> Nat],
         NEW base \in [Nat -> V], NEW step \in [Nat \X V -> V],
         \A r \in Nat \ stop : down[r] < r
  PROVE  \E f \in [Nat -> V] : Recurs(f, stop, down, base, step)
<1> DEFINE at(f, r) == IF r \in stop THEN base[r] ELSE step[<<r, f[down[r]]>>]
           upto(f, k) == \A r \in Nat : r <= k => f[r] = at(f, r)
<1>1. ASSUME NEW f \in [Nat -> V], NEW r \in Nat
      PROVE  at(f, r) \in V
  OBVIOUS
<1>2. \A k \in Nat : \E f \in [Nat -> V] : upto(f, k)
  <2> DEFINE S == {k \in Nat : \E f \in [Nat -> V] : upto(f, k)}
  <2>1. 0 \in S
    <3>1. 0 \in stop
      OBVIOUS
    <3>2. upto(base, 0)
      BY <3>1
    <3> QED BY <3>2
  <2>2. ASSUME NEW k \in Nat, k \in S
        PROVE  k + 1 \in S
    <3>1. PICK f \in [Nat -> V] : upto(f, k)
      BY <2>2
    <3> DEFINE g == [f EXCEPT ![k + 1] = at(f, k + 1)]
    <3>2. g \in [Nat -> V]
      BY <1>1
    <3>3. \A r \in Nat : r <= k => g[r] = f[r]
      OBVIOUS
    <3>4. ASSUME NEW r \in Nat, r <= k + 1
          PROVE  at(g, r) = at(f, r)
      <4>1. CASE r \in stop
        BY <4>1
      <4>2. CASE r \notin stop
        <5>1. down[r] \in Nat /\ down[r] <= k
          BY <3>4, <4>2
        <5>2. g[down[r]] = f[down[r]]
          BY <5>1, <3>3
        <5> QED BY <4>2, <5>2
      <4> QED BY <4>1, <4>2
    <3>5. g[k + 1] = at(f, k + 1)
      OBVIOUS
    <3>6. upto(g, k + 1)
      <4> SUFFICES ASSUME NEW r \in Nat, r <= k + 1
                   PROVE  g[r] = at(g, r)
        OBVIOUS
      <4>1. CASE r = k + 1
        BY <4>1, <3>4, <3>5
      <4>2. CASE r <= k
        <5>1. f[r] = at(f, r)
          BY <4>2, <3>1
        <5> QED BY <4>2, <5>1, <3>3, <3>4
      <4> QED BY <4>1, <4>2
    <3>7. \E f1 \in [Nat -> V] : upto(f1, k + 1)
      <4> HIDE DEF g, upto
      <4> QED BY <3>2, <3>6
    <3>8. k + 1 \in Nat
      OBVIOUS
    <3> HIDE DEF g, upto
    <3> QED BY <3>7, <3>8
  <2>3. \A k \in Nat : k \in S => k + 1 \in S
    BY <2>2, Zenon
  <2> HIDE DEF S
  <2>4. \A k \in Nat : k \in S
    BY <2>1, <2>3, Induction
  <2> QED BY <2>4, Zenon DEF S
<1>3. ASSUME NEW f \in [Nat -> V], NEW g \in [Nat -> V], NEW k \in Nat, upto(f, k), upto(g, k)
      PROVE  \A r \in Nat : r <= k => f[r] = g[r]
  <2> DEFINE S == {r \in Nat : r <= k => f[r] = g[r]}
  <2>1. ASSUME NEW i \in Nat, \A j \in Nat : j < i => j \in S
        PROVE  i \in S
    <3> SUFFICES ASSUME i <= k
                 PROVE  f[i] = g[i]
      OBVIOUS
    <3>1. f[i] = at(f, i) /\ g[i] = at(g, i)
      BY <1>3
    <3>2. CASE i \in stop
      BY <3>1, <3>2
    <3>3. CASE i \notin stop
      <4>1. down[i] \in Nat /\ down[i] < i
        BY <3>3
      <4>2. f[down[i]] = g[down[i]]
        BY <4>1, <2>1
      <4> QED BY <3>1, <3>3, <4>2
    <3> QED BY <3>2, <3>3
  <2> HIDE DEF S
  <2>2. \A i \in Nat : i \in S
    BY <2>1, StrongInduction
  <2> QED BY <2>2 DEF S
<1> DEFINE h == [k \in Nat |-> CHOOSE f \in [Nat -> V] : upto(f, k)]
           F == [r \in Nat |-> h[r][r]]
<1>4. ASSUME NEW k \in Nat
      PROVE  h[k] \in [Nat -> V] /\ upto(h[k], k)
  <2>1. h[k] = CHOOSE f \in [Nat -> V] : upto(f, k)
    BY Zenon
  <2>2. \E f \in [Nat -> V] : upto(f, k)
    BY <1>2, Zenon
  <2> HIDE DEF upto, h
  <2> QED BY <2>1, <2>2
<1> HIDE DEF h
<1>5. F \in [Nat -> V]
  <2> HIDE DEF upto
  <2>1. \A r \in Nat : h[r][r] \in V
    BY <1>4
  <2> QED BY <2>1
<1>6. ASSUME NEW r \in Nat
      PROVE  F[r] = at(F, r)
  <2>1. F[r] = h[r][r] /\ h[r][r] = at(h[r], r)
    BY <1>4
  <2>2. CASE r \in stop
    BY <2>1, <2>2
  <2>3. CASE r \notin stop
    <3> DEFINE d == down[r]
    <3>1. d \in Nat /\ d < r
      BY <2>3
    <3>2. upto(h[r], d)
      <4>1. upto(h[r], r)
        BY <1>4
      <4> HIDE DEF at
      <4> QED BY <3>1, <4>1
    <3>3. h[r][d] = h[d][d]
      <4> HIDE DEF upto
      <4> QED BY <3>1, <3>2, <1>3, <1>4
    <3>4. F[d] = h[d][d]
      BY <3>1
    <3> QED BY <2>1, <2>3, <3>3, <3>4, Zenon
  <2> QED BY <2>2, <2>3
<1>7. Recurs(F, stop, down, base, step)
  BY <1>6, Zenon DEF Recurs
<1> HIDE DEF F
<1> QED BY <1>5, <1>7

-----------------------------------------------------------------------------
(* Sums. *)

(* One number for each element of a sequence. *)
LEMMA NumbersOf ==
  ASSUME NEW S, NEW s \in Seq(S), NEW f, f = [i \in DOMAIN s |-> f[i]],
         \A i \in DOMAIN s : f[i] \in Nat
  PROVE  f \in Seq(Nat) /\ Len(f) = Len(s)
<1>1. DOMAIN s = 1..Len(s) /\ Len(s) \in Nat
  OBVIOUS
<1>2. f \in [1..Len(s) -> Nat]
  BY <1>1, Zenon
<1> QED BY <1>1, <1>2

(* The partial sums of a list of amounts exist. *)
LEMMA SumsExist ==
  ASSUME NEW L \in Nat, NEW s \in [1..L -> Nat]
  PROVE  \E f : f = [i \in 0..L |-> IF i = 0 THEN 0 ELSE f[i - 1] + s[i]]
<1> DEFINE down == [r \in Nat |-> IF r = 0 THEN 0 ELSE r - 1]
           base == [r \in Nat |-> 0]
           step == [p \in Nat \X Nat |-> IF p[1] \in 1..L THEN p[2] + s[p[1]] ELSE p[2]]
           stop == {0}
<1>1. PICK f \in [Nat -> Nat] : Recurs(f, stop, down, base, step)
  <2>1. down \in [Nat -> Nat] /\ base \in [Nat -> Nat] /\ stop \in SUBSET Nat
    OBVIOUS
  <2>2. step \in [Nat \X Nat -> Nat]
    OBVIOUS
  <2>3. \A r \in Nat \ stop : down[r] < r
    OBVIOUS
  <2> HIDE DEF down, base, step, stop
  <2> QED BY <2>1, <2>2, <2>3, Descent, Zenon
<1>2. f[0] = 0
  BY <1>1, Zenon DEF Recurs
<1>3. ASSUME NEW i \in 1..L
      PROVE  f[i] = f[i - 1] + s[i]
  <2>1. i \in Nat /\ i - 1 \in Nat /\ i \notin stop /\ f[i - 1] \in Nat
    OBVIOUS
  <2>2. down[i] = i - 1
    BY <2>1
  <2>3. step[<<i, f[i - 1]>>] = f[i - 1] + s[i]
    BY <2>1, Zenon
  <2> HIDE DEF step, down, base, stop
  <2>4. f[i] = step[<<i, f[down[i]]>>]
    BY <2>1, <1>1, Zenon DEF Recurs
  <2> QED BY <2>2, <2>3, <2>4
<1> HIDE DEF down, base, step, stop
<1> DEFINE g == [i \in 0..L |-> f[i]]
<1>4. \A i \in 0..L : f[i] = IF i = 0 THEN 0 ELSE g[i - 1] + s[i]
  <2> SUFFICES ASSUME NEW i \in 0..L, i # 0
               PROVE  f[i] = g[i - 1] + s[i]
    BY <1>2
  <2>1. i \in 1..L /\ i - 1 \in 0..L
    OBVIOUS
  <2> QED BY <2>1, <1>3
<1>5. g = [i \in 0..L |-> IF i = 0 THEN 0 ELSE g[i - 1] + s[i]]
  BY <1>4, SMTT(30)
<1> HIDE DEF g
<1> QED BY <1>5, Zenon

(* SumOf adds the elements up one by one. *)
LEMMA PartialSums ==
  ASSUME NEW s \in Seq(Nat)
  PROVE  \E f \in [0..Len(s) -> Nat] :
            /\ f[0] = 0
            /\ \A i \in 1..Len(s) : f[i] = f[i - 1] + s[i]
            /\ SumOf(s) = f[Len(s)]
<1> DEFINE Eq(f, L) == f = [i \in 0..L |-> IF i = 0 THEN 0 ELSE f[i - 1] + s[i]]
           sum == CHOOSE f : Eq(f, Len(s))
<1>1. Len(s) \in Nat /\ s \in [1..Len(s) -> Nat]
  OBVIOUS
<1>2. SumOf(s) = sum[Len(s)]
  BY DEF SumOf
<1>3. Eq(sum, Len(s))
  <2>1. \E f : Eq(f, Len(s))
    BY <1>1, SumsExist, Zenon
  <2> HIDE DEF Eq
  <2> QED BY <2>1
<1> HIDE DEF sum
<1>4. ASSUME NEW L \in Nat, NEW g, s \in [1..L -> Nat], Eq(g, L)
      PROVE  /\ g \in [0..L -> Nat]
             /\ g[0] = 0
             /\ \A i \in 1..L : g[i] = g[i - 1] + s[i]
  <2>1. g[0] = 0
    BY <1>4
  <2>2. ASSUME NEW i \in 1..L
        PROVE  g[i] = g[i - 1] + s[i]
    BY <1>4
  <2> DEFINE S == {j \in Nat : j <= L => g[j] \in Nat}
  <2>3. 0 \in S
    BY <2>1
  <2>4. ASSUME NEW i \in Nat, i \in S
        PROVE  i + 1 \in S
    <3> SUFFICES ASSUME i + 1 <= L
                 PROVE  g[i + 1] \in Nat
      OBVIOUS
    <3>1. i + 1 \in 1..L /\ g[i] \in Nat /\ (i + 1) - 1 = i
      BY <2>4
    <3>2. g[i + 1] = g[i] + s[i + 1]
      BY <2>2, <3>1
    <3>3. s[i + 1] \in Nat
      BY <1>4, <3>1, Zenon
    <3> QED BY <3>1, <3>2, <3>3
  <2> HIDE DEF S
  <2>5. \A i \in Nat : i \in S
    BY <2>3, <2>4, Induction, Zenon
  <2>6. \A i \in 0..L : g[i] \in Nat
    BY <2>5 DEF S
  <2> QED BY <1>4, <2>1, <2>2, <2>6, Zenon
<1> HIDE DEF Eq
<1> QED BY <1>1, <1>2, <1>3, <1>4

(* ... of which there is only one way. *)
LEMMA SumIs ==
  ASSUME NEW s \in Seq(Nat), NEW f,
         f[0] = 0, \A i \in 1..Len(s) : f[i] = f[i - 1] + s[i]
  PROVE  SumOf(s) = f[Len(s)] /\ SumOf(s) \in Nat
<1>1. PICK g \in [0..Len(s) -> Nat] :
            /\ g[0] = 0
            /\ \A i \in 1..Len(s) : g[i] = g[i - 1] + s[i]
            /\ SumOf(s) = g[Len(s)]
  BY PartialSums
<1> DEFINE S == {i \in Nat : i <= Len(s) => f[i] = g[i]}
<1>2. 0 \in S
  BY <1>1
<1>3. \A i \in Nat : i \in S => i + 1 \in S
  <2> SUFFICES ASSUME NEW i \in Nat, i \in S, i + 1 <= Len(s)
               PROVE  f[i + 1] = g[i + 1]
    OBVIOUS
  <2>1. i + 1 \in 1..Len(s) /\ (i + 1) - 1 = i /\ i <= Len(s)
    OBVIOUS
  <2>2. f[i + 1] = f[i] + s[i + 1] /\ g[i + 1] = g[i] + s[i + 1]
    BY <1>1, <2>1
  <2> QED BY <2>1, <2>2
<1> HIDE DEF S
<1>4. \A i \in Nat : i \in S
  BY <1>2, <1>3, Induction, Zenon
<1>5. Len(s) \in S /\ Len(s) \in 0..Len(s)
  BY <1>4
<1> QED BY <1>1, <1>5 DEF S

(* A sum is a number, that of nothing is 0 and that of one amount is it. *)
LEMMA SmallSums ==
  /\ \A s \in Seq(Nat) : SumOf(s) \in Nat
  /\ SumOf(<< >>) = 0
  /\ \A a \in Nat : SumOf(<< a >>) = a
<1>1. \A s \in Seq(Nat) : SumOf(s) \in Nat
  <2> SUFFICES ASSUME NEW s \in Seq(Nat)
               PROVE  SumOf(s) \in Nat
    OBVIOUS
  <2>1. PICK f \in [0..Len(s) -> Nat] : SumOf(s) = f[Len(s)]
    BY PartialSums
  <2>2. Len(s) \in 0..Len(s)
    OBVIOUS
  <2> QED BY <2>1, <2>2
<1>2. SumOf(<< >>) = 0
  <2> DEFINE s == << >>
  <2>1. s \in Seq(Nat) /\ Len(s) = 0
    OBVIOUS
  <2> HIDE DEF s
  <2>2. PICK f \in [0..Len(s) -> Nat] : f[0] = 0 /\ SumOf(s) = f[Len(s)]
    BY <2>1, PartialSums, Zenon
  <2> QED BY <2>1, <2>2 DEF s
<1>3. ASSUME NEW a \in Nat
      PROVE  SumOf(<< a >>) = a
  <2> DEFINE s == << a >>
  <2>1. s \in Seq(Nat) /\ Len(s) = 1 /\ s[1] = a
    OBVIOUS
  <2> HIDE DEF s
  <2>2. PICK f \in [0..Len(s) -> Nat] :
            f[0] = 0 /\ (\A i \in 1..Len(s) : f[i] = f[i - 1] + s[i]) /\ SumOf(s) = f[Len(s)]
    BY <2>1, PartialSums, Zenon
  <2>3. f[1] = f[1 - 1] + s[1]
    BY <2>1, <2>2
  <2> QED BY <2>1, <2>2, <2>3 DEF s
<1> QED BY <1>1, <1>2, <1>3

(* The sum of two lists, one after the other. *)
LEMMA SumOfBoth ==
  ASSUME NEW s \in Seq(Nat), NEW t \in Seq(Nat)
  PROVE  SumOf(s \o t) = SumOf(s) + SumOf(t) /\ s \o t \in Seq(Nat)
<1>1. PICK f \in [0..Len(s) -> Nat] :
            f[0] = 0 /\ (\A i \in 1..Len(s) : f[i] = f[i - 1] + s[i]) /\ SumOf(s) = f[Len(s)]
  BY PartialSums, Zenon
<1>2. PICK g \in [0..Len(t) -> Nat] :
            g[0] = 0 /\ (\A i \in 1..Len(t) : g[i] = g[i - 1] + t[i]) /\ SumOf(t) = g[Len(t)]
  BY PartialSums
<1> DEFINE a == Len(s)
           b == Len(t)
           c == s \o t
           h == [i \in 0..(a + b) |-> IF i <= a THEN f[i] ELSE f[a] + g[i - a]]
<1>3. /\ a \in Nat /\ b \in Nat /\ c \in Seq(Nat) /\ Len(c) = a + b
      /\ \A i \in 1..(a + b) : c[i] = IF i <= a THEN s[i] ELSE t[i - a]
  OBVIOUS
<1> HIDE DEF a, b, c
<1>4. h[0] = 0
  BY <1>1, <1>3
<1>5. f[a] \in Nat /\ SumOf(s) = f[a] /\ g[b] \in Nat /\ SumOf(t) = g[b]
  <2>1. Len(s) \in 0..Len(s) /\ Len(t) \in 0..Len(t)
    OBVIOUS
  <2> QED BY <1>1, <1>2, <2>1, Zenon DEF a, b
<1>6. ASSUME NEW i \in 1..(a + b)
      PROVE  h[i] = h[i - 1] + c[i]
  <2>1. CASE i <= a
    <3>1. i \in 1..a /\ i - 1 <= a /\ i - 1 \in 0..(a + b) /\ i \in 0..(a + b)
      BY <2>1, <1>3
    <3>2. f[i] = f[i - 1] + s[i]
      BY <3>1, <1>1 DEF a
    <3> QED BY <3>1, <3>2, <2>1, <1>3, Zenon
  <2>2. CASE i > a
    <3>1. i - a \in 1..b /\ i - 1 \in 0..(a + b) /\ i \in 0..(a + b) /\ i \in Nat
          /\ (i - a) - 1 = (i - 1) - a /\ (i - 1 <= a => i - 1 = a)
      <4>1. a \in Nat /\ b \in Nat
        BY <1>3
      <4> QED BY <2>2, <4>1
    <3>2. g[i - a] = g[(i - 1) - a] + t[i - a] /\ g[0] = 0
      BY <3>1, <1>2, Zenon DEF b
    <3>3. h[i - 1] = f[a] + g[(i - 1) - a]
      <4>1. CASE i - 1 = a
        <5>1. h[i - 1] = f[a] /\ (i - 1) - a = 0
          BY <3>1, <4>1, <1>3
        <5> QED BY <5>1, <3>2, <1>5, SMTT(30)
      <4>2. CASE ~(i - 1 <= a)
        BY <3>1, <4>2
      <4> QED BY <3>1, <4>1, <4>2
    <3>4. h[i] = f[a] + g[i - a] /\ c[i] = t[i - a]
      BY <3>1, <2>2, <1>3
    <3>5. g[(i - 1) - a] \in Nat /\ t[i - a] \in Nat
      <4>1. (i - 1) - a \in 0..b
        BY <3>1, <1>3
      <4> QED BY <4>1, <3>1 DEF b
    <3> HIDE DEF h
    <3> QED BY <3>2, <3>3, <3>4, <3>5, <1>5, SMTT(30)
  <2> QED BY <2>1, <2>2, <1>3
<1>7. SumOf(c) = h[a + b]
  <2> HIDE DEF h
  <2>1. \A i \in 1..Len(c) : h[i] = h[i - 1] + c[i]
    BY <1>3, <1>6
  <2>2. SumOf(c) = h[Len(c)]
    BY <1>3, <1>4, <2>1, SumIs, Zenon
  <2> QED BY <1>3, <2>2
<1>8. h[a + b] = f[a] + g[b]
  <2>1. CASE b = 0
    <3>1. g[b] = 0
      BY <2>1, <1>2
    <3> QED BY <3>1, <2>1, <1>3, <1>5
  <2>2. CASE b # 0
    <3>1. ~(a + b <= a) /\ (a + b) - a = b
      BY <2>2, <1>3
    <3> QED BY <3>1, <1>3
  <2> QED BY <2>1, <2>2
<1> QED BY <1>3, <1>5, <1>7, <1>8 DEF c

(* The order of the amounts reversed leaves the sum. *)
LEMMA SumOfReverse ==
  ASSUME NEW s \in Seq(Nat), NEW t \in Seq(Nat), Len(t) = Len(s),
         \A i \in 1..Len(s) : t[i] = s[Len(s) - i + 1]
  PROVE  SumOf(t) = SumOf(s)
<1>1. PICK f \in [0..Len(s) -> Nat] :
            f[0] = 0 /\ (\A i \in 1..Len(s) : f[i] = f[i - 1] + s[i]) /\ SumOf(s) = f[Len(s)]
  BY PartialSums, Zenon
<1> DEFINE a == Len(s)
           h == [i \in 0..a |-> f[a] - f[a - i]]
<1>2. a \in Nat /\ Len(t) = a /\ \A i \in 1..a : t[i] = s[a - i + 1] /\ s[i] \in Nat
  OBVIOUS
<1>3. f \in [0..a -> Nat] /\ f[0] = 0 /\ (\A i \in 1..a : f[i] = f[i - 1] + s[i])
      /\ SumOf(s) = f[a]
  BY <1>1
<1> HIDE DEF a
<1>4. h[0] = 0 /\ h[a] = f[a]
  <2>1. 0 \in 0..a /\ a \in 0..a /\ a - a = 0 /\ a - 0 = a /\ f[a] \in Nat
    BY <1>2, <1>3
  <2>2. h[0] = f[a] - f[a - 0] /\ h[a] = f[a] - f[a - a]
    BY <2>1
  <2> QED BY <2>1, <2>2, <1>3
<1>5. ASSUME NEW i \in 1..a
      PROVE  h[i] = h[i - 1] + t[i]
  <2>1. /\ a - i + 1 \in 1..a /\ a - (i - 1) = a - i + 1 /\ (a - i + 1) - 1 = a - i
        /\ a - i \in 0..a /\ i - 1 \in 0..a /\ i \in 0..a /\ a - i + 1 \in 0..a /\ a \in 0..a
    BY <1>2
  <2>2. f[a - i + 1] = f[a - i] + s[a - i + 1]
    BY <2>1, <1>3, Zenon
  <2>3. h[i] = f[a] - f[a - i] /\ h[i - 1] = f[a] - f[a - i + 1] /\ t[i] = s[a - i + 1]
    BY <2>1, <1>2
  <2>4. f[a] \in Nat /\ f[a - i] \in Nat /\ s[a - i + 1] \in Nat
    BY <2>1, <1>2, <1>3
  <2>5. f[a] - f[a - i] = (f[a] - (f[a - i] + s[a - i + 1])) + s[a - i + 1]
    <3>1. \A x, y, z \in Nat : x - y = (x - (y + z)) + z
      OBVIOUS
    <3> QED BY <2>4, <3>1, Zenon
  <2> HIDE DEF h
  <2> QED BY <2>2, <2>3, <2>5, Zenon
<1>6. SumOf(t) = h[a]
  <2> HIDE DEF h
  <2>1. \A i \in 1..Len(t) : h[i] = h[i - 1] + t[i]
    BY <1>2, <1>5
  <2>2. SumOf(t) = h[Len(t)]
    BY <1>4, <2>1, SumIs
  <2> QED BY <1>2, <2>2
<1> QED BY <1>3, <1>4, <1>6

(* Larger amounts have a larger sum. *)
LEMMA SumGrows ==
  ASSUME NEW s \in Seq(Nat), NEW t \in Seq(Nat), Len(t) = Len(s),
         \A i \in 1..Len(s) : s[i] <= t[i]
  PROVE  SumOf(s) <= SumOf(t)
<1>1. PICK f \in [0..Len(s) -> Nat] :
            f[0] = 0 /\ (\A i \in 1..Len(s) : f[i] = f[i - 1] + s[i]) /\ SumOf(s) = f[Len(s)]
  BY PartialSums, Zenon
<1>2. PICK g \in [0..Len(t) -> Nat] :
            g[0] = 0 /\ (\A i \in 1..Len(t) : g[i] = g[i - 1] + t[i]) /\ SumOf(t) = g[Len(t)]
  BY PartialSums, Zenon
<1> DEFINE S == {i \in Nat : i <= Len(s) => f[i] <= g[i]}
<1>3. Len(s) \in Nat
  OBVIOUS
<1>4. 0 \in S
  BY <1>1, <1>2
<1>5. \A i \in Nat : i \in S => i + 1 \in S
  <2> SUFFICES ASSUME NEW i \in Nat, i \in S, i + 1 <= Len(s)
               PROVE  f[i + 1] <= g[i + 1]
    OBVIOUS
  <2>1. i + 1 \in 1..Len(s) /\ i \in 0..Len(s) /\ (i + 1) - 1 = i /\ i <= Len(s)
    BY <1>3
  <2>2. f[i + 1] = f[i] + s[i + 1] /\ g[i + 1] = g[i] + t[i + 1]
    BY <1>1, <1>2, <2>1, Zenon
  <2>3. f[i] \in Nat /\ g[i] \in Nat /\ s[i + 1] \in Nat /\ t[i + 1] \in Nat
    <3>1. i \in 0..Len(t) /\ i + 1 \in DOMAIN s /\ i + 1 \in DOMAIN t
      BY <2>1
    <3>2. f[i] \in Nat /\ g[i] \in Nat
      BY <2>1, <3>1, Zenon
    <3>3. \A u \in Seq(Nat) : \A j \in DOMAIN u : u[j] \in Nat
      OBVIOUS
    <3> QED BY <3>1, <3>2, <3>3, Zenon
  <2>4. f[i] <= g[i] /\ s[i + 1] <= t[i + 1]
    BY <2>1
  <2>5. \A w, x, y, z \in Nat : w <= x /\ y <= z => w + y <= x + z
    OBVIOUS
  <2> QED BY <2>2, <2>3, <2>4, <2>5, SMTT(30)
<1> HIDE DEF S
<1>6. Len(s) \in S
  BY <1>3, <1>4, <1>5, Induction, Zenon
<1> QED BY <1>1, <1>2, <1>3, <1>6 DEF S
=============================================================================
