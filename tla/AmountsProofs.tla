--------------------------- MODULE AmountsProofs ---------------------------
(***************************************************************************)
(* Proofs about the amount arithmetic, for every keyset, maximum output    *)
(* amount, balance, funding amount, list of inputs and price list.         *)
(***************************************************************************)
EXTENDS Amounts, SumsProofs

-----------------------------------------------------------------------------
(* Splitting. *)

(* The largest of a bounded set. *)
LEMMA MaxIsLargest ==
  ASSUME NEW T \in SUBSET Nat, T # {}, NEW b \in Nat, \A k \in T : k <= b
  PROVE  Max(T) \in T /\ \A k \in T : k <= Max(T)
<1>1. PICK m \in T : \A k \in T : k <= m
  BY GreatestNumber, Zenon
<1>2. \E x \in T : \A y \in T : x >= y
  BY <1>1
<1>3. Max(T) \in T /\ \A y \in T : Max(T) >= y
  BY <1>2, Zenon DEF Max
<1>4. Max(T) \in Nat
  BY <1>3, Zenon
<1> QED BY <1>3, <1>4

(* The denominations that fit into an amount. *)
Fits(U, r) == {a \in U : a <= r}

SplitState == [amounts : Seq(Nat), remaining : Nat]

(* What the loop of from_target makes of each amount. *)
Greedy(g, U) ==
    \A r \in Nat :
        g[r] = IF Fits(U, r) = {} THEN [amounts |-> << >>, remaining |-> r]
               ELSE [amounts |-> << Max(Fits(U, r)) >> \o g[r - Max(Fits(U, r))].amounts,
                     remaining |-> g[r - Max(Fits(U, r))].remaining]

(* A denomination that fits is positive and leaves less. *)
LEMMA FitsReduce ==
  ASSUME NEW U \in SUBSET (Nat \ {0}), NEW r \in Nat, Fits(U, r) # {}
  PROVE  /\ Max(Fits(U, r)) \in U /\ Max(Fits(U, r)) \in Nat \ {0} /\ Max(Fits(U, r)) <= r
         /\ r - Max(Fits(U, r)) \in Nat /\ r - Max(Fits(U, r)) < r
         /\ \A a \in U : a <= r => a <= Max(Fits(U, r))
<1>1. Fits(U, r) \in SUBSET Nat /\ \A k \in Fits(U, r) : k <= r
  BY Zenon DEF Fits
<1>2. Max(Fits(U, r)) \in Fits(U, r) /\ \A k \in Fits(U, r) : k <= Max(Fits(U, r))
  BY <1>1, MaxIsLargest, Zenon
<1>3. Max(Fits(U, r)) \in U /\ Max(Fits(U, r)) <= r /\ Max(Fits(U, r)) \in Nat \ {0}
  BY <1>2, Zenon DEF Fits
<1>4. r - Max(Fits(U, r)) \in Nat /\ r - Max(Fits(U, r)) < r
  BY <1>3
<1>5. \A a \in U : a <= r => a <= Max(Fits(U, r))
  BY <1>2 DEF Fits
<1> QED BY <1>3, <1>4, <1>5

(* The loop has a result for every amount. *)
LEMMA GreedyExists ==
  ASSUME NEW U \in SUBSET (Nat \ {0})
  PROVE  \E g \in [Nat -> SplitState] : Greedy(g, U)
<1> DEFINE top(r) == Max(Fits(U, r))
           stop == {r \in Nat : Fits(U, r) = {}}
           down == [r \in Nat |-> IF r \in stop THEN 0 ELSE r - top(r)]
           base == [r \in Nat |-> [amounts |-> << >>, remaining |-> r]]
           step == [p \in Nat \X SplitState |->
                       IF p[1] \in stop THEN p[2]
                       ELSE [amounts |-> << top(p[1]) >> \o p[2].amounts,
                             remaining |-> p[2].remaining]]
<1>1. ASSUME NEW r \in Nat, r \notin stop
      PROVE  top(r) \in Nat /\ r - top(r) \in Nat /\ r - top(r) < r
  <2>1. Fits(U, r) # {}
    BY <1>1
  <2> QED BY <2>1, FitsReduce
<1> HIDE DEF top
<1>2. down \in [Nat -> Nat] /\ \A r \in Nat \ stop : down[r] < r
  <2>1. \A r \in Nat : (IF r \in stop THEN 0 ELSE r - top(r)) \in Nat
    BY <1>1
  <2> QED BY <1>1, <2>1
<1>3. base \in [Nat -> SplitState]
  <2>1. \A r \in Nat : [amounts |-> << >>, remaining |-> r] \in SplitState
    BY DEF SplitState
  <2> QED BY <2>1
<1>4. step \in [Nat \X SplitState -> SplitState]
  <2>1. ASSUME NEW r \in Nat, NEW v \in SplitState, r \notin stop
        PROVE  [amounts |-> << top(r) >> \o v.amounts, remaining |-> v.remaining] \in SplitState
    <3>1. v.amounts \in Seq(Nat) /\ v.remaining \in Nat
      BY DEF SplitState
    <3>2. << top(r) >> \o v.amounts \in Seq(Nat)
      BY <1>1, <2>1, <3>1
    <3> QED BY <3>1, <3>2 DEF SplitState
  <2>2. \A p \in Nat \X SplitState : p[1] \in Nat /\ p[2] \in SplitState
    OBVIOUS
  <2> HIDE DEF stop
  <2> QED BY <2>1, <2>2
<1>5. stop \in SUBSET Nat
  OBVIOUS
<1>6. PICK g \in [Nat -> SplitState] : Recurs(g, stop, down, base, step)
  <2> HIDE DEF stop, down, base, step
  <2> QED BY <1>2, <1>3, <1>4, <1>5, Descent, Zenon
<1>7. ASSUME NEW r \in Nat
      PROVE  g[r] = IF Fits(U, r) = {} THEN [amounts |-> << >>, remaining |-> r]
                    ELSE [amounts |-> << top(r) >> \o g[r - top(r)].amounts,
                          remaining |-> g[r - top(r)].remaining]
  <2>1. CASE r \in stop
    <3>1. g[r] = base[r]
      BY <1>6, <2>1, Zenon DEF Recurs
    <3> QED BY <2>1, <3>1
  <2>2. CASE r \notin stop
    <3>1. g[r] = step[<<r, g[down[r]]>>]
      BY <1>6, <2>2, Zenon DEF Recurs
    <3>2. down[r] = r - top(r) /\ g[r - top(r)] \in SplitState
      BY <1>1, <2>2
    <3>3. step[<<r, g[r - top(r)]>>]
            = [amounts |-> << top(r) >> \o g[r - top(r)].amounts,
               remaining |-> g[r - top(r)].remaining]
      BY <3>2, <2>2, Zenon
    <3>4. Fits(U, r) # {}
      BY <2>2, Zenon
    <3> HIDE DEF step, down, stop
    <3> QED BY <3>1, <3>2, <3>3, <3>4
  <2> QED BY <2>1, <2>2
<1>8. Greedy(g, U)
  BY <1>7, Zenon DEF Greedy, top
<1> QED BY <1>8

(* from_target is that loop. *)
LEMMA FromTargetIsGreedy ==
  ASSUME NEW ks, NEW max, Usable(ks, max) \in SUBSET (Nat \ {0})
  PROVE  \E g \in [Nat -> SplitState] :
            /\ Greedy(g, Usable(ks, max))
            /\ \A t \in Nat : from_target(t, max, ks)
                                = IF g[t].remaining # 0 THEN Err ELSE Ok(g[t].amounts)
<1> DEFINE U == Usable(ks, max)
           Body(g, r) == IF {a \in U : a <= r} = {}
                         THEN [amounts |-> << >>, remaining |-> r]
                         ELSE [g[r - Max({a \in U : a <= r})] EXCEPT
                                 !.amounts = << Max({a \in U : a <= r}) >> \o @]
           Eq(g) == g = [r \in Nat |-> Body(g, r)]
           greedy == CHOOSE g : Eq(g)
<1>1. ASSUME NEW t
      PROVE  from_target(t, max, ks)
                = IF greedy[t].remaining # 0 THEN Err ELSE Ok(greedy[t].amounts)
  BY DEF from_target
<1>2. ASSUME NEW v \in SplitState, NEW x
      PROVE  [v EXCEPT !.amounts = << x >> \o @]
                = [amounts |-> << x >> \o v.amounts, remaining |-> v.remaining]
  <2> DEFINE y == << x >> \o v.amounts
  <2>1. [v EXCEPT !.amounts = y] = [amounts |-> y, remaining |-> v.remaining]
    <3> HIDE DEF y
    <3> QED BY DEF SplitState
  <2> QED BY <2>1
<1>3. PICK g \in [Nat -> SplitState] : Greedy(g, U)
  BY GreedyExists
<1> HIDE DEF U
<1>4. Eq(g)
  <2>1. ASSUME NEW r \in Nat
        PROVE  g[r] = Body(g, r)
    <3>1. CASE Fits(U, r) = {}
      BY <1>3, <3>1, Zenon DEF Greedy, Fits
    <3>2. CASE Fits(U, r) # {}
      <4>1. r - Max(Fits(U, r)) \in Nat
        BY <3>2, FitsReduce, Zenon DEF U
      <4>2. g[r - Max(Fits(U, r))] \in SplitState
        BY <4>1
      <4>3. [g[r - Max(Fits(U, r))] EXCEPT !.amounts = << Max(Fits(U, r)) >> \o @]
              = [amounts |-> << Max(Fits(U, r)) >> \o g[r - Max(Fits(U, r))].amounts,
                 remaining |-> g[r - Max(Fits(U, r))].remaining]
        BY <4>2, <1>2, Zenon
      <4>4. g[r] = [amounts |-> << Max(Fits(U, r)) >> \o g[r - Max(Fits(U, r))].amounts,
                    remaining |-> g[r - Max(Fits(U, r))].remaining]
        BY <1>3, <3>2 DEF Greedy
      <4>5. g[r] = [g[r - Max(Fits(U, r))] EXCEPT !.amounts = << Max(Fits(U, r)) >> \o @]
        BY <4>3, <4>4
      <4>6. Fits(U, r) = {a \in U : a <= r}
        BY DEF Fits
      <4> QED BY <4>5, <4>6, <3>2, Zenon
    <3> QED BY <3>1, <3>2
  <2> HIDE DEF Body
  <2>2. g = [r \in Nat |-> g[r]]
    OBVIOUS
  <2> QED BY <2>1, <2>2
<1>5. Eq(greedy)
  <2> HIDE DEF Eq
  <2> QED BY <1>4
<1> HIDE DEF greedy
<1>6. ASSUME NEW h, Eq(h)
      PROVE  \A r \in Nat : h[r] = Body(h, r)
  <2> HIDE DEF Body
  <2> QED BY <1>6
<1> HIDE DEF Eq
<1> DEFINE S == {r \in Nat : greedy[r] = g[r]}
<1>7. \A r \in Nat : r \in S
  <2>1. ASSUME NEW i \in Nat, \A j \in Nat : j < i => j \in S
        PROVE  i \in S
    <3>1. greedy[i] = Body(greedy, i) /\ g[i] = Body(g, i)
      BY <1>4, <1>5, <1>6, ZenonT(30)
    <3>2. CASE Fits(U, i) = {}
      BY <3>1, <3>2 DEF Fits
    <3>3. CASE Fits(U, i) # {}
      <4>1. i - Max(Fits(U, i)) \in Nat /\ i - Max(Fits(U, i)) < i
        BY <3>3, FitsReduce, Zenon DEF U
      <4>2. greedy[i - Max(Fits(U, i))] = g[i - Max(Fits(U, i))]
        BY <2>1, <4>1
      <4>3. Fits(U, i) = {a \in U : a <= i}
        BY DEF Fits
      <4>4. Body(greedy, i) = Body(g, i)
        BY <4>2, <4>3, Zenon
      <4> HIDE DEF Body
      <4> QED BY <3>1, <4>4
    <3> QED BY <3>2, <3>3
  <2> HIDE DEF S
  <2> QED BY <2>1, StrongInduction
<1>8. \A t \in Nat : from_target(t, max, ks) = IF g[t].remaining # 0 THEN Err ELSE Ok(g[t].amounts)
  BY <1>1, <1>7
<1> QED BY <1>3, <1>8 DEF U

(* The parts of a split add up to the amount less what is left over, there  *)
(* are no more of them than units, and with the denomination 1 nothing is   *)
(* left over.                                                               *)
LEMMA GreedySplits ==
  ASSUME NEW U \in SUBSET (Nat \ {0}), NEW g \in [Nat -> SplitState], Greedy(g, U)
  PROVE  \A r \in Nat :
            /\ SumOf(g[r].amounts) + g[r].remaining = r
            /\ Len(g[r].amounts) <= r
            /\ 1 \in U => g[r].remaining = 0
<1> DEFINE S == {r \in Nat : /\ SumOf(g[r].amounts) + g[r].remaining = r
                             /\ Len(g[r].amounts) <= r
                             /\ 1 \in U => g[r].remaining = 0}
<1>1. ASSUME NEW i \in Nat, \A j \in Nat : j < i => j \in S
      PROVE  i \in S
  <2>1. CASE Fits(U, i) = {}
    <3>1. g[i] = [amounts |-> << >>, remaining |-> i]
      BY <2>1, Zenon DEF Greedy
    <3>2. g[i].amounts = << >> /\ g[i].remaining = i /\ Len(<< >>) = 0
      BY <3>1
    <3>3. 1 \in U => i = 0
      BY <2>1 DEF Fits
    <3> QED BY <3>2, <3>3, SmallSums
  <2>2. CASE Fits(U, i) # {}
    <3> DEFINE m == Max(Fits(U, i))
               d == i - m
               v == g[d]
    <3>1. m \in Nat \ {0} /\ d \in Nat /\ d < i
      BY <2>2, FitsReduce
    <3>2. g[i] = [amounts |-> << m >> \o v.amounts, remaining |-> v.remaining]
      BY <2>2, Zenon DEF Greedy
    <3>3. g[i].amounts = << m >> \o v.amounts /\ g[i].remaining = v.remaining
      BY <3>2
    <3>4. v.amounts \in Seq(Nat) /\ v.remaining \in Nat
      <4>1. v \in SplitState
        BY <3>1
      <4> QED BY <4>1, Zenon DEF SplitState
    <3>5. SumOf(v.amounts) + v.remaining = d /\ Len(v.amounts) <= d /\ (1 \in U => v.remaining = 0)
      BY <1>1, <3>1
    <3>6. << m >> \in Seq(Nat) /\ SumOf(<< m >>) = m
      BY <3>1, SmallSums
    <3> HIDE DEF m, v
    <3>7. SumOf(g[i].amounts) = m + SumOf(v.amounts) /\ SumOf(v.amounts) \in Nat
      BY <3>3, <3>4, <3>6, SumOfBoth, SmallSums, Zenon
    <3>8. Len(g[i].amounts) = 1 + Len(v.amounts) /\ Len(v.amounts) \in Nat
      BY <3>1, <3>3, <3>4
    <3>9. ASSUME NEW x \in Nat, NEW y \in Nat, NEW z \in Nat, x + y = d, z <= d
          PROVE  (m + x) + y = i /\ 1 + z <= i
      BY <3>1, <3>9
    <3> HIDE DEF d
    <3>10. (m + SumOf(v.amounts)) + v.remaining = i /\ 1 + Len(v.amounts) <= i
      BY <3>4, <3>5, <3>7, <3>8, <3>9, Zenon
    <3> QED BY <3>3, <3>5, <3>7, <3>8, <3>10, Zenon
  <2> QED BY <2>1, <2>2
<1> HIDE DEF S
<1>2. \A r \in Nat : r \in S
  BY <1>1, StrongInduction
<1> QED BY <1>2 DEF S

(* One unit more takes at most one part more. *)
LEMMA GreedyGrows ==
  ASSUME NEW U \in SUBSET (Nat \ {0}), NEW g \in [Nat -> SplitState], Greedy(g, U), 1 \in U
  PROVE  \A r \in Nat : Len(g[r + 1].amounts) <= Len(g[r].amounts) + 1
<1>1. \A r \in Nat : g[r].amounts \in Seq(Nat) /\ Len(g[r].amounts) \in Nat
  <2> SUFFICES ASSUME NEW r \in Nat
               PROVE  g[r].amounts \in Seq(Nat) /\ Len(g[r].amounts) \in Nat
    OBVIOUS
  <2>1. g[r] \in SplitState
    OBVIOUS
  <2>2. g[r].amounts \in Seq(Nat)
    BY <2>1 DEF SplitState
  <2> QED BY <2>2
<1>2. ASSUME NEW r \in Nat, r # 0
      PROVE  /\ Fits(U, r) # {}
             /\ Len(g[r].amounts) = 1 + Len(g[r - Max(Fits(U, r))].amounts)
  <2>1. Fits(U, r) # {}
    BY <1>2 DEF Fits
  <2> DEFINE m == Max(Fits(U, r))
  <2>2. m \in Nat /\ r - m \in Nat
    BY <2>1, FitsReduce, Zenon
  <2>3. g[r] = [amounts |-> << m >> \o g[r - m].amounts, remaining |-> g[r - m].remaining]
    BY <2>1, Zenon DEF Greedy
  <2>4. g[r].amounts = << m >> \o g[r - m].amounts /\ g[r - m].amounts \in Seq(Nat)
    BY <2>2, <2>3, <1>1
  <2> HIDE DEF m
  <2>5. Len(g[r].amounts) = 1 + Len(g[r - m].amounts)
    BY <2>2, <2>4
  <2> QED BY <2>1, <2>5 DEF m
<1>3. Len(g[0].amounts) = 0
  <2>1. Fits(U, 0) = {}
    <3>1. \A a \in Nat \ {0} : ~(a <= 0)
      OBVIOUS
    <3> QED BY <3>1, Zenon DEF Fits
  <2>2. g[0] = [amounts |-> << >>, remaining |-> 0]
    BY <2>1, Zenon DEF Greedy
  <2> QED BY <2>2
<1> DEFINE S == {r \in Nat : Len(g[r + 1].amounts) <= Len(g[r].amounts) + 1}
<1>4. ASSUME NEW i \in Nat, \A j \in Nat : j < i => j \in S
      PROVE  i \in S
  <2> DEFINE a == Max(Fits(U, i + 1))
             b == Max(Fits(U, i))
  <2>1. i + 1 \in Nat /\ i + 1 # 0
    OBVIOUS
  <2>2. Fits(U, i + 1) # {} /\ Len(g[i + 1].amounts) = 1 + Len(g[(i + 1) - a].amounts)
    BY <1>2, <2>1, Zenon
  <2>3. a \in U /\ a \in Nat \ {0} /\ a <= i + 1 /\ \A c \in U : c <= i + 1 => c <= a
    BY <2>1, <2>2, FitsReduce, Zenon
  <2> HIDE DEF a
  <2>4. CASE a = i + 1
    <3>1. (i + 1) - a = 0
      BY <2>4
    <3>2. Len(g[i + 1].amounts) = 1
      BY <2>2, <3>1, <1>3
    <3>3. Len(g[i].amounts) \in Nat
      BY <1>1
    <3>4. \A x \in Nat : 1 <= x + 1
      OBVIOUS
    <3>5. Len(g[i + 1].amounts) <= Len(g[i].amounts) + 1
      BY <3>2, <3>3, <3>4, Zenon
    <3> QED BY <3>5
  <2>5. CASE a # i + 1
    <3>1. a <= i /\ i # 0 /\ i - a \in Nat /\ i - a < i /\ (i + 1) - a = (i - a) + 1
      BY <2>3, <2>5
    <3>2. Fits(U, i) # {} /\ Len(g[i].amounts) = 1 + Len(g[i - b].amounts)
      BY <1>2, <3>1
    <3>3. b \in U /\ b \in Nat /\ b <= i /\ \A c \in U : c <= i => c <= b
      BY <3>2, FitsReduce
    <3> HIDE DEF b
    <3>4. a = b
      <4>1. a <= b
        BY <2>3, <3>1, <3>3
      <4>2. b <= a
        BY <2>3, <3>3
      <4> QED BY <4>1, <4>2, <2>3, <3>3
    <3>5. Len(g[(i - a) + 1].amounts) <= Len(g[i - a].amounts) + 1
      BY <1>4, <3>1
    <3>6. Len(g[i + 1].amounts) = 1 + Len(g[(i - a) + 1].amounts)
          /\ Len(g[i].amounts) = 1 + Len(g[i - a].amounts)
      BY <2>2, <3>1, <3>2, <3>4, Zenon
    <3>7. Len(g[i - a].amounts) \in Nat /\ Len(g[(i - a) + 1].amounts) \in Nat
      <4>1. (i - a) + 1 \in Nat
        BY <3>1
      <4> QED BY <1>1, <3>1, <4>1
    <3>8. \A x, y \in Nat : x <= y + 1 => 1 + x <= (1 + y) + 1
      OBVIOUS
    <3>9. Len(g[i + 1].amounts) <= Len(g[i].amounts) + 1
      BY <3>5, <3>6, <3>7, <3>8, Zenon
    <3> QED BY <3>9
  <2> QED BY <2>4, <2>5
<1> HIDE DEF S
<1>5. \A r \in Nat : r \in S
  BY <1>4, StrongInduction
<1> QED BY <1>5 DEF S

-----------------------------------------------------------------------------
(* Fees. *)

(* Products with a fee are monotone. *)
LEMMA Products ==
  ASSUME NEW p \in Nat, NEW x \in Nat, NEW y \in Nat
  PROVE  /\ p * x \in Nat
         /\ x <= y => p * x <= p * y
         /\ p * (x + y) = p * x + p * y
<1>1. p * x \in Nat
  OBVIOUS
<1>2. p * (x + y) = p * x + p * y
  OBVIOUS
<1>3. ASSUME x <= y
      PROVE  p * x <= p * y
  <2>1. PICK z \in Nat : y = x + z
    <3>1. y - x \in Nat /\ y = x + (y - x)
      BY <1>3
    <3> QED BY <3>1
  <2>2. p * (x + z) = p * x + p * z /\ p * z \in Nat
    OBVIOUS
  <2> QED BY <2>1, <2>2
<1> QED BY <1>1, <1>2, <1>3

(* Rounding up is monotone, and a step of at most the divisor raises it by  *)
(* at most one.                                                             *)
LEMMA Ceilings ==
  ASSUME NEW x \in Nat, NEW y \in Nat
  PROVE  /\ DivCeil(x, 1000) \in Nat
         /\ x <= y => DivCeil(x, 1000) <= DivCeil(y, 1000)
         /\ y <= x + 1000 => DivCeil(y, 1000) <= DivCeil(x, 1000) + 1
         /\ x <= 1000 * y => DivCeil(x, 1000) <= y
         /\ DivCeil(0, 1000) = 0
         /\ DivCeil(x, 1000) <= x
BY DEF DivCeil

(* What spending l outputs worth t leaves. *)
Left(t, l, ppk) == IF ppk = 0 THEN t ELSE SaturatingSub(t, DivCeil(ppk * l, 1000))

(* It is not more than t; not more than what is left of t + 1 spent as at   *)
(* most one output more; and at least a thousandth of t.                    *)
LeftBounds(t, l, ppk) ==
    /\ Left(t, l, ppk) \in Nat
    /\ Left(t, l, ppk) <= t
    /\ \A k \in Nat : k <= l + 1 => Left(t, l, ppk) <= Left(t + 1, k, ppk)
    /\ \A b \in Nat : t = 1000 * b => b <= Left(t, l, ppk)
    /\ Left(t, l, ppk) = SaturatingSub(t, DivCeil(ppk * l, 1000))

(* With a fee below one unit per output and no more outputs than units,     *)
(* these bounds hold.                                                       *)
LEMMA LeftFacts ==
  ASSUME NEW ppk \in 0..999, NEW t \in Nat, NEW l \in Nat, l <= t
  PROVE  LeftBounds(t, l, ppk)
<1>1. ppk \in Nat /\ ppk <= 999
  OBVIOUS
<1>2. ppk * l \in Nat
  BY <1>1, Products
<1> DEFINE fee == DivCeil(ppk * l, 1000)
<1>3. fee \in Nat
  BY <1>2, Ceilings
<1>4. ppk = 0 => fee = 0
  <2>1. ppk = 0 => ppk * l = 0
    OBVIOUS
  <2>2. DivCeil(0, 1000) = 0
    BY Ceilings
  <2> QED BY <2>1, <2>2
<1> HIDE DEF fee
<1>5. Left(t, l, ppk) = SaturatingSub(t, fee)
  BY <1>3, <1>4 DEF Left, SaturatingSub, fee
<1>6. SaturatingSub(t, fee) \in Nat /\ SaturatingSub(t, fee) <= t
  BY <1>3 DEF SaturatingSub
<1>7. ASSUME NEW k \in Nat, k <= l + 1
      PROVE  Left(t, l, ppk) <= Left(t + 1, k, ppk)
  <2>1. ppk * k \in Nat /\ ppk * k <= ppk * l + 1000
    <3>1. ppk * k <= ppk * (l + 1) /\ ppk * k \in Nat
      BY <1>1, <1>7, Products
    <3>2. ppk * (l + 1) = ppk * l + ppk * 1 /\ ppk * 1 = ppk
      BY <1>1, Products
    <3> QED BY <3>1, <3>2, <1>1, <1>2
  <2> DEFINE f1 == DivCeil(ppk * k, 1000)
  <2>2. f1 \in Nat /\ f1 <= fee + 1
    BY <1>2, <2>1, Ceilings DEF fee
  <2>3. CASE ppk = 0
    BY <2>3 DEF Left
  <2>4. CASE ppk # 0
    <3>1. Left(t + 1, k, ppk) = SaturatingSub(t + 1, f1)
      BY <2>4 DEF Left
    <3> HIDE DEF f1
    <3>2. SaturatingSub(t, fee) <= SaturatingSub(t + 1, f1)
      BY <1>3, <2>2 DEF SaturatingSub
    <3> QED BY <3>1, <3>2, <1>5
  <2> QED BY <2>3, <2>4
<1>8. ASSUME NEW b \in Nat, t = 1000 * b
      PROVE  b <= Left(t, l, ppk)
  <2>1. ppk * l <= 999 * t /\ 999 * t = 1000 * (999 * b) /\ 999 * b \in Nat
    <3>1. ppk * l <= ppk * t
      BY <1>1, Products
    <3>2. ppk * t <= 999 * t /\ ppk * t \in Nat
      <4>1. t * ppk <= t * 999 /\ t * ppk \in Nat
        BY <1>1, Products
      <4>2. t * ppk = ppk * t /\ t * 999 = 999 * t
        BY <1>1
      <4> QED BY <4>1, <4>2
    <3> QED BY <3>1, <3>2, <1>2, <1>8
  <2>2. fee <= 999 * b
    BY <1>2, <2>1, Ceilings DEF fee
  <2> QED BY <1>3, <1>5, <1>8, <2>2 DEF SaturatingSub
<1> QED BY <1>5, <1>6, <1>7, <1>8 DEF fee, LeftBounds

(* Denominations and a maximum output amount that amounts are split with. *)
Splittable(ks, max) == ks.amounts \subseteq Nat \ {0} /\ max \in Nat

(* A keyset and a maximum output amount that a channel may have. *)
GoodTerms(ks, max) == Splittable(ks, max) /\ ks.ppk \in 0..999

(* The usable denominations are numbers above 0, and 1 is usable whenever   *)
(* the keyset has it.                                                       *)
LEMMA UsableIs ==
  ASSUME NEW ks, NEW max, Splittable(ks, max)
  PROVE  /\ Usable(ks, max) \in SUBSET (Nat \ {0})
         /\ 1 \in ks.amounts => 1 \in Usable(ks, max)
<1>1. max \in Nat => max = 0 \/ 1 <= max
  OBVIOUS
<1> QED BY <1>1 DEF Splittable, Usable

(* from_target either fails or splits the amount exactly; it never fails    *)
(* with the denomination 1, and then a unit more takes at most one output   *)
(* more.                                                                    *)
LEMMA SplitFacts ==
  ASSUME NEW ks, NEW max, Splittable(ks, max), NEW t \in Nat
  PROVE  /\ from_target(t, max, ks) = Err \/ from_target(t, max, ks) = Ok(from_target(t, max, ks).value)
         /\ from_target(t, max, ks).ok =>
               /\ from_target(t, max, ks).value \in Seq(Nat)
               /\ SumOf(from_target(t, max, ks).value) = t
               /\ Len(from_target(t, max, ks).value) \in Nat
               /\ Len(from_target(t, max, ks).value) <= t
         /\ 1 \in ks.amounts =>
               /\ from_target(t, max, ks).ok
               /\ Len(from_target(t + 1, max, ks).value) <= Len(from_target(t, max, ks).value) + 1
         /\ from_target(0, max, ks).ok
<1> DEFINE U == Usable(ks, max)
<1>1. U \in SUBSET (Nat \ {0}) /\ (1 \in ks.amounts => 1 \in U)
  BY UsableIs, Zenon
<1>2. PICK g \in [Nat -> SplitState] :
            /\ Greedy(g, U)
            /\ \A r \in Nat : from_target(r, max, ks)
                                = IF g[r].remaining # 0 THEN Err ELSE Ok(g[r].amounts)
  BY <1>1, FromTargetIsGreedy
<1> HIDE DEF U
<1>3. ASSUME NEW r \in Nat
      PROVE  /\ SumOf(g[r].amounts) + g[r].remaining = r
             /\ Len(g[r].amounts) <= r
             /\ 1 \in U => g[r].remaining = 0
             /\ g[r].amounts \in Seq(Nat) /\ g[r].remaining \in Nat
             /\ Len(g[r].amounts) \in Nat /\ SumOf(g[r].amounts) \in Nat
  <2>1. /\ SumOf(g[r].amounts) + g[r].remaining = r
        /\ Len(g[r].amounts) <= r
        /\ 1 \in U => g[r].remaining = 0
    BY <1>1, <1>2, GreedySplits, ZenonT(30)
  <2>2. g[r] \in SplitState
    OBVIOUS
  <2>3. g[r].amounts \in Seq(Nat) /\ g[r].remaining \in Nat
    BY <2>2 DEF SplitState
  <2>4. Len(g[r].amounts) \in Nat
    BY <2>3
  <2> QED BY <2>1, <2>3, <2>4, SmallSums
<1>4. ASSUME NEW r \in Nat
      PROVE  \/ g[r].remaining = 0 /\ from_target(r, max, ks) = Ok(g[r].amounts)
             \/ g[r].remaining # 0 /\ from_target(r, max, ks) = Err
  BY <1>2
<1>5. \A v : Ok(v).ok /\ Ok(v).value = v /\ ~Err.ok
  BY DEF Ok, Err
<1>6. from_target(t, max, ks) = Err \/ from_target(t, max, ks) = Ok(from_target(t, max, ks).value)
  BY <1>4, <1>5
<1>7. ASSUME from_target(t, max, ks).ok
      PROVE  /\ from_target(t, max, ks).value \in Seq(Nat)
             /\ SumOf(from_target(t, max, ks).value) = t
             /\ Len(from_target(t, max, ks).value) \in Nat
             /\ Len(from_target(t, max, ks).value) <= t
  <2>1. g[t].remaining = 0 /\ from_target(t, max, ks).value = g[t].amounts
    BY <1>4, <1>5, <1>7
  <2>2. SumOf(g[t].amounts) = t
    BY <1>3, <2>1
  <2> QED BY <1>3, <2>1, <2>2, Zenon
<1>8. ASSUME 1 \in ks.amounts
      PROVE  /\ from_target(t, max, ks).ok
             /\ Len(from_target(t + 1, max, ks).value) <= Len(from_target(t, max, ks).value) + 1
  <2>1. 1 \in U /\ t + 1 \in Nat
    BY <1>1, <1>8
  <2>2. g[t].remaining = 0 /\ g[t + 1].remaining = 0
    BY <1>3, <2>1
  <2>3. from_target(t, max, ks) = Ok(g[t].amounts) /\ from_target(t + 1, max, ks) = Ok(g[t + 1].amounts)
    BY <1>4, <2>1, <2>2
  <2>4. Len(g[t + 1].amounts) <= Len(g[t].amounts) + 1
    BY <1>1, <1>2, <2>1, GreedyGrows, Zenon
  <2>5. from_target(t, max, ks).value = g[t].amounts /\ from_target(t + 1, max, ks).value = g[t + 1].amounts
        /\ from_target(t, max, ks).ok
    BY <2>3, <1>5
  <2> QED BY <2>4, <2>5
<1>9. from_target(0, max, ks).ok
  <2>1. g[0].remaining = 0
    BY <1>3
  <2> QED BY <2>1, <1>4, <1>5
<1> QED BY <1>6, <1>7, <1>8, <1>9, Zenon

(* What is left of an amount: never more than it, and with the denomination *)
(* 1 never less for a unit more.                                            *)
LEMMA ValueFacts ==
  ASSUME NEW ks, NEW max, GoodTerms(ks, max), NEW t \in Nat
  PROVE  LET v == deterministic_value_after_fees(t, max, ks)
         IN  /\ v = Err \/ v = Ok(v.value)
             /\ v.ok <=> from_target(t, max, ks).ok
             /\ v.ok => /\ v.value \in Nat /\ v.value <= t
                        /\ v.value = value_after_fees(from_target(t, max, ks).value, ks.ppk)
                        /\ v.value = SaturatingSub(t,
                              DivCeil(ks.ppk * Len(from_target(t, max, ks).value), 1000))
                        /\ \A b \in Nat : t = 1000 * b => b <= v.value
             /\ 1 \in ks.amounts =>
                   v.ok /\ v.value <= deterministic_value_after_fees(t + 1, max, ks).value
<1> DEFINE V(x) == deterministic_value_after_fees(x, max, ks)
           F(x) == from_target(x, max, ks)
<1>1. \A v : Ok(v).ok /\ Ok(v).value = v /\ ~Err.ok
  BY Zenon DEF Ok, Err
<1>2. ASSUME NEW x \in Nat
      PROVE  /\ F(x).ok \in BOOLEAN
             /\ F(x).ok => V(x) = Ok(Left(x, Len(F(x).value), ks.ppk))
                           /\ V(x).value = value_after_fees(F(x).value, ks.ppk)
             /\ ~F(x).ok => V(x) = Err
  <2>1. F(x) = Err \/ F(x) = Ok(F(x).value)
    BY SplitFacts DEF GoodTerms
  <2>2. F(x).ok \in BOOLEAN
    <3>1. \A v : Ok(v).ok = TRUE /\ Err.ok = FALSE
      BY DEF Ok, Err
    <3> HIDE DEF F
    <3> QED BY <2>1, <3>1, Zenon
  <2>3. CASE F(x).ok
    <3>1. V(x) = Ok(value_after_fees(F(x).value, ks.ppk))
      BY <2>3 DEF deterministic_value_after_fees
    <3>2. SumOf(F(x).value) = x
      BY <2>3, SplitFacts DEF GoodTerms
    <3>3. value_after_fees(F(x).value, ks.ppk) = Left(x, Len(F(x).value), ks.ppk)
      BY <3>2 DEF value_after_fees, Left
    <3> QED BY <2>2, <2>3, <3>1, <3>3, <1>1
  <2>4. CASE ~F(x).ok
    BY <2>2, <2>4 DEF deterministic_value_after_fees
  <2> QED BY <2>2, <2>3, <2>4
<1>3. ks.ppk \in 0..999
  BY DEF GoodTerms
<1>4. ASSUME F(t).ok
      PROVE  /\ V(t) = Ok(V(t).value) /\ V(t).ok
             /\ V(t).value = Left(t, Len(F(t).value), ks.ppk)
             /\ V(t).value \in Nat /\ V(t).value <= t
             /\ V(t).value = value_after_fees(F(t).value, ks.ppk)
             /\ V(t).value = SaturatingSub(t, DivCeil(ks.ppk * Len(F(t).value), 1000))
             /\ \A b \in Nat : t = 1000 * b => b <= V(t).value
             /\ \A k \in Nat : k <= Len(F(t).value) + 1 => V(t).value <= Left(t + 1, k, ks.ppk)
  <2>1. Len(F(t).value) \in Nat /\ Len(F(t).value) <= t
    BY <1>4, SplitFacts, Zenon DEF GoodTerms
  <2>2. V(t) = Ok(Left(t, Len(F(t).value), ks.ppk)) /\ V(t).value = value_after_fees(F(t).value, ks.ppk)
    BY <1>2, <1>4, Zenon
  <2>3. V(t).value = Left(t, Len(F(t).value), ks.ppk) /\ V(t).ok
    BY <2>2, <1>1, Zenon
  <2> DEFINE l == Len(F(t).value)
  <2> HIDE DEF l
  <2>4. /\ Left(t, l, ks.ppk) \in Nat
        /\ Left(t, l, ks.ppk) <= t
        /\ \A k \in Nat : k <= l + 1 => Left(t, l, ks.ppk) <= Left(t + 1, k, ks.ppk)
        /\ \A b \in Nat : t = 1000 * b => b <= Left(t, l, ks.ppk)
        /\ Left(t, l, ks.ppk) = SaturatingSub(t, DivCeil(ks.ppk * l, 1000))
    <3>1. l \in Nat /\ l <= t
      BY <2>1, Zenon DEF l
    <3>2. LeftBounds(t, l, ks.ppk)
      BY <1>3, <3>1, LeftFacts, ZenonT(30)
    <3> QED BY <3>2 DEF LeftBounds
  <2> HIDE DEF V, F
  <2> QED BY <2>2, <2>3, <2>4 DEF l
<1>5. ASSUME 1 \in ks.amounts
      PROVE  V(t).ok /\ V(t).value <= V(t + 1).value
  <2>1. t + 1 \in Nat
    OBVIOUS
  <2>2. F(t).ok /\ F(t + 1).ok /\ Len(F(t + 1).value) <= Len(F(t).value) + 1
    BY <1>5, <2>1, SplitFacts DEF GoodTerms
  <2>3. Len(F(t + 1).value) \in Nat
    BY <2>1, <2>2, SplitFacts DEF GoodTerms
  <2>4. V(t + 1).value = Left(t + 1, Len(F(t + 1).value), ks.ppk)
    BY <1>1, <1>2, <2>1, <2>2
  <2> HIDE DEF V, F
  <2> QED BY <1>4, <2>2, <2>3, <2>4
<1> HIDE DEF F
<1>6. V(t) = Err \/ V(t) = Ok(V(t).value)
  BY <1>2, <1>4
<1>7. V(t).ok <=> F(t).ok
  BY <1>1, <1>2, <1>4
<1> HIDE DEF V
<1>8. /\ V(t) = Err \/ V(t) = Ok(V(t).value)
      /\ V(t).ok <=> F(t).ok
      /\ V(t).ok => /\ V(t).value \in Nat /\ V(t).value <= t
                    /\ V(t).value = value_after_fees(F(t).value, ks.ppk)
                    /\ V(t).value = SaturatingSub(t, DivCeil(ks.ppk * Len(F(t).value), 1000))
                    /\ \A b \in Nat : t = 1000 * b => b <= V(t).value
      /\ 1 \in ks.amounts => V(t).ok /\ V(t).value <= V(t + 1).value
  BY <1>4, <1>5, <1>6, <1>7
<1> QED BY <1>8 DEF V, F

(* With the denomination 1, more is never worth less. *)
LEMMA ValueGrows ==
  ASSUME NEW ks, NEW max, GoodTerms(ks, max), 1 \in ks.amounts, NEW s \in Nat, NEW t \in Nat, s <= t
  PROVE  deterministic_value_after_fees(s, max, ks).value
            <= deterministic_value_after_fees(t, max, ks).value
<1> DEFINE V == [x \in Nat |-> deterministic_value_after_fees(x, max, ks).value]
           S == {d \in Nat : V[s] <= V[s + d]}
<1>1. ASSUME NEW x \in Nat
      PROVE  V[x] \in Nat /\ V[x] <= V[x + 1]
  <2>1. /\ deterministic_value_after_fees(x, max, ks).value \in Nat
        /\ deterministic_value_after_fees(x, max, ks).value
              <= deterministic_value_after_fees(x + 1, max, ks).value
    BY ValueFacts
  <2>2. x + 1 \in Nat
    OBVIOUS
  <2> QED BY <2>1, <2>2, Zenon
<1>2. V[s] = deterministic_value_after_fees(s, max, ks).value
      /\ V[t] = deterministic_value_after_fees(t, max, ks).value
  OBVIOUS
<1> HIDE DEF V
<1>3. 0 \in S
  BY <1>1
<1>4. \A d \in Nat : d \in S => d + 1 \in S
  <2> SUFFICES ASSUME NEW d \in Nat, V[s] <= V[s + d]
               PROVE  V[s] <= V[s + (d + 1)]
    OBVIOUS
  <2>1. s + d \in Nat /\ (s + d) + 1 = s + (d + 1)
    OBVIOUS
  <2>2. V[s + d] <= V[(s + d) + 1] /\ V[s] \in Nat /\ V[s + d] \in Nat
    BY <1>1, <2>1, Zenon
  <2>3. V[s + (d + 1)] \in Nat
    BY <1>1
  <2> QED BY <2>1, <2>2, <2>3
<1> HIDE DEF S
<1>5. \A d \in Nat : d \in S
  BY <1>3, <1>4, Induction
<1>6. t - s \in Nat /\ s + (t - s) = t
  OBVIOUS
<1>7. t - s \in S
  BY <1>5, <1>6
<1> QED BY <1>2, <1>6, <1>7, Zenon DEF S

-----------------------------------------------------------------------------
(* Searching upwards. *)

(* f is the result of searching upwards for a stop, from every number. *)
Searches(f, stops, res) == f = [m \in Nat |-> IF m \in stops THEN res[m] ELSE f[m + 1]]

(* A search that always meets a stop has a result everywhere. *)
LEMMA SearchExists ==
  ASSUME NEW stops \in SUBSET Nat, NEW res, \A m \in Nat : \E k \in stops : m <= k
  PROVE  \E f : Searches(f, stops, res)
<1> DEFINE Is(k, m) == k \in stops /\ m <= k /\ \A j \in stops : m <= j => k <= j
           first == [m \in Nat |-> CHOOSE k \in stops : Is(k, m)]
           f == [m \in Nat |-> res[first[m]]]
<1>1. ASSUME NEW m \in Nat
      PROVE  first[m] \in Nat /\ Is(first[m], m)
  <2> DEFINE T == {k \in stops : m <= k}
  <2>1. T \in SUBSET Nat /\ T # {}
    BY Zenon
  <2>2. PICK k \in T : \A j \in T : k <= j
    BY <2>1, LeastNumber, Zenon
  <2>3. k \in stops /\ Is(k, m)
    BY <2>2
  <2>4. first[m] = CHOOSE j \in stops : Is(j, m)
    OBVIOUS
  <2> HIDE DEF Is, first
  <2>5. first[m] \in stops /\ Is(first[m], m)
    BY <2>3, <2>4
  <2> QED BY <2>5, Zenon
<1>2. ASSUME NEW m \in Nat, m \in stops
      PROVE  first[m] = m
  <2> HIDE DEF first
  <2> QED BY <1>1, <1>2
<1>3. ASSUME NEW m \in Nat, m \notin stops
      PROVE  first[m] = first[m + 1]
  <2>1. m + 1 \in Nat
    OBVIOUS
  <2>2. Is(first[m], m) /\ Is(first[m + 1], m + 1) /\ first[m] \in Nat /\ first[m + 1] \in Nat
    BY <1>1, <2>1, Zenon
  <2> HIDE DEF first
  <2>3. first[m] # m
    BY <1>3, <2>2, Zenon
  <2>4. m + 1 <= first[m] /\ m <= first[m + 1]
    BY <2>2, <2>3
  <2>5. first[m + 1] <= first[m] /\ first[m] <= first[m + 1]
    BY <2>2, <2>4
  <2> QED BY <2>2, <2>5
<1> HIDE DEF first
<1>4. \A m \in Nat : res[first[m]] = IF m \in stops THEN res[m] ELSE f[m + 1]
  <2> SUFFICES ASSUME NEW m \in Nat
               PROVE  res[first[m]] = IF m \in stops THEN res[m] ELSE f[m + 1]
    OBVIOUS
  <2>1. m + 1 \in Nat
    OBVIOUS
  <2> QED BY <2>1, <1>2, <1>3
<1>5. Searches(f, stops, res)
  BY <1>4 DEF Searches
<1> HIDE DEF f
<1> QED BY <1>5

(* It is the result at the first stop. *)
LEMMA SearchFinds ==
  ASSUME NEW stops \in SUBSET Nat, NEW res, NEW f,
         \A m \in Nat : f[m] = IF m \in stops THEN res[m] ELSE f[m + 1],
         NEW m0 \in Nat, NEW k0 \in stops, m0 <= k0,
         \A k \in Nat : m0 <= k /\ k < k0 => k \notin stops
  PROVE  f[m0] = res[k0]
<1> DEFINE S == {d \in Nat : d <= k0 - m0 => f[k0 - d] = res[k0]}
<1>1. 0 \in S
  <2>1. k0 - 0 = k0 /\ k0 \in Nat
    OBVIOUS
  <2> QED BY <2>1
<1>2. \A d \in Nat : d \in S => d + 1 \in S
  <2> SUFFICES ASSUME NEW d \in Nat, d \in S, d + 1 <= k0 - m0
               PROVE  f[k0 - (d + 1)] = res[k0]
    OBVIOUS
  <2>1. k0 - (d + 1) \in Nat /\ (k0 - (d + 1)) + 1 = k0 - d /\ d <= k0 - m0
        /\ m0 <= k0 - (d + 1) /\ k0 - (d + 1) < k0
    OBVIOUS
  <2>2. k0 - (d + 1) \notin stops
    BY <2>1, Zenon
  <2>3. f[k0 - (d + 1)] = f[(k0 - (d + 1)) + 1]
    BY <2>1, <2>2, Zenon
  <2> QED BY <2>1, <2>3, Zenon
<1> HIDE DEF S
<1>3. \A d \in Nat : d \in S
  BY <1>1, <1>2, Induction, Zenon
<1>4. k0 - m0 \in Nat /\ k0 - (k0 - m0) = m0 /\ k0 - m0 <= k0 - m0
  OBVIOUS
<1>5. k0 - m0 \in S
  BY <1>3, <1>4
<1> QED BY <1>4, <1>5, Zenon DEF S

(* The inverse is an error, which the denomination 1 rules out, or an       *)
(* amount not below the target that is worth it, if it can be represented,  *)
(* while no smaller amount is.                                              *)
Inverts(inverse, target, max, ks) ==
    LET V(m) == deterministic_value_after_fees(m, max, ks)
    IN  \/ inverse = Err /\ 1 \notin ks.amounts
        \/ \E m \in Nat, a \in Nat :
              /\ inverse = Ok([nominal |-> m, actual |-> a])
              /\ target <= m
              /\ V(m).ok => V(m).value = a /\ target <= a
              /\ \A k \in Nat : k < m /\ V(k).ok => V(k).value < target

(* The loop ends: an amount a thousand times the target is worth it. *)
LEMMA InverseFacts ==
  ASSUME NEW ks, NEW max, GoodTerms(ks, max), NEW target \in Nat
  PROVE  Inverts(inverse_deterministic_value_after_fees(target, max, ks), target, max, ks)
<1> DEFINE V(m) == deterministic_value_after_fees(m, max, ks)
           inverse == inverse_deterministic_value_after_fees(target, max, ks)
<1>1. ASSUME NEW m \in Nat, V(m).ok
      PROVE  V(m).value \in Nat /\ V(m).value <= m /\ \A b \in Nat : m = 1000 * b => b <= V(m).value
  BY <1>1, ValueFacts
<1>2. CASE target = 0 \/ ks.ppk = 0
  <2>1. inverse = Ok([nominal |-> target, actual |-> target])
    BY <1>2 DEF inverse_deterministic_value_after_fees
  <2>2. ASSUME V(target).ok
        PROVE  V(target).value = target
    <3>1. CASE target = 0
      BY <1>1, <2>2, <3>1
    <3>2. CASE ks.ppk = 0
      <4>1. V(target).value = value_after_fees(from_target(target, max, ks).value, ks.ppk)
        BY <2>2, ValueFacts
      <4>2. from_target(target, max, ks).ok
        BY <2>2, ValueFacts
      <4>3. SumOf(from_target(target, max, ks).value) = target
        BY <4>2, SplitFacts, Zenon DEF GoodTerms
      <4> QED BY <3>2, <4>1, <4>3 DEF value_after_fees
    <3> QED BY <1>2, <3>1, <3>2
  <2>3. ASSUME NEW k \in Nat, k < target, V(k).ok
        PROVE  V(k).value < target
    <3>1. V(k).value \in Nat /\ V(k).value <= k
      BY <1>1, <2>3
    <3> QED BY <2>3, <3>1
  <2> HIDE DEF V, inverse
  <2> QED BY <2>1, <2>2, <2>3 DEF Inverts, V, inverse
<1>3. CASE ~(target = 0 \/ ks.ppk = 0)
  <2> DEFINE stops == {m \in Nat : ~V(m).ok \/ V(m).value >= target}
             res == [m \in Nat |-> IF ~V(m).ok THEN Err
                                   ELSE Ok([nominal |-> m, actual |-> V(m).value])]
             Body(f, m) == IF ~V(m).ok THEN Err
                           ELSE IF V(m).value >= target
                           THEN Ok([nominal |-> m, actual |-> V(m).value])
                           ELSE f[m + 1]
             Eq(f) == f = [m \in Nat |-> Body(f, m)]
             search == CHOOSE f : Eq(f)
  <2>1. inverse = search[target]
    BY <1>3 DEF inverse_deterministic_value_after_fees
  <2>2. ASSUME NEW m \in Nat
        PROVE  V(m).ok \in BOOLEAN
    <3>1. V(m) = Err \/ V(m) = Ok(V(m).value)
      BY ValueFacts
    <3>2. \A v : Ok(v).ok = TRUE /\ Err.ok = FALSE
      BY DEF Ok, Err
    <3> HIDE DEF V
    <3> QED BY <3>1, <3>2, ZenonT(30)
  <2> HIDE DEF V
  <2>3. ASSUME NEW f, NEW m \in Nat
        PROVE  Body(f, m) = IF m \in stops THEN res[m] ELSE f[m + 1]
    <3>1. CASE ~V(m).ok
      BY <3>1
    <3>2. CASE V(m).ok /\ V(m).value >= target
      BY <3>2
    <3>3. CASE V(m).ok /\ ~(V(m).value >= target)
      BY <3>3
    <3> QED BY <2>2, <3>1, <3>2, <3>3
  <2>4. ASSUME NEW m \in Nat
        PROVE  \E k \in stops : m <= k
    <3> DEFINE k == 1000 * (target + m)
    <3>1. k \in Nat /\ m <= k /\ target + m \in Nat
      OBVIOUS
    <3>2. CASE V(k).ok
      <4>1. target + m <= V(k).value /\ V(k).value \in Nat
        BY <1>1, <3>1, <3>2
      <4>2. V(k).value >= target
        BY <4>1
      <4> QED BY <3>1, <4>2
    <3>3. CASE ~V(k).ok
      BY <3>1, <3>3
    <3> QED BY <3>2, <3>3
  <2>5. stops \in SUBSET Nat
    OBVIOUS
  <2>6. Eq(search)
    <3>1. PICK f : Searches(f, stops, res)
      <4>1. \A m \in Nat : \E k \in stops : m <= k
        BY <2>4
      <4> HIDE DEF stops, res
      <4> QED BY <2>5, <4>1, SearchExists, Zenon
    <3>2. Eq(f)
      <4> HIDE DEF stops, res, Body
      <4> QED BY <2>3, <3>1, Zenon DEF Searches
    <3> HIDE DEF Eq
    <3> QED BY <3>2
  <2> HIDE DEF search
  <2>7. \A m \in Nat : search[m] = IF m \in stops THEN res[m] ELSE search[m + 1]
    <3>1. \A m \in Nat : search[m] = Body(search, m)
      <4> HIDE DEF Body
      <4> QED BY <2>6
    <3> HIDE DEF Body, stops, res
    <3> QED BY <2>3, <3>1
  <2>8. PICK m \in stops : target <= m /\ \A k \in stops : target <= k => m <= k
    <3> DEFINE T == {k \in stops : target <= k}
    <3>1. T \in SUBSET Nat /\ T # {}
      BY <2>4
    <3>2. PICK m \in T : \A k \in T : m <= k
      BY <3>1, LeastNumber, Zenon
    <3> QED BY <3>2
  <2>9. \A k \in Nat : target <= k /\ k < m => k \notin stops
    BY <2>5, <2>8
  <2>10. search[target] = res[m]
    <3> HIDE DEF stops, res
    <3> QED BY <2>5, <2>7, <2>8, <2>9, SearchFinds
  <2>11. m \in Nat
    OBVIOUS
  <2>12. ASSUME NEW k \in Nat, k < m, V(k).ok
         PROVE  V(k).value < target
    <3>1. V(k).value \in Nat /\ V(k).value <= k
      BY <1>1, <2>12, Zenon
    <3>2. CASE k < target
      BY <3>1, <3>2
    <3>3. CASE target <= k
      <4>1. k \notin stops
        BY <2>9, <2>12, <3>3, Zenon
      <4> QED BY <4>1, <2>12, <3>1
    <3> QED BY <3>2, <3>3
  <2>13. CASE V(m).ok
    <3>1. inverse = Ok([nominal |-> m, actual |-> V(m).value])
      BY <2>1, <2>10, <2>11, <2>13
    <3>2. V(m).value \in Nat /\ target <= V(m).value
      BY <1>1, <2>8, <2>13, Zenon
    <3> HIDE DEF inverse, stops
    <3> QED BY <2>8, <2>11, <2>12, <3>1, <3>2 DEF Inverts, inverse, V
  <2>14. CASE ~V(m).ok
    <3>1. inverse = Err
      BY <2>1, <2>10, <2>11, <2>14
    <3>2. 1 \notin ks.amounts
      BY <2>11, <2>14, ValueFacts DEF V
    <3> HIDE DEF inverse
    <3> QED BY <3>1, <3>2, Zenon DEF Inverts, inverse
  <2> QED BY <2>2, <2>11, <2>13, <2>14
<1> QED BY <1>2, <1>3, Zenon

-----------------------------------------------------------------------------
(* The four properties. *)

(* The terms of a channel, or none yet, and an amount. *)
AmountsTypeOK == terms \in AmountTerms \cup {NoTerms} /\ n \in 0..MaxAmount

(* Every state of AmountsSpec is well typed: NextAmount stops at MaxAmount  *)
(* and leaves the terms of the channel alone.                               *)
THEOREM AmountsType == AmountsSpec => []AmountsTypeOK
<1>1. AmountsInit => AmountsTypeOK
  BY AmountsAssumption DEF AmountsInit, AmountsTypeOK
<1>2. AmountsTypeOK /\ [AmountsNext]_amountVars => AmountsTypeOK'
  BY AmountsAssumption DEF AmountsTypeOK, AmountsNext, TermsAgreed, NextAmount, amountVars
<1> QED BY <1>1, <1>2, PTL DEF AmountsSpec

(* What the assumptions say of the terms of a state. *)
LEMMA TermsAreGood ==
  ASSUME AmountsTypeOK, terms # NoTerms
  PROVE  /\ GoodTerms(terms.keyset, terms.max) /\ n \in Nat
         /\ terms.keyset \in FeeKeysets /\ terms.keyset.ppk <= 999 /\ terms.keyset.ppk \in Nat
         /\ \A ks \in FeeKeysets : Splittable(ks, terms.max)
<1>1. terms.keyset \in FeeKeysets /\ terms.max \in Nat /\ n \in Nat /\ terms.keyset.ppk <= 999
  BY AmountsAssumption DEF AmountsTypeOK
<1>2. \A ks \in FeeKeysets : ks.amounts \subseteq Nat \ {0} /\ ks.ppk \in Nat
  BY AmountsAssumption, Zenon
<1>3. \A ks \in FeeKeysets : Splittable(ks, terms.max)
  BY <1>1, <1>2, Zenon DEF Splittable
<1>4. terms.keyset.ppk \in Nat
  BY <1>1, <1>2, Zenon
<1>5. terms.keyset.ppk \in 0..999
  <2> DEFINE p == terms.keyset.ppk
  <2>1. p \in Nat /\ p <= 999
    BY <1>1, <1>4
  <2> HIDE DEF p
  <2>2. p \in 0..999
    BY <2>1
  <2> QED BY <2>2 DEF p
<1>6. GoodTerms(terms.keyset, terms.max)
  BY <1>1, <1>3, <1>5, Zenon DEF GoodTerms
<1> QED BY <1>1, <1>3, <1>4, <1>6, Zenon

(* Results are told apart by their flag. *)
LEMMA Results ==
  \A v : Ok(v).ok = TRUE /\ Ok(v).value = v /\ Err.ok = FALSE
BY DEF Ok, Err

(* The same, of one state: from what InverseFacts says. *)
LEMMA InverseLeast ==
  ASSUME AmountsTypeOK, terms # NoTerms
  PROVE  InverseIsLeast
<1> DEFINE ks == terms.keyset
           max == terms.max
           inverse == inverse_deterministic_value_after_fees(n, max, ks)
           V(m) == ValueAfterFees(m)
           reaches(m) == V(m).ok /\ V(m).value >= n
           params == [keyset |-> ks, max |-> max]
<1>1. GoodTerms(ks, max) /\ n \in Nat
  BY TermsAreGood
<1>2. Inverts(inverse, n, max, ks)
  BY <1>1, InverseFacts
<1>3. \A m \in Nat : V(m) = Err \/ V(m) = Ok(V(m).value)
  BY <1>1, ValueFacts DEF ValueAfterFees
<1>4. \A m \in Nat : V(m).ok => V(m).value \in Nat
  BY <1>1, ValueFacts DEF ValueAfterFees
<1>5. get_de_facto_balance(n, params) = IF ~inverse.ok THEN Err ELSE V(inverse.value.nominal)
  BY Zenon DEF get_de_facto_balance, ValueAfterFees
<1>6. \/ inverse = Err /\ 1 \notin ks.amounts
      \/ \E m \in Nat, a \in Nat :
              /\ inverse = Ok([nominal |-> m, actual |-> a])
              /\ V(m).ok => V(m).value = a /\ n <= a
              /\ \A k \in Nat : k < m /\ V(k).ok => V(k).value < n
  BY <1>2 DEF Inverts, ValueAfterFees
<1> HIDE DEF inverse, V
<1>7. 1 \in ks.amounts => inverse.ok
  BY <1>6, Results, Zenon
<1>8. ASSUME inverse.ok, V(inverse.value.nominal).ok
      PROVE  /\ reaches(inverse.value.nominal)
             /\ \A m \in 0..(inverse.value.nominal - 1) : ~reaches(m)
             /\ Ok(inverse.value.actual) = V(inverse.value.nominal)
             /\ get_de_facto_balance(n, params) = Ok(inverse.value.actual)
  <2>1. PICK m \in Nat, a \in Nat :
              /\ inverse = Ok([nominal |-> m, actual |-> a])
              /\ V(m).ok => V(m).value = a /\ n <= a
              /\ \A k \in Nat : k < m /\ V(k).ok => V(k).value < n
    BY <1>6, <1>8, Results, Zenon
  <2>2. inverse.value.nominal = m /\ inverse.value.actual = a
    <3>1. inverse.value = [nominal |-> m, actual |-> a]
      BY <2>1, Results, Zenon
    <3> QED BY <3>1
  <2>3. V(m).ok /\ V(m).value = a /\ n <= a
    BY <1>8, <2>1, <2>2, Zenon
  <2>4. V(m) = Ok(a)
    BY <1>3, <2>3, Results, Zenon
  <2>5. ASSUME NEW k \in 0..(m - 1)
        PROVE  ~reaches(k)
    <3>1. k \in Nat /\ k < m
      OBVIOUS
    <3> QED BY <1>1, <1>4, <2>1, <3>1
  <2>6. reaches(m)
    BY <1>1, <2>3, Zenon
  <2>7. get_de_facto_balance(n, params) = Ok(a)
    BY <1>5, <1>8, <2>2, <2>4
  <2> HIDE DEF reaches, params
  <2> QED BY <2>2, <2>4, <2>5, <2>6, <2>7, Zenon
<1> QED BY <1>7, <1>8 DEF InverseIsLeast, inverse, V

(* For every keyset whose fee a channel may have, and every target,         *)
(* inverse_deterministic_value_after_fees returns the least amount that is  *)
(* worth the target after fees.                                             *)
THEOREM InverseAlwaysLeast == AmountsSpec => []InverseIsLeast
<1>1. AmountsTypeOK => InverseIsLeast
  BY InverseLeast DEF InverseIsLeast
<1> QED BY <1>1, AmountsType, PTL

(* With the denomination 1 every amount splits and has a value, and every   *)
(* target has an inverse.                                                   *)
LEMMA WholeValues ==
  ASSUME NEW ks, NEW max, GoodTerms(ks, max), 1 \in ks.amounts, NEW t \in Nat
  PROVE  LET V(m) == deterministic_value_after_fees(m, max, ks)
             split == from_target(t, max, ks)
         IN  /\ V(t).ok /\ V(t).value \in Nat /\ V(t).value <= t
             /\ split.ok /\ split.value \in Seq(Nat) /\ SumOf(split.value) = t
             /\ value_after_fees(split.value, ks.ppk) = V(t).value
BY SplitFacts, ValueFacts, SMTT(30) DEF GoodTerms

(* The least amount worth the target, as numbers. *)
LEMMA WholeInverse ==
  ASSUME NEW ks, NEW max, GoodTerms(ks, max), 1 \in ks.amounts, NEW t \in Nat
  PROVE  LET V(m) == deterministic_value_after_fees(m, max, ks)
             inverse == inverse_deterministic_value_after_fees(t, max, ks)
         IN  /\ inverse.ok /\ inverse.value.nominal \in Nat
             /\ t <= inverse.value.nominal
             /\ t <= V(inverse.value.nominal).value
             /\ \A k \in Nat : k < inverse.value.nominal => V(k).value < t
<1> DEFINE V(m) == deterministic_value_after_fees(m, max, ks)
           inverse == inverse_deterministic_value_after_fees(t, max, ks)
<1>1. Inverts(inverse, t, max, ks)
  BY InverseFacts, SMTT(30)
<1>2. \A m \in Nat : V(m).ok
  BY ValueFacts
<1>3. PICK m \in Nat, a \in Nat :
              /\ inverse = Ok([nominal |-> m, actual |-> a])
              /\ t <= m
              /\ V(m).ok => V(m).value = a /\ t <= a
              /\ \A k \in Nat : k < m /\ V(k).ok => V(k).value < t
  BY <1>1, Zenon DEF Inverts
<1> HIDE DEF V, inverse
<1>4. inverse.ok /\ inverse.value = [nominal |-> m, actual |-> a]
  BY <1>3, Results, Zenon
<1>5. inverse.value.nominal = m
  BY <1>4
<1> QED BY <1>2, <1>3, <1>4, <1>5, Zenon DEF V, inverse

(* The least funding for a capacity supports it, and one less does not:     *)
(* the value after fees is monotone.                                        *)
LEMMA MinimumFunding ==
  ASSUME NEW ks, NEW max, GoodTerms(ks, max), 1 \in ks.amounts, NEW t \in Nat
  PROVE  LET minimum == get_minimum_funding_token_amount(t, max, ks)
         IN  /\ MaxCapacity(minimum.value, max, ks).value >= t
             /\ t > 0 => MaxCapacity(minimum.value - 1, max, ks).value < t
<1> DEFINE V(m) == deterministic_value_after_fees(m, max, ks)
           I(m) == inverse_deterministic_value_after_fees(m, max, ks)
           minimum == get_minimum_funding_token_amount(t, max, ks)
<1>a. ASSUME NEW m \in Nat
      PROVE  V(m).ok /\ V(m).value \in Nat
  BY WholeValues, Zenon
<1>b. ASSUME NEW m \in Nat
      PROVE  /\ I(m).ok /\ I(m).value.nominal \in Nat
             /\ m <= I(m).value.nominal
             /\ m <= V(I(m).value.nominal).value
             /\ \A k \in Nat : k < I(m).value.nominal => V(k).value < m
  BY WholeInverse, Zenon
<1>c. ASSUME NEW m \in Nat
      PROVE  MaxCapacity(m, max, ks) = V(V(m).value)
  BY <1>a, Zenon DEF MaxCapacity
<1> DEFINE m1 == I(t).value.nominal
           m2 == I(m1).value.nominal
<1>1. /\ I(t).ok /\ m1 \in Nat /\ t <= m1 /\ t <= V(m1).value
      /\ \A k \in Nat : k < m1 => V(k).value < t
  BY <1>b, Zenon
<1>2. /\ I(m1).ok /\ m2 \in Nat /\ m1 <= m2 /\ m1 <= V(m2).value
      /\ \A k \in Nat : k < m2 => V(k).value < m1
  BY <1>b, <1>1, Zenon
<1>3. minimum = Ok(m2)
  BY <1>1, <1>2, Zenon DEF get_minimum_funding_token_amount
<1>4. minimum.value = m2
  <2> HIDE DEF m1, m2, minimum
  <2> QED BY <1>3, Results, Zenon
<1>5. V(m2).value \in Nat /\ V(m1).value \in Nat
  BY <1>a, <1>1, <1>2
<1>6. V(m1).value <= V(V(m2).value).value
  <2> DEFINE x == V(m2).value
  <2>1. m1 \in Nat /\ x \in Nat /\ m1 <= x
    BY <1>1, <1>2, <1>5
  <2> HIDE DEF x, m1, m2
  <2>2. V(m1).value <= V(x).value
    BY <2>1, ValueGrows, Zenon
  <2> QED BY <2>2, ZenonT(30) DEF x
<1>7. V(V(m2).value).value \in Nat
  BY <1>a, <1>5, Zenon
<1>8. MaxCapacity(minimum.value, max, ks).value >= t
  <2>1. MaxCapacity(minimum.value, max, ks) = V(V(m2).value)
    BY <1>c, <1>2, <1>4, Zenon
  <2> HIDE DEF m1, m2, V, minimum
  <2> QED BY <1>1, <1>5, <1>6, <1>7, <2>1, SMTT(30)
<1>9. ASSUME t > 0
      PROVE  MaxCapacity(minimum.value - 1, max, ks).value < t
  <2>1. m2 - 1 \in Nat /\ m2 - 1 < m2
    <3> HIDE DEF m1, m2, V, minimum
    <3> QED BY <1>1, <1>2, <1>9, SMTT(30)
  <2>2. V(m2 - 1).value < m1 /\ V(m2 - 1).value \in Nat
    BY <1>a, <1>2, <2>1, Zenon
  <2>3. V(V(m2 - 1).value).value < t
    BY <1>1, <2>2, Zenon
  <2>4. MaxCapacity(minimum.value - 1, max, ks) = V(V(m2 - 1).value)
    BY <1>c, <1>4, <2>1, Zenon
  <2> HIDE DEF m1, m2, V, minimum
  <2> QED BY <2>3, <2>4, Zenon
<1> QED BY <1>8, <1>9, Zenon

(* Closing, of one state. *)
LEMMA ClosesEverywhere ==
  ASSUME AmountsTypeOK, terms # NoTerms
  PROVE  ClosesAtEveryBalance
<1> DEFINE ks == terms.keyset
           max == terms.max
           V(m) == deterministic_value_after_fees(m, max, ks)
           I(t) == inverse_deterministic_value_after_fees(t, max, ks)
           F(t) == from_target(t, max, ks)
           limit == MaxCapacity(n, max, ks)
           params == [keyset |-> ks, max |-> max, funding |-> n, capacity |-> limit.value]
           minimum == get_minimum_funding_token_amount(n, max, ks)
<1> SUFFICES ASSUME 1 \in ks.amounts
             PROVE  /\ \A balance \in 0..limit.value :
                          LET shares == for_balance(balance, params)
                          IN  /\ ParamsAccepted(params)
                              /\ shares.ok
                              /\ value_after_fees(shares.value.receiver, ks.ppk) >= balance
                              /\ SumOf(shares.value.receiver) + SumOf(shares.value.sender)
                                     = get_value_after_stage1(params).value
                    /\ MaxCapacity(minimum.value, max, ks).value >= n
                    /\ n > 0 => MaxCapacity(minimum.value - 1, max, ks).value < n
  BY Zenon DEF ClosesAtEveryBalance
<1>1. GoodTerms(ks, max) /\ n \in Nat /\ ks.ppk <= 999
  BY TermsAreGood, SMTT(30)
<1>2. ASSUME NEW t \in Nat
      PROVE  /\ V(t).ok /\ V(t).value \in Nat /\ V(t).value <= t
             /\ F(t).ok /\ F(t).value \in Seq(Nat) /\ SumOf(F(t).value) = t
             /\ value_after_fees(F(t).value, ks.ppk) = V(t).value
  BY <1>1, WholeValues
<1>3. ASSUME NEW t \in Nat
      PROVE  /\ I(t).ok /\ I(t).value.nominal \in Nat
             /\ t <= I(t).value.nominal
             /\ t <= V(I(t).value.nominal).value
             /\ \A k \in Nat : k < I(t).value.nominal => V(k).value < t
  BY <1>1, WholeInverse
<1>4. ASSUME NEW m \in Nat
      PROVE  MaxCapacity(m, max, ks) = V(V(m).value)
  BY <1>2, Zenon DEF MaxCapacity
<1>5. get_value_after_stage1(params) = V(n)
  BY Zenon DEF get_value_after_stage1
<1>6. ASSUME NEW balance \in 0..limit.value
      PROVE  LET shares == for_balance(balance, params)
             IN  /\ ParamsAccepted(params)
                 /\ shares.ok
                 /\ value_after_fees(shares.value.receiver, ks.ppk) >= balance
                 /\ SumOf(shares.value.receiver) + SumOf(shares.value.sender)
                        = get_value_after_stage1(params).value
  <2> DEFINE s == V(n).value
             m == I(balance).value.nominal
             shares == for_balance(balance, params)
  <2>1. limit = V(s) /\ s \in Nat /\ limit.value \in Nat /\ limit.ok
    BY <1>1, <1>2, <1>4
  <2>2. balance \in Nat /\ balance <= limit.value
    BY <2>1
  <2>3. /\ I(balance).ok /\ m \in Nat /\ balance <= V(m).value
        /\ \A k \in Nat : k < m => V(k).value < balance
    BY <1>3, <2>2, Zenon
  <2>4. m <= s
    <3>1. ~(s < m)
      <4>1. V(s).value = limit.value
        BY <2>1, Zenon
      <4>2. s < m => limit.value < balance
        BY <2>1, <2>3, <4>1, Zenon
      <4> HIDE DEF limit, s, m
      <4> QED BY <2>1, <2>2, <4>2
    <3> HIDE DEF s, m
    <3> QED BY <2>1, <2>3, <3>1
  <2>5. s - m \in Nat
    <3> HIDE DEF s, m
    <3> QED BY <2>1, <2>3, <2>4, SMTT(30)
  <2>6. /\ F(m).ok /\ F(m).value \in Seq(Nat) /\ SumOf(F(m).value) = m
        /\ value_after_fees(F(m).value, ks.ppk) = V(m).value
        /\ V(m).value \in Nat
    BY <1>2, <2>3, Zenon
  <2>7. F(s - m).ok /\ F(s - m).value \in Seq(Nat) /\ SumOf(F(s - m).value) = s - m
    BY <1>2, <2>5, Zenon
  <2>8. /\ params.keyset = ks /\ params.max = max /\ params.funding = n
        /\ params.capacity = limit.value
    BY Zenon
  <2>9. ParamsAccepted(params)
    <3>2. MaxCapacity(n, max, ks).ok
      BY <2>1, Zenon
    <3>3. limit.value <= limit.value
      <4> HIDE DEF limit
      <4> QED BY <2>1, SMTT(30)
    <3> QED BY <1>1, <2>8, <3>2, <3>3 DEF ParamsAccepted
  <2>10. shares = Ok([receiver |-> F(m).value, sender |-> F(s - m).value])
    <3>1. ~(balance > limit.value)
      <4> HIDE DEF limit
      <4> QED BY <2>1, <2>2
    <3>2. ~(m > s)
      <4> HIDE DEF s, m
      <4> QED BY <2>1, <2>3, <2>4
    <3>3. V(n).ok
      BY <1>1, <1>2, SMTT(30)
    <3> DEFINE p == params
    <3>4. for_balance(balance, p)
            = IF \/ balance > p.capacity \/ ~V(n).ok \/ ~I(balance).ok \/ m > s
                 \/ ~F(m).ok \/ ~F(s - m).ok
              THEN Err ELSE Ok([receiver |-> F(m).value, sender |-> F(s - m).value])
      <4>1. p.keyset = ks /\ p.max = max
        BY <2>8, Zenon
      <4> HIDE DEF p
      <4> QED BY <1>5, <4>1 DEF for_balance, p
    <3> HIDE DEF m, s, V, I, F, limit
    <3> QED BY <2>3, <2>6, <2>7, <2>8, <3>1, <3>2, <3>3, <3>4
  <2>11. shares.ok /\ shares.value.receiver = F(m).value /\ shares.value.sender = F(s - m).value
    <3> HIDE DEF m, s, V, I, F, limit, shares
    <3>1. shares.ok /\ shares.value = [receiver |-> F(m).value, sender |-> F(s - m).value]
      BY <2>10, Results, Zenon
    <3> QED BY <3>1
  <2>12. value_after_fees(shares.value.receiver, ks.ppk) >= balance
    <3>1. value_after_fees(shares.value.receiver, ks.ppk) = V(m).value
      BY <2>6, <2>11, Zenon
    <3> HIDE DEF m, V, shares
    <3> QED BY <2>2, <2>3, <2>6, <3>1, Zenon
  <2>13. SumOf(shares.value.receiver) + SumOf(shares.value.sender) = s
    <3>1. SumOf(shares.value.receiver) = m /\ SumOf(shares.value.sender) = s - m
      BY <2>6, <2>7, <2>11
    <3> HIDE DEF m, s, shares
    <3> QED BY <2>1, <2>3, <3>1, SMTT(30)
  <2> HIDE DEF shares, params
  <2> QED BY <1>5, <2>9, <2>11, <2>12, <2>13, Zenon DEF shares
<1>7. /\ MaxCapacity(minimum.value, max, ks).value >= n
      /\ n > 0 => MaxCapacity(minimum.value - 1, max, ks).value < n
  BY <1>1, MinimumFunding
<1> HIDE DEF params, limit, minimum
<1> QED BY <1>6, <1>7, Zenon

(* At balance 0 the sender's outputs are worth all that the close leaves. *)
LEMMA EmptyClose ==
  ASSUME NEW ks, NEW max, GoodTerms(ks, max), 1 \in ks.amounts, NEW t \in Nat
  PROVE  LET p == [keyset |-> ks, max |-> max, funding |-> t, capacity |-> 0]
         IN  SumOf(for_balance(0, p).value.sender)
                = deterministic_value_after_fees(t, max, ks).value
<1> DEFINE p == [keyset |-> ks, max |-> max, funding |-> t, capacity |-> 0]
           s == deterministic_value_after_fees(t, max, ks)
           F(m) == from_target(m, max, ks)
           inverse == inverse_deterministic_value_after_fees(0, max, ks)
           shares == for_balance(0, p)
<1>1. s.ok /\ s.value \in Nat
  BY WholeValues, Zenon
<1>2. inverse.ok /\ inverse.value.nominal = 0
  <2>1. inverse = Ok([nominal |-> 0, actual |-> 0])
    BY Zenon DEF inverse_deterministic_value_after_fees
  <2>2. inverse.ok /\ inverse.value = [nominal |-> 0, actual |-> 0]
    BY <2>1, Results, Zenon
  <2> HIDE DEF inverse
  <2> QED BY <2>2
<1>3. s.value - 0 = s.value
  BY <1>1
<1>4. F(0).ok /\ F(s.value).ok /\ SumOf(F(s.value).value) = s.value
  BY <1>1, WholeValues, Zenon
<1>5. p.keyset = ks /\ p.max = max /\ p.funding = t /\ p.capacity = 0
  BY Zenon
<1> HIDE DEF p
<1>6. get_value_after_stage1(p) = s
  BY <1>5, Zenon DEF get_value_after_stage1
<1>7. shares = IF \/ 0 > p.capacity \/ ~s.ok \/ ~inverse.ok \/ inverse.value.nominal > s.value
                  \/ ~F(inverse.value.nominal).ok \/ ~F(s.value - inverse.value.nominal).ok
               THEN Err
               ELSE Ok([receiver |-> F(inverse.value.nominal).value,
                        sender |-> F(s.value - inverse.value.nominal).value])
  BY <1>5, <1>6, Zenon DEF for_balance
<1>8. ~(0 > p.capacity) /\ ~(0 > s.value)
  BY <1>1, <1>5
<1> HIDE DEF s, F, inverse, shares
<1>9. shares = Ok([receiver |-> F(0).value, sender |-> F(s.value).value])
  BY <1>1, <1>2, <1>3, <1>4, <1>7, <1>8
<1>10. shares.value = [receiver |-> F(0).value, sender |-> F(s.value).value]
  BY <1>9, Results, Zenon
<1>11. shares.value.sender = F(s.value).value
  BY <1>10
<1> QED BY <1>4, <1>11, Zenon DEF shares, p, s

(* Refunding, of one state. *)
LEMMA RefundsEverywhere ==
  ASSUME AmountsTypeOK, terms # NoTerms
  PROVE  RefundEqualsEmptyClose
<1> DEFINE ks == terms.keyset
           max == terms.max
           p == [keyset |-> ks, max |-> max, funding |-> n, capacity |-> 0]
           proofs == from_target(n, max, ks)
           value == get_value_after_stage1(p)
           fee == DivCeil(ks.ppk * Len(proofs.value), 1000)
           refund(out) == prepare_unsigned_sender_refund(p, proofs.value, out)
<1> SUFFICES ASSUME NEW out \in FeeKeysets,
                    proofs.ok, n <= MaxU, out.unit = ks.unit, 1 \in out.amounts
             PROVE  /\ refund(out).ok <=> value.value > 0
                    /\ refund(out).ok => SumOf(refund(out).value) = value.value
                    /\ refund(out).ok /\ 1 \in ks.amounts =>
                          SumOf(refund(out).value) = SumOf(for_balance(0, p).value.sender)
  BY Zenon DEF RefundEqualsEmptyClose
<1>1. GoodTerms(ks, max) /\ n \in Nat /\ ks.ppk \in Nat
  BY TermsAreGood
<1>2. Splittable(out, max)
  BY TermsAreGood
<1>3. proofs.value \in Seq(Nat) /\ SumOf(proofs.value) = n /\ Len(proofs.value) \in Nat
  BY <1>1, SplitFacts DEF GoodTerms
<1>4. fee \in Nat
  <2> HIDE DEF proofs
  <2>1. ks.ppk * Len(proofs.value) \in Nat
    BY <1>1, <1>3, Products, Zenon
  <2> QED BY <2>1, Ceilings
<1>5. value = deterministic_value_after_fees(n, max, ks)
  BY Zenon DEF get_value_after_stage1
<1>6. value.ok /\ value.value = SaturatingSub(n, fee)
  BY <1>1, <1>5, ValueFacts
<1>7. 1 \in ks.amounts => SumOf(for_balance(0, p).value.sender) = value.value
  BY <1>1, <1>5, EmptyClose
<1>8. p.keyset = ks /\ p.max = max
  BY Zenon
<1> HIDE DEF p
<1>9. refund(out) = IF \/ out.unit # ks.unit \/ 0 \in out.amounts
                       \/ SumOf(proofs.value) > MaxU \/ fee >= SumOf(proofs.value)
                    THEN Err
                    ELSE from_target(SumOf(proofs.value) - fee, max, out)
  BY <1>8 DEF prepare_unsigned_sender_refund
<1>10. 0 \notin out.amounts
  BY <1>2 DEF Splittable
<1>11. ~(n > MaxU)
  BY <1>1, AmountsAssumption
<1> HIDE DEF proofs, fee, value, refund
<1>12. refund(out) = IF fee >= n THEN Err ELSE from_target(n - fee, max, out)
  BY <1>3, <1>9, <1>10, <1>11, Zenon
<1>13. CASE fee >= n
  <2>1. refund(out) = Err /\ value.value = 0
    BY <1>1, <1>4, <1>6, <1>12, <1>13 DEF SaturatingSub
  <2>2. ~refund(out).ok
    BY <2>1, Results, Zenon
  <2> QED BY <2>1, <2>2
<1>14. CASE ~(fee >= n)
  <2>1. n - fee \in Nat /\ value.value = n - fee /\ value.value > 0
    BY <1>1, <1>4, <1>6, <1>14 DEF SaturatingSub
  <2>2. refund(out) = from_target(n - fee, max, out)
    BY <1>12, <1>14, Zenon
  <2>3. refund(out).ok /\ SumOf(refund(out).value) = n - fee
    BY <1>2, <2>1, <2>2, SplitFacts
  <2> QED BY <1>7, <2>1, <2>3, Zenon
<1> QED BY <1>13, <1>14, Zenon

(* Every channel ChannelParameters::new accepts can be closed at every      *)
(* balance up to its capacity with both shares exact, the minimum funding   *)
(* is the minimum, and the refund returns what an empty close would: for    *)
(* every keyset with the denomination 1 and a fee below one unit an output. *)
THEOREM BalancesAlwaysClose == AmountsSpec => []EveryBalanceCloses
<1>1. AmountsTypeOK => EveryBalanceCloses
  BY ClosesEverywhere, RefundsEverywhere DEF EveryBalanceCloses
<1> QED BY <1>1, AmountsType, PTL

(* An input of an opening has an amount and a known keyset, and keysets are *)
(* told apart by their ids.                                                 *)
LEMMA InputsAre ==
  /\ \A s \in OpeningInputs : \E S : s \in Seq(S)
  /\ \A s \in OpeningInputs, i \in Nat :
        i \in DOMAIN s => /\ s[i].amount \in Nat
                         /\ \E k \in FeeKeysets : s[i].keyset = k.id
  /\ \A k \in FeeKeysets : k.ppk \in Nat
  /\ \A k, l \in FeeKeysets : k.id = l.id => k = l
<1> DEFINE Ids == {k.id : k \in FeeKeysets}
           S == [amount : Nat, keyset : Ids]
<1>1. \A s \in OpeningInputs : s \in Seq(S)
  BY AmountsAssumption, Zenon
<1>2. \A k \in FeeKeysets : k.ppk \in Nat
  BY AmountsAssumption, Zenon
<1>3. \A k, l \in FeeKeysets : k.id = l.id => k = l
  BY AmountsAssumption
<1>4. \A s \in OpeningInputs, i \in Nat : i \in DOMAIN s => s[i] \in S
  <2> HIDE DEF S
  <2> QED BY <1>1
<1>5. \A r \in S : r.amount \in Nat /\ r.keyset \in Ids
  <2> HIDE DEF Ids
  <2> QED OBVIOUS
<1>6. \A x \in Ids : \E k \in FeeKeysets : x = k.id
  OBVIOUS
<1>7. \A s \in OpeningInputs, i \in Nat :
        i \in DOMAIN s => s[i].amount \in Nat /\ \E k \in FeeKeysets : s[i].keyset = k.id
  <2> HIDE DEF S, Ids
  <2> QED BY <1>4, <1>5, <1>6, Zenon
<1>8. \A s \in OpeningInputs : \E T : s \in Seq(T)
  <2> HIDE DEF S
  <2> QED BY <1>1, Zenon
<1> HIDE DEF S
<1> QED BY <1>2, <1>3, <1>7, <1>8, Zenon

(* The funding of an opening: what compute_channel_from_proofs_inner        *)
(* accepts, and the outputs of the swap for it.                             *)
LEMMA OpeningIsExact ==
  ASSUME NEW ks, NEW max, GoodTerms(ks, max), NEW post \in Nat, NEW unit,
         NEW requested, requested = {} \/ \E a \in Nat : requested = {a}
  PROVE  LET opening == compute_channel_from_proofs_inner(post, unit, ks, max, {}, requested)
             swap == create_funding_swap_with_plain_change(
                         opening.value.params, opening.value.change)
         IN  opening.ok =>
             /\ ParamsAccepted(opening.value.params)
             /\ swap.ok => SumOf(swap.value) = post
             /\ 1 \in ks.amounts => swap.ok
<1> DEFINE opening == compute_channel_from_proofs_inner(post, unit, ks, max, {}, requested)
           swap == create_funding_swap_with_plain_change(
                       opening.value.params, opening.value.change)
           funding == IF requested = {} THEN post ELSE CHOOSE a \in requested : TRUE
           limit == MaxCapacity(funding, max, ks)
           capacity == limit.value
           p == [keyset |-> ks, max |-> max, capacity |-> capacity, funding |-> funding]
<1> SUFFICES ASSUME opening.ok
             PROVE  /\ ParamsAccepted(opening.value.params)
                    /\ swap.ok => SumOf(swap.value) = post
                    /\ 1 \in ks.amounts => swap.ok
  OBVIOUS
<1>1. funding \in Nat
  BY Zenon
<1>2. opening = IF \/ ks.unit # unit \/ funding > post \/ ~limit.ok \/ capacity > limit.value
                   \/ ~ParamsAccepted(p)
                THEN Err ELSE Ok([params |-> p, change |-> post - funding])
  BY Zenon DEF compute_channel_from_proofs_inner
<1>3. p.keyset = ks /\ p.max = max /\ p.funding = funding
  BY Zenon
<1> HIDE DEF opening, funding, p
<1>4. /\ opening = Ok([params |-> p, change |-> post - funding])
      /\ ~(funding > post) /\ ParamsAccepted(p)
  BY <1>2, Results, Zenon
<1>5. opening.value = [params |-> p, change |-> post - funding]
  BY <1>4, Results, Zenon
<1> DEFINE change == post - funding
<1>6. opening.value.params = p /\ opening.value.change = change
  BY <1>5
<1>7. change \in Nat /\ funding + change = post
  BY <1>1, <1>4
<1> HIDE DEF change
<1> DEFINE F == from_target(funding, max, ks)
           P == plain_change_outputs(change, ks)
<1>8. swap = IF ~F.ok \/ ~P.ok THEN Err ELSE Ok(F.value \o P.value)
  BY <1>3, <1>6, Zenon DEF create_funding_swap_with_plain_change
<1>9. /\ F.ok => F.value \in Seq(Nat) /\ SumOf(F.value) = funding
      /\ 1 \in ks.amounts => F.ok
  BY <1>1, SplitFacts DEF GoodTerms
<1>10. /\ P.ok => P.value \in Seq(Nat) /\ SumOf(P.value) = change
       /\ 1 \in ks.amounts => P.ok
  <2>1. CASE change = 0
    <3>1. P = Ok(<< >>)
      BY <2>1, Zenon DEF plain_change_outputs
    <3>2. P.ok /\ P.value = << >>
      BY <3>1, Results, Zenon
    <3>3. << >> \in Seq(Nat)
      OBVIOUS
    <3> QED BY <2>1, <3>2, <3>3, SmallSums, Zenon
  <2>2. CASE change # 0
    <3>1. P = from_target(change, 0, ks)
      BY <2>2, Zenon DEF plain_change_outputs
    <3>2. Splittable(ks, 0)
      BY DEF GoodTerms, Splittable
    <3> QED BY <1>7, <3>1, <3>2, SplitFacts
  <2> QED BY <2>1, <2>2
<1> HIDE DEF F, P, swap
<1>11. ASSUME swap.ok
       PROVE  SumOf(swap.value) = post
  <2>1. F.ok /\ P.ok /\ swap = Ok(F.value \o P.value)
    BY <1>8, <1>11, Results
  <2>2. swap.value = F.value \o P.value
    BY <2>1, Results, ZenonT(30)
  <2>3. SumOf(swap.value) = SumOf(F.value) + SumOf(P.value)
    BY <1>9, <1>10, <2>1, <2>2, SumOfBoth
  <2> QED BY <1>7, <1>9, <1>10, <2>1, <2>3, Zenon
<1>12. 1 \in ks.amounts => swap.ok
  BY <1>8, <1>9, <1>10, Results, Zenon
<1> QED BY <1>4, <1>6, <1>11, <1>12, SMTT(30)

(* Openings, of one state. *)
LEMMA OpeningsBalance ==
  ASSUME AmountsTypeOK, terms # NoTerms
  PROVE  OpeningBalances
<1> DEFINE ks == terms.keyset
           max == terms.max
           own == [k \in {ks.id} |-> ks.ppk]
           amounts(inputs) == [i \in DOMAIN inputs |-> inputs[i].amount]
           ppks(inputs) == [i \in DOMAIN inputs |-> InputFees[inputs[i].keyset]]
           owns(inputs) == [i \in DOMAIN inputs |-> own[inputs[i].keyset]]
           worth(inputs) == SumOf(amounts(inputs))
           fee(inputs) == DivCeil(SumOf(ppks(inputs)), 1000)
           opening(inputs, requested) ==
               compute_channel_from_proofs_with_mode(
                   inputs, InputFees, ks.unit, ks, max, {}, requested)
           swap(inputs, requested) ==
               create_funding_swap_with_plain_change(
                   opening(inputs, requested).value.params,
                   opening(inputs, requested).value.change)
<1> DEFINE Balances(inputs, requested) ==
               opening(inputs, requested).ok /\ fee(inputs) <= worth(inputs) =>
               /\ ParamsAccepted(opening(inputs, requested).value.params)
               /\ swap(inputs, requested).ok =>
                     SumOf(swap(inputs, requested).value) = worth(inputs) - fee(inputs)
               /\ 1 \in ks.amounts => swap(inputs, requested).ok
               /\ requested = {} =>
                     compute_channel_from_token_with_input_keysets_and_mode(
                         inputs, InputFees, ks.unit, ks, max, {}) = opening(inputs, requested)
               /\ requested = {} /\ (\A i \in DOMAIN inputs : inputs[i].keyset = ks.id) =>
                     compute_channel_from_token_with_mode(inputs, ks.unit, ks, max, {})
                         = opening(inputs, requested)
<1>0. OpeningBalances = \A inputs \in OpeningInputs, requested \in {{}, {n}} : Balances(inputs, requested)
  BY ZenonT(30) DEF OpeningBalances
<1> HIDE DEF Balances, own, amounts, ppks, owns, worth, fee, opening, swap
<1> SUFFICES ASSUME NEW inputs \in OpeningInputs, NEW requested \in {{}, {n}},
                    opening(inputs, requested).ok, fee(inputs) <= worth(inputs)
             PROVE  Balances(inputs, requested)
  BY <1>0, Zenon DEF Balances
<1>1. GoodTerms(ks, max) /\ n \in Nat /\ ks \in FeeKeysets
  BY TermsAreGood
<1>2. PICK S : inputs \in Seq(S)
  BY InputsAre, Zenon
<1>3. ASSUME NEW i \in DOMAIN inputs
      PROVE  inputs[i].amount \in Nat /\ \E k \in FeeKeysets : inputs[i].keyset = k.id
  <2>1. i \in Nat
    BY <1>2
  <2> QED BY <2>1, InputsAre, Zenon
<1>4. ASSUME NEW k \in FeeKeysets
      PROVE  InputFees[k.id] = k.ppk /\ k.ppk \in Nat
  <2>1. k.ppk \in Nat
    BY InputsAre, Zenon
  <2>2. \A l \in FeeKeysets : l.id = k.id => l = k
    BY InputsAre, Zenon
  <2>3. (CHOOSE l \in FeeKeysets : l.id = k.id) = k
    BY <2>2, Zenon
  <2> QED BY <2>1, <2>3, Zenon DEF InputFees
<1>5. \A i \in DOMAIN inputs : InputFees[inputs[i].keyset] \in Nat /\ inputs[i].keyset \in DOMAIN InputFees
  BY <1>3, <1>4 DEF InputFees
<1>6. worth(inputs) \in Nat
  <2>1. amounts(inputs) \in Seq(Nat)
    BY <1>2, <1>3, NumbersOf, Zenon DEF amounts
  <2> QED BY <2>1, SmallSums, Zenon DEF worth
<1>7. fee(inputs) \in Nat
  <2>1. ppks(inputs) \in Seq(Nat)
    BY <1>2, <1>5, NumbersOf, Zenon DEF ppks
  <2>2. SumOf(ppks(inputs)) \in Nat
    BY <2>1, SmallSums, Zenon
  <2> QED BY <2>2, Ceilings DEF fee
<1> DEFINE input == compute_post_swap_value_from_input_keysets(inputs, InputFees)
           post == SaturatingSub(worth(inputs), fee(inputs))
<1>8. input = IF worth(inputs) > MaxU \/ \E i \in DOMAIN inputs : inputs[i].keyset \notin DOMAIN InputFees
              THEN Err
              ELSE Ok([value |-> worth(inputs), fee |-> fee(inputs), post_swap |-> post])
  BY DEF compute_post_swap_value_from_input_keysets, worth, fee, amounts, ppks
<1>9. opening(inputs, requested)
        = IF ~input.ok THEN Err
          ELSE compute_channel_from_proofs_inner(input.value.post_swap, ks.unit, ks, max,
                                                 {}, requested)
  BY Zenon DEF compute_channel_from_proofs_with_mode, opening
<1>10. input.ok
  <2> HIDE DEF input
  <2> QED BY <1>9, Results, Zenon
<1>11. input.value.post_swap = post
  <2> HIDE DEF input, post
  <2>1. input = Ok([value |-> worth(inputs), fee |-> fee(inputs), post_swap |-> post])
    BY <1>8, <1>10, Results, Zenon
  <2>2. input.value = [value |-> worth(inputs), fee |-> fee(inputs), post_swap |-> post]
    BY <2>1, Results, Zenon
  <2> QED BY <2>2, SMTT(30)
<1>12. post = worth(inputs) - fee(inputs) /\ post \in Nat
  BY <1>6, <1>7, SMTT(30) DEF SaturatingSub
<1>13. /\ ParamsAccepted(opening(inputs, requested).value.params)
       /\ swap(inputs, requested).ok => SumOf(swap(inputs, requested).value) = post
       /\ 1 \in ks.amounts => swap(inputs, requested).ok
  <2> DEFINE inner == compute_channel_from_proofs_inner(post, ks.unit, ks, max, {}, requested)
  <2>1. opening(inputs, requested) = inner
    <3> HIDE DEF input, post
    <3> QED BY <1>9, <1>10, <1>11
  <2>2. requested = {} \/ \E a \in Nat : requested = {a}
    BY <1>1
  <2> HIDE DEF post
  <2>3. post \in Nat /\ inner.ok
    BY <1>12, <2>1, SMTT(30)
  <2> DEFINE made == create_funding_swap_with_plain_change(inner.value.params, inner.value.change)
  <2>4. /\ ParamsAccepted(inner.value.params)
        /\ made.ok => SumOf(made.value) = post
        /\ 1 \in ks.amounts => made.ok
    BY <1>1, <2>2, <2>3, OpeningIsExact
  <2>5. swap(inputs, requested) = made
    BY <2>1 DEF swap
  <2> HIDE DEF inner, made
  <2> QED BY <2>1, <2>4, <2>5
<1>14. requested = {} =>
           compute_channel_from_token_with_input_keysets_and_mode(
               inputs, InputFees, ks.unit, ks, max, {}) = opening(inputs, requested)
  BY DEF compute_channel_from_token_with_input_keysets_and_mode,
         compute_channel_from_proofs_with_mode, opening
<1>15. ASSUME requested = {}, \A i \in DOMAIN inputs : inputs[i].keyset = ks.id
       PROVE  compute_channel_from_token_with_mode(inputs, ks.unit, ks, max, {})
                  = opening(inputs, requested)
  <2>1. owns(inputs) = ppks(inputs)
    <3>1. \A i \in DOMAIN inputs : own[inputs[i].keyset] = ks.ppk
      BY <1>15, Zenon DEF own
    <3>2. \A i \in DOMAIN inputs : InputFees[inputs[i].keyset] = ks.ppk
      BY <1>1, <1>4, <1>15, Zenon
    <3> QED BY <3>1, <3>2, Zenon DEF owns, ppks
  <2>2. \A i \in DOMAIN inputs : inputs[i].keyset \in DOMAIN own
    BY <1>15, Zenon DEF own
  <2> DEFINE alone == compute_post_swap_value_from_input_keysets(inputs, own)
  <2>3. alone = IF worth(inputs) > MaxU \/ \E i \in DOMAIN inputs : inputs[i].keyset \notin DOMAIN own
                THEN Err
                ELSE Ok([value |-> worth(inputs), fee |-> DivCeil(SumOf(owns(inputs)), 1000),
                         post_swap |-> SaturatingSub(worth(inputs), DivCeil(SumOf(owns(inputs)), 1000))])
    BY Zenon DEF compute_post_swap_value_from_input_keysets, worth, amounts, owns
  <2>4. compute_channel_from_token_with_mode(inputs, ks.unit, ks, max, {})
          = IF ~alone.ok THEN Err
            ELSE compute_channel_from_proofs_inner(alone.value.post_swap, ks.unit, ks, max, {}, {})
    BY SMTT(30) DEF compute_channel_from_token_with_mode, own
  <2> HIDE DEF alone, input
  <2>5. alone = input
    BY <1>5, <1>8, <2>1, <2>2, <2>3, SMTT(30) DEF fee
  <2> QED BY <1>9, <1>15, <2>4, <2>5
<1> HIDE DEF post
<1> QED BY <1>12, <1>13, <1>14, <1>15 DEF Balances

(* An opening asks the mint for exactly what its inputs are worth after the *)
(* mint's fee, and its three forms agree: for every list of inputs, every   *)
(* set of keysets and every requested funding.                              *)
THEOREM OpeningsAlwaysBalance == AmountsSpec => []OpeningBalances
<1>1. AmountsTypeOK => OpeningBalances
  BY OpeningsBalance, ZenonT(30) DEF OpeningBalances
<1> QED BY <1>1, AmountsType, PTL

-----------------------------------------------------------------------------
(* Prices. *)

(* A number below the modulus is its own remainder. *)
LEMMA SmallRemainder ==
  ASSUME NEW m \in Nat \ {0}, NEW x \in Nat, x < m
  PROVE  x % m = x
OBVIOUS

(* Rounding up keeps the order, for every divisor. *)
LEMMA QuotientsGrow ==
  ASSUME NEW d \in Nat \ {0}, NEW x \in Nat, NEW y \in Nat, x <= y
  PROVE  DivCeil(x, d) <= DivCeil(y, d)
<1> DEFINE a == x + d - 1
           b == y + d - 1
           q == a \div d
           r == b \div d
<1>1. a \in Nat /\ b \in Nat /\ a <= b
  OBVIOUS
<1> HIDE DEF a, b
<1>2. q \in Nat /\ d * q <= a /\ a < d * q + d
  BY <1>1
<1>3. r \in Nat /\ d * r <= b /\ b < d * r + d
  BY <1>1
<1> HIDE DEF q, r
<1>4. ~(r + 1 <= q)
  <2> SUFFICES ASSUME r + 1 <= q
               PROVE  FALSE
    BY Zenon
  <2>1. d * (r + 1) <= d * q /\ d * (r + 1) = d * r + d * 1
    BY <1>2, <1>3, Products
  <2>2. d * r \in Nat /\ d * q \in Nat /\ d * 1 = d
    BY <1>2, <1>3, Products
  <2> DEFINE u == d * r
             w == d * q
  <2> HIDE DEF u, w
  <2>3. u \in Nat /\ w \in Nat /\ u + d <= w /\ w <= a /\ b < u + d
    BY <1>2, <1>3, <2>1, <2>2, Zenon DEF u, w
  <2> QED BY <1>1, <2>3
<1>5. q <= r
  BY <1>2, <1>3, <1>4
<1> QED BY <1>5, Zenon DEF DivCeil, q, r, a, b

(* Saturating early or late is the same. *)
LEMMA SaturatesOnce ==
  /\ Saturate(0) = 0
  /\ \A a, b \in Nat : /\ Saturate(a) \in Nat
                       /\ Saturate(Saturate(a) + Saturate(b)) = Saturate(a + b)
                       /\ a <= b => Saturate(a) <= Saturate(b)
<1>1. MaxU \in Nat
  BY AmountsAssumption, Zenon
<1> QED BY <1>1 DEF Saturate

(* The amount due is the exact price cut off at the largest total, rounded  *)
(* up: as long as the units fit, neither the cut-off of one variable nor    *)
(* the order of the variables shows.                                        *)
LEMMA AmountDueIs ==
  ASSUME NEW prices \in Seq(Nat), NEW scale, NEW accumulated, NEW pending,
         \A v \in DOMAIN prices : /\ accumulated[v] \in Nat /\ pending[v] \in Nat
                                  /\ accumulated[v] + pending[v] <= MaxU
  PROVE  LET costs == [v \in DOMAIN prices |-> (accumulated[v] + pending[v]) * prices[v]]
         IN  /\ costs \in Seq(Nat) /\ Len(costs) = Len(prices)
             /\ compute_amount_due(prices, scale, accumulated, pending)
                    = DivCeil(Saturate(SumOf(costs)), scale)
<1> DEFINE L == Len(prices)
           costs == [v \in DOMAIN prices |-> (accumulated[v] + pending[v]) * prices[v]]
           charge(v) == Saturate(((accumulated[v] + pending[v]) % (MaxU + 1)) * prices[v])
           Body(f, v) == IF v = 0 THEN 0 ELSE Saturate(f[v - 1] + charge(v))
           Eq(f) == f = [v \in 0..Len(prices) |-> Body(f, v)]
           total == CHOOSE f : Eq(f)
<1>1. compute_amount_due(prices, scale, accumulated, pending) = DivCeil(total[Len(prices)], scale)
  BY DEF compute_amount_due
<1>2. Len(prices) \in Nat /\ DOMAIN prices = 1..Len(prices)
  OBVIOUS
<1>3. ASSUME NEW v \in DOMAIN prices
      PROVE  costs[v] \in Nat /\ charge(v) = Saturate(costs[v])
  <2>1. accumulated[v] + pending[v] \in Nat /\ accumulated[v] + pending[v] < MaxU + 1
    BY AmountsAssumption, SMTT(30)
  <2>2. MaxU + 1 \in Nat \ {0}
    BY AmountsAssumption
  <2> DEFINE x == accumulated[v] + pending[v]
  <2>3. x \in Nat /\ x % (MaxU + 1) = x
    <3> HIDE DEF x
    <3>1. x \in Nat /\ x < MaxU + 1
      BY <2>1, Zenon DEF x
    <3> QED BY <2>2, <3>1, SmallRemainder, Zenon
  <2>4. prices[v] \in Nat
    OBVIOUS
  <2>5. x * prices[v] \in Nat
    <3> HIDE DEF x
    <3> QED BY <2>3, <2>4, Products, Zenon
  <2>6. costs[v] = x * prices[v]
    BY Zenon
  <2>7. charge(v) = Saturate((x % (MaxU + 1)) * prices[v])
    BY Zenon
  <2> HIDE DEF costs, charge, x
  <2> QED BY <2>3, <2>5, <2>6, <2>7, SMTT(30)
<1>4. costs \in Seq(Nat) /\ Len(costs) = Len(prices)
  <2>1. costs = [v \in DOMAIN prices |-> costs[v]]
    OBVIOUS
  <2> HIDE DEF costs, charge
  <2> QED BY <1>3, <2>1, NumbersOf
<1> HIDE DEF costs, charge
<1>5. PICK g \in [0..Len(costs) -> Nat] :
            g[0] = 0 /\ (\A i \in 1..Len(costs) : g[i] = g[i - 1] + costs[i]) /\ SumOf(costs) = g[Len(costs)]
  BY <1>4, PartialSums, Zenon
<1> DEFINE h == [v \in 0..Len(prices) |-> Saturate(g[v])]
<1>6. ASSUME NEW v \in 1..Len(prices)
      PROVE  Saturate(g[v]) = Saturate(Saturate(g[v - 1]) + charge(v))
  <2>1. v \in 1..Len(costs) /\ v - 1 \in 0..Len(costs) /\ v \in DOMAIN prices
    BY <1>2, <1>4
  <2>2. g[v] = g[v - 1] + costs[v] /\ g[v - 1] \in Nat
    BY <1>5, <2>1, Zenon
  <2>3. costs[v] \in Nat /\ charge(v) = Saturate(costs[v])
    BY <1>3, <2>1
  <2>4. Saturate(Saturate(g[v - 1]) + Saturate(costs[v])) = Saturate(g[v - 1] + costs[v])
    BY <2>2, <2>3, SaturatesOnce, Zenon
  <2> QED BY <2>2, <2>3, <2>4, Zenon
<1>7. \A v \in 0..Len(prices) : h[v] = Body(h, v)
  <2> SUFFICES ASSUME NEW v \in 0..Len(prices)
               PROVE  h[v] = Body(h, v)
    BY Zenon
  <2>1. CASE v = 0
    BY <1>5, <2>1, SaturatesOnce
  <2>2. CASE v # 0
    <3>1. v \in 1..Len(prices) /\ v - 1 \in 0..Len(prices)
      BY <1>2, <2>2
    <3>2. h[v - 1] = Saturate(g[v - 1]) /\ h[v] = Saturate(g[v])
      BY <3>1, Zenon
    <3> HIDE DEF h
    <3> QED BY <1>6, <2>2, <3>1, <3>2
  <2> QED BY <2>1, <2>2, Zenon
<1>8. Eq(h)
  <2>1. h = [v \in 0..Len(prices) |-> h[v]]
    BY Zenon
  <2> HIDE DEF h, Body
  <2> QED BY <1>7, <2>1, Zenon
<1>9. Eq(total)
  <2> HIDE DEF Eq, h
  <2> QED BY <1>8
<1> HIDE DEF total
<1>10. \A v \in 0..Len(prices) : total[v] = Body(total, v)
  <2> HIDE DEF Body
  <2> QED BY <1>9, Zenon
<1> DEFINE S == {v \in Nat : v <= Len(prices) => total[v] = h[v]}
<1>11. 0 \in S
  <2>1. 0 \in 0..Len(prices)
    BY <1>2
  <2>2. total[0] = 0 /\ h[0] = 0
    <3> HIDE DEF h
    <3> QED BY <1>7, <1>10, <2>1, Zenon
  <2> HIDE DEF h
  <2> QED BY <2>2, Zenon
<1>a. \A v, l \in Nat : v + 1 <= l =>
          v + 1 \in 0..l /\ (v + 1) - 1 = v /\ v + 1 # 0 /\ v <= l
  OBVIOUS
<1>12. \A v \in Nat : v \in S => v + 1 \in S
  <2> HIDE DEF h
  <2> SUFFICES ASSUME NEW v \in Nat, v \in S, v + 1 <= Len(prices)
               PROVE  total[v + 1] = h[v + 1]
    OBVIOUS
  <2>1. v + 1 \in 0..Len(prices) /\ (v + 1) - 1 = v /\ v + 1 # 0 /\ v <= Len(prices)
    BY <1>2, <1>a, Zenon
  <2>2. total[v + 1] = Saturate(total[v] + charge(v + 1)) /\ h[v + 1] = Saturate(h[v] + charge(v + 1))
    BY <1>7, <1>10, <2>1, Zenon
  <2> QED BY <2>1, <2>2
<1>13. total[Len(prices)] = h[Len(prices)]
  <2> HIDE DEF S
  <2>1. Len(prices) \in S
    BY <1>2, <1>11, <1>12, Induction, Zenon
  <2> HIDE DEF h
  <2> QED BY <1>2, <2>1 DEF S
<1>14. h[Len(prices)] = Saturate(SumOf(costs))
  BY <1>2, <1>4, <1>5
<1> QED BY <1>1, <1>4, <1>13, <1>14 DEF costs

(* Amounts due, of one state. *)
LEMMA DueSaturates ==
  ASSUME AmountsTypeOK, terms # NoTerms
  PROVE  AmountDueSaturates
<1> DEFINE used(c, growing, m) == [v \in DOMAIN c.prices |-> IF v = growing THEN m ELSE 1]
           due(c, growing, m) ==
               compute_amount_due(c.prices, c.scale, used(c, growing, m), c.pending)
           costs(c, growing, m) ==
               [v \in DOMAIN c.prices |-> (used(c, growing, m)[v] + c.pending[v]) * c.prices[v]]
           exact(c, growing) == SumOf(costs(c, growing, n))
           UnitsFit(c, growing) ==
               \A v \in DOMAIN c.prices : used(c, growing, n + 1)[v] + c.pending[v] <= MaxU
           Saturates(c, growing) ==
               UnitsFit(c, growing) =>
               /\ due(c, growing, n)
                    = DivCeil(IF exact(c, growing) > MaxU THEN MaxU ELSE exact(c, growing), c.scale)
               /\ due(c, growing, n) <= due(c, growing, n + 1)
<1>0. AmountDueSaturates = \A c \in Charges : \A growing \in DOMAIN c.prices : Saturates(c, growing)
  BY Zenon DEF AmountDueSaturates
<1> HIDE DEF Saturates, UnitsFit, exact, costs, due, used
<1> SUFFICES ASSUME NEW c \in Charges, NEW growing \in DOMAIN c.prices, UnitsFit(c, growing)
             PROVE  Saturates(c, growing)
  BY <1>0, Zenon DEF Saturates
<1>1. n \in Nat /\ MaxU \in Nat
  BY AmountsAssumption, TermsAreGood, SMTT(30)
<1>2. c.prices \in Seq(Nat) /\ c.pending \in [DOMAIN c.prices -> Nat] /\ c.scale \in Nat \ {0}
  BY AmountsAssumption, SMTT(30)
<1> DEFINE used0 == used(c, growing, n)
           used1 == used(c, growing, n + 1)
           costs0 == costs(c, growing, n)
           costs1 == costs(c, growing, n + 1)
<1>3. ASSUME NEW v \in DOMAIN c.prices
      PROVE  /\ used0[v] \in Nat /\ used1[v] \in Nat /\ c.pending[v] \in Nat /\ c.prices[v] \in Nat
             /\ used0[v] <= used1[v]
             /\ used0[v] + c.pending[v] <= MaxU /\ used1[v] + c.pending[v] <= MaxU
  <2>1. used0[v] \in Nat /\ used1[v] \in Nat /\ used0[v] <= used1[v]
    BY <1>1 DEF used
  <2>2. c.pending[v] \in Nat /\ c.prices[v] \in Nat
    BY <1>2
  <2>3. used1[v] + c.pending[v] <= MaxU
    BY DEF UnitsFit
  <2>4. \A x, y, z \in Nat : x <= y /\ y + z <= MaxU => x + z <= MaxU
    BY <1>1
  <2> QED BY <2>1, <2>2, <2>3, <2>4, ZenonT(30)
<1>4. /\ costs0 \in Seq(Nat) /\ Len(costs0) = Len(c.prices)
      /\ due(c, growing, n) = DivCeil(Saturate(SumOf(costs0)), c.scale)
  BY <1>2, <1>3, AmountDueIs, Zenon DEF costs, due
<1>5. /\ costs1 \in Seq(Nat) /\ Len(costs1) = Len(c.prices)
      /\ due(c, growing, n + 1) = DivCeil(Saturate(SumOf(costs1)), c.scale)
  BY <1>2, <1>3, AmountDueIs, Zenon DEF costs, due
<1>6. \A v \in 1..Len(costs0) : costs0[v] <= costs1[v]
  <2> SUFFICES ASSUME NEW v \in DOMAIN c.prices
               PROVE  costs0[v] <= costs1[v]
    BY <1>2, <1>4, SMTT(30)
  <2> DEFINE x == used0[v] + c.pending[v]
             y == used1[v] + c.pending[v]
  <2>1. x \in Nat /\ y \in Nat /\ x <= y
    BY <1>3
  <2>2. costs0[v] = x * c.prices[v] /\ costs1[v] = y * c.prices[v]
    BY Zenon DEF costs
  <2> HIDE DEF x, y, costs0, costs1
  <2>3. c.prices[v] * x <= c.prices[v] * y
    BY <1>3, <2>1, Products
  <2>4. \A u, w \in Nat : u * w = w * u
    OBVIOUS
  <2> QED BY <1>3, <2>1, <2>2, <2>3, <2>4
<1> HIDE DEF costs0, costs1, used0, used1
<1>7. SumOf(costs0) <= SumOf(costs1) /\ SumOf(costs0) \in Nat /\ SumOf(costs1) \in Nat
  BY <1>4, <1>5, <1>6, SumGrows, SmallSums
<1>8. /\ Saturate(SumOf(costs0)) \in Nat /\ Saturate(SumOf(costs1)) \in Nat
      /\ Saturate(SumOf(costs0)) <= Saturate(SumOf(costs1))
  BY <1>7, SaturatesOnce, Zenon
<1>9. DivCeil(Saturate(SumOf(costs0)), c.scale) <= DivCeil(Saturate(SumOf(costs1)), c.scale)
  BY <1>2, <1>8, QuotientsGrow
<1>10. Saturate(SumOf(costs0)) = IF exact(c, growing) > MaxU THEN MaxU ELSE exact(c, growing)
  BY DEF exact, costs0, Saturate
<1> QED BY <1>4, <1>5, <1>9, <1>10, Zenon DEF Saturates

(* The amount due of every price list and usage whose units fit is the      *)
(* exact price, rounded up and cut off, and grows with the usage.           *)
THEOREM AmountDueAlwaysSaturates == AmountsSpec => []AmountDueSaturates
<1>1. AmountsTypeOK => AmountDueSaturates
  BY DueSaturates, Zenon DEF AmountDueSaturates
<1> QED BY <1>1, AmountsType, PTL
=============================================================================
