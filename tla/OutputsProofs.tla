--------------------------- MODULE OutputsProofs ---------------------------
(***************************************************************************)
(* Proofs about SwapCompletion: how the mint's answers become the proofs   *)
(* of all the outputs of a settlement or an opening, or are refused.       *)
(*                                                                         *)
(* The theorems rest on what each completion returns, whatever arrives     *)
(* (SettlementIs, OpeningIs, RestoredWhole, DiscoveryIs), and on the       *)
(* inductive invariant SwapInv: what is left of an answer that had nothing *)
(* but its pairs reordered.                                                *)
(***************************************************************************)
EXTENDS SwapCompletion, SumsProofs, FiniteSetTheorems

-----------------------------------------------------------------------------
(* Outputs. *)

Contexts == {"receiver", "sender", "funding", "change"}

Outputs == [context : Contexts, amount : Nat, index : Nat]

(* The occurrences of an amount before a position of a sequence. *)
Earlier(s, i) == {j \in 1..(i - 1) : s[j] = s[i]}

(* The earlier occurrences are finitely many. *)
LEMMA EarlierIs ==
  ASSUME NEW s \in Seq(Nat), NEW i \in 1..Len(s)
  PROVE  /\ IsFiniteSet(Earlier(s, i)) /\ Cardinality(Earlier(s, i)) \in Nat
         /\ Earlier(s, i) \in SUBSET Nat
         /\ \A j \in Earlier(s, i) : j \in 1..Len(s) /\ j < i /\ s[j] = s[i] /\ j <= Len(s)
<1>1. Len(s) \in Nat /\ i \in Nat /\ i - 1 \in Int /\ 1 \in Int
  OBVIOUS
<1>2. IsFiniteSet(1..(i - 1))
  BY <1>1, FS_Interval
<1>3. Earlier(s, i) \subseteq 1..(i - 1)
  BY DEF Earlier
<1>4. IsFiniteSet(Earlier(s, i))
  BY <1>2, <1>3, FS_Subset
<1>5. \A j \in 1..(i - 1) : j \in 1..Len(s) /\ j < i /\ j \in Nat /\ j <= Len(s)
  BY <1>1
<1>6. \A j \in Earlier(s, i) : s[j] = s[i]
  BY DEF Earlier
<1> QED BY <1>3, <1>4, <1>5, <1>6, FS_CardinalityType

(* A later occurrence of an amount counts more. *)
LEMMA LaterCountsMore ==
  ASSUME NEW s \in Seq(Nat), NEW i \in 1..Len(s), NEW j \in 1..Len(s), i < j, s[i] = s[j]
  PROVE  Cardinality(Earlier(s, i)) < Cardinality(Earlier(s, j))
<1>1. i \in Nat /\ j \in Nat
  OBVIOUS
<1>2. i \notin Earlier(s, i)
  BY <1>1 DEF Earlier
<1>3. Earlier(s, i) \cup {i} \subseteq Earlier(s, j)
  BY <1>1 DEF Earlier
<1> DEFINE A == Earlier(s, i)
           B == Earlier(s, j)
<1>4. /\ IsFiniteSet(A) /\ Cardinality(A) \in Nat
      /\ IsFiniteSet(B) /\ Cardinality(B) \in Nat
  BY EarlierIs
<1> HIDE DEF A, B
<1>5. Cardinality(A \cup {i}) = Cardinality(A) + 1
  BY <1>2, <1>4, FS_AddElement, Zenon DEF A
<1>6. Cardinality(A \cup {i}) <= Cardinality(B)
  BY <1>3, <1>4, FS_Subset DEF A, B
<1>7. Cardinality(A) < Cardinality(B)
  BY <1>4, <1>5, <1>6
<1> QED BY <1>7 DEF A, B

(* Every smaller count is that of an earlier occurrence. *)
LEMMA SmallerCounts ==
  ASSUME NEW s \in Seq(Nat), NEW i \in 1..Len(s), Cardinality(Earlier(s, i)) # 0
  PROVE  \E j \in 1..Len(s) : /\ s[j] = s[i]
                              /\ Cardinality(Earlier(s, j)) = Cardinality(Earlier(s, i)) - 1
<1> DEFINE A == Earlier(s, i)
<1>1. /\ IsFiniteSet(A) /\ Cardinality(A) \in Nat /\ A \in SUBSET Nat
      /\ \A j \in A : j \in 1..Len(s) /\ j < i /\ s[j] = s[i] /\ j <= Len(s)
  BY EarlierIs
<1>2. A # {}
  BY <1>1, FS_EmptySet
<1>3. Len(s) \in Nat
  OBVIOUS
<1>4. PICK m \in A : \A k \in A : k <= m
  <2> HIDE DEF A
  <2> QED BY <1>1, <1>2, <1>3, GreatestNumber, Zenon
<1>5. m \in 1..Len(s) /\ m < i /\ s[m] = s[i] /\ m \in Nat /\ i \in Nat
  BY <1>1, <1>4
<1>6. Earlier(s, m) = A \ {m}
  <2>1. ASSUME NEW k \in Earlier(s, m)
        PROVE  k \in A \ {m}
    <3>1. k \in 1..(m - 1) /\ s[k] = s[m]
      BY DEF Earlier
    <3>2. k \in 1..(i - 1) /\ k # m
      BY <1>5, <3>1
    <3> QED BY <1>5, <3>1, <3>2 DEF Earlier
  <2>2. ASSUME NEW k \in A \ {m}
        PROVE  k \in Earlier(s, m)
    <3>1. k \in 1..(i - 1) /\ s[k] = s[i] /\ k # m
      BY DEF Earlier
    <3>2. k <= m
      BY <1>4
    <3>3. k \in 1..(m - 1)
      BY <1>5, <3>1, <3>2
    <3> QED BY <1>5, <3>1, <3>3 DEF Earlier
  <2> QED BY <2>1, <2>2
<1> HIDE DEF A
<1>7. Cardinality(A \ {m}) = Cardinality(A) - 1
  BY <1>1, <1>4, FS_RemoveElement, Zenon
<1> QED BY <1>5, <1>6, <1>7, Zenon DEF A

(* Reversing a sequence. *)
LEMMA ReverseIs ==
  ASSUME NEW S, NEW s \in Seq(S)
  PROVE  /\ Reverse(s) \in Seq(S) /\ Len(Reverse(s)) = Len(s)
         /\ \A i \in 1..Len(s) : /\ Reverse(s)[i] = s[Len(s) - i + 1]
                                /\ Len(s) - i + 1 \in 1..Len(s)
<1> DEFINE f == [i \in 1..Len(s) |-> s[Len(s) + 1 - i]]
<1>1. Reverse(s) = f
  BY DEF Reverse
<1>2. Len(s) \in Nat
  OBVIOUS
<1>3. \A i \in 1..Len(s) : Len(s) + 1 - i \in 1..Len(s) /\ Len(s) + 1 - i = Len(s) - i + 1
  BY <1>2
<1>4. \A i \in 1..Len(s) : s[Len(s) + 1 - i] \in S
  BY <1>3
<1>5. f \in Seq(S) /\ Len(f) = Len(s)
  BY <1>2, <1>4
<1> QED BY <1>1, <1>3, <1>5

(* The outputs of a party: one for each amount, the amounts reversed, no    *)
(* two the same; of each amount the indices count from 0 without a gap.     *)
AreSecrets(outputs, c, s) ==
    /\ outputs \in Seq(Outputs) /\ Len(outputs) = Len(s)
    /\ \A i \in 1..Len(s) : /\ outputs[i].context = c
                           /\ outputs[i].amount = s[Len(s) - i + 1]
                           /\ Len(s) - i + 1 \in 1..Len(s)
    /\ Distinct(outputs)
    /\ \A i \in 1..Len(s) : outputs[i].index # 0 =>
          \E j \in 1..Len(s) :
               outputs[j] = [outputs[i] EXCEPT !.index = outputs[i].index - 1]

(* get_secrets_with_blinding derives such outputs. *)
LEMMA SecretsAre ==
  ASSUME NEW c \in Contexts, NEW s \in Seq(Nat)
  PROVE  AreSecrets(get_secrets_with_blinding(c, s), c, s)
<1> DEFINE t == Reverse(s)
           card(i) == Cardinality(Earlier(t, i))
           outputs == [i \in 1..Len(t) |-> [context |-> c, amount |-> t[i], index |-> card(i)]]
<1>1. t \in Seq(Nat) /\ Len(t) = Len(s) /\ DOMAIN t = 1..Len(t) /\ Len(t) \in Nat
  BY ReverseIs
<1>2. \A i \in 1..Len(s) : t[i] = s[Len(s) - i + 1] /\ Len(s) - i + 1 \in 1..Len(s)
  BY ReverseIs
<1>3. get_secrets_with_blinding(c, s) = outputs
  BY <1>1 DEF get_secrets_with_blinding, Earlier
<1> HIDE DEF t
<1>4. \A i \in 1..Len(t) : card(i) \in Nat /\ t[i] \in Nat
  BY <1>1, EarlierIs
<1>5. ASSUME NEW i \in 1..Len(t), NEW j \in 1..Len(t), t[i] = t[j], card(i) = card(j)
      PROVE  i = j
  <2>1. i < j \/ j < i \/ i = j
    BY <1>1
  <2>2. ~(card(i) < card(j)) /\ ~(card(j) < card(i))
    BY <1>4, <1>5
  <2> QED BY <1>1, <1>5, <2>1, <2>2, LaterCountsMore, SMTT(30)
<1>6. ASSUME NEW i \in 1..Len(t), card(i) # 0
      PROVE  \E j \in 1..Len(t) : t[j] = t[i] /\ card(j) = card(i) - 1
  BY <1>1, <1>6, SmallerCounts
<1> HIDE DEF card
<1>7. \A i \in 1..Len(t) : /\ outputs[i] = [context |-> c, amount |-> t[i], index |-> card(i)]
                           /\ outputs[i] \in Outputs
  <2> SUFFICES ASSUME NEW i \in 1..Len(t)
               PROVE  [context |-> c, amount |-> t[i], index |-> card(i)] \in Outputs
    BY Zenon
  <2>1. t[i] \in Nat /\ card(i) \in Nat
    BY <1>4
  <2> QED BY <2>1 DEF Outputs
<1>8. outputs \in Seq(Outputs) /\ Len(outputs) = Len(t) /\ DOMAIN outputs = 1..Len(t)
  BY <1>1, <1>7
<1> HIDE DEF outputs
<1>9. \A i \in 1..Len(t) : /\ outputs[i].context = c /\ outputs[i].amount = t[i]
                           /\ outputs[i].index = card(i)
  <2> SUFFICES ASSUME NEW i \in 1..Len(t)
               PROVE  /\ outputs[i].context = c /\ outputs[i].amount = t[i]
                      /\ outputs[i].index = card(i)
    BY Zenon
  <2>1. outputs[i] = [context |-> c, amount |-> t[i], index |-> card(i)]
    BY <1>7, Zenon
  <2> QED BY <2>1
<1>10. Distinct(outputs)
  <2> SUFFICES ASSUME NEW i \in 1..Len(t), NEW j \in 1..Len(t), outputs[i] = outputs[j]
               PROVE  i = j
    BY <1>8, Zenon DEF Distinct
  <2>1. t[i] = t[j] /\ card(i) = card(j)
    BY <1>9
  <2> QED BY <1>5, <2>1
<1>11. ASSUME NEW i \in 1..Len(t), outputs[i].index # 0
       PROVE  \E j \in 1..Len(t) :
                   outputs[j] = [outputs[i] EXCEPT !.index = outputs[i].index - 1]
  <2>1. PICK j \in 1..Len(t) : t[j] = t[i] /\ card(j) = card(i) - 1
    BY <1>6, <1>9, <1>11
  <2>2. /\ outputs[j] = [context |-> c, amount |-> t[j], index |-> card(j)]
        /\ outputs[i] = [context |-> c, amount |-> t[i], index |-> card(i)]
    BY <1>7
  <2>3. outputs[j] = [outputs[i] EXCEPT !.index = card(i) - 1]
    BY <2>1, <2>2
  <2>4. outputs[i].index = card(i)
    BY <1>9
  <2> QED BY <2>3, <2>4
<1> QED BY <1>1, <1>2, <1>3, <1>8, <1>9, <1>10, <1>11, Zenon DEF AreSecrets

-----------------------------------------------------------------------------
(* Two sequences, one after the other. *)

(* The two parts of a sequence. *)
LEMMA CutIs ==
  ASSUME NEW S, NEW f \in Seq(S), NEW a \in Nat, NEW b \in Nat, Len(f) = a + b
  PROVE  /\ SubSeq(f, 1, a) = [i \in 1..a |-> f[i]]
         /\ SubSeq(f, a + 1, a + b) = [i \in 1..b |-> f[a + i]]
<1>1. SubSeq(f, 1, a) = [i \in 1..a |-> f[i]]
  OBVIOUS
<1>2. /\ SubSeq(f, a + 1, a + b) \in Seq(S) /\ Len(SubSeq(f, a + 1, a + b)) = b
      /\ \A i \in 1..b : SubSeq(f, a + 1, a + b)[i] = f[a + i]
  OBVIOUS
<1>3. \A g \in Seq(S) : Len(g) = b => g = [i \in 1..b |-> g[i]]
  OBVIOUS
<1>4. SubSeq(f, a + 1, a + b) = [i \in 1..b |-> f[a + i]]
  <2> DEFINE g == SubSeq(f, a + 1, a + b)
  <2>1. g = [i \in 1..b |-> g[i]] /\ \A i \in 1..b : g[i] = f[a + i]
    BY <1>2, <1>3, Zenon
  <2> HIDE DEF g
  <2>2. g = [i \in 1..b |-> f[a + i]]
    BY <2>1
  <2> QED BY <2>2 DEF g
<1> QED BY <1>1, <1>4

(* What is their concatenation. *)
LEMMA JoinIs ==
  ASSUME NEW S, NEW x \in Seq(S), NEW y \in Seq(S)
  PROVE  \A z \in Seq(S) :
               /\ Len(z) = Len(x) + Len(y)
               /\ \A i \in 1..Len(x) : z[i] = x[i]
               /\ \A i \in 1..Len(y) : z[Len(x) + i] = y[i]
               => z = x \o y
<1> DEFINE u == x \o y
<1>1. /\ u \in Seq(S) /\ Len(u) = Len(x) + Len(y)
      /\ \A i \in 1..Len(x) : u[i] = x[i]
      /\ \A i \in 1..Len(y) : u[Len(x) + i] = y[i]
      /\ Len(x) \in Nat /\ Len(y) \in Nat
  OBVIOUS
<1> HIDE DEF u
<1>2. ASSUME NEW z \in Seq(S), Len(z) = Len(x) + Len(y),
             \A i \in 1..Len(x) : z[i] = x[i], \A i \in 1..Len(y) : z[Len(x) + i] = y[i]
      PROVE  z = u
  <2>1. ASSUME NEW i \in 1..Len(z)
        PROVE  z[i] = u[i]
    <3>1. CASE i <= Len(x)
      BY <1>1, <1>2, <3>1
    <3>2. CASE ~(i <= Len(x))
      <4>1. i - Len(x) \in 1..Len(y) /\ Len(x) + (i - Len(x)) = i
        BY <1>1, <1>2, <3>2
      <4>2. z[Len(x) + (i - Len(x))] = u[Len(x) + (i - Len(x))]
        BY <1>1, <1>2, <4>1, Zenon
      <4> QED BY <4>1, <4>2
    <3> QED BY <3>1, <3>2
  <2> QED BY <1>1, <1>2, <2>1
<1> QED BY <1>2, Zenon DEF u

(* Where they are in it. *)
LEMMA PartsAre ==
  ASSUME NEW S, NEW x \in Seq(S), NEW y \in Seq(S)
  PROVE  /\ SubSeq(x \o y, 1, Len(x)) = x
         /\ SubSeq(x \o y, Len(x) + 1, Len(x) + Len(y)) = y
<1> DEFINE u == x \o y
<1>1. /\ u \in Seq(S) /\ Len(u) = Len(x) + Len(y)
      /\ \A i \in 1..Len(x) : u[i] = x[i]
      /\ \A i \in 1..Len(y) : u[Len(x) + i] = y[i]
      /\ Len(x) \in Nat /\ Len(y) \in Nat
  OBVIOUS
<1> HIDE DEF u
<1>2. /\ SubSeq(u, 1, Len(x)) = [i \in 1..Len(x) |-> u[i]]
      /\ SubSeq(u, Len(x) + 1, Len(x) + Len(y)) = [i \in 1..Len(y) |-> u[Len(x) + i]]
  BY <1>1, CutIs
<1>3. x = [i \in 1..Len(x) |-> x[i]] /\ y = [i \in 1..Len(y) |-> y[i]]
  OBVIOUS
<1>4. SubSeq(u, 1, Len(x)) = x
  BY <1>1, <1>2, <1>3, Zenon
<1>5. SubSeq(u, Len(x) + 1, Len(x) + Len(y)) = y
  BY <1>1, <1>2, <1>3, Zenon
<1> QED BY <1>4, <1>5, Zenon DEF u

-----------------------------------------------------------------------------
(* Sorting. *)

(* What a stable sort by amount does not put after the i-th element. *)
UpTo(s, i) ==
    {j \in DOMAIN s : \/ s[j].amount < s[i].amount
                      \/ s[j].amount = s[i].amount /\ j <= i}

(* The elements of a sequence are ranked one after another. *)
LEMMA RanksDiffer ==
  ASSUME NEW s \in Seq(Outputs)
  PROVE  /\ \A i \in 1..Len(s) : Rank(s, i) \in 1..Len(s)
         /\ \A i, j \in 1..Len(s) : Rank(s, i) = Rank(s, j) => i = j
<1>1. Len(s) \in Nat /\ DOMAIN s = 1..Len(s) /\ 1..Len(s) \in SUBSET Nat
  OBVIOUS
<1>2. \A i \in 1..Len(s) : s[i].amount \in Nat
  <2>1. \A o \in Outputs : o.amount \in Nat
    BY DEF Outputs
  <2> QED BY <1>1, <2>1
<1>3. IsFiniteSet(1..Len(s)) /\ Cardinality(1..Len(s)) = Len(s)
  <2>1. 1 \in Int /\ Len(s) \in Int
    BY <1>1
  <2>2. Cardinality(1..Len(s)) = IF 1 > Len(s) THEN 0 ELSE Len(s) - 1 + 1
    BY <2>1, FS_Interval
  <2> QED BY <1>1, <2>1, <2>2, FS_Interval, SMTT(30)
<1>4. ASSUME NEW i \in 1..Len(s)
      PROVE  /\ IsFiniteSet(UpTo(s, i)) /\ Cardinality(UpTo(s, i)) \in Nat
             /\ Cardinality(UpTo(s, i)) <= Len(s) /\ Cardinality(UpTo(s, i)) # 0
             /\ i \in UpTo(s, i)
  <2>1. UpTo(s, i) \subseteq 1..Len(s)
    BY <1>1, Zenon DEF UpTo
  <2>2. i \in UpTo(s, i)
    BY <1>1 DEF UpTo
  <2> DEFINE A == UpTo(s, i)
             B == 1..Len(s)
  <2> HIDE DEF A, B
  <2>3. IsFiniteSet(A) /\ Cardinality(A) <= Cardinality(B) /\ Cardinality(A) \in Nat
    BY <2>1, <1>3, FS_Subset, FS_CardinalityType, Zenon DEF A, B
  <2>4. Cardinality(A) # 0
    BY <2>2, <2>3, FS_EmptySet, Zenon DEF A
  <2> QED BY <2>2, <2>3, <2>4, <1>3 DEF A, B
<1>5. ASSUME NEW i \in 1..Len(s), NEW j \in 1..Len(s),
             s[i].amount < s[j].amount \/ (s[i].amount = s[j].amount /\ i < j)
      PROVE  Cardinality(UpTo(s, i)) < Cardinality(UpTo(s, j))
  <2>1. i \in Nat /\ j \in Nat /\ s[i].amount \in Nat /\ s[j].amount \in Nat
    BY <1>1, <1>2
  <2>2. ASSUME NEW k \in UpTo(s, i)
        PROVE  k \in UpTo(s, j)
    <3>1. k \in 1..Len(s) /\ k \in Nat /\ s[k].amount \in Nat
      BY <1>1, <1>2, <2>2 DEF UpTo
    <3>2. s[k].amount < s[i].amount \/ (s[k].amount = s[i].amount /\ k <= i)
      BY <2>2, Zenon DEF UpTo
    <3>3. s[k].amount < s[j].amount \/ (s[k].amount = s[j].amount /\ k <= j)
      BY <2>1, <3>1, <3>2, <1>5
    <3> QED BY <1>1, <3>1, <3>3, Zenon DEF UpTo
  <2>3. j \notin UpTo(s, i)
    <3>1. ~(s[j].amount < s[i].amount \/ (s[j].amount = s[i].amount /\ j <= i))
      BY <2>1, <1>5
    <3> QED BY <3>1, Zenon DEF UpTo
  <2> DEFINE A == UpTo(s, i)
             B == UpTo(s, j)
  <2>4. /\ IsFiniteSet(A) /\ Cardinality(A) \in Nat
        /\ IsFiniteSet(B) /\ Cardinality(B) \in Nat /\ j \in B /\ j \notin A
        /\ A \cup {j} \subseteq B
    <3>1. j \in B
      BY <1>4, Zenon
    <3> QED BY <1>4, <2>2, <2>3, <3>1, Zenon
  <2> HIDE DEF A, B
  <2>5. Cardinality(A \cup {j}) = Cardinality(A) + 1
    BY <2>4, FS_AddElement, Zenon
  <2>6. Cardinality(A \cup {j}) <= Cardinality(B)
    BY <2>4, FS_Subset
  <2>7. Cardinality(A) < Cardinality(B)
    BY <2>4, <2>5, <2>6
  <2> QED BY <2>7 DEF A, B
<1>6. \A i \in 1..Len(s) : Rank(s, i) = Cardinality(UpTo(s, i))
  BY Zenon DEF Rank, UpTo
<1>7. \A i \in 1..Len(s) : Rank(s, i) \in 1..Len(s)
  <2> SUFFICES ASSUME NEW i \in 1..Len(s)
               PROVE  Cardinality(UpTo(s, i)) \in 1..Len(s)
    BY <1>6
  <2>1. /\ Cardinality(UpTo(s, i)) \in Nat /\ Cardinality(UpTo(s, i)) <= Len(s)
        /\ Cardinality(UpTo(s, i)) # 0
    BY <1>4
  <2> QED BY <1>1, <2>1
<1>8. ASSUME NEW i \in 1..Len(s), NEW j \in 1..Len(s), Rank(s, i) = Rank(s, j)
      PROVE  i = j
  <2> SUFFICES ASSUME i # j
               PROVE  FALSE
    OBVIOUS
  <2>1. \/ s[i].amount < s[j].amount \/ (s[i].amount = s[j].amount /\ i < j)
        \/ s[j].amount < s[i].amount \/ (s[j].amount = s[i].amount /\ j < i)
    <3>1. i \in Nat /\ j \in Nat /\ s[i].amount \in Nat /\ s[j].amount \in Nat
      BY <1>1, <1>2
    <3> QED BY <3>1
  <2>2. \/ Cardinality(UpTo(s, i)) < Cardinality(UpTo(s, j))
        \/ Cardinality(UpTo(s, j)) < Cardinality(UpTo(s, i))
    BY <2>1, <1>5
  <2>3. Cardinality(UpTo(s, i)) = Cardinality(UpTo(s, j))
    BY <1>6, <1>8
  <2>4. Cardinality(UpTo(s, i)) \in Nat
    BY <1>4
  <2> QED BY <2>2, <2>3, <2>4
<1> QED BY <1>7, <1>8

(* The position of the element of a rank. *)
Place(s, k) == CHOOSE i \in DOMAIN s : Rank(s, i) = k

(* Every rank is taken, so sorting is a permutation. *)
LEMMA Places ==
  ASSUME NEW s \in Seq(Outputs)
  PROVE  /\ \A k \in 1..Len(s) : Place(s, k) \in 1..Len(s) /\ Rank(s, Place(s, k)) = k
         /\ \A i \in 1..Len(s) : Rank(s, i) \in 1..Len(s) /\ Place(s, Rank(s, i)) = i
<1>1. Len(s) \in Nat /\ DOMAIN s = 1..Len(s)
  OBVIOUS
<1> DEFINE D == 1..Len(s)
           f == [i \in D |-> Rank(s, i)]
<1>2. IsFiniteSet(D)
  BY <1>1, FS_Interval
<1>3. f \in Injection(D, D)
  <2>1. f \in [D -> D]
    BY RanksDiffer
  <2>2. \A a, b \in DOMAIN f : f[a] = f[b] => a = b
    <3>1. \A i, j \in D : Rank(s, i) = Rank(s, j) => i = j
      BY RanksDiffer
    <3> QED BY <3>1, Zenon
  <2> QED BY <2>1, <2>2, Zenon DEF Injection, IsInjective
<1>4. f \in Surjection(D, D)
  <2> HIDE DEF D, f
  <2> QED BY <1>2, <1>3, FS_Injection, Zenon
<1>5. \A k \in D : \E i \in D : Rank(s, i) = k
  <2>1. \A k \in D : \E i \in D : f[i] = k
    BY <1>4, Zenon DEF Surjection
  <2> QED BY <2>1, Zenon
<1> HIDE DEF D, f
<1>6. \A k \in D : Place(s, k) \in D /\ Rank(s, Place(s, k)) = k
  BY <1>1, <1>5, Zenon DEF Place, D
<1>7. \A i \in D : Rank(s, i) \in D /\ Place(s, Rank(s, i)) = i
  <2>1. /\ \A i \in D : Rank(s, i) \in D
        /\ \A i, j \in D : Rank(s, i) = Rank(s, j) => i = j
    BY RanksDiffer DEF D
  <2> QED BY <1>6, <2>1, Zenon
<1> QED BY <1>6, <1>7 DEF D

(* A sorted list of outputs has the same outputs, each of them once. *)
LEMMA SortIs ==
  ASSUME NEW s \in Seq(Outputs)
  PROVE  /\ sort_by_amount(s) \in Seq(Outputs) /\ Len(sort_by_amount(s)) = Len(s)
         /\ \A k \in 1..Len(s) : sort_by_amount(s)[k] = s[Place(s, k)]
         /\ Range(sort_by_amount(s)) = Range(s)
         /\ Distinct(s) => Distinct(sort_by_amount(s))
<1>1. Len(s) \in Nat /\ DOMAIN s = 1..Len(s) /\ \A i \in 1..Len(s) : s[i] \in Outputs
  OBVIOUS
<1> DEFINE t == [k \in 1..Len(s) |-> s[Place(s, k)]]
<1>2. sort_by_amount(s) = t
  BY <1>1, Zenon DEF sort_by_amount, Place
<1>3. \A k \in 1..Len(s) : Place(s, k) \in 1..Len(s) /\ Rank(s, Place(s, k)) = k
  BY Places
<1>4. \A i \in 1..Len(s) : Rank(s, i) \in 1..Len(s) /\ Place(s, Rank(s, i)) = i
  BY Places
<1>5. t \in [1..Len(s) -> Outputs]
  BY <1>1, <1>3, Zenon
<1>6. t \in Seq(Outputs) /\ Len(t) = Len(s) /\ DOMAIN t = 1..Len(s)
  BY <1>1, <1>5
<1>7. \A k \in 1..Len(s) : t[k] = s[Place(s, k)]
  OBVIOUS
<1> HIDE DEF t
<1>8. Range(t) = Range(s)
  <2>1. ASSUME NEW k \in 1..Len(s)
        PROVE  t[k] \in Range(s)
    BY <1>1, <1>3, <1>7 DEF Range
  <2>2. ASSUME NEW i \in 1..Len(s)
        PROVE  s[i] \in Range(t)
    <3>1. Rank(s, i) \in DOMAIN t /\ t[Rank(s, i)] = s[i]
      BY <1>4, <1>6, <1>7
    <3> QED BY <3>1 DEF Range
  <2> QED BY <1>1, <1>6, <2>1, <2>2, Zenon DEF Range
<1>9. Distinct(s) => Distinct(t)
  <2> SUFFICES ASSUME Distinct(s), NEW j \in 1..Len(s), NEW k \in 1..Len(s), t[j] = t[k]
               PROVE  j = k
    BY <1>6, Zenon DEF Distinct
  <2>1. s[Place(s, j)] = s[Place(s, k)]
    BY <1>7, Zenon
  <2>2. Place(s, j) \in DOMAIN s /\ Place(s, k) \in DOMAIN s
    BY <1>1, <1>3, Zenon
  <2>3. Place(s, j) = Place(s, k)
    BY <2>1, <2>2, Zenon DEF Distinct
  <2>4. Rank(s, Place(s, j)) = j /\ Rank(s, Place(s, k)) = k
    BY <1>3, Zenon
  <2> QED BY <2>3, <2>4, Zenon
<1> QED BY <1>2, <1>6, <1>7, <1>8, <1>9

-----------------------------------------------------------------------------
(* Requests. *)

(* The blinded messages of a list of outputs under a tweak. *)
Blinded(outputs, r, ks) == [i \in DOMAIN outputs |-> to_blinded_message(outputs[i], r, ks)]

(* Sorting the messages of a list is sorting the list. *)
LEMMA SortedMessages ==
  ASSUME NEW s \in Seq(Outputs), NEW ks
  PROVE  sort_by_amount(Blinded(s, NoR, ks)) = Blinded(sort_by_amount(s), NoR, ks)
<1> DEFINE m == Blinded(s, NoR, ks)
<1>1. DOMAIN s = 1..Len(s) /\ DOMAIN m = 1..Len(s)
  BY DEF Blinded
<1>2. \A i \in 1..Len(s) : m[i] = to_blinded_message(s[i], NoR, ks) /\ m[i].amount = s[i].amount
  BY DEF Blinded, to_blinded_message
<1> HIDE DEF m
<1>3. ASSUME NEW i \in 1..Len(s)
      PROVE  Rank(m, i) = Rank(s, i)
  <2>1. UpTo(m, i) = UpTo(s, i)
    BY <1>1, <1>2 DEF UpTo
  <2>2. Rank(m, i) = Cardinality(UpTo(m, i)) /\ Rank(s, i) = Cardinality(UpTo(s, i))
    BY Zenon DEF UpTo, Rank
  <2> QED BY <2>1, <2>2
<1>4. ASSUME NEW k \in 1..Len(s)
      PROVE  Place(m, k) = Place(s, k) /\ Place(s, k) \in 1..Len(s)
  <2>1. Place(s, k) \in 1..Len(s) /\ Rank(s, Place(s, k)) = k
    BY Places
  <2>2. \E i \in DOMAIN m : Rank(m, i) = k
    BY <1>1, <1>3, <2>1
  <2>3. Place(m, k) \in DOMAIN m /\ Rank(m, Place(m, k)) = k
    BY <2>2, Zenon DEF Place
  <2>4. Place(m, k) \in 1..Len(s) /\ Rank(s, Place(m, k)) = k
    BY <1>1, <1>3, <2>3
  <2>5. \A i, j \in 1..Len(s) : Rank(s, i) = Rank(s, j) => i = j
    BY RanksDiffer
  <2> QED BY <2>1, <2>4, <2>5, Zenon
<1>5. sort_by_amount(m) = [k \in 1..Len(s) |-> m[Place(m, k)]]
  BY <1>1, Zenon DEF sort_by_amount, Place
<1>6. \A k \in 1..Len(s) : m[Place(m, k)] = to_blinded_message(s[Place(s, k)], NoR, ks)
  BY <1>2, <1>4
<1>7. DOMAIN sort_by_amount(s) = 1..Len(s)
  BY <1>1, Zenon DEF sort_by_amount
<1>8. \A k \in 1..Len(s) : sort_by_amount(s)[k] = s[Place(s, k)]
  BY SortIs
<1>9. Blinded(sort_by_amount(s), NoR, ks)
        = [k \in 1..Len(s) |-> to_blinded_message(s[Place(s, k)], NoR, ks)]
  BY <1>7, <1>8 DEF Blinded
<1> QED BY <1>5, <1>6, <1>9 DEF m

(* The outputs of two parties, one after the other, none of them the same. *)
Joined(both, first, second) ==
    /\ both \in Seq(Outputs) /\ Len(both) = Len(first) + Len(second)
    /\ Distinct(both) /\ Range(both) = Range(first) \cup Range(second)
    /\ \A i \in 1..Len(first) : both[i] = first[i]
    /\ \A i \in 1..Len(second) : both[Len(first) + i] = second[i]

(* Neither party's outputs are the other's. *)
LEMMA BothOutputs ==
  ASSUME NEW c \in Contexts, NEW d \in Contexts, c # d, NEW s \in Seq(Nat), NEW t \in Seq(Nat)
  PROVE  Joined(get_secrets_with_blinding(c, s) \o get_secrets_with_blinding(d, t),
                get_secrets_with_blinding(c, s), get_secrets_with_blinding(d, t))
<1> DEFINE A == get_secrets_with_blinding(c, s)
           B == get_secrets_with_blinding(d, t)
           u == A \o B
           a == Len(s)
           b == Len(t)
<1>1. /\ A \in Seq(Outputs) /\ Len(A) = a /\ Distinct(A)
      /\ \A i \in 1..a : A[i].context = c
  BY SecretsAre DEF AreSecrets
<1>2. /\ B \in Seq(Outputs) /\ Len(B) = b /\ Distinct(B)
      /\ \A i \in 1..b : B[i].context = d
  BY SecretsAre DEF AreSecrets
<1>3. a \in Nat /\ b \in Nat
  OBVIOUS
<1> HIDE DEF A, B, a, b
<1>4. u \in Seq(Outputs) /\ Len(u) = a + b
  <2>1. \A s1, s2 \in Seq(Outputs) :
            s1 \o s2 \in Seq(Outputs) /\ Len(s1 \o s2) = Len(s1) + Len(s2)
    OBVIOUS
  <2> QED BY <1>1, <1>2, <2>1, Zenon
<1>5. /\ \A i \in 1..a : u[i] = A[i]
      /\ \A i \in 1..b : u[a + i] = B[i]
  <2>1. \A s1, s2 \in Seq(Outputs) :
            /\ \A i \in 1..Len(s1) : (s1 \o s2)[i] = s1[i]
            /\ \A i \in 1..Len(s2) : (s1 \o s2)[Len(s1) + i] = s2[i]
    OBVIOUS
  <2> QED BY <1>1, <1>2, <2>1, Zenon
<1>6. DOMAIN u = 1..(a + b) /\ DOMAIN A = 1..a /\ DOMAIN B = 1..b
  BY <1>1, <1>2, <1>4
<1> HIDE DEF u
<1>7. \A k \in 1..(a + b) : k \in 1..a \/ \E i \in 1..b : k = a + i
  <2> SUFFICES ASSUME NEW k \in 1..(a + b), k \notin 1..a
               PROVE  \E i \in 1..b : k = a + i
    OBVIOUS
  <2>1. k - a \in 1..b /\ k = a + (k - a)
    BY <1>3
  <2> QED BY <2>1
<1>8. \A i \in 1..a : i \in 1..(a + b)
  BY <1>3
<1>9. \A i \in 1..b : a + i \in 1..(a + b)
  BY <1>3
<1>10. Range(u) = Range(A) \cup Range(B)
  <2>1. ASSUME NEW x \in Range(u) PROVE x \in Range(A) \cup Range(B)
    <3>1. PICK k \in 1..(a + b) : x = u[k]
      BY <1>6 DEF Range
    <3> QED BY <3>1, <1>5, <1>6, <1>7, Zenon DEF Range
  <2>2. ASSUME NEW x \in Range(A) PROVE x \in Range(u)
    BY <1>5, <1>6, <1>8, Zenon DEF Range
  <2>3. ASSUME NEW x \in Range(B) PROVE x \in Range(u)
    BY <1>5, <1>6, <1>9, Zenon DEF Range
  <2> QED BY <2>1, <2>2, <2>3, Zenon
<1>11. Distinct(u)
  <2> SUFFICES ASSUME NEW j \in 1..(a + b), NEW k \in 1..(a + b), u[j] = u[k]
               PROVE  j = k
    BY <1>6, Zenon DEF Distinct
  <2>1. CASE j \in 1..a /\ k \in 1..a
    BY <2>1, <1>1, <1>5, <1>6, Zenon DEF Distinct
  <2>2. ASSUME NEW i \in 1..a, NEW l \in 1..b, u[i] = u[a + l]
        PROVE  FALSE
    <3>1. u[i].context = c /\ u[a + l].context = d
      BY <1>1, <1>2, <1>5, Zenon
    <3> QED BY <2>2, <3>1, Zenon
  <2>3. CASE j \notin 1..a /\ k \notin 1..a
    <3>1. PICK i \in 1..b : j = a + i
      BY <2>3, <1>7
    <3>2. PICK l \in 1..b : k = a + l
      BY <2>3, <1>7
    <3>3. i = l
      BY <3>1, <3>2, <1>2, <1>5, <1>6, Zenon DEF Distinct
    <3> QED BY <3>1, <3>2, <3>3
  <2> QED BY <2>1, <2>2, <2>3, <1>7, Zenon
<1>12. Joined(u, A, B)
  BY <1>1, <1>2, <1>4, <1>5, <1>10, <1>11, Zenon DEF Joined
<1> QED BY <1>12 DEF u, A, B

(* The swaps there are. *)
Jobs == [opening : BOOLEAN, rerandomized : BOOLEAN, first : Splits, second : Splits,
         keyset : Keysets]

JobOK(j) ==
    /\ j \in Jobs
    /\ j.opening => ~j.rerandomized
    /\ j.first \o j.second # << >>

ReceiverOf(j) == get_secrets_with_blinding("receiver", j.first)
SenderOf(j) == get_secrets_with_blinding("sender", j.second)

(* The outputs of a swap, in the order of its request. *)
OutputsOf(j) ==
    IF j.opening THEN FundingOf(j) \o ChangeOf(j)
    ELSE sort_by_amount(ReceiverOf(j) \o SenderOf(j))

(* The fields of a job. *)
LEMMA JobFields ==
  ASSUME NEW j, JobOK(j)
  PROVE  /\ j.first \in Seq(Nat) /\ j.second \in Seq(Nat) /\ j.keyset \in Keysets
         /\ j.opening \in BOOLEAN /\ j.rerandomized \in BOOLEAN
         /\ j.first \in Splits /\ j.second \in Splits
         /\ Len(j.first) \in Nat /\ Len(j.second) \in Nat
         /\ Len(j.first) + Len(j.second) # 0
<1>1. /\ j.first \in Splits /\ j.second \in Splits /\ j.keyset \in Keysets
      /\ j.opening \in BOOLEAN /\ j.rerandomized \in BOOLEAN
  BY Zenon DEF JobOK, Jobs
<1>2. j.first \in Seq(Nat) /\ j.second \in Seq(Nat)
  BY <1>1, SwapAssumption, Zenon
<1>3. \A s, t \in Seq(Nat) : /\ Len(s) \in Nat /\ Len(t) \in Nat
                             /\ s \o t # << >> => Len(s) + Len(t) # 0
  OBVIOUS
<1>4. j.first \o j.second # << >>
  BY Zenon DEF JobOK
<1> QED BY <1>1, <1>2, <1>3, <1>4, Zenon

(* They are the outputs of its two parties, each once. *)
LEMMA OutputsAre ==
  ASSUME NEW j, JobOK(j)
  PROVE  /\ OutputsOf(j) \in Seq(Outputs) /\ OutputsOf(j) # << >> /\ Distinct(OutputsOf(j))
         /\ Len(OutputsOf(j)) = Len(j.first) + Len(j.second)
         /\ j.opening =>
               /\ OutputsOf(j) = FundingOf(j) \o ChangeOf(j)
               /\ FundingOf(j) \in Seq(Outputs) /\ Len(FundingOf(j)) = Len(j.first)
               /\ ChangeOf(j) \in Seq(Outputs) /\ Len(ChangeOf(j)) = Len(j.second)
               /\ Distinct(FundingOf(j)) /\ Distinct(ChangeOf(j))
         /\ ~j.opening => Range(OutputsOf(j)) = Range(ReceiverOf(j)) \cup Range(SenderOf(j))
<1>1. j.first \in Seq(Nat) /\ j.second \in Seq(Nat)
      /\ Len(j.first) \in Nat /\ Len(j.second) \in Nat /\ Len(j.first) + Len(j.second) # 0
  BY JobFields, Zenon
<1>2. /\ "receiver" \in Contexts /\ "sender" \in Contexts
      /\ "funding" \in Contexts /\ "change" \in Contexts
      /\ "receiver" # "sender" /\ "funding" # "change"
  BY DEF Contexts
<1>3. \A s \in Seq(Outputs) : Len(s) # 0 => s # << >>
  OBVIOUS
<1>4. CASE j.opening
  <2>1. OutputsOf(j) = FundingOf(j) \o ChangeOf(j)
    BY <1>4, Zenon DEF OutputsOf
  <2>2. /\ FundingOf(j) \in Seq(Outputs) /\ Len(FundingOf(j)) = Len(j.first)
        /\ ChangeOf(j) \in Seq(Outputs) /\ Len(ChangeOf(j)) = Len(j.second)
        /\ Distinct(FundingOf(j)) /\ Distinct(ChangeOf(j))
    BY <1>1, <1>2, SecretsAre DEF FundingOf, ChangeOf, AreSecrets
  <2>3. /\ OutputsOf(j) \in Seq(Outputs) /\ Distinct(OutputsOf(j))
        /\ Len(OutputsOf(j)) = Len(j.first) + Len(j.second)
    <3>1. Joined(FundingOf(j) \o ChangeOf(j), FundingOf(j), ChangeOf(j))
      BY <1>1, <1>2, BothOutputs, Zenon DEF FundingOf, ChangeOf
    <3> QED BY <2>1, <2>2, <3>1, Zenon DEF Joined
  <2> QED BY <1>1, <1>3, <1>4, <2>1, <2>2, <2>3, Zenon
<1>5. CASE ~j.opening
  <2> DEFINE u == ReceiverOf(j) \o SenderOf(j)
  <2>1. OutputsOf(j) = sort_by_amount(u)
    BY <1>5, Zenon DEF OutputsOf
  <2>2. /\ u \in Seq(Outputs) /\ Distinct(u) /\ Len(u) = Len(j.first) + Len(j.second)
        /\ Range(u) = Range(ReceiverOf(j)) \cup Range(SenderOf(j))
    <3>1. Len(ReceiverOf(j)) = Len(j.first) /\ Len(SenderOf(j)) = Len(j.second)
      BY <1>1, <1>2, SecretsAre DEF ReceiverOf, SenderOf, AreSecrets
    <3>2. Joined(u, ReceiverOf(j), SenderOf(j))
      BY <1>1, <1>2, BothOutputs, Zenon DEF ReceiverOf, SenderOf
    <3> QED BY <3>1, <3>2, Zenon DEF Joined
  <2> HIDE DEF u
  <2>3. /\ sort_by_amount(u) \in Seq(Outputs) /\ Len(sort_by_amount(u)) = Len(u)
        /\ Range(sort_by_amount(u)) = Range(u) /\ Distinct(sort_by_amount(u))
    BY <2>2, SortIs, Zenon
  <2> QED BY <1>1, <1>3, <1>5, <2>1, <2>2, <2>3, Zenon
<1> QED BY <1>4, <1>5, Zenon

Tweaks == Randomness \cup {NoR}
Points == [output : Outputs, r : Tweaks]
Messages == [amount : Nat, keyset : Keysets, point : Points]
Signatures ==
    [amount : Nat, keyset : Keysets, on : Points, dleq : {"right", "wrong", "missing"}]
Answers == [r : Tweaks, outputs : Seq(Messages), signatures : Seq(Signatures)]

(* The mint's signatures on a list of messages. *)
SignedAll(messages) == [i \in DOMAIN messages |-> Signed(messages[i])]

(* A blinded message names its output, amount and tweak. *)
LEMMA MessageIs ==
  \A o, r, ks : LET m == to_blinded_message(o, r, ks)
                IN  /\ m.amount = o.amount /\ m.keyset = ks
                    /\ m.point = [output |-> o, r |-> r] /\ m.point.output = o
BY DEF to_blinded_message

(* Distinct outputs have distinct messages, and distinct points. *)
LEMMA BlindedIs ==
  ASSUME NEW s \in Seq(Outputs), NEW r \in Tweaks, NEW ks \in Keysets
  PROVE  /\ Blinded(s, r, ks) \in Seq(Messages) /\ Len(Blinded(s, r, ks)) = Len(s)
         /\ DOMAIN Blinded(s, r, ks) = 1..Len(s)
         /\ \A i \in 1..Len(s) : Blinded(s, r, ks)[i] = to_blinded_message(s[i], r, ks)
         /\ Distinct(s) => /\ Distinct(Blinded(s, r, ks))
                           /\ Distinct([i \in DOMAIN Blinded(s, r, ks) |->
                                            Blinded(s, r, ks)[i].point])
<1> DEFINE m == Blinded(s, r, ks)
<1>1. DOMAIN s = 1..Len(s) /\ Len(s) \in Nat
  OBVIOUS
<1>2. DOMAIN m = 1..Len(s) /\ m = [i \in 1..Len(s) |-> to_blinded_message(s[i], r, ks)]
  BY <1>1 DEF Blinded
<1> HIDE DEF m
<1>3. \A i \in 1..Len(s) : m[i] = to_blinded_message(s[i], r, ks)
  BY <1>2, Zenon
<1>4. \A o \in Outputs : to_blinded_message(o, r, ks) \in Messages
  BY DEF to_blinded_message, Messages, Points, Outputs
<1>5. m \in [1..Len(s) -> Messages]
  <2>1. \A i \in 1..Len(s) : s[i] \in Outputs
    OBVIOUS
  <2> QED BY <1>2, <1>4, <2>1, Zenon
<1>6. m \in Seq(Messages) /\ Len(m) = Len(s)
  <2>1. \A n \in Nat : \A f \in [1..n -> Messages] : f \in Seq(Messages) /\ Len(f) = n
    OBVIOUS
  <2> QED BY <1>1, <1>5, <2>1, Zenon
<1>7. \A i \in 1..Len(s) : m[i].point.output = s[i]
  <2>1. \A o : to_blinded_message(o, r, ks).point.output = o
    BY DEF to_blinded_message
  <2> QED BY <1>3, <2>1, Zenon
<1>8. ASSUME Distinct(s)
      PROVE  /\ Distinct(m)
             /\ Distinct([i \in DOMAIN m |-> m[i].point])
  <2>1. ASSUME NEW i \in 1..Len(s), NEW j \in 1..Len(s), m[i].point = m[j].point
        PROVE  i = j
    <3>1. s[i] = s[j]
      BY <2>1, <1>7, Zenon
    <3> QED BY <3>1, <1>1, <1>8, Zenon DEF Distinct
  <2>2. \A i, j \in DOMAIN m : m[i] = m[j] => i = j
    BY <2>1, <1>2, Zenon
  <2>3. \A i, j \in DOMAIN m : m[i].point = m[j].point => i = j
    BY <2>1, <1>2, Zenon
  <2> QED BY <2>2, <2>3, Zenon DEF Distinct
<1> QED BY <1>2, <1>3, <1>6, <1>8, Zenon DEF m

(* The messages of two lists, one after the other. *)
LEMMA BlindedBoth ==
  ASSUME NEW s \in Seq(Outputs), NEW t \in Seq(Outputs), NEW ks \in Keysets
  PROVE  Blinded(s, NoR, ks) \o Blinded(t, NoR, ks) = Blinded(s \o t, NoR, ks)
<1> DEFINE u == s \o t
           x == Blinded(s, NoR, ks)
           y == Blinded(t, NoR, ks)
           z == Blinded(u, NoR, ks)
<1>1. /\ u \in Seq(Outputs) /\ Len(u) = Len(s) + Len(t)
      /\ \A i \in 1..Len(s) : u[i] = s[i] /\ i \in 1..Len(u)
      /\ \A i \in 1..Len(t) : u[Len(s) + i] = t[i] /\ Len(s) + i \in 1..Len(u)
  OBVIOUS
<1> HIDE DEF u
<1>2. /\ x \in Seq(Messages) /\ y \in Seq(Messages) /\ z \in Seq(Messages)
      /\ Len(x) = Len(s) /\ Len(y) = Len(t) /\ Len(z) = Len(u)
      /\ \A i \in 1..Len(s) : x[i] = to_blinded_message(s[i], NoR, ks)
      /\ \A i \in 1..Len(t) : y[i] = to_blinded_message(t[i], NoR, ks)
      /\ \A i \in 1..Len(u) : z[i] = to_blinded_message(u[i], NoR, ks)
  <2>1. NoR \in Tweaks
    BY DEF Tweaks
  <2> QED BY <1>1, <2>1, BlindedIs, Zenon
<1> HIDE DEF x, y, z
<1>3. /\ \A i \in 1..Len(s) : z[i] = x[i]
      /\ \A i \in 1..Len(t) : z[Len(s) + i] = y[i]
  BY <1>1, <1>2, Zenon
<1>4. /\ Len(z) = Len(x) + Len(y)
      /\ \A i \in 1..Len(x) : z[i] = x[i]
      /\ \A i \in 1..Len(y) : z[Len(x) + i] = y[i]
  BY <1>1, <1>2, <1>3
<1> QED BY <1>2, <1>4, JoinIs, Zenon DEF x, y, z, u

(* The request of a swap is the blinded messages of its outputs. *)
LEMMA RequestIs ==
  ASSUME NEW j, JobOK(j)
  PROVE  /\ Request(j).outputs = Blinded(OutputsOf(j), NoR, j.keyset)
         /\ Request(j).rerandomized = j.rerandomized
<1>1. /\ j.first \in Seq(Nat) /\ j.second \in Seq(Nat) /\ j.keyset \in Keysets
      /\ j.opening \in BOOLEAN /\ j.rerandomized \in BOOLEAN
  BY JobFields, Zenon
<1>2. CASE j.opening
  <2>1. OutputsOf(j) = FundingOf(j) \o ChangeOf(j)
    BY <1>2, Zenon DEF OutputsOf
  <2> DEFINE u == FundingOf(j) \o ChangeOf(j)
             p == parse_prepared_outputs(u, j.keyset)
             m == [i \in DOMAIN p |-> p[i].message]
  <2>2. p = [i \in DOMAIN u |-> [message |-> to_blinded_message(u[i], NoR, j.keyset),
                                 output |-> u[i], r |-> NoR]]
    BY Zenon DEF parse_prepared_outputs
  <2>3. Request(j) = [outputs |-> m, rerandomized |-> FALSE]
    BY <1>2, Zenon DEF Request
  <2> HIDE DEF u, p
  <2>4. DOMAIN p = DOMAIN u
        /\ \A i \in DOMAIN u : p[i].message = to_blinded_message(u[i], NoR, j.keyset)
    BY <2>2
  <2>5. m = Blinded(u, NoR, j.keyset)
    BY <2>4, Zenon DEF Blinded
  <2>6. j.rerandomized = FALSE
    BY <1>1, <1>2, Zenon DEF JobOK
  <2> HIDE DEF m
  <2>7. Request(j).outputs = m /\ Request(j).rerandomized = FALSE
    BY <2>3
  <2> QED BY <2>1, <2>5, <2>6, <2>7, Zenon DEF u
<1>3. CASE ~j.opening
  <2> DEFINE A == ReceiverOf(j)
             B == SenderOf(j)
             m == get_blinded_messages("receiver", j.first, j.keyset)
                    \o get_blinded_messages("sender", j.second, j.keyset)
  <2>1. A \in Seq(Outputs) /\ B \in Seq(Outputs) /\ A \o B \in Seq(Outputs)
    <3>1. "receiver" \in Contexts /\ "sender" \in Contexts
      BY DEF Contexts
    <3>2. A \in Seq(Outputs) /\ B \in Seq(Outputs)
      BY <1>1, <3>1, SecretsAre DEF ReceiverOf, SenderOf, AreSecrets
    <3>3. \A x, y \in Seq(Outputs) : x \o y \in Seq(Outputs)
      OBVIOUS
    <3> QED BY <3>2, <3>3, Zenon
  <2>2. m = Blinded(A, NoR, j.keyset) \o Blinded(B, NoR, j.keyset)
    BY Zenon DEF get_blinded_messages, Blinded, ReceiverOf, SenderOf
  <2>3. m = Blinded(A \o B, NoR, j.keyset)
    BY <1>1, <2>1, <2>2, BlindedBoth, Zenon
  <2>4. sort_by_amount(m) = Blinded(sort_by_amount(A \o B), NoR, j.keyset)
    BY <2>1, <2>3, SortedMessages, Zenon
  <2>5. /\ CommitmentOf(j).receiver = j.first /\ CommitmentOf(j).sender = j.second
        /\ CommitmentOf(j).rerandomized = j.rerandomized
    BY DEF CommitmentOf
  <2>6. Request(j) = [outputs |-> sort_by_amount(m), rerandomized |-> j.rerandomized]
    BY <1>3, <2>5, Zenon DEF Request, create_swap_request
  <2>7. OutputsOf(j) = sort_by_amount(A \o B)
    BY <1>3, Zenon DEF OutputsOf
  <2> HIDE DEF m, A, B
  <2>8. Request(j).outputs = sort_by_amount(m) /\ Request(j).rerandomized = j.rerandomized
    BY <2>6
  <2> QED BY <2>4, <2>7, <2>8, Zenon
<1> QED BY <1>1, <1>2, <1>3

(* Tweaking the messages of a request gives those of the tweaked outputs,   *)
(* and the mint signs each of them.                                         *)
LEMMA MintAnswerIs ==
  ASSUME NEW s \in Seq(Outputs), NEW r \in Tweaks, NEW ks \in Keysets
  PROVE  /\ r # NoR =>
               tweak_swap_outputs(r, Blinded(s, NoR, ks)) = Blinded(s, r, ks)
         /\ MintAnswer(Blinded(s, NoR, ks), r)
               = [r |-> r, outputs |-> Blinded(s, r, ks),
                  signatures |-> SignedAll(Blinded(s, r, ks))]
<1>1. [i \in DOMAIN Blinded(s, NoR, ks) |->
          [Blinded(s, NoR, ks)[i] EXCEPT !.point.r = r]] = Blinded(s, r, ks)
  <2>1. \A o : [to_blinded_message(o, NoR, ks) EXCEPT !.point.r = r]
                    = to_blinded_message(o, r, ks)
    BY DEF to_blinded_message
  <2>2. DOMAIN Blinded(s, NoR, ks) = DOMAIN s
        /\ \A i \in DOMAIN s : Blinded(s, NoR, ks)[i] = to_blinded_message(s[i], NoR, ks)
    BY Zenon DEF Blinded
  <2>3. \A i \in DOMAIN s : [Blinded(s, NoR, ks)[i] EXCEPT !.point.r = r]
                                = to_blinded_message(s[i], r, ks)
    BY <2>1, <2>2, Zenon
  <2> QED BY <2>2, <2>3, Zenon DEF Blinded
<1>2. tweak_swap_outputs(r, Blinded(s, NoR, ks)) = Blinded(s, r, ks)
  BY <1>1, Zenon DEF tweak_swap_outputs
<1>3. (IF r = NoR THEN Blinded(s, NoR, ks) ELSE tweak_swap_outputs(r, Blinded(s, NoR, ks)))
        = Blinded(s, r, ks)
  BY <1>2, Zenon
<1> QED BY <1>2, <1>3, Zenon DEF MintAnswer, SignedAll

-----------------------------------------------------------------------------
(* Completion. *)

(* What the completion of a list of outputs expects. *)
Expected(outputs, r, ks) ==
    [i \in DOMAIN outputs |-> [message |-> to_blinded_message(outputs[i], r, ks),
                               output |-> outputs[i], r |-> r]]

(* The proof of an output, and those of a list. *)
Full(o, ks) ==
    [secret |-> o, amount |-> o.amount, keyset |-> ks, r |-> o, spent_metadata |-> FALSE,
     spendable |-> TRUE]

Fulls(outputs, ks) == [i \in DOMAIN outputs |-> Full(outputs[i], ks)]

(* Results tell success from failure. *)
LEMMA SwapResults ==
  /\ \A v : SwapOk(v).ok = TRUE /\ SwapOk(v).value = v /\ SwapOk(v) # SwapErr
  /\ SwapErr.ok = FALSE
BY DEF SwapOk, SwapErr

(* The request of a swap is restored for the randomness of its mode only. *)
LEMMA RestoreRequestIs ==
  ASSUME NEW j, JobOK(j), NEW r \in Tweaks
  PROVE  swap_restore_request(Request(j), r)
            = IF j.rerandomized # (r # NoR) THEN SwapErr
              ELSE SwapOk(Blinded(OutputsOf(j), r, j.keyset))
<1> DEFINE O == OutputsOf(j)
           m == Blinded(O, NoR, j.keyset)
<1>1. O \in Seq(Outputs) /\ O # << >> /\ Distinct(O) /\ Len(O) # 0
  <2>1. \A s \in Seq(Outputs) : s # << >> => Len(s) # 0
    OBVIOUS
  <2> QED BY <2>1, OutputsAre, Zenon
<1>2. Request(j).outputs = m /\ Request(j).rerandomized = j.rerandomized
  BY RequestIs
<1>3. j.keyset \in Keysets /\ NoR \in Tweaks
  BY JobFields, Zenon DEF Tweaks
<1> HIDE DEF O
<1>4. Len(m) = Len(O) /\ Distinct([i \in DOMAIN m |-> m[i].point])
  BY <1>1, <1>3, BlindedIs, Zenon
<1>5. r # NoR => tweak_swap_outputs(r, m) = Blinded(O, r, j.keyset)
  BY <1>1, <1>3, MintAnswerIs, Zenon
<1> HIDE DEF m
<1>6. m # << >>
  <2>1. Len(<< >>) = 0
    OBVIOUS
  <2> QED BY <1>1, <1>4, <2>1, Zenon
<1>7. (IF r = NoR THEN m ELSE tweak_swap_outputs(r, m)) = Blinded(O, r, j.keyset)
  BY <1>5, Zenon DEF m
<1>8. swap_restore_request(Request(j), r)
        = IF \/ m = << >>
             \/ ~Distinct([i \in DOMAIN m |-> m[i].point])
             \/ j.rerandomized # (r # NoR)
          THEN SwapErr
          ELSE SwapOk(IF r = NoR THEN m ELSE tweak_swap_outputs(r, m))
  BY <1>2, Zenon DEF swap_restore_request
<1> QED BY <1>4, <1>6, <1>7, <1>8, Zenon DEF O

(* The prepared outputs of a commitment are those of its request. *)
LEMMA PreparedIs ==
  ASSUME NEW j, JobOK(j), ~j.opening
  PROVE  /\ Request(j) = create_swap_request(CommitmentOf(j), j.keyset)
         /\ PreparedCommitment(CommitmentOf(j), j.keyset)
               = [i \in DOMAIN OutputsOf(j) |->
                    [message |-> to_blinded_message(OutputsOf(j)[i], NoR, j.keyset),
                     output |-> OutputsOf(j)[i]]]
<1>1. Request(j) = create_swap_request(CommitmentOf(j), j.keyset)
  BY Zenon DEF Request
<1>2. CommitmentOf(j).receiver = j.first /\ CommitmentOf(j).sender = j.second
  BY DEF CommitmentOf
<1>3. OutputsOf(j) = sort_by_amount(ReceiverOf(j) \o SenderOf(j))
  BY Zenon DEF OutputsOf
<1>4. PreparedCommitment(CommitmentOf(j), j.keyset)
        = [i \in DOMAIN OutputsOf(j) |-> [message |-> Request(j).outputs[i],
                                          output |-> OutputsOf(j)[i]]]
  BY <1>1, <1>2, <1>3, Zenon DEF PreparedCommitment, ReceiverOf, SenderOf
<1>5. \A i \in DOMAIN OutputsOf(j) :
        Request(j).outputs[i] = to_blinded_message(OutputsOf(j)[i], NoR, j.keyset)
  BY RequestIs, Zenon DEF Blinded
<1> QED BY <1>1, <1>4, <1>5, Zenon

(* A settlement is completed for the randomness of its mode only, and for   *)
(* all of its outputs.                                                      *)
LEMMA EffectiveIs ==
  ASSUME NEW j, JobOK(j), ~j.opening, NEW r \in Tweaks
  PROVE  effective_outputs(Request(j), PreparedCommitment(CommitmentOf(j), j.keyset),
                           j.keyset, r)
            = IF j.rerandomized # (r # NoR) THEN SwapErr
              ELSE SwapOk(Expected(OutputsOf(j), r, j.keyset))
<1> DEFINE O == OutputsOf(j)
           ks == j.keyset
           req == Request(j)
           pre == PreparedCommitment(CommitmentOf(j), ks)
           derived == swap_restore_request(req, r)
<1>1. O \in Seq(Outputs) /\ Distinct(O) /\ DOMAIN O = 1..Len(O)
  <2>1. \A s \in Seq(Outputs) : DOMAIN s = 1..Len(s)
    OBVIOUS
  <2> QED BY <2>1, OutputsAre, Zenon
<1>2. ks \in Keysets /\ NoR \in Tweaks
  BY JobFields, Zenon DEF Tweaks
<1>3. req.outputs = Blinded(O, NoR, ks)
  BY RequestIs
<1>4. pre = [i \in DOMAIN O |-> [message |-> to_blinded_message(O[i], NoR, ks),
                                 output |-> O[i]]]
  BY PreparedIs
<1>5. derived = IF j.rerandomized # (r # NoR) THEN SwapErr ELSE SwapOk(Blinded(O, r, ks))
  BY RestoreRequestIs
<1>6. effective_outputs(req, pre, ks, r)
        = IF \/ ~derived.ok
             \/ Len(pre) # Len(req.outputs)
             \/ \E i \in DOMAIN pre :
                   \/ pre[i].message # req.outputs[i]
                   \/ req.outputs[i].keyset # ks
                   \/ pre[i].message.point.output # pre[i].output
             \/ ~Distinct([i \in DOMAIN pre |-> pre[i].output])
          THEN SwapErr
          ELSE SwapOk([i \in DOMAIN pre |->
                          [message |-> derived.value[i], output |-> pre[i].output, r |-> r]])
  BY Zenon DEF effective_outputs
<1> HIDE DEF O, ks, req, pre, derived
<1>7. /\ Len(req.outputs) = Len(O)
      /\ \A i \in 1..Len(O) : req.outputs[i] = to_blinded_message(O[i], NoR, ks)
  <2>1. /\ Len(Blinded(O, NoR, ks)) = Len(O)
        /\ \A i \in 1..Len(O) : Blinded(O, NoR, ks)[i] = to_blinded_message(O[i], NoR, ks)
    BY <1>1, <1>2, BlindedIs, Zenon
  <2> QED BY <1>3, <2>1
<1>8. /\ DOMAIN pre = DOMAIN O
      /\ \A i \in DOMAIN O : /\ pre[i].message = to_blinded_message(O[i], NoR, ks)
                             /\ pre[i].output = O[i]
  <2>1. /\ DOMAIN pre = DOMAIN O
        /\ \A i \in DOMAIN O :
              pre[i] = [message |-> to_blinded_message(O[i], NoR, ks), output |-> O[i]]
    BY <1>4, Zenon
  <2> QED BY <2>1
<1>9. Len(pre) = Len(O)
  <2>1. \A s \in Seq(Outputs) : \A f : f = [i \in DOMAIN s |-> f[i]] => Len(f) = Len(s)
    OBVIOUS
  <2>2. pre = [i \in DOMAIN O |-> pre[i]]
    BY <1>4
  <2> QED BY <1>1, <2>1, <2>2, Zenon
<1>10. \A i \in DOMAIN pre : /\ pre[i].message = req.outputs[i]
                             /\ req.outputs[i].keyset = ks
                             /\ pre[i].message.point.output = pre[i].output
  <2>1. \A o : /\ to_blinded_message(o, NoR, ks).keyset = ks
               /\ to_blinded_message(o, NoR, ks).point.output = o
    BY MessageIs
  <2> SUFFICES ASSUME NEW i \in 1..Len(O)
               PROVE  /\ pre[i].message = req.outputs[i]
                      /\ req.outputs[i].keyset = ks
                      /\ pre[i].message.point.output = pre[i].output
    BY <1>1, <1>8, Zenon
  <2>2. /\ req.outputs[i] = to_blinded_message(O[i], NoR, ks)
        /\ pre[i].message = to_blinded_message(O[i], NoR, ks) /\ pre[i].output = O[i]
    BY <1>1, <1>7, <1>8, Zenon
  <2> QED BY <2>1, <2>2
<1>11. [i \in DOMAIN pre |-> pre[i].output] = O
  <2>1. \A s \in Seq(Outputs) : s = [i \in DOMAIN s |-> s[i]]
    OBVIOUS
  <2>2. O = [i \in DOMAIN O |-> O[i]]
    BY <1>1, <2>1, Zenon
  <2>3. [i \in DOMAIN pre |-> pre[i].output] = [i \in DOMAIN O |-> O[i]]
    BY <1>8, Zenon
  <2> QED BY <2>2, <2>3
<1>12. CASE j.rerandomized # (r # NoR)
  <2>1. derived.ok = FALSE
    BY <1>5, <1>12, SwapResults, Zenon
  <2> QED BY <1>6, <1>12, <2>1, Zenon DEF O, ks, req, pre
<1>13. CASE ~(j.rerandomized # (r # NoR))
  <2>1. derived.ok = TRUE /\ derived.value = Blinded(O, r, ks)
    BY <1>5, <1>13, SwapResults, Zenon
  <2>2. effective_outputs(req, pre, ks, r)
          = SwapOk([i \in DOMAIN pre |->
                       [message |-> derived.value[i], output |-> pre[i].output, r |-> r]])
    BY <1>1, <1>6, <1>9, <1>7, <1>10, <1>11, <2>1, Zenon
  <2>3. \A i \in DOMAIN O : derived.value[i] = to_blinded_message(O[i], r, ks)
    BY <2>1, Zenon DEF Blinded
  <2>4. [i \in DOMAIN pre |->
            [message |-> derived.value[i], output |-> pre[i].output, r |-> r]]
            = Expected(O, r, ks)
    BY <1>8, <2>3, Zenon DEF Expected
  <2>5. effective_outputs(req, pre, ks, r) = SwapOk(Expected(O, r, ks))
    BY <2>2, <2>4, Zenon
  <2> QED BY <1>13, <2>5, Zenon DEF O, ks, req, pre
<1> QED BY <1>12, <1>13

(* The proofs of a list. *)
LEMMA FullsAre ==
  ASSUME NEW s \in Seq(Outputs), NEW ks
  PROVE  /\ Fulls(s, ks) \in Seq({Full(o, ks) : o \in Outputs}) /\ Len(Fulls(s, ks)) = Len(s)
         /\ DOMAIN Fulls(s, ks) = 1..Len(s)
         /\ \A i \in 1..Len(s) : Fulls(s, ks)[i] = Full(s[i], ks)
<1>1. DOMAIN s = 1..Len(s) /\ Len(s) \in Nat /\ \A i \in 1..Len(s) : s[i] \in Outputs
  OBVIOUS
<1>2. Fulls(s, ks) = [i \in 1..Len(s) |-> Full(s[i], ks)]
  BY <1>1, Zenon DEF Fulls
<1>3. Fulls(s, ks) \in [1..Len(s) -> {Full(o, ks) : o \in Outputs}]
  BY <1>1, <1>2, Zenon
<1>4. \A f, T : f \in [1..Len(s) -> T] =>
                    f \in Seq(T) /\ Len(f) = Len(s) /\ DOMAIN f = 1..Len(s)
  BY <1>1
<1> QED BY <1>2, <1>3, <1>4, Zenon

(* The proofs of two lists, and those of a reversed list. *)
LEMMA FullsBoth ==
  ASSUME NEW s \in Seq(Outputs), NEW t \in Seq(Outputs), NEW ks
  PROVE  /\ Fulls(s \o t, ks) = Fulls(s, ks) \o Fulls(t, ks)
         /\ Fulls(Reverse(s), ks) = Reverse(Fulls(s, ks))
<1> DEFINE u == s \o t
           S == {Full(o, ks) : o \in Outputs}
<1>1. /\ u \in Seq(Outputs) /\ Len(u) = Len(s) + Len(t)
      /\ \A i \in 1..Len(s) : u[i] = s[i] /\ i \in 1..Len(u)
      /\ \A i \in 1..Len(t) : u[Len(s) + i] = t[i] /\ Len(s) + i \in 1..Len(u)
  OBVIOUS
<1> HIDE DEF u
<1>2. /\ Fulls(s, ks) \in Seq(S) /\ Fulls(t, ks) \in Seq(S) /\ Fulls(u, ks) \in Seq(S)
      /\ Len(Fulls(s, ks)) = Len(s) /\ Len(Fulls(t, ks)) = Len(t)
      /\ Len(Fulls(u, ks)) = Len(s) + Len(t)
      /\ \A i \in 1..Len(s) : Fulls(s, ks)[i] = Full(s[i], ks)
      /\ \A i \in 1..Len(t) : Fulls(t, ks)[i] = Full(t[i], ks)
      /\ \A i \in 1..Len(u) : Fulls(u, ks)[i] = Full(u[i], ks)
  BY <1>1, FullsAre, Zenon
<1> HIDE DEF S
<1>3. /\ \A i \in 1..Len(s) : Fulls(u, ks)[i] = Fulls(s, ks)[i]
      /\ \A i \in 1..Len(t) : Fulls(u, ks)[Len(s) + i] = Fulls(t, ks)[i]
  BY <1>1, <1>2, Zenon
<1>4. Fulls(u, ks) = Fulls(s, ks) \o Fulls(t, ks)
  <2> DEFINE x == Fulls(s, ks)
             y == Fulls(t, ks)
             z == Fulls(u, ks)
  <2> HIDE DEF x, y, z
  <2>1. /\ x \in Seq(S) /\ y \in Seq(S) /\ z \in Seq(S)
        /\ Len(z) = Len(x) + Len(y)
        /\ \A i \in 1..Len(x) : z[i] = x[i]
        /\ \A i \in 1..Len(y) : z[Len(x) + i] = y[i]
    BY <1>2, <1>3 DEF x, y, z
  <2> QED BY <2>1, JoinIs, Zenon DEF x, y, z
<1>5. /\ Reverse(s) \in Seq(Outputs) /\ Len(Reverse(s)) = Len(s)
      /\ \A i \in 1..Len(s) : /\ Reverse(s)[i] = s[Len(s) - i + 1]
                             /\ Len(s) - i + 1 \in 1..Len(s)
  BY ReverseIs, Zenon
<1> DEFINE f == Fulls(s, ks)
           v == Reverse(s)
           g == Fulls(v, ks)
<1>6. /\ Reverse(f) \in Seq(S) /\ Len(Reverse(f)) = Len(s)
      /\ \A i \in 1..Len(s) : Reverse(f)[i] = f[Len(s) - i + 1]
  <2> HIDE DEF f
  <2>1. f \in Seq(S) /\ Len(f) = Len(s)
    BY <1>2, Zenon DEF f
  <2>2. /\ Reverse(f) \in Seq(S) /\ Len(Reverse(f)) = Len(f)
        /\ \A i \in 1..Len(f) : Reverse(f)[i] = f[Len(f) - i + 1]
    BY <2>1, ReverseIs, Zenon
  <2> QED BY <2>1, <2>2
<1>7. /\ g \in Seq(S) /\ Len(g) = Len(s)
      /\ \A i \in 1..Len(s) : g[i] = Full(v[i], ks)
  <2> HIDE DEF v
  <2>1. g \in Seq(S) /\ Len(g) = Len(v) /\ \A i \in 1..Len(v) : g[i] = Full(v[i], ks)
    BY <1>5, FullsAre, Zenon DEF S, v
  <2>2. Len(v) = Len(s)
    BY <1>5, Zenon DEF v
  <2> HIDE DEF g
  <2> QED BY <2>1, <2>2
<1>8. ASSUME NEW i \in 1..Len(s)
      PROVE  g[i] = Reverse(f)[i]
  <2>1. g[i] = Full(v[i], ks) /\ v[i] = s[Len(s) - i + 1]
    BY <1>5, <1>7, Zenon
  <2>2. Reverse(f)[i] = f[Len(s) - i + 1] /\ Len(s) - i + 1 \in 1..Len(s)
    BY <1>5, <1>6, Zenon
  <2>3. f[Len(s) - i + 1] = Full(s[Len(s) - i + 1], ks)
    BY <1>2, <2>2, Zenon
  <2> HIDE DEF f, g, v
  <2> QED BY <2>1, <2>2, <2>3, Zenon
<1>9. g = Reverse(f)
  <2> DEFINE w == Reverse(f)
  <2> HIDE DEF w, g
  <2>1. w \in Seq(S) /\ Len(w) = Len(s) /\ g \in Seq(S) /\ Len(g) = Len(s)
    BY <1>6, <1>7, Zenon DEF w
  <2>2. \A i \in 1..Len(s) : g[i] = w[i]
    BY <1>8, Zenon DEF w
  <2>3. g = w
    BY <2>1, <2>2
  <2> QED BY <2>3, Zenon DEF w
<1> QED BY <1>4, <1>9, Zenon DEF u

(* The signatures of a list of outputs are refused, or all of them are      *)
(* turned into the proofs of all the outputs; the mint's are taken.         *)
Completes(sigs, all, r, ks) ==
    LET res == complete_exact_signatures(sigs, Expected(all, r, ks), ks)
    IN  /\ res = SwapErr \/ (res = SwapOk(Fulls(all, ks)) /\ Len(sigs) = Len(all))
        /\ sigs = SignedAll(Blinded(all, r, ks)) => res = SwapOk(Fulls(all, ks))

(* complete_exact_signatures does that. *)
LEMMA CompletesWhole ==
  ASSUME NEW all \in Seq(Outputs), NEW S, NEW sigs \in Seq(S), NEW r, NEW ks
  PROVE  Completes(sigs, all, r, ks)
<1> DEFINE E == Expected(all, r, ks)
           ms == [i \in DOMAIN E |-> E[i].message]
           bad == \/ Len(sigs) # Len(E)
                  \/ Total(sigs) # Total(ms)
                  \/ \E i \in DOMAIN sigs :
                        \/ sigs[i].amount # ms[i].amount
                        \/ sigs[i].keyset # ms[i].keyset
                        \/ ~verify_dleq(sigs[i], ms[i])
           made == [i \in DOMAIN sigs |-> Unblind(sigs[i], E[i].output, E[i].r)]
<1>1. complete_exact_signatures(sigs, E, ks) = IF bad THEN SwapErr ELSE SwapOk(made)
  BY Zenon DEF complete_exact_signatures
<1>2. DOMAIN all = 1..Len(all) /\ Len(all) \in Nat /\ DOMAIN sigs = 1..Len(sigs)
      /\ Len(sigs) \in Nat
  OBVIOUS
<1>3. DOMAIN E = DOMAIN all /\ E = [i \in DOMAIN all |-> E[i]]
  BY Zenon DEF Expected
<1>4. Len(E) = Len(all)
  <2>1. \A s \in Seq(Outputs) : \A f : f = [i \in DOMAIN s |-> f[i]] => Len(f) = Len(s)
    OBVIOUS
  <2> HIDE DEF E
  <2> QED BY <1>3, <2>1, Zenon
<1>5. \A i \in DOMAIN all : E[i] = [message |-> to_blinded_message(all[i], r, ks),
                                    output |-> all[i], r |-> r]
  BY Zenon DEF Expected
<1> HIDE DEF E
<1>6. \A i \in DOMAIN all : /\ E[i].message = to_blinded_message(all[i], r, ks)
                            /\ E[i].output = all[i] /\ E[i].r = r
  <2> SUFFICES ASSUME NEW i \in DOMAIN all
               PROVE  /\ E[i].message = to_blinded_message(all[i], r, ks)
                      /\ E[i].output = all[i] /\ E[i].r = r
    BY Zenon
  <2>1. E[i] = [message |-> to_blinded_message(all[i], r, ks), output |-> all[i], r |-> r]
    BY <1>5, Zenon
  <2> QED BY <2>1
<1>7. DOMAIN ms = DOMAIN all /\ ms = Blinded(all, r, ks)
      /\ \A i \in DOMAIN all : ms[i] = to_blinded_message(all[i], r, ks)
  BY <1>3, <1>6, Zenon DEF Blinded
<1> HIDE DEF ms
<1>8. \A i \in DOMAIN all : /\ ms[i].amount = all[i].amount /\ ms[i].keyset = ks
                            /\ ms[i].point = [output |-> all[i], r |-> r]
  <2> SUFFICES ASSUME NEW i \in DOMAIN all
               PROVE  /\ ms[i].amount = all[i].amount /\ ms[i].keyset = ks
                      /\ ms[i].point = [output |-> all[i], r |-> r]
    BY Zenon
  <2>1. ms[i] = to_blinded_message(all[i], r, ks)
    BY <1>7, Zenon
  <2> QED BY <2>1 DEF to_blinded_message
<1>9. ASSUME ~bad
      PROVE  made = Fulls(all, ks) /\ Len(sigs) = Len(all)
  <2>1. Len(sigs) = Len(all) /\ DOMAIN sigs = DOMAIN all
    <3>1. Len(sigs) = Len(all)
      BY <1>4, <1>9, Zenon
    <3> QED BY <1>2, <3>1
  <2>2. ASSUME NEW i \in DOMAIN all
        PROVE  Unblind(sigs[i], E[i].output, E[i].r) = Full(all[i], ks)
    <3>1. /\ sigs[i].amount = ms[i].amount /\ sigs[i].keyset = ms[i].keyset
          /\ verify_dleq(sigs[i], ms[i])
      BY <1>9, <2>1, Zenon
    <3>2. sigs[i].on = [output |-> all[i], r |-> r]
      <4>1. sigs[i].on = ms[i].point
        BY <3>1, Zenon DEF verify_dleq
      <4> QED BY <4>1, <1>8, Zenon
    <3>3. sigs[i].amount = all[i].amount /\ sigs[i].keyset = ks
      BY <3>1, <1>8, Zenon
    <3>4. E[i].output = all[i] /\ E[i].r = r
      BY <1>6, Zenon
    <3>5. (sigs[i].on = [output |-> all[i], r |-> r]) = TRUE
      BY <3>2, Zenon
    <3> QED BY <3>3, <3>4, <3>5, Zenon DEF Unblind, Full
  <2> HIDE DEF bad
  <2>3. made = Fulls(all, ks)
    BY <2>1, <2>2, Zenon DEF Fulls
  <2> QED BY <2>1, <2>3
<1>10. ASSUME sigs = SignedAll(ms)
       PROVE  ~bad
  <2>1. DOMAIN sigs = DOMAIN all /\ \A i \in DOMAIN all : sigs[i] = Signed(ms[i])
    BY <1>7, <1>10, Zenon DEF SignedAll
  <2>2. \A i \in DOMAIN all : /\ sigs[i].amount = ms[i].amount
                              /\ sigs[i].keyset = ms[i].keyset
                              /\ verify_dleq(sigs[i], ms[i])
    <3> SUFFICES ASSUME NEW i \in DOMAIN all
                 PROVE  /\ sigs[i].amount = ms[i].amount
                        /\ sigs[i].keyset = ms[i].keyset
                        /\ verify_dleq(sigs[i], ms[i])
      BY Zenon
    <3>1. sigs[i] = Signed(ms[i])
      BY <2>1, Zenon
    <3> QED BY <3>1 DEF Signed, verify_dleq
  <2>3. Len(sigs) = Len(all)
    <3>1. \A s \in Seq(S), t \in Seq(Outputs) : DOMAIN s = DOMAIN t => Len(s) = Len(t)
      OBVIOUS
    <3> QED BY <2>1, <3>1, Zenon
  <2>4. [i \in DOMAIN sigs |-> sigs[i].amount] = [i \in DOMAIN ms |-> ms[i].amount]
    BY <2>1, <2>2, <1>7, Zenon
  <2>5. Total(sigs) = Total(ms)
    BY <2>4, Zenon DEF Total
  <2> QED BY <2>1, <2>2, <2>3, <2>5, <1>4, Zenon
<1> HIDE DEF bad, made
<1>11. complete_exact_signatures(sigs, E, ks) = SwapErr
       \/ (complete_exact_signatures(sigs, E, ks) = SwapOk(Fulls(all, ks))
           /\ Len(sigs) = Len(all))
  BY <1>1, <1>9, Zenon
<1>12. sigs = SignedAll(ms) => complete_exact_signatures(sigs, E, ks) = SwapOk(Fulls(all, ks))
  BY <1>1, <1>9, <1>10, Zenon
<1>13. ms = Blinded(all, r, ks)
  BY <1>7
<1> QED BY <1>11, <1>12, <1>13, Zenon DEF E, Completes

(* The messages of a list come back, each with its signature, in any order. *)
Paired(outputs, signatures, messages) ==
    /\ Len(outputs) = Len(messages) /\ Len(signatures) = Len(messages)
    /\ Distinct(outputs) /\ Range(outputs) = Range(messages)
    /\ \A i \in DOMAIN outputs : signatures[i] = Signed(outputs[i])

(* Matching refuses a restore, or gives a signature for every message; it   *)
(* puts signatures in order that come with their messages.                  *)
LEMMA MatchIs ==
  ASSUME NEW messages \in Seq(Messages), NEW T, NEW outputs \in Seq(T), NEW signatures
  PROVE  /\ \/ match_restore_response(outputs, signatures, messages) = SwapErr
            \/ /\ \E v : /\ match_restore_response(outputs, signatures, messages) = SwapOk(v)
                         /\ v \in Seq({v[i] : i \in DOMAIN v})
               /\ Len(outputs) = Len(signatures) /\ Len(outputs) = Len(messages)
         /\ Distinct(messages) /\ Paired(outputs, signatures, messages) =>
               match_restore_response(outputs, signatures, messages)
                    = SwapOk(SignedAll(messages))
<1> DEFINE at(i) == CHOOSE k \in DOMAIN messages : messages[k] = outputs[i]
           bad == \/ Len(outputs) # Len(signatures)
                  \/ Len(outputs) # Len(messages)
                  \/ \E i \in DOMAIN outputs :
                        \A k \in DOMAIN messages : messages[k] # outputs[i]
                  \/ \E i, j \in DOMAIN outputs : i # j /\ at(i) = at(j)
           v == [k \in DOMAIN messages |->
                    signatures[CHOOSE i \in DOMAIN outputs : at(i) = k]]
<1>1. match_restore_response(outputs, signatures, messages) = IF bad THEN SwapErr ELSE SwapOk(v)
  BY Zenon DEF match_restore_response
<1>2. v \in Seq({v[i] : i \in DOMAIN v})
  <2>1. DOMAIN v = 1..Len(messages) /\ Len(messages) \in Nat /\ v = [k \in DOMAIN v |-> v[k]]
    OBVIOUS
  <2> HIDE DEF v
  <2>2. v \in [1..Len(messages) -> {v[i] : i \in DOMAIN v}]
    BY <2>1, Zenon
  <2> QED BY <2>1, <2>2
<1>3. ~bad => Len(outputs) = Len(signatures) /\ Len(outputs) = Len(messages)
  BY Zenon
<1>4. ASSUME Distinct(messages), Paired(outputs, signatures, messages)
      PROVE  ~bad /\ v = SignedAll(messages)
  <2>1. \A i \in DOMAIN outputs : at(i) \in DOMAIN messages /\ messages[at(i)] = outputs[i]
    <3> SUFFICES ASSUME NEW i \in DOMAIN outputs
                 PROVE  at(i) \in DOMAIN messages /\ messages[at(i)] = outputs[i]
      BY Zenon
    <3>1. \E k \in DOMAIN messages : messages[k] = outputs[i]
      <4>1. outputs[i] \in Range(messages)
        BY <1>4, Zenon DEF Paired, Range
      <4> QED BY <4>1, Zenon DEF Range
    <3> QED BY <3>1, Zenon
  <2> HIDE DEF at
  <2>2. \A i, j \in DOMAIN outputs : at(i) = at(j) => i = j
    <3> SUFFICES ASSUME NEW i \in DOMAIN outputs, NEW j \in DOMAIN outputs, at(i) = at(j)
                 PROVE  i = j
      BY Zenon
    <3>1. outputs[i] = outputs[j]
      BY <2>1, Zenon
    <3> QED BY <3>1, <1>4, Zenon DEF Paired, Distinct
  <2>3. ~bad
    BY <2>1, <2>2, <1>4, Zenon DEF Paired
  <2>4. ASSUME NEW k \in DOMAIN messages
        PROVE  signatures[CHOOSE i \in DOMAIN outputs : at(i) = k] = Signed(messages[k])
    <3>1. messages[k] \in Range(outputs)
      BY <1>4, Zenon DEF Paired, Range
    <3>2. PICK i0 \in DOMAIN outputs : outputs[i0] = messages[k]
      BY <3>1, Zenon DEF Range
    <3>3. at(i0) = k
      BY <2>1, <3>2, <1>4, Zenon DEF Distinct
    <3> DEFINE i1 == CHOOSE i \in DOMAIN outputs : at(i) = k
    <3>4. i1 \in DOMAIN outputs /\ at(i1) = k
      BY <3>3, Zenon
    <3> HIDE DEF i1
    <3>5. outputs[i1] = messages[k] /\ signatures[i1] = Signed(outputs[i1])
      BY <2>1, <3>4, <1>4, Zenon DEF Paired
    <3>6. signatures[i1] = Signed(messages[k])
      BY <3>5
    <3> QED BY <3>6 DEF i1
  <2>5. v = SignedAll(messages)
    BY <2>4, Zenon DEF SignedAll
  <2> QED BY <2>3, <2>5, Zenon
<1> HIDE DEF bad, v
<1> QED BY <1>1, <1>2, <1>3, <1>4, Zenon

(* What a settlement yields: all its outputs, each with its owner. *)
Labelled(j) ==
    [i \in DOMAIN OutputsOf(j) |->
        [proof |-> Full(OutputsOf(j)[i], j.keyset),
         amount |-> OutputsOf(j)[i].amount,
         index |-> OutputsOf(j)[i].index,
         is_receiver |-> OutputsOf(j)[i].context = "receiver"]]

(* An answer is in the mode of a swap. *)
InMode(j, r) == j.rerandomized = (r # NoR)

(* The completion of a settlement is an error or all of it, in its mode. *)
LEMMA SettlementIs ==
  ASSUME NEW j, JobOK(j), ~j.opening, NEW a, a.r \in Tweaks, NEW S, a.signatures \in Seq(S)
  PROVE  LET res == commitment_complete_swap_response(CommitmentOf(j), a, j.keyset)
         IN  /\ res = SwapErr \/ res = SwapOk(Labelled(j))
             /\ InMode(j, a.r) /\ a.signatures = SignedAll(Blinded(OutputsOf(j), a.r, j.keyset))
                  => res = SwapOk(Labelled(j))
<1> DEFINE O == OutputsOf(j)
           ks == j.keyset
           req == create_swap_request(CommitmentOf(j), ks)
           pre == PreparedCommitment(CommitmentOf(j), ks)
           eff == effective_outputs(req, pre, ks, a.r)
           done == complete_exact_signatures(a.signatures, eff.value, ks)
           proofs == swap_complete_swap_response(req, pre, a, ks)
           res == commitment_complete_swap_response(CommitmentOf(j), a, ks)
           made == [i \in DOMAIN proofs.value |->
                        [proof |-> proofs.value[i],
                         amount |-> pre[i].output.amount,
                         index |-> pre[i].output.index,
                         is_receiver |-> pre[i].output.context = "receiver"]]
<1>1. /\ O \in Seq(Outputs) /\ Len(O) = Len(j.first) + Len(j.second)
      /\ j.rerandomized \in BOOLEAN
  BY OutputsAre, JobFields, Zenon
<1>2. /\ req = Request(j)
      /\ pre = [i \in DOMAIN O |->
                    [message |-> to_blinded_message(O[i], NoR, ks), output |-> O[i]]]
  BY PreparedIs
<1>3. eff = IF j.rerandomized # (a.r # NoR) THEN SwapErr ELSE SwapOk(Expected(O, a.r, ks))
  BY <1>2, EffectiveIs, Zenon
<1>4. proofs = IF ~eff.ok THEN SwapErr ELSE done
  BY Zenon DEF swap_complete_swap_response
<1>5. res = IF Len(a.signatures) # Len(j.first) + Len(j.second) \/ ~proofs.ok
            THEN SwapErr ELSE SwapOk(made)
  <2>1. CommitmentOf(j).receiver = j.first /\ CommitmentOf(j).sender = j.second
    BY DEF CommitmentOf
  <2> QED BY <2>1, Zenon DEF commitment_complete_swap_response
<1> HIDE DEF O, ks, req, pre, res, proofs, eff
<1>6. \A i \in DOMAIN O : pre[i].output = O[i]
  BY <1>2
<1>7. proofs = SwapErr \/ (proofs = SwapOk(Fulls(O, ks)) /\ Len(a.signatures) = Len(O))
  <2>1. CASE j.rerandomized # (a.r # NoR)
    <3>1. eff.ok = FALSE
      BY <1>3, <2>1, SwapResults, Zenon
    <3> QED BY <1>4, <3>1, Zenon
  <2>2. CASE ~(j.rerandomized # (a.r # NoR))
    <3>1. eff.ok = TRUE /\ eff.value = Expected(O, a.r, ks)
      BY <1>3, <2>2, SwapResults, Zenon
    <3>2. proofs = complete_exact_signatures(a.signatures, Expected(O, a.r, ks), ks)
      BY <1>4, <3>1, Zenon
    <3>3. \/ complete_exact_signatures(a.signatures, Expected(O, a.r, ks), ks) = SwapErr
          \/ /\ complete_exact_signatures(a.signatures, Expected(O, a.r, ks), ks)
                   = SwapOk(Fulls(O, ks))
             /\ Len(a.signatures) = Len(O)
      <4>1. Completes(a.signatures, O, a.r, ks)
        BY <1>1, CompletesWhole, Zenon
      <4> QED BY <4>1, Zenon DEF Completes
    <3> QED BY <3>2, <3>3, Zenon
  <2> QED BY <2>1, <2>2, Zenon
<1>8. ASSUME proofs = SwapOk(Fulls(O, ks))
      PROVE  made = Labelled(j) /\ proofs.ok = TRUE
  <2>1. proofs.value = Fulls(O, ks) /\ proofs.ok = TRUE
    BY <1>8, SwapResults, Zenon
  <2>2. DOMAIN proofs.value = DOMAIN O /\ \A i \in DOMAIN O : proofs.value[i] = Full(O[i], ks)
    BY <2>1, Zenon DEF Fulls
  <2>3. made = [i \in DOMAIN O |-> [proof |-> Full(O[i], ks), amount |-> O[i].amount,
                                    index |-> O[i].index,
                                    is_receiver |-> O[i].context = "receiver"]]
    BY <1>6, <2>2, Zenon
  <2> QED BY <2>1, <2>3, Zenon DEF Labelled, O, ks
<1> HIDE DEF made
<1>9. res = SwapErr \/ res = SwapOk(Labelled(j))
  <2>1. CASE proofs = SwapErr
    <3>1. proofs.ok = FALSE
      BY <2>1, SwapResults, Zenon
    <3> QED BY <1>5, <3>1, Zenon
  <2>2. CASE proofs = SwapOk(Fulls(O, ks))
    BY <1>5, <1>8, <2>2, Zenon
  <2> QED BY <1>7, <2>1, <2>2, Zenon
<1>10. ASSUME InMode(j, a.r), a.signatures = SignedAll(Blinded(O, a.r, ks))
       PROVE  res = SwapOk(Labelled(j))
  <2>1. ~(j.rerandomized # (a.r # NoR))
    BY <1>10, Zenon DEF InMode
  <2>2. eff.ok = TRUE /\ eff.value = Expected(O, a.r, ks)
    BY <1>3, <2>1, SwapResults, Zenon
  <2>3. proofs = SwapOk(Fulls(O, ks))
    <3>1. complete_exact_signatures(a.signatures, Expected(O, a.r, ks), ks)
            = SwapOk(Fulls(O, ks))
      <4>1. Completes(a.signatures, O, a.r, ks)
        BY <1>1, CompletesWhole, Zenon
      <4> QED BY <4>1, <1>10, Zenon DEF Completes
    <3> QED BY <1>4, <2>2, <3>1, Zenon
  <2>4. Len(a.signatures) = Len(O)
    BY <1>7, <2>3, SwapResults, Zenon
  <2> QED BY <1>1, <1>5, <1>8, <2>3, <2>4, Zenon
<1> QED BY <1>9, <1>10, Zenon DEF res, O, ks

(* The completion of an opening is an error, or its funding and its change. *)
LEMMA OpeningIs ==
  ASSUME NEW j, JobOK(j), j.opening, NEW S, NEW sigs \in Seq(S)
  PROVE  LET res == complete_exact_opening_signatures(sigs, FundingOf(j), ChangeOf(j),
                                                      j.keyset, {Request(j).outputs})
         IN  \/ res = SwapErr
             \/ res = SwapOk([funding |-> Fulls(FundingOf(j), j.keyset),
                              change |-> Fulls(ChangeOf(j), j.keyset)])
<1> DEFINE F == FundingOf(j)
           C == ChangeOf(j)
           ks == j.keyset
           exp == parse_prepared_outputs(F \o C, ks)
           proofs == complete_exact_signatures(sigs, exp, ks)
           res == complete_exact_opening_signatures(sigs, F, C, ks, {Request(j).outputs})
           made == [funding |-> SubSeq(proofs.value, 1, Len(F)),
                    change |-> SubSeq(proofs.value, Len(F) + 1, Len(exp))]
<1>1. F \in Seq(Outputs) /\ C \in Seq(Outputs)
  BY OutputsAre, Zenon
<1>2. exp = Expected(F \o C, NoR, ks)
  BY Zenon DEF parse_prepared_outputs, Expected
<1>3. res = SwapErr \/ (proofs.ok /\ res = SwapOk(made))
  BY Zenon DEF complete_exact_opening_signatures
<1> HIDE DEF F, C, ks, res
<1>4. F \o C \in Seq(Outputs) /\ Len(F \o C) = Len(F) + Len(C)
  BY <1>1
<1>5. Len(exp) = Len(F) + Len(C)
  <2> DEFINE u == F \o C
  <2>1. \A s \in Seq(Outputs) : \A f : f = [i \in DOMAIN s |-> f[i]] => Len(f) = Len(s)
    OBVIOUS
  <2> HIDE DEF u
  <2>2. Expected(u, NoR, ks) = [i \in DOMAIN u |-> Expected(u, NoR, ks)[i]]
    BY Zenon DEF Expected
  <2>3. Len(Expected(u, NoR, ks)) = Len(u)
    BY <1>4, <2>1, <2>2, Zenon DEF u
  <2> QED BY <1>2, <1>4, <2>3, Zenon DEF u
<1> HIDE DEF exp
<1>6. proofs = SwapErr \/ proofs = SwapOk(Fulls(F \o C, ks))
  <2>1. Completes(sigs, F \o C, NoR, ks)
    BY <1>4, CompletesWhole, Zenon
  <2> QED BY <1>2, <2>1, Zenon DEF Completes
<1> HIDE DEF proofs
<1>7. ASSUME proofs.ok
      PROVE  made = [funding |-> Fulls(F, ks), change |-> Fulls(C, ks)]
  <2>1. proofs.value = Fulls(F \o C, ks)
    BY <1>6, <1>7, SwapResults, Zenon
  <2>2. /\ SubSeq(Fulls(F \o C, ks), 1, Len(F)) = Fulls(F, ks)
        /\ SubSeq(Fulls(F \o C, ks), Len(F) + 1, Len(F) + Len(C)) = Fulls(C, ks)
    <3> DEFINE f == Fulls(F, ks)
               g == Fulls(C, ks)
               V == {Full(o, ks) : o \in Outputs}
    <3>1. f \in Seq(V) /\ g \in Seq(V) /\ Fulls(F \o C, ks) = f \o g
      BY <1>1, FullsAre, FullsBoth, ZenonT(30)
    <3>2. Len(f) = Len(F) /\ Len(g) = Len(C)
      BY <1>1, FullsAre, Zenon
    <3> HIDE DEF f, g, V
    <3>3. SubSeq(f \o g, 1, Len(f)) = f /\ SubSeq(f \o g, Len(f) + 1, Len(f) + Len(g)) = g
      BY <3>1, PartsAre, Zenon
    <3>4. SubSeq(f \o g, 1, Len(F)) = f /\ SubSeq(f \o g, Len(F) + 1, Len(F) + Len(C)) = g
      BY <3>2, <3>3
    <3> QED BY <3>1, <3>4, Zenon DEF f, g
  <2> QED BY <1>5, <2>1, <2>2, Zenon
<1> HIDE DEF made
<1>8. res = SwapErr \/ res = SwapOk([funding |-> Fulls(F, ks), change |-> Fulls(C, ks)])
  BY <1>3, <1>7, Zenon
<1> QED BY <1>8, Zenon DEF res, F, C, ks

-----------------------------------------------------------------------------
(* What arrives. *)

Faults == {"pairs_reordered", "signatures_reordered", "pair_lost", "signature_lost",
           "pair_repeated", "dleq_damaged", "another_answer", "randomness_lost"}

SwapTypeOK == JobOK(job) /\ answer \in Answers /\ faults \in Seq(Faults)

(* The inductive invariant: as long as nothing but the order of the pairs   *)
(* has changed, the answer is in the mode of the swap and pairs every       *)
(* output of the request with its signature; an answer that nothing         *)
(* happened to has them in the order of the request.                        *)
Intact ==
    Range(faults) \subseteq {"pairs_reordered"} =>
        /\ InMode(job, answer.r)
        /\ Paired(answer.outputs, answer.signatures,
                  Blinded(OutputsOf(job), answer.r, job.keyset))

Untouched ==
    faults = << >> =>
        /\ answer.outputs = Blinded(OutputsOf(job), answer.r, job.keyset)
        /\ answer.signatures = SignedAll(answer.outputs)

SwapInv == SwapTypeOK /\ Intact /\ Untouched

(* Exchanging two elements. *)
Other(i, j, k) == IF k = i THEN j ELSE IF k = j THEN i ELSE k

(* The two elements change places and the others stay. *)
LEMMA ExchangeIs ==
  ASSUME NEW S, NEW s \in Seq(S), NEW i \in DOMAIN s, NEW j \in DOMAIN s, i # j
  PROVE  /\ Exchange(s, i, j) \in Seq(S) /\ Len(Exchange(s, i, j)) = Len(s)
         /\ DOMAIN Exchange(s, i, j) = DOMAIN s
         /\ \A k \in DOMAIN s : /\ Exchange(s, i, j)[k] = s[Other(i, j, k)]
                                /\ Other(i, j, k) \in DOMAIN s
                                /\ Other(i, j, Other(i, j, k)) = k
<1> DEFINE e == Exchange(s, i, j)
<1>1. e = [s EXCEPT ![i] = s[j], ![j] = s[i]]
  BY Zenon DEF Exchange
<1>2. e \in Seq(S) /\ Len(e) = Len(s) /\ DOMAIN e = DOMAIN s
  BY <1>1
<1>3. \A k \in DOMAIN s : e[k] = IF k = j THEN s[i] ELSE IF k = i THEN s[j] ELSE s[k]
  BY <1>1
<1> HIDE DEF e
<1>4. \A k \in DOMAIN s : /\ e[k] = s[Other(i, j, k)] /\ Other(i, j, k) \in DOMAIN s
                          /\ Other(i, j, Other(i, j, k)) = k
  BY <1>3, Zenon DEF Other
<1> QED BY <1>2, <1>4, Zenon DEF e

(* It leaves the pairs as they are. *)
LEMMA ExchangePairs ==
  ASSUME NEW S, NEW T, NEW outputs \in Seq(T), NEW signatures \in Seq(S), NEW messages,
         Paired(outputs, signatures, messages),
         NEW i \in DOMAIN outputs \cap DOMAIN signatures,
         NEW j \in DOMAIN outputs \cap DOMAIN signatures, i # j
  PROVE  Paired(Exchange(outputs, i, j), Exchange(signatures, i, j), messages)
<1> DEFINE o == Exchange(outputs, i, j)
           g == Exchange(signatures, i, j)
<1>1. /\ Len(o) = Len(outputs) /\ DOMAIN o = DOMAIN outputs
      /\ \A k \in DOMAIN outputs : /\ o[k] = outputs[Other(i, j, k)]
                                   /\ Other(i, j, k) \in DOMAIN outputs
                                   /\ Other(i, j, Other(i, j, k)) = k
  <2>1. i \in DOMAIN outputs /\ j \in DOMAIN outputs
    OBVIOUS
  <2> QED BY <2>1, ExchangeIs
<1>2. /\ Len(g) = Len(signatures)
      /\ \A k \in DOMAIN signatures : g[k] = signatures[Other(i, j, k)]
  <2>1. i \in DOMAIN signatures /\ j \in DOMAIN signatures
    OBVIOUS
  <2> QED BY <2>1, ExchangeIs
<1>3. DOMAIN outputs = DOMAIN signatures
  <2>1. Len(outputs) = Len(signatures)
    BY Zenon DEF Paired
  <2> QED BY <2>1
<1> HIDE DEF o, g
<1>4. Len(o) = Len(messages) /\ Len(g) = Len(messages)
  BY <1>1, <1>2, Zenon DEF Paired
<1>5. Distinct(o)
  <2> SUFFICES ASSUME NEW k \in DOMAIN outputs, NEW l \in DOMAIN outputs, o[k] = o[l]
               PROVE  k = l
    BY <1>1, Zenon DEF Distinct
  <2>1. outputs[Other(i, j, k)] = outputs[Other(i, j, l)]
        /\ Other(i, j, k) \in DOMAIN outputs /\ Other(i, j, l) \in DOMAIN outputs
    BY <1>1, Zenon
  <2>2. Other(i, j, k) = Other(i, j, l)
    BY <2>1, Zenon DEF Paired, Distinct
  <2>3. Other(i, j, Other(i, j, k)) = k /\ Other(i, j, Other(i, j, l)) = l
    BY <1>1, Zenon
  <2> QED BY <2>2, <2>3, Zenon
<1>6. Range(o) = Range(outputs)
  <2>1. ASSUME NEW k \in DOMAIN outputs PROVE o[k] \in Range(outputs)
    BY <1>1, Zenon DEF Range
  <2>2. ASSUME NEW k \in DOMAIN outputs PROVE outputs[k] \in Range(o)
    <3>1. Other(i, j, k) \in DOMAIN o /\ o[Other(i, j, k)] = outputs[k]
      BY <1>1, Zenon
    <3> QED BY <3>1, Zenon DEF Range
  <2> QED BY <1>1, <2>1, <2>2, Zenon DEF Range
<1>7. \A k \in DOMAIN o : g[k] = Signed(o[k])
  <2> SUFFICES ASSUME NEW k \in DOMAIN outputs
               PROVE  g[k] = Signed(o[k])
    BY <1>1, Zenon
  <2>1. /\ g[k] = signatures[Other(i, j, k)] /\ o[k] = outputs[Other(i, j, k)]
        /\ Other(i, j, k) \in DOMAIN outputs
    BY <1>1, <1>2, <1>3, Zenon
  <2>2. signatures[Other(i, j, k)] = Signed(outputs[Other(i, j, k)])
    BY <2>1, Zenon DEF Paired
  <2> QED BY <2>1, <2>2, Zenon
<1>8. Range(outputs) = Range(messages)
  BY Zenon DEF Paired
<1>9. Paired(o, g, messages)
  BY <1>4, <1>5, <1>6, <1>7, <1>8, Zenon DEF Paired
<1> QED BY <1>9, Zenon DEF o, g

(* The list that has lost an element is a list of the others. *)
LEMMA RemoveIs ==
  ASSUME NEW S, NEW s \in Seq(S), NEW i \in DOMAIN s
  PROVE  RemoveAt(s, i) \in Seq(S)
<1>1. SubSeq(s, 1, i - 1) \in Seq(S) /\ SubSeq(s, i + 1, Len(s)) \in Seq(S)
  OBVIOUS
<1>2. \A x, y \in Seq(S) : x \o y \in Seq(S)
  OBVIOUS
<1> QED BY <1>1, <1>2, Zenon DEF RemoveAt

(* The mint's answer to a request is well formed. *)
LEMMA AnswerType ==
  ASSUME NEW j, JobOK(j), NEW r \in Tweaks
  PROVE  /\ MintAnswer(Request(j).outputs, r) \in Answers
         /\ MintAnswer(Request(j).outputs, r).r = r
         /\ MintAnswer(Request(j).outputs, r).outputs = Blinded(OutputsOf(j), r, j.keyset)
         /\ MintAnswer(Request(j).outputs, r).signatures
                = SignedAll(Blinded(OutputsOf(j), r, j.keyset))
<1> DEFINE m == Blinded(OutputsOf(j), r, j.keyset)
           a == MintAnswer(Request(j).outputs, r)
<1>1. OutputsOf(j) \in Seq(Outputs) /\ j.keyset \in Keysets
  BY OutputsAre, JobFields, Zenon
<1>2. m \in Seq(Messages)
  BY <1>1, BlindedIs, Zenon
<1>3. a = [r |-> r, outputs |-> m, signatures |-> SignedAll(m)]
  BY <1>1, RequestIs, MintAnswerIs
<1> HIDE DEF m, a
<1>4. SignedAll(m) \in Seq(Signatures)
  <2>1. \A x \in Messages : Signed(x) \in Signatures
    BY DEF Messages, Signatures, Signed
  <2>2. DOMAIN m = 1..Len(m) /\ Len(m) \in Nat /\ \A i \in 1..Len(m) : m[i] \in Messages
    BY <1>2
  <2>3. SignedAll(m) \in [1..Len(m) -> Signatures]
    BY <2>1, <2>2, Zenon DEF SignedAll
  <2> QED BY <2>2, <2>3
<1>5. a \in Answers
  BY <1>2, <1>3, <1>4 DEF Answers
<1>6. a.r = r /\ a.outputs = m /\ a.signatures = SignedAll(m)
  BY <1>3
<1> QED BY <1>5, <1>6 DEF m, a

(* The invariant holds of the mint's answer. *)
LEMMA SwapStarts == SwapInit => SwapInv
<1> SUFFICES ASSUME SwapInit
             PROVE  SwapInv
  OBVIOUS
<1>1. JobOK(job)
  <2>1. PICK opening \in BOOLEAN, mode \in BOOLEAN, first \in Splits, second \in Splits,
             ks \in Keysets :
          /\ first \o second # << >>
          /\ opening => ~mode
          /\ job = [opening |-> opening, rerandomized |-> mode,
                    first |-> first, second |-> second, keyset |-> ks]
    BY Zenon DEF SwapInit
  <2>2. job \in Jobs
    BY <2>1 DEF Jobs
  <2>3. /\ job.opening = opening /\ job.rerandomized = mode
        /\ job.first = first /\ job.second = second
    BY <2>1
  <2> QED BY <2>1, <2>2, <2>3, Zenon DEF JobOK
<1>2. PICK r \in (IF job.rerandomized THEN Randomness ELSE {NoR}) :
          answer = MintAnswer(Request(job).outputs, r)
  BY Zenon DEF SwapInit
<1>3. r \in Tweaks /\ InMode(job, r)
  <2>1. job.rerandomized \in BOOLEAN
    BY <1>1, JobFields, Zenon
  <2>2. CASE job.rerandomized
    <3>1. r \in Randomness
      BY <1>2, <2>2
    <3>2. r # NoR
      BY <3>1, SwapAssumption, Zenon
    <3> QED BY <2>1, <2>2, <3>1, <3>2, Zenon DEF InMode, Tweaks
  <2>3. CASE ~job.rerandomized
    <3>1. r = NoR
      BY <1>2, <2>3
    <3> QED BY <2>1, <2>3, <3>1, Zenon DEF InMode, Tweaks
  <2> QED BY <2>2, <2>3
<1> DEFINE m == Blinded(OutputsOf(job), r, job.keyset)
<1>4. answer \in Answers /\ answer.r = r /\ answer.outputs = m /\ answer.signatures = SignedAll(m)
  BY <1>1, <1>2, <1>3, AnswerType
<1>5. m \in Seq(Messages) /\ Distinct(m)
  <2>1. /\ OutputsOf(job) \in Seq(Outputs) /\ Distinct(OutputsOf(job))
        /\ job.keyset \in Keysets
    BY <1>1, OutputsAre, JobFields, Zenon
  <2> QED BY <2>1, <1>3, BlindedIs, Zenon
<1>6. faults = << >> /\ faults \in Seq(Faults)
  <2>1. faults = << >>
    BY Zenon DEF SwapInit
  <2> QED BY <2>1
<1> HIDE DEF m
<1>7. Paired(m, SignedAll(m), m)
  <2>1. DOMAIN SignedAll(m) = DOMAIN m /\ SignedAll(m) = [i \in DOMAIN m |-> Signed(m[i])]
    BY Zenon DEF SignedAll
  <2>2. Len(SignedAll(m)) = Len(m)
    <3>1. \A s \in Seq(Messages) : \A f : f = [i \in DOMAIN s |-> Signed(s[i])] => Len(f) = Len(s)
      OBVIOUS
    <3> QED BY <1>5, <2>1, <3>1, Zenon
  <2> QED BY <1>5, <2>1, <2>2, Zenon DEF Paired
<1>8. Intact
  <2>1. Paired(answer.outputs, answer.signatures, Blinded(OutputsOf(job), answer.r, job.keyset))
    BY <1>4, <1>7, Zenon DEF m
  <2> QED BY <1>3, <1>4, <2>1, Zenon DEF Intact
<1>9. Untouched
  BY <1>4, Zenon DEF Untouched, m
<1> QED BY <1>1, <1>4, <1>6, <1>8, <1>9, Zenon DEF SwapInv, SwapTypeOK

(* What a fault must keep for the invariant. *)
LEMMA FaultKeeps ==
  ASSUME SwapInv, NEW fault \in Faults, faults' = Append(faults, fault), job' = job,
         answer' \in Answers,
         fault = "pairs_reordered" =>
            /\ answer'.r = answer.r
            /\ \E i, j \in PairsOf(answer) :
                  /\ i # j
                  /\ answer'.outputs = Exchange(answer.outputs, i, j)
                  /\ answer'.signatures = Exchange(answer.signatures, i, j)
  PROVE  SwapInv'
<1>1. faults \in Seq(Faults) /\ answer \in Answers /\ JobOK(job)
  BY Zenon DEF SwapInv, SwapTypeOK
<1>2. /\ faults' \in Seq(Faults) /\ faults' # << >>
      /\ Range(faults) \subseteq Range(faults') /\ fault \in Range(faults')
  <2>1. /\ faults' \in Seq(Faults) /\ Len(faults') = Len(faults) + 1 /\ Len(faults) \in Nat
        /\ \A i \in 1..Len(faults) : faults'[i] = faults[i]
        /\ faults'[Len(faults) + 1] = fault
    BY <1>1
  <2>2. /\ DOMAIN faults = 1..Len(faults) /\ DOMAIN faults' = 1..(Len(faults) + 1)
        /\ Len(faults) + 1 \in 1..(Len(faults) + 1)
        /\ \A i \in 1..Len(faults) : i \in 1..(Len(faults) + 1)
    BY <1>1, <2>1
  <2>3. faults' # << >>
    BY <2>1
  <2>4. fault \in Range(faults')
    BY <2>1, <2>2, Zenon DEF Range
  <2>5. ASSUME NEW x \in Range(faults) PROVE x \in Range(faults')
    <3>1. PICK i \in 1..Len(faults) : x = faults[i]
      BY <2>2, Zenon DEF Range
    <3>2. i \in DOMAIN faults' /\ faults'[i] = x
      BY <2>1, <2>2, <3>1, Zenon
    <3> QED BY <3>2, Zenon DEF Range
  <2> QED BY <2>1, <2>3, <2>4, <2>5, Zenon
<1>3. SwapTypeOK'
  BY <1>1, <1>2, Zenon DEF SwapTypeOK, JobOK
<1>4. Untouched'
  BY <1>2, Zenon DEF Untouched
<1>5. Intact'
  <2> SUFFICES ASSUME Range(faults') \subseteq {"pairs_reordered"}
               PROVE  /\ InMode(job, answer'.r)
                      /\ Paired(answer'.outputs, answer'.signatures,
                                Blinded(OutputsOf(job), answer'.r, job.keyset))
    BY Zenon DEF Intact, InMode, OutputsOf, FundingOf, ChangeOf, ReceiverOf, SenderOf
  <2>1. fault = "pairs_reordered" /\ Range(faults) \subseteq {"pairs_reordered"}
    BY <1>2, Zenon
  <2> DEFINE m == Blinded(OutputsOf(job), answer.r, job.keyset)
  <2>2. InMode(job, answer.r) /\ Paired(answer.outputs, answer.signatures, m)
    BY <2>1, Zenon DEF SwapInv, Intact
  <2>3. answer.outputs \in Seq(Messages) /\ answer.signatures \in Seq(Signatures)
    BY <1>1, Zenon DEF Answers
  <2>4. PICK i \in PairsOf(answer), j \in PairsOf(answer) :
                  /\ i # j
                  /\ answer'.outputs = Exchange(answer.outputs, i, j)
                  /\ answer'.signatures = Exchange(answer.signatures, i, j)
    BY <2>1, Zenon
  <2> HIDE DEF m
  <2>5. Paired(Exchange(answer.outputs, i, j), Exchange(answer.signatures, i, j), m)
    BY <2>2, <2>3, <2>4, ExchangePairs, Zenon DEF PairsOf
  <2>6. answer'.r = answer.r
    BY <2>1, Zenon
  <2> QED BY <2>2, <2>4, <2>5, <2>6, Zenon DEF m
<1> QED BY <1>3, <1>4, <1>5, Zenon DEF SwapInv

(* An answer with other parts. *)
LEMMA AnswerParts ==
  ASSUME answer \in Answers
  PROVE  /\ answer.r \in Tweaks
         /\ answer.outputs \in Seq(Messages) /\ answer.signatures \in Seq(Signatures)
         /\ \A o \in Seq(Messages), g \in Seq(Signatures) :
               /\ [answer EXCEPT !.outputs = o, !.signatures = g] \in Answers
               /\ [answer EXCEPT !.outputs = o, !.signatures = g].r = answer.r
               /\ [answer EXCEPT !.outputs = o, !.signatures = g].outputs = o
               /\ [answer EXCEPT !.outputs = o, !.signatures = g].signatures = g
         /\ \A g \in Seq(Signatures) : [answer EXCEPT !.signatures = g] \in Answers
         /\ \A r \in Tweaks : [answer EXCEPT !.r = r] \in Answers
<1> USE DEF Answers
<1>1. /\ answer.r \in Tweaks
      /\ answer.outputs \in Seq(Messages) /\ answer.signatures \in Seq(Signatures)
  BY Zenon
<1>2. ASSUME NEW o \in Seq(Messages), NEW g \in Seq(Signatures)
      PROVE  /\ [answer EXCEPT !.outputs = o, !.signatures = g] \in Answers
             /\ [answer EXCEPT !.outputs = o, !.signatures = g].r = answer.r
             /\ [answer EXCEPT !.outputs = o, !.signatures = g].outputs = o
             /\ [answer EXCEPT !.outputs = o, !.signatures = g].signatures = g
  BY Zenon
<1>3. ASSUME NEW g \in Seq(Signatures)
      PROVE  [answer EXCEPT !.signatures = g] \in Answers
  OBVIOUS
<1>4. ASSUME NEW r \in Tweaks
      PROVE  [answer EXCEPT !.r = r] \in Answers
  OBVIOUS
<1> QED BY <1>1, <1>2, <1>3, <1>4, Zenon

(* Every fault keeps the invariant. *)
LEMMA SwapStep == SwapInv /\ [SwapNext]_swapVars => SwapInv'
<1> SUFFICES ASSUME SwapInv, [SwapNext]_swapVars
             PROVE  SwapInv'
  OBVIOUS
<1>1. JobOK(job) /\ answer \in Answers /\ faults \in Seq(Faults)
  BY Zenon DEF SwapInv, SwapTypeOK
<1> DEFINE O == answer.outputs
           G == answer.signatures
<1>2. O \in Seq(Messages) /\ G \in Seq(Signatures) /\ answer.r \in Tweaks
  BY <1>1, AnswerParts, Zenon
<1>3. CASE PairsReordered
  <2>1. PICK i \in PairsOf(answer), j \in PairsOf(answer) :
          /\ i < j
          /\ Arrives([answer EXCEPT !.outputs = Exchange(@, i, j),
                                    !.signatures = Exchange(@, i, j)], "pairs_reordered")
    BY <1>3, Zenon DEF PairsReordered
  <2>2. i \in DOMAIN O /\ i \in DOMAIN G /\ j \in DOMAIN O /\ j \in DOMAIN G /\ i # j
    <3>1. i \in DOMAIN O /\ i \in DOMAIN G /\ j \in DOMAIN O /\ j \in DOMAIN G
      BY Zenon DEF PairsOf
    <3>2. i \in Nat /\ j \in Nat
      BY <1>2, <3>1
    <3> QED BY <2>1, <3>1, <3>2
  <2>3. Exchange(O, i, j) \in Seq(Messages) /\ Exchange(G, i, j) \in Seq(Signatures)
    BY <1>2, <2>2, ExchangeIs, Zenon
  <2>4. /\ answer' = [answer EXCEPT !.outputs = Exchange(O, i, j),
                                    !.signatures = Exchange(G, i, j)]
        /\ faults' = Append(faults, "pairs_reordered") /\ job' = job
    BY <2>1, Zenon DEF Arrives
  <2>5. /\ answer' \in Answers /\ answer'.r = answer.r
        /\ answer'.outputs = Exchange(O, i, j) /\ answer'.signatures = Exchange(G, i, j)
    BY <1>1, <2>3, <2>4, AnswerParts, ZenonT(30)
  <2>6. "pairs_reordered" \in Faults
    BY DEF Faults
  <2> QED BY <2>2, <2>4, <2>5, <2>6, FaultKeeps, Zenon
<1>4. CASE SignaturesReordered
  <2>1. PICK i \in DOMAIN G, j \in DOMAIN G :
          /\ i < j
          /\ Arrives([answer EXCEPT !.signatures = Exchange(@, i, j)], "signatures_reordered")
    BY <1>4, Zenon DEF SignaturesReordered
  <2>2. i # j
    <3>1. i \in Nat /\ j \in Nat
      BY <1>2
    <3> QED BY <2>1, <3>1
  <2>3. Exchange(G, i, j) \in Seq(Signatures)
    BY <1>2, <2>2, ExchangeIs, Zenon
  <2>4. /\ answer' = [answer EXCEPT !.signatures = Exchange(G, i, j)]
        /\ faults' = Append(faults, "signatures_reordered") /\ job' = job
    BY <2>1, Zenon DEF Arrives
  <2>5. answer' \in Answers
    BY <1>1, <2>3, <2>4, AnswerParts, Zenon
  <2>6. "signatures_reordered" \in Faults /\ "signatures_reordered" # "pairs_reordered"
    BY DEF Faults
  <2> QED BY <2>4, <2>5, <2>6, FaultKeeps, Zenon
<1>5. CASE PairLost
  <2>1. PICK i \in PairsOf(answer) :
          Arrives([answer EXCEPT !.outputs = RemoveAt(@, i),
                                 !.signatures = RemoveAt(@, i)], "pair_lost")
    BY <1>5, Zenon DEF PairLost
  <2>2. RemoveAt(O, i) \in Seq(Messages) /\ RemoveAt(G, i) \in Seq(Signatures)
    BY <1>2, RemoveIs, Zenon DEF PairsOf
  <2>3. /\ answer' = [answer EXCEPT !.outputs = RemoveAt(O, i), !.signatures = RemoveAt(G, i)]
        /\ faults' = Append(faults, "pair_lost") /\ job' = job
    BY <2>1, Zenon DEF Arrives
  <2>4. answer' \in Answers
    BY <1>1, <2>2, <2>3, AnswerParts, Zenon
  <2>5. "pair_lost" \in Faults /\ "pair_lost" # "pairs_reordered"
    BY DEF Faults
  <2> QED BY <2>3, <2>4, <2>5, FaultKeeps, Zenon
<1>6. CASE SignatureLost
  <2>1. PICK i \in DOMAIN G :
          Arrives([answer EXCEPT !.signatures = RemoveAt(@, i)], "signature_lost")
    BY <1>6, Zenon DEF SignatureLost
  <2>2. RemoveAt(G, i) \in Seq(Signatures)
    BY <1>2, RemoveIs, Zenon
  <2>3. /\ answer' = [answer EXCEPT !.signatures = RemoveAt(G, i)]
        /\ faults' = Append(faults, "signature_lost") /\ job' = job
    BY <2>1, Zenon DEF Arrives
  <2>4. answer' \in Answers
    BY <1>1, <2>2, <2>3, AnswerParts, Zenon
  <2>5. "signature_lost" \in Faults /\ "signature_lost" # "pairs_reordered"
    BY DEF Faults
  <2> QED BY <2>3, <2>4, <2>5, FaultKeeps, Zenon
<1>7. CASE PairRepeated
  <2>1. PICK i \in PairsOf(answer), j \in PairsOf(answer) :
          Arrives([answer EXCEPT !.outputs[j] = answer.outputs[i],
                                 !.signatures[j] = answer.signatures[i]], "pair_repeated")
    BY <1>7, Zenon DEF PairRepeated
  <2>2. i \in DOMAIN O /\ i \in DOMAIN G /\ j \in DOMAIN O /\ j \in DOMAIN G
    BY Zenon DEF PairsOf
  <2>3. [O EXCEPT ![j] = O[i]] \in Seq(Messages) /\ [G EXCEPT ![j] = G[i]] \in Seq(Signatures)
    BY <1>2, <2>2
  <2>4. /\ answer' = [answer EXCEPT !.outputs = [O EXCEPT ![j] = O[i]],
                                    !.signatures = [G EXCEPT ![j] = G[i]]]
        /\ faults' = Append(faults, "pair_repeated") /\ job' = job
    BY <2>1 DEF Arrives
  <2>5. answer' \in Answers
    BY <1>1, <2>3, <2>4, AnswerParts, Zenon
  <2>6. "pair_repeated" \in Faults /\ "pair_repeated" # "pairs_reordered"
    BY DEF Faults
  <2> QED BY <2>4, <2>5, <2>6, FaultKeeps, Zenon
<1>8. CASE DleqDamaged
  <2>1. PICK i \in DOMAIN G, how \in {"wrong", "missing"} :
          Arrives([answer EXCEPT !.signatures[i].dleq = how], "dleq_damaged")
    BY <1>8, Zenon DEF DleqDamaged
  <2> DEFINE g == [G EXCEPT ![i] = [G[i] EXCEPT !.dleq = how]]
  <2>2. g \in Seq(Signatures)
    <3>1. G[i] \in Signatures
      BY <1>2
    <3>2. [G[i] EXCEPT !.dleq = how] \in Signatures
      BY <3>1 DEF Signatures
    <3> QED BY <1>2, <3>2
  <2>3. /\ answer' = [answer EXCEPT !.signatures = g]
        /\ faults' = Append(faults, "dleq_damaged") /\ job' = job
    BY <2>1 DEF Arrives
  <2> HIDE DEF g
  <2>4. answer' \in Answers
    BY <1>1, <2>2, <2>3, AnswerParts, Zenon
  <2>5. "dleq_damaged" \in Faults /\ "dleq_damaged" # "pairs_reordered"
    BY DEF Faults
  <2> QED BY <2>3, <2>4, <2>5, FaultKeeps, Zenon
<1>9. CASE AnotherAnswer
  <2>1. PICK r \in Randomness \cup {NoR}, ks \in Keysets :
          Arrives(MintAnswer(Request([job EXCEPT !.keyset = ks]).outputs, r), "another_answer")
    BY <1>9, Zenon DEF AnotherAnswer
  <2> DEFINE j == [job EXCEPT !.keyset = ks]
  <2>2. JobOK(j)
    <3>1. job \in Jobs
      BY <1>1, Zenon DEF JobOK
    <3>2. j \in Jobs
      BY <3>1 DEF Jobs
    <3>3. /\ j.opening = job.opening /\ j.rerandomized = job.rerandomized
          /\ j.first = job.first /\ j.second = job.second
      BY <3>1 DEF Jobs
    <3> QED BY <1>1, <3>2, <3>3, Zenon DEF JobOK
  <2>3. /\ answer' = MintAnswer(Request(j).outputs, r)
        /\ faults' = Append(faults, "another_answer") /\ job' = job
    BY <2>1, Zenon DEF Arrives
  <2> HIDE DEF j
  <2>4. answer' \in Answers
    BY <2>2, <2>3, AnswerType DEF Tweaks
  <2>5. "another_answer" \in Faults /\ "another_answer" # "pairs_reordered"
    BY DEF Faults
  <2> QED BY <2>3, <2>4, <2>5, FaultKeeps, Zenon
<1>10. CASE RandomnessLost
  <2>1. PICK r \in Tweaks : Arrives([answer EXCEPT !.r = r], "randomness_lost")
    BY <1>10, Zenon DEF RandomnessLost, Tweaks
  <2>2. /\ answer' = [answer EXCEPT !.r = r]
        /\ faults' = Append(faults, "randomness_lost") /\ job' = job
    BY <2>1, Zenon DEF Arrives
  <2>3. answer' \in Answers
    BY <1>1, <2>2, AnswerParts, Zenon
  <2>4. "randomness_lost" \in Faults /\ "randomness_lost" # "pairs_reordered"
    BY DEF Faults
  <2> QED BY <2>2, <2>3, <2>4, FaultKeeps, Zenon
<1>11. CASE UNCHANGED swapVars
  BY <1>11 DEF swapVars, SwapInv, SwapTypeOK, Intact, Untouched, JobOK, InMode, OutputsOf,
       FundingOf, ChangeOf, ReceiverOf, SenderOf
<1> QED BY <1>3, <1>4, <1>5, <1>6, <1>7, <1>8, <1>9, <1>10, <1>11, Zenon DEF SwapNext

(* The type of what arrives, and that an answer only reordered is still the *)
(* whole answer, hold throughout.                                           *)
THEOREM SwapInvariant == SwapSpec => []SwapInv
<1> QED BY SwapStarts, SwapStep, PTL DEF SwapSpec

-----------------------------------------------------------------------------
(* Whole settlements and openings. *)

(* Proofs of distinct outputs are all the outputs they are of. *)
LEMMA WholeOf ==
  ASSUME NEW all \in Seq(Outputs), Distinct(all), NEW ks, NEW at \in SUBSET (DOMAIN all),
         NEW proofs, \A i \in at : proofs[i] = Full(all[i], ks),
         NEW outputs, \A o : o \in Range(outputs) <=> \E i \in at : all[i] = o
  PROVE  AllOf(proofs, at, outputs)
<1>1. \A o : Full(o, ks).spendable = TRUE /\ Full(o, ks).secret = o
  BY DEF Full
<1>2. ASSUME NEW i \in at
      PROVE  proofs[i].spendable = TRUE /\ proofs[i].secret = all[i] /\ i \in DOMAIN all
  <2>1. proofs[i] = Full(all[i], ks)
    BY Zenon
  <2> QED BY <1>1, <2>1
<1>3. ASSUME NEW i \in at, NEW j \in at, proofs[i].secret = proofs[j].secret
      PROVE  i = j
  <2>1. all[i] = all[j] /\ i \in DOMAIN all /\ j \in DOMAIN all
    BY <1>2, <1>3, Zenon
  <2> QED BY <2>1, Zenon DEF Distinct
<1>4. \A o : o \in {proofs[i].secret : i \in at} <=> \E i \in at : all[i] = o
  <2>1. \A i \in at : proofs[i].secret = all[i]
    BY <1>2, Zenon
  <2>2. \A o : o \in {proofs[i].secret : i \in at} <=> \E i \in at : proofs[i].secret = o
    BY Zenon
  <2> QED BY <2>1, <2>2, SMT
<1>5. {proofs[i].secret : i \in at} = Range(outputs)
  BY <1>4, Zenon
<1> QED BY <1>2, <1>3, <1>5, Zenon DEF AllOf

(* The outputs of a party in a settlement are those of its context. *)
LEMMA OwnersAre ==
  ASSUME NEW j, JobOK(j), ~j.opening
  PROVE  /\ \A o : o \in Range(ReceiverOf(j)) <=>
                \E i \in DOMAIN OutputsOf(j) : /\ OutputsOf(j)[i] = o
                                               /\ OutputsOf(j)[i].context = "receiver"
         /\ \A o : o \in Range(SenderOf(j)) <=>
                \E i \in DOMAIN OutputsOf(j) : /\ OutputsOf(j)[i] = o
                                               /\ OutputsOf(j)[i].context # "receiver"
         /\ \A o \in Range(SenderOf(j)) : o.context = "sender"
<1> DEFINE all == OutputsOf(j)
           R == ReceiverOf(j)
           T == SenderOf(j)
<1>1. "receiver" \in Contexts /\ "sender" \in Contexts /\ "receiver" # "sender"
  BY DEF Contexts
<1>2. \A o \in Range(R) : o.context = "receiver"
  <2>1. /\ R \in Seq(Outputs) /\ Len(R) = Len(j.first)
        /\ \A i \in 1..Len(j.first) : R[i].context = "receiver"
    <3>1. j.first \in Seq(Nat)
      BY JobFields, Zenon
    <3> QED BY <1>1, <3>1, SecretsAre, SMTT(30) DEF ReceiverOf, AreSecrets
  <2>2. DOMAIN R = 1..Len(j.first)
    BY <2>1
  <2> QED BY <2>1, <2>2, Zenon DEF Range
<1>3. \A o \in Range(T) : o.context = "sender"
  <2>1. /\ T \in Seq(Outputs) /\ Len(T) = Len(j.second)
        /\ \A i \in 1..Len(j.second) : T[i].context = "sender"
    <3>1. j.second \in Seq(Nat)
      BY JobFields, Zenon
    <3> QED BY <1>1, <3>1, SecretsAre, SMTT(30) DEF SenderOf, AreSecrets
  <2>2. DOMAIN T = 1..Len(j.second)
    BY <2>1
  <2> QED BY <2>1, <2>2, Zenon DEF Range
<1>4. \A o : (\E i \in DOMAIN all : all[i] = o) <=> o \in Range(R) \/ o \in Range(T)
  <2>1. Range(all) = Range(R) \cup Range(T)
    BY OutputsAre, Zenon
  <2>2. \A o : o \in Range(all) <=> \E i \in DOMAIN all : all[i] = o
    BY Zenon DEF Range
  <2> QED BY <2>1, <2>2, Zenon
<1> HIDE DEF all, R, T
<1>5. ASSUME NEW o
      PROVE  /\ o \in Range(R) <=> \E i \in DOMAIN all : all[i] = o /\ all[i].context = "receiver"
             /\ o \in Range(T) <=> \E i \in DOMAIN all : all[i] = o /\ all[i].context # "receiver"
  <2>1. (\E i \in DOMAIN all : all[i] = o /\ all[i].context = "receiver")
            <=> o.context = "receiver" /\ \E i \in DOMAIN all : all[i] = o
    BY Zenon
  <2>2. (\E i \in DOMAIN all : all[i] = o /\ all[i].context # "receiver")
            <=> o.context # "receiver" /\ \E i \in DOMAIN all : all[i] = o
    BY Zenon
  <2>3. (\E i \in DOMAIN all : all[i] = o) <=> o \in Range(R) \/ o \in Range(T)
    BY <1>4, Zenon
  <2> QED BY <1>1, <1>2, <1>3, <2>1, <2>2, <2>3, Zenon
<1> QED BY <1>3, <1>5, Zenon DEF all, R, T

(* What is accepted is whole, in every state of the right type. *)
LEMMA AcceptedWhole == SwapTypeOK => AcceptedIsWhole
<1> SUFFICES ASSUME SwapTypeOK
             PROVE  AcceptedIsWhole
  OBVIOUS
<1>1. JobOK(job) /\ answer.r \in Tweaks /\ answer.signatures \in Seq(Signatures)
  BY AnswerParts, Zenon DEF SwapTypeOK
<1>2. ASSUME ~job.opening, FromSwap.ok
      PROVE  LET labelled == FromSwap.value
                 proofs == [i \in DOMAIN labelled |-> labelled[i].proof]
                 at(flag) == {i \in DOMAIN labelled : labelled[i].is_receiver = flag}
             IN  /\ AllOf(proofs, at(TRUE), get_secrets_with_blinding("receiver", job.first))
                 /\ AllOf(proofs, at(FALSE), get_secrets_with_blinding("sender", job.second))
  <2> DEFINE all == OutputsOf(job)
             labelled == Labelled(job)
             proofs == [i \in DOMAIN labelled |-> labelled[i].proof]
             at(flag) == {i \in DOMAIN labelled : labelled[i].is_receiver = flag}
  <2>1. FromSwap.value = labelled
    <3>1. FromSwap = SwapErr \/ FromSwap = SwapOk(labelled)
      BY <1>1, <1>2, SettlementIs, Zenon DEF FromSwap, Commitment
    <3> QED BY <1>2, <3>1, SwapResults, Zenon
  <2>2. /\ DOMAIN labelled = DOMAIN all
        /\ \A i \in DOMAIN all :
              labelled[i] = [proof |-> Full(all[i], job.keyset), amount |-> all[i].amount,
                             index |-> all[i].index, is_receiver |-> all[i].context = "receiver"]
    BY Zenon DEF Labelled
  <2> HIDE DEF labelled
  <2>3. \A i \in DOMAIN all : /\ labelled[i].proof = Full(all[i], job.keyset)
                              /\ labelled[i].is_receiver = (all[i].context = "receiver")
    BY <2>2
  <2>4. \A i \in DOMAIN all : proofs[i] = Full(all[i], job.keyset)
    BY <2>2, <2>3, Zenon
  <2>5. all \in Seq(Outputs) /\ Distinct(all)
    BY <1>1, OutputsAre, Zenon
  <2> HIDE DEF all
  <2>6. /\ \A i : i \in at(TRUE) <=> i \in DOMAIN all /\ all[i].context = "receiver"
        /\ \A i : i \in at(FALSE) <=> i \in DOMAIN all /\ all[i].context # "receiver"
    BY <2>2, <2>3, Zenon
  <2>7. /\ at(TRUE) \in SUBSET (DOMAIN all) /\ at(FALSE) \in SUBSET (DOMAIN all)
        /\ \A i \in at(TRUE) : proofs[i] = Full(all[i], job.keyset)
        /\ \A i \in at(FALSE) : proofs[i] = Full(all[i], job.keyset)
    BY <2>4, <2>6, Zenon
  <2>8. /\ \A o : o \in Range(ReceiverOf(job)) <=> \E i \in at(TRUE) : all[i] = o
        /\ \A o : o \in Range(SenderOf(job)) <=> \E i \in at(FALSE) : all[i] = o
    <3>1. /\ \A o : o \in Range(ReceiverOf(job)) <=>
                \E i \in DOMAIN all : all[i] = o /\ all[i].context = "receiver"
          /\ \A o : o \in Range(SenderOf(job)) <=>
                \E i \in DOMAIN all : all[i] = o /\ all[i].context # "receiver"
      BY <1>1, <1>2, OwnersAre, Zenon DEF all
    <3> HIDE DEF at
    <3> QED BY <2>6, <3>1, Zenon
  <2> HIDE DEF proofs, at
  <2>9. AllOf(proofs, at(TRUE), ReceiverOf(job)) /\ AllOf(proofs, at(FALSE), SenderOf(job))
    BY <2>5, <2>7, <2>8, WholeOf, Zenon
  <2> QED BY <2>1, <2>9, Zenon DEF proofs, at, ReceiverOf, SenderOf
<1>3. ASSUME job.opening, FromOpening.ok
      PROVE  LET proofs == FromOpening.value
             IN  /\ AllOf(proofs.funding, DOMAIN proofs.funding, FundingOf(job))
                 /\ AllOf(proofs.change, DOMAIN proofs.change, ChangeOf(job))
  <2> DEFINE F == FundingOf(job)
             C == ChangeOf(job)
  <2>1. FromOpening.value = [funding |-> Fulls(F, job.keyset), change |-> Fulls(C, job.keyset)]
    <3>1. FromOpening = SwapErr
            \/ FromOpening = SwapOk([funding |-> Fulls(F, job.keyset),
                                     change |-> Fulls(C, job.keyset)])
      BY <1>1, <1>3, OpeningIs, Zenon DEF FromOpening
    <3> QED BY <1>3, <3>1, SwapResults, Zenon
  <2>2. /\ FromOpening.value.funding = Fulls(F, job.keyset)
        /\ FromOpening.value.change = Fulls(C, job.keyset)
    BY <2>1
  <2>3. F \in Seq(Outputs) /\ Distinct(F) /\ C \in Seq(Outputs) /\ Distinct(C)
    BY <1>1, <1>3, OutputsAre, Zenon
  <2> HIDE DEF F, C
  <2>4. ASSUME NEW s \in Seq(Outputs), Distinct(s)
        PROVE  AllOf(Fulls(s, job.keyset), DOMAIN Fulls(s, job.keyset), s)
    <3>1. /\ DOMAIN Fulls(s, job.keyset) = DOMAIN s
          /\ \A i \in DOMAIN s : Fulls(s, job.keyset)[i] = Full(s[i], job.keyset)
      BY Zenon DEF Fulls
    <3>2. \A o : o \in Range(s) <=> \E i \in DOMAIN s : s[i] = o
      BY Zenon DEF Range
    <3>3. DOMAIN s \in SUBSET (DOMAIN s)
      OBVIOUS
    <3> QED BY <2>4, <3>1, <3>2, <3>3, WholeOf, Zenon
  <2> QED BY <2>2, <2>3, <2>4, Zenon DEF F, C
<1> QED BY <1>2, <1>3, Zenon DEF AcceptedIsWhole

(* Whatever arrives for a swap, a completion accepts the whole settlement   *)
(* or the whole opening, or refuses it (complete_swap_response,             *)
(* complete_exact_opening_signatures).                                      *)
THEOREM AcceptedAlwaysWhole == SwapSpec => []AcceptedIsWhole
<1>1. SwapInv => AcceptedIsWhole
  BY AcceptedWhole, Zenon DEF SwapInv
<1> QED BY <1>1, SwapInvariant, PTL

-----------------------------------------------------------------------------
(* Restores. *)

(* The messages that a completion expects. *)
LEMMA ExpectedMessages ==
  \A outputs, r, ks :
     [i \in DOMAIN Expected(outputs, r, ks) |-> Expected(outputs, r, ks)[i].message]
        = Blinded(outputs, r, ks)
<1> SUFFICES ASSUME NEW outputs, NEW r, NEW ks
             PROVE  [i \in DOMAIN Expected(outputs, r, ks) |-> Expected(outputs, r, ks)[i].message]
                        = Blinded(outputs, r, ks)
  BY Zenon
<1>1. DOMAIN Expected(outputs, r, ks) = DOMAIN outputs
  BY Zenon DEF Expected
<1>2. ASSUME NEW i \in DOMAIN outputs
      PROVE  Expected(outputs, r, ks)[i].message = to_blinded_message(outputs[i], r, ks)
  <2>1. Expected(outputs, r, ks)[i]
          = [message |-> to_blinded_message(outputs[i], r, ks), output |-> outputs[i], r |-> r]
    BY Zenon DEF Expected
  <2> QED BY <2>1
<1> QED BY <1>1, <1>2, Zenon DEF Blinded

(* The proofs of the whole settlement, without their labels. *)
LEMMA LabelledProofs ==
  \A j : [i \in DOMAIN Labelled(j) |-> Labelled(j)[i].proof] = Fulls(OutputsOf(j), j.keyset)
<1> SUFFICES ASSUME NEW j
             PROVE  [i \in DOMAIN Labelled(j) |-> Labelled(j)[i].proof]
                        = Fulls(OutputsOf(j), j.keyset)
  BY Zenon
<1>1. DOMAIN Labelled(j) = DOMAIN OutputsOf(j)
  BY Zenon DEF Labelled
<1>2. ASSUME NEW i \in DOMAIN OutputsOf(j)
      PROVE  Labelled(j)[i].proof = Full(OutputsOf(j)[i], j.keyset)
  <2>1. Labelled(j)[i] = [proof |-> Full(OutputsOf(j)[i], j.keyset),
                          amount |-> OutputsOf(j)[i].amount,
                          index |-> OutputsOf(j)[i].index,
                          is_receiver |-> OutputsOf(j)[i].context = "receiver"]
    BY Zenon DEF Labelled
  <2> QED BY <2>1
<1> QED BY <1>1, <1>2, Zenon DEF Fulls

(* What matching gives is completed as a whole, if at all. *)
Restored(answered, all, r, ks, res) ==
    LET matched == match_restore_response(answered.outputs, answered.signatures,
                                          Blinded(all, r, ks))
    IN  /\ res = IF ~matched.ok THEN SwapErr
                 ELSE complete_exact_signatures(matched.value, Expected(all, r, ks), ks)

(* It is the proofs of all the outputs or an error, and no error for pairs  *)
(* that are all there.                                                      *)
LEMMA RestoredWhole ==
  ASSUME NEW all \in Seq(Outputs), Distinct(all), NEW r \in Tweaks, NEW ks \in Keysets,
         NEW T, NEW a, a.outputs \in Seq(T), NEW res, Restored(a, all, r, ks, res)
  PROVE  /\ res = SwapErr \/ (res = SwapOk(Fulls(all, ks)) /\ Len(a.outputs) = Len(all))
         /\ Paired(a.outputs, a.signatures, Blinded(all, r, ks)) => res = SwapOk(Fulls(all, ks))
<1> DEFINE messages == Blinded(all, r, ks)
           matched == match_restore_response(a.outputs, a.signatures, messages)
<1>1. messages \in Seq(Messages) /\ Len(messages) = Len(all) /\ Distinct(messages)
  BY BlindedIs, Zenon
<1>2. res = IF ~matched.ok THEN SwapErr
            ELSE complete_exact_signatures(matched.value, Expected(all, r, ks), ks)
  BY Zenon DEF Restored
<1> HIDE DEF messages
<1>3. /\ \/ matched = SwapErr
         \/ /\ \E v : matched = SwapOk(v) /\ v \in Seq({v[i] : i \in DOMAIN v})
            /\ Len(a.outputs) = Len(a.signatures) /\ Len(a.outputs) = Len(messages)
      /\ Paired(a.outputs, a.signatures, messages) => matched = SwapOk(SignedAll(messages))
  BY <1>1, MatchIs, Zenon
<1> HIDE DEF matched
<1>4. matched = SwapErr => res = SwapErr
  BY <1>2, SwapResults, Zenon
<1>5. ASSUME NEW v, matched = SwapOk(v), v \in Seq({v[i] : i \in DOMAIN v})
      PROVE  /\ res = SwapErr \/ res = SwapOk(Fulls(all, ks))
             /\ v = SignedAll(messages) => res = SwapOk(Fulls(all, ks))
  <2>1. res = complete_exact_signatures(v, Expected(all, r, ks), ks)
    BY <1>2, <1>5, SwapResults, Zenon
  <2>2. Completes(v, all, r, ks)
    BY <1>5, CompletesWhole, Zenon
  <2> QED BY <2>1, <2>2, Zenon DEF Completes, messages
<1>6. SwapOk(SignedAll(messages)).value = SignedAll(messages)
  BY SwapResults, Zenon
<1>7. ASSUME Paired(a.outputs, a.signatures, messages)
      PROVE  res = SwapOk(Fulls(all, ks))
  <2>1. PICK v : matched = SwapOk(v) /\ v \in Seq({v[i] : i \in DOMAIN v})
    BY <1>3, <1>7, SwapResults, Zenon
  <2>2. v = SignedAll(messages)
    <3>1. SwapOk(v) = SwapOk(SignedAll(messages))
      BY <1>3, <1>7, <2>1, Zenon
    <3> QED BY <3>1, <1>6, SwapResults, Zenon
  <2> QED BY <1>5, <2>1, <2>2, Zenon
<1> QED BY <1>1, <1>3, <1>4, <1>5, <1>7, Zenon DEF messages

(* A restore is exact, in every state of the invariant. *)
LEMMA RestoreExact == SwapInv => RestoreIsExact
<1> SUFFICES ASSUME SwapInv, ~job.opening
             PROVE  RestoreIsExact
  BY Zenon DEF RestoreIsExact
<1> DEFINE all == OutputsOf(job)
           ks == job.keyset
           r == answer.r
           honest == MintAnswer(Request(job).outputs, r)
           swapped == commitment_complete_swap_response(Commitment, honest, ks)
           proofs == [i \in DOMAIN swapped.value |-> swapped.value[i].proof]
           whole == Fulls(all, ks)
           effective == effective_outputs(Request(job), PreparedCommitment(Commitment, ks), ks, r)
           messages == [i \in DOMAIN effective.value |-> effective.value[i].message]
           matched == match_restore_response(answer.outputs, answer.signatures, messages)
           completed == IF ~matched.ok THEN SwapErr
                        ELSE complete_exact_signatures(matched.value, effective.value, ks)
<1>1. /\ JobOK(job) /\ answer \in Answers /\ r \in Tweaks
      /\ answer.outputs \in Seq(Messages) /\ answer.signatures \in Seq(Signatures)
      /\ ks \in Keysets
  BY AnswerParts, JobFields, Zenon DEF SwapInv, SwapTypeOK
<1>2. FromRestore
        = IF ~effective.ok THEN SwapErr
          ELSE IF answer.outputs = << >> /\ answer.signatures = << >> THEN SwapOk(<< >>)
          ELSE completed
  BY Zenon DEF FromRestore, complete_swap_restore
<1>3. all \in Seq(Outputs) /\ Distinct(all) /\ all # << >>
  BY <1>1, OutputsAre, Zenon
<1>4. effective = IF job.rerandomized # (r # NoR) THEN SwapErr ELSE SwapOk(Expected(all, r, ks))
  BY <1>1, EffectiveIs, Zenon DEF Commitment
<1> SUFFICES
      /\ Range(faults) \subseteq {"pairs_reordered"} => FromRestore = SwapOk(proofs)
      /\ FromRestore.ok =>
            IF answer.outputs = << >> THEN FromRestore.value = << >>
            ELSE FromRestore.value = proofs
  BY Zenon DEF RestoreIsExact
<1>5. CASE ~InMode(job, r)
  <2>1. effective = SwapErr
    BY <1>4, <1>5, Zenon DEF InMode
  <2> HIDE DEF effective, completed
  <2>2. FromRestore = SwapErr /\ ~FromRestore.ok
    BY <1>2, <2>1, SwapResults, Zenon
  <2>3. ~(Range(faults) \subseteq {"pairs_reordered"})
    BY <1>5, Zenon DEF SwapInv, Intact
  <2> QED BY <2>2, <2>3, Zenon
<1>6. CASE InMode(job, r)
  <2>1. proofs = whole
    <3>1. honest.r = r /\ honest.signatures = SignedAll(Blinded(all, r, ks)) /\ honest \in Answers
      BY <1>1, AnswerType, Zenon
    <3> HIDE DEF honest
    <3>2. honest.signatures \in Seq(Signatures)
      BY <3>1, Zenon DEF Answers
    <3>3. swapped = SwapOk(Labelled(job))
      BY <1>1, <1>6, <3>1, <3>2, SettlementIs, Zenon DEF Commitment
    <3> HIDE DEF swapped
    <3>4. swapped.value = Labelled(job)
      BY <3>3, SwapResults, Zenon
    <3> QED BY <3>4, LabelledProofs, Zenon
  <2> HIDE DEF proofs
  <2>2. effective = SwapOk(Expected(all, r, ks))
    BY <1>4, <1>6, Zenon DEF InMode
  <2>3. effective.ok = TRUE /\ effective.value = Expected(all, r, ks)
    BY <2>2, SwapResults, Zenon
  <2>4. messages = Blinded(all, r, ks)
    BY <2>3, ExpectedMessages, Zenon
  <2> HIDE DEF effective, messages, all
  <2>5. Restored(answer, all, r, ks, completed)
    BY <2>3, <2>4, Zenon DEF Restored
  <2> HIDE DEF completed
  <2>6. /\ completed = SwapErr \/ (completed = SwapOk(whole) /\ Len(answer.outputs) = Len(all))
        /\ Paired(answer.outputs, answer.signatures, Blinded(all, r, ks)) =>
              completed = SwapOk(whole)
    BY <1>1, <1>3, <2>5, RestoredWhole, Zenon
  <2>7. Len(answer.outputs) = Len(all) => answer.outputs # << >>
    BY <1>1, <1>3
  <2>8. Range(faults) \subseteq {"pairs_reordered"} => FromRestore = SwapOk(proofs)
    <3> SUFFICES ASSUME Range(faults) \subseteq {"pairs_reordered"}
                 PROVE  FromRestore = SwapOk(proofs)
      OBVIOUS
    <3>1. Paired(answer.outputs, answer.signatures, Blinded(all, r, ks))
      BY Zenon DEF SwapInv, Intact, all
    <3>2. answer.outputs # << >>
      BY <2>6, <2>7, <3>1, SwapResults, Zenon
    <3> QED BY <1>2, <2>1, <2>3, <2>6, <3>1, <3>2, Zenon
  <2>9. ASSUME FromRestore.ok
        PROVE  IF answer.outputs = << >> THEN FromRestore.value = << >>
               ELSE FromRestore.value = proofs
    <3>1. CASE answer.outputs = << >> /\ answer.signatures = << >>
      BY <1>2, <2>3, <3>1, SwapResults, Zenon
    <3>2. CASE ~(answer.outputs = << >> /\ answer.signatures = << >>)
      <4>1. FromRestore = completed /\ completed # SwapErr
        BY <1>2, <2>3, <2>9, <3>2, SwapResults, Zenon
      <4>2. completed = SwapOk(whole) /\ answer.outputs # << >>
        BY <2>6, <2>7, <4>1, Zenon
      <4> QED BY <2>1, <4>1, <4>2, SwapResults, Zenon
    <3> QED BY <3>1, <3>2, Zenon
  <2> QED BY <2>8, <2>9, Zenon
<1> QED BY <1>5, <1>6, Zenon

(* However the mint orders the pairs of a restore, complete_swap_restore    *)
(* yields the proofs of the swap response; of anything else it yields       *)
(* those proofs, absence for an empty answer, or an error.                  *)
THEOREM RestoreAlwaysExact == SwapSpec => []RestoreIsExact
<1> QED BY RestoreExact, SwapInvariant, PTL

-----------------------------------------------------------------------------
(* Openings. *)

(* The signatures on a list. *)
LEMMA SignedAre ==
  ASSUME NEW m \in Seq(Messages)
  PROVE  /\ SignedAll(m) \in Seq({Signed(x) : x \in Messages}) /\ Len(SignedAll(m)) = Len(m)
         /\ DOMAIN SignedAll(m) = 1..Len(m)
         /\ \A i \in 1..Len(m) : SignedAll(m)[i] = Signed(m[i])
<1>1. DOMAIN m = 1..Len(m) /\ Len(m) \in Nat /\ \A i \in 1..Len(m) : m[i] \in Messages
  OBVIOUS
<1>2. SignedAll(m) = [i \in 1..Len(m) |-> Signed(m[i])]
  BY <1>1, Zenon DEF SignedAll
<1>3. SignedAll(m) \in [1..Len(m) -> {Signed(x) : x \in Messages}]
  BY <1>1, <1>2, Zenon
<1>4. \A f, T : f \in [1..Len(m) -> T] =>
                    f \in Seq(T) /\ Len(f) = Len(m) /\ DOMAIN f = 1..Len(m)
  BY <1>1
<1> QED BY <1>2, <1>3, <1>4, Zenon

(* The mint's signatures on two lists. *)
LEMMA SignedBoth ==
  ASSUME NEW a \in Seq(Messages), NEW b \in Seq(Messages)
  PROVE  SignedAll(a \o b) = SignedAll(a) \o SignedAll(b)
<1> DEFINE u == a \o b
           S == {Signed(x) : x \in Messages}
<1>1. /\ u \in Seq(Messages) /\ Len(u) = Len(a) + Len(b)
      /\ \A i \in 1..Len(a) : u[i] = a[i] /\ i \in 1..Len(u)
      /\ \A i \in 1..Len(b) : u[Len(a) + i] = b[i] /\ Len(a) + i \in 1..Len(u)
  OBVIOUS
<1> HIDE DEF u
<1>2. /\ SignedAll(a) \in Seq(S) /\ SignedAll(b) \in Seq(S) /\ SignedAll(u) \in Seq(S)
      /\ Len(SignedAll(a)) = Len(a) /\ Len(SignedAll(b)) = Len(b)
      /\ Len(SignedAll(u)) = Len(a) + Len(b)
      /\ \A i \in 1..Len(a) : SignedAll(a)[i] = Signed(a[i])
      /\ \A i \in 1..Len(b) : SignedAll(b)[i] = Signed(b[i])
      /\ \A i \in 1..Len(u) : SignedAll(u)[i] = Signed(u[i])
  BY <1>1, SignedAre, Zenon
<1> HIDE DEF S
<1>3. /\ \A i \in 1..Len(a) : SignedAll(u)[i] = SignedAll(a)[i]
      /\ \A i \in 1..Len(b) : SignedAll(u)[Len(a) + i] = SignedAll(b)[i]
  BY <1>1, <1>2, Zenon
<1>4. SignedAll(u) = SignedAll(a) \o SignedAll(b)
  <2> DEFINE x == SignedAll(a)
             y == SignedAll(b)
             z == SignedAll(u)
  <2> HIDE DEF x, y, z
  <2>1. /\ x \in Seq(S) /\ y \in Seq(S) /\ z \in Seq(S)
        /\ Len(z) = Len(x) + Len(y)
        /\ \A i \in 1..Len(x) : z[i] = x[i]
        /\ \A i \in 1..Len(y) : z[Len(x) + i] = y[i]
    BY <1>2, <1>3 DEF x, y, z
  <2> QED BY <2>1, JoinIs, Zenon DEF x, y, z
<1> QED BY <1>4, Zenon DEF u

(* A list of messages comes back with the mint's signatures on it. *)
LEMMA PairedInOrder ==
  ASSUME NEW m \in Seq(Messages), Distinct(m)
  PROVE  Paired(m, SignedAll(m), m)
<1>1. DOMAIN m = 1..Len(m)
  OBVIOUS
<1> QED BY <1>1, SignedAre, Zenon DEF Paired

(* What a list of proofs is worth is what its outputs are worth. *)
LEMMA FullsTotal ==
  ASSUME NEW s \in Seq(Outputs), NEW ks
  PROVE  Total(Fulls(s, ks)) = Total(s)
<1>1. DOMAIN s = 1..Len(s)
  OBVIOUS
<1>2. ASSUME NEW i \in DOMAIN s
      PROVE  Fulls(s, ks)[i].amount = s[i].amount
  <2>1. Fulls(s, ks)[i] = Full(s[i], ks)
    BY <1>1, FullsAre, Zenon
  <2> QED BY <2>1 DEF Full
<1>3. [i \in DOMAIN Fulls(s, ks) |-> Fulls(s, ks)[i].amount] = [i \in DOMAIN s |-> s[i].amount]
  <2>1. DOMAIN Fulls(s, ks) = DOMAIN s
    BY <1>1, FullsAre, Zenon
  <2> QED BY <1>2, <2>1, Zenon
<1> QED BY <1>3, Zenon DEF Total

(* The deterministic outputs of some amounts are worth those amounts. *)
LEMMA SecretsTotal ==
  ASSUME NEW c \in Contexts, NEW s \in Seq(Nat)
  PROVE  Total(get_secrets_with_blinding(c, s)) = SumOf(s)
<1> DEFINE o == get_secrets_with_blinding(c, s)
           t == [i \in DOMAIN o |-> o[i].amount]
<1>1. /\ o \in Seq(Outputs) /\ Len(o) = Len(s)
      /\ \A i \in 1..Len(s) : o[i].amount = s[Len(s) - i + 1] /\ Len(s) - i + 1 \in 1..Len(s)
  BY SecretsAre, SMTT(30) DEF AreSecrets
<1> HIDE DEF o
<1>2. DOMAIN o = 1..Len(s) /\ Len(s) \in Nat
  BY <1>1
<1>3. t = [i \in 1..Len(s) |-> s[Len(s) - i + 1]]
  BY <1>1, <1>2
<1> HIDE DEF t
<1>4. \A i \in 1..Len(s) : s[Len(s) - i + 1] \in Nat
  BY <1>1
<1>5. t \in Seq(Nat) /\ Len(t) = Len(s) /\ \A i \in 1..Len(s) : t[i] = s[Len(s) - i + 1]
  BY <1>2, <1>3, <1>4
<1>6. SumOf(t) = SumOf(s)
  BY <1>5, SumOfReverse, Zenon
<1> QED BY <1>6, Zenon DEF Total, t, o

(* The terms of an opening. *)
Terms(j) == [keyset |-> j.keyset, id_matches_keys |-> TRUE, amounts |-> j.first]

(* Of the proofs of lists of outputs, the receiver takes those of the       *)
(* funding outputs, in their order.                                         *)
LEMMA VerifyIs ==
  ASSUME NEW j, JobOK(j), j.opening, NEW o \in Seq(Outputs)
  PROVE  verify_valid_channel(Fulls(o, j.keyset), Terms(j))
            <=> Fulls(o, j.keyset) = Fulls(FundingOf(j), j.keyset)
<1> DEFINE ks == j.keyset
           F == FundingOf(j)
           p == Fulls(o, ks)
<1>1. F \in Seq(Outputs)
  BY OutputsAre, Zenon
<1>2. /\ Terms(j).keyset = ks /\ Terms(j).id_matches_keys = TRUE
      /\ get_secrets_with_blinding("funding", Terms(j).amounts) = F
  <2>1. Terms(j).keyset = ks /\ Terms(j).id_matches_keys = TRUE /\ Terms(j).amounts = j.first
    BY DEF Terms
  <2> QED BY <2>1, Zenon DEF FundingOf
<1>3. ASSUME NEW q
      PROVE  verify_valid_channel(q, Terms(j)) <=>
                /\ \A i \in DOMAIN q :
                      /\ ~q[i].spent_metadata /\ q[i].spendable /\ q[i].keyset = ks
                      /\ i \in DOMAIN F => q[i].r = F[i]
                /\ Total(q) = Total(F) /\ Len(q) = Len(F)
                /\ \A i \in DOMAIN q : q[i].secret = F[i] /\ q[i].amount = F[i].amount
  <2> HIDE DEF ks, F
  <2> QED BY <1>2, Zenon DEF verify_valid_channel
<1> HIDE DEF F, ks
<1>4. /\ DOMAIN p = 1..Len(o) /\ Len(p) = Len(o)
      /\ \A i \in 1..Len(o) : p[i] = Full(o[i], ks)
  BY FullsAre, Zenon
<1>5. \A x : /\ Full(x, ks).secret = x /\ Full(x, ks).amount = x.amount /\ Full(x, ks).keyset = ks
             /\ Full(x, ks).r = x /\ Full(x, ks).spent_metadata = FALSE
             /\ Full(x, ks).spendable = TRUE
  BY DEF Full
<1>6. ASSUME verify_valid_channel(p, Terms(j))
      PROVE  p = Fulls(F, ks)
  <2>1. Len(p) = Len(F) /\ \A i \in DOMAIN p : p[i].secret = F[i]
    BY <1>3, <1>6, Zenon
  <2>2. Len(o) = Len(F)
    BY <1>4, <2>1, Zenon
  <2>3. ASSUME NEW i \in 1..Len(o)
        PROVE  o[i] = F[i]
    <3>1. p[i] = Full(o[i], ks) /\ p[i].secret = F[i]
      BY <1>4, <2>1, Zenon
    <3> HIDE DEF p
    <3> QED BY <1>5, <3>1
  <2>4. o = F
    BY <1>1, <2>2, <2>3
  <2> QED BY <2>4, Zenon
<1>7. verify_valid_channel(Fulls(F, ks), Terms(j))
  <2> DEFINE q == Fulls(F, ks)
  <2>1. /\ DOMAIN q = 1..Len(F) /\ Len(q) = Len(F)
        /\ \A i \in 1..Len(F) : q[i] = Full(F[i], ks)
    BY <1>1, FullsAre, Zenon
  <2>2. Total(q) = Total(F)
    BY <1>1, FullsTotal, Zenon
  <2> HIDE DEF q
  <2>3. ASSUME NEW i \in DOMAIN q
        PROVE  /\ ~q[i].spent_metadata /\ q[i].spendable /\ q[i].keyset = ks
               /\ q[i].r = F[i] /\ q[i].secret = F[i] /\ q[i].amount = F[i].amount
    <3>1. q[i] = Full(F[i], ks)
      BY <2>1, Zenon
    <3> QED BY <1>5, <3>1
  <2> QED BY <1>3, <2>1, <2>2, <2>3, Zenon DEF q
<1>8. p = Fulls(F, ks) => verify_valid_channel(p, Terms(j))
  BY <1>7, Zenon
<1> QED BY <1>6, <1>8, Zenon DEF F, ks

(* The channel of the funding proofs is established. *)
LEMMA EstablishedIs ==
  ASSUME NEW j, JobOK(j), j.opening
  PROVE  EstablishedChannel_new(Fulls(FundingOf(j), j.keyset), Terms(j))
<1> DEFINE F == FundingOf(j)
           ks == j.keyset
<1>1. F \in Seq(Outputs) /\ j.first \in Seq(Nat)
  BY OutputsAre, JobFields, Zenon
<1>2. Total(Fulls(F, ks)) = Total(F)
  BY <1>1, FullsTotal, Zenon
<1>3. Total(F) = SumOf(j.first)
  <2>1. "funding" \in Contexts
    BY DEF Contexts
  <2> QED BY <1>1, <2>1, SecretsTotal, Zenon DEF FundingOf
<1>4. Terms(j).keyset = ks /\ Terms(j).amounts = j.first
  BY DEF Terms
<1> HIDE DEF F, ks
<1>5. ASSUME NEW i \in DOMAIN Fulls(F, ks)
      PROVE  Fulls(F, ks)[i].keyset = ks
  <2>1. Fulls(F, ks)[i] = Full(F[i], ks)
    BY <1>1, FullsAre, Zenon
  <2> QED BY <2>1 DEF Full
<1> QED BY <1>2, <1>3, <1>4, <1>5, Zenon DEF EstablishedChannel_new, F, ks

(* A role's restore that comes back in order is completed. *)
LEMMA RoleRestored ==
  ASSUME NEW all \in Seq(Outputs), Distinct(all), NEW ks \in Keysets, NEW a,
         a.outputs = Blinded(all, NoR, ks), a.signatures = SignedAll(Blinded(all, NoR, ks))
  PROVE  complete_role_restore(a, all, ks) = SwapOk(Fulls(all, ks))
<1> DEFINE m == Blinded(all, NoR, ks)
<1>1. NoR \in Tweaks
  BY DEF Tweaks
<1>2. m \in Seq(Messages) /\ Distinct(m)
  BY <1>1, BlindedIs, Zenon
<1>3. Paired(a.outputs, a.signatures, m)
  BY <1>2, PairedInOrder, Zenon
<1>4. parse_prepared_outputs(all, ks) = Expected(all, NoR, ks)
  BY Zenon DEF parse_prepared_outputs, Expected
<1>5. Restored(a, all, NoR, ks, complete_role_restore(a, all, ks))
  BY <1>4, ExpectedMessages, Zenon DEF Restored, complete_role_restore
<1>6. a.outputs \in Seq(Messages)
  BY <1>2, Zenon
<1> QED BY <1>1, <1>3, <1>5, <1>6, RestoredWhole, Zenon

(* The funding and the change of an answer that arrived as it was sent. *)
LEMMA AnswerCut ==
  ASSUME SwapInv, job.opening, faults = << >>
  PROVE  LET n == Len(job.first)
             m == Len(answer.outputs)
             F == Blinded(FundingOf(job), NoR, job.keyset)
             C == Blinded(ChangeOf(job), NoR, job.keyset)
         IN  /\ SubSeq(answer.outputs, 1, n) = F /\ SubSeq(answer.signatures, 1, n) = SignedAll(F)
             /\ SubSeq(answer.outputs, n + 1, m) = C
             /\ SubSeq(answer.signatures, n + 1, m) = SignedAll(C)
<1> DEFINE n == Len(job.first)
           F == Blinded(FundingOf(job), NoR, job.keyset)
           C == Blinded(ChangeOf(job), NoR, job.keyset)
<1>1. JobOK(job) /\ job.keyset \in Keysets /\ ~job.rerandomized
  BY JobFields, Zenon DEF SwapInv, SwapTypeOK, JobOK
<1>2. /\ FundingOf(job) \in Seq(Outputs) /\ Len(FundingOf(job)) = n
      /\ ChangeOf(job) \in Seq(Outputs) /\ OutputsOf(job) = FundingOf(job) \o ChangeOf(job)
  BY <1>1, OutputsAre, Zenon
<1>3. answer.r = NoR
  <2>1. Range(faults) \subseteq {"pairs_reordered"}
    <3>1. DOMAIN faults = {}
      OBVIOUS
    <3> QED BY <3>1, Zenon DEF Range
  <2>2. InMode(job, answer.r)
    BY <2>1, Zenon DEF SwapInv, Intact
  <2> QED BY <1>1, <2>2, Zenon DEF InMode
<1>4. answer.outputs = Blinded(OutputsOf(job), NoR, job.keyset)
      /\ answer.signatures = SignedAll(answer.outputs)
  <2>1. /\ answer.outputs = Blinded(OutputsOf(job), answer.r, job.keyset)
        /\ answer.signatures = SignedAll(answer.outputs)
    BY Zenon DEF SwapInv, Untouched
  <2> QED BY <1>3, <2>1
<1>5. answer.outputs = F \o C
  <2>1. F \o C = Blinded(FundingOf(job) \o ChangeOf(job), NoR, job.keyset)
    BY <1>1, <1>2, BlindedBoth, Zenon
  <2>2. answer.outputs = Blinded(FundingOf(job) \o ChangeOf(job), NoR, job.keyset)
    BY <1>2, <1>4, Zenon
  <2> HIDE DEF F, C
  <2> QED BY <2>1, <2>2, Zenon
<1>6. F \in Seq(Messages) /\ Len(F) = n /\ C \in Seq(Messages)
  <2>1. NoR \in Tweaks
    BY DEF Tweaks
  <2> QED BY <1>1, <1>2, <2>1, BlindedIs, ZenonT(30)
<1> HIDE DEF F, C, n
<1>7. answer.signatures = SignedAll(F) \o SignedAll(C)
  <2>1. F \in Seq(Messages) /\ C \in Seq(Messages)
    BY <1>6
  <2>2. SignedAll(F \o C) = SignedAll(F) \o SignedAll(C)
    BY <2>1, SignedBoth, Zenon
  <2> QED BY <1>4, <1>5, <2>2, Zenon
<1>8. Len(answer.outputs) = n + Len(C)
  BY <1>5, <1>6
<1>9. SubSeq(F \o C, 1, Len(F)) = F /\ SubSeq(F \o C, Len(F) + 1, Len(F) + Len(C)) = C
  <2>1. F \in Seq(Messages) /\ C \in Seq(Messages)
    BY <1>6
  <2> QED BY <2>1, PartsAre, Zenon
<1> DEFINE G == SignedAll(F)
           H == SignedAll(C)
           S == {Signed(x) : x \in Messages}
<1>10. /\ G \in Seq(S) /\ Len(G) = Len(F)
       /\ H \in Seq(S) /\ Len(H) = Len(C)
  BY <1>6, SignedAre, Zenon
<1> HIDE DEF S, G, H
<1>11. SubSeq(G \o H, 1, Len(G)) = G /\ SubSeq(G \o H, Len(G) + 1, Len(G) + Len(H)) = H
  <2>1. G \in Seq(S) /\ H \in Seq(S)
    BY <1>10
  <2> QED BY <2>1, PartsAre, Zenon
<1>12. SubSeq(G \o H, 1, n) = G /\ SubSeq(G \o H, n + 1, n + Len(C)) = H
  <2>1. Len(G) = n /\ Len(H) = Len(C)
    BY <1>6, <1>10, Zenon
  <2> QED BY <1>11, <2>1
<1> QED BY <1>5, <1>6, <1>7, <1>8, <1>9, <1>12, Zenon DEF F, C, n, G, H

(* The opening and the receiver agree, in every state of the invariant. *)
LEMMA OpeningChecked == SwapInv => OpeningVerifies
<1> SUFFICES ASSUME SwapInv, job.opening, FromOpening.ok
             PROVE  OpeningVerifies
  BY Zenon DEF OpeningVerifies
<1> DEFINE n == Len(job.first)
           m == Len(answer.outputs)
           ks == job.keyset
           cut(from, to) == [outputs |-> SubSeq(answer.outputs, from, to),
                             signatures |-> SubSeq(answer.signatures, from, to)]
           params == [keyset |-> job.keyset, id_matches_keys |-> TRUE, amounts |-> job.first]
           proofs == FromOpening.value
           F == FundingOf(job)
           C == ChangeOf(job)
           f == Fulls(F, ks)
           g == Fulls(C, ks)
<1>1. JobOK(job) /\ answer.signatures \in Seq(Signatures)
  BY AnswerParts, Zenon DEF SwapInv, SwapTypeOK
<1>2. ks \in Keysets
  BY <1>1, JobFields, Zenon
<1>3. proofs.funding = f /\ proofs.change = g
  <2>1. FromOpening = SwapErr \/ FromOpening = SwapOk([funding |-> f, change |-> g])
    BY <1>1, OpeningIs, Zenon DEF FromOpening
  <2>2. proofs = [funding |-> f, change |-> g]
    BY <2>1, SwapResults, Zenon
  <2> QED BY <2>2
<1>4. F \in Seq(Outputs) /\ Distinct(F) /\ C \in Seq(Outputs) /\ Distinct(C)
  BY <1>1, OutputsAre, Zenon
<1>5. params = Terms(job)
  BY Zenon DEF Terms
<1> HIDE DEF params, proofs
<1>6. ASSUME NEW p \in {proofs.funding, Reverse(proofs.funding), proofs.change,
                        proofs.funding \o proofs.change, proofs.funding \o proofs.funding}
      PROVE  verify_valid_channel(p, params) <=> p = proofs.funding
  <2>1. \E o \in Seq(Outputs) : p = Fulls(o, ks)
    <3>1. Reverse(F) \in Seq(Outputs) /\ Reverse(f) = Fulls(Reverse(F), ks)
      BY <1>4, ReverseIs, FullsBoth, Zenon
    <3>2. F \o C \in Seq(Outputs) /\ F \o F \in Seq(Outputs)
      <4> HIDE DEF F, C
      <4> QED BY <1>4
    <3>3. f \o g = Fulls(F \o C, ks) /\ f \o f = Fulls(F \o F, ks)
      BY <1>4, FullsBoth, Zenon
    <3>4. p \in {f, Reverse(f), g, f \o g, f \o f}
      <4> HIDE DEF f, g
      <4> QED BY <1>3, Zenon
    <3> QED BY <1>4, <3>1, <3>2, <3>3, <3>4, Zenon
  <2>2. PICK o \in Seq(Outputs) : p = Fulls(o, ks)
    BY <2>1
  <2> QED BY <1>1, <1>3, <1>5, <2>2, VerifyIs, Zenon
<1>7. EstablishedChannel_new(proofs.funding, params)
  BY <1>1, <1>3, <1>5, EstablishedIs, Zenon
<1>8. ASSUME faults = << >>
      PROVE  /\ complete_funding_restore(cut(1, n), job.first, ks) = SwapOk(proofs.funding)
             /\ complete_plain_change_restore(cut(n + 1, m), C, ks) = SwapOk(proofs.change)
  <2> DEFINE mf == Blinded(F, NoR, ks)
             mc == Blinded(C, NoR, ks)
             a == cut(1, n)
             b == cut(n + 1, m)
  <2>1. /\ SubSeq(answer.outputs, 1, n) = mf /\ SubSeq(answer.signatures, 1, n) = SignedAll(mf)
        /\ SubSeq(answer.outputs, n + 1, m) = mc
        /\ SubSeq(answer.signatures, n + 1, m) = SignedAll(mc)
    BY <1>8, AnswerCut, Zenon
  <2> HIDE DEF n, m, mf, mc, F, C
  <2>2. a = [outputs |-> mf, signatures |-> SignedAll(mf)]
        /\ b = [outputs |-> mc, signatures |-> SignedAll(mc)]
    BY <2>1, Zenon
  <2> HIDE DEF a, b
  <2>3. /\ a.outputs = mf /\ a.signatures = SignedAll(mf)
        /\ b.outputs = mc /\ b.signatures = SignedAll(mc)
    BY <2>2
  <2>4. complete_role_restore(a, F, ks) = SwapOk(f)
        /\ complete_role_restore(b, C, ks) = SwapOk(g)
    BY <1>2, <1>4, <2>3, RoleRestored, Zenon DEF mf, mc
  <2>5. get_secrets_with_blinding("funding", job.first) = F
    BY Zenon DEF F, FundingOf
  <2>6. complete_funding_restore(a, job.first, ks) = complete_role_restore(a, F, ks)
        /\ complete_plain_change_restore(b, C, ks) = complete_role_restore(b, C, ks)
    BY <2>5, Zenon DEF complete_funding_restore, complete_plain_change_restore
  <2>7. /\ complete_funding_restore(a, job.first, ks) = SwapOk(proofs.funding)
        /\ complete_plain_change_restore(b, C, ks) = SwapOk(proofs.change)
    BY <1>3, <2>4, <2>6, Zenon
  <2> QED BY <2>7, Zenon DEF a, b
<1> HIDE DEF cut
<1> QED BY <1>6, <1>7, <1>8, Zenon DEF OpeningVerifies, params, proofs, cut

(* Of all the proofs of an opening, verify_valid_channel takes exactly the  *)
(* funding proofs in their order; the channel they open is established;     *)
(* and the two restores of an opening recover the proofs of its response.   *)
THEOREM OpeningAlwaysVerifies == SwapSpec => []OpeningVerifies
<1> QED BY OpeningChecked, SwapInvariant, PTL

-----------------------------------------------------------------------------
(* Discovery. *)

(* An index is smaller than the number of outputs. *)
LEMMA IndexBounded ==
  ASSUME NEW c \in Contexts, NEW s \in Seq(Nat), NEW i \in 1..Len(s)
  PROVE  get_secrets_with_blinding(c, s)[i].index <= Len(s)
<1> DEFINE t == Reverse(s)
<1>1. t \in Seq(Nat) /\ Len(t) = Len(s) /\ DOMAIN t = 1..Len(s)
  BY ReverseIs
<1>2. get_secrets_with_blinding(c, s)[i]
        = [context |-> c, amount |-> t[i], index |-> Cardinality(Earlier(t, i))]
  BY <1>1, Zenon DEF get_secrets_with_blinding, Earlier
<1> HIDE DEF t
<1>3. get_secrets_with_blinding(c, s)[i].index = Cardinality(Earlier(t, i))
  BY <1>2
<1>4. i \in Nat /\ i - 1 \in Int /\ 1 \in Int /\ i <= Len(s) /\ Len(s) \in Nat /\ i >= 1
  OBVIOUS
<1>5. IsFiniteSet(1..(i - 1)) /\ Cardinality(1..(i - 1)) <= i - 1
  <2>1. /\ IsFiniteSet(1..(i - 1))
        /\ Cardinality(1..(i - 1)) = IF 1 > i - 1 THEN 0 ELSE (i - 1) - 1 + 1
    BY <1>4, FS_Interval, Zenon
  <2> QED BY <1>4, <2>1
<1>6. Earlier(t, i) \subseteq 1..(i - 1)
  BY DEF Earlier
<1>7. Cardinality(Earlier(t, i)) <= Cardinality(1..(i - 1))
  BY <1>5, <1>6, FS_Subset
<1>8. Cardinality(Earlier(t, i)) \in Nat /\ Cardinality(1..(i - 1)) \in Nat
  BY <1>1, <1>5, EarlierIs, FS_CardinalityType
<1> QED BY <1>3, <1>4, <1>5, <1>7, <1>8

(* The point of an output of the sender. *)
SenderPoint(a, n, r) == [output |-> [context |-> "sender", amount |-> a, index |-> n], r |-> r]

(* Asking for an amount from an index on. *)
Asks(f, D, a, r) ==
    f = [n \in Nat |-> IF SenderPoint(a, n, r) \notin D THEN {}
                       ELSE {SenderPoint(a, n, r)} \cup f[n + 1]]

AskedFor(D, a, r) == (CHOOSE f : Asks(f, D, a, r))[0]

(* The points of an amount that the mint knows. *)
KnownOf(D, a, r) == {p \in D : \E n \in Nat : p = SenderPoint(a, n, r)}

(* The indices of an amount that the mint knows are the first ones. *)
Dense(D, a, r) ==
    /\ \A n \in Nat : SenderPoint(a, n + 1, r) \in D => SenderPoint(a, n, r) \in D
    /\ \E b \in Nat : \A n \in Nat : SenderPoint(a, n, r) \in D => n <= b

(* From an index that it does not know, the mint knows none. *)
LEMMA NoneAfter ==
  ASSUME NEW D, NEW a, NEW r, Dense(D, a, r), NEW n \in Nat, SenderPoint(a, n, r) \notin D
  PROVE  \A k \in Nat : n <= k => SenderPoint(a, k, r) \notin D
<1> DEFINE T == {k \in Nat : n <= k /\ SenderPoint(a, k, r) \in D}
<1> SUFFICES ASSUME T # {}
             PROVE  FALSE
  BY Zenon
<1>1. T \in SUBSET Nat
  BY Zenon
<1>2. PICK m \in T : \A k \in T : m <= k
  BY <1>1, LeastNumber, Zenon
<1>3. m \in Nat /\ n <= m /\ SenderPoint(a, m, r) \in D
  BY <1>2, Zenon
<1>4. m # n
  BY <1>3, Zenon
<1>5. m - 1 \in Nat /\ n <= m - 1 /\ (m - 1) + 1 = m /\ ~(m <= m - 1)
  BY <1>3, <1>4
<1>6. SenderPoint(a, (m - 1) + 1, r) \in D
  BY <1>3, <1>5, Zenon
<1>7. SenderPoint(a, m - 1, r) \in D
  BY <1>5, <1>6, Zenon DEF Dense
<1>8. m - 1 \in T
  BY <1>5, <1>7, Zenon
<1> QED BY <1>2, <1>5, <1>8, Zenon

(* Asking from index 0 on finds all the outputs of that amount. *)
LEMMA AsksFind ==
  ASSUME NEW D, NEW a, NEW r, Dense(D, a, r)
  PROVE  AskedFor(D, a, r) = KnownOf(D, a, r)
<1> DEFINE rest(n) == {p \in D : \E k \in Nat : n <= k /\ p = SenderPoint(a, k, r)}
           g == [n \in Nat |-> rest(n)]
<1>1. ASSUME NEW n \in Nat
      PROVE  rest(n) = IF SenderPoint(a, n, r) \notin D THEN {}
                       ELSE {SenderPoint(a, n, r)} \cup rest(n + 1)
  <2>1. CASE SenderPoint(a, n, r) \notin D
    <3>1. \A k \in Nat : n <= k => SenderPoint(a, k, r) \notin D
      BY <2>1, NoneAfter, Zenon
    <3> QED BY <2>1, <3>1, Zenon
  <2>2. CASE SenderPoint(a, n, r) \in D
    <3>1. \A k \in Nat : n <= k <=> (k = n \/ n + 1 <= k)
      OBVIOUS
    <3>2. \A p : p \in rest(n) <=> p \in {SenderPoint(a, n, r)} \cup rest(n + 1)
      BY <2>2, <3>1, Zenon
    <3> HIDE DEF rest
    <3>3. rest(n) = {SenderPoint(a, n, r)} \cup rest(n + 1)
      BY <3>2, Zenon
    <3> QED BY <2>2, <3>3, Zenon
  <2> QED BY <2>1, <2>2, Zenon
<1> HIDE DEF rest
<1>2. \A n \in Nat : n + 1 \in Nat
  OBVIOUS
<1>3. \A n \in Nat : g[n] = rest(n) /\ g[n + 1] = rest(n + 1)
  BY <1>2, Zenon
<1>4. Asks(g, D, a, r)
  <2>1. \A n \in Nat : rest(n) = IF SenderPoint(a, n, r) \notin D THEN {}
                                 ELSE {SenderPoint(a, n, r)} \cup g[n + 1]
    BY <1>1, <1>3
  <2> DEFINE e(n) == IF SenderPoint(a, n, r) \notin D THEN {}
                     ELSE {SenderPoint(a, n, r)} \cup g[n + 1]
  <2>2. \A n \in Nat : rest(n) = e(n)
    BY <2>1, Zenon
  <2> HIDE DEF e
  <2>3. g = [n \in Nat |-> e(n)]
    BY <2>2, Zenon
  <2> QED BY <2>3, Zenon DEF Asks, e
<1> DEFINE f == CHOOSE h : Asks(h, D, a, r)
<1>5. Asks(f, D, a, r)
  BY <1>4, Zenon
<1> HIDE DEF f, g
<1>6. \A n \in Nat : f[n] = IF SenderPoint(a, n, r) \notin D THEN {}
                            ELSE {SenderPoint(a, n, r)} \cup f[n + 1]
  BY <1>5, Zenon DEF Asks
<1> DEFINE T == {n \in Nat : f[n] # rest(n)}
<1>7. T = {}
  <2> SUFFICES ASSUME T # {}
               PROVE  FALSE
    OBVIOUS
  <2>1. PICK b \in Nat : \A n \in Nat : SenderPoint(a, n, r) \in D => n <= b
    BY Zenon DEF Dense
  <2>2. ASSUME NEW n \in T
        PROVE  n \in Nat /\ SenderPoint(a, n, r) \in D /\ f[n + 1] # rest(n + 1)
    <3>1. n \in Nat /\ f[n] # rest(n)
      BY Zenon
    <3>2. SenderPoint(a, n, r) \in D
      BY <1>1, <1>6, <3>1, Zenon
    <3>3. /\ f[n] = {SenderPoint(a, n, r)} \cup f[n + 1]
          /\ rest(n) = {SenderPoint(a, n, r)} \cup rest(n + 1)
      BY <1>1, <1>6, <3>1, <3>2, Zenon
    <3> QED BY <3>1, <3>2, <3>3, Zenon
  <2>3. \A n \in T : n <= b
    BY <2>1, <2>2, Zenon
  <2>4. PICK m \in T : \A n \in T : n <= m
    <3>1. T \in SUBSET Nat
      BY Zenon
    <3> HIDE DEF T
    <3> QED BY <2>3, <3>1, GreatestNumber, Zenon
  <2>5. m \in Nat /\ m + 1 \in T
    BY <1>2, <2>2, Zenon
  <2>6. ~(m + 1 <= m)
    BY <2>5
  <2> QED BY <2>4, <2>5, <2>6, Zenon
<1>8. f[0] = rest(0)
  <2>1. 0 \in Nat
    OBVIOUS
  <2> QED BY <1>7, <2>1, Zenon
<1>9. rest(0) = KnownOf(D, a, r)
  <2>1. \A k \in Nat : 0 <= k
    OBVIOUS
  <2> QED BY <2>1, Zenon DEF rest, KnownOf
<1> QED BY <1>8, <1>9, Zenon DEF f, AskedFor

(* The points of some amounts that the mint knows, and what a discovery     *)
(* that finds them returns.                                                 *)
AllKnown(D, amounts, r) ==
    {p \in D : \E a \in amounts : \E n \in Nat : p = SenderPoint(a, n, r)}

Discovered(issued, known, keysets) ==
    IF \E p \in known : issued[p] \notin keysets THEN SwapErr
    ELSE SwapOk({p.output : p \in known})

(* What the sender's discovery returns for what the mint knows. *)
LEMMA DiscoveryIs ==
  ASSUME NEW issued, NEW amounts, NEW r, NEW keysets,
         \A a \in amounts : Dense(DOMAIN issued, a, r)
  PROVE  restore_sender_proofs(issued, amounts, r, keysets)
            = Discovered(issued, AllKnown(DOMAIN issued, amounts, r), keysets)
<1> DEFINE D == DOMAIN issued
           all == UNION {AskedFor(D, a, r) : a \in amounts}
           known == AllKnown(D, amounts, r)
<1>1. restore_sender_proofs(issued, amounts, r, keysets)
        = Discovered(issued, all, keysets)
  BY DEF Discovered, restore_sender_proofs, AskedFor, Asks, SenderPoint
<1>2. ASSUME NEW a \in amounts
      PROVE  AskedFor(D, a, r) = KnownOf(D, a, r)
  <2>1. Dense(D, a, r)
    BY Zenon
  <2> HIDE DEF D
  <2> QED BY <2>1, AsksFind, Zenon
<1>3. \A p : p \in all <=> p \in known
  <2>1. \A p : p \in all <=> \E a \in amounts : p \in AskedFor(D, a, r)
    BY Zenon
  <2>2. ASSUME NEW a \in amounts, NEW p
        PROVE  p \in AskedFor(D, a, r) <=> p \in D /\ \E n \in Nat : p = SenderPoint(a, n, r)
    BY <1>2, Zenon DEF KnownOf
  <2>3. \A p : p \in known <=> \E a \in amounts : p \in AskedFor(D, a, r)
    BY <2>2, Zenon DEF AllKnown
  <2> HIDE DEF all, known
  <2> QED BY <2>1, <2>3, Zenon
<1>4. all = known
  <2> HIDE DEF all, known
  <2> QED BY <1>3, Zenon
<1> QED BY <1>1, <1>4, Zenon

(* The amounts that the sender asks for. *)
Denominations == UNION {Range(s) : s \in Splits}

(* The outputs of the sender: which they are, and that an index follows on  *)
(* the one before it.                                                       *)
LEMMA MineAre ==
  ASSUME NEW j, JobOK(j)
  PROVE  /\ \A o \in Range(SenderOf(j)) :
               /\ o = [context |-> "sender", amount |-> o.amount, index |-> o.index]
               /\ o.amount \in Denominations /\ o.index \in Nat /\ o.index <= Len(j.second)
         /\ \A a : \A n \in Nat :
               [context |-> "sender", amount |-> a, index |-> n + 1] \in Range(SenderOf(j))
               => [context |-> "sender", amount |-> a, index |-> n] \in Range(SenderOf(j))
<1> DEFINE T == SenderOf(j)
           s == j.second
<1>1. "sender" \in Contexts /\ s \in Seq(Nat) /\ s \in Splits
  BY JobFields, Zenon DEF Contexts
<1>2. /\ T \in Seq(Outputs) /\ Len(T) = Len(s)
      /\ \A i \in 1..Len(s) : /\ T[i].context = "sender" /\ T[i].amount = s[Len(s) - i + 1]
                             /\ Len(s) - i + 1 \in 1..Len(s)
      /\ \A i \in 1..Len(s) : T[i].index # 0 =>
            \E k \in 1..Len(s) : T[k] = [T[i] EXCEPT !.index = T[i].index - 1]
  <2>1. AreSecrets(T, "sender", s)
    BY <1>1, SecretsAre, Zenon DEF SenderOf
  <2> HIDE DEF T, s
  <2> QED BY <2>1, Zenon DEF AreSecrets
<1>3. \A i \in 1..Len(s) : T[i].index <= Len(s)
  BY <1>1, IndexBounded, Zenon DEF SenderOf
<1> HIDE DEF T, s
<1>4. DOMAIN T = 1..Len(s) /\ DOMAIN s = 1..Len(s)
  BY <1>1, <1>2
<1>5. \A o : o \in Range(T) <=> \E i \in 1..Len(s) : o = T[i]
  BY <1>4, Zenon DEF Range
<1>6. ASSUME NEW o \in Range(T)
      PROVE  /\ o = [context |-> "sender", amount |-> o.amount, index |-> o.index]
             /\ o.amount \in Denominations /\ o.index \in Nat /\ o.index <= Len(s)
  <2>1. PICK i \in 1..Len(s) : o = T[i]
    BY <1>5, Zenon
  <2>2. o \in Outputs /\ o.context = "sender" /\ o.amount = s[Len(s) - i + 1]
    BY <1>2, <1>4, <2>1
  <2>3. s[Len(s) - i + 1] \in Range(s)
    BY <1>2, <1>4, Zenon DEF Range
  <2>4. o.amount \in Denominations
    BY <1>1, <2>2, <2>3, Zenon DEF Denominations
  <2>5. o.index \in Nat /\ o = [context |-> o.context, amount |-> o.amount, index |-> o.index]
    BY <2>2 DEF Outputs
  <2>6. o.index <= Len(s)
    BY <1>3, <2>1, Zenon
  <2> QED BY <2>2, <2>4, <2>5, <2>6
<1>7. ASSUME NEW a, NEW n \in Nat,
             [context |-> "sender", amount |-> a, index |-> n + 1] \in Range(T)
      PROVE  [context |-> "sender", amount |-> a, index |-> n] \in Range(T)
  <2>1. PICK i \in 1..Len(s) : [context |-> "sender", amount |-> a, index |-> n + 1] = T[i]
    BY <1>5, <1>7, Zenon
  <2>2. T[i].index = n + 1 /\ T[i].index # 0 /\ T[i].index - 1 = n
    <3>1. T[i].index = n + 1
      BY <2>1
    <3> QED BY <3>1
  <2>3. PICK k \in 1..Len(s) : T[k] = [T[i] EXCEPT !.index = T[i].index - 1]
    BY <1>2, <2>2, Zenon
  <2>4. T[k] = [[context |-> "sender", amount |-> a, index |-> n + 1] EXCEPT !.index = n]
    BY <2>1, <2>2, <2>3
  <2>5. T[k] = [context |-> "sender", amount |-> a, index |-> n]
    BY <2>4
  <2> QED BY <1>5, <2>5, Zenon
<1> QED BY <1>6, <1>7, Zenon DEF T, s

(* The sender finds its outputs, in every state of the right type. *)
LEMMA DiscoveryFinds == SwapTypeOK => DiscoveryFindsAll
<1> SUFFICES ASSUME SwapTypeOK, ~job.opening
             PROVE  DiscoveryFindsAll
  BY Zenon DEF DiscoveryFindsAll
<1> DEFINE r == answer.r
           ks == job.keyset
           all == OutputsOf(job)
           outputs == MintAnswer(Request(job).outputs, r).outputs
           D == {outputs[i].point : i \in DOMAIN outputs}
           issued == [p \in D |-> ks]
           mine == Range(SenderOf(job))
           known == AllKnown(D, Denominations, r)
<1>1. JobOK(job) /\ r \in Tweaks /\ ks \in Keysets
  BY AnswerParts, JobFields, Zenon DEF SwapTypeOK
<1>2. all \in Seq(Outputs)
  BY <1>1, OutputsAre, Zenon
<1>3. outputs = Blinded(all, r, ks)
  BY <1>1, AnswerType, Zenon
<1>4. \A p : p \in D <=> \E o \in Range(all) : p = [output |-> o, r |-> r]
  <2>1. DOMAIN outputs = 1..Len(all) /\ DOMAIN all = 1..Len(all)
    <3> HIDE DEF all
    <3>1. DOMAIN Blinded(all, r, ks) = 1..Len(all)
      BY <1>1, <1>2, BlindedIs, Zenon
    <3>2. DOMAIN all = 1..Len(all)
      BY <1>2
    <3> QED BY <1>3, <3>1, <3>2, Zenon DEF all
  <2> HIDE DEF outputs, all
  <2>2. ASSUME NEW i \in 1..Len(all)
        PROVE  outputs[i].point = [output |-> all[i], r |-> r]
    <3>1. outputs[i] = to_blinded_message(all[i], r, ks)
      BY <1>1, <1>2, <1>3, BlindedIs, Zenon
    <3> QED BY <3>1, MessageIs
  <2>3. \A p : p \in D <=> \E i \in 1..Len(all) : p = outputs[i].point
    BY <2>1, Zenon
  <2>4. \A o : o \in Range(all) <=> \E i \in 1..Len(all) : o = all[i]
    BY <2>1, Zenon DEF Range
  <2> HIDE DEF D
  <2>5. ASSUME NEW p
        PROVE  p \in D <=> \E o \in Range(all) : p = [output |-> o, r |-> r]
    <3>1. ASSUME p \in D
          PROVE  \E o \in Range(all) : p = [output |-> o, r |-> r]
      <4>1. PICK i \in 1..Len(all) : p = outputs[i].point
        BY <2>3, <3>1, Zenon
      <4> QED BY <2>2, <2>4, <4>1, Zenon
    <3>2. ASSUME NEW o \in Range(all), p = [output |-> o, r |-> r]
          PROVE  p \in D
      <4>1. PICK i \in 1..Len(all) : o = all[i]
        BY <2>4, Zenon
      <4> QED BY <2>2, <2>3, <3>2, <4>1, Zenon
    <3> QED BY <3>1, <3>2, Zenon
  <2> QED BY <2>5, Zenon
<1>5. /\ \A o \in Range(all) : o.context = "sender" => o \in mine
      /\ \A o \in mine : o \in Range(all)
  <2>1. \A o : o \in mine <=>
            \E i \in DOMAIN all : all[i] = o /\ all[i].context # "receiver"
    BY <1>1, OwnersAre, Zenon
  <2>2. \A o : o \in Range(all) <=> \E i \in DOMAIN all : all[i] = o
    BY Zenon DEF Range
  <2>3. "sender" # "receiver"
    OBVIOUS
  <2> HIDE DEF all, mine
  <2> QED BY <2>1, <2>2, <2>3
<1>6. /\ \A o \in mine :
            /\ o = [context |-> "sender", amount |-> o.amount, index |-> o.index]
            /\ o.amount \in Denominations /\ o.index \in Nat /\ o.index <= Len(job.second)
      /\ \A a : \A n \in Nat :
            [context |-> "sender", amount |-> a, index |-> n + 1] \in mine
            => [context |-> "sender", amount |-> a, index |-> n] \in mine
  BY <1>1, MineAre, Zenon
<1>7. Len(job.second) \in Nat
  BY <1>1, JobFields, Zenon
<1> HIDE DEF D, mine, all
<1>8. ASSUME NEW a, NEW n
      PROVE  SenderPoint(a, n, r) \in D
                <=> [context |-> "sender", amount |-> a, index |-> n] \in mine
  <2> DEFINE o == [context |-> "sender", amount |-> a, index |-> n]
  <2>1. SenderPoint(a, n, r) = [output |-> o, r |-> r]
    BY Zenon DEF SenderPoint
  <2>2. o.context = "sender"
    OBVIOUS
  <2> HIDE DEF o
  <2>3. \A x : [output |-> o, r |-> r] = [output |-> x, r |-> r] => o = x
    OBVIOUS
  <2> QED BY <1>4, <1>5, <2>1, <2>2, <2>3, Zenon DEF o
<1>9. ASSUME NEW a
      PROVE  Dense(D, a, r)
  <2>1. \A n \in Nat : SenderPoint(a, n + 1, r) \in D => SenderPoint(a, n, r) \in D
    BY <1>6, <1>8, Zenon
  <2>2. ASSUME NEW n \in Nat, SenderPoint(a, n, r) \in D
        PROVE  n <= Len(job.second)
    <3> DEFINE o == [context |-> "sender", amount |-> a, index |-> n]
    <3>1. o \in mine
      BY <1>8, <2>2, Zenon
    <3>2. o.index = n
      OBVIOUS
    <3> HIDE DEF o
    <3>3. o.index <= Len(job.second)
      BY <1>6, <3>1, Zenon
    <3> QED BY <3>2, <3>3
  <2> QED BY <1>7, <2>1, <2>2, Zenon DEF Dense
<1>10. \A p : p \in known <=> \E o \in mine : p = [output |-> o, r |-> r]
  <2>1. ASSUME NEW p \in known
        PROVE  \E o \in mine : p = [output |-> o, r |-> r]
    <3>1. PICK a \in Denominations, n \in Nat : p = SenderPoint(a, n, r)
      BY Zenon DEF AllKnown
    <3>2. p \in D
      BY Zenon DEF AllKnown
    <3>3. [context |-> "sender", amount |-> a, index |-> n] \in mine
      BY <1>8, <3>1, <3>2, Zenon
    <3> QED BY <3>1, <3>3, Zenon DEF SenderPoint
  <2>2. ASSUME NEW o \in mine
        PROVE  [output |-> o, r |-> r] \in known
    <3>1. /\ o = [context |-> "sender", amount |-> o.amount, index |-> o.index]
          /\ o.amount \in Denominations /\ o.index \in Nat
      BY <1>6, Zenon
    <3>2. [output |-> o, r |-> r] \in D
      BY <1>4, <1>5, Zenon
    <3>3. [output |-> o, r |-> r] = SenderPoint(o.amount, o.index, r)
      BY <3>1, Zenon DEF SenderPoint
    <3> QED BY <3>1, <3>2, <3>3, Zenon DEF AllKnown
  <2> HIDE DEF known
  <2> QED BY <2>1, <2>2, Zenon
<1>11. DOMAIN issued = D /\ \A p \in known : issued[p] = ks
  BY Zenon DEF AllKnown
<1>12. {p.output : p \in known} = mine
  <2>1. \A o : [output |-> o, r |-> r].output = o
    OBVIOUS
  <2> HIDE DEF known
  <2>2. \A o : o \in {p.output : p \in known} <=> \E p \in known : o = p.output
    BY Zenon
  <2>3. ASSUME NEW o
        PROVE  (\E p \in known : o = p.output) <=> o \in mine
    <3>1. ASSUME NEW p \in known, o = p.output
          PROVE  o \in mine
      <4>1. PICK x \in mine : p = [output |-> x, r |-> r]
        BY <1>10, Zenon
      <4>2. p.output = x
        BY <4>1
      <4> QED BY <3>1, <4>2
    <3>2. ASSUME o \in mine
          PROVE  \E p \in known : o = p.output
      <4>1. [output |-> o, r |-> r] \in known
        BY <1>10, <3>2, Zenon
      <4> QED BY <2>1, <4>1, Zenon
    <3> QED BY <3>1, <3>2, Zenon
  <2> QED BY <2>2, <2>3, Zenon
<1> HIDE DEF issued
<1>13. ASSUME NEW keysets
       PROVE  restore_sender_proofs(issued, Denominations, r, keysets)
                = Discovered(issued, known, keysets)
  <2>1. \A a \in Denominations : Dense(DOMAIN issued, a, r)
    BY <1>9, <1>11, Zenon
  <2>2. known = AllKnown(DOMAIN issued, Denominations, r)
    BY <1>11, Zenon
  <2> HIDE DEF known
  <2> QED BY <2>1, <2>2, DiscoveryIs, Zenon
<1> HIDE DEF known
<1>14. restore_sender_proofs(issued, Denominations, r, Keysets) = SwapOk(mine)
  BY <1>1, <1>11, <1>12, <1>13, Zenon DEF Discovered
<1>15. ASSUME mine # {}
       PROVE  ~restore_sender_proofs(issued, Denominations, r, Keysets \ {ks}).ok
  <2>1. PICK p : p \in known
    BY <1>10, <1>15, Zenon
  <2>2. \E q \in known : issued[q] \notin Keysets \ {ks}
    BY <1>11, <2>1, Zenon
  <2>3. restore_sender_proofs(issued, Denominations, r, Keysets \ {ks}) = SwapErr
    BY <1>13, <2>2, Zenon DEF Discovered
  <2> QED BY <2>3, SwapResults, Zenon
<1> QED BY <1>14, <1>15, Zenon DEF DiscoveryFindsAll, Denominations, mine, issued, D, SenderOf

(* After a close without an answer, restore_sender_proofs finds exactly the *)
(* sender's outputs, whatever their amounts; without the keyset they are    *)
(* of it fails.                                                             *)
THEOREM DiscoveryAlwaysFindsAll == SwapSpec => []DiscoveryFindsAll
<1>1. SwapInv => DiscoveryFindsAll
  BY DiscoveryFinds, Zenon DEF SwapInv
<1> QED BY <1>1, SwapInvariant, PTL
=============================================================================
