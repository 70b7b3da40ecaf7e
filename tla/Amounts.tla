------------------------------ MODULE Amounts ------------------------------
(***************************************************************************)
(* The amount arithmetic of cdk-spilman: how a value is split into the     *)
(* denominations of a keyset, what is left of it after the input fee, the  *)
(* inverse of that function, the capacity a funding amount supports, the   *)
(* two shares of a commitment, the split of an opening into funding and    *)
(* change, the value of a refund and the price of a channel's usage.       *)
(*                                                                         *)
(* A keyset is its id, its unit, its denominations and its input fee in    *)
(* parts per thousand (ppk); channel parameters are the keyset, the        *)
(* maximum amount of one output (0: no limit), the capacity and the        *)
(* funding token amount.                                                   *)
(* Sums the code checks or saturates are cut off at MaxU; a Rust Result is *)
(* Ok(v) or Err.                                                           *)
(***************************************************************************)
EXTENDS Sums, FiniteSetsExt

CONSTANTS MaxU,           \* the largest u64
          FeeKeysets,     \* the keysets of an instance,
          AmountTerms,    \* the keyset and maximum output amount of its channels,
          NoTerms,        \* before they are agreed on,
          MaxAmount,      \* its largest amount,
          OpeningInputs,  \* the inputs of its openings: sequences of [amount, keyset],
          Charges         \* and the price lists and pending usages it charges

(* Keysets are told apart by their ids.  No denomination is 0: from_target  *)
(* would not terminate with one, and the refund refuses it.  A channel's    *)
(* fee is at most 999 ppk: ChannelParameters::new refuses more; inputs and  *)
(* refunds may be of keysets with any fee.                                  *)
ASSUME AmountsAssumption ==
    /\ MaxU \in Nat /\ MaxAmount \in Nat
    /\ \A ks \in FeeKeysets : ks.amounts \subseteq Nat \ {0} /\ ks.ppk \in Nat
    /\ \A k, l \in FeeKeysets : k.id = l.id => k = l
    /\ \A t \in AmountTerms : t.keyset \in FeeKeysets /\ t.keyset.ppk <= 999 /\ t.max \in Nat
    /\ NoTerms \notin AmountTerms
    /\ OpeningInputs \subseteq Seq([amount : Nat, keyset : {ks.id : ks \in FeeKeysets}])
    /\ \A c \in Charges :
          /\ c.prices \in Seq(Nat)
          /\ c.pending \in [DOMAIN c.prices -> Nat]
          /\ c.scale \in Nat \ {0}

Ok(v) == [ok |-> TRUE, value |-> v]

Err == [ok |-> FALSE]

DivCeil(a, b) == (a + b - 1) \div b

SaturatingSub(a, b) == IF a > b THEN a - b ELSE 0

Saturate(a) == IF a > MaxU THEN MaxU ELSE a

-----------------------------------------------------------------------------
(* Splitting and fees. *)

(* The denominations an output may have. *)
Usable(ks, max) == {a \in ks.amounts : max = 0 \/ a <= max}

(* Largest first: as long as a usable denomination fits, take the largest. *)
from_target(target, max, ks) ==
    LET greedy[remaining \in Nat] ==
            LET fits == {a \in Usable(ks, max) : a <= remaining}
            IN  IF fits = {}
                THEN [amounts |-> << >>, remaining |-> remaining]
                ELSE LET rest == greedy[remaining - Max(fits)]
                     IN  [rest EXCEPT !.amounts = << Max(fits) >> \o @]
    IN  IF greedy[target].remaining # 0 THEN Err ELSE Ok(greedy[target].amounts)

(* What spending these outputs leaves: the fee counts outputs, not value. *)
value_after_fees(amounts, ppk) ==
    IF ppk = 0 THEN SumOf(amounts)
    ELSE SaturatingSub(SumOf(amounts), DivCeil(ppk * Len(amounts), 1000))

deterministic_value_after_fees(nominal, max, ks) ==
    LET split == from_target(nominal, max, ks)
    IN  IF ~split.ok THEN Err ELSE Ok(value_after_fees(split.value, ks.ppk))

(* Mutant: the target itself does not end the search. *)
inverse_above_target(target, max, ks) ==
    LET search[nominal \in Nat] ==
            LET actual == deterministic_value_after_fees(nominal, max, ks)
            IN  IF ~actual.ok THEN Err
                ELSE IF actual.value > target
                THEN Ok([nominal |-> nominal, actual |-> actual.value])
                ELSE search[nominal + 1]
    IN  IF target = 0 \/ ks.ppk = 0
        THEN Ok([nominal |-> target, actual |-> target])
        ELSE search[target]

(* Search upwards from the target; an amount on the way that cannot be      *)
(* represented ends the search with an error.                               *)
inverse_deterministic_value_after_fees(target, max, ks) ==
    LET search[nominal \in Nat] ==
            LET actual == deterministic_value_after_fees(nominal, max, ks)
            IN  IF ~actual.ok THEN Err
                ELSE IF actual.value >= target
                THEN Ok([nominal |-> nominal, actual |-> actual.value])
                ELSE search[nominal + 1]
    IN  IF target = 0 \/ ks.ppk = 0
        THEN Ok([nominal |-> target, actual |-> target])
        ELSE search[target]

-----------------------------------------------------------------------------
(* Channel parameters. *)

(* Mutant: the fee of the second stage is forgotten. *)
MaxCapacity_one_stage(funding, max, ks) == deterministic_value_after_fees(funding, max, ks)

(* The value after both stages: the close, then the spend of its outputs. *)
MaxCapacity(funding, max, ks) ==
    LET after_stage1 == deterministic_value_after_fees(funding, max, ks)
    IN  IF ~after_stage1.ok THEN Err
        ELSE deterministic_value_after_fees(after_stage1.value, max, ks)

(* ChannelParameters::new accepts. *)
ParamsAccepted(p) ==
    /\ p.keyset.ppk <= 999
    /\ MaxCapacity(p.funding, p.max, p.keyset).ok
    /\ p.capacity <= MaxCapacity(p.funding, p.max, p.keyset).value

get_minimum_funding_token_amount(capacity, max, ks) ==
    LET first == inverse_deterministic_value_after_fees(capacity, max, ks)
    IN  IF ~first.ok THEN Err
        ELSE LET second == inverse_deterministic_value_after_fees(
                               first.value.nominal, max, ks)
             IN  IF ~second.ok THEN Err ELSE Ok(second.value.nominal)

get_value_after_stage1(p) ==
    deterministic_value_after_fees(p.funding, p.max, p.keyset)

get_de_facto_balance(intended, p) ==
    LET inverse == inverse_deterministic_value_after_fees(intended, p.max, p.keyset)
    IN  IF ~inverse.ok THEN Err
        ELSE deterministic_value_after_fees(inverse.value.nominal, p.max, p.keyset)

(* CommitmentOutputs::for_balance: the receiver's outputs are worth the     *)
(* balance once spent, the sender has the rest.                             *)
for_balance(balance, p) ==
    LET stage1 == get_value_after_stage1(p)
        inverse == inverse_deterministic_value_after_fees(balance, p.max, p.keyset)
        charlie == from_target(inverse.value.nominal, p.max, p.keyset)
        alice == from_target(stage1.value - inverse.value.nominal, p.max, p.keyset)
    IN  IF \/ balance > p.capacity
           \/ ~stage1.ok
           \/ ~inverse.ok
           \/ inverse.value.nominal > stage1.value
           \/ ~charlie.ok
           \/ ~alice.ok
        THEN Err
        ELSE Ok([receiver |-> charlie.value, sender |-> alice.value])

-----------------------------------------------------------------------------
(* Mutant: the fee is rounded up for each input. *)
compute_post_swap_value_per_input(inputs, fees) ==
    LET value == SumOf([i \in DOMAIN inputs |-> inputs[i].amount])
        fee == SumOf([i \in DOMAIN inputs |-> DivCeil(fees[inputs[i].keyset], 1000)])
    IN  IF value > MaxU \/ \E i \in DOMAIN inputs : inputs[i].keyset \notin DOMAIN fees
        THEN Err
        ELSE Ok([value |-> value, fee |-> fee, post_swap |-> SaturatingSub(value, fee)])

(* Opening: inputs is a sequence of [amount, keyset], and fees gives the    *)
(* ppk of the keysets the caller supplied metadata for.                     *)
compute_post_swap_value_from_input_keysets(inputs, fees) ==
    LET value == SumOf([i \in DOMAIN inputs |-> inputs[i].amount])
        fee == DivCeil(SumOf([i \in DOMAIN inputs |-> fees[inputs[i].keyset]]), 1000)
    IN  IF value > MaxU \/ \E i \in DOMAIN inputs : inputs[i].keyset \notin DOMAIN fees
        THEN Err
        ELSE Ok([value |-> value, fee |-> fee, post_swap |-> SaturatingSub(value, fee)])

(* requested_capacity and requested_funding are sets: empty when not given. *)
compute_channel_from_proofs_inner(post_swap, unit, ks, max, requested_capacity, requested_funding) ==
    LET funding == IF requested_funding = {} THEN post_swap
                   ELSE CHOOSE a \in requested_funding : TRUE
        limit == MaxCapacity(funding, max, ks)
        capacity == IF requested_capacity = {} THEN limit.value
                    ELSE CHOOSE c \in requested_capacity : TRUE
        params == [keyset |-> ks, max |-> max, capacity |-> capacity, funding |-> funding]
    IN  IF \/ ks.unit # unit
           \/ funding > post_swap
           \/ ~limit.ok
           \/ capacity > limit.value
           \/ ~ParamsAccepted(params)
        THEN Err
        ELSE Ok([params |-> params, change |-> post_swap - funding])

compute_channel_from_proofs_with_mode(inputs, fees, unit, ks, max, capacity, funding) ==
    LET input == compute_post_swap_value_from_input_keysets(inputs, fees)
    IN  IF ~input.ok THEN Err
        ELSE compute_channel_from_proofs_inner(input.value.post_swap, unit, ks, max,
                                               capacity, funding)

(* A token whose proofs all have the output keyset: all of it funds the     *)
(* channel.                                                                 *)
compute_channel_from_token_with_mode(inputs, unit, ks, max, requested_capacity) ==
    LET input == compute_post_swap_value_from_input_keysets(inputs, [k \in {ks.id} |-> ks.ppk])
    IN  IF ~input.ok THEN Err
        ELSE compute_channel_from_proofs_inner(input.value.post_swap, unit, ks, max,
                                               requested_capacity, {})

(* A token of any keysets, with the metadata of each. *)
compute_channel_from_token_with_input_keysets_and_mode(inputs, fees, unit, ks, max, capacity) ==
    LET input == compute_post_swap_value_from_input_keysets(inputs, fees)
    IN  IF ~input.ok THEN Err
        ELSE compute_channel_from_proofs_inner(input.value.post_swap, unit, ks, max, capacity, {})

(* The change ignores the maximum amount of one output. *)
plain_change_outputs(change, ks) ==
    IF change = 0 THEN Ok(<< >>) ELSE from_target(change, 0, ks)

create_funding_swap_with_plain_change(p, change) ==
    LET funding == from_target(p.funding, p.max, p.keyset)
        plain == plain_change_outputs(change, p.keyset)
    IN  IF ~funding.ok \/ ~plain.ok THEN Err ELSE Ok(funding.value \o plain.value)

-----------------------------------------------------------------------------
(* The refund after expiry spends the funding proofs into outputs of any    *)
(* keyset of the unit.                                                      *)
prepare_unsigned_sender_refund(p, proofs, output_keyset) ==
    LET total == SumOf(proofs)
        fee == DivCeil(p.keyset.ppk * Len(proofs), 1000)
    IN  IF \/ output_keyset.unit # p.keyset.unit
           \/ 0 \in output_keyset.amounts
           \/ total > MaxU
           \/ fee >= total
        THEN Err
        ELSE from_target(total - fee, p.max, output_keyset)

-----------------------------------------------------------------------------
(* Mutant: the multiplication wraps. *)
compute_amount_due_wrapping(prices, scale, accumulated, pending) ==
    LET charge(v) == ((accumulated[v] + pending[v]) * prices[v]) % (MaxU + 1)
        total[v \in 0..Len(prices)] == IF v = 0 THEN 0 ELSE Saturate(total[v - 1] + charge(v))
    IN  DivCeil(total[Len(prices)], scale)

(* The price of a channel's usage: accumulated and pending units of each    *)
(* variable, the variables being numbered in the order the map of prices    *)
(* yields them.  The addition is unchecked and wraps in a release build;    *)
(* the multiplication and the total saturate.                               *)
compute_amount_due(prices, scale, accumulated, pending) ==
    LET charge(v) == Saturate(((accumulated[v] + pending[v]) % (MaxU + 1)) * prices[v])
        total[v \in 0..Len(prices)] == IF v = 0 THEN 0 ELSE Saturate(total[v - 1] + charge(v))
    IN  DivCeil(total[Len(prices)], scale)

-----------------------------------------------------------------------------
(* The amounts of an instance: n is in turn a balance, a funding amount, a  *)
(* requested funding and a usage.                                           *)

VARIABLES terms,    \* the keyset and the maximum amount of one output, or NoTerms
          n

amountVars == << terms, n >>

AmountsInit ==
    /\ terms = NoTerms
    /\ n = 0

TermsAgreed ==
    /\ terms = NoTerms
    /\ terms' \in AmountTerms
    /\ UNCHANGED n

NextAmount ==
    /\ terms # NoTerms
    /\ n < MaxAmount
    /\ n' = n + 1
    /\ UNCHANGED terms

AmountsNext == TermsAgreed \/ NextAmount

AmountsSpec == AmountsInit /\ [][AmountsNext]_amountVars

ValueAfterFees(m) == deterministic_value_after_fees(m, terms.max, terms.keyset)

(* inverse_deterministic_value_after_fees returns the least amount whose    *)
(* value after fees reaches the target, and get_de_facto_balance is what it *)
(* is worth.  The search starts at the target and tests no amount below it; *)
(* and it stops at the first amount it cannot represent, so a keyset        *)
(* without the denomination 1 may have an error, but never a wrong amount.  *)
InverseIsLeast ==
    LET inverse == inverse_deterministic_value_after_fees(n, terms.max, terms.keyset)
        reaches(m) == ValueAfterFees(m).ok /\ ValueAfterFees(m).value >= n
        params == [keyset |-> terms.keyset, max |-> terms.max]
    IN  terms # NoTerms =>
        /\ 1 \in terms.keyset.amounts => inverse.ok
        /\ inverse.ok /\ ValueAfterFees(inverse.value.nominal).ok =>
              /\ reaches(inverse.value.nominal)
              /\ \A m \in 0..(inverse.value.nominal - 1) : ~reaches(m)
              /\ Ok(inverse.value.actual) = ValueAfterFees(inverse.value.nominal)
              /\ get_de_facto_balance(n, params) = Ok(inverse.value.actual)

(* Half of EveryBalanceCloses.                                              *)
(* A channel that ChannelParameters::new accepts can be closed at every     *)
(* balance up to its capacity: for_balance finds both shares, the           *)
(* receiver's is worth the balance once spent, and the shares add up to     *)
(* what the mint leaves of the funding.  The funding                        *)
(* get_minimum_funding_token_amount asks for supports the capacity, and one *)
(* less does not.                                                           *)
ClosesAtEveryBalance ==
    LET limit == MaxCapacity(n, terms.max, terms.keyset)
        params == [keyset |-> terms.keyset, max |-> terms.max,
                   funding |-> n, capacity |-> limit.value]
        minimum == get_minimum_funding_token_amount(n, terms.max, terms.keyset)
    IN  1 \in terms.keyset.amounts =>
        /\ \A balance \in 0..limit.value :
              LET shares == for_balance(balance, params)
              IN  /\ ParamsAccepted(params)
                  /\ shares.ok
                  /\ value_after_fees(shares.value.receiver, terms.keyset.ppk) >= balance
                  /\ SumOf(shares.value.receiver) + SumOf(shares.value.sender)
                         = get_value_after_stage1(params).value
        /\ MaxCapacity(minimum.value, terms.max, terms.keyset).value >= n
        /\ n > 0 => MaxCapacity(minimum.value - 1, terms.max, terms.keyset).value < n

(* The other half.                                                          *)
(* What the sender gets back after expiry is what a close at balance 0      *)
(* would have left it, whatever keyset of the unit the refund is issued in; *)
(* there is a refund exactly when that is not nothing.                      *)
RefundEqualsEmptyClose ==
    \A output_keyset \in FeeKeysets :
        LET params == [keyset |-> terms.keyset, max |-> terms.max, funding |-> n, capacity |-> 0]
            proofs == from_target(n, terms.max, terms.keyset)
            refund == prepare_unsigned_sender_refund(params, proofs.value, output_keyset)
            value == get_value_after_stage1(params)
        IN  proofs.ok /\ n <= MaxU /\ output_keyset.unit = terms.keyset.unit
            /\ 1 \in output_keyset.amounts =>
                /\ refund.ok <=> value.value > 0
                /\ refund.ok => SumOf(refund.value) = value.value
                /\ refund.ok /\ 1 \in terms.keyset.amounts =>
                      SumOf(refund.value) = SumOf(for_balance(0, params).value.sender)

(* A channel ChannelParameters::new accepts can be settled every way it may *)
(* have to be: for_balance closes it at every balance up to its capacity    *)
(* with both shares exact, and the refund after expiry returns what a close *)
(* at balance 0 would have left the sender.                                 *)
EveryBalanceCloses == terms # NoTerms => ClosesAtEveryBalance /\ RefundEqualsEmptyClose

(* The input fees of all keysets, by id. *)
InputFees == [id \in {k.id : k \in FeeKeysets} |-> (CHOOSE k \in FeeKeysets : k.id = id).ppk]

(* An opening asks the mint for exactly what its inputs are worth after the *)
(* mint's fee: funding and change outputs add up to the inputs less the     *)
(* fee of their keysets, for every list of inputs, whether the funding is   *)
(* requested or is all there is, and the channel has the parameters         *)
(* announced; the token forms open the same channel as the form that takes  *)
(* proofs.                                                                  *)
OpeningBalances == terms # NoTerms =>
    \A inputs \in OpeningInputs, requested \in {{}, {n}} :
        LET ks == terms.keyset
            worth == SumOf([i \in DOMAIN inputs |-> inputs[i].amount])
            fee == DivCeil(SumOf([i \in DOMAIN inputs |-> InputFees[inputs[i].keyset]]), 1000)
            opening == compute_channel_from_proofs_with_mode(
                           inputs, InputFees, ks.unit, ks, terms.max, {}, requested)
            swap == create_funding_swap_with_plain_change(
                        opening.value.params, opening.value.change)
        IN  opening.ok /\ fee <= worth =>
            /\ ParamsAccepted(opening.value.params)
            /\ swap.ok => SumOf(swap.value) = worth - fee
            /\ 1 \in ks.amounts => swap.ok
            /\ requested = {} =>
                  compute_channel_from_token_with_input_keysets_and_mode(
                      inputs, InputFees, ks.unit, ks, terms.max, {}) = opening
            /\ requested = {} /\ (\A i \in DOMAIN inputs : inputs[i].keyset = ks.id) =>
                  compute_channel_from_token_with_mode(inputs, ks.unit, ks, terms.max, {})
                      = opening

(* As long as the units themselves fit in a u64, a large price saturates    *)
(* the amount due instead of wrapping it: it is the exact price rounded up, *)
(* cut off at the largest total, and it never falls when the usage of one   *)
(* variable grows.                                                          *)
AmountDueSaturates == terms # NoTerms =>
    \A c \in Charges : \A growing \in DOMAIN c.prices :
        LET used(m) == [v \in DOMAIN c.prices |-> IF v = growing THEN m ELSE 1]
            due(m) == compute_amount_due(c.prices, c.scale, used(m), c.pending)
            exact == SumOf([v \in DOMAIN c.prices |-> (used(n)[v] + c.pending[v]) * c.prices[v]])
        IN  (\A v \in DOMAIN c.prices : used(n + 1)[v] + c.pending[v] <= MaxU) =>
            /\ due(n) = DivCeil(IF exact > MaxU THEN MaxU ELSE exact, c.scale)
            /\ due(n) <= due(n + 1)
=============================================================================
