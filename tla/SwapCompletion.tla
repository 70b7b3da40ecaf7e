--------------------------- MODULE SwapCompletion ---------------------------
(***************************************************************************)
(* From a commitment to spendable proofs: the deterministic outputs of the *)
(* two parties, the swap request that mixes them, the mint's answer to the *)
(* swap (NUT-03) or to a restore (NUT-09), and the completion that turns   *)
(* an answer into proofs or refuses it as a whole.                         *)
(*                                                                         *)
(* Cryptography is symbolic.  An output is named by its context, amount    *)
(* and index; a blinded point by its output and the mint tweak r it was    *)
(* blinded with (NoR: none); a signature says which point it signs and     *)
(* whether its DLEQ proof is there and right.  Answers travel over a       *)
(* network and through hosts that may lose, reorder, repeat or damage      *)
(* their parts: at most MaxFaults of them.                                 *)
(***************************************************************************)
EXTENDS Sums, FiniteSets, Functions

CONSTANTS Splits,       \* the possible amounts of one party, largest first
          Randomness,   \* the values the mint may choose to rerandomize
          NoR,
          Keysets,      \* keyset ids; each has the denominations of Splits
          MaxFaults

ASSUME SwapAssumption ==
    /\ Splits \subseteq Seq(Nat)
    /\ NoR \notin Randomness
    /\ MaxFaults \in Nat

SwapOk(v) == [ok |-> TRUE, value |-> v]

SwapErr == [ok |-> FALSE]

Reverse(s) == [i \in DOMAIN s |-> s[Len(s) + 1 - i]]

RemoveAt(s, i) == SubSeq(s, 1, i - 1) \o SubSeq(s, i + 1, Len(s))

-----------------------------------------------------------------------------
(* Outputs and requests. *)

(* Smallest first, the index counts the outputs of the same amount. *)
get_secrets_with_blinding(context, amounts) ==
    LET ascending == Reverse(amounts)
    IN  [i \in DOMAIN ascending |->
            [context |-> context,
             amount  |-> ascending[i],
             index   |-> Cardinality({j \in 1..(i - 1) : ascending[j] = ascending[i]})]]

to_blinded_message(output, r, keyset) ==
    [amount |-> output.amount, keyset |-> keyset, point |-> [output |-> output, r |-> r]]

get_blinded_messages(context, amounts, keyset) ==
    LET outputs == get_secrets_with_blinding(context, amounts)
    IN  [i \in DOMAIN outputs |-> to_blinded_message(outputs[i], NoR, keyset)]

(* Where a stable sort by amount puts the i-th element. *)
Rank(s, i) ==
    Cardinality({j \in DOMAIN s :
                    \/ s[j].amount < s[i].amount
                    \/ s[j].amount = s[i].amount /\ j <= i})

sort_by_amount(s) == [k \in DOMAIN s |-> s[CHOOSE i \in DOMAIN s : Rank(s, i) = k]]

(* commitment: [receiver, sender: amounts; rerandomized: its mode]. *)
create_swap_request(commitment, keyset) ==
    [outputs |-> sort_by_amount(get_blinded_messages("receiver", commitment.receiver, keyset)
                                \o get_blinded_messages("sender", commitment.sender, keyset)),
     rerandomized |-> commitment.rerandomized]

(* tweak_swap_outputs of the cashu crate: the same tweak on every point. *)
tweak_swap_outputs(r, outputs) ==
    [i \in DOMAIN outputs |-> [outputs[i] EXCEPT !.point.r = r]]

Distinct(s) == \A i, j \in DOMAIN s : s[i] = s[j] => i = j

swap_restore_request(request, r) ==
    IF \/ request.outputs = << >>
       \/ ~Distinct([i \in DOMAIN request.outputs |-> request.outputs[i].point])
       \/ request.rerandomized # (r # NoR)
    THEN SwapErr
    ELSE SwapOk(IF r = NoR THEN request.outputs ELSE tweak_swap_outputs(r, request.outputs))

-----------------------------------------------------------------------------
(* Completion.  A prepared output is its blinded message and the output     *)
(* whose secret and blinding factor were retained.                          *)

effective_outputs(request, prepared, keys, r) ==
    LET derived == swap_restore_request(request, r)
    IN  IF \/ ~derived.ok
           \/ Len(prepared) # Len(request.outputs)
           \/ \E i \in DOMAIN prepared :
                 \/ prepared[i].message # request.outputs[i]
                 \/ request.outputs[i].keyset # keys
                 \/ prepared[i].message.point.output # prepared[i].output
           \/ ~Distinct([i \in DOMAIN prepared |-> prepared[i].output])
        THEN SwapErr
        ELSE SwapOk([i \in DOMAIN prepared |->
                        [message |-> derived.value[i], output |-> prepared[i].output, r |-> r]])

verify_dleq(signature, message) ==
    signature.dleq = "right" /\ signature.on = message.point

Total(s) == SumOf([i \in DOMAIN s |-> s[i].amount])

(* A signature unblinded with (output, r) is a proof, its DLEQ naming the   *)
(* blinding; the mint honours it when the signature is on that very point.  *)
Unblind(signature, output, r) ==
    [secret |-> output, amount |-> signature.amount, keyset |-> signature.keyset,
     r |-> output, spent_metadata |-> FALSE,
     spendable |-> signature.on = [output |-> output, r |-> r]]

(* Mutant: amounts and keysets are compared, the DLEQ is not verified. *)
complete_exact_signatures_unverified(signatures, expected, keys) ==
    LET messages == [i \in DOMAIN expected |-> expected[i].message]
    IN  IF \/ Len(signatures) # Len(expected)
           \/ \E i \in DOMAIN signatures :
                 \/ signatures[i].amount # messages[i].amount
                 \/ signatures[i].keyset # messages[i].keyset
        THEN SwapErr
        ELSE SwapOk([i \in DOMAIN signatures |->
                        Unblind(signatures[i], expected[i].output, expected[i].r)])

complete_exact_signatures(signatures, expected, keys) ==
    LET messages == [i \in DOMAIN expected |-> expected[i].message]
    IN  IF \/ Len(signatures) # Len(expected)
           \/ Total(signatures) # Total(messages)
           \/ \E i \in DOMAIN signatures :
                 \/ signatures[i].amount # messages[i].amount
                 \/ signatures[i].keyset # messages[i].keyset
                 \/ ~verify_dleq(signatures[i], messages[i])
        THEN SwapErr
        ELSE SwapOk([i \in DOMAIN signatures |->
                        Unblind(signatures[i], expected[i].output, expected[i].r)])

(* Mutant: the pairs are checked but taken in the order they came in. *)
match_restore_response_as_sent(outputs, signatures, expected) ==
    IF \/ Len(outputs) # Len(signatures)
       \/ Len(outputs) # Len(expected)
       \/ \E i \in DOMAIN outputs : \A k \in DOMAIN expected : expected[k] # outputs[i]
    THEN SwapErr
    ELSE SwapOk(signatures)

(* Both arrays are the mint's; pairs may come in any order. *)
match_restore_response(outputs, signatures, expected) ==
    LET at(i) == CHOOSE k \in DOMAIN expected : expected[k] = outputs[i]
    IN  IF \/ Len(outputs) # Len(signatures)
           \/ Len(outputs) # Len(expected)
           \/ \E i \in DOMAIN outputs : \A k \in DOMAIN expected : expected[k] # outputs[i]
           \/ \E i, j \in DOMAIN outputs : i # j /\ at(i) = at(j)
        THEN SwapErr
        ELSE SwapOk([k \in DOMAIN expected |->
                        signatures[CHOOSE i \in DOMAIN outputs : at(i) = k]])

swap_complete_swap_response(request, prepared, answer, keys) ==
    LET outputs == effective_outputs(request, prepared, keys, answer.r)
    IN  IF ~outputs.ok THEN SwapErr
        ELSE complete_exact_signatures(answer.signatures, outputs.value, keys)

(* An answer with two empty arrays is absence: an Ok with no proofs. *)
complete_swap_restore(request, prepared, r, answer, keys) ==
    LET outputs == effective_outputs(request, prepared, keys, r)
        messages == [i \in DOMAIN outputs.value |-> outputs.value[i].message]
        matched == match_restore_response(answer.outputs, answer.signatures, messages)
    IN  IF ~outputs.ok THEN SwapErr
        ELSE IF answer.outputs = << >> /\ answer.signatures = << >> THEN SwapOk(<< >>)
        ELSE IF ~matched.ok THEN SwapErr
        ELSE complete_exact_signatures(matched.value, outputs.value, keys)

(* The outputs of a commitment again, in the order of its request, each     *)
(* with its owner.                                                          *)
PreparedCommitment(commitment, keyset) ==
    LET outputs == sort_by_amount(get_secrets_with_blinding("receiver", commitment.receiver)
                                  \o get_secrets_with_blinding("sender", commitment.sender))
        request == create_swap_request(commitment, keyset)
    IN  [i \in DOMAIN outputs |-> [message |-> request.outputs[i], output |-> outputs[i]]]

commitment_complete_swap_response(commitment, answer, keys) ==
    LET request == create_swap_request(commitment, keys)
        prepared == PreparedCommitment(commitment, keys)
        proofs == swap_complete_swap_response(request, prepared, answer, keys)
    IN  IF Len(answer.signatures) # Len(commitment.receiver) + Len(commitment.sender) \/ ~proofs.ok
        THEN SwapErr
        ELSE SwapOk([i \in DOMAIN proofs.value |->
                        [proof |-> proofs.value[i],
                         amount |-> prepared[i].output.amount,
                         index |-> prepared[i].output.index,
                         is_receiver |-> prepared[i].output.context = "receiver"]])

-----------------------------------------------------------------------------
(* An opening: the funding proofs, then the change.  exact is empty, or     *)
(* holds the outputs of the retained swap request, which the secrets must   *)
(* reproduce.                                                               *)
parse_prepared_outputs(outputs, keys) ==
    [i \in DOMAIN outputs |->
        [message |-> to_blinded_message(outputs[i], NoR, keys),
         output |-> outputs[i], r |-> NoR]]

complete_exact_opening_signatures(signatures, funding, change, keys, exact) ==
    LET expected == parse_prepared_outputs(funding \o change, keys)
        proofs == complete_exact_signatures(signatures, expected, keys)
    IN  IF \/ ~proofs.ok
           \/ \E e \in exact : e # [i \in DOMAIN expected |-> expected[i].message]
        THEN SwapErr
        ELSE SwapOk([funding |-> SubSeq(proofs.value, 1, Len(funding)),
                     change  |-> SubSeq(proofs.value, Len(funding) + 1, Len(expected))])

(* The two restores of an opening, one for each role. *)
complete_role_restore(answer, outputs, keys) ==
    LET expected == parse_prepared_outputs(outputs, keys)
        messages == [i \in DOMAIN expected |-> expected[i].message]
        matched == match_restore_response(answer.outputs, answer.signatures, messages)
    IN  IF ~matched.ok THEN SwapErr
        ELSE complete_exact_signatures(matched.value, expected, keys)

complete_funding_restore(answer, amounts, keys) ==
    complete_role_restore(answer, get_secrets_with_blinding("funding", amounts), keys)

complete_plain_change_restore(answer, change, keys) ==
    complete_role_restore(answer, change, keys)

-----------------------------------------------------------------------------
(* Mutant: the proofs are not compared with the outputs one by one. *)
verify_valid_channel_total(proofs, params) ==
    LET expected == get_secrets_with_blinding("funding", params.amounts)
    IN  /\ params.id_matches_keys
        /\ \A i \in DOMAIN proofs : proofs[i].spendable /\ proofs[i].keyset = params.keyset
        /\ Total(proofs) = Total(expected)
        /\ Len(proofs) = Len(expected)

(* The receiver's check of an opened channel.  A funding proof carries the  *)
(* blinding of its output in its DLEQ; params is its keyset, whether the    *)
(* keyset's id matches its keys, and the funding amounts.                   *)
verify_valid_channel(proofs, params) ==
    LET expected == get_secrets_with_blinding("funding", params.amounts)
    IN  /\ params.id_matches_keys
        /\ \A i \in DOMAIN proofs :
              /\ ~proofs[i].spent_metadata
              /\ proofs[i].spendable /\ proofs[i].keyset = params.keyset
              /\ i \in DOMAIN expected => proofs[i].r = expected[i]
        /\ Total(proofs) = Total(expected)
        /\ Len(proofs) = Len(expected)
        /\ \A i \in DOMAIN proofs :
              /\ proofs[i].secret = expected[i]
              /\ proofs[i].amount = expected[i].amount

(* EstablishedChannel::new. *)
EstablishedChannel_new(proofs, params) ==
    /\ \A i \in DOMAIN proofs : proofs[i].keyset = params.keyset
    /\ Total(proofs) = SumOf(params.amounts)

(* Mutant: only index 0 of each amount is asked for. *)
restore_sender_proofs_first(issued, amounts, r, keysets) ==
    LET point(a) == [output |-> [context |-> "sender", amount |-> a, index |-> 0], r |-> r]
        all == {point(a) : a \in amounts} \cap DOMAIN issued
    IN  IF \E p \in all : issued[p] \notin keysets THEN SwapErr
        ELSE SwapOk({p.output : p \in all})

(* The sender's discovery after a close it has no answer of: per amount,    *)
(* ask for index 0, 1, ... until the mint knows none.  issued maps the      *)
(* points the mint signed to the keyset it signed them with.                *)
restore_sender_proofs(issued, amounts, r, keysets) ==
    LET point(a, n) == [output |-> [context |-> "sender", amount |-> a, index |-> n], r |-> r]
        found(a) ==
            LET from[n \in Nat] ==
                    IF point(a, n) \notin DOMAIN issued THEN {}
                    ELSE {point(a, n)} \cup from[n + 1]
            IN  from[0]
        all == UNION {found(a) : a \in amounts}
    IN  IF \E p \in all : issued[p] \notin keysets THEN SwapErr
        ELSE SwapOk({p.output : p \in all})

-----------------------------------------------------------------------------
(* An answer on its way. *)

VARIABLES job,      \* the swap: its outputs, its mode, its keyset
          answer,   \* what arrives: [r, outputs, signatures]
          faults    \* what happened to it, in order

swapVars == << job, answer, faults >>

(* The amounts of a job are a commitment's two shares, or an opening's      *)
(* funding and change.                                                      *)
FundingOf(j) == get_secrets_with_blinding("funding", j.first)

ChangeOf(j) == get_secrets_with_blinding("change", j.second)

CommitmentOf(j) ==
    [receiver |-> j.first, sender |-> j.second, rerandomized |-> j.rerandomized]

Request(j) ==
    IF j.opening
    THEN [outputs |-> LET prepared == parse_prepared_outputs(FundingOf(j) \o ChangeOf(j), j.keyset)
                      IN  [i \in DOMAIN prepared |-> prepared[i].message],
          rerandomized |-> FALSE]
    ELSE create_swap_request(CommitmentOf(j), j.keyset)

(* The mint's signature on a blinded message. *)
Signed(message) ==
    [amount |-> message.amount, keyset |-> message.keyset, on |-> message.point, dleq |-> "right"]

(* The mint signs every output of the request, tweaked by the randomness    *)
(* it chose; a restore returns the signed outputs beside the signatures.    *)
MintAnswer(outputs, r) ==
    LET issued == IF r = NoR THEN outputs ELSE tweak_swap_outputs(r, outputs)
    IN  [r |-> r, outputs |-> issued,
         signatures |-> [i \in DOMAIN issued |-> Signed(issued[i])]]

SwapInit ==
    /\ \E opening, mode \in BOOLEAN, first, second \in Splits, ks \in Keysets :
          /\ first \o second # << >>
          /\ opening => ~mode
          /\ job = [opening |-> opening, rerandomized |-> mode,
                    first |-> first, second |-> second, keyset |-> ks]
    /\ \E r \in (IF job.rerandomized THEN Randomness ELSE {NoR}) :
          answer = MintAnswer(Request(job).outputs, r)
    /\ faults = << >>

Arrives(changed, fault) ==
    /\ Len(faults) < MaxFaults
    /\ answer' = changed
    /\ faults' = Append(faults, fault)
    /\ UNCHANGED job

Exchange(s, i, j) == [s EXCEPT ![i] = s[j], ![j] = s[i]]

PairsOf(a) == DOMAIN a.outputs \cap DOMAIN a.signatures

PairsReordered == \E i, j \in PairsOf(answer) :
    /\ i < j
    /\ Arrives([answer EXCEPT !.outputs = Exchange(@, i, j),
                             !.signatures = Exchange(@, i, j)], "pairs_reordered")

SignaturesReordered == \E i, j \in DOMAIN answer.signatures :
    /\ i < j
    /\ Arrives([answer EXCEPT !.signatures = Exchange(@, i, j)], "signatures_reordered")

PairLost == \E i \in PairsOf(answer) :
    Arrives([answer EXCEPT !.outputs = RemoveAt(@, i), !.signatures = RemoveAt(@, i)], "pair_lost")

SignatureLost == \E i \in DOMAIN answer.signatures :
    Arrives([answer EXCEPT !.signatures = RemoveAt(@, i)], "signature_lost")

PairRepeated == \E i, j \in PairsOf(answer) :
    /\ i # j
    /\ Arrives([answer EXCEPT !.outputs[j] = answer.outputs[i],
                             !.signatures[j] = answer.signatures[i]], "pair_repeated")

DleqDamaged == \E i \in DOMAIN answer.signatures, how \in {"wrong", "missing"} :
    Arrives([answer EXCEPT !.signatures[i].dleq = how], "dleq_damaged")

(* A stale answer: issued under another randomness or another keyset. *)
AnotherAnswer == \E r \in Randomness \cup {NoR}, ks \in Keysets :
    LET other == MintAnswer(Request([job EXCEPT !.keyset = ks]).outputs, r)
    IN  other # answer /\ Arrives(other, "another_answer")

RandomnessLost == \E r \in Randomness \cup {NoR} :
    r # answer.r /\ Arrives([answer EXCEPT !.r = r], "randomness_lost")

SwapNext ==
    \/ PairsReordered
    \/ SignaturesReordered
    \/ PairLost
    \/ SignatureLost
    \/ PairRepeated
    \/ DleqDamaged
    \/ AnotherAnswer
    \/ RandomnessLost

SwapSpec == SwapInit /\ [][SwapNext]_swapVars

-----------------------------------------------------------------------------
Commitment == CommitmentOf(job)

FromSwap == commitment_complete_swap_response(Commitment, answer, job.keyset)

FromRestore ==
    complete_swap_restore(Request(job), PreparedCommitment(Commitment, job.keyset),
                          answer.r, answer, job.keyset)

FromOpening ==
    complete_exact_opening_signatures(answer.signatures, FundingOf(job), ChangeOf(job),
                                      job.keyset, {Request(job).outputs})

(* The proofs at these positions are the outputs of a party, each of them   *)
(* once, and spendable.                                                     *)
AllOf(proofs, at, outputs) ==
    /\ \A i \in at : proofs[i].spendable
    /\ \A i, j \in at : proofs[i].secret = proofs[j].secret => i = j
    /\ {proofs[i].secret : i \in at} = Range(outputs)

(* Whatever arrives for a swap, what its completion accepts is the whole    *)
(* settlement (complete_swap_response: every output of both parties, each   *)
(* labelled with the party whose key locks it) or the whole opening         *)
(* (complete_exact_opening_signatures: the funding proofs in one part, the  *)
(* change in the other), and every proof of it is spendable.                *)
AcceptedIsWhole ==
    /\ ~job.opening /\ FromSwap.ok =>
        LET labelled == FromSwap.value
            proofs == [i \in DOMAIN labelled |-> labelled[i].proof]
            at(flag) == {i \in DOMAIN labelled : labelled[i].is_receiver = flag}
        IN  /\ AllOf(proofs, at(TRUE), get_secrets_with_blinding("receiver", job.first))
            /\ AllOf(proofs, at(FALSE), get_secrets_with_blinding("sender", job.second))
    /\ job.opening /\ FromOpening.ok =>
        LET proofs == FromOpening.value
        IN  /\ AllOf(proofs.funding, DOMAIN proofs.funding, FundingOf(job))
            /\ AllOf(proofs.change, DOMAIN proofs.change, ChangeOf(job))

(* A restore (complete_swap_restore) yields the proofs that the swap        *)
(* response would have yielded, in the order of the request, however the    *)
(* mint orders its pairs; it reports absence only for an answer with        *)
(* nothing in it; and there is nothing between the two.                     *)
RestoreIsExact ==
    LET honest == MintAnswer(Request(job).outputs, answer.r)
        swapped == commitment_complete_swap_response(Commitment, honest, job.keyset)
        proofs == [i \in DOMAIN swapped.value |-> swapped.value[i].proof]
    IN  ~job.opening =>
        /\ Range(faults) \subseteq {"pairs_reordered"} => FromRestore = SwapOk(proofs)
        /\ FromRestore.ok =>
            IF answer.outputs = << >> THEN FromRestore.value = << >>
            ELSE FromRestore.value = proofs

(* The opening and the receiver agree on what funds a channel: of all the   *)
(* proofs an opening yields, verify_valid_channel takes the funding proofs  *)
(* in their order and nothing else; the channel is then established; and    *)
(* the two restores of an opening recover the proofs of its response.       *)
OpeningVerifies ==
    LET n == Len(job.first)
        cut(from, to) == [outputs |-> SubSeq(answer.outputs, from, to),
                          signatures |-> SubSeq(answer.signatures, from, to)]
        params == [keyset |-> job.keyset, id_matches_keys |-> TRUE, amounts |-> job.first]
        proofs == FromOpening.value
    IN  job.opening /\ FromOpening.ok =>
        /\ \A p \in {proofs.funding, Reverse(proofs.funding), proofs.change,
                     proofs.funding \o proofs.change, proofs.funding \o proofs.funding} :
              verify_valid_channel(p, params) <=> p = proofs.funding
        /\ EstablishedChannel_new(proofs.funding, params)
        /\ faults = << >> =>
            /\ complete_funding_restore(cut(1, n), job.first, job.keyset)
                    = SwapOk(proofs.funding)
            /\ complete_plain_change_restore(cut(n + 1, Len(answer.outputs)),
                                             ChangeOf(job), job.keyset)
                    = SwapOk(proofs.change)

(* After a close the sender has no answer of, restore_sender_proofs finds   *)
(* every output of the sender and none of the receiver's, whichever         *)
(* retained keyset the receiver closed with; without that keyset it fails   *)
(* rather than return a part.                                               *)
DiscoveryFindsAll ==
    LET outputs == MintAnswer(Request(job).outputs, answer.r).outputs
        issued == [p \in {outputs[i].point : i \in DOMAIN outputs} |-> job.keyset]
        denominations == UNION {Range(s) : s \in Splits}
        mine == Range(get_secrets_with_blinding("sender", job.second))
    IN  ~job.opening =>
        /\ restore_sender_proofs(issued, denominations, answer.r, Keysets) = SwapOk(mine)
        /\ mine # {} =>
            ~restore_sender_proofs(issued, denominations, answer.r, Keysets \ {job.keyset}).ok
=============================================================================
