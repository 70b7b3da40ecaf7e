----------------------------- MODULE ChannelKeys -----------------------------
(***************************************************************************)
(* The keys of a channel: the shared channel secret, the channel id, the   *)
(* blinded keys of the funding output and of each commitment output, and   *)
(* the paths by which a signature is made and checked.                     *)
(*                                                                         *)
(* The curve is a group of odd order Q, a point is its discrete logarithm, *)
(* and a point's Y is odd when the logarithm is: of a point and its        *)
(* negative exactly one is odd, which is all the code relies on.  A hash   *)
(* is whatever it is: its first and its retried candidate are drawn from   *)
(* 0..Q, both ends of which are no scalar.                                 *)
(***************************************************************************)
EXTENDS Naturals, FiniteSets

CONSTANTS Q,        \* the order of the group
          MaxDraws  \* how many hashes of a channel may fall anywhere

ASSUME OrderAssumption == Q \in Nat /\ Q % 2 = 1 /\ Q > 2

KeyOk(v) == [ok |-> TRUE, value |-> v]

KeyErr == [ok |-> FALSE]

Scalars == 1..(Q - 1)

Odd(point) == point % 2 = 1

Negate(point) == Q - point

XOnly(point) == IF Odd(point) THEN Negate(point) ELSE point

(* add_tweak and add_exp_tweak of secp256k1: zero is an error. *)
add_tweak(k, r) == IF (k + r) % Q = 0 THEN KeyErr ELSE KeyOk((k + r) % Q)

-----------------------------------------------------------------------------
(* Hashing to a scalar: the candidate, else the one of input || 0xff. *)
hash_to_secp_scalar(candidates) ==
    IF candidates[1] \in Scalars THEN KeyOk(candidates[1])
    ELSE IF candidates[2] \in Scalars THEN KeyOk(candidates[2])
    ELSE KeyErr

(* ECDH, then HKDF: a value only the shared point determines. *)
compute_channel_secret(my_secret, their_pubkey) == << "hkdf", (my_secret * their_pubkey) % Q >>

(* Mutant: a secret whose point has an odd Y is not negated first. *)
derive_blinded_secret_key_unnegated(secret, r) == add_tweak(secret, r)

derive_blinded_secret_key(secret, r) ==
    add_tweak(IF Odd(secret) THEN Negate(secret) ELSE secret, r)

derive_blinded_pubkey(pubkey, r) ==
    add_tweak(IF Odd(pubkey) THEN Negate(pubkey) ELSE pubkey, r)

-----------------------------------------------------------------------------
(* Identity.  terms are the public terms of a channel that its JSON lists   *)
(* besides the keys and the mode.                                           *)

new_with_secret_key(terms, sender, receiver, my_secret) ==
    IF my_secret \notin {sender, receiver} THEN KeyErr
    ELSE KeyOk([terms |-> terms, sender |-> sender, receiver |-> receiver,
                mode |-> "ordinary",
                channel_secret |-> compute_channel_secret(
                    my_secret, IF my_secret = sender THEN receiver ELSE sender)])

with_commitment_mode(params, mode) == [params EXCEPT !.mode = mode]

(* The TLV stream has every field, the mode only when it is not ordinary. *)
channel_id_tlv_stream(params) ==
    [terms |-> params.terms, sender |-> params.sender, receiver |-> params.receiver,
     secret |-> params.channel_secret,
     records |-> IF params.mode = "rerandomized" THEN {26} ELSE {}]

get_channel_id(params) == channel_id_tlv_stream(params)

(* Mutant: the commitment mode is never written. *)
get_channel_id_params_json_without_mode(params) ==
    [terms |-> params.terms, sender |-> params.sender, receiver |-> params.receiver,
     commitment_mode |-> {}]

(* The JSON the parties exchange leaves out the channel secret. *)
get_channel_id_params_json(params) ==
    [terms |-> params.terms, sender |-> params.sender, receiver |-> params.receiver,
     commitment_mode |-> IF params.mode = "rerandomized" THEN {params.mode} ELSE {}]

(* An unknown mode is an error, a missing one is ordinary; keyset is what   *)
(* the reader knows of the keyset that the terms name.                      *)
from_json_with_channel_secret(json, keyset, channel_secret) ==
    IF \/ keyset # json.terms
       \/ ~(json.commitment_mode \subseteq {"ordinary", "rerandomized"})
    THEN KeyErr
    ELSE KeyOk(with_commitment_mode(
                   [terms |-> json.terms, sender |-> json.sender, receiver |-> json.receiver,
                    mode |-> "ordinary", channel_secret |-> channel_secret],
                   IF json.commitment_mode = {} THEN "ordinary"
                   ELSE CHOOSE m \in json.commitment_mode : TRUE))

from_json_with_secret_key(json, keyset, my_secret) ==
    IF my_secret \notin {json.sender, json.receiver} THEN KeyErr
    ELSE from_json_with_channel_secret(json, keyset,
             compute_channel_secret(my_secret, IF my_secret = json.sender
                                               THEN json.receiver ELSE json.sender))

-----------------------------------------------------------------------------
(* Blinded keys.  draw gives the candidates of the hash in question, which  *)
(* both parties compute from the same channel id and secret.                *)

derive_blinding_scalar(draw) == hash_to_secp_scalar(draw)

Stage1Pubkey(pubkey, draw) ==
    LET r == derive_blinding_scalar(draw)
    IN  IF r.ok THEN derive_blinded_pubkey(pubkey, r.value) ELSE KeyErr

Stage1Secret(secret, draw) ==
    LET r == derive_blinding_scalar(draw)
    IN  IF r.ok THEN derive_blinded_secret_key(secret, r.value) ELSE KeyErr

derive_stage2_p2bk_ephemeral_secret_for_output(draw) == hash_to_secp_scalar(draw)

(* The x coordinate of a shared point. *)
derive_nut28_shared_secret_x(pubkey, secret) == XOnly((pubkey * secret) % Q)

(* draws[2] is the hash of each x coordinate. *)
derive_nut28_P2BK_shared_secret_scalar(draws, zx) == hash_to_secp_scalar(draws[2][zx])

stage2_tweak_info_for_role(role_pubkey, draws) ==
    LET e == derive_stage2_p2bk_ephemeral_secret_for_output(draws[1])
        tweak == derive_nut28_P2BK_shared_secret_scalar(
                     draws, derive_nut28_shared_secret_x(role_pubkey, e.value))
    IN  IF ~e.ok \/ ~tweak.ok THEN KeyErr
        ELSE KeyOk([ephemeral_pubkey |-> e.value, tweak |-> tweak.value])

Stage2Pubkey(role_pubkey, draws) ==
    LET info == stage2_tweak_info_for_role(role_pubkey, draws)
    IN  IF info.ok THEN derive_blinded_pubkey(role_pubkey, info.value.tweak) ELSE KeyErr

Stage2Secret(role_secret, draws) ==
    LET info == stage2_tweak_info_for_role(role_secret, draws)
    IN  IF info.ok THEN derive_blinded_secret_key(role_secret, info.value.tweak) ELSE KeyErr

-----------------------------------------------------------------------------
(* Signing and checking.  A BIP-340 signature by k over m is good for the   *)
(* x coordinate of k's point.                                               *)

Schnorr(m, k) == [message |-> m, x |-> XOnly(k)]

sign_sig_all(m, blinded) == IF blinded.ok THEN KeyOk(Schnorr(m, blinded.value)) ELSE KeyErr

(* The external signer gets the message and the tweak, never the blinded key. *)
sign_with_tweaked_key_util(secret, m, tweak) ==
    LET tweaked == add_tweak(IF Odd(secret) THEN Negate(secret) ELSE secret, tweak)
    IN  IF tweaked.ok THEN KeyOk(Schnorr(m, tweaked.value)) ELSE KeyErr

verify_swap_signature(m, pubkey, signature) ==
    signature = [message |-> m, x |-> XOnly(pubkey)]

(* create_signed_balance_update of the sender: in-process. *)
create_signed_balance_update(m, alice, draw) == sign_sig_all(m, Stage1Secret(alice, draw))

(* create_unsigned_balance_update, then the host's signer, then             *)
(* attach_signature_to_balance_update: one witness on the first input.      *)
create_unsigned_balance_update(m, draw) ==
    LET r == derive_blinding_scalar(draw)
    IN  IF r.ok THEN KeyOk([message |-> m, tweak |-> r.value]) ELSE KeyErr

attach_signature_to_first_input(witness, signature) == witness \cup {signature}

from_signed_swap_request(witness) ==
    IF \E s \in witness : witness = {s} THEN KeyOk(CHOOSE s \in witness : TRUE) ELSE KeyErr

attach_signature_to_balance_update(signature) ==
    from_signed_swap_request(attach_signature_to_first_input({}, signature))

ExternallySigned(m, alice, draw) ==
    LET unsigned == create_unsigned_balance_update(m, draw)
        signed == sign_with_tweaked_key_util(alice, unsigned.value.message, unsigned.value.tweak)
    IN  IF ~unsigned.ok \/ ~signed.ok THEN KeyErr
        ELSE attach_signature_to_balance_update(signed.value)

(* The receiver rebuilds the request of the claimed balance. *)
verify_sender_signature(m, alice_pubkey, draw, signature) ==
    LET key == Stage1Pubkey(alice_pubkey, draw)
    IN  key.ok /\ verify_swap_signature(m, key.value, signature)

(* A recovered output of the sender is signed for its own stage 2 key and   *)
(* carries the ephemeral key.                                               *)
sign_sender_close_proof(alice, draws) ==
    LET info == stage2_tweak_info_for_role(alice, draws)
        signature == sign_with_tweaked_key_util(alice, "proof", info.value.tweak)
    IN  IF ~info.ok \/ ~signature.ok THEN KeyErr
        ELSE KeyOk([p2pk_e |-> info.value.ephemeral_pubkey, witness |-> signature.value])

-----------------------------------------------------------------------------
(* The funding output's secret and the mint's check of a spend (NUT-11,     *)
(* external): both parties, or the refund key once the locktime has passed. *)

new_funding(sender, receiver, draws3) ==
    LET keys == [data |-> Stage1Pubkey(sender, draws3.sender_stage1),
                 pubkeys |-> Stage1Pubkey(receiver, draws3.receiver_stage1),
                 refund |-> Stage1Pubkey(sender, draws3.sender_stage1_refund)]
    IN  IF keys.data.ok /\ keys.pubkeys.ok /\ keys.refund.ok
        THEN KeyOk([data |-> keys.data.value, pubkeys |-> keys.pubkeys.value,
                    refund |-> keys.refund.value])
        ELSE KeyErr

MintAcceptsSpend(m, secret, signatures, expired) ==
    LET by(key) == \E s \in signatures : verify_swap_signature(m, key, s)
    IN  (by(secret.data) /\ by(secret.pubkeys)) \/ (expired /\ by(secret.refund))

-----------------------------------------------------------------------------
(* A channel of two parties, and hashes that fall anywhere. *)

VARIABLES parties,  \* the two secret keys and the commitment mode
          hash      \* the candidates of each hash of the channel

keyVars == << parties, hash >>

Stage1Contexts == {"sender_stage1", "receiver_stage1", "sender_stage1_refund"}

Unremarkable == << 1, 1 >>

(* A hash and its retry: the retry matters when the first is no scalar. *)
Candidates == ((0..Q) \X {1}) \cup ({0, Q} \X (0..Q))

KeysInit ==
    /\ \E alice, charlie \in Scalars, mode \in {"ordinary", "rerandomized"} :
          parties = [alice |-> alice, charlie |-> charlie, mode |-> mode]
    /\ hash = [label \in Stage1Contexts \cup {"ephemeral", "nut28"} |-> Unremarkable]

HashFalls == \E label \in DOMAIN hash, c \in Candidates \ {Unremarkable} :
    /\ hash[label] = Unremarkable
    /\ Cardinality({l \in DOMAIN hash : hash[l] # Unremarkable}) < MaxDraws
    /\ hash' = [hash EXCEPT ![label] = c]
    /\ UNCHANGED parties

KeysSpec == KeysInit /\ [][HashFalls]_keyVars

-----------------------------------------------------------------------------
Alice == parties.alice

Charlie == parties.charlie

(* The parameters the sender opens the channel with. *)
SenderParams ==
    with_commitment_mode(new_with_secret_key("terms", Alice, Charlie, Alice).value, parties.mode)

(* The stage 2 hashes: the one of an x coordinate depends on it. *)
Draws2 == << hash.ephemeral,
             [x \in Scalars |-> << (hash.nut28[1] + x) % (Q + 1), hash.nut28[2] >>] >>

(* The receiver, reading the JSON of the sender's parameters with its own   *)
(* secret key, has the same channel secret and the same channel id as the   *)
(* sender, in either commitment mode; no one else's key reads it; and the   *)
(* other mode or a swap of the roles is another channel.                    *)
PartiesAgree ==
    LET json == get_channel_id_params_json(SenderParams)
        read(k) == from_json_with_secret_key(json, "terms", k)
        other == IF parties.mode = "ordinary" THEN "rerandomized" ELSE "ordinary"
    IN  /\ read(Charlie) = KeyOk(SenderParams)
        /\ read(Alice) = KeyOk(SenderParams)
        /\ \A k \in Scalars \ {Alice, Charlie} : ~read(k).ok
        /\ get_channel_id(with_commitment_mode(SenderParams, other))
               # get_channel_id(SenderParams)
        /\ Alice # Charlie =>
              get_channel_id(new_with_secret_key("terms", Charlie, Alice, Alice).value)
                  # get_channel_id(SenderParams)

(* Whenever a funding output can be made at all, it can be spent both ways: *)
(* the sender's balance signature, made in process or by an external        *)
(* signer, is the same and passes the receiver's check; with the receiver's *)
(* own it satisfies the mint; after expiry the sender's refund key does     *)
(* alone.  This is where the BIP-340 parity rule must match on all sides.   *)
FundingSpendable ==
    LET funding == new_funding(Alice, Charlie, hash)
        balance == create_signed_balance_update("balance", Alice, hash.sender_stage1)
        receiver == Stage1Secret(Charlie, hash.receiver_stage1)
        refund == Stage1Secret(Alice, hash.sender_stage1_refund)
    IN  funding.ok =>
        /\ balance.ok /\ receiver.ok /\ refund.ok
        /\ ExternallySigned("balance", Alice, hash.sender_stage1) = balance
        /\ verify_sender_signature("balance", Alice, hash.sender_stage1, balance.value)
        /\ MintAcceptsSpend("balance", funding.value,
               {balance.value, sign_sig_all("balance", receiver).value}, FALSE)
        /\ MintAcceptsSpend("refund", funding.value,
               {sign_sig_all("refund", refund).value}, TRUE)

(* A commitment output locked to a party can be spent by that party from    *)
(* its long-term key and the p2pk_e on the proof alone, and the witness     *)
(* sign_sender_close_proof attaches is good for that lock.                  *)
Stage2Spendable ==
    \A p \in {Alice, Charlie} :
        LET locked == Stage2Pubkey(p, Draws2)
            info == stage2_tweak_info_for_role(p, Draws2)
            mine == derive_nut28_P2BK_shared_secret_scalar(
                        Draws2, derive_nut28_shared_secret_x(info.value.ephemeral_pubkey, p))
            closed == sign_sender_close_proof(p, Draws2)
        IN  locked.ok =>
            /\ mine = KeyOk(info.value.tweak)
            /\ Stage2Secret(p, Draws2).ok
            /\ XOnly(Stage2Secret(p, Draws2).value) = XOnly(locked.value)
            /\ closed.ok /\ closed.value.p2pk_e = info.value.ephemeral_pubkey
            /\ verify_swap_signature("proof", locked.value, closed.value.witness)

(* Every output of a channel can be spent by those it is locked to.         *)
(* Whenever the hashes let a funding output be made, the sender's balance   *)
(* signature (in process or from an external signer) passes the receiver's  *)
(* check and, with the receiver's, the mint's; the refund key alone does    *)
(* after expiry; and each party can spend its commitment outputs from its   *)
(* long-term key and the p2pk_e on the proof.  This is where the BIP-340    *)
(* parity rule must match on all sides.                                     *)
OutputsSpendable == FundingSpendable /\ Stage2Spendable
=============================================================================
