------------------------ MODULE KeysAndStorageProofs ------------------------
(***************************************************************************)
(* What a party keeps: the keys of its channels (ChannelKeys), the mint's  *)
(* keysets (KeysetCache) and, on the receiver's side, the state of every   *)
(* channel (MemoryStorage).                                                *)
(***************************************************************************)
EXTENDS ChannelKeys, KeysetCache, MemoryStorage, TLAPS

-----------------------------------------------------------------------------
(***************************************************************************)
(* The keys of a channel, for every order of the group, every pair of keys *)
(* and either mode.  The only invariant is that the parties never change:  *)
(* what the theorems say holds for every value of the hashes.              *)
(***************************************************************************)

(* The parties and their mode are fixed when the channel is opened. *)
KeysTypeOK ==
    \E alice, charlie \in Scalars, mode \in {"ordinary", "rerandomized"} :
        parties = [alice |-> alice, charlie |-> charlie, mode |-> mode]

(* derive_blinded_secret_key and derive_blinded_pubkey follow one parity    *)
(* rule, so a stage 1 secret is that of the stage 1 public key.             *)
LEMMA Stage1KeysMatch ==
  ASSUME NEW k, NEW draw
  PROVE  Stage1Secret(k, draw) = Stage1Pubkey(k, draw)
BY DEF Stage1Secret, Stage1Pubkey, derive_blinded_secret_key, derive_blinded_pubkey

(* The same for stage 2. *)
LEMMA Stage2KeysMatch ==
  ASSUME NEW k, NEW draws
  PROVE  Stage2Secret(k, draws) = Stage2Pubkey(k, draws)
BY DEF Stage2Secret, Stage2Pubkey, derive_blinded_secret_key, derive_blinded_pubkey

(* Both ends of an ECDH have the same point. *)
LEMMA SharedPoint ==
  ASSUME NEW a \in Nat, NEW b \in Nat
  PROVE  (a * b) % Q = (b * a) % Q
<1>1. a * b = b * a
  OBVIOUS
<1> QED BY <1>1

(* An external signer's signature is the in-process one. *)
LEMMA ExternalIsInProcess ==
  ASSUME NEW m, NEW k, NEW draw
  PROVE  ExternallySigned(m, k, draw) = create_signed_balance_update(m, k, draw)
<1> DEFINE r == derive_blinding_scalar(draw)
           u == create_unsigned_balance_update(m, draw)
           s == sign_with_tweaked_key_util(k, u.value.message, u.value.tweak)
           t == derive_blinded_secret_key(k, r.value)
<1>1. \A x : attach_signature_to_balance_update(x) = KeyOk(x)
  <2> TAKE x
  <2>1. attach_signature_to_first_input({}, x) = {x}
    BY DEF attach_signature_to_first_input
  <2>2. \E y \in {x} : {x} = {y}
    OBVIOUS
  <2>3. (CHOOSE y \in {x} : TRUE) = x
    OBVIOUS
  <2> QED BY <2>1, <2>2, <2>3 DEF attach_signature_to_balance_update, from_signed_swap_request
<1>2. r.ok \in BOOLEAN
  BY DEF derive_blinding_scalar, hash_to_secp_scalar, KeyOk, KeyErr
<1>3. CASE ~r.ok
  <2>1. u = KeyErr /\ Stage1Secret(k, draw) = KeyErr
    BY <1>3 DEF create_unsigned_balance_update, Stage1Secret
  <2> QED BY <2>1 DEF ExternallySigned, create_signed_balance_update, sign_sig_all, KeyErr
<1>4. CASE r.ok
  <2>1. u = KeyOk([message |-> m, tweak |-> r.value]) /\ Stage1Secret(k, draw) = t
    BY <1>4 DEF create_unsigned_balance_update, Stage1Secret
  <2>2. u.ok /\ u.value.message = m /\ u.value.tweak = r.value
    BY <2>1 DEF KeyOk
  <2>3. s = IF t.ok THEN KeyOk(Schnorr(m, t.value)) ELSE KeyErr
    BY <2>2 DEF sign_with_tweaked_key_util, derive_blinded_secret_key
  <2>4. create_signed_balance_update(m, k, draw) = s
    BY <2>1, <2>3 DEF create_signed_balance_update, sign_sig_all
  <2>5. t.ok \in BOOLEAN
    BY DEF derive_blinded_secret_key, add_tweak, KeyOk, KeyErr
  <2>6. CASE t.ok
    <3>1. s = KeyOk(Schnorr(m, t.value)) /\ s.ok /\ s.value = Schnorr(m, t.value)
      BY <2>3, <2>6 DEF KeyOk
    <3> QED BY <3>1, <2>2, <2>4, <1>1 DEF ExternallySigned
  <2>7. CASE ~t.ok
    <3>1. s = KeyErr /\ ~s.ok
      BY <2>3, <2>7 DEF KeyErr
    <3> QED BY <3>1, <2>2, <2>4 DEF ExternallySigned
  <2> QED BY <2>5, <2>6, <2>7
<1> QED BY <1>2, <1>3, <1>4

(* The parties of a channel never change. *)
THEOREM KeysType == KeysSpec => []KeysTypeOK
<1>1. KeysInit => KeysTypeOK
  BY DEF KeysInit, KeysTypeOK
<1>2. KeysTypeOK /\ [HashFalls]_keyVars => KeysTypeOK'
  BY Zenon DEF KeysTypeOK, HashFalls, keyVars
<1> QED BY <1>1, <1>2, PTL DEF KeysSpec

(* The two parties agree on the channel secret, the parameters and the     *)
(* channel id (PartiesAgree), for every order of the group, every pair of   *)
(* keys and either mode: the params JSON restores the parameters of both,   *)
(* a third key gets nothing from it, and the id tells the modes and the     *)
(* roles apart.                                                             *)
THEOREM PartiesAlwaysAgree == KeysSpec => []PartiesAgree
<1>1. KeysTypeOK => PartiesAgree
  <2> SUFFICES ASSUME NEW a \in Scalars, NEW c \in Scalars,
                      NEW mode \in {"ordinary", "rerandomized"},
                      parties = [alice |-> a, charlie |-> c, mode |-> mode]
               PROVE  PartiesAgree
    BY Zenon DEF KeysTypeOK
  <2> DEFINE key == compute_channel_secret(a, c)
             P(m) == [terms |-> "terms", sender |-> a, receiver |-> c, mode |-> m,
                      channel_secret |-> key]
             json == get_channel_id_params_json(SenderParams)
  <2>1. Alice = a /\ Charlie = c /\ parties.mode = mode
    BY DEF Alice, Charlie
  <2>2. compute_channel_secret(c, a) = key
    BY SharedPoint, OrderAssumption DEF compute_channel_secret, Scalars
  <2>3. SenderParams = P(mode)
    <3>1. new_with_secret_key("terms", a, c, a) = KeyOk(P("ordinary"))
      BY DEF new_with_secret_key
    <3>2. new_with_secret_key("terms", a, c, a).value = P("ordinary")
      BY <3>1 DEF KeyOk
    <3> QED BY <2>1, <3>2 DEF SenderParams, with_commitment_mode
  <2>4. json = [terms |-> "terms", sender |-> a, receiver |-> c,
                commitment_mode |-> IF mode = "rerandomized" THEN {mode} ELSE {}]
    BY <2>3 DEF get_channel_id_params_json
  <2>5. json.terms = "terms" /\ json.sender = a /\ json.receiver = c
        /\ json.commitment_mode = IF mode = "rerandomized" THEN {mode} ELSE {}
    BY <2>4
  <2> HIDE DEF json
  <2>6. from_json_with_channel_secret(json, "terms", key) = KeyOk(P(mode))
    <3>1. json.commitment_mode \subseteq {"ordinary", "rerandomized"}
      BY <2>5
    <3>2. (IF json.commitment_mode = {} THEN "ordinary"
           ELSE CHOOSE m \in json.commitment_mode : TRUE) = mode
      <4>1. CASE mode = "ordinary"
        BY <4>1, <2>5
      <4>2. CASE mode = "rerandomized"
        <5>1. json.commitment_mode = {mode}
          BY <4>2, <2>5
        <5> QED BY <5>1
      <4> QED BY <4>1, <4>2
    <3> HIDE DEF key
    <3>3. with_commitment_mode([terms |-> "terms", sender |-> a, receiver |-> c,
                                mode |-> "ordinary", channel_secret |-> key], mode) = P(mode)
      BY DEF with_commitment_mode
    <3> QED BY <3>1, <3>2, <3>3, <2>5 DEF from_json_with_channel_secret
  <2>7. from_json_with_secret_key(json, "terms", a) = KeyOk(P(mode))
    BY <2>5, <2>6 DEF from_json_with_secret_key
  <2>8. from_json_with_secret_key(json, "terms", c) = KeyOk(P(mode))
    BY <2>2, <2>5, <2>6 DEF from_json_with_secret_key
  <2>9. \A k \in Scalars \ {a, c} : ~from_json_with_secret_key(json, "terms", k).ok
    BY <2>5 DEF from_json_with_secret_key, KeyErr
  <2> DEFINE other == IF mode = "ordinary" THEN "rerandomized" ELSE "ordinary"
  <2>10. get_channel_id(with_commitment_mode(SenderParams, other)) # get_channel_id(SenderParams)
    <3>1. with_commitment_mode(P(mode), other) = P(other)
      BY DEF with_commitment_mode
    <3>2. \A m : get_channel_id(P(m)).records = IF m = "rerandomized" THEN {26} ELSE {}
      BY DEF get_channel_id, channel_id_tlv_stream
    <3>3. (other = "rerandomized") # (mode = "rerandomized")
      OBVIOUS
    <3> QED BY <2>3, <3>1, <3>2, <3>3
  <2>11. a # c => get_channel_id(new_with_secret_key("terms", c, a, a).value)
                     # get_channel_id(SenderParams)
    <3> HAVE a # c
    <3>1. new_with_secret_key("terms", c, a, a).value.sender = c
      BY DEF new_with_secret_key, KeyOk
    <3>2. \A p : get_channel_id(p).sender = p.sender
      BY DEF get_channel_id, channel_id_tlv_stream
    <3>3. SenderParams.sender = a
      BY <2>3
    <3> QED BY <3>1, <3>2, <3>3
  <2> QED BY <2>1, <2>3, <2>7, <2>8, <2>9, <2>10, <2>11 DEF PartiesAgree, json
<1> QED BY <1>1, KeysType, PTL

(* What a key signs, verifies under its public key. *)
LEMMA SignedVerifies ==
  ASSUME NEW m, NEW key, key.ok
  PROVE  /\ sign_sig_all(m, key).ok
         /\ sign_sig_all(m, key).value = Schnorr(m, key.value)
         /\ verify_swap_signature(m, key.value, sign_sig_all(m, key).value)
BY DEF sign_sig_all, KeyOk, Schnorr, verify_swap_signature

(* FundingSpendable for all keys and hashes. *)
LEMMA FundingIsSpendable == FundingSpendable
<1> DEFINE funding == new_funding(Alice, Charlie, hash)
           balance == create_signed_balance_update("balance", Alice, hash.sender_stage1)
           ka == Stage1Pubkey(Alice, hash.sender_stage1)
           kc == Stage1Pubkey(Charlie, hash.receiver_stage1)
           kr == Stage1Pubkey(Alice, hash.sender_stage1_refund)
<1> SUFFICES ASSUME funding.ok
             PROVE  /\ balance.ok
                    /\ Stage1Secret(Charlie, hash.receiver_stage1).ok
                    /\ Stage1Secret(Alice, hash.sender_stage1_refund).ok
                    /\ verify_sender_signature("balance", Alice, hash.sender_stage1, balance.value)
                    /\ MintAcceptsSpend("balance", funding.value,
                          {balance.value,
                           sign_sig_all("balance", Stage1Secret(Charlie, hash.receiver_stage1)).value},
                          FALSE)
                    /\ MintAcceptsSpend("refund", funding.value,
                          {sign_sig_all("refund", Stage1Secret(Alice, hash.sender_stage1_refund)).value},
                          TRUE)
  BY ExternalIsInProcess, Zenon DEF FundingSpendable
<1>1. ka.ok /\ kc.ok /\ kr.ok
      /\ funding.value = [data |-> ka.value, pubkeys |-> kc.value, refund |-> kr.value]
  <2>1. CASE ka.ok /\ kc.ok /\ kr.ok
    BY <2>1 DEF new_funding, KeyOk
  <2>2. CASE ~(ka.ok /\ kc.ok /\ kr.ok)
    <3>1. funding = KeyErr
      BY <2>2 DEF new_funding
    <3> QED BY <3>1 DEF KeyErr
  <2> QED BY <2>1, <2>2
<1>2. funding.value.data = ka.value /\ funding.value.pubkeys = kc.value
      /\ funding.value.refund = kr.value
  BY <1>1
<1>3. balance = sign_sig_all("balance", ka)
  BY Stage1KeysMatch DEF create_signed_balance_update
<1>4. Stage1Secret(Charlie, hash.receiver_stage1) = kc
      /\ Stage1Secret(Alice, hash.sender_stage1_refund) = kr
  BY Stage1KeysMatch
<1> HIDE DEF funding, balance, ka, kc, kr
<1>5. balance.ok /\ verify_swap_signature("balance", ka.value, balance.value)
  BY <1>1, <1>3, SignedVerifies
<1>6. verify_swap_signature("balance", kc.value, sign_sig_all("balance", kc).value)
  BY <1>1, SignedVerifies
<1>7. verify_swap_signature("refund", kr.value, sign_sig_all("refund", kr).value)
  BY <1>1, SignedVerifies
<1>8. verify_sender_signature("balance", Alice, hash.sender_stage1, balance.value)
  BY <1>1, <1>5 DEF verify_sender_signature, ka
<1>9. MintAcceptsSpend("balance", funding.value,
                       {balance.value, sign_sig_all("balance", kc).value}, FALSE)
  BY <1>2, <1>5, <1>6 DEF MintAcceptsSpend
<1>10. MintAcceptsSpend("refund", funding.value, {sign_sig_all("refund", kr).value}, TRUE)
  BY <1>2, <1>7 DEF MintAcceptsSpend
<1> QED BY <1>1, <1>4, <1>5, <1>8, <1>9, <1>10, Zenon

(* Stage2Spendable for all keys and hashes. *)
LEMMA Stage2IsSpendable ==
  ASSUME KeysTypeOK
  PROVE  Stage2Spendable
<1> SUFFICES ASSUME NEW p \in {Alice, Charlie},
                    Stage2Pubkey(p, Draws2).ok
             PROVE  LET locked == Stage2Pubkey(p, Draws2)
                        info == stage2_tweak_info_for_role(p, Draws2)
                        mine == derive_nut28_P2BK_shared_secret_scalar(
                                  Draws2, derive_nut28_shared_secret_x(info.value.ephemeral_pubkey, p))
                        closed == sign_sender_close_proof(p, Draws2)
                    IN  /\ mine = KeyOk(info.value.tweak)
                        /\ Stage2Secret(p, Draws2).ok
                        /\ XOnly(Stage2Secret(p, Draws2).value) = XOnly(locked.value)
                        /\ closed.ok /\ closed.value.p2pk_e = info.value.ephemeral_pubkey
                        /\ verify_swap_signature("proof", locked.value, closed.value.witness)
  BY DEF Stage2Spendable
<1> DEFINE d == Draws2
           locked == Stage2Pubkey(p, d)
           info == stage2_tweak_info_for_role(p, d)
           e == derive_stage2_p2bk_ephemeral_secret_for_output(d[1])
           t == derive_nut28_P2BK_shared_secret_scalar(d, derive_nut28_shared_secret_x(p, e.value))
           closed == sign_sender_close_proof(p, d)
<1> HIDE DEF d
<1>1. p \in Nat
  BY OrderAssumption DEF KeysTypeOK, Alice, Charlie, Scalars
<1>2. info.ok /\ locked = derive_blinded_pubkey(p, info.value.tweak)
  <2>1. CASE info.ok
    BY <2>1 DEF Stage2Pubkey
  <2>2. CASE ~info.ok
    BY <2>2 DEF Stage2Pubkey, KeyErr, d
  <2> QED BY <2>1, <2>2
<1>3. e.ok /\ t.ok /\ info = KeyOk([ephemeral_pubkey |-> e.value, tweak |-> t.value])
  <2>1. CASE e.ok /\ t.ok
    BY <2>1 DEF stage2_tweak_info_for_role
  <2>2. CASE ~(e.ok /\ t.ok)
    <3>1. info = KeyErr
      BY <2>2 DEF stage2_tweak_info_for_role
    <3> QED BY <3>1, <1>2 DEF KeyErr
  <2> QED BY <2>1, <2>2
<1>4. info.value.ephemeral_pubkey = e.value /\ info.value.tweak = t.value
  BY <1>3, SMTT(30) DEF KeyOk
<1>5. e.value \in Scalars /\ t = KeyOk(t.value)
  BY <1>3 DEF derive_stage2_p2bk_ephemeral_secret_for_output,
              derive_nut28_P2BK_shared_secret_scalar, hash_to_secp_scalar, KeyOk, KeyErr
<1>6. derive_nut28_shared_secret_x(e.value, p) = derive_nut28_shared_secret_x(p, e.value)
  <2>1. e.value \in Nat
    BY <1>5, OrderAssumption DEF Scalars
  <2> QED BY <1>1, <2>1, SharedPoint DEF derive_nut28_shared_secret_x
<1>7. derive_nut28_P2BK_shared_secret_scalar(d, derive_nut28_shared_secret_x(e.value, p))
         = KeyOk(t.value)
  BY <1>5, <1>6
<1>8. Stage2Secret(p, d) = locked
  BY Stage2KeysMatch
<1> HIDE DEF e, t
<1>9. locked.ok
  BY DEF d
<1>10. sign_with_tweaked_key_util(p, "proof", info.value.tweak)
          = KeyOk(Schnorr("proof", locked.value))
  BY <1>2, <1>9 DEF sign_with_tweaked_key_util, derive_blinded_pubkey
<1> HIDE DEF info, locked
<1>11. closed = KeyOk([p2pk_e |-> info.value.ephemeral_pubkey,
                       witness |-> Schnorr("proof", locked.value)])
  <2>1. sign_with_tweaked_key_util(p, "proof", info.value.tweak).ok
        /\ sign_with_tweaked_key_util(p, "proof", info.value.tweak).value
              = Schnorr("proof", locked.value)
    BY <1>10 DEF KeyOk
  <2> QED BY <1>2, <2>1 DEF sign_sender_close_proof, info
<1>12. closed.ok /\ closed.value.p2pk_e = info.value.ephemeral_pubkey
       /\ closed.value.witness = Schnorr("proof", locked.value)
  BY <1>11 DEF KeyOk
<1>13. verify_swap_signature("proof", locked.value, closed.value.witness)
  BY <1>12 DEF verify_swap_signature, Schnorr
<1> QED BY <1>4, <1>7, <1>8, <1>9, <1>12, <1>13 DEF d, info, locked

(* Every output that can be locked can be spent by whom it is for           *)
(* (OutputsSpendable), whatever the hashes are: the funding by both parties *)
(* and by the refund, a commitment output by its party, in process or with  *)
(* an external signer.                                                      *)
THEOREM OutputsAlwaysSpendable == KeysSpec => []OutputsSpendable
<1>1. KeysTypeOK => OutputsSpendable
  BY FundingIsSpendable, Stage2IsSpendable DEF OutputsSpendable
<1> QED BY <1>1, KeysType, PTL

-----------------------------------------------------------------------------
(***************************************************************************)
(* The keyset cache for any mint, any keysets and metadata, any number of  *)
(* tasks refreshing the cache and of failed requests: whatever a swap is   *)
(* built from is what the mint publishes.                                  *)
(*                                                                         *)
(* An entry is used long after the listing it comes from, so the invariant *)
(* follows it from the listing (todo) to the keys that were verified       *)
(* (fetched) and the cache: its keyset is listed, of a supported version,  *)
(* and its information the mint's.                                         *)
(***************************************************************************)

(* What the mint publishes of a keyset. *)
Published(k) ==
    [id |-> k, unit |-> Meta[k].unit, fee |-> Meta[k].fee, expiry |-> Meta[k].expiry]

Entries == [id : KeysetIds, active : BOOLEAN]
Infos == {Published(k) : k \in KeysetIds}
Units == {Meta[k].unit : k \in KeysetIds}
Statuses == {"future", "active", "retired", "delisted"}
Steps == {"idle", "keys", "select", "pick", "submit"}
Jobs ==
    [step : Steps, todo : SUBSET Entries, fetched : SUBSET [entry : Entries, info : Infos],
     back : Steps, first : KeysetIds \cup {NoKeyset}, pick : SUBSET KeysetIds]

CacheTypes ==
    /\ kcStatus \in [KeysetIds -> Statuses]
    /\ kcCache \in [KeysetIds -> {NoKeyset} \cup
                                 [info : Infos, active : BOOLEAN, unit : Units]]
    /\ kcJob \in [Agents -> Jobs]
    /\ kcChosen.id \in KeysetIds \cup {NoKeyset}

(* A keyset a listing had. *)
Offered(k) == supported_keyset_id(k) /\ kcStatus[k] # "future"

ListedOffered(a) == \A e \in kcJob[a].todo : Offered(e.id)

FetchedVerified(a) ==
    \A f \in kcJob[a].fetched : Offered(f.entry.id) /\ f.info = Published(f.entry.id)

CacheVerified ==
    \A k \in KeysetIds : kcCache[k] # NoKeyset =>
        /\ Offered(k)
        /\ kcCache[k].unit = Meta[k].unit
        /\ kcCache[k].info = Published(k)

JobsVerified == \A a \in Agents : ListedOffered(a) /\ FetchedVerified(a)

CacheInv == CacheTypes /\ JobsVerified /\ CacheVerified /\ SelectionSound
-----------------------------------------------------------------------------
(* A listing has keysets that are no longer to come. *)
LEMMA ListingOffered ==
    ASSUME CacheTypes, NEW e \in KeysetDiscovery_from_json(Listing)
    PROVE  e \in Entries /\ Offered(e.id)
<1>1. PICK k \in KeysetIds :
          /\ kcStatus[k] \in {"active", "retired"}
          /\ e = [id |-> k, active |-> kcStatus[k] = "active"]
          /\ supported_keyset_id(e.id)
    BY DEF KeysetDiscovery_from_json, Listing
<1>2. e.id = k /\ e \in Entries
    BY <1>1 DEF Entries
<1>3. QED
    BY <1>1, <1>2 DEF Offered

(* A keys answer is taken only for what the mint publishes. *)
LEMMA InfoVerified ==
    ASSUME NEW k \in KeysetIds, NEW answer,
           NEW info \in build_keyset_info_from_responses(k, answer)
    PROVE  info = Published(k) /\ info \in Infos
    BY DEF build_keyset_info_from_responses, Published, Infos

(* An agent's job replaced by a good one. *)
GoodJob(job) ==
    /\ job \in Jobs
    /\ \A e \in job.todo : Offered(e.id)
    /\ \A f \in job.fetched : Offered(f.entry.id) /\ f.info = Published(f.entry.id)

(* An agent that goes on with verified entries leaves the jobs verified. *)
LEMMA JobReplaced ==
    ASSUME CacheInv, kcStatus' = kcStatus, NEW a \in Agents, NEW job, GoodJob(job), Job(a, job)
    PROVE  kcJob' \in [Agents -> Jobs] /\ JobsVerified'
<1>1. /\ kcJob \in [Agents -> Jobs] /\ job \in Jobs
      /\ kcJob' = [kcJob EXCEPT ![a] = job]
    BY Zenon DEF CacheInv, CacheTypes, GoodJob, Job
<1>2. kcJob' \in [Agents -> Jobs]
    BY <1>1, Zenon
<1>3. \A b \in Agents : kcJob'[b] = job \/ kcJob'[b] = kcJob[b]
    BY <1>1
<1>4. \A k : Offered(k)' = Offered(k)
    BY DEF Offered, supported_keyset_id
<1>5. ASSUME NEW b \in Agents PROVE ListedOffered(b)' /\ FetchedVerified(b)'
  <2>1. CASE kcJob'[b] = job
    BY <1>4, <2>1, Zenon DEF GoodJob, ListedOffered, FetchedVerified, Published
  <2>2. CASE kcJob'[b] = kcJob[b]
    BY <1>4, <2>2, Zenon DEF CacheInv, JobsVerified, ListedOffered, FetchedVerified, Published
  <2>3. QED
    BY <1>3, <2>1, <2>2
<1>6. QED
    BY <1>2, <1>5, Zenon DEF JobsVerified

(* An agent without a job holds nothing unverified. *)
LEMMA FreeGood == GoodJob(Free)
    BY DEF GoodJob, Free, Jobs, Steps

(* What an agent has in hand is verified. *)
LEMMA JobGood ==
    ASSUME CacheInv, NEW a \in Agents PROVE GoodJob(kcJob[a])
    BY Zenon DEF CacheInv, CacheTypes, JobsVerified, ListedOffered, FetchedVerified, GoodJob

(* A refresh starts from the listing. *)
LEMMA RefreshGood ==
    ASSUME CacheInv, kcStatus' = kcStatus, NEW a \in Agents, NEW job \in Jobs, Refresh(a, job)
    PROVE  kcJob' \in [Agents -> Jobs] /\ JobsVerified'
<1> DEFINE listed == KeysetDiscovery_from_json(Listing)
           started == [job EXCEPT !.step = "keys", !.todo = listed, !.fetched = {}]
<1>1. \A e \in listed : e \in Entries /\ Offered(e.id)
    BY ListingOffered, Zenon DEF CacheInv
<1> HIDE DEF listed
<1>2. "keys" \in Steps /\ listed \in SUBSET Entries
         /\ {} \in SUBSET [entry : Entries, info : Infos]
    BY <1>1, Zenon DEF Steps
<1>3. started \in Jobs
    BY <1>2, Zenon DEF Jobs
<1>4. started.todo = listed /\ started.fetched = {}
    BY DEF Jobs
<1> HIDE DEF started
<1>5. GoodJob(started)
    BY <1>1, <1>3, <1>4 DEF GoodJob
<1>6. Job(a, started)
    BY Zenon DEF Refresh, started, listed
<1>7. QED
    BY <1>5, <1>6, JobReplaced, Zenon

(* An entry that is stored is a verified one. *)
LEMMA StoredVerified ==
    ASSUME CacheInv, kcStatus' = kcStatus, NEW e \in Entries, NEW info \in Infos,
           Offered(e.id), info = Published(e.id), set_keyset(e, info)
    PROVE  /\ kcCache' \in [KeysetIds -> {NoKeyset} \cup
                                         [info : Infos, active : BOOLEAN, unit : Units]]
           /\ CacheVerified'
<1> DEFINE entry == [info |-> info, active |-> e.active, unit |-> Meta[e.id].unit]
<1>1. e.id \in KeysetIds /\ e.active \in BOOLEAN
    BY DEF Entries
<1>2. entry \in [info : Infos, active : BOOLEAN, unit : Units]
    BY <1>1 DEF Units
<1>3. entry.info = info /\ entry.unit = Meta[e.id].unit
    OBVIOUS
<1>4. kcCache' = [kcCache EXCEPT ![e.id] = entry]
    BY Zenon DEF set_keyset
<1> HIDE DEF entry
<1>5. kcCache \in [KeysetIds -> {NoKeyset} \cup
                                [info : Infos, active : BOOLEAN, unit : Units]]
    BY Zenon DEF CacheInv, CacheTypes
<1>6. kcCache' \in [KeysetIds -> {NoKeyset} \cup
                                 [info : Infos, active : BOOLEAN, unit : Units]]
    BY <1>2, <1>4, <1>5, Zenon
<1>7. \A k \in KeysetIds :
          (k = e.id /\ kcCache'[k] = entry) \/ kcCache'[k] = kcCache[k]
    BY <1>1, <1>4, <1>5
<1>8. \A k : Offered(k)' = Offered(k)
    BY DEF Offered, supported_keyset_id
<1>9. ASSUME NEW k \in KeysetIds, kcCache'[k] # NoKeyset
      PROVE  Offered(k)' /\ kcCache'[k].unit = Meta[k].unit /\ kcCache'[k].info = Published(k)
  <2>1. CASE k = e.id /\ kcCache'[k] = entry
    BY <1>3, <1>8, <2>1, Zenon
  <2>2. CASE kcCache'[k] = kcCache[k]
    BY <1>8, <1>9, <2>2, Zenon DEF CacheInv, CacheVerified
  <2>3. QED
    BY <1>7, <2>1, <2>2
<1>10. QED
    BY <1>6, <1>9, Zenon DEF CacheVerified, Published

(* What the steps that do not select leave of a selection. *)
LEMMA SelectionStands ==
    ASSUME CacheInv, kcChosen' = kcChosen, kcSide' = kcSide,
           \A k \in KeysetIds : kcStatus[k] # "future" => kcStatus'[k] # "future"
    PROVE  SelectionSound'
<1>1. kcChosen.id \in KeysetIds \cup {NoKeyset}
    BY Zenon DEF CacheInv, CacheTypes
<1>2. QED
    BY <1>1 DEF CacheInv, SelectionSound, AllowedHere

(* The cache stays verified while keysets only leave the future. *)
LEMMA CacheStands ==
    ASSUME CacheInv, kcCache' = kcCache,
           \A k \in KeysetIds : kcStatus[k] # "future" => kcStatus'[k] # "future"
    PROVE  CacheVerified'
    BY Zenon DEF CacheInv, CacheVerified, Offered, supported_keyset_id, Published
-----------------------------------------------------------------------------
(* The mint activates, retires or delists a keyset. *)
LEMMA MovesKeep ==
    ASSUME CacheInv, KeysetMoves PROVE CacheInv'
<1>1. PICK k \in KeysetIds :
          kcStatus' = [kcStatus EXCEPT ![k] = IF @ = "future" THEN "active"
                          ELSE IF @ = "active" THEN "retired" ELSE "delisted"]
    BY Zenon DEF KeysetMoves
<1>2. kcStatus \in [KeysetIds -> Statuses]
    BY Zenon DEF CacheInv, CacheTypes
<1>3. kcStatus' \in [KeysetIds -> Statuses]
    BY <1>1, <1>2 DEF Statuses
<1>4. \A l \in KeysetIds : kcStatus[l] # "future" => kcStatus'[l] # "future"
    BY <1>1, <1>2
<1>5. /\ kcSide' = kcSide /\ kcCache' = kcCache /\ kcJob' = kcJob /\ kcChosen' = kcChosen
    BY Zenon DEF KeysetMoves
<1>6. \A l \in KeysetIds : Offered(l) => Offered(l)'
    BY <1>4, Zenon DEF Offered, supported_keyset_id
<1>7. ASSUME NEW a \in Agents PROVE ListedOffered(a)' /\ FetchedVerified(a)'
  <2>1. kcJob[a].todo \subseteq Entries /\ kcJob[a].fetched \subseteq [entry : Entries, info : Infos]
    BY Zenon DEF CacheInv, CacheTypes, Jobs
  <2>2. /\ \A e \in kcJob[a].todo : e.id \in KeysetIds
        /\ \A f \in kcJob[a].fetched : f.entry.id \in KeysetIds
    BY <2>1 DEF Entries
  <2>3. QED
    BY <1>5, <1>6, <2>2, Zenon DEF CacheInv, JobsVerified, ListedOffered, FetchedVerified, Published
<1>8. CacheTypes' /\ JobsVerified'
    BY <1>3, <1>5, <1>7, Zenon DEF CacheInv, CacheTypes, JobsVerified
<1>9. QED
    BY <1>4, <1>5, <1>8, CacheStands, SelectionStands, Zenon DEF CacheInv

(* The steps of a refresh leave the mint and the selection alone. *)
LEMMA RefreshingKeeps ==
    ASSUME CacheInv, kcSide' = kcSide, kcStatus' = kcStatus, kcChosen' = kcChosen,
           kcCache' = kcCache, kcJob' \in [Agents -> Jobs], JobsVerified'
    PROVE  CacheInv'
<1>1. SelectionSound' /\ CacheVerified'
    BY CacheStands, SelectionStands, Zenon
<1>2. QED
    BY <1>1, Zenon DEF CacheInv, CacheTypes

(* A refresh begins with the mint's listing. *)
LEMMA RefreshKeeps ==
    ASSUME CacheInv, NEW a \in Agents, refresh(a) PROVE CacheInv'
<1> DEFINE job == [kcJob[a] EXCEPT !.back = "idle"]
<1>1. kcJob[a] \in Jobs /\ "idle" \in Steps
    BY Zenon DEF CacheInv, CacheTypes, Steps
<1>2. job \in Jobs
    BY <1>1, Zenon DEF Jobs
<1>3. /\ Refresh(a, job) /\ kcSide' = kcSide /\ kcStatus' = kcStatus
      /\ kcChosen' = kcChosen /\ kcCache' = kcCache
    BY Zenon DEF refresh
<1>4. QED
    BY <1>2, <1>3, RefreshGood, RefreshingKeeps, Zenon

(* A refresh that fails keeps nothing of what it fetched. *)
LEMMA FailureGood ==
    ASSUME CacheInv, kcStatus' = kcStatus, NEW a \in Agents, RefreshFailed(a)
    PROVE  kcJob' \in [Agents -> Jobs] /\ JobsVerified'
<1> DEFINE again == [kcJob[a] EXCEPT !.step = "select", !.todo = {}, !.fetched = {}]
<1>1. Job(a, again) \/ Job(a, Free)
    BY Zenon DEF RefreshFailed
<1>2. kcJob[a] \in Jobs /\ "select" \in Steps
    BY Zenon DEF CacheInv, CacheTypes, Steps
<1>3. again \in Jobs
    BY <1>2, Zenon DEF Jobs
<1>4. again.todo = {} /\ again.fetched = {}
    BY <1>2 DEF Jobs
<1>5. GoodJob(again)
    BY <1>3, <1>4 DEF GoodJob
<1>6. QED
    BY <1>1, <1>5, FreeGood, JobReplaced, Zenon

(* A keys answer, good or damaged: only what agrees with the listing is kept. *)
LEMMA AnswerKeeps ==
    ASSUME CacheInv, NEW a \in Agents, NEW e \in kcJob[a].todo, NEW answer,
           KeysAnswered(a, e, answer), UNCHANGED << kcSide, kcStatus, kcNow, kcChosen >>
    PROVE  CacheInv'
<1>1. kcSide' = kcSide /\ kcStatus' = kcStatus /\ kcChosen' = kcChosen
    OBVIOUS
<1>2. CASE RefreshFailed(a) /\ kcCache' = kcCache
    BY <1>1, <1>2, FailureGood, RefreshingKeeps, Zenon
<1>3. CASE \E info \in build_keyset_info_from_responses(e.id, answer) :
             /\ Job(a, [kcJob[a] EXCEPT !.todo = @ \ {e}, !.fetched = Kept(a, e, info)])
             /\ IF kcSide = "client" THEN set_keyset(e, info) ELSE kcCache' = kcCache
  <2>1. PICK info \in build_keyset_info_from_responses(e.id, answer) :
             /\ Job(a, [kcJob[a] EXCEPT !.todo = @ \ {e}, !.fetched = Kept(a, e, info)])
             /\ IF kcSide = "client" THEN set_keyset(e, info) ELSE kcCache' = kcCache
    BY <1>3, Zenon
  <2> DEFINE kept == Kept(a, e, info)
             left == kcJob[a].todo \ {e}
             job == [kcJob[a] EXCEPT !.todo = left, !.fetched = kept]
  <2>2. GoodJob(kcJob[a])
    BY JobGood
  <2>3. /\ e \in Entries /\ Offered(e.id) /\ kcJob[a] \in Jobs
        /\ left \in SUBSET Entries /\ \A f \in left : Offered(f.id)
    BY <2>2, Zenon DEF GoodJob, Jobs
  <2>4. e.id \in KeysetIds
    BY <2>3 DEF Entries
  <2>5. info = Published(e.id) /\ info \in Infos
    BY <2>4, InfoVerified
  <2>6. /\ kept \in SUBSET [entry : Entries, info : Infos]
        /\ \A f \in kept : Offered(f.entry.id) /\ f.info = Published(f.entry.id)
    <3>1. /\ kcJob[a].fetched \in SUBSET [entry : Entries, info : Infos]
          /\ \A f \in kcJob[a].fetched :
                Offered(f.entry.id) /\ f.info = Published(f.entry.id)
        BY <2>2, Zenon DEF GoodJob, Jobs
    <3>2. kept \subseteq kcJob[a].fetched \cup {[entry |-> e, info |-> info]}
        BY DEF Kept
    <3>3. QED
        BY <2>3, <2>5, <3>1, <3>2
  <2> HIDE DEF kept, left
  <2>7. job \in Jobs
    BY <2>3, <2>6, Zenon DEF Jobs
  <2>8. job.todo = left /\ job.fetched = kept
    BY <2>3 DEF Jobs
  <2>9. GoodJob(job)
    BY <2>3, <2>6, <2>7, <2>8, Zenon DEF GoodJob
  <2>10. kcJob' \in [Agents -> Jobs] /\ JobsVerified'
    <3>1. Job(a, job)
        BY <2>1, Zenon DEF left, kept
    <3>2. QED
        BY <1>1, <2>9, <3>1, JobReplaced, Zenon
  <2>11. CASE kcCache' = kcCache
    BY <1>1, <2>10, <2>11, RefreshingKeeps, Zenon
  <2>12. CASE set_keyset(e, info)
    <3>1. /\ kcCache' \in [KeysetIds -> {NoKeyset} \cup
                                        [info : Infos, active : BOOLEAN, unit : Units]]
          /\ CacheVerified'
        BY <1>1, <2>3, <2>5, <2>12, StoredVerified, Zenon
    <3>2. SelectionSound'
        BY <1>1, SelectionStands, Zenon
    <3>3. QED
        BY <1>1, <2>10, <3>1, <3>2, Zenon DEF CacheInv, CacheTypes
  <2>13. QED
    BY <2>1, <2>11, <2>12, Zenon
<1>4. QED
    BY <1>2, <1>3, Zenon DEF KeysAnswered

(* The server's host stores an entry it fetched. *)
LEMMA HostStoresKeeps ==
    ASSUME CacheInv, NEW a \in Agents, HostStores(a) PROVE CacheInv'
<1>1. PICK f \in kcJob[a].fetched :
          /\ set_keyset(f.entry, f.info)
          /\ Job(a, [kcJob[a] EXCEPT !.fetched = @ \ {f}])
    BY Zenon DEF HostStores
<1>2. kcSide' = kcSide /\ kcStatus' = kcStatus /\ kcChosen' = kcChosen
    BY Zenon DEF HostStores
<1> DEFINE left == kcJob[a].fetched \ {f}
           job == [kcJob[a] EXCEPT !.fetched = left]
<1>3. GoodJob(kcJob[a])
    BY JobGood
<1>4. /\ f \in [entry : Entries, info : Infos] /\ kcJob[a] \in Jobs
      /\ Offered(f.entry.id) /\ f.info = Published(f.entry.id)
      /\ left \in SUBSET [entry : Entries, info : Infos]
      /\ \A g \in left : Offered(g.entry.id) /\ g.info = Published(g.entry.id)
    BY <1>3, Zenon DEF GoodJob, Jobs
<1>5. f.entry \in Entries /\ f.info \in Infos
    BY <1>4
<1> HIDE DEF left
<1>6. job \in Jobs
    BY <1>4, Zenon DEF Jobs
<1>7. job.todo = kcJob[a].todo /\ job.fetched = left
    BY <1>4 DEF Jobs
<1>8. GoodJob(job)
    BY <1>3, <1>4, <1>6, <1>7, Zenon DEF GoodJob
<1>9. Job(a, job)
    BY <1>1, Zenon DEF left
<1>10. kcJob' \in [Agents -> Jobs] /\ JobsVerified'
    BY <1>2, <1>8, <1>9, JobReplaced, Zenon
<1>11. /\ kcCache' \in [KeysetIds -> {NoKeyset} \cup
                                     [info : Infos, active : BOOLEAN, unit : Units]]
       /\ CacheVerified'
    BY <1>1, <1>2, <1>4, <1>5, StoredVerified, Zenon
<1>12. SelectionSound'
    BY <1>2, SelectionStands, Zenon
<1>13. QED
    BY <1>2, <1>10, <1>11, <1>12, Zenon DEF CacheInv, CacheTypes

(* A refresh ends. *)
LEMMA RefreshDoneKeeps ==
    ASSUME CacheInv, NEW a \in Agents, RefreshDone(a) PROVE CacheInv'
<1> DEFINE job == [kcJob[a] EXCEPT !.step = kcJob[a].back]
<1>1. /\ Job(a, job) /\ kcSide' = kcSide /\ kcStatus' = kcStatus
      /\ kcChosen' = kcChosen /\ kcCache' = kcCache
    BY Zenon DEF RefreshDone
<1>2. GoodJob(kcJob[a]) /\ kcJob[a] \in Jobs
    BY JobGood, Zenon DEF GoodJob
<1>3. kcJob[a].back \in Steps
    BY <1>2, Zenon DEF Jobs
<1>4. job \in Jobs
    BY <1>2, <1>3, Zenon DEF Jobs
<1>5. job.todo = kcJob[a].todo /\ job.fetched = kcJob[a].fetched
    BY <1>2 DEF Jobs
<1>6. GoodJob(job)
    BY <1>2, <1>4, <1>5, Zenon DEF GoodJob
<1>7. QED
    BY <1>1, <1>6, JobReplaced, RefreshingKeeps, Zenon
-----------------------------------------------------------------------------
(* A call that needs a cached keyset begins. *)
LEMMA StartKeeps ==
    ASSUME CacheInv, EnsureCached PROVE CacheInv'
<1> DEFINE job == [Free EXCEPT !.back = "select"]
           select == [job EXCEPT !.step = "select"]
<1>1. /\ Refresh(Caller, job) \/ Job(Caller, select)
      /\ kcSide' = kcSide /\ kcStatus' = kcStatus /\ kcChosen' = kcChosen /\ kcCache' = kcCache
    BY Zenon DEF EnsureCached
<1>2. job \in Jobs /\ select \in Jobs /\ select.todo = {} /\ select.fetched = {}
    BY Zenon DEF Free, Jobs, Steps
<1>3. Caller \in Agents
    BY DEF Agents
<1> HIDE DEF job, select
<1>4. GoodJob(select)
    BY <1>2 DEF GoodJob
<1>5. QED
    BY <1>1, <1>2, <1>3, <1>4, RefreshGood, JobReplaced, RefreshingKeeps, Zenon

(* A keyset is picked from the mint's listing, and its keys are fetched. *)
LEMMA FetchKeeps ==
    ASSUME CacheInv, fetch_active_output_keyset PROVE CacheInv'
<1> DEFINE pick == select_active(KeysetDiscovery_from_json(Listing), Unit, Allowed)
           job == [Free EXCEPT !.back = "pick", !.pick = pick]
<1>1. /\ Refresh(Caller, job)
      /\ kcSide' = kcSide /\ kcStatus' = kcStatus /\ kcChosen' = kcChosen /\ kcCache' = kcCache
    BY Zenon DEF fetch_active_output_keyset
<1>2. \A e \in KeysetDiscovery_from_json(Listing) : e.id \in KeysetIds
    BY ListingOffered DEF CacheInv, Entries
<1>3. pick \subseteq KeysetIds
    BY <1>2, Zenon DEF select_active, First
<1> HIDE DEF pick
<1>4. job \in Jobs
    BY <1>3, Zenon DEF Free, Jobs, Steps
<1>5. Caller \in Agents
    BY DEF Agents
<1>6. QED
    BY <1>1, <1>4, <1>5, RefreshGood, RefreshingKeeps, Zenon

(* What is known of the inputs is what the mint publishes, from the cache or from
   a listing. *)
LEMMA SummariesPublished ==
    ASSUME CacheInv, kcSide = "client", NEW summaries \in InputKeysets
    PROVE  \A s \in summaries : s = [id |-> s.id, fee |-> Meta[s.id].fee]
<1>1. ASSUME NEW k \in KeysetIds, kcCache[k] # NoKeyset,
             NEW s \in keyset_summary_from_cache_entry(k, Unit)
      PROVE  s = [id |-> s.id, fee |-> Meta[s.id].fee]
  <2>1. kcCache[k].info = Published(k)
    BY <1>1, Zenon DEF CacheInv, CacheVerified
  <2>2. QED
    BY <2>1 DEF keyset_summary_from_cache_entry, Published
<1>2. ASSUME NEW discovery, NEW s \in token_input_keysets_from_response(discovery, Unit)
      PROVE  s = [id |-> s.id, fee |-> Meta[s.id].fee]
    BY DEF token_input_keysets_from_response
<1>3. ASSUME NEW s \in fetch_token_input_keysets(Unit)
      PROVE  s = [id |-> s.id, fee |-> Meta[s.id].fee]
    BY <1>1, <1>2, Zenon DEF fetch_token_input_keysets, list_keysets_for_unit
<1>4. ASSUME NEW s \in fetch_proof_input_keysets(Inputs, Unit)
      PROVE  s = [id |-> s.id, fee |-> Meta[s.id].fee]
  <2> DEFINE cached == {k \in Inputs : kcCache[k] # NoKeyset}
             fetched == token_input_keysets_from_response(KeysetDiscovery_from_json(Listing), Unit)
  <2>1. \/ \E k \in cached : s \in keyset_summary_from_cache_entry(k, Unit)
        \/ s \in fetched
    BY Zenon DEF fetch_proof_input_keysets
  <2>2. CASE \E k \in cached : s \in keyset_summary_from_cache_entry(k, Unit)
    BY <1>1, <2>2, CacheAssumption, Zenon
  <2>3. QED
    BY <1>2, <2>1, <2>2, Zenon
<1>5. QED
    BY <1>3, <1>4, Zenon DEF InputKeysets

(* A swap is built from a usable keyset. *)
LEMMA ChosenKeeps ==
    ASSUME CacheInv, UNCHANGED << kcSide, kcStatus, kcNow, kcCache, kcFaults >>,
           NEW k \in usable_output_keyset_ids(Unit, Allowed), NEW summaries \in InputKeysets,
           NEW first \in KeysetIds \cup {NoKeyset}, Chosen(k, summaries, first)
    PROVE  CacheInv'
<1>1. kcSide' = kcSide /\ kcStatus' = kcStatus /\ kcCache' = kcCache /\ Caller \in Agents
    BY DEF Agents
<1>2. CASE Job(Caller, Free) /\ kcChosen' = kcChosen
    BY <1>1, <1>2, FreeGood, JobReplaced, RefreshingKeeps, Zenon
<1>3. CASE /\ kcSide = "client" => Inputs \subseteq {s.id : s \in summaries}
           /\ kcChosen' = [id |-> k, info |-> kcCache[k].info, at |-> kcNow,
                           inputs |-> {s \in summaries : s.id \in Inputs}]
           /\ Job(Caller, [Free EXCEPT !.step = "submit", !.back = "select", !.first = first])
  <2> DEFINE job == [Free EXCEPT !.step = "submit", !.back = "select", !.first = first]
             inputs == {s \in summaries : s.id \in Inputs}
  <2>1. job \in Jobs /\ job.todo = {} /\ job.fetched = {}
    BY Zenon DEF Free, Jobs, Steps
  <2> HIDE DEF job
  <2>2. GoodJob(job)
    BY <2>1 DEF GoodJob
  <2>3. Job(Caller, job)
    BY <1>3, Zenon DEF job
  <2>4. kcJob' \in [Agents -> Jobs] /\ JobsVerified'
    BY <1>1, <2>2, <2>3, JobReplaced, Zenon
  <2>5. CacheVerified'
    BY <1>1, CacheStands, Zenon
  <2>6. /\ k \in KeysetIds /\ kcCache[k] # NoKeyset /\ kcCache[k].unit = Unit
        /\ kcSide = "client" => Versions_allow(Allowed, k)
        /\ \A t \in kcCache[k].info.expiry : kcNow < t
    BY Zenon DEF usable_output_keyset_ids, get_active_keyset_ids
  <2>7. /\ Offered(k) /\ kcCache[k].info = Published(k) /\ Meta[k].unit = Unit
    BY <2>6, Zenon DEF CacheInv, CacheVerified
  <2>8. kcSide = "client" => inputs = {[id |-> l, fee |-> Meta[l].fee] : l \in Inputs}
    <3>1. SUFFICES ASSUME kcSide = "client"
                   PROVE  inputs = {[id |-> l, fee |-> Meta[l].fee] : l \in Inputs}
        OBVIOUS
    <3>2. \A s \in summaries : s = [id |-> s.id, fee |-> Meta[s.id].fee]
        BY <3>1, SummariesPublished
    <3>3. ASSUME NEW l \in Inputs PROVE [id |-> l, fee |-> Meta[l].fee] \in inputs
      <4>1. PICK s \in summaries : s.id = l
        BY <1>3, <3>1
      <4>2. s = [id |-> l, fee |-> Meta[l].fee]
        BY <3>2, <4>1, Zenon
      <4>3. QED
        BY <4>1, <4>2, Zenon
    <3>4. ASSUME NEW s \in inputs
          PROVE  s \in {[id |-> l, fee |-> Meta[l].fee] : l \in Inputs}
        BY <3>2, Zenon
    <3>5. QED
        BY <3>3, <3>4, Zenon
  <2> HIDE DEF inputs
  <2>9. /\ kcChosen'.id = k /\ kcChosen'.info = kcCache[k].info
        /\ kcChosen'.at = kcNow /\ kcChosen'.inputs = inputs
    BY <1>3 DEF inputs
  <2>10. Meta[k].byte \in {0, 1}
    <3>1. Meta[k].byte \in Nat /\ Meta[k].byte <= 1
        BY <2>6, <2>7, CacheAssumption, Zenon DEF Offered, supported_keyset_id
    <3>2. QED
        BY <3>1
  <2>11. Meta[k].byte \in AllowedHere /\ kcStatus[k] # "future"
    BY <2>6, <2>7, <2>10 DEF AllowedHere, Versions_allow, Offered
  <2>12. /\ kcCache[k].info.expiry = Meta[k].expiry
         /\ kcCache[k].info = [id |-> k, unit |-> Unit, fee |-> Meta[k].fee,
                               expiry |-> Meta[k].expiry]
    BY <2>7 DEF Published
  <2>13. AllowedHere' = AllowedHere
    BY <1>1, Zenon DEF AllowedHere
  <2>14. SelectionSound'
    BY <1>1, <2>6, <2>7, <2>8, <2>9, <2>11, <2>12, <2>13, Zenon DEF SelectionSound
  <2>15. QED
    BY <1>1, <2>4, <2>5, <2>6, <2>9, <2>14, Zenon DEF CacheInv, CacheTypes
<1>4. QED
    BY <1>2, <1>3, Zenon DEF Chosen

(* The first keyset is selected from the cache. *)
LEMMA FirstKeeps ==
    ASSUME CacheInv, first_cached_active_output_keyset PROVE CacheInv'
<1> DEFINE usable == usable_output_keyset_ids(Unit, Allowed)
           first == kcJob[Caller].first
<1>1. /\ UNCHANGED << kcSide, kcStatus, kcNow, kcCache, kcFaults >> /\ Caller \in Agents
      /\ \/ Job(Caller, Free) /\ kcChosen' = kcChosen
         \/ \E k \in usable, summaries \in InputKeysets : Chosen(k, summaries, first)
    BY Zenon DEF first_cached_active_output_keyset, Agents
<1>2. first \in KeysetIds \cup {NoKeyset}
    BY <1>1, Zenon DEF CacheInv, CacheTypes, Jobs
<1>3. CASE Job(Caller, Free) /\ kcChosen' = kcChosen
    BY <1>1, <1>3, FreeGood, JobReplaced, RefreshingKeeps
<1>4. QED
    BY <1>1, <1>2, <1>3, ChosenKeeps, Zenon

(* The picked keyset is selected from the cache. *)
LEMMA CachedKeeps ==
    ASSUME CacheInv, cached_active_output_keyset PROVE CacheInv'
<1> DEFINE usable == usable_output_keyset_ids(Unit, Allowed)
<1>1. /\ UNCHANGED << kcSide, kcStatus, kcNow, kcCache, kcFaults >> /\ Caller \in Agents
      /\ \/ Job(Caller, Free) /\ kcChosen' = kcChosen
         \/ \E k \in usable, summaries \in InputKeysets : Chosen(k, summaries, k)
    BY Zenon DEF cached_active_output_keyset, Agents
<1>2. \A k \in usable : k \in KeysetIds \cup {NoKeyset}
    BY Zenon DEF usable_output_keyset_ids, get_active_keyset_ids
<1>3. CASE Job(Caller, Free) /\ kcChosen' = kcChosen
    BY <1>1, <1>3, FreeGood, JobReplaced, RefreshingKeeps
<1>4. QED
    BY <1>1, <1>2, <1>3, ChosenKeeps, Zenon

(* The mint accepts the swap, or rejects its keyset once or twice. *)
LEMMA RetryKeeps ==
    ASSUME CacheInv, with_active_keyset_retry PROVE CacheInv'
<1> DEFINE job == [kcJob[Caller] EXCEPT !.first = kcChosen.id]
<1>1. /\ kcSide' = kcSide /\ kcStatus' = kcStatus /\ kcCache' = kcCache /\ kcChosen' = NoChoice
      /\ Caller \in Agents
      /\ Job(Caller, Free) \/ Refresh(Caller, job)
    BY Zenon DEF with_active_keyset_retry, Agents
<1>2. kcJob[Caller] \in Jobs /\ kcChosen.id \in KeysetIds \cup {NoKeyset}
    BY <1>1, Zenon DEF CacheInv, CacheTypes
<1>3. job \in Jobs
    BY <1>2, Zenon DEF Jobs
<1>4. kcJob' \in [Agents -> Jobs] /\ JobsVerified'
    BY <1>1, <1>3, FreeGood, JobReplaced, RefreshGood, Zenon
<1>5. CacheVerified'
    BY <1>1, CacheStands, Zenon
<1>6. kcChosen'.id = NoKeyset
    BY <1>1 DEF NoChoice
<1>7. QED
    BY <1>1, <1>4, <1>5, <1>6, Zenon DEF CacheInv, CacheTypes, SelectionSound
-----------------------------------------------------------------------------
(* The invariant holds at the start. *)
LEMMA CacheInitHolds ==
    ASSUME CacheInit PROVE CacheInv
<1>1. /\ kcStatus \in [KeysetIds -> Statuses] /\ kcChosen.id = NoKeyset
      /\ \A k \in KeysetIds : kcCache[k] = NoKeyset
      /\ kcCache \in [KeysetIds -> {NoKeyset}]
    BY DEF CacheInit, Statuses, NoChoice
<1>2. GoodJob(Free) /\ Free \in Jobs /\ \A a \in Agents : kcJob[a] = Free
    BY FreeGood, Zenon DEF CacheInit, GoodJob
<1>3. kcJob \in [Agents -> Jobs]
    BY <1>2, Zenon DEF CacheInit
<1>4. JobsVerified
    BY <1>2, Zenon DEF JobsVerified, ListedOffered, FetchedVerified, GoodJob
<1>5. QED
    BY <1>1, <1>3, <1>4 DEF CacheInv, CacheTypes, CacheVerified, SelectionSound

(* Every step keeps the invariant. *)
LEMMA CacheStep ==
    ASSUME CacheInv, [CacheNext]_kcVars PROVE CacheInv'
<1>1. CASE UNCHANGED kcVars \/ CacheTick
  <2>1. /\ kcSide' = kcSide /\ kcStatus' = kcStatus /\ kcChosen' = kcChosen
        /\ kcCache' = kcCache /\ kcJob' = kcJob
    BY <1>1 DEF kcVars, CacheTick
  <2>2. kcJob' \in [Agents -> Jobs] /\ JobsVerified'
    BY <2>1, Zenon DEF CacheInv, CacheTypes, JobsVerified, ListedOffered, FetchedVerified,
        Offered, supported_keyset_id, Published
  <2>3. QED
    BY <2>1, <2>2, RefreshingKeeps, Zenon
<1>2. ASSUME NEW a \in Agents, KeysArrive(a) \/ KeysFail(a) PROVE CacheInv'
  <2>1. \A e \in First(kcJob[a].todo) : e \in kcJob[a].todo
    BY Zenon DEF First
  <2>2. UNCHANGED << kcSide, kcStatus, kcNow, kcChosen >>
    BY <1>2, Zenon DEF KeysArrive, KeysFail
  <2>3. CASE KeysArrive(a)
    BY <2>1, <2>2, <2>3, AnswerKeeps, Zenon DEF KeysArrive
  <2>4. CASE KeysFail(a)
    BY <2>1, <2>2, <2>4, AnswerKeeps, Zenon DEF KeysFail
  <2>5. QED
    BY <1>2, <2>3, <2>4
<1>3. QED
    BY <1>1, <1>2, MovesKeep, RefreshKeeps, HostStoresKeeps, RefreshDoneKeeps, StartKeeps,
       FetchKeeps, FirstKeeps, CachedKeeps, RetryKeeps, Zenon
       DEF CacheNext, open_channel_auto, execute_close

(* The invariant of the cache. *)
LEMMA CacheInvAlways == CacheSpec => []CacheInv
<1>1. CacheInit => CacheInv
    BY CacheInitHolds
<1>2. CacheInv /\ [CacheNext]_kcVars => CacheInv'
    BY CacheStep
<1>3. QED
    BY <1>1, <1>2, PTL DEF CacheSpec

(* What a swap is built from is what the mint publishes: build_keyset_info_from_responses
   checks every keys answer before set_keyset, and first_cached_active_output_keyset and
   cached_active_output_keyset take only usable entries, however many refreshes interleave
   and fail. *)
THEOREM SelectionsSound == CacheSpec => []SelectionSound
<1>1. CacheInv => SelectionSound
    BY Zenon DEF CacheInv
<1>2. QED
    BY <1>1, CacheInvAlways, PTL

-----------------------------------------------------------------------------
(***************************************************************************)
(* MemoryStorage implements the atomic store, for every number of threads  *)
(* and every set of payments, journals and fundings: close_gate keeps what *)
(* an operation checked true until its last write.                         *)
(***************************************************************************)

(* The labels of a thread that holds close_gate, and those of get_state. *)
Gated ==
    {"write_balance", "write_closing", "insert_closed", "remove_closing",
     "freeze_closing", "freeze_journal",
     "advance_closed", "advance_closing", "advance_journal"}
Reading == {"read_closed", "read_closing", "read_funding"}

FreezeArg == [payment : Payment, journal : Journals]
AdvanceArg == [amount : Balances \cup {None}, journal : Journals]

MapTypes ==
    /\ fundingMap \in Fundings \cup {None}
    /\ balanceMap \in Payment \cup {None}
    /\ closingMap \in Payment \cup {None}
    /\ closedMap \in Balances \cup {None}
    /\ journalMap \in Journals \cup {None}

LocalTypes ==
    /\ pc \in [Threads -> {"idle"} \cup Gated \cup Reading]
    /\ DOMAIN arg = Threads
    /\ DOMAIN began = Threads
    /\ DOMAIN result = Threads

(* Whoever is about to write holds the gate. *)
GateHeld == \A t \in Threads : pc[t] \in Gated => gate = t

(* What an operation found under the gate, and its own earlier writes, still
   hold at each of its writes. *)
Found(t) ==
    /\ pc[t] = "write_balance" =>
          /\ arg[t] \in Payment
          /\ closedMap = None /\ closingMap = None /\ fundingMap # None
          /\ balanceMap # None => arg[t].balance > balanceMap.balance
    /\ pc[t] = "write_closing" =>
          arg[t] \in Payment /\ journalMap = None /\ closedMap = None
    /\ pc[t] = "insert_closed" =>
          arg[t] \in Balances /\ journalMap = None /\ closedMap = None
    /\ pc[t] = "remove_closing" => closedMap # None
    /\ pc[t] = "freeze_closing" =>
          /\ arg[t] \in FreezeArg
          /\ closedMap = None /\ closingMap = None /\ fundingMap # None
          /\ balanceMap = arg[t].payment /\ journalMap = None
    /\ pc[t] = "freeze_journal" =>
          /\ arg[t] \in FreezeArg
          /\ closedMap = None /\ closingMap = arg[t].payment /\ fundingMap # None
          /\ balanceMap = arg[t].payment /\ journalMap = None
    /\ pc[t] = "advance_closed" =>
          /\ arg[t] \in AdvanceArg /\ arg[t].amount # None
          /\ closedMap = None /\ closingMap # None /\ journalMap # None
    /\ pc[t] = "advance_closing" =>
          /\ arg[t] \in AdvanceArg /\ arg[t].amount # None
          /\ closedMap # None /\ journalMap # None
    /\ pc[t] = "advance_journal" =>
          /\ arg[t] \in AdvanceArg /\ journalMap # None
          /\ arg[t].amount = None => closedMap = None /\ closingMap # None
          /\ arg[t].amount # None => closedMap # None

MemInv == MapTypes /\ LocalTypes /\ GateHeld /\ \A t \in Threads : Found(t)

(* close_gate is a mutex: no two threads are between their writes. *)
LEMMA OneWriter ==
    ASSUME MemInv, NEW t \in Threads, gate = None \/ pc[t] \in Gated
    PROVE  \A u \in Threads \ {t} : pc[u] \notin Gated
  BY MemoryAssumption, Zenon DEF MemInv, GateHeld

(* A step of the only writer keeps the invariant if it keeps the types and
   leaves the writer with what its next write needs. *)
LEMMA WriterStep ==
    ASSUME MemInv, NEW t \in Threads,
           \A u \in Threads \ {t} : pc[u] \notin Gated /\ pc'[u] = pc[u],
           MapTypes', LocalTypes',
           pc'[t] \in Gated => gate' = t /\ Found(t)'
    PROVE  MemInv'
<1>1. GateHeld'
  BY Zenon DEF GateHeld
<1>2. ASSUME NEW u \in Threads
      PROVE  Found(u)'
  <2>1. CASE pc'[u] \notin Gated
    BY <2>1, Zenon DEF Found, Gated
  <2>2. CASE pc'[u] \in Gated
    BY <2>2, Zenon
  <2> QED
    BY <2>1, <2>2, Zenon
<1> QED
  BY <1>1, <1>2, Zenon DEF MemInv

(* Taking the gate: the checks hold in the state in which it is taken. *)
LEMMA EnterStep ==
    ASSUME MemInv, NEW t \in Threads, NEW l \in Gated, NEW a, Enter(t, l, a),
           pc'[t] = l /\ arg'[t] = a => Found(t)'
    PROVE  MemInv'
<1>1. /\ gate = None /\ gate' = t /\ pc' = [pc EXCEPT ![t] = l]
      /\ arg' = [arg EXCEPT ![t] = a] /\ UNCHANGED <<began, result>>
      /\ UNCHANGED <<fundingMap, balanceMap, closingMap, closedMap, journalMap>>
  BY Zenon DEF Enter, Goto, NoRead, maps
<1>2. pc \in [Threads -> {"idle"} \cup Gated \cup Reading] /\ DOMAIN arg = Threads
  BY Zenon DEF MemInv, LocalTypes
<1>3. pc'[t] = l /\ arg'[t] = a /\ \A u \in Threads \ {t} : pc'[u] = pc[u]
  BY <1>1, <1>2, Zenon
<1>4. MapTypes' /\ LocalTypes'
  BY <1>1, <1>2, Zenon DEF MemInv, MapTypes, LocalTypes
<1> QED
  BY <1>1, <1>3, <1>4, OneWriter, WriterStep, Zenon

(* A write that is not an operation's last: the gate is kept. *)
LEMMA WriterGoes ==
    ASSUME MemInv, NEW t \in Threads, NEW l \in Gated, pc[t] \in Gated,
           pc' = [pc EXCEPT ![t] = l], UNCHANGED <<gate, arg, began, result>>,
           MapTypes', pc'[t] = l => Found(t)'
    PROVE  MemInv'
<1>1. pc \in [Threads -> {"idle"} \cup Gated \cup Reading]
  BY Zenon DEF MemInv, LocalTypes
<1>2. pc'[t] = l /\ \A u \in Threads \ {t} : pc'[u] = pc[u]
  BY <1>1, Zenon
<1>3. LocalTypes'
  BY <1>1, Zenon DEF MemInv, LocalTypes
<1>4. gate' = t
  BY Zenon DEF MemInv, GateHeld
<1> QED
  BY <1>2, <1>3, <1>4, OneWriter, WriterStep, Zenon

(* An operation's last write: the gate is released. *)
LEMMA WriterLeaves ==
    ASSUME MemInv, NEW t \in Threads, pc[t] \in Gated,
           pc' = [pc EXCEPT ![t] = "idle"], arg' = [arg EXCEPT ![t] = None],
           UNCHANGED <<began, result>>, MapTypes'
    PROVE  MemInv'
<1>1. pc \in [Threads -> {"idle"} \cup Gated \cup Reading] /\ DOMAIN arg = Threads
  BY Zenon DEF MemInv, LocalTypes
<1>2. pc'[t] \notin Gated /\ \A u \in Threads \ {t} : pc'[u] = pc[u]
  BY <1>1, Zenon DEF Gated
<1>3. LocalTypes'
  BY <1>1, Zenon DEF MemInv, LocalTypes
<1> QED
  BY <1>2, <1>3, OneWriter, WriterStep, Zenon

(* Every step of every thread keeps the invariant. *)
LEMMA MemStep ==
    ASSUME MemInv, [Next]_vars
    PROVE  MemInv'
<1> USE MemoryAssumption
<1>1. ASSUME NEW t \in Threads, save_funding(t)
      PROVE  MemInv'
  BY <1>1 DEF save_funding, NoRead, MemInv, MapTypes, LocalTypes, GateHeld, Found
<1>2. ASSUME NEW t \in Threads, update_balance(t) \/ compare_payment(t)
      PROVE  MemInv'
  <2>1. PICK p \in Payment : /\ state = "Open"
                             /\ balanceMap # None => p.balance > balanceMap.balance
                             /\ Enter(t, "write_balance", p)
    BY <1>2, Zenon DEF update_balance, compare_payment
  <2>2. UNCHANGED <<fundingMap, balanceMap, closingMap, closedMap>>
    BY <2>1, Zenon DEF Enter, maps
  <2>3. pc'[t] = "write_balance" /\ arg'[t] = p => Found(t)'
    BY <2>1, <2>2, Zenon DEF Found, state
  <2> QED
    BY <2>1, <2>3, EnterStep, Zenon DEF Gated
<1>3. ASSUME NEW t \in Threads, mark_closing(t)
      PROVE  MemInv'
  <2>1. PICK p \in Payment : /\ journalMap = None /\ closedMap = None
                             /\ Enter(t, "write_closing", p)
    BY <1>3, Zenon DEF mark_closing
  <2>2. UNCHANGED <<journalMap, closedMap>>
    BY <2>1, Zenon DEF Enter, maps
  <2>3. pc'[t] = "write_closing" /\ arg'[t] = p => Found(t)'
    BY <2>1, <2>2, Zenon DEF Found
  <2> QED
    BY <2>1, <2>3, EnterStep, Zenon DEF Gated
<1>4. ASSUME NEW t \in Threads, mark_closed(t)
      PROVE  MemInv'
  <2>1. PICK a \in Balances : /\ journalMap = None /\ closedMap = None
                              /\ Enter(t, "insert_closed", a)
    BY <1>4, Zenon DEF mark_closed
  <2>2. UNCHANGED <<journalMap, closedMap>>
    BY <2>1, Zenon DEF Enter, maps
  <2>3. pc'[t] = "insert_closed" /\ arg'[t] = a => Found(t)'
    BY <2>1, <2>2, Zenon DEF Found
  <2> QED
    BY <2>1, <2>3, EnterStep, Zenon DEF Gated
<1>5. ASSUME NEW t \in Threads, freeze_close(t)
      PROVE  MemInv'
  <2>1. PICK p \in Payment, j \in Journals :
            /\ state = "Open" /\ journalMap = None /\ balanceMap = p
            /\ Enter(t, "freeze_closing", [payment |-> p, journal |-> j])
    BY <1>5, Zenon DEF freeze_close
  <2> DEFINE a == [payment |-> p, journal |-> j]
  <2>2. a \in FreezeArg /\ a.payment = p
    BY Zenon DEF FreezeArg
  <2> HIDE DEF a
  <2>3. UNCHANGED <<fundingMap, balanceMap, closingMap, closedMap, journalMap>>
    BY <2>1, Zenon DEF Enter, maps
  <2>4. pc'[t] = "freeze_closing" /\ arg'[t] = a => Found(t)'
    BY <2>1, <2>2, <2>3, Zenon DEF Found, state
  <2>5. Enter(t, "freeze_closing", a)
    BY <2>1, Zenon DEF a
  <2> QED
    BY <2>5, <2>4, EnterStep, Zenon DEF Gated
<1>6. ASSUME NEW t \in Threads, advance_close(t)
      PROVE  MemInv'
  <2>1. PICK j \in Journals, b \in Balances \cup {None} :
            /\ state = "Closing" /\ journalMap # None
            /\ Enter(t, IF b = None THEN "advance_journal" ELSE "advance_closed",
                     [amount |-> b, journal |-> j])
    BY <1>6, Zenon DEF advance_close
  <2> DEFINE a == [amount |-> b, journal |-> j]
  <2>2. a \in AdvanceArg /\ a.amount = b
    BY Zenon DEF AdvanceArg
  <2> HIDE DEF a
  <2>3. closedMap = None /\ closingMap # None
    BY <2>1, Zenon DEF state
  <2>4. CASE b = None
    <3>1. Enter(t, "advance_journal", a)
      BY <2>1, <2>4, Zenon DEF a
    <3>2. UNCHANGED <<closingMap, closedMap, journalMap>>
      BY <3>1, Zenon DEF Enter, maps
    <3>3. pc'[t] = "advance_journal" /\ arg'[t] = a => Found(t)'
      BY <2>1, <2>2, <2>3, <2>4, <3>2, Zenon DEF Found
    <3> QED
      BY <3>1, <3>3, EnterStep, Zenon DEF Gated
  <2>5. CASE b # None
    <3>1. Enter(t, "advance_closed", a)
      BY <2>1, <2>5, Zenon DEF a
    <3>2. UNCHANGED <<closingMap, closedMap, journalMap>>
      BY <3>1, Zenon DEF Enter, maps
    <3>3. pc'[t] = "advance_closed" /\ arg'[t] = a => Found(t)'
      BY <2>1, <2>2, <2>3, <2>5, <3>2, Zenon DEF Found
    <3> QED
      BY <3>1, <3>3, EnterStep, Zenon DEF Gated
  <2> QED
    BY <2>4, <2>5, Zenon
<1>7. ASSUME NEW t \in Threads, write_balance(t)
      PROVE  MemInv'
  <2>1. /\ pc[t] = "write_balance" /\ balanceMap' = arg[t] /\ gate' = None
        /\ pc' = [pc EXCEPT ![t] = "idle"] /\ arg' = [arg EXCEPT ![t] = None]
        /\ UNCHANGED <<fundingMap, closingMap, closedMap, journalMap, began, result>>
    BY <1>7, Zenon DEF write_balance, Leave, Goto, NoRead
  <2>2. MapTypes'
    BY <2>1, Zenon DEF MemInv, MapTypes, Found
  <2>3. pc[t] \in Gated
    BY <2>1, Zenon DEF Gated
  <2> QED
    BY <2>1, <2>2, <2>3, WriterLeaves, Zenon
<1>8. ASSUME NEW t \in Threads, write_closing(t)
      PROVE  MemInv'
  <2>1. /\ pc[t] = "write_closing" /\ closingMap' = arg[t] /\ gate' = None
        /\ pc' = [pc EXCEPT ![t] = "idle"] /\ arg' = [arg EXCEPT ![t] = None]
        /\ UNCHANGED <<fundingMap, balanceMap, closedMap, journalMap, began, result>>
    BY <1>8, Zenon DEF write_closing, Leave, Goto, NoRead
  <2>2. MapTypes'
    BY <2>1, Zenon DEF MemInv, MapTypes, Found
  <2>3. pc[t] \in Gated
    BY <2>1, Zenon DEF Gated
  <2> QED
    BY <2>1, <2>2, <2>3, WriterLeaves, Zenon
<1>9. ASSUME NEW t \in Threads, insert_closed(t)
      PROVE  MemInv'
  <2>1. /\ pc[t] = "insert_closed" /\ closedMap' = arg[t] /\ gate' = gate
        /\ pc' = [pc EXCEPT ![t] = "remove_closing"] /\ arg' = arg
        /\ UNCHANGED <<fundingMap, balanceMap, closingMap, journalMap, began, result>>
    BY <1>9, Zenon DEF insert_closed, Goto, NoRead
  <2>2. arg[t] \in Balances
    BY <2>1, Zenon DEF MemInv, Found
  <2>3. MapTypes'
    BY <2>1, <2>2, Zenon DEF MemInv, MapTypes
  <2>4. pc'[t] = "remove_closing" => Found(t)'
    BY <2>1, <2>2, Zenon DEF Found
  <2> QED
    BY <2>1, <2>3, <2>4, WriterGoes, Zenon DEF Gated
<1>10. ASSUME NEW t \in Threads, remove_closing(t)
       PROVE  MemInv'
  <2>1. /\ pc[t] = "remove_closing" /\ closingMap' = None /\ gate' = None
        /\ pc' = [pc EXCEPT ![t] = "idle"] /\ arg' = [arg EXCEPT ![t] = None]
        /\ UNCHANGED <<fundingMap, balanceMap, closedMap, journalMap, began, result>>
    BY <1>10, Zenon DEF remove_closing, Leave, Goto, NoRead
  <2>2. MapTypes'
    BY <2>1, Zenon DEF MemInv, MapTypes, Found
  <2>3. pc[t] \in Gated
    BY <2>1, Zenon DEF Gated
  <2> QED
    BY <2>1, <2>2, <2>3, WriterLeaves, Zenon
<1>11. ASSUME NEW t \in Threads, freeze_closing(t)
       PROVE  MemInv'
  <2>1. /\ pc[t] = "freeze_closing" /\ closingMap' = arg[t].payment /\ gate' = gate
        /\ pc' = [pc EXCEPT ![t] = "freeze_journal"] /\ arg' = arg
        /\ UNCHANGED <<fundingMap, balanceMap, closedMap, journalMap, began, result>>
    BY <1>11, Zenon DEF freeze_closing, Goto, NoRead
  <2>2. Found(t)
    BY Zenon DEF MemInv
  <2>3. arg[t].payment \in Payment
    BY <2>1, <2>2, Zenon DEF Found, FreezeArg
  <2>4. MapTypes'
    BY <2>1, <2>3, Zenon DEF MemInv, MapTypes
  <2>5. pc'[t] = "freeze_journal" => Found(t)'
    BY <2>1, <2>2, Zenon DEF Found
  <2> QED
    BY <2>1, <2>4, <2>5, WriterGoes, Zenon DEF Gated
<1>12. ASSUME NEW t \in Threads, freeze_journal(t)
       PROVE  MemInv'
  <2>1. /\ pc[t] = "freeze_journal" /\ journalMap' = arg[t].journal /\ gate' = None
        /\ pc' = [pc EXCEPT ![t] = "idle"] /\ arg' = [arg EXCEPT ![t] = None]
        /\ UNCHANGED <<fundingMap, balanceMap, closingMap, closedMap, began, result>>
    BY <1>12, Zenon DEF freeze_journal, Leave, Goto, NoRead
  <2>2. arg[t].journal \in Journals
    BY <2>1, Zenon DEF MemInv, Found, FreezeArg
  <2>3. MapTypes'
    BY <2>1, <2>2, Zenon DEF MemInv, MapTypes
  <2>4. pc[t] \in Gated
    BY <2>1, Zenon DEF Gated
  <2> QED
    BY <2>1, <2>3, <2>4, WriterLeaves, Zenon
<1>13. ASSUME NEW t \in Threads, advance_closed(t)
       PROVE  MemInv'
  <2>1. /\ pc[t] = "advance_closed" /\ closedMap' = arg[t].amount /\ gate' = gate
        /\ pc' = [pc EXCEPT ![t] = "advance_closing"] /\ arg' = arg
        /\ UNCHANGED <<fundingMap, balanceMap, closingMap, journalMap, began, result>>
    BY <1>13, Zenon DEF advance_closed, Goto, NoRead
  <2>2. Found(t)
    BY Zenon DEF MemInv
  <2>3. arg[t].amount \in Balances
    BY <2>1, <2>2, Zenon DEF Found, AdvanceArg
  <2>4. MapTypes'
    BY <2>1, <2>3, Zenon DEF MemInv, MapTypes
  <2>5. pc'[t] = "advance_closing" => Found(t)'
    BY <2>1, <2>2, Zenon DEF Found
  <2> QED
    BY <2>1, <2>4, <2>5, WriterGoes, Zenon DEF Gated
<1>14. ASSUME NEW t \in Threads, advance_closing(t)
       PROVE  MemInv'
  <2>1. /\ pc[t] = "advance_closing" /\ closingMap' = None /\ gate' = gate
        /\ pc' = [pc EXCEPT ![t] = "advance_journal"] /\ arg' = arg
        /\ UNCHANGED <<fundingMap, balanceMap, closedMap, journalMap, began, result>>
    BY <1>14, Zenon DEF advance_closing, Goto, NoRead
  <2>2. Found(t)
    BY Zenon DEF MemInv
  <2>4. MapTypes'
    BY <2>1, Zenon DEF MemInv, MapTypes
  <2>5. pc'[t] = "advance_journal" => Found(t)'
    BY <2>1, <2>2, Zenon DEF Found
  <2> QED
    BY <2>1, <2>4, <2>5, WriterGoes, Zenon DEF Gated
<1>15. ASSUME NEW t \in Threads, advance_journal(t)
       PROVE  MemInv'
  <2>1. /\ pc[t] = "advance_journal" /\ journalMap' = arg[t].journal /\ gate' = None
        /\ pc' = [pc EXCEPT ![t] = "idle"] /\ arg' = [arg EXCEPT ![t] = None]
        /\ UNCHANGED <<fundingMap, balanceMap, closingMap, closedMap, began, result>>
    BY <1>15, Zenon DEF advance_journal, Leave, Goto, NoRead
  <2>2. arg[t].journal \in Journals
    BY <2>1, Zenon DEF MemInv, Found, AdvanceArg
  <2>3. MapTypes'
    BY <2>1, <2>2, Zenon DEF MemInv, MapTypes
  <2>4. pc[t] \in Gated
    BY <2>1, Zenon DEF Gated
  <2> QED
    BY <2>1, <2>3, <2>4, WriterLeaves, Zenon
<1>16. ASSUME NEW t \in Threads,
              get_state(t) \/ read_closed(t) \/ read_closing(t) \/ read_funding(t)
       PROVE  MemInv'
  <2>1. PICK l \in {"idle"} \cup Reading :
            /\ pc[t] \notin Gated /\ pc' = [pc EXCEPT ![t] = l]
            /\ UNCHANGED <<fundingMap, balanceMap, closingMap, closedMap, journalMap, gate, arg>>
            /\ DOMAIN began' = DOMAIN began /\ DOMAIN result' = DOMAIN result
    BY <1>16, Zenon DEF get_state, read_closed, read_closing, read_funding, Return, Goto, NoRead,
                 maps, Reading, Gated
  <2>2. pc \in [Threads -> {"idle"} \cup Gated \cup Reading]
    BY Zenon DEF MemInv, LocalTypes
  <2>3. pc' \in [Threads -> {"idle"} \cup Gated \cup Reading]
    BY <2>1, <2>2, Zenon
  <2>4. ASSUME NEW u \in Threads, pc'[u] \in Gated
        PROVE  pc'[u] = pc[u]
    BY <2>1, <2>2, <2>4, Zenon DEF Gated, Reading
  <2>5. GateHeld'
    BY <2>1, <2>4, Zenon DEF MemInv, GateHeld
  <2>6. ASSUME NEW u \in Threads
        PROVE  Found(u)'
    <3>1. CASE pc'[u] \notin Gated
      BY <3>1, Zenon DEF Found, Gated
    <3>2. CASE pc'[u] \in Gated
      BY <2>1, <2>4, <3>2, Zenon DEF MemInv, Found
    <3> QED
      BY <3>1, <3>2, Zenon
  <2> QED
    BY <2>1, <2>3, <2>5, <2>6, Zenon DEF MemInv, MapTypes, LocalTypes
<1>17. CASE UNCHANGED vars
  BY <1>17 DEF vars, maps, MemInv, MapTypes, LocalTypes, GateHeld, Found
<1> QED
  BY <1>1, <1>2, <1>3, <1>4, <1>5, <1>6, <1>7, <1>8, <1>9, <1>10, <1>11, <1>12, <1>13,
     <1>14, <1>15, <1>16, <1>17, Zenon DEF Next

(* MemInv holds of every reachable state. *)
LEMMA MemAlways == Spec => []MemInv
<1>1. Init => MemInv
  <2> SUFFICES ASSUME Init
               PROVE  MemInv
    OBVIOUS
  <2>1. \A t \in Threads : pc[t] = "idle"
    BY Zenon DEF Init
  <2>2. GateHeld /\ \A t \in Threads : Found(t)
    BY <2>1, Zenon DEF GateHeld, Found, Gated
  <2>3. MapTypes /\ LocalTypes
    BY Zenon DEF Init, MapTypes, LocalTypes
  <2> QED
    BY <2>2, <2>3, Zenon DEF MemInv
<1>2. MemInv /\ [Next]_vars => MemInv'
  BY MemStep, Zenon
<1> QED
  BY <1>1, <1>2, PTL DEF Spec

-----------------------------------------------------------------------------
(* Readers. *)

(* A channel that was Closed when get_state began still is, and the call has
   not got past the closed map. *)
SeenInv ==
    \A t \in Threads : began[t] = "Closed" =>
        /\ closedMap # None
        /\ pc[t] \notin {"read_closing", "read_funding"}
        /\ result[t] \in {"Closed", None}

(* The operations that write: they answer no get_state call. *)
Writes(t) ==
    \/ save_funding(t) \/ update_balance(t) \/ compare_payment(t) \/ write_balance(t)
    \/ mark_closing(t) \/ write_closing(t)
    \/ mark_closed(t) \/ insert_closed(t) \/ remove_closing(t)
    \/ freeze_close(t) \/ freeze_closing(t) \/ freeze_journal(t)
    \/ advance_close(t) \/ advance_closed(t) \/ advance_closing(t) \/ advance_journal(t)

(* No operation takes the channel out of the closed map. *)
LEMMA ClosedStays ==
    ASSUME MemInv, NEW t \in Threads, Writes(t)
    PROVE  /\ UNCHANGED <<began, result>>
           /\ closedMap # None => closedMap' # None
           /\ pc' = pc \/ \E l \in {"idle"} \cup Gated : pc' = [pc EXCEPT ![t] = l]
<1> USE MemoryAssumption DEF Goto, NoRead, Gated
<1>1. CASE save_funding(t)
  BY <1>1, Zenon DEF save_funding
<1>2. CASE \E l \in Gated : \E a : Enter(t, l, a)
  BY <1>2, Zenon DEF Enter, maps
<1>3. CASE update_balance(t) \/ compare_payment(t) \/ mark_closing(t) \/ mark_closed(t)
           \/ freeze_close(t)
  <2>1. \E l \in Gated : \E a : Enter(t, l, a)
    BY <1>3, Zenon DEF update_balance, compare_payment, mark_closing, mark_closed, freeze_close
  <2> QED
    BY <2>1, <1>2, Zenon
<1>4. CASE advance_close(t)
  <2>1. PICK j \in Journals, a \in Balances \cup {None} :
          Enter(t, IF a = None THEN "advance_journal" ELSE "advance_closed",
                [amount |-> a, journal |-> j])
    BY <1>4, Zenon DEF advance_close
  <2>2. (IF a = None THEN "advance_journal" ELSE "advance_closed") \in Gated
    OBVIOUS
  <2> QED
    BY <2>1, <2>2, <1>2, Zenon
<1>5. CASE write_balance(t) \/ write_closing(t) \/ remove_closing(t) \/ freeze_journal(t)
           \/ advance_journal(t)
  BY <1>5, Zenon DEF write_balance, write_closing, remove_closing, freeze_journal,
              advance_journal, Leave
<1>6. CASE insert_closed(t)
  BY <1>6, Zenon DEF insert_closed, MemInv, Found
<1>7. CASE advance_closed(t)
  BY <1>7, Zenon DEF advance_closed, MemInv, Found
<1>8. CASE freeze_closing(t) \/ advance_closing(t)
  BY <1>8, Zenon DEF freeze_closing, advance_closing
<1> QED
  BY <1>1, <1>3, <1>4, <1>5, <1>6, <1>7, <1>8, Zenon DEF Writes

(* A get_state call that began on a Closed channel stays with Closed. *)
LEMMA SeenStep ==
    ASSUME MemInv, SeenInv, [Next]_vars
    PROVE  SeenInv'
<1>0. /\ pc \in [Threads -> {"idle"} \cup Gated \cup Reading]
      /\ DOMAIN began = Threads /\ DOMAIN result = Threads
  BY Zenon DEF MemInv, LocalTypes
<1>1. ASSUME NEW t \in Threads, Writes(t)
      PROVE  SeenInv'
  <2>1. /\ UNCHANGED <<began, result>>
        /\ closedMap # None => closedMap' # None
        /\ \A u \in Threads : pc'[u] = pc[u] \/ pc'[u] \in {"idle"} \cup Gated
    BY <1>0, <1>1, ClosedStays, Zenon
  <2> QED
    BY <2>1, Zenon DEF SeenInv, Gated
<1>2. ASSUME NEW t \in Threads, get_state(t)
      PROVE  SeenInv'
  BY <1>0, <1>2, Zenon DEF get_state, state, maps, Goto, SeenInv
<1>3. ASSUME NEW t \in Threads, read_closed(t) \/ read_closing(t) \/ read_funding(t)
      PROVE  SeenInv'
  <2>1. /\ UNCHANGED <<began, closedMap>>
        /\ \A u \in Threads \ {t} : pc'[u] = pc[u] /\ result'[u] = result[u]
    BY <1>0, <1>3, Zenon DEF read_closed, read_closing, read_funding, Return, NoRead, maps, Goto
  <2>2. began[t] = "Closed" => pc'[t] = "idle" /\ result'[t] = "Closed"
    BY <1>0, <1>3, Zenon DEF read_closed, read_closing, read_funding, Return, Goto, SeenInv
  <2> QED
    BY <2>1, <2>2, Zenon DEF SeenInv
<1>4. CASE UNCHANGED vars
  BY <1>4, Zenon DEF vars, maps, SeenInv
<1> QED
  BY <1>1, <1>2, <1>3, <1>4, Zenon DEF Next, Writes

(* ClosedSeenAsClosed for every number of threads: a get_state call that
   begins on a Closed channel answers Closed, whatever operations run between
   its three reads. *)
THEOREM ClosedSeen == Spec => []ClosedSeenAsClosed
<1>1. Init => SeenInv
  BY MemoryAssumption, Zenon DEF Init, SeenInv
<1>2. MemInv /\ SeenInv /\ [Next]_vars => SeenInv'
  BY SeenStep, Zenon
<1>3. SeenInv => ClosedSeenAsClosed
  BY Zenon DEF SeenInv, ClosedSeenAsClosed
<1> QED
  BY <1>1, <1>2, <1>3, MemAlways, PTL DEF Spec

-----------------------------------------------------------------------------
(* The refinement. *)

(* The columns of the atomic store, in terms of the maps and of the only
   thread that may be between its writes. *)
LEMMA Columns ==
    ASSUME NEW t \in Threads, \A u \in Threads \ {t} : pc[u] \notin Gated
    PROVE  /\ closingColumn = IF closedMap # None \/ pc[t] = "freeze_journal"
                              THEN None ELSE closingMap
           /\ journalColumn = IF Paying(t) THEN arg[t].journal ELSE journalMap
<1>1. \A u \in Threads \ {t} : pc[u] # "freeze_journal" /\ ~ Paying(u)
  BY Zenon DEF Gated, Paying
<1>2. Freezing <=> pc[t] = "freeze_journal"
  BY <1>1, Zenon DEF Freezing
<1>3. Paying(t) => (CHOOSE u \in Threads : Paying(u)) = t
  BY <1>1, Zenon
<1>4. (\E u \in Threads : Paying(u)) <=> Paying(t)
  BY <1>1, Zenon
<1> QED
  BY <1>2, <1>3, <1>4, Zenon DEF closingColumn, journalColumn

(* The same columns after a step of the only writer. *)
LEMMA ColumnsNext ==
    ASSUME NEW t \in Threads, \A u \in Threads \ {t} : pc'[u] \notin Gated
    PROVE  /\ closingColumn' = IF closedMap' # None \/ pc'[t] = "freeze_journal"
                               THEN None ELSE closingMap'
           /\ journalColumn' = IF Paying(t)' THEN arg'[t].journal ELSE journalMap'
<1>1. \A u \in Threads \ {t} : pc'[u] # "freeze_journal" /\ ~ Paying(u)'
  BY Zenon DEF Gated, Paying
<1>2. Freezing' <=> pc'[t] = "freeze_journal"
  BY <1>1, Zenon DEF Freezing
<1>3. Paying(t)' => (CHOOSE u \in Threads : Paying(u)') = t
  BY <1>1, Zenon
<1>4. (\E u \in Threads : Paying(u)') <=> Paying(t)'
  BY <1>1, Zenon
<1> QED
  BY <1>2, <1>3, <1>4, Zenon DEF closingColumn, journalColumn

(* Steps that leave every writer where it is leave the columns alone. *)
LEMMA ColumnsKept ==
    ASSUME MemInv, NEW s \in Threads, 
           \A u \in Threads : pc[u] \in Gated \/ pc'[u] \in Gated => pc'[u] = pc[u],
           UNCHANGED <<closingMap, closedMap, journalMap, arg>>
    PROVE  UNCHANGED <<closingColumn, journalColumn>>
<1>1. PICK t \in Threads : \A u \in Threads \ {t} : pc[u] \notin Gated
  <2>1. CASE \E t \in Threads : pc[t] \in Gated
    BY <2>1, OneWriter, Zenon
  <2> QED
    BY <2>1, Zenon
<1>2. \A u \in Threads \ {t} : pc'[u] \notin Gated
  BY <1>1, Zenon
<1>3. pc[t] = pc'[t] \/ (pc[t] \notin Gated /\ pc'[t] \notin Gated)
  BY <1>1, Zenon
<1>4. /\ pc[t] = "freeze_journal" <=> pc'[t] = "freeze_journal"
      /\ Paying(t) <=> Paying(t)'
  BY <1>3, Zenon DEF Paying, Gated
<1> QED
  BY <1>1, <1>2, <1>4, Columns, ColumnsNext, Zenon

(* A step of the only writer, in terms of the columns. *)
LEMMA WriterColumns ==
    ASSUME MemInv, NEW t \in Threads, NEW l, pc' = [pc EXCEPT ![t] = l],
           gate = None \/ pc[t] \in Gated
    PROVE  /\ pc'[t] = l
           /\ closingColumn = IF closedMap # None \/ pc[t] = "freeze_journal"
                              THEN None ELSE closingMap
           /\ closingColumn' = IF closedMap' # None \/ l = "freeze_journal"
                               THEN None ELSE closingMap'
           /\ journalColumn = IF Paying(t) THEN arg[t].journal ELSE journalMap
           /\ journalColumn' = IF Paying(t)' THEN arg'[t].journal ELSE journalMap'
<1>1. pc \in [Threads -> {"idle"} \cup Gated \cup Reading]
  BY Zenon DEF MemInv, LocalTypes
<1>2. pc'[t] = l /\ \A u \in Threads \ {t} : pc'[u] = pc[u]
  BY <1>1, Zenon
<1>3. \A u \in Threads \ {t} : pc[u] \notin Gated /\ pc'[u] \notin Gated
  BY <1>2, OneWriter, Zenon
<1> QED
  BY <1>2, <1>3, Columns, ColumnsNext, Zenon

(* Taking the gate changes no column. *)
LEMMA EnterColumns ==
    ASSUME MemInv, NEW t \in Threads, NEW l, NEW a, Enter(t, l, a),
           l \notin {"freeze_journal", "advance_closing"},
           l = "advance_journal" => a.amount = None
    PROVE  UNCHANGED Atomic!storeVars
<1>1. /\ gate = None /\ pc[t] = "idle" /\ pc' = [pc EXCEPT ![t] = l]
      /\ arg' = [arg EXCEPT ![t] = a]
      /\ UNCHANGED <<fundingMap, balanceMap, closingMap, closedMap, journalMap>>
  BY Zenon DEF Enter, Goto, maps
<1>2. arg'[t] = a
  BY <1>1, Zenon DEF MemInv, LocalTypes
<1>3. pc'[t] = l
  BY <1>1, WriterColumns, Zenon
<1>4. ~ Paying(t) /\ ~ Paying(t)'
  BY <1>1, <1>2, <1>3, Zenon DEF Paying
<1>5. UNCHANGED <<closingColumn, journalColumn>>
  BY <1>1, <1>4, WriterColumns, Zenon
<1> QED
  BY <1>1, <1>5, Zenon DEF Atomic!storeVars

(* What the last writes do is what the atomic operations do. *)
LEMMA BalanceWritten ==
    ASSUME MemInv, NEW t \in Threads, write_balance(t)
    PROVE  Atomic!UpdateBalance
<1>1. /\ pc[t] = "write_balance" /\ balanceMap' = arg[t]
      /\ pc' = [pc EXCEPT ![t] = "idle"]
      /\ UNCHANGED <<fundingMap, closingMap, closedMap, journalMap>>
  BY Zenon DEF write_balance, Leave, Goto
<1>2. /\ arg[t] \in Payment /\ closedMap = None /\ closingMap = None /\ fundingMap # None
      /\ balanceMap # None => arg[t].balance > balanceMap.balance
  BY <1>1, Zenon DEF MemInv, Found
<1>3. pc[t] \in Gated /\ ~ Paying(t)
  BY <1>1, Zenon DEF Gated, Paying
<1>4. pc'[t] = "idle"
  BY <1>1, <1>3, WriterColumns, Zenon
<1>5. ~ Paying(t)'
  BY <1>4, Zenon DEF Paying
<1>6. closingColumn = None /\ closingColumn' = None /\ journalColumn' = journalColumn
  BY <1>1, <1>2, <1>3, <1>5, WriterColumns, Zenon
<1>7. Atomic!update_balance(arg[t])
  BY <1>1, <1>2, <1>6, Zenon DEF Atomic!update_balance, Atomic!update_balance_ok, Atomic!get_state
<1> QED
  BY <1>2, <1>7, Zenon DEF Atomic!UpdateBalance, Atomic!Payment, Payment

(* mark_closing takes effect when it writes the closing map. *)
LEMMA ClosingWritten ==
    ASSUME MemInv, NEW t \in Threads, write_closing(t)
    PROVE  Atomic!MarkClosing
<1>1. /\ pc[t] = "write_closing" /\ closingMap' = arg[t]
      /\ pc' = [pc EXCEPT ![t] = "idle"]
      /\ UNCHANGED <<fundingMap, balanceMap, closedMap, journalMap>>
  BY Zenon DEF write_closing, Leave, Goto
<1>2. arg[t] \in Payment /\ closedMap = None /\ journalMap = None
  BY <1>1, Zenon DEF MemInv, Found
<1>3. pc[t] \in Gated /\ ~ Paying(t)
  BY <1>1, Zenon DEF Gated, Paying
<1>4. pc'[t] = "idle"
  BY <1>1, <1>3, WriterColumns, Zenon
<1>5. ~ Paying(t)'
  BY <1>4, Zenon DEF Paying
<1>6. closingColumn' = arg[t] /\ journalColumn = None /\ journalColumn' = None
  BY <1>1, <1>2, <1>3, <1>5, WriterColumns, Zenon
<1>7. Atomic!mark_closing(arg[t])
  BY <1>1, <1>2, <1>6, Zenon DEF Atomic!mark_closing, Atomic!mark_closing_ok, Atomic!row_exists
<1> QED
  BY <1>2, <1>7, Zenon DEF Atomic!MarkClosing, Atomic!Payment, Payment

(* mark_closed takes effect when it inserts into the closed map. *)
LEMMA ClosedWritten ==
    ASSUME MemInv, NEW t \in Threads, insert_closed(t)
    PROVE  Atomic!MarkClosed
<1>1. /\ pc[t] = "insert_closed" /\ closedMap' = arg[t]
      /\ pc' = [pc EXCEPT ![t] = "remove_closing"]
      /\ UNCHANGED <<fundingMap, balanceMap, closingMap, journalMap>>
  BY Zenon DEF insert_closed, Goto
<1>2. arg[t] \in Balances /\ closedMap = None /\ journalMap = None
  BY <1>1, Zenon DEF MemInv, Found
<1>3. pc[t] \in Gated /\ ~ Paying(t)
  BY <1>1, Zenon DEF Gated, Paying
<1>4. pc'[t] = "remove_closing"
  BY <1>1, <1>3, WriterColumns, Zenon
<1>5. ~ Paying(t)'
  BY <1>4, Zenon DEF Paying
<1>6. closingColumn' = None /\ journalColumn = None /\ journalColumn' = None
  BY <1>1, <1>2, <1>3, <1>5, WriterColumns, MemoryAssumption, Zenon
<1>7. Atomic!mark_closed(arg[t])
  BY <1>1, <1>2, <1>6, Zenon DEF Atomic!mark_closed, Atomic!mark_closed_ok, Atomic!row_exists
<1> QED
  BY <1>2, <1>7, Zenon DEF Atomic!MarkClosed

(* freeze_close takes effect when it writes the journal. *)
LEMMA FreezeWritten ==
    ASSUME MemInv, NEW t \in Threads, freeze_journal(t)
    PROVE  Atomic!FreezeClose
<1>1. /\ pc[t] = "freeze_journal" /\ journalMap' = arg[t].journal
      /\ pc' = [pc EXCEPT ![t] = "idle"]
      /\ UNCHANGED <<fundingMap, balanceMap, closingMap, closedMap>>
  BY Zenon DEF freeze_journal, Leave, Goto
<1>2. /\ arg[t] \in FreezeArg /\ closedMap = None /\ closingMap = arg[t].payment
      /\ fundingMap # None /\ balanceMap = arg[t].payment /\ journalMap = None
  BY <1>1, Zenon DEF MemInv, Found
<1>3. pc[t] \in Gated /\ ~ Paying(t)
  BY <1>1, Zenon DEF Gated, Paying
<1>4. pc'[t] = "idle"
  BY <1>1, <1>3, WriterColumns, Zenon
<1>5. ~ Paying(t)'
  BY <1>4, Zenon DEF Paying
<1>6. /\ closingColumn = None /\ closingColumn' = arg[t].payment
      /\ journalColumn = None /\ journalColumn' = arg[t].journal
  BY <1>1, <1>2, <1>3, <1>5, WriterColumns, Zenon
<1>7. arg[t].payment \in Payment /\ arg[t].journal \in Journals
  BY <1>2, Zenon DEF FreezeArg
<1>8. Atomic!freeze_close(arg[t].payment, arg[t].journal)
  BY <1>1, <1>2, <1>6, Zenon DEF Atomic!freeze_close, Atomic!get_state
<1> QED
  BY <1>7, <1>8, Zenon DEF Atomic!FreezeClose, Atomic!Payment, Payment

(* advance_close with a payout takes effect when it inserts into the closed map. *)
LEMMA PayoutWritten ==
    ASSUME MemInv, NEW t \in Threads, advance_closed(t)
    PROVE  Atomic!AdvanceClose
<1>1. /\ pc[t] = "advance_closed" /\ closedMap' = arg[t].amount
      /\ pc' = [pc EXCEPT ![t] = "advance_closing"] /\ arg' = arg
      /\ UNCHANGED <<fundingMap, balanceMap, closingMap, journalMap>>
  BY Zenon DEF advance_closed, Goto
<1>2. /\ arg[t] \in AdvanceArg /\ arg[t].amount # None
      /\ closedMap = None /\ closingMap # None /\ journalMap # None
  BY <1>1, Zenon DEF MemInv, Found
<1>3. pc[t] \in Gated /\ ~ Paying(t)
  BY <1>1, Zenon DEF Gated, Paying
<1>4. pc'[t] = "advance_closing"
  BY <1>1, <1>3, WriterColumns, Zenon
<1>5. Paying(t)'
  BY <1>4, Zenon DEF Paying
<1>6. /\ closingColumn = closingMap /\ closingColumn' = None
      /\ journalColumn = journalMap /\ journalColumn' = arg[t].journal
  BY <1>1, <1>2, <1>3, <1>5, WriterColumns, Zenon
<1>7. arg[t].amount \in Balances /\ arg[t].journal \in Journals /\ journalMap \in Journals
  BY <1>2, Zenon DEF AdvanceArg, MemInv, MapTypes
<1>8. Atomic!advance_close(journalMap, arg[t].journal, arg[t].amount)
  BY <1>1, <1>2, <1>6, Zenon DEF Atomic!advance_close, Atomic!get_state
<1> QED
  BY <1>7, <1>8, Zenon DEF Atomic!AdvanceClose

(* The journal write of advance_close is the whole of one without a payout, and
   already counted for one with. *)
LEMMA JournalWritten ==
    ASSUME MemInv, NEW t \in Threads, advance_journal(t)
    PROVE  Atomic!AdvanceClose \/ UNCHANGED Atomic!storeVars
<1>1. /\ pc[t] = "advance_journal" /\ journalMap' = arg[t].journal
      /\ pc' = [pc EXCEPT ![t] = "idle"]
      /\ UNCHANGED <<fundingMap, balanceMap, closingMap, closedMap>>
  BY Zenon DEF advance_journal, Leave, Goto
<1>2. /\ arg[t] \in AdvanceArg /\ journalMap # None
      /\ arg[t].amount = None => closedMap = None /\ closingMap # None
      /\ arg[t].amount # None => closedMap # None
  BY <1>1, Zenon DEF MemInv, Found
<1>3. pc[t] \in Gated /\ (Paying(t) <=> arg[t].amount # None)
  BY <1>1, Zenon DEF Gated, Paying
<1>4. pc'[t] = "idle"
  BY <1>1, <1>3, WriterColumns, Zenon
<1>5. ~ Paying(t)'
  BY <1>4, Zenon DEF Paying
<1>6. CASE arg[t].amount # None
  <2>1. UNCHANGED <<closingColumn, journalColumn>>
    BY <1>1, <1>2, <1>3, <1>5, <1>6, WriterColumns, Zenon
  <2> QED
    BY <2>1, <1>1, Zenon DEF Atomic!storeVars
<1>7. CASE arg[t].amount = None
  <2>1. /\ closingColumn = closingMap /\ closingColumn' = closingMap
        /\ journalColumn = journalMap /\ journalColumn' = arg[t].journal
    BY <1>1, <1>2, <1>3, <1>5, <1>7, WriterColumns, Zenon
  <2>2. arg[t].journal \in Journals /\ journalMap \in Journals
    BY <1>2, Zenon DEF AdvanceArg, MemInv, MapTypes
  <2>3. Atomic!advance_close(journalMap, arg[t].journal, None)
    BY <1>1, <1>2, <1>7, <2>1, Zenon DEF Atomic!advance_close, Atomic!get_state
  <2> QED
    BY <2>2, <2>3, Zenon DEF Atomic!AdvanceClose
<1> QED
  BY <1>6, <1>7, Zenon

(* The first write of a freeze and the second of a close change no column:
   the closing map is not looked at in between. *)
LEMMA InnerWrites ==
    ASSUME MemInv, NEW t \in Threads,
           remove_closing(t) \/ freeze_closing(t) \/ advance_closing(t)
    PROVE  UNCHANGED Atomic!storeVars
<1>1. CASE remove_closing(t)
  <2>1. /\ pc[t] = "remove_closing" /\ pc' = [pc EXCEPT ![t] = "idle"]
        /\ UNCHANGED <<fundingMap, balanceMap, closedMap, journalMap>>
    BY <1>1, Zenon DEF remove_closing, Leave, Goto
  <2>2. closedMap # None /\ pc[t] \in Gated /\ ~ Paying(t)
    BY <2>1, Zenon DEF MemInv, Found, Gated, Paying
  <2>3. pc'[t] = "idle"
    BY <2>1, <2>2, WriterColumns, Zenon
  <2>4. ~ Paying(t)'
    BY <2>3, Zenon DEF Paying
  <2> QED
    BY <2>1, <2>2, <2>4, WriterColumns, Zenon DEF Atomic!storeVars
<1>2. CASE freeze_closing(t)
  <2>1. /\ pc[t] = "freeze_closing" /\ pc' = [pc EXCEPT ![t] = "freeze_journal"]
        /\ UNCHANGED <<fundingMap, balanceMap, closedMap, journalMap>>
    BY <1>2, Zenon DEF freeze_closing, Goto
  <2>2. closingMap = None /\ pc[t] \in Gated /\ ~ Paying(t)
    BY <2>1, Zenon DEF MemInv, Found, Gated, Paying
  <2>3. pc'[t] = "freeze_journal"
    BY <2>1, <2>2, WriterColumns, Zenon
  <2>4. ~ Paying(t)'
    BY <2>3, Zenon DEF Paying
  <2> QED
    BY <2>1, <2>2, <2>4, WriterColumns, Zenon DEF Atomic!storeVars
<1>3. CASE advance_closing(t)
  <2>1. /\ pc[t] = "advance_closing" /\ pc' = [pc EXCEPT ![t] = "advance_journal"]
        /\ UNCHANGED <<fundingMap, balanceMap, closedMap, journalMap, arg>>
    BY <1>3, Zenon DEF advance_closing, Goto, NoRead
  <2>2. closedMap # None /\ arg[t].amount # None /\ pc[t] \in Gated /\ Paying(t)
    BY <2>1, Zenon DEF MemInv, Found, Gated, Paying
  <2>3. pc'[t] = "advance_journal"
    BY <2>1, <2>2, WriterColumns, Zenon
  <2>4. Paying(t)'
    BY <2>1, <2>2, <2>3, Zenon DEF Paying
  <2> QED
    BY <2>1, <2>2, <2>4, WriterColumns, Zenon DEF Atomic!storeVars
<1> QED
  BY <1>1, <1>2, <1>3, Zenon

(* Every step of MemoryStorage is a step of the atomic store, or changes none
   of its columns. *)
LEMMA AtomicStep ==
    ASSUME MemInv, [Next]_vars
    PROVE  [Atomic!StoreNext]_(Atomic!storeVars)
<1>1. ASSUME NEW t \in Threads, save_funding(t)
      PROVE  Atomic!SaveFunding
  <2>1. PICK f \in Fundings :
            /\ fundingMap = None /\ fundingMap' = f
            /\ UNCHANGED <<balanceMap, closingMap, closedMap, journalMap, pc, arg>>
    BY <1>1, Zenon DEF save_funding
  <2>2. UNCHANGED <<closingColumn, journalColumn>>
    BY <2>1, ColumnsKept, Zenon
  <2>3. Atomic!save_funding(f)
    BY <2>1, <2>2, Zenon DEF Atomic!save_funding
  <2> QED
    BY <2>3, Zenon DEF Atomic!SaveFunding
<1>2. ASSUME NEW t \in Threads,
             update_balance(t) \/ compare_payment(t) \/ mark_closing(t) \/ mark_closed(t)
      PROVE  UNCHANGED Atomic!storeVars
  <2>1. \E l \in {"write_balance", "write_closing", "insert_closed"} : \E a : Enter(t, l, a)
    BY <1>2, Zenon DEF update_balance, compare_payment, mark_closing, mark_closed
  <2> QED
    BY <2>1, EnterColumns, Zenon
<1>3. ASSUME NEW t \in Threads, freeze_close(t)
      PROVE  UNCHANGED Atomic!storeVars
  <2>1. \E a : Enter(t, "freeze_closing", a)
    BY <1>3, Zenon DEF freeze_close
  <2> QED
    BY <2>1, EnterColumns, Zenon
<1>4. ASSUME NEW t \in Threads, advance_close(t)
      PROVE  UNCHANGED Atomic!storeVars
  <2>1. PICK j \in Journals, b \in Balances \cup {None} :
          Enter(t, IF b = None THEN "advance_journal" ELSE "advance_closed",
                [amount |-> b, journal |-> j])
    BY <1>4, Zenon DEF advance_close
  <2> DEFINE l == IF b = None THEN "advance_journal" ELSE "advance_closed"
             a == [amount |-> b, journal |-> j]
  <2>2. /\ l \notin {"freeze_journal", "advance_closing"}
        /\ l = "advance_journal" => a.amount = None
    OBVIOUS
  <2>3. Enter(t, l, a)
    BY <2>1, Zenon
  <2> HIDE DEF l, a
  <2> QED
    BY <2>2, <2>3, EnterColumns, Zenon
<1>5. ASSUME NEW t \in Threads,
             get_state(t) \/ read_closed(t) \/ read_closing(t) \/ read_funding(t)
      PROVE  UNCHANGED Atomic!storeVars
  <2>1. PICK l \in {"idle"} \cup Reading :
            /\ pc[t] \notin Gated /\ pc' = [pc EXCEPT ![t] = l]
            /\ UNCHANGED <<fundingMap, balanceMap, closingMap, closedMap, journalMap, arg>>
    BY <1>5, Zenon DEF get_state, read_closed, read_closing, read_funding, Return, Goto, NoRead,
                maps, Reading, Gated
  <2>2. \A u \in Threads : pc[u] \in Gated \/ pc'[u] \in Gated => pc'[u] = pc[u]
    BY <2>1, Zenon DEF MemInv, LocalTypes, Gated, Reading
  <2>3. UNCHANGED <<closingColumn, journalColumn>>
    BY <2>1, <2>2, ColumnsKept, Zenon
  <2> QED
    BY <2>1, <2>3, Zenon DEF Atomic!storeVars
<1>6. CASE UNCHANGED vars
  BY <1>6, Zenon DEF vars, maps, Atomic!storeVars, closingColumn, journalColumn, Freezing, Paying
<1> QED
  BY <1>1, <1>2, <1>3, <1>4, <1>5, <1>6, BalanceWritten, ClosingWritten, ClosedWritten,
     FreezeWritten, PayoutWritten, JournalWritten, InnerWrites, Zenon
     DEF Next, Atomic!StoreNext

(* WritesAreAtomic for every number of threads and every interleaving of their
   map accesses: MemoryStorage implements the store whose operations are
   single steps. *)
THEOREM MemoryImplementsStore == Spec => WritesAreAtomic
<1>1. Init => Atomic!StoreInit
  <2> SUFFICES ASSUME Init
               PROVE  Atomic!StoreInit
    OBVIOUS
  <2>1. \A t \in Threads : pc[t] = "idle"
    BY Zenon DEF Init
  <2>2. closingColumn = None /\ journalColumn = None
    BY <2>1, Zenon DEF Init, closingColumn, journalColumn, Freezing, Paying
  <2> QED
    BY <2>2, Zenon DEF Init, Atomic!StoreInit
<1>2. MemInv /\ [Next]_vars => [Atomic!StoreNext]_(Atomic!storeVars)
  BY AtomicStep, Zenon
<1> QED
  BY <1>1, <1>2, MemAlways, PTL DEF Spec, WritesAreAtomic, Atomic!StoreSpec

-----------------------------------------------------------------------------
(* What is proved of the atomic store holds of MemoryStorage's columns. *)

Store == INSTANCE ReceiverStoreProofs WITH
    Backend <- "memory", Usages <- {}, MaxUsage <- 0, usage <- 0,
    funding <- fundingMap, payment <- balanceMap, closed <- closedMap,
    closing <- closingColumn, journal <- journalColumn

(* The assumptions of the store hold of this instance. *)
LEMMA StoreAssumed == Store!StoreAssumption
  BY MemoryAssumption, Zenon DEF Store!StoreAssumption, Store!Payment, Payment

(* Store names the same specification as Atomic. *)
LEMMA SameStore == Spec => Store!StoreSpec
<1>1. Atomic!StoreInit => Store!StoreInit
  BY Zenon DEF Atomic!StoreInit, Store!StoreInit
<1>2. [Atomic!StoreNext]_(Atomic!storeVars) => [Store!StoreNext]_(Store!storeVars)
  BY Zenon DEF
      Atomic!storeVars, Atomic!StoreNext, Atomic!SaveFunding,
      Atomic!UpdateBalance, Atomic!ComparePayment, Atomic!IncrementUsage,
      Atomic!MarkClosing, Atomic!MarkClosed, Atomic!FreezeClose,
      Atomic!AdvanceClose, Atomic!save_funding, Atomic!update_balance,
      Atomic!update_balance_ok, Atomic!compare_payment,
      Atomic!increment_usage, Atomic!mark_closing, Atomic!mark_closing_ok,
      Atomic!mark_closed, Atomic!mark_closed_ok, Atomic!row_exists,
      Atomic!freeze_close, Atomic!advance_close, Atomic!get_state,
      Atomic!Payment,
      Store!storeVars, Store!StoreNext, Store!SaveFunding,
      Store!UpdateBalance, Store!ComparePayment, Store!IncrementUsage,
      Store!MarkClosing, Store!MarkClosed, Store!FreezeClose,
      Store!AdvanceClose, Store!save_funding, Store!update_balance,
      Store!update_balance_ok, Store!compare_payment, Store!increment_usage,
      Store!mark_closing, Store!mark_closing_ok, Store!mark_closed,
      Store!mark_closed_ok, Store!row_exists, Store!freeze_close,
      Store!advance_close, Store!get_state, Store!Payment
<1> QED
  BY <1>1, <1>2, MemoryImplementsStore, PTL
     DEF WritesAreAtomic, Atomic!StoreSpec, Store!StoreSpec

(* A journaled close stays frozen at the recorded payment (JournalFreezesPayment)
   although freeze_close and advance_close write their maps one at a time. *)
THEOREM MemoryJournalFreezes == Spec => []Store!JournalFreezesPayment
  BY SameStore, StoreAssumed, Store!JournaledCloseIsFrozen, PTL

(* The lifecycle, funding, the closed record and the recorded payment only move
   forward (Ratchet) under every interleaving of the lock-grained writes. *)
THEOREM MemoryRatchets == Spec => Store!Ratchet
  BY SameStore, StoreAssumed, Store!StoreRatchets, PTL
=============================================================================
