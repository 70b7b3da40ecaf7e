---------------------------- MODULE ClientChannel ----------------------------
(***************************************************************************)
(* SpilmanClientBridge over the SQLite client storage: opening channels    *)
(* from one funding input, recovering an opening, signing and recording    *)
(* payments, closing and deleting, interleaved at every storage and mint   *)
(* call.  The mint may answer late or never, and process a request after   *)
(* the client gave up on it; keysets are rotated; the process crashes.     *)
(*                                                                         *)
(* A task is one call of the bridge.  The application reserves the input   *)
(* while a call may spend it, and releases it as OpenChannelError tells.   *)
(***************************************************************************)
EXTENDS ClientStore

CONSTANTS
    Tasks,          \* concurrently running calls of the bridge
    Kinds,          \* calls the instance exercises
    Keysets,        \* keysets of the mint for the input's unit
    KeysetOf,       \* [Channels -> Keysets]: a channel id commits to its keyset
    FirstKeyset,    \* the keyset that is active and cached at the start
    Capacity,       \* capacity of each channel
    Careful         \* the application closes only channels that it opened

(* "open", "auto" and "recover" are the convenience wrappers.  In the "prepared"
   kinds the application runs the explicit phases itself, and keeps the completed
   result, change proofs included, before it marks the channel open. *)
CallKinds == {"open", "auto", "prepared", "recover", "recover_prepared", "record"}

Labels ==
    {"idle", "prepare", "fresh", "save", "submit", "wait", "reject", "refresh",
     "verify", "restore", "restore_change", "mark_open", "deliver", "write"}

Replies == {"signed", "keyset", "spent"}

ASSUME ClientAssumption ==
    /\ Kinds \subseteq CallKinds
    /\ KeysetOf \in [Channels -> Keysets]
    /\ FirstKeyset \in Keysets
    /\ Capacity \in Nat
    /\ Careful \in BOOLEAN
    /\ None \notin Channels \cup Keysets \cup Replies \cup CallKinds

VARIABLES
    pc,         \* [Tasks -> Labels]
    kind,       \* the call
    chan,       \* channel id of the prepared opening
    prep,       \* its opening record
    got,        \* funding proofs received from the mint
    paid,       \* payment state about to be written
    retry,      \* keyset that the first attempt was rejected for
    wire,       \* funding swaps sent to the mint and not yet processed
    reply,      \* [Channels -> the mint's answer to the channel's last swap]
    issued,     \* [Channels -> proofs the mint issued for the channel]
    elsewhere,  \* the input was spent by somebody else
    status,     \* the mint's keysets: "future", "active", "retired", "dead"
    cache,      \* keysets cached as active
    claim,      \* the application's reservation of the input
    change,     \* channels whose change proofs the application has
    signed,     \* payments signed so far
    dropped     \* closed channels that the application deleted

localVars == <<pc, kind, chan, prep, got, paid, retry>>
mintVars == <<wire, reply, issued, elsewhere, status>>
appVars == <<claim, change, signed, dropped>>
vars == <<storeVars, localVars, mintVars, cache, appVars>>

Init ==
    /\ StoreInit
    /\ pc = [t \in Tasks |-> "idle"]
    /\ kind = [t \in Tasks |-> None]
    /\ chan = [t \in Tasks |-> None]
    /\ prep = [t \in Tasks |-> None]
    /\ got = [t \in Tasks |-> None]
    /\ paid = [t \in Tasks |-> None]
    /\ retry = [t \in Tasks |-> None]
    /\ wire = {}
    /\ reply = [c \in Channels |-> None]
    /\ issued = [c \in Channels |-> None]
    /\ elsewhere = FALSE
    /\ status = [k \in Keysets |-> IF k = FirstKeyset THEN "active" ELSE "future"]
    /\ cache = {FirstKeyset}
    /\ claim = "free"
    /\ change = {}
    /\ signed = {}
    /\ dropped = {}

-----------------------------------------------------------------------------
(* Local steps of a call. *)

Goto(t, l) == pc' = [pc EXCEPT ![t] = l]
KeepLocals == UNCHANGED <<kind, chan, prep, got, paid, retry>>
KeepRest == UNCHANGED <<mintVars, cache, change, signed, dropped>>

Return(t) ==
    /\ pc' = [pc EXCEPT ![t] = "idle"]
    /\ kind' = [kind EXCEPT ![t] = None]
    /\ chan' = [chan EXCEPT ![t] = None]
    /\ prep' = [prep EXCEPT ![t] = None]
    /\ got' = [got EXCEPT ![t] = None]
    /\ paid' = [paid EXCEPT ![t] = None]
    /\ retry' = [retry EXCEPT ![t] = None]

Opens(t) == kind[t] \in {"open", "auto", "prepared"}
Persists(t) == kind[t] \in {"prepared", "recover_prepared"}

(* The call fails; input_may_be_spent is FALSE for the stages
   BeforeOpeningSaved and MintRejected only, and the application then
   releases the input. *)
FailUnspent(t) ==
    /\ Return(t)
    /\ claim' = IF Opens(t) /\ claim = "busy" THEN "free" ELSE claim
FailUncertain(t) ==
    /\ Return(t)
    /\ claim' = IF Opens(t) /\ claim = "busy" THEN "uncertain" ELSE claim

(* usable_output_keyset_ids *)
usable == {k \in cache : status[k] # "dead"}

(* refresh_keysets_inner writes the listed keysets one after the other. *)
active_keysets == {k \in Keysets : status[k] = "active"}
written(done) == (cache \ done) \cup (active_keysets \cap done)

-----------------------------------------------------------------------------
(* open_channel_from_token, open_channel_from_proofs and their _auto forms. *)

(* The application opens only with an input that is not reserved.  The auto
   forms fill an empty cache first (ensure_keysets_cached_for_unit). *)
open_channel(t, k) ==
    /\ k \in Kinds /\ pc[t] = "idle"
    /\ claim = "free"
    /\ claim' = "busy"
    /\ Goto(t, IF k = "auto" /\ usable = {} THEN "refresh" ELSE "prepare")
    /\ kind' = [kind EXCEPT ![t] = k]
    /\ UNCHANGED <<storeVars, chan, prep, got, paid, retry>> /\ KeepRest

(* The selected keyset, or the one the caller names, and the clock determine
   the channel id; change secrets and the clock make the opening record.  The
   second time round, an unchanged keyset ends with the first rejection. *)
prepare_open_channel(t) ==
    /\ pc[t] = "prepare"
    /\ \E c \in Channels, o \in Openings :
          /\ kind[t] = "auto" => KeysetOf[c] \in usable \ {retry[t]}
          /\ chan' = [chan EXCEPT ![t] = c]
          /\ prep' = [prep EXCEPT ![t] = o]
    /\ Goto(t, IF kind[t] = "prepared" THEN "save" ELSE "fresh")
    /\ UNCHANGED <<storeVars, kind, got, paid, retry, claim>> /\ KeepRest

(* The input does not suffice, its keysets cannot be fetched, no output keyset
   is usable, or the rejected one is selected again. *)
prepare_fails(t) ==
    /\ pc[t] = "prepare"
    /\ FailUnspent(t)
    /\ UNCHANGED storeVars /\ KeepRest

require_fresh_open_submission(t) ==
    /\ pc[t] = "fresh"
    /\ IF get_opening_from_swap(chan[t]) = None
       THEN Goto(t, "save") /\ KeepLocals /\ UNCHANGED claim
       ELSE FailUncertain(t)
    /\ UNCHANGED storeVars /\ KeepRest

mark_prepared_open_saved(t) ==
    /\ pc[t] = "save"
    /\ IF save_opening_ok(chan[t], prep[t])
       THEN /\ save_opening_from_swap(chan[t], prep[t])
            /\ Goto(t, "submit") /\ KeepLocals /\ UNCHANGED claim
       ELSE FailUnspent(t) /\ UNCHANGED storeVars
    /\ KeepRest

submit_prepared_open(t) ==
    /\ pc[t] = "submit"
    /\ wire' = wire \cup {chan[t]}
    /\ reply' = [reply EXCEPT ![chan[t]] = None]
    /\ Goto(t, "wait") /\ KeepLocals
    /\ UNCHANGED <<storeVars, issued, elsewhere, status, cache, appVars>>

(* A completed response, a keyset rejection, or any other rejection. *)
receive_answer(t) ==
    /\ pc[t] = "wait"
    /\ \/ /\ reply[chan[t]] = "signed"
          /\ got' = [got EXCEPT ![t] = issued[chan[t]]]
          /\ Goto(t, "verify")
          /\ UNCHANGED <<kind, chan, prep, paid, retry, claim>>
       \/ reply[chan[t]] = "keyset" /\ Goto(t, "reject") /\ KeepLocals /\ UNCHANGED claim
       \/ reply[chan[t]] = "spent" /\ FailUncertain(t)
    /\ UNCHANGED storeVars /\ KeepRest

(* Mutant: a submission without an answer releases the input. *)
lose_answer_unspent(t) ==
    /\ pc[t] \in {"submit", "wait", "verify", "restore", "restore_change"}
    /\ FailUnspent(t)
    /\ UNCHANGED storeVars /\ KeepRest

(* The request or its answer is lost, or times out. *)
lose_answer(t) ==
    /\ pc[t] \in {"submit", "wait", "verify", "restore", "restore_change"}
    /\ FailUncertain(t)
    /\ UNCHANGED storeVars /\ KeepRest

(* mark_prepared_open_rejected; is_retryable_keyset_rejection sends the auto
   forms round once more. *)
mark_prepared_open_rejected(t) ==
    /\ pc[t] = "reject"
    /\ IF set_opening_failed_ok(chan[t])
       THEN /\ set_opening_failed(chan[t])
            /\ IF kind[t] = "auto" /\ retry[t] = None
               THEN /\ retry' = [retry EXCEPT ![t] = KeysetOf[chan[t]]]
                    /\ Goto(t, "refresh")
                    /\ UNCHANGED <<kind, chan, prep, got, paid, claim>>
               ELSE FailUnspent(t)
       ELSE FailUncertain(t) /\ UNCHANGED storeVars
    /\ KeepRest

refresh_keysets(t) ==
    /\ pc[t] = "refresh"
    /\ \E done \in SUBSET Keysets :
          /\ cache' = written(done)
          /\ \/ active_keysets \subseteq done /\ Goto(t, "prepare") /\ KeepLocals
                  /\ UNCHANGED claim
             \/ FailUnspent(t)
    /\ UNCHANGED <<storeVars, mintVars, change, signed, dropped>>

(* The mandatory NUT-09 restore, and its comparison with the response. *)
verify_completed_open_matches_restore(t) ==
    /\ pc[t] = "verify"
    /\ got[t] = issued[chan[t]]
    /\ change' = IF Persists(t) THEN change \cup {chan[t]} ELSE change
    /\ Goto(t, "mark_open") /\ KeepLocals
    /\ UNCHANGED <<storeVars, mintVars, cache, claim, signed, dropped>>

(* mark_completed_open and mark_completed_open_recovery *)
mark_completed_open(t) ==
    /\ pc[t] = "mark_open"
    /\ IF set_open_ok(chan[t], got[t])
       THEN /\ set_open(chan[t], got[t])
            /\ Goto(t, "deliver") /\ KeepLocals /\ UNCHANGED claim
       ELSE FailUncertain(t) /\ UNCHANGED storeVars
    /\ KeepRest

(* The OpenChannelResult, with the change proofs, reaches the application. *)
deliver_result(t) ==
    /\ pc[t] = "deliver"
    /\ change' = change \cup {chan[t]}
    /\ claim' = "used"
    /\ Return(t)
    /\ UNCHANGED <<storeVars, mintVars, cache, signed, dropped>>

-----------------------------------------------------------------------------
(* recover_open_channel_from_swap: restore the funding, then the change. *)

prepare_open_channel_recovery(t, k) ==
    /\ k \in Kinds /\ pc[t] = "idle"
    /\ \E c \in Channels :
          /\ get_opening_from_swap(c) # None
          /\ chan' = [chan EXCEPT ![t] = c]
          /\ prep' = [prep EXCEPT ![t] = get_opening_from_swap(c)]
    /\ kind' = [kind EXCEPT ![t] = k]
    /\ Goto(t, "restore")
    /\ UNCHANGED <<storeVars, got, paid, retry, claim>> /\ KeepRest

(* Mutants: recovery forgets the change, or takes an empty restore as proof that
   the swap was rejected. *)
restore_funding_proofs_only(t) ==
    /\ pc[t] = "restore"
    /\ issued[chan[t]] # None
    /\ got' = [got EXCEPT ![t] = issued[chan[t]]]
    /\ Goto(t, "mark_open")
    /\ UNCHANGED <<storeVars, kind, chan, prep, paid, retry, claim>> /\ KeepRest
restore_funding_proofs_or_reject(t) ==
    /\ pc[t] = "restore"
    /\ IF issued[chan[t]] # None
       THEN /\ got' = [got EXCEPT ![t] = issued[chan[t]]]
            /\ Goto(t, "restore_change")
            /\ UNCHANGED <<storeVars, kind, chan, prep, paid, retry, claim>>
       ELSE FailUncertain(t) /\ set_opening_failed(chan[t])
    /\ KeepRest

(* An empty restore is an error and leaves the opening as it is. *)
restore_funding_proofs(t) ==
    /\ pc[t] = "restore"
    /\ IF issued[chan[t]] # None
       THEN /\ got' = [got EXCEPT ![t] = issued[chan[t]]]
            /\ Goto(t, "restore_change")
            /\ UNCHANGED <<kind, chan, prep, paid, retry, claim>>
       ELSE FailUncertain(t)
    /\ UNCHANGED storeVars /\ KeepRest

restore_change_proofs(t) ==
    /\ pc[t] = "restore_change"
    /\ change' = IF Persists(t) THEN change \cup {chan[t]} ELSE change
    /\ Goto(t, "mark_open") /\ KeepLocals
    /\ UNCHANGED <<storeVars, mintVars, cache, claim, signed, dropped>>

-----------------------------------------------------------------------------
(* Payments, closing and deleting. *)

(* sign_payment_internal; the caller may or may not record what it signed *)
sign_payment(c, b) ==
    /\ get_funding(c) # None
    /\ state[c] = "Open"
    /\ b <= Capacity
    /\ signed' = signed \cup {[chan |-> c, balance |-> b]}
    /\ UNCHANGED <<storeVars, localVars, mintVars, cache, claim, change, dropped>>

(* record_signed_payment reads the counter and then writes the payment *)
record_signed_payment(t) ==
    /\ "record" \in Kinds /\ pc[t] = "idle"
    /\ \E s \in signed :
          LET n == IF pstate[s.chan] = None THEN 1 ELSE pstate[s.chan].count + 1
          IN /\ n <= MaxCount
             /\ chan' = [chan EXCEPT ![t] = s.chan]
             /\ paid' = [paid EXCEPT ![t] = [balance |-> s.balance, count |-> n]]
    /\ kind' = [kind EXCEPT ![t] = "record"]
    /\ Goto(t, "write")
    /\ UNCHANGED <<storeVars, prep, got, retry, claim>> /\ KeepRest

record_payment(t) ==
    /\ pc[t] = "write"
    /\ IF row_exists(chan[t]) THEN save_payment_state(chan[t], paid[t])
       ELSE UNCHANGED storeVars
    /\ Return(t)
    /\ UNCHANGED claim /\ KeepRest

(* close_channel and process_cooperative_close_response *)
close_channel(c) ==
    /\ Careful => state[c] \in {"Open", "Closing"}
    /\ set_closed(c)
    /\ UNCHANGED <<localVars, mintVars, cache, appVars>>

mark_channel_unusable(c) ==
    /\ set_closing(c)
    /\ UNCHANGED <<localVars, mintVars, cache, appVars>>

(* Deleting is final; the application deletes what it has no more use for. *)
delete_channel(c) ==
    /\ state[c] \in {"OpeningFailed", "Closed"}
    /\ delete(c)
    /\ dropped' = IF state[c] = "Closed" THEN dropped \cup {c} ELSE dropped
    /\ UNCHANGED <<localVars, mintVars, cache, claim, change, signed>>

-----------------------------------------------------------------------------
(* The environment. *)

inputSpent == elsewhere \/ \E c \in Channels : issued[c] # None

(* The mint processes a swap, now or long after the client gave up. *)
mint_swap(c) ==
    /\ c \in wire
    /\ wire' = wire \ {c}
    /\ \/ /\ ~inputSpent /\ status[KeysetOf[c]] = "active"
          /\ \E p \in Proofs : issued' = [issued EXCEPT ![c] = p]
          /\ reply' = [reply EXCEPT ![c] = "signed"]
       \/ /\ inputSpent
          /\ reply' = [reply EXCEPT ![c] = "spent"] /\ UNCHANGED issued
       \/ /\ status[KeysetOf[c]] # "active"
          /\ reply' = [reply EXCEPT ![c] = "keyset"] /\ UNCHANGED issued
    /\ UNCHANGED <<storeVars, localVars, elsewhere, status, cache, appVars>>

(* The token was also given to somebody else. *)
spend_elsewhere ==
    /\ ~inputSpent
    /\ elsewhere' = TRUE
    /\ UNCHANGED <<storeVars, localVars, wire, reply, issued, status, cache, appVars>>

rotate_keyset ==
    /\ \E k \in Keysets :
          /\ status[k] = "future"
          /\ status' = [x \in Keysets |-> IF x = k THEN "active"
                                      ELSE IF status[x] = "active" THEN "retired"
                                      ELSE status[x]]
    /\ UNCHANGED <<storeVars, localVars, wire, reply, issued, elsewhere, cache, appVars>>

expire_keyset ==
    /\ \E k \in Keysets : status[k] = "retired" /\ status' = [status EXCEPT ![k] = "dead"]
    /\ UNCHANGED <<storeVars, localVars, wire, reply, issued, elsewhere, cache, appVars>>

(* The process dies and is restarted.  The reservation survives it. *)
crash ==
    /\ \E t \in Tasks : pc[t] # "idle"
    /\ pc' = [t \in Tasks |-> "idle"]
    /\ kind' = [t \in Tasks |-> None]
    /\ chan' = [t \in Tasks |-> None]
    /\ prep' = [t \in Tasks |-> None]
    /\ got' = [t \in Tasks |-> None]
    /\ paid' = [t \in Tasks |-> None]
    /\ retry' = [t \in Tasks |-> None]
    /\ claim' = IF claim = "busy" THEN "uncertain" ELSE claim
    /\ UNCHANGED <<storeVars, mintVars, cache, change, signed, dropped>>

open_step(t) ==
    \/ \E k \in {"open", "auto", "prepared"} : open_channel(t, k)
    \/ prepare_open_channel(t)
    \/ prepare_fails(t) \/ require_fresh_open_submission(t)
    \/ mark_prepared_open_saved(t) \/ submit_prepared_open(t) \/ receive_answer(t)
    \/ lose_answer(t) \/ mark_prepared_open_rejected(t) \/ refresh_keysets(t)
    \/ verify_completed_open_matches_restore(t) \/ mark_completed_open(t)
    \/ deliver_result(t)

recovery_step(t) ==
    \/ \E k \in {"recover", "recover_prepared"} : prepare_open_channel_recovery(t, k)
    \/ restore_funding_proofs(t) \/ restore_change_proofs(t)

record_step(t) == record_signed_payment(t) \/ record_payment(t)

channel_step(c) ==
    \/ \E b \in Balances : sign_payment(c, b)
    \/ close_channel(c) \/ mark_channel_unusable(c) \/ delete_channel(c)

Next ==
    \/ \E t \in Tasks : open_step(t) \/ recovery_step(t) \/ record_step(t)
    \/ \E c \in Channels : channel_step(c) \/ mint_swap(c)
    \/ spend_elsewhere \/ rotate_keyset \/ expire_keyset \/ crash

Spec == Init /\ [][Next]_vars

(* Calls run to completion or time out, and the application keeps recovering
   openings, some of its calls getting through. *)
Advance(t) == pc[t] # "idle" /\ (open_step(t) \/ recovery_step(t) \/ record_step(t))
RecoverySpec ==
    /\ Spec
    /\ \A t \in Tasks :
          /\ WF_vars(Advance(t))
          /\ SF_vars(prepare_open_channel_recovery(t, "recover"))
          /\ SF_vars(restore_funding_proofs(t)) /\ SF_vars(restore_change_proofs(t))
          /\ SF_vars(mark_completed_open(t))

-----------------------------------------------------------------------------
(* Every variable of the client, the mint and the application holds a value of
   its type. *)
TypeOK ==
    /\ StoreTypeOK
    /\ pc \in [Tasks -> Labels]
    /\ kind \in [Tasks -> CallKinds \cup {None}]
    /\ chan \in [Tasks -> Channels \cup {None}]
    /\ prep \in [Tasks -> Openings \cup {None}]
    /\ got \in [Tasks -> Proofs \cup {None}]
    /\ paid \in [Tasks -> PaymentState \cup {None}]
    /\ retry \in [Tasks -> Keysets \cup {None}]
    /\ wire \subseteq Channels
    /\ reply \in [Channels -> Replies \cup {None}]
    /\ issued \in [Channels -> Proofs \cup {None}]
    /\ elsewhere \in BOOLEAN
    /\ status \in [Keysets -> {"future", "active", "retired", "dead"}]
    /\ cache \subseteq Keysets
    /\ claim \in {"free", "busy", "uncertain", "used"}
    /\ change \subseteq Channels
    /\ dropped \subseteq Channels
    /\ signed \subseteq [chan : Channels, balance : Balances]

(* An input that is released is really unspent: when every call that used it
   has reported input_may_be_spent = FALSE, the mint has executed none of
   their swaps and none is still on its way ("safe input proof reservation
   handling", OpenChannelError). *)
ReservationSafe ==
    claim = "free" => wire = {} /\ \A c \in Channels : issued[c] = None

(* An opening that was "explicitly rejected and should not be recovered" has
   nothing to recover, now or later. *)
FailedNotFunded ==
    \A c \in Channels : state[c] = "OpeningFailed" => issued[c] = None /\ c \notin wire

(* "two-phase opening process to prevent fund loss": from the moment the mint
   may issue funding for a channel, the client can get at it, through the
   opening record or the stored proofs, until it deletes the channel after
   closing it.  The proofs it stores are the ones that were issued. *)
FundingReachable ==
    \A c \in Channels :
        /\ c \in wire => get_opening_from_swap(c) # None
        /\ issued[c] # None =>
              \/ get_opening_from_swap(c) # None
              \/ get_funding(c) = issued[c]
              \/ c \in dropped
        /\ funding[c] # None => funding[c] = issued[c]

(* Change secrets live in the opening record only.  While the change of a
   funded channel has not reached the application, that record exists. *)
ChangeReachable ==
    \A c \in Channels : issued[c] # None => c \in change \/ opening[c] # None

(* A payment is only ever signed against funding that the mint issued, and
   within the capacity; what is recorded as a channel's payment was signed for
   it, and disappears with the channel's record even when the two calls of
   record_signed_payment straddle the deletion. *)
PaymentsBacked ==
    /\ \A s \in signed : s.balance <= Capacity /\ issued[s.chan] # None
    /\ \A c \in Channels :
          pstate[c] # None =>
             /\ funding[c] # None
             /\ [chan |-> c, balance |-> pstate[c].balance] \in signed

(* The lifecycle of ARCHITECTURE.md, "Channel Lifecycle (Client Perspective)";
   a record may also be deleted. *)
Lifecycle ==
    {<<None, "OpeningFromSwap">>, <<"OpeningFromSwap", "Open">>,
     <<"OpeningFromSwap", "OpeningFailed">>, <<"OpeningFailed", "OpeningFromSwap">>,
     <<"Open", "Closing">>, <<"Open", "Closed">>, <<"Closing", "Closed">>}
FollowsLifecycle ==
    [][\A c \in Channels :
          state'[c] \in {state[c], None} \/ <<state[c], state'[c]>> \in Lifecycle]_vars

(* An opening whose swap the mint executed becomes a channel, whatever answers
   are lost and processes killed on the way. *)
OpeningCompletes ==
    \A c \in Channels : issued[c] # None ~> (funding[c] # None \/ c \in dropped)
=============================================================================
