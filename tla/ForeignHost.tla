---------------------------- MODULE ForeignHost ----------------------------
(***************************************************************************)
(* The receiver bridge driven from Go, Python or JavaScript.               *)
(*                                                                         *)
(* A bridge call is a sequence of callbacks into a host written in the     *)
(* other language.  A callback can answer, raise (an exception, an error   *)
(* value, a null) or answer with something the adapter cannot read; each   *)
(* binding's adapter turns the last two into what the bridge sees: an      *)
(* error, an absent value, a zero, a success, or the end of the call.      *)
(* The host is the integration kits' host over their SQLite stores.  One   *)
(* channel; one call at a time, since concurrent calls are the subject of  *)
(* PaymentServer.                                                          *)
(***************************************************************************)
EXTENDS Integers, Sequences, Bindings

CONSTANTS
    HostBalances,    \* the balances the sender signs
    Mantissa,        \* JavaScript numbers are exact up to 2^Mantissa
    MaxHostUsage,    \* bound on the units served
    MaxHostFaults    \* bound on failing callbacks and lost or refused swaps

ASSUME HostAssumption ==
    HostBalances \subseteq Nat /\ Mantissa \in Nat

VARIABLES
    fBinding,        \* the binding in use
    fStore,          \* the kit's SQLite rows for the channel
    fMint,           \* the mint: the balance it settled, its active keyset
    fCall,           \* the running call: callbacks still to make, values read
    fAnswer,         \* what the last call gave its caller
    fFaults

hostVars == <<fBinding, fStore, fMint, fCall, fAnswer, fFaults>>

NoProof == [bal |-> 0, sig |-> 0]

(* A proof is valid when the balance beside the signature is the one the   *)
(* sender signed.                                                          *)
Signed(p) == p # NoProof /\ p.bal = p.sig

-----------------------------------------------------------------------------
(* The adapters of the receiver's host.                                    *)

go_funding ==
    [receiver_key_is_acceptable |-> Raises("none"),
     mint_and_keyset_is_acceptable |-> Raises("none"),
     get_funding |-> Raises("none"),
     save_funding |-> Raises("ok"),
     get_amount_due |-> Raises("zero"),
     record_payment |-> Raises("ok")]

go_lifecycle ==
    [get_channel_state |-> Both("err"),
     mark_channel_closing |-> Raises("err"),
     get_closing_data |-> Raises("none"),
     get_channel_policy |-> Raises("none"),
     now_seconds |-> << >>,
     unilateral_exit |-> Raises("none"),
     get_active_keyset_ids |-> Both("none"),
     get_keyset_info |-> Raises("none")]

(* Mutant: a failure to record the close is dropped. *)
go_keys_and_network_dropping ==
    [mark_channel_closed |-> Raises("ok"),
     compute_channel_secret |-> Raises("err"),
     sign_with_tweaked_key |-> Raises("err"),
     call_mint_swap |-> Both("err"),
     refresh_all_keysets |-> Raises("err")]

go_keys_and_network ==
    [mark_channel_closed |-> Raises("err"),
     compute_channel_secret |-> Raises("err"),
     sign_with_tweaked_key |-> Raises("err"),
     call_mint_swap |-> Both("err"),
     refresh_all_keysets |-> Raises("err")]

python_funding ==
    [get_active_keyset_ids |-> Both("none"),
     get_keyset_info |-> Both("none"),
     receiver_key_is_acceptable |-> Both("none"),
     mint_and_keyset_is_acceptable |-> Both("none"),
     get_funding |-> Both("none")]

python_lifecycle ==
    [save_funding |-> Raises("ok"),
     get_amount_due |-> Both("zero"),
     record_payment |-> Raises("ok"),
     get_channel_state |-> Both("err"),
     mark_channel_closing |-> Raises("err"),
     get_closing_data |-> Both("none"),
     get_channel_policy |-> Both("none")]

python_keys_and_network ==
    [now_seconds |-> Both("zero"),
     unilateral_exit |-> Both("none"),
     mark_channel_closed |-> Raises("err"),
     compute_channel_secret |-> Both("err"),
     sign_with_tweaked_key |-> Both("err"),
     call_mint_swap |-> Both("err"),
     refresh_all_keysets |-> Raises("err")]

wasm_funding ==
    [get_funding |-> [raised |-> "abort", malformed |-> "none"],
     receiver_key_is_acceptable |-> Raises("abort"),
     mint_and_keyset_is_acceptable |-> Raises("abort"),
     save_funding |-> Raises("abort"),
     get_amount_due |-> Raises("abort"),
     record_payment |-> Raises("abort"),
     get_channel_state |-> Both("err"),
     mark_channel_closing |-> Raises("err"),
     get_closing_data |-> [raised |-> "abort", malformed |-> "none"],
     get_channel_policy |-> [raised |-> "abort", malformed |-> "none"]]

wasm_keys_and_network ==
    [now_seconds |-> Raises("abort"),
     unilateral_exit |-> [raised |-> "abort", malformed |-> "none"],
     get_active_keyset_ids |-> [raised |-> "abort", malformed |-> "none"],
     get_keyset_info |-> [raised |-> "abort", malformed |-> "none"],
     mark_channel_closed |-> Raises("err"),
     compute_channel_secret |-> Raises("err"),
     sign_with_tweaked_key |-> Raises("err"),
     call_mint_swap |-> Both("err"),
     refresh_all_keysets |-> Raises("err")]

Adapter ==
    [go |-> Joined(go_funding, Joined(go_lifecycle, go_keys_and_network)),
     python |-> Joined(python_funding, Joined(python_lifecycle, python_keys_and_network)),
     wasm |-> Joined(wasm_funding, wasm_keys_and_network)]

-----------------------------------------------------------------------------
(* The bridge's calls, as the callbacks they make.  "use" tells what the   *)
(* call does with the answer.                                              *)

Ask(callback) == [cb |-> callback, use |-> "need"]
State(use) == [cb |-> "get_channel_state", use |-> use]
Due(use) == [cb |-> "get_amount_due", use |-> use]
Verify == [cb |-> "none", use |-> "verify"]

validate_new_channel_funding ==
    << Ask("receiver_key_is_acceptable"), Ask("mint_and_keyset_is_acceptable"),
       Ask("get_keyset_info"), Ask("get_channel_policy"), Ask("now_seconds"),
       Ask("compute_channel_secret"), Verify >>

record_validated_new_channel == << Ask("save_funding") >>

validate_payment ==
    << State("open"), Ask("get_funding"), Verify, Due("covered") >>

process_payment ==
    << State("new") >> \o validate_payment \o << Ask("record_payment") >>

(* An open channel is validated again, a new one is only recorded.         *)
fund_channel == << State("fund"), State("open"), Ask("get_funding"), Verify >>

select_close_output_keyset_from_funding ==
    << Ask("get_active_keyset_ids"), Ask("get_keyset_info"), Ask("now_seconds") >>

prepare_close_data_impl(due) ==
    due \o << Verify, Ask("sign_with_tweaked_key") >>

prepare_close_data(due) ==
    << State("live"), Ask("get_funding") >>
        \o select_close_output_keyset_from_funding \o prepare_close_data_impl(due)

validate_and_prepare_cooperative_close == prepare_close_data(<< Due("equal") >>)

create_unilateral_close_data ==
    << Ask("get_funding"), Ask("unilateral_exit") >> \o prepare_close_data(<< >>)

(* The balance of the swap is the one read back from the closing record,   *)
(* and it is verified again.                                               *)
submit_close ==
    << Ask("get_funding") >> \o prepare_close_data_impl(<< >>)
        \o << Ask("get_funding"), Ask("call_mint_swap") >>

finalize_close ==
    << Ask("sign_with_tweaked_key"), State("closing"), Ask("mark_channel_closed") >>

(* Mutant: the close goes on with the proof it was asked for. *)
execute_close_without_reading_back ==
    << State("closing"), Ask("get_funding"),
       [cb |-> "get_active_keyset_ids", use |-> "warm"],
       [cb |-> "get_active_keyset_ids", use |-> "select"] >>
        \o submit_close \o finalize_close

execute_close_for_closing_channel ==
    << State("closing"), Ask("get_closing_data"), Ask("get_funding"),
       [cb |-> "get_active_keyset_ids", use |-> "warm"],
       [cb |-> "get_active_keyset_ids", use |-> "select"] >>
        \o submit_close \o finalize_close

(* Once, after the mint rejected the keyset. *)
resubmit_close ==
    << [cb |-> "refresh_all_keysets", use |-> "ignored"],
       [cb |-> "get_active_keyset_ids", use |-> "reselect"] >>
        \o submit_close \o finalize_close

execute_cooperative_close ==
    << State("first_use") >> \o validate_and_prepare_cooperative_close
        \o << Ask("get_funding"), Ask("mark_channel_closing") >>
        \o execute_close_for_closing_channel

execute_unilateral_close ==
    create_unilateral_close_data
        \o << Ask("get_funding"), Ask("unilateral_exit"), Ask("unilateral_exit"),
              Ask("mark_channel_closing") >>
        \o execute_close_for_closing_channel

Operations ==
    [process_payment |-> process_payment,
     validate_payment |-> validate_payment,
     fund_channel |-> fund_channel,
     validate_and_prepare_cooperative_close |-> validate_and_prepare_cooperative_close,
     create_unilateral_close_data |-> create_unilateral_close_data,
     execute_cooperative_close |-> execute_cooperative_close,
     execute_unilateral_close |-> execute_unilateral_close]

Closes == {"execute_cooperative_close", "execute_unilateral_close"}
Unilateral == {"create_unilateral_close_data", "execute_unilateral_close"}

(* How the exported functions tell their caller of an error: a field of a  *)
(* CResult, an exception, a rejected value, or a document whose "success"  *)
(* field is false.                                                         *)
go_exports == [op \in DOMAIN Operations |-> "cresult_error"]

python_exports ==
    [op \in DOMAIN Operations |->
        IF op \in {"validate_and_prepare_cooperative_close", "create_unilateral_close_data"}
        THEN "refusal_document" ELSE "exception"]

(* JavaScript cannot ask for a close without executing it. *)
wasm_exports ==
    [op \in DOMAIN Operations
         \ {"validate_and_prepare_cooperative_close", "create_unilateral_close_data"}
     |-> "rejection"]

Exports == [go |-> go_exports, python |-> python_exports, wasm |-> wasm_exports]

-----------------------------------------------------------------------------
(* The kit's host over its SQLite rows.                                    *)

(* Number(b) of a BigInt: the nearest double, ties to the even mantissa.   *)
Number(b) ==
    IF fBinding # "wasm" \/ b <= 2^Mantissa \/ b % 2 = 0 THEN b
    ELSE IF b % 4 = 1 THEN b - 1 ELSE b + 1

Stored(p) == [bal |-> Number(p.bal), sig |-> p.sig]

get_channel_state(s) ==
    IF s.closed # 0 THEN "closed"
    ELSE IF s.closing # NoProof THEN "closing"
    ELSE IF s.funding THEN "open" ELSE "unknown"

(* UPDATE ... WHERE balance < ? OR signature = '', on the channel's row.   *)
UpdateBalance(s, p) ==
    IF s.funding /\ (s.pay = NoProof \/ s.pay.bal < Stored(p).bal)
    THEN [s EXCEPT !.pay = Stored(p)] ELSE s

(* A host write is several statements, each committed by itself: the       *)
(* stores it goes through, the unchanged one first.                        *)
save_funding(s, p) ==
    LET row == [s EXCEPT !.funding = TRUE]
    IN << s, row, UpdateBalance(row, p) >>

record_payment(s, p) ==
    LET used == [s EXCEPT !.usage = @ + 1]
    IN << s, used, UpdateBalance(used, p) >>

mark_channel_closing(s, p) ==
    LET paid == UpdateBalance(s, p)
    IN << s, paid, IF paid.closed = 0 /\ paid.funding
                   THEN [paid EXCEPT !.closing = Stored(p)] ELSE paid >>

mark_channel_closed(s, p) ==
    << s, [s EXCEPT !.closed = Number(p.bal), !.closing = NoProof] >>

(* Mutant: the units of the request are not part of what is due. *)
get_amount_due_before(s, pending) == IF s.funding THEN s.usage ELSE 0

get_amount_due(s, pending) == IF s.funding THEN s.usage + pending ELSE 0

Write(callback, s, p) ==
    [save_funding |-> save_funding(s, p),
     record_payment |-> record_payment(s, p),
     mark_channel_closing |-> mark_channel_closing(s, p),
     mark_channel_closed |-> mark_channel_closed(s, p)][callback]

Writes == {"save_funding", "record_payment", "mark_channel_closing", "mark_channel_closed"}

-----------------------------------------------------------------------------
NoCall == [op |-> "none", todo |-> << >>, proof |-> NoProof, keyset |-> 0,
           retried |-> FALSE, dropped |-> {}]
NoAnswer == [op |-> "none", proof |-> NoProof, seen |-> "none", dropped |-> {}]

HostInit ==
    /\ fBinding \in HostBindings
    /\ fStore = [funding |-> FALSE, pay |-> NoProof, usage |-> 0,
                 closing |-> NoProof, closed |-> 0, keyset |-> 1]
    /\ fMint = [settled |-> 0, keyset |-> 1]
    /\ fCall = NoCall
    /\ fAnswer = NoAnswer
    /\ fFaults = 0

(* The application calls an exported function.                             *)
BridgeCalled ==
    \E op \in DOMAIN Exports[fBinding], b \in HostBalances :
        /\ fCall = NoCall
        /\ op = "process_payment" => fStore.usage < MaxHostUsage
        /\ fCall' = [NoCall EXCEPT !.op = op, !.todo = Operations[op],
                         !.proof = IF op \in Unilateral THEN NoProof
                                   ELSE [bal |-> b, sig |-> b]]
        /\ fAnswer' = NoAnswer
        /\ UNCHANGED <<fBinding, fStore, fMint, fFaults>>

Item == Head(fCall.todo)
Asked(callbacks) == fCall.todo # << >> /\ Item.cb \in callbacks

Ends(seen) ==
    /\ fCall' = NoCall
    /\ fAnswer' = [op |-> fCall.op, proof |-> fCall.proof, dropped |-> fCall.dropped,
                   seen |-> IF seen = "error" THEN Exports[fBinding][fCall.op] ELSE seen]

Goes(todo, proof, dropped) ==
    /\ fCall' = [fCall EXCEPT !.todo = todo, !.proof = proof, !.dropped = @ \cup dropped]
    /\ UNCHANGED fAnswer

Continues == Goes(Tail(fCall.todo), fCall.proof, {})

CallReturns == fCall # NoCall /\ fCall.todo = << >> /\ Ends("success")
           /\ UNCHANGED <<fBinding, fStore, fMint, fFaults>>

(* What the bridge sees of the callback it makes: the host's answer or one *)
(* of the adapter's readings of a fault.                                   *)
Sees(outcome, seen) ==
    /\ outcome \in {"value"} \cup DOMAIN Adapter[fBinding][Item.cb]
    /\ seen = IF outcome = "value" THEN "value" ELSE Adapter[fBinding][Item.cb][outcome]
    /\ outcome # "value" => fFaults < MaxHostFaults
    /\ fFaults' = IF outcome = "value" THEN fFaults ELSE fFaults + 1

-----------------------------------------------------------------------------
(* The continuations of a state lookup: none when the call is refused.     *)
OnState(use, state, rest) ==
    LET register == validate_new_channel_funding \o record_validated_new_channel
        goes == [new |-> {"open"}, fund |-> {"open"}, open |-> {"open"},
                 live |-> {"open", "closing"}, closing |-> {"closing"},
                 first_use |-> {"open", "closing", "closed"}]
        registers == [new |-> register \o rest, first_use |-> register \o rest,
                      fund |-> register]
    IN IF state \in goes[use] THEN {rest}
       ELSE IF state = "unknown" /\ use \in DOMAIN registers THEN {registers[use]} ELSE {}

StateLookup ==
    \E outcome \in {"value", "raised", "malformed"}, seen \in SeenValues :
        /\ Asked({"get_channel_state"})
        /\ Sees(outcome, seen)
        /\ LET next == OnState(Item.use, get_channel_state(fStore), Tail(fCall.todo))
           IN IF seen = "err" \/ next = {} THEN Ends("error")
              ELSE \E todo \in next : Goes(todo, fCall.proof, {})
        /\ UNCHANGED <<fBinding, fStore, fMint>>

(* Lookups and checks the call only goes on from: the host's policy, keys  *)
(* and clock accept the channel.                                           *)
Needed == {"receiver_key_is_acceptable", "mint_and_keyset_is_acceptable",
           "get_keyset_info", "get_channel_policy", "now_seconds", "get_funding",
           "compute_channel_secret", "sign_with_tweaked_key", "get_active_keyset_ids"}

Lookup ==
    \E outcome \in {"value", "raised", "malformed"}, seen \in SeenValues :
        /\ Asked(Needed)
        /\ Item.use = "need"
        /\ Sees(outcome, seen)
        /\ LET missing == seen = "value" /\ Item.cb = "get_funding" /\ ~fStore.funding
           IN IF seen = "abort" THEN Ends("abort")
              ELSE IF seen \in {"none", "err"} \/ missing THEN Ends("error") ELSE Continues
        /\ UNCHANGED <<fBinding, fStore, fMint>>

AmountDue ==
    \E outcome \in {"value", "raised", "malformed"}, seen \in SeenValues :
        /\ Asked({"get_amount_due"})
        /\ Sees(outcome, seen)
        /\ LET due == IF seen = "zero" THEN 0
                      ELSE get_amount_due(fStore, IF Item.use = "covered" THEN 1 ELSE 0)
               enough == IF Item.use = "covered" THEN fCall.proof.bal >= due
                         ELSE fCall.proof.bal = due
           IN IF seen = "abort" THEN Ends("abort")
              ELSE IF ~enough THEN Ends("error")
              ELSE Goes(Tail(fCall.todo), fCall.proof,
                        IF seen = "zero" THEN {"get_amount_due"} ELSE {})
        /\ UNCHANGED <<fBinding, fStore, fMint>>

(* The balance and signature to close with, read from the host.            *)
ProofLookup ==
    \E outcome \in {"value", "raised", "malformed"}, seen \in SeenValues :
        /\ Asked({"unilateral_exit", "get_closing_data"})
        /\ Sees(outcome, seen)
        /\ LET p == IF Item.cb = "get_closing_data" THEN fStore.closing ELSE fStore.pay
           IN IF seen = "abort" THEN Ends("abort")
              ELSE IF seen = "none" \/ (seen = "value" /\ p = NoProof) THEN Ends("error")
              ELSE Goes(Tail(fCall.todo), p, {})
        /\ UNCHANGED <<fBinding, fStore, fMint>>

(* The bridge verifies the sender's signature over the balance.            *)
verify_signature ==
    /\ Asked({"none"})
    /\ IF Signed(fCall.proof) THEN Continues ELSE Ends("error")
    /\ UNCHANGED <<fBinding, fStore, fMint, fFaults>>

(* A write that raises has committed any of its first statements.          *)
HostWrites ==
    \E outcome \in {"value", "raised"}, seen \in SeenValues :
        /\ Asked(Writes)
        /\ Sees(outcome, seen)
        /\ LET stores == Write(Item.cb, fStore, fCall.proof)
           IN IF outcome = "value" THEN fStore' = stores[Len(stores)]
              ELSE \E i \in 1..(Len(stores) - 1) : fStore' = stores[i]
        /\ IF seen = "abort" THEN Ends("abort")
           ELSE IF seen = "err" THEN Ends("error")
           ELSE Goes(Tail(fCall.todo), fCall.proof, IF seen = "ok" THEN {Item.cb} ELSE {})
        /\ UNCHANGED <<fBinding, fMint>>

-----------------------------------------------------------------------------
(* Selecting the close's output keyset: a selection that fails while the   *)
(* cache is being warmed asks for a refresh; after a rejection the close   *)
(* is sent again only for another keyset.                                  *)
SelectKeyset ==
    \E outcome \in {"value", "raised", "malformed"}, seen \in SeenValues :
        /\ Asked({"get_active_keyset_ids"})
        /\ Item.use # "need"
        /\ Sees(outcome, seen)
        /\ LET unchanged == Item.use = "reselect" /\ fStore.keyset = fCall.keyset
           IN IF seen = "abort" THEN Ends("abort")
              ELSE IF seen = "none" /\ Item.use = "warm"
              THEN Goes(<< Ask("refresh_all_keysets") >> \o Tail(fCall.todo), fCall.proof, {})
              ELSE IF seen = "none" \/ unchanged THEN Ends("error")
              ELSE /\ fCall' = [fCall EXCEPT !.todo = Tail(@), !.keyset = fStore.keyset]
                   /\ UNCHANGED fAnswer
        /\ UNCHANGED <<fBinding, fStore, fMint>>

RefreshKeysets ==
    \E outcome \in {"value", "raised"}, seen \in SeenValues :
        /\ Asked({"refresh_all_keysets"})
        /\ Sees(outcome, seen)
        /\ fStore' = IF outcome = "value" THEN [fStore EXCEPT !.keyset = fMint.keyset] ELSE fStore
        /\ IF seen = "err" /\ Item.use = "need" THEN Ends("error") ELSE Continues
        /\ UNCHANGED <<fBinding, fMint>>

MintAccepts ==
    fMint.settled = 0 /\ Signed(fCall.proof) /\ fCall.keyset = fMint.keyset

(* The swap: taken, refused because the funding is spent, refused for its  *)
(* keyset (one more attempt), or answered by a failure, after the mint     *)
(* took it or not.                                                         *)
call_mint_swap ==
    \E outcome \in {"value", "raised", "malformed"}, seen \in SeenValues, taken \in BOOLEAN :
        /\ Asked({"call_mint_swap"})
        /\ Sees(outcome, seen)
        /\ taken => MintAccepts
        /\ (outcome = "value" /\ MintAccepts) => taken
        /\ fMint' = IF taken THEN [fMint EXCEPT !.settled = fCall.proof.bal] ELSE fMint
        /\ IF seen = "value" /\ taken THEN Continues
           ELSE IF /\ seen = "value" /\ fMint.settled = 0 /\ ~fCall.retried
                   /\ fCall.keyset # fMint.keyset
           THEN /\ fCall' = [fCall EXCEPT !.retried = TRUE, !.todo = resubmit_close]
                /\ UNCHANGED fAnswer
           ELSE Ends("error")
        /\ UNCHANGED <<fBinding, fStore>>

(* The mint rotates its keyset, once.                                      *)
HostMintRotates ==
    /\ fMint.keyset = 1
    /\ fMint' = [fMint EXCEPT !.keyset = 2]
    /\ UNCHANGED <<fBinding, fStore, fCall, fAnswer, fFaults>>

HostNext ==
    \/ BridgeCalled \/ StateLookup \/ Lookup \/ AmountDue \/ ProofLookup
    \/ verify_signature \/ HostWrites \/ SelectKeyset \/ RefreshKeysets
    \/ call_mint_swap \/ HostMintRotates \/ CallReturns

HostSpec == HostInit /\ [][HostNext]_hostVars

-----------------------------------------------------------------------------
(* Safety: when the mint takes a closing swap, the balance it settles is   *)
(* the one in the host's closing record and the one the sender signed,     *)
(* whatever callback failed and whatever number the host's language keeps  *)
(* (execute_close_for_closing_channel reads the record back).              *)
SwapIsJournaled ==
    [][fMint'.settled # fMint.settled =>
            fStore.closing = [bal |-> fMint'.settled, sig |-> fMint'.settled]]_hostVars

(* Safety: a close reported to the application is on the host's disk, and  *)
(* a channel the host holds as closed was settled by the mint at that      *)
(* balance: the failure of mark_channel_closed is never dropped.           *)
ClosedIsSettled ==
    /\ fStore.closed # 0 => fMint.settled = fStore.closed
    /\ (fAnswer.seen = "success" /\ fAnswer.op \in Closes) =>
            fStore.closed = fAnswer.proof.bal

(* Safety: after a payment is reported as served the channel is open, the  *)
(* host keeps that payment or a larger one and the payment covers the      *)
(* usage, except for what a dropped failure of record_payment or           *)
(* get_amount_due explains.                                                *)
ServedPaymentSound ==
    (fAnswer.seen = "success" /\ fAnswer.op = "process_payment") =>
        /\ get_channel_state(fStore) = "open"
        /\ "record_payment" \notin fAnswer.dropped => fStore.pay.bal >= Number(fAnswer.proof.bal)
        /\ fAnswer.dropped = {} => fStore.usage <= fAnswer.proof.bal
=============================================================================
