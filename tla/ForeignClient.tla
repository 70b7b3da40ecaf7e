--------------------------- MODULE ForeignClient ---------------------------
(***************************************************************************)
(* The client bridge driven from Go, Python or JavaScript, over the        *)
(* integration kits' in-memory client host: opening one channel from a     *)
(* token, signing payments, closing and deleting it.  The adapters' view   *)
(* of a failing callback is given per binding, as in ForeignHost.  The     *)
(* bindings export no open recovery, so an opening whose answer was lost   *)
(* keeps its saved data and is not resubmitted.                            *)
(***************************************************************************)
EXTENDS Integers, Sequences, FiniteSets, Bindings

CONSTANTS
    ClientBalances,    \* the balances the application signs
    OpeningRecords,    \* opening records the same inputs can be prepared as
    MaxClientFaults    \* bound on failing callbacks

(* The number 0 stands for no record. *)
ASSUME ClientAssumption ==
    ClientBalances \subseteq Nat /\ OpeningRecords \subseteq Nat \ {0}

VARIABLES
    cBinding,
    cHost,      \* the kit's maps for the channel
    cMint,      \* the mint: inputs spent by the funding swap, keyset rotated
    cCall,      \* the running call
    cAnswer,    \* what the last call gave the application
    cGaveUp,    \* the application closed or deleted the channel
    cFaults

clientVars == <<cBinding, cHost, cMint, cCall, cAnswer, cGaveUp, cFaults>>

-----------------------------------------------------------------------------
(* Mutant: an unreadable opening record is an absent one. *)
go_client_absent ==
    [save_opening |-> Raises("err"), mark_channel_open |-> Raises("err"),
     mark_opening_failed |-> Raises("err"),
     get_channel_funding |-> Both("none"),
     get_opening |-> Both("none"),
     get_payment_state |-> Both("none"), record_client_payment |-> Raises("err"),
     get_client_state |-> Both("none")]

(* The adapters: Go reads a null or unreadable answer as absent wherever   *)
(* the trait has no error, and as an error for the opening record.         *)
go_client ==
    [save_opening |-> Raises("err"), mark_channel_open |-> Raises("err"),
     mark_opening_failed |-> Raises("err"),
     get_channel_funding |-> Both("none"),
     get_opening |-> Both("err"),
     get_payment_state |-> Both("none"), record_client_payment |-> Raises("err"),
     get_client_state |-> Both("none")]

go_client_rest ==
    [client_closing |-> Raises("err"), client_closed |-> Raises("err"),
     delete_channel |-> Raises("err"), now_seconds |-> << >>,
     sign_with_tweaked_key |-> Raises("err"), compute_channel_secret |-> Raises("err"),
     call_mint_swap |-> Both("err"), call_mint_restore |-> Both("err")]

python_client ==
    [save_opening |-> Raises("err"), mark_channel_open |-> Raises("err"),
     mark_opening_failed |-> Raises("err"),
     get_channel_funding |-> Both("none"),
     get_opening |-> Both("err"),
     get_payment_state |-> Both("none"), record_client_payment |-> Raises("err"),
     get_client_state |-> Both("none")]

python_client_rest ==
    [client_closing |-> Raises("err"), client_closed |-> Raises("err"),
     delete_channel |-> Raises("err"), now_seconds |-> Both("zero"),
     sign_with_tweaked_key |-> Both("err"), compute_channel_secret |-> Both("err"),
     call_mint_swap |-> Both("err"), call_mint_restore |-> Both("err")]

wasm_client ==
    [save_opening |-> Raises("err"), mark_channel_open |-> Raises("err"),
     mark_opening_failed |-> Raises("err"),
     get_channel_funding |-> [raised |-> "abort", malformed |-> "none"],
     get_opening |-> Both("err"),
     get_payment_state |-> [raised |-> "abort", malformed |-> "none"],
     record_client_payment |-> Raises("err"),
     get_client_state |-> [raised |-> "abort", malformed |-> "none"],
     client_closing |-> Raises("err"), client_closed |-> Raises("err"),
     delete_channel |-> Raises("err"), now_seconds |-> Raises("abort"),
     sign_with_tweaked_key |-> Raises("err"), compute_channel_secret |-> Raises("err")]

wasm_async_networking ==
    [call_mint_swap |-> Both("err"), call_mint_restore |-> Both("err")]

ClientAdapter ==
    [go |-> Joined(go_client, go_client_rest),
     python |-> Joined(python_client, python_client_rest),
     wasm |-> Joined(wasm_client, wasm_async_networking)]

-----------------------------------------------------------------------------
(* The client calls, as the callbacks they make.                           *)
submit_prepared_open ==
    << "get_opening", "save_opening", "call_mint_swap", "call_mint_restore",
       "mark_channel_open" >>

open_channel_from_token ==
    << "compute_channel_secret", "now_seconds" >> \o submit_prepared_open

sign_payment_internal ==
    << "get_channel_funding", "get_client_state", "sign_with_tweaked_key" >>

record_signed_payment == << "get_payment_state", "now_seconds", "record_client_payment" >>

sign_and_record_payment == sign_payment_internal \o record_signed_payment

ClientOperations ==
    [open_channel_from_token |-> open_channel_from_token,
     sign_payment |-> sign_payment_internal,
     sign_payment_header |-> sign_payment_internal,
     sign_channel_registration |-> sign_payment_internal,
     sign_and_record_payment |-> sign_and_record_payment,
     sign_cooperative_close_request |-> sign_payment_internal,
     process_cooperative_close_response |-> << "client_closed" >>,
     close_channel |-> << "client_closed" >>,
     mark_channel_unusable |-> << "client_closing" >>,
     delete_channel |-> << "delete_channel" >>]

(* How an exported function tells its caller of an error. *)
go_client_exports == [op \in DOMAIN ClientOperations |-> "cresult_error"]
python_client_exports == [op \in DOMAIN ClientOperations |-> "exception"]
wasm_client_exports == [op \in DOMAIN ClientOperations |-> "rejection"]

ClientExports ==
    [go |-> go_client_exports, python |-> python_client_exports, wasm |-> wasm_client_exports]

-----------------------------------------------------------------------------
(* The kits' in-memory hosts.  A write yields the new maps, or none when   *)
(* the host raises.                                                        *)
NoRow == [state |-> "unknown", opening |-> 0, funding |-> FALSE, bal |-> 0, count |-> 0]

save_opening_from_swap_channel(h, data) ==
    IF h.state = "unknown" THEN {[h EXCEPT !.opening = data, !.state = "opening"]}
    ELSE IF h.state \in {"opening", "opening_failed"} /\ h.opening = data
    THEN {[h EXCEPT !.state = "opening"]} ELSE {}

mark_channel_open(h) ==
    IF h.state \in {"open", "closing", "closed"} /\ h.funding THEN {h}
    ELSE IF h.state = "opening" /\ h.opening # 0
    THEN {[h EXCEPT !.funding = TRUE, !.opening = 0, !.state = "open"]} ELSE {}

(* The TypeScript host has no method for these two: the call raises.       *)
mark_channel_opening_failed(h) ==
    IF cBinding = "wasm" THEN {} ELSE {[h EXCEPT !.state = "opening_failed"]}

(* Go's host moves any channel to closing, Python's only an open one.      *)
client_mark_channel_closing(h) ==
    IF cBinding = "wasm" \/ (cBinding = "python" /\ h.state \notin {"open", "closing"}) THEN {}
    ELSE {[h EXCEPT !.state = "closing"]}

get_channel_opening_from_swap(h) == IF h.state = "opening" THEN h.opening ELSE 0

ClientWrite(callback, h, call) ==
    [save_opening |-> save_opening_from_swap_channel(h, call.opening),
     mark_channel_open |-> mark_channel_open(h),
     mark_opening_failed |-> mark_channel_opening_failed(h),
     record_client_payment |-> {[h EXCEPT !.bal = call.bal, !.count = call.count]},
     client_closing |-> client_mark_channel_closing(h),
     client_closed |-> {[h EXCEPT !.state = "closed"]},
     delete_channel |-> {NoRow}][callback]

ClientWrites == {"save_opening", "mark_channel_open", "mark_opening_failed",
                 "record_client_payment", "client_closing", "client_closed", "delete_channel"}

-----------------------------------------------------------------------------
NoClientCall == [op |-> "none", todo |-> << >>, bal |-> 0, opening |-> 0, count |-> 0]
NoClientAnswer == [op |-> "none", bal |-> 0, seen |-> "none"]

ClientInit ==
    /\ cBinding \in HostBindings
    /\ cHost = NoRow
    /\ cMint = [spent |-> FALSE, rotated |-> FALSE]
    /\ cCall = NoClientCall
    /\ cAnswer = NoClientAnswer
    /\ cGaveUp = FALSE
    /\ cFaults = 0

GiveUp == {"process_cooperative_close_response", "close_channel", "delete_channel"}

(* The application calls an exported function; closing and deleting are    *)
(* its decision to give the channel up.                                    *)
ClientCalled ==
    \E op \in DOMAIN ClientExports[cBinding], b \in ClientBalances, d \in OpeningRecords :
        /\ cCall = NoClientCall
        /\ op = "sign_and_record_payment" => cHost.count < Cardinality(ClientBalances)
        /\ cCall' = [NoClientCall EXCEPT !.op = op, !.todo = ClientOperations[op],
                        !.bal = b, !.opening = d]
        /\ cAnswer' = NoClientAnswer
        /\ cGaveUp' = (cGaveUp \/ op \in GiveUp)
        /\ UNCHANGED <<cBinding, cHost, cMint, cFaults>>

ClientAsked(callbacks) == cCall.todo # << >> /\ Head(cCall.todo) \in callbacks

ClientEnds(seen) ==
    /\ cCall' = NoClientCall
    /\ cAnswer' = [op |-> cCall.op, bal |-> cCall.bal,
                   seen |-> IF seen = "error" THEN ClientExports[cBinding][cCall.op] ELSE seen]

ClientGoes(call) == cCall' = call /\ UNCHANGED cAnswer
ClientContinues == ClientGoes([cCall EXCEPT !.todo = Tail(@)])

ClientSees(outcome, seen) ==
    LET entry == ClientAdapter[cBinding][Head(cCall.todo)]
    IN /\ outcome \in {"value"} \cup DOMAIN entry
       /\ seen = IF outcome = "value" THEN "value" ELSE entry[outcome]
       /\ outcome # "value" => cFaults < MaxClientFaults
       /\ cFaults' = IF outcome = "value" THEN cFaults ELSE cFaults + 1

ClientReturns ==
    /\ cCall # NoClientCall /\ cCall.todo = << >>
    /\ ClientEnds("success")
    /\ UNCHANGED <<cBinding, cHost, cMint, cGaveUp, cFaults>>

(* Lookups: the funding must be there, the channel payable, no opening     *)
(* pending; an absent opening is a fresh start, and an absent payment      *)
(* state restarts the payment count.                                       *)
ClientLookup ==
    \E outcome \in {"value", "raised", "malformed"}, seen \in SeenValues :
        /\ ClientAsked({"get_channel_funding", "get_client_state", "get_opening",
                        "get_payment_state", "now_seconds", "sign_with_tweaked_key",
                        "compute_channel_secret", "call_mint_restore"})
        /\ ClientSees(outcome, seen)
        /\ LET cb == Head(cCall.todo)
               refused == \/ cb = "get_channel_funding" /\ ~cHost.funding
                          \/ cb = "get_client_state" /\ cHost.state # "open"
                          \/ cb = "get_opening" /\ get_channel_opening_from_swap(cHost) # 0
               counted == IF seen = "none" THEN 1 ELSE cHost.count + 1
               absent == seen = "none" /\ cb \notin {"get_opening", "get_payment_state"}
           IN IF seen = "abort" THEN ClientEnds("abort")
              ELSE IF seen = "err" \/ absent \/ (seen = "value" /\ refused)
              THEN ClientEnds("error")
              ELSE ClientGoes([cCall EXCEPT !.todo = Tail(@),
                        !.count = IF cb = "get_payment_state" THEN counted ELSE @])
        /\ UNCHANGED <<cBinding, cHost, cMint, cGaveUp>>

(* A write the host refuses reaches the bridge as a raise.                 *)
ClientHostWrites ==
    \E outcome \in {"value", "raised"}, seen \in SeenValues :
        /\ ClientAsked(ClientWrites)
        /\ ClientSees(outcome, seen)
        /\ LET rows == ClientWrite(Head(cCall.todo), cHost, cCall)
               read == IF outcome = "value" /\ rows = {}
                       THEN ClientAdapter[cBinding][Head(cCall.todo)].raised ELSE seen
           IN /\ IF outcome = "value" /\ rows # {} THEN cHost' \in rows ELSE UNCHANGED cHost
              /\ IF read = "err" \/ Head(cCall.todo) = "mark_opening_failed"
                 THEN ClientEnds("error") ELSE ClientContinues
        /\ UNCHANGED <<cBinding, cMint, cGaveUp>>

(* The funding swap.  A mint that rotated rejects the keyset before it     *)
(* looks at the inputs, and only that rejection marks the opening failed.  *)
ClientSwap ==
    \E outcome \in {"value", "raised", "malformed"}, seen \in SeenValues, taken \in BOOLEAN :
        /\ ClientAsked({"call_mint_swap"})
        /\ ClientSees(outcome, seen)
        /\ LET accepts == ~cMint.spent /\ ~cMint.rotated
           IN /\ taken => accepts
              /\ (outcome = "value" /\ accepts) => taken
        /\ cMint' = IF taken THEN [cMint EXCEPT !.spent = TRUE] ELSE cMint
        /\ IF seen = "value" /\ taken THEN ClientContinues
           ELSE IF seen = "value" /\ cMint.rotated
           THEN ClientGoes([cCall EXCEPT !.todo = << "mark_opening_failed" >>])
           ELSE ClientEnds("error")
        /\ UNCHANGED <<cBinding, cHost, cGaveUp>>

ClientMintRotates ==
    /\ ~cMint.rotated
    /\ cMint' = [cMint EXCEPT !.rotated = TRUE]
    /\ UNCHANGED <<cBinding, cHost, cCall, cAnswer, cGaveUp, cFaults>>

ClientNext ==
    \/ ClientCalled \/ ClientLookup \/ ClientHostWrites \/ ClientSwap
    \/ ClientMintRotates \/ ClientReturns

ClientSpec == ClientInit /\ [][ClientNext]_clientVars

-----------------------------------------------------------------------------
(* Safety: while the application has not given the channel up, inputs the  *)
(* mint took are behind a channel the host still knows as opening (with    *)
(* its saved data), open or closing.  An unreadable opening record is an   *)
(* error, never an absent one, so a pending opening is not submitted again *)
(* and then marked failed.                                                 *)
SpentInputsReachable ==
    (cMint.spent /\ ~cGaveUp) =>
        \/ cHost.state = "opening" /\ cHost.opening # 0
        \/ cHost.state \in {"open", "closing"} /\ (cHost.funding \/ cHost.opening # 0)
=============================================================================
