---------------------------- MODULE PaymentServer ----------------------------
(***************************************************************************)
(* SpilmanBridge over ConfigurableHost: the request handlers of one        *)
(* channel, interleaved at every storage and mint call, with the mint, the *)
(* keyset cache, crashes and restarts, and the sender's refund after       *)
(* expiry.  A handler serves one request at a time; pc says which call it  *)
(* makes next, and the other local variables what it read before.          *)
(***************************************************************************)
EXTENDS ReceiverStore

CONSTANTS
    Handlers,       \* concurrently running request handlers
    Kinds,          \* kinds of request the instance exercises
    Capacity,       \* capacity of the channel
    AliceSigs,      \* signatures that verify under the sender's key
    Price, Scale,   \* unit price and pricing scale
    Keysets,        \* keysets of the mint for the channel's unit
    FundingKeyset,  \* the keyset of the funding token
    ListsRetired,   \* the mint's keyset listing includes its retired keysets
    Serialized      \* the application runs one request at a time

RequestKinds ==
    {"pay", "register", "cooperative", "unilateral", "resume", "recover"}

Labels ==
    {"idle", "save_funding", "first_balance", "validate", "record", "usage",
     "prepare", "reread", "mark_closing", "execute", "select", "submit",
     "reply", "refresh", "restore", "finish", "mark_closed"}

(* How the mint came to spend the funding. *)
Spend == [by : {"close"}, payment : Payment, ks : Keysets]
            \cup [by : {"refund"}, payment : {None}, ks : {None}]

ASSUME ServerAssumption ==
    /\ Kinds \subseteq RequestKinds
    /\ Capacity \in Nat
    /\ AliceSigs \subseteq Signatures
    /\ Price \in Nat /\ Scale \in Nat \ {0}
    /\ FundingKeyset \in Keysets
    /\ None \notin Keysets
    /\ ListsRetired \in BOOLEAN /\ Serialized \in BOOLEAN

ASSUME SpendAssumption == None \notin Spend

VARIABLES
    pc,         \* [Handlers -> Labels]
    kind,       \* kind of the request being served
    pay,        \* the payment the handler is working with
    units,      \* usage the request is for (its context)
    ks,         \* output keyset of the prepared close
    tries,      \* swaps submitted by this close execution
    answer,     \* the mint's answer to the last swap
    cached,     \* keysets the host's cache holds as active
    status,     \* the mint's keysets: "future", "active", "retired" or, past
                \* their final expiry, "dead"
    spent,      \* how the mint spent the funding: [by, payment, ks]
    attempts,   \* prepared closes the application retained before submitting
    time,       \* "early", "late" (too late to register) or "expired"
    served      \* highest balance of a payment that was answered and recorded

localVars == <<pc, kind, pay, units, ks, tries, answer>>
mintVars == <<status, spent, time>>
vars == <<storeVars, localVars, mintVars, cached, attempts, served>>

Init ==
    /\ StoreInit
    /\ pc = [h \in Handlers |-> "idle"]
    /\ kind = [h \in Handlers |-> None]
    /\ pay = [h \in Handlers |-> None]
    /\ units = [h \in Handlers |-> 0]
    /\ ks = [h \in Handlers |-> None]
    /\ tries = [h \in Handlers |-> 0]
    /\ answer = [h \in Handlers |-> None]
    /\ cached = {FundingKeyset}
    /\ status = [k \in Keysets |-> IF k = FundingKeyset THEN "active" ELSE "future"]
    /\ spent = None
    /\ attempts = {}
    /\ time = "early"
    /\ served = 0

-----------------------------------------------------------------------------
(* Local steps of a handler. *)

Goto(h, l) == pc' = [pc EXCEPT ![h] = l]

(* The handler answers its caller and forgets the request. *)
Answer(h) ==
    /\ pc' = [pc EXCEPT ![h] = "idle"]
    /\ kind' = [kind EXCEPT ![h] = None]
    /\ pay' = [pay EXCEPT ![h] = None]
    /\ units' = [units EXCEPT ![h] = 0]
    /\ ks' = [ks EXCEPT ![h] = None]
    /\ tries' = [tries EXCEPT ![h] = 0]
    /\ answer' = [answer EXCEPT ![h] = None]

KeepLocals == UNCHANGED <<kind, pay, units, ks, tries, answer>>

Free == Serialized => \A g \in Handlers : pc[g] = "idle"

(* compute_amount_due: ceil(usage * price / scale) *)
amount_due(u) == (u * Price + Scale - 1) \div Scale

verify_signature(p) == p.signature \in AliceSigs

(* get_active_keyset_ids, then is_unexpired_at on each *)
usable == {k \in cached : status[k] # "dead"}

(* Mutant: the first payment's signature is not verified. *)
validate_new_channel_funding_unsigned(p) ==
    FundingKeyset \in cached /\ time = "early" /\ p.balance <= Capacity

validate_new_channel_funding(p) ==
    /\ FundingKeyset \in cached
    /\ time = "early"
    /\ p.balance <= Capacity
    /\ verify_signature(p)

-----------------------------------------------------------------------------
(* process_payment and fund_channel. *)

Begin(h, k, p, u, l) ==
    /\ pc' = [pc EXCEPT ![h] = l]
    /\ kind' = [kind EXCEPT ![h] = k]
    /\ pay' = [pay EXCEPT ![h] = p]
    /\ units' = [units EXCEPT ![h] = u]
    /\ UNCHANGED <<ks, tries, answer>>

StaysPut == UNCHANGED <<storeVars, mintVars, cached, attempts, served>>

(* validate_payment_request on a known channel *)
process_payment(h) ==
    /\ "pay" \in Kinds /\ pc[h] = "idle" /\ Free
    /\ get_state = "Open"
    /\ \E p \in Payment, u \in Usages :
          usage + u <= MaxUsage /\ Begin(h, "pay", p, u, "validate")
    /\ StaysPut

(* the first payment carries params and funding proofs *)
process_first_payment(h) ==
    /\ "pay" \in Kinds /\ pc[h] = "idle" /\ Free
    /\ get_state = "Unknown"
    /\ \E p \in Payment, u \in Usages :
          /\ usage + u <= MaxUsage
          /\ validate_new_channel_funding(p)
          /\ Begin(h, "pay", p, u, "save_funding")
    /\ StaysPut

(* registration: the axum route only accepts balance 0; a known channel is
   only verified *)
fund_channel(h) ==
    /\ "register" \in Kinds /\ pc[h] = "idle" /\ Free
    /\ get_state = "Unknown"
    /\ \E p \in Payment :
          /\ p.balance = 0
          /\ validate_new_channel_funding(p)
          /\ Begin(h, "register", p, 0, "save_funding")
    /\ StaysPut

save_funding_step(h) ==
    /\ pc[h] = "save_funding"
    /\ \E f \in Fundings : save_funding(f)
    /\ Goto(h, "first_balance")
    /\ KeepLocals
    /\ UNCHANGED <<mintVars, cached, attempts, served>>

(* an error of update_balance is only logged *)
first_balance_step(h) ==
    /\ pc[h] = "first_balance"
    /\ IF update_balance_ok THEN update_balance(pay[h]) ELSE UNCHANGED storeVars
    /\ \/ kind[h] = "pay" /\ Goto(h, "validate") /\ KeepLocals
       \/ kind[h] = "cooperative" /\ Goto(h, "prepare") /\ KeepLocals
       \/ kind[h] = "register" /\ Answer(h)
    /\ UNCHANGED <<mintVars, cached, attempts, served>>

(* Mutant: the usage this request adds is left out of the amount due. *)
validate_payment_before_usage(h) ==
    /\ pc[h] = "validate"
    /\ IF /\ get_state = "Open"
          /\ pay[h].balance <= Capacity
          /\ verify_signature(pay[h])
          /\ pay[h].balance >= amount_due(usage)
       THEN Goto(h, "record") /\ KeepLocals
       ELSE Answer(h)
    /\ StaysPut

(* validate_payment: reads the state, the funding and the usage *)
validate_payment(h) ==
    /\ pc[h] = "validate"
    /\ IF /\ get_state = "Open"
          /\ pay[h].balance <= Capacity
          /\ verify_signature(pay[h])
          /\ pay[h].balance >= amount_due(usage + units[h])
       THEN Goto(h, "record") /\ KeepLocals
       ELSE Answer(h)
    /\ StaysPut

(* record_payment, first half.  When update_balance refuses, the error is
   logged, usage is left alone, and the caller is answered as if it had
   been recorded. *)
record_payment(h) ==
    /\ pc[h] = "record"
    /\ IF update_balance_ok
       THEN update_balance(pay[h]) /\ Goto(h, "usage") /\ KeepLocals
       ELSE UNCHANGED storeVars /\ Answer(h)
    /\ UNCHANGED <<mintVars, cached, attempts, served>>

(* record_payment, second half: apply_usage_increments, then the answer *)
record_usage(h) ==
    /\ pc[h] = "usage"
    /\ increment_usage(units[h])
    /\ served' = IF pay[h].balance > served THEN pay[h].balance ELSE served
    /\ Answer(h)
    /\ UNCHANGED <<mintVars, cached, attempts>>

-----------------------------------------------------------------------------
(* execute_cooperative_close, execute_unilateral_close, and
   execute_close_for_closing_channel (called alone to replay a close). *)

(* record_cooperative_close_first_use_funding on an unknown channel *)
first_use_close(h) ==
    /\ "cooperative" \in Kinds /\ pc[h] = "idle" /\ Free
    /\ get_state = "Unknown"
    /\ \E p \in Payment :
          /\ validate_new_channel_funding(p)
          /\ Begin(h, "cooperative", p, 0, "save_funding")
    /\ StaysPut

execute_cooperative_close(h) ==
    /\ "cooperative" \in Kinds /\ pc[h] = "idle" /\ Free
    /\ get_state \in {"Open", "Closing"}
    /\ \E p \in Payment : Begin(h, "cooperative", p, 0, "prepare")
    /\ StaysPut

execute_unilateral_close(h) ==
    /\ "unilateral" \in Kinds /\ pc[h] = "idle" /\ Free
    /\ get_state \in {"Open", "Closing"}
    /\ payment # None
    /\ Begin(h, "unilateral", payment, 0, "prepare")
    /\ StaysPut

(* prepare_close_data.  A cooperative close must be for exactly the amount
   due; a unilateral one is for the payment read before. *)
prepare_close_data(h) ==
    /\ pc[h] = "prepare"
    /\ IF /\ get_state \in {"Open", "Closing"}
          /\ usable # {}
          /\ pay[h].balance <= Capacity
          /\ kind[h] = "cooperative" => pay[h].balance = amount_due(usage)
          /\ verify_signature(pay[h])
       THEN /\ Goto(h, IF kind[h] = "cooperative" THEN "mark_closing" ELSE "reread")
            /\ KeepLocals
       ELSE Answer(h)
    /\ StaysPut

(* Mutant: a unilateral close is marked for the amount due. *)
reread_payment_due(h) ==
    /\ pc[h] = "reread"
    /\ pay' = [pay EXCEPT ![h] = [payment EXCEPT !.balance = amount_due(usage)]]
    /\ Goto(h, "mark_closing")
    /\ UNCHANGED <<kind, units, ks, tries, answer>>
    /\ StaysPut

(* prepare_unilateral_close_transition reads the payment again, and that one
   is what mark_closing stores. *)
reread_payment(h) ==
    /\ pc[h] = "reread"
    /\ pay' = [pay EXCEPT ![h] = payment]
    /\ Goto(h, "mark_closing")
    /\ UNCHANGED <<kind, units, ks, tries, answer>>
    /\ StaysPut

mark_prepared_close_closing(h) ==
    /\ pc[h] = "mark_closing"
    /\ IF mark_closing_ok
       THEN mark_closing(pay[h]) /\ Goto(h, "execute") /\ KeepLocals
       ELSE UNCHANGED storeVars /\ Answer(h)
    /\ UNCHANGED <<mintVars, cached, attempts, served>>

resume_close(h) ==
    /\ "resume" \in Kinds /\ pc[h] = "idle" /\ Free
    /\ get_state = "Closing"
    /\ Begin(h, "resume", None, 0, "execute")
    /\ StaysPut

(* fetch_and_cache_keysets: the entries the mint lists are overwritten, the
   ones it does not list stay as they are.  A mint that lists its retired
   keysets clears their active flag. *)
active_keysets == {k \in Keysets : status[k] = "active"}
refreshed ==
    {(cached \ listed) \cup active_keysets :
        listed \in IF ListsRetired THEN {Keysets} ELSE SUBSET Keysets}

(* execute_close_for_closing_channel up to the retry helper: reads the closing
   data once and, if no cached keyset is usable, refreshes. *)
execute_close(h) ==
    /\ pc[h] = "execute"
    /\ get_state = "Closing"
    /\ IF usable = {} THEN cached' \in refreshed ELSE UNCHANGED cached
    /\ pay' = [pay EXCEPT ![h] = closing]
    /\ Goto(h, "select")
    /\ UNCHANGED <<kind, units, ks, tries, answer>>
    /\ UNCHANGED <<storeVars, mintVars, attempts, served>>

(* The channel is no longer Closing, or the preflight refresh fails. *)
execute_close_fails(h) ==
    /\ pc[h] = "execute"
    /\ get_state # "Closing" \/ usable = {}
    /\ Answer(h)
    /\ StaysPut

(* Mutant: the helper waits for another keyset instead of giving up. *)
select_keyset_waits(h) ==
    /\ pc[h] = "select"
    /\ \E k \in usable :
          /\ k # ks[h]
          /\ ks' = [ks EXCEPT ![h] = k]
          /\ attempts' = attempts \cup {[payment |-> pay[h], ks |-> k]}
    /\ Goto(h, "submit")
    /\ UNCHANGED <<kind, pay, units, tries, answer>>
    /\ UNCHANGED <<storeVars, mintVars, cached, served>>

(* with_active_keyset_retry: select and prepare.  The second time round, an
   unchanged keyset ends the close with the first rejection. *)
select_keyset(h) ==
    /\ pc[h] = "select"
    /\ \/ \E k \in usable :
             /\ k # ks[h]
             /\ ks' = [ks EXCEPT ![h] = k]
             /\ attempts' = attempts \cup {[payment |-> pay[h], ks |-> k]}
             /\ Goto(h, "submit")
             /\ UNCHANGED <<kind, pay, units, tries, answer>>
       \/ /\ usable = {} \/ ks[h] \in usable
          /\ Answer(h)
          /\ UNCHANGED attempts
    /\ UNCHANGED <<storeVars, mintVars, cached, served>>

(* What the mint may answer to a close swap; the order in which it checks
   inputs and outputs is its own. *)
mint_answers(k) ==
    IF spent = None /\ status[k] = "active" THEN {"signed"}
    ELSE (IF spent # None THEN {"spent"} ELSE {})
            \cup (IF status[k] # "active" THEN {"keyset"} ELSE {})

submit_swap(h) ==
    /\ pc[h] = "submit"
    /\ tries' = [tries EXCEPT ![h] = @ + 1]
    /\ \E a \in mint_answers(ks[h]) :
          /\ answer' = [answer EXCEPT ![h] = a]
          /\ spent' = IF a = "signed"
                      THEN [by |-> "close", payment |-> pay[h], ks |-> ks[h]]
                      ELSE spent
    /\ Goto(h, "reply")
    /\ UNCHANGED <<kind, pay, units, ks>>
    /\ UNCHANGED <<storeVars, cached, status, time, attempts, served>>

(* Mutant: a keyset rejection is not retried. *)
receive_answer_once(h) ==
    /\ pc[h] = "reply"
    /\ IF answer[h] = "signed" THEN Goto(h, "finish") /\ KeepLocals ELSE Answer(h)
    /\ StaysPut

(* The answer reaches the handler.  Only a validated keyset rejection of the
   first swap leads to another one. *)
receive_answer(h) ==
    /\ pc[h] = "reply"
    /\ IF answer[h] = "signed" THEN Goto(h, "finish") /\ KeepLocals
       ELSE IF answer[h] = "keyset" /\ tries[h] = 1
            THEN Goto(h, "refresh") /\ KeepLocals
            ELSE Answer(h)
    /\ StaysPut

(* Mutant: a failed submission takes the closing mark back. *)
lose_answer_reopens(h) ==
    /\ pc[h] \in {"submit", "reply", "restore"}
    /\ Answer(h)
    /\ closing' = None
    /\ UNCHANGED <<funding, payment, usage, closed, journal>>
    /\ UNCHANGED <<mintVars, cached, attempts, served>>

(* The answer, or the request before it reached the mint, is lost: the
   transport error ends the close execution without a retry. *)
lose_answer(h) ==
    /\ pc[h] \in {"submit", "reply", "restore"}
    /\ Answer(h)
    /\ StaysPut

refresh_keysets(h) ==
    /\ pc[h] = "refresh"
    /\ cached' \in refreshed
    /\ Goto(h, "select")
    /\ KeepLocals
    /\ UNCHANGED <<storeVars, mintVars, attempts, served>>

(* The refresh closure ignores errors. *)
refresh_failed(h) ==
    /\ pc[h] = "refresh"
    /\ Goto(h, "select")
    /\ KeepLocals
    /\ StaysPut

(* The retained request is for the stored funding and the closing payment. *)
verify_prepared_close(a) == a.payment = closing

(* recover_close with the attempts retained for the stored closing payment;
   then the mint is asked whether the funding is spent (NUT-07) and, if it is,
   for the signatures of each attempt (NUT-09).  The caller finishes a close
   that was recovered. *)
recover_close(h) ==
    /\ "recover" \in Kinds /\ pc[h] = "idle" /\ Free
    /\ get_state = "Closing"
    /\ \E a \in attempts : verify_prepared_close(a)
    /\ Begin(h, "recover", closing, 0, "restore")
    /\ StaysPut

restore_close(h) ==
    /\ pc[h] = "restore"
    /\ IF \E a \in attempts : /\ a.payment = pay[h]
                             /\ spent = [by |-> "close", payment |-> pay[h], ks |-> a.ks]
       THEN Goto(h, "finish") /\ KeepLocals
       ELSE Answer(h)
    /\ StaysPut

(* mark_completed_close: the state check, then mark_channel_closed *)
finish_close(h) ==
    /\ pc[h] = "finish"
    /\ IF get_state = "Closing"
       THEN Goto(h, "mark_closed") /\ KeepLocals
       ELSE Answer(h)
    /\ StaysPut

(* Mutant: the closed record takes the stored closing balance. *)
mark_completed_close_stored(h) ==
    /\ pc[h] = "mark_closed"
    /\ IF mark_closed_ok THEN mark_closed(closing.balance) ELSE UNCHANGED storeVars
    /\ Answer(h)
    /\ UNCHANGED <<mintVars, cached, attempts, served>>

mark_completed_close(h) ==
    /\ pc[h] = "mark_closed"
    /\ IF mark_closed_ok THEN mark_closed(pay[h].balance) ELSE UNCHANGED storeVars
    /\ Answer(h)
    /\ UNCHANGED <<mintVars, cached, attempts, served>>

-----------------------------------------------------------------------------
(* The environment. *)

(* The mint signs with a new keyset from now on and retires the old one. *)
rotate_keyset ==
    /\ \E k \in Keysets :
          /\ status[k] = "future"
          /\ status' = [x \in Keysets |-> IF x = k THEN "active"
                                      ELSE IF status[x] = "active" THEN "retired"
                                      ELSE status[x]]
    /\ UNCHANGED <<storeVars, localVars, spent, time, cached, attempts, served>>

expire_keyset ==
    /\ \E k \in Keysets : status[k] = "retired" /\ status' = [status EXCEPT ![k] = "dead"]
    /\ UNCHANGED <<storeVars, localVars, spent, time, cached, attempts, served>>

tick ==
    /\ \/ time = "early" /\ time' = "late"
       \/ time = "late" /\ time' = "expired"
    /\ UNCHANGED <<storeVars, localVars, status, spent, cached, attempts, served>>

(* The sender's refund path opens after the channel's expiry. *)
refund ==
    /\ time = "expired"
    /\ spent = None
    /\ spent' = [by |-> "refund", payment |-> None, ks |-> None]
    /\ UNCHANGED <<storeVars, localVars, status, time, cached, attempts, served>>

(* The process dies and is restarted: what SQLite committed, and what the
   application retained, is all that is left. *)
crash ==
    /\ Backend = "sqlite"
    /\ \E h \in Handlers : pc[h] # "idle"
    /\ pc' = [h \in Handlers |-> "idle"]
    /\ kind' = [h \in Handlers |-> None]
    /\ pay' = [h \in Handlers |-> None]
    /\ units' = [h \in Handlers |-> 0]
    /\ ks' = [h \in Handlers |-> None]
    /\ tries' = [h \in Handlers |-> 0]
    /\ answer' = [h \in Handlers |-> None]
    /\ StaysPut

payment_step(h) ==
    \/ process_payment(h) \/ process_first_payment(h) \/ fund_channel(h)
    \/ save_funding_step(h) \/ first_balance_step(h)
    \/ validate_payment(h) \/ record_payment(h) \/ record_usage(h)

close_step(h) ==
    \/ first_use_close(h) \/ execute_cooperative_close(h)
    \/ execute_unilateral_close(h) \/ prepare_close_data(h) \/ reread_payment(h)
    \/ mark_prepared_close_closing(h) \/ resume_close(h) \/ execute_close(h)
    \/ execute_close_fails(h) \/ select_keyset(h) \/ submit_swap(h)
    \/ receive_answer(h) \/ lose_answer(h) \/ refresh_keysets(h)
    \/ refresh_failed(h) \/ recover_close(h) \/ restore_close(h)
    \/ finish_close(h) \/ mark_completed_close(h)

Next ==
    \/ \E h \in Handlers : payment_step(h) \/ close_step(h)
    \/ rotate_keyset \/ expire_keyset \/ tick \/ refund \/ crash

Spec == Init /\ [][Next]_vars

(* Handlers run to completion: every thread that can take a step takes it. *)
Advance(h) == pc[h] # "idle" /\ (payment_step(h) \/ close_step(h))
HandlersRun == \A h \in Handlers : WF_vars(Advance(h))
RunningSpec == Spec /\ HandlersRun

(* In addition the application keeps replaying and recovering the close, and
   each call it makes gets through eventually: the process does not crash, and
   the mint is not unreachable, every time at the same point. *)
ReplayedClose(h) ==
    /\ SF_vars(resume_close(h)) /\ SF_vars(recover_close(h))
    /\ SF_vars(execute_close(h)) /\ SF_vars(select_keyset(h))
    /\ SF_vars(submit_swap(h)) /\ SF_vars(receive_answer(h))
    /\ SF_vars(refresh_keysets(h)) /\ SF_vars(restore_close(h))
    /\ SF_vars(finish_close(h)) /\ SF_vars(mark_completed_close(h))
ReplaySpec == RunningSpec /\ \A h \in Handlers : ReplayedClose(h)

-----------------------------------------------------------------------------
(* Every variable of the server, the mint and the handlers holds a value of
   its type. *)
TypeOK ==
    /\ StoreTypeOK
    /\ pc \in [Handlers -> Labels]
    /\ kind \in [Handlers -> RequestKinds \cup {None}]
    /\ pay \in [Handlers -> Payment \cup {None}]
    /\ units \in [Handlers -> Nat]
    /\ ks \in [Handlers -> Keysets \cup {None}]
    /\ tries \in [Handlers -> 0..2]
    /\ answer \in [Handlers -> {"signed", "spent", "keyset", None}]
    /\ cached \subseteq Keysets
    /\ status \in [Keysets -> {"future", "active", "retired", "dead"}]
    /\ spent \in Spend \cup {None}
    /\ attempts \subseteq [payment : Payment, ks : Keysets]
    /\ time \in {"early", "late", "expired"}
    /\ served \in Nat

SettledAtMint == spent # None /\ spent.by = "close"

(* The closed record is the truth: whenever the server has a channel as
   Closed, the mint spent its funding through a close, and for exactly the
   balance the record holds.  Holds across concurrent closes for different
   balances that overwrite each other's closing data, lost answers, keyset
   retries, replays, recovery and crashes. *)
ClosedMatchesMint ==
    closed # None => SettledAtMint /\ closed = spent.payment.balance

(* The server never reports a channel as Open, and so never takes a payment
   on it, once the mint has settled it through a close: Closing is durable
   before the swap is submitted (mark_prepared_close_closing). *)
SettledChannelNotOpen == SettledAtMint => get_state \in {"Closing", "Closed"}

(* What the mint executes, and what the store keeps as payment and as closing
   authorization, was signed by the sender and is within the capacity. *)
Authorized(p) == p.signature \in AliceSigs /\ p.balance <= Capacity
CloseAuthorized ==
    /\ payment # None => Authorized(payment)
    /\ closing # None => Authorized(closing)
    /\ SettledAtMint => Authorized(spent.payment)

(* What a handler may still rely on at the step it is about to take, however
   the others have moved the channel since it looked: the payment it carries
   is authorized from the moment it was verified, the channel cannot have gone
   back to Open behind a close execution, a recorded payment has not been
   lowered before its usage is, and a close that is being finished is the one
   the mint executed. *)
Executing ==
    {"select", "submit", "reply", "refresh", "restore", "finish", "mark_closed"}
View(h) ==
    /\ pc[h] \in {"save_funding", "first_balance", "record", "mark_closing"} \cup Executing
          => Authorized(pay[h])
    /\ pc[h] \in Executing => get_state \in {"Closing", "Closed"}
    /\ pc[h] = "usage" => payment # None /\ payment.balance >= pay[h].balance
    /\ (pc[h] \in {"finish", "mark_closed"} \/ (pc[h] = "reply" /\ answer[h] = "signed"))
          => SettledAtMint /\ spent.payment = pay[h]
HandlerView == \A h \in Handlers : View(h)

(* A payment that was answered after it was recorded stays covered: the stored
   payment, which a unilateral close settles, is never below it. *)
ServedPaymentKept == served > 0 => payment # None /\ payment.balance >= served

(* "ensure each payment covers the accumulated cost" (ARCHITECTURE.md): the
   recorded payment covers the amount due for all usage recorded so far. *)
UsageCovered ==
    usage > 0 => payment # None /\ payment.balance >= amount_due(usage)

(* The stored closing payment is the one the mint executed ("the fixed closing
   payment", recover_close), so that a replay or a recovery from it can
   complete the close. *)
ClosingMatchesMint == closing # None /\ SettledAtMint => closing = spent.payment

(* A unilateral close settles the best payment the server holds. *)
UnilateralSettlesBest == closing # None => closing = payment

(* No handler waits forever: every request is answered, or its process dies.
   The retry helper goes round at most once. *)
RequestsAnswered == \A h \in Handlers : pc[h] # "idle" ~> pc[h] = "idle"

(* A close that has begun is completed, by the first execution, a replay or
   the recovery of a retained attempt, unless the sender's refund came first;
   whatever answers are lost, keysets rotated and processes killed on the way. *)
CloseCompletes ==
    get_state = "Closing" ~> \/ get_state = "Closed"
                             \/ spent # None /\ spent.by = "refund"
=============================================================================
