----------------------------- MODULE HostsProofs -----------------------------
(***************************************************************************)
(* The parties outside the bridge: the hosts that the client and the       *)
(* receiver run in behind a language binding (ForeignClient, ForeignHost), *)
(* and the sender's recovery of its funding (SenderRecovery).              *)
(***************************************************************************)
EXTENDS ForeignHost, ForeignClient, SenderRecovery, TLAPS

-----------------------------------------------------------------------------
(***************************************************************************)
(* The receiver's host behind a language binding, for any bindings,        *)
(* balances and precision of JavaScript's numbers, and any number of       *)
(* failing callbacks.                                                      *)
(*                                                                         *)
(* A call is a list of callbacks, and what it has reached follows from     *)
(* where it is in that list: the invariant says which callbacks are left   *)
(* (TodoInOrder), and what a close or a payment has reached with so many   *)
(* of them left (Progress).                                                *)
(***************************************************************************)

Callbacks == Needed \cup Writes \cup
    {"none", "get_channel_state", "get_amount_due", "unilateral_exit", "get_closing_data",
     "refresh_all_keysets", "call_mint_swap"}
StateUses == {"new", "open", "fund", "live", "closing", "first_use"}
Uses == StateUses \cup {"need", "verify", "covered", "equal", "warm", "select", "reselect",
                        "ignored"}
Items == [cb : Callbacks, use : Uses]
Proofs == [bal : Nat, sig : Nat]
HostKeysets == {0, 1, 2}

StoreRow ==
    [funding : BOOLEAN, pay : Proofs, usage : Nat, closing : Proofs, closed : Nat,
     keyset : HostKeysets]
HostCall ==
    [op : DOMAIN Operations \cup {"none"}, todo : Seq(Items), proof : Proofs,
     keyset : HostKeysets, retried : BOOLEAN, dropped : SUBSET Callbacks]

CallTypes == fCall \in HostCall /\ (fCall = NoCall \/ fCall.op \in DOMAIN Exports[fBinding])

HostTypes ==
    /\ fBinding \in HostBindings
    /\ fStore \in StoreRow
    /\ fMint \in [settled : Nat, keyset : HostKeysets]
    /\ CallTypes

(* The host keeps only balances its language represents. *)
ClosingExact == Number(fStore.closing.bal) = fStore.closing.bal

(* The lists of callbacks are described from their ends, where the callbacks that
   matter are: k callbacks come after this one. *)
CloseItem(k, item) ==
    /\ k = 0 => item.cb = "mark_channel_closed"
    /\ k = 3 => item.cb = "call_mint_swap"
    /\ k \in {1, 2, 4, 5, 6, 7, 8, 9, 10} =>
            item.cb \in (Needed \cup {"none", "get_channel_state", "refresh_all_keysets"})
    /\ k = 11 => item.cb = "get_closing_data"
    /\ k > 11 => item.cb \notin {"call_mint_swap", "mark_channel_closed"}
    /\ item.use \in {"new", "first_use"} => k > 11
    /\ item.use = "warm" => k = 9
    /\ item.use # "fund"

PaymentItem(k, item) ==
    /\ k = 0 => item.cb = "record_payment"
    /\ k = 1 => item.cb = "get_amount_due" /\ item.use = "covered"
    /\ k \in {2, 3} => item.cb \in {"none", "get_funding"}
    /\ k = 4 => item.cb = "get_channel_state" /\ item.use = "open"
    /\ k > 4 => item.cb \in (Needed \cup {"none", "get_channel_state", "save_funding"})
    /\ item.use \in {"new", "first_use"} => k > 4
    /\ item.use \notin {"fund", "warm"}

(* No other call closes the channel. *)
OtherItem(item) ==
    item.cb \notin {"call_mint_swap", "mark_channel_closed"} /\ item.use # "warm"

Fits(oper, k, item) ==
    /\ oper \in Closes => CloseItem(k, item)
    /\ oper = "process_payment" => PaymentItem(k, item)
    /\ oper \notin Closes => OtherItem(item)
    /\ item.cb = "get_channel_state" => item.use \in StateUses

TodoInOrder ==
    \A i \in 1..Len(fCall.todo) : Fits(fCall.op, Len(fCall.todo) - i, fCall.todo[i])

(* A close that has read its closing record back, whose swap the mint has taken,
   and that is recorded. *)
CloseProgress ==
    fCall.op \in Closes =>
        /\ Len(fCall.todo) \in 1..11 => fCall.proof = fStore.closing
        /\ Len(fCall.todo) <= 3 => fMint.settled = fCall.proof.bal
        /\ Len(fCall.todo) = 0 => fStore.closed = fCall.proof.bal

(* A payment to an open channel, that covers what is due, and that is recorded. *)
PaymentProgress ==
    fCall.op = "process_payment" =>
        /\ Len(fCall.todo) <= 4 => get_channel_state(fStore) = "open"
        /\ (Len(fCall.todo) = 1 /\ fCall.dropped = {}) => fStore.usage + 1 <= fCall.proof.bal
        /\ (Len(fCall.todo) = 0 /\ fCall.dropped = {}) => fStore.usage <= fCall.proof.bal
        /\ (Len(fCall.todo) = 0 /\ "record_payment" \notin fCall.dropped) =>
                fStore.pay.bal >= Number(fCall.proof.bal)

Progress == CloseProgress /\ PaymentProgress

(* Nothing runs after a call returned, until the next one. *)
AnswerStands == fAnswer.seen = "success" => fCall = NoCall

HostInv ==
    /\ HostTypes /\ ClosingExact /\ TodoInOrder /\ Progress
    /\ AnswerStands /\ ClosedIsSettled /\ ServedPaymentSound
-----------------------------------------------------------------------------
(* Leaving the head of a list leaves the others where they are. *)
LEMMA TailOf ==
    ASSUME NEW S, NEW s \in Seq(S), s # << >>
    PROVE  /\ Tail(s) \in Seq(S)
           /\ Len(Tail(s)) = Len(s) - 1
           /\ Len(s) \in Nat \ {0}
           /\ Head(s) = s[1] /\ s[1] \in S
           /\ \A i \in 1..Len(Tail(s)) : Tail(s)[i] = s[i + 1]
    OBVIOUS

(* Where the members of two lists are when the lists are joined. *)
LEMMA Joining ==
    ASSUME NEW S, NEW s \in Seq(S), NEW t \in Seq(S)
    PROVE  /\ s \o t \in Seq(S)
           /\ Len(s) \in Nat /\ Len(t) \in Nat
           /\ Len(s \o t) = Len(s) + Len(t)
           /\ \A i \in 1..Len(s) : (s \o t)[i] = s[i]
           /\ \A i \in 1..Len(t) : (s \o t)[Len(s) + i] = t[i]
    OBVIOUS

(* A number JavaScript has stored is one it represents. *)
LEMMA NumberTwice ==
    ASSUME NEW b \in Nat PROVE Number(b) \in Nat /\ Number(Number(b)) = Number(b)
<1>1. CASE fBinding # "wasm" \/ b <= 2^Mantissa \/ b % 2 = 0
    BY <1>1, Zenon DEF Number
<1>2. CASE ~(fBinding # "wasm" \/ b <= 2^Mantissa \/ b % 2 = 0)
  <2> DEFINE m == IF b % 4 = 1 THEN b - 1 ELSE b + 1
  <2>1. Number(b) = m
    BY <1>2, Zenon DEF Number
  <2>2. m \in Nat /\ m % 2 = 0
    BY <1>2
  <2>3. Number(m) = m
    BY <2>2, Zenon DEF Number
  <2>4. QED
    BY <2>1, <2>2, <2>3, Zenon
<1>3. QED
    BY <1>1, <1>2, Zenon

(* The callback a call is about to make is the one its list says. *)
LEMMA Front ==
    ASSUME HostTypes, TodoInOrder, fCall.todo # << >>
    PROVE  /\ Item = fCall.todo[1] /\ Item \in Items
           /\ Len(fCall.todo) \in Nat \ {0}
           /\ Fits(fCall.op, Len(fCall.todo) - 1, Item)
           /\ fCall # NoCall
<1>1. fCall.todo \in Seq(Items)
    BY Zenon DEF HostTypes, CallTypes, HostCall
<1>2. Item = fCall.todo[1] /\ Item \in Items /\ Len(fCall.todo) \in Nat \ {0}
    BY <1>1, TailOf, Zenon DEF Item
<1>3. 1 \in 1..Len(fCall.todo)
    BY <1>2
<1>4. Fits(fCall.op, Len(fCall.todo) - 1, Item)
    BY <1>2, <1>3, Zenon DEF TodoInOrder
<1>5. QED
    BY <1>2, <1>4 DEF NoCall

(* A call that goes on with callbacks in front of the rest. *)
LEMMA Replaced ==
    ASSUME HostTypes, TodoInOrder, fCall.todo # << >>, fCall'.op = fCall.op,
           NEW p \in Seq(Items), fCall'.todo = p \o Tail(fCall.todo),
           \A j \in 1..Len(p) : Fits(fCall.op, Len(p) - j + (Len(fCall.todo) - 1), p[j])
    PROVE  /\ TodoInOrder'
           /\ fCall'.todo \in Seq(Items)
           /\ Len(fCall'.todo) = Len(p) + Len(fCall.todo) - 1
<1> DEFINE t == fCall.todo
           n == Len(p)
<1>1. t \in Seq(Items)
    BY Zenon DEF HostTypes, CallTypes, HostCall
<1>2. /\ Tail(t) \in Seq(Items) /\ Len(Tail(t)) = Len(t) - 1 /\ Len(t) \in Nat \ {0}
      /\ \A i \in 1..Len(Tail(t)) : Tail(t)[i] = t[i + 1]
    BY <1>1, TailOf, Zenon
<1>3. /\ fCall'.todo \in Seq(Items) /\ n \in Nat
      /\ Len(fCall'.todo) = n + Len(t) - 1
      /\ \A i \in 1..n : fCall'.todo[i] = p[i]
      /\ \A i \in 1..Len(Tail(t)) : fCall'.todo[n + i] = Tail(t)[i]
    BY <1>2, Joining
<1>4. ASSUME NEW i \in 1..Len(fCall'.todo)
      PROVE  Fits(fCall.op, Len(fCall'.todo) - i, fCall'.todo[i])
  <2>1. CASE i <= n
    <3>1. i \in 1..n /\ Len(fCall'.todo) - i = n - i + (Len(t) - 1)
        BY <1>2, <1>3, <2>1
    <3>2. QED
        BY <1>3, <3>1, Zenon
  <2>2. CASE i > n
    <3> DEFINE j == i - n
    <3>1. j \in 1..Len(Tail(t)) /\ j + 1 \in 1..Len(t) /\ i = n + j
        BY <1>2, <1>3, <2>2
    <3>2. fCall'.todo[i] = t[j + 1] /\ Len(fCall'.todo) - i = Len(t) - (j + 1)
        BY <1>2, <1>3, <3>1
    <3>3. QED
        BY <3>1, <3>2, Zenon DEF TodoInOrder
  <2>3. QED
    BY <1>3, <2>1, <2>2
<1>5. QED
    BY <1>3, <1>4, Zenon DEF TodoInOrder

(* A call that makes its next callback keeps the rest in order. *)
LEMMA Advanced ==
    ASSUME HostTypes, TodoInOrder, fCall.todo # << >>, fCall'.op = fCall.op,
           fCall'.todo = Tail(fCall.todo)
    PROVE  /\ TodoInOrder'
           /\ fCall'.todo \in Seq(Items)
           /\ Len(fCall'.todo) = Len(fCall.todo) - 1
<1>1. fCall.todo \in Seq(Items)
    BY Zenon DEF HostTypes, CallTypes, HostCall
<1>2. /\ Tail(fCall.todo) \in Seq(Items) /\ Len(fCall'.todo) = Len(fCall.todo) - 1
      /\ Len(fCall.todo) \in Nat \ {0}
      /\ \A i \in 1..Len(fCall'.todo) : fCall'.todo[i] = fCall.todo[i + 1]
    BY <1>1, TailOf
<1>3. ASSUME NEW i \in 1..Len(fCall'.todo)
      PROVE  Fits(fCall.op, Len(fCall'.todo) - i, fCall'.todo[i])
  <2>1. i + 1 \in 1..Len(fCall.todo) /\ Len(fCall'.todo) - i = Len(fCall.todo) - (i + 1)
    BY <1>2
  <2>2. QED
    BY <1>2, <2>1, Zenon DEF TodoInOrder
<1>4. QED
    BY <1>2, <1>3, Zenon DEF TodoInOrder

(* Every callback of a list fits a call in which d more follow the list. *)
FitsAll(oper, s, d) ==
    s \in Seq(Items) /\ \A i \in 1..Len(s) : Fits(oper, Len(s) - i + d, s[i])

(* Registering a channel fits in front of the rest of any call. *)
register == validate_new_channel_funding \o record_validated_new_channel

(* Registering a channel comes before everything the invariant speaks of. *)
LEMMA RegisterFits ==
    ASSUME NEW oper, NEW d \in Nat, oper \in Closes => d > 11, oper = "process_payment" => d > 4
    PROVE  FitsAll(oper, register, d) /\ Len(register) = 8
<1>1. /\ register \in Seq(Items) /\ Len(register) = 8
      /\ \A i \in 1..8 :
            /\ register[i].cb \in (Needed \cup {"none", "save_funding"})
            /\ register[i].use \in {"need", "verify"}
    BY DEF register, validate_new_channel_funding, record_validated_new_channel, Items, Callbacks,
           Uses, Needed, Writes, Ask, Verify
<1>2. QED
    BY <1>1, SMTT(30) DEF FitsAll, Fits, CloseItem, PaymentItem, OtherItem, Needed

(* A close from the point where it reads the closing record back, and its second
   attempt. *)
LEMMA ResubmitFits ==
    ASSUME NEW oper \in Closes
    PROVE  FitsAll(oper, resubmit_close, 0) /\ Len(resubmit_close) = 10
<1>1. resubmit_close \in Seq(Items) /\ Len(resubmit_close) = 10
    BY DEF resubmit_close, submit_close, finalize_close, prepare_close_data_impl, Items,
           Callbacks, Uses, StateUses, Needed, Writes, Ask, State, Verify
<1>2. /\ resubmit_close[1] = [cb |-> "refresh_all_keysets", use |-> "ignored"]
      /\ resubmit_close[2] = [cb |-> "get_active_keyset_ids", use |-> "reselect"]
      /\ resubmit_close[3] = Ask("get_funding")
      /\ resubmit_close[4] = Verify
      /\ resubmit_close[5] = Ask("sign_with_tweaked_key")
      /\ resubmit_close[6] = Ask("get_funding")
      /\ resubmit_close[7] = Ask("call_mint_swap")
      /\ resubmit_close[8] = Ask("sign_with_tweaked_key")
      /\ resubmit_close[9] = State("closing")
      /\ resubmit_close[10] = Ask("mark_channel_closed")
    BY DEF resubmit_close, submit_close, finalize_close, prepare_close_data_impl
<1>3. QED
    BY <1>1, <1>2 DEF FitsAll, Fits, CloseItem, Closes, Needed, StateUses, Ask, State, Verify

(* Every call starts in order. *)
LEMMA CooperativeFits ==
    /\ FitsAll("execute_cooperative_close", execute_cooperative_close, 0)
    /\ Len(execute_cooperative_close) = 24
<1> DEFINE s == execute_cooperative_close
<1>1. s \in Seq(Items) /\ Len(s) = 24
    BY DEF execute_cooperative_close, validate_and_prepare_cooperative_close, prepare_close_data,
           select_close_output_keyset_from_funding, execute_close_for_closing_channel,
           submit_close, finalize_close, prepare_close_data_impl, Items, Callbacks, Uses,
           StateUses, Needed, Writes, Ask, State, Due, Verify
<1>2. /\ s[1] = State("first_use") /\ s[2] = State("live")
      /\ \A i \in 3..11 :
            /\ s[i].cb \in (Needed \cup {"none", "get_amount_due", "mark_channel_closing"})
            /\ s[i].use \in {"need", "verify", "equal"}
    BY DEF execute_cooperative_close, validate_and_prepare_cooperative_close, prepare_close_data,
           select_close_output_keyset_from_funding, execute_close_for_closing_channel,
           submit_close, finalize_close, prepare_close_data_impl, Needed, Ask, Due, Verify
<1>3. /\ s[12] = State("closing") /\ s[13] = Ask("get_closing_data")
      /\ s[14] = Ask("get_funding")
      /\ s[15] = [cb |-> "get_active_keyset_ids", use |-> "warm"]
      /\ s[16] = [cb |-> "get_active_keyset_ids", use |-> "select"]
      /\ s[17] = Ask("get_funding") /\ s[18] = Verify
      /\ s[19] = Ask("sign_with_tweaked_key") /\ s[20] = Ask("get_funding")
      /\ s[21] = Ask("call_mint_swap") /\ s[22] = Ask("sign_with_tweaked_key")
      /\ s[23] = State("closing") /\ s[24] = Ask("mark_channel_closed")
    BY DEF execute_cooperative_close, validate_and_prepare_cooperative_close, prepare_close_data,
           select_close_output_keyset_from_funding, execute_close_for_closing_channel,
           submit_close, finalize_close, prepare_close_data_impl
<1> HIDE DEF s
<1>4. ASSUME NEW i \in 1..24 PROVE CloseItem(24 - i, s[i])
  <2>1. CASE i <= 11
    BY <1>2, <2>1 DEF CloseItem, Needed, State
  <2>2. CASE i > 11
    BY <1>3, <2>2 DEF CloseItem, Needed, Ask, State, Verify
  <2>3. QED
    BY <2>1, <2>2
<1>5. ASSUME NEW i \in 1..24
      PROVE  s[i].cb = "get_channel_state" => s[i].use \in StateUses
    BY <1>2, <1>3 DEF Needed, StateUses, Ask, State, Verify
<1>6. FitsAll("execute_cooperative_close", s, 0)
    BY <1>1, <1>4, <1>5 DEF FitsAll, Fits, Closes
<1>7. QED
    BY <1>1, <1>6, Zenon DEF s

(* The callbacks of a unilateral close are in order. *)
LEMMA UnilateralFits ==
    /\ FitsAll("execute_unilateral_close", execute_unilateral_close, 0)
    /\ Len(execute_unilateral_close) = 26
<1> DEFINE s == execute_unilateral_close
<1>1. s \in Seq(Items) /\ Len(s) = 26
    BY DEF execute_unilateral_close, create_unilateral_close_data, prepare_close_data,
           select_close_output_keyset_from_funding, execute_close_for_closing_channel,
           submit_close, finalize_close, prepare_close_data_impl, Items, Callbacks, Uses,
           StateUses, Needed, Writes, Ask, State, Verify
<1>2. /\ s[3] = State("live")
      /\ \A i \in (1..2) \cup (4..13) :
            /\ s[i].cb \in (Needed \cup {"none", "unilateral_exit", "mark_channel_closing"})
            /\ s[i].use \in {"need", "verify"}
    BY DEF execute_unilateral_close, create_unilateral_close_data, prepare_close_data,
           select_close_output_keyset_from_funding, execute_close_for_closing_channel,
           submit_close, finalize_close, prepare_close_data_impl, Needed, Ask, Verify
<1>3. /\ s[14] = State("closing") /\ s[15] = Ask("get_closing_data")
      /\ s[16] = Ask("get_funding")
      /\ s[17] = [cb |-> "get_active_keyset_ids", use |-> "warm"]
      /\ s[18] = [cb |-> "get_active_keyset_ids", use |-> "select"]
      /\ s[19] = Ask("get_funding") /\ s[20] = Verify
      /\ s[21] = Ask("sign_with_tweaked_key") /\ s[22] = Ask("get_funding")
      /\ s[23] = Ask("call_mint_swap") /\ s[24] = Ask("sign_with_tweaked_key")
      /\ s[25] = State("closing") /\ s[26] = Ask("mark_channel_closed")
    BY DEF execute_unilateral_close, create_unilateral_close_data, prepare_close_data,
           select_close_output_keyset_from_funding, execute_close_for_closing_channel,
           submit_close, finalize_close, prepare_close_data_impl
<1> HIDE DEF s
<1>4. ASSUME NEW i \in 1..26 PROVE CloseItem(26 - i, s[i])
  <2>1. CASE i <= 13
    BY <1>2, <2>1 DEF CloseItem, Needed, State
  <2>2. CASE i > 13
    BY <1>3, <2>2 DEF CloseItem, Needed, Ask, State, Verify
  <2>3. QED
    BY <2>1, <2>2
<1>5. ASSUME NEW i \in 1..26
      PROVE  s[i].cb = "get_channel_state" => s[i].use \in StateUses
    BY <1>2, <1>3 DEF Needed, StateUses, Ask, State, Verify
<1>6. FitsAll("execute_unilateral_close", s, 0)
    BY <1>1, <1>4, <1>5 DEF FitsAll, Fits, Closes
<1>7. QED
    BY <1>1, <1>6, Zenon DEF s

(* Every call of the bridge begins with its callbacks in order, before the ones
   that reach something. *)
LEMMA CallsFit ==
    ASSUME NEW oper \in DOMAIN Operations
    PROVE  /\ FitsAll(oper, Operations[oper], 0)
           /\ oper \in Closes => Len(Operations[oper]) > 11
           /\ oper = "process_payment" => Len(Operations[oper]) > 4
<1> USE DEF Items, Callbacks, Uses, StateUses, Needed, Writes, Ask, State, Due, Verify, Fits,
            OtherItem, Closes
<1>1. CASE oper = "execute_cooperative_close"
  <2>1. Operations[oper] = execute_cooperative_close
    BY <1>1, Zenon DEF Operations
  <2>2. QED
    BY <1>1, <2>1, CooperativeFits
<1>2. CASE oper = "execute_unilateral_close"
  <2>1. Operations[oper] = execute_unilateral_close
    BY <1>2, Zenon DEF Operations
  <2>2. QED
    BY <1>2, <2>1, UnilateralFits
<1>3. CASE oper = "process_payment"
  <2>1. Operations[oper] = process_payment
    BY <1>3, Zenon DEF Operations
  <2>2. FitsAll("process_payment", process_payment, 0) /\ Len(process_payment) = 6
    BY DEF process_payment, validate_payment, FitsAll, PaymentItem
  <2>3. QED
    BY <1>3, <2>1, <2>2
<1>4. CASE oper = "validate_payment"
  <2>1. Operations[oper] = validate_payment
    BY <1>4, Zenon DEF Operations
  <2>2. QED
    BY <1>4, <2>1 DEF validate_payment, FitsAll
<1>5. CASE oper = "fund_channel"
  <2>1. Operations[oper] = fund_channel
    BY <1>5, Zenon DEF Operations
  <2>2. QED
    BY <1>5, <2>1 DEF fund_channel, FitsAll
<1>6. CASE oper = "validate_and_prepare_cooperative_close"
  <2>1. Operations[oper] = validate_and_prepare_cooperative_close
    BY <1>6, Zenon DEF Operations
  <2>2. QED
    BY <1>6, <2>1 DEF validate_and_prepare_cooperative_close, prepare_close_data,
           select_close_output_keyset_from_funding, prepare_close_data_impl, FitsAll
<1>7. CASE oper = "create_unilateral_close_data"
  <2>1. Operations[oper] = create_unilateral_close_data
    BY <1>7, Zenon DEF Operations
  <2>2. QED
    BY <1>7, <2>1 DEF create_unilateral_close_data, prepare_close_data,
           select_close_output_keyset_from_funding, prepare_close_data_impl, FitsAll
<1>8. QED
    BY <1>1, <1>2, <1>3, <1>4, <1>5, <1>6, <1>7, Zenon DEF Operations

(* No adapter drops a failure to record the close, and one that goes on after a
   failure to record a payment drops it. *)
LEMMA FaultsSeen ==
    ASSUME NEW b \in HostBindings
    PROVE  /\ Adapter[b]["mark_channel_closed"] = Raises("err")
           /\ Adapter[b]["record_payment"] \in {Raises("ok"), Raises("abort")}
<1>1. b \in {"go", "python", "wasm"}
    BY BindingsAssumption, Zenon
<1>2. CASE b = "go"
  <2>1. Adapter[b] = Joined(go_funding, Joined(go_lifecycle, go_keys_and_network))
    BY <1>2, Zenon DEF Adapter
  <2>2. QED
    BY <2>1, Zenon DEF Joined, go_funding, go_lifecycle, go_keys_and_network
<1>3. CASE b = "python"
  <2>1. Adapter[b] = Joined(python_funding, Joined(python_lifecycle, python_keys_and_network))
    BY <1>3, Zenon DEF Adapter
  <2>2. QED
    BY <2>1 DEF Joined, python_funding, python_lifecycle, python_keys_and_network
<1>4. CASE b = "wasm"
  <2>1. Adapter[b] = Joined(wasm_funding, wasm_keys_and_network)
    BY <1>4, Zenon DEF Adapter
  <2>2. QED
    BY <2>1, Zenon DEF Joined, wasm_funding, wasm_keys_and_network
<1>5. QED
    BY <1>1, <1>2, <1>3, <1>4, Zenon

(* No exported function reports an error as a success. *)
LEMMA ErrorsReported ==
    ASSUME NEW b \in HostBindings, NEW oper \in DOMAIN Exports[b]
    PROVE  oper \in DOMAIN Operations /\ Exports[b][oper] # "success"
<1>1. b \in {"go", "python", "wasm"}
    BY BindingsAssumption, Zenon
<1>2. Exports[b] \in {go_exports, python_exports, wasm_exports}
    BY <1>1 DEF Exports
<1>3. QED
    BY <1>2, Zenon DEF go_exports, python_exports, wasm_exports

(* A state lookup goes on with the rest of the call, after a registration where
   the call registers unknown channels, and only for a state the call is for. *)
LEMMA StateGoes ==
    ASSUME NEW use \in StateUses, NEW state, NEW rest, NEW todo \in OnState(use, state, rest)
    PROVE  /\ \/ todo = rest
              \/ use \in {"new", "first_use"} /\ todo = register \o rest
              \/ use = "fund" /\ todo = register
           /\ use = "open" => state = "open"
    BY DEF OnState, StateUses, register

(* A call in progress has not been answered. *)
LEMMA Running ==
    ASSUME HostInv, fCall.todo # << >>
    PROVE  fAnswer.seen # "success" /\ fCall # NoCall /\ fCall.op \in DOMAIN Exports[fBinding]
<1>1. fCall # NoCall
    BY Front, Zenon DEF HostInv
<1>2. QED
    BY <1>1, Zenon DEF HostInv, AnswerStands, HostTypes, CallTypes

Unanswered == fAnswer.seen # "success"

(* A call that ends with an error promises nothing. *)
LEMMA Ended ==
    ASSUME HostInv, fCall # NoCall, fBinding' = fBinding, Ends("error") \/ Ends("abort")
    PROVE  /\ fCall' = NoCall /\ Unanswered'
           /\ CallTypes' /\ TodoInOrder' /\ Progress'
<1>1. fCall' = NoCall /\ fCall'.todo = << >> /\ fCall'.op = "none"
    BY DEF Ends, NoCall
<1>2. TodoInOrder' /\ Progress'
    BY <1>1 DEF TodoInOrder, Progress, CloseProgress, PaymentProgress, Closes
<1>3. Exports[fBinding][fCall.op] # "success"
    BY ErrorsReported, Zenon DEF HostInv, HostTypes, CallTypes
<1>4. Unanswered'
    BY <1>3 DEF Ends, Unanswered
<1>5. NoCall \in HostCall
    BY DEF NoCall, HostCall, NoProof, Proofs, HostKeysets
<1>6. QED
    BY <1>1, <1>2, <1>4, <1>5, Zenon DEF CallTypes

(* What a call is after a callback, field by field. *)
LEMMA Gone ==
    ASSUME HostInv, fCall.todo # << >>, fBinding' = fBinding,
           NEW todo \in Seq(Items), NEW proof \in Proofs, NEW dropped \in SUBSET Callbacks,
           Goes(todo, proof, dropped)
    PROVE  /\ fCall'.todo = todo /\ fCall'.proof = proof
           /\ fCall'.dropped = fCall.dropped \cup dropped
           /\ fCall'.op = fCall.op /\ Unanswered' /\ CallTypes'
<1>1. fCall' = [fCall EXCEPT !.todo = todo, !.proof = proof, !.dropped = @ \cup dropped]
    BY Zenon DEF Goes
<1>2. fCall \in HostCall
    BY Zenon DEF HostInv, HostTypes, CallTypes
<1>3. Unanswered'
    BY Running, Zenon DEF Goes, Unanswered
<1>4. /\ fCall'.todo = todo /\ fCall'.proof = proof
      /\ fCall'.dropped = fCall.dropped \cup dropped /\ fCall'.op = fCall.op
    BY <1>1, <1>2, Zenon DEF HostCall
<1>5. fCall.dropped \cup dropped \in SUBSET Callbacks
    BY <1>2, Zenon DEF HostCall
<1>6. fCall' \in HostCall
    BY <1>1, <1>2, <1>5, Zenon DEF HostCall
<1>7. QED
    BY <1>3, <1>4, <1>6, Running, Zenon DEF CallTypes

(* One callback less. *)
LEMMA OneLess ==
    ASSUME NEW n \in Nat \ {0}, NEW m, m = n - 1
    PROVE  /\ m \in Nat
           /\ n \notin {1, 4, 12} =>
                /\ m \in 1..11 => n \in 1..11
                /\ m <= 3 => n <= 3
                /\ m # 0
           /\ n \notin {1, 2} =>
                /\ m <= 4 => n <= 4 \/ n = 5
                /\ m # 1 /\ m # 0
    OBVIOUS

(* A callback that does not touch the close or the payment keeps what was reached
   so far. *)
LEMMA PassedOn ==
    ASSUME HostInv, fCall.todo # << >>,
           fCall'.op = fCall.op, fCall'.todo = Tail(fCall.todo), fCall'.proof = fCall.proof,
           fCall'.dropped = fCall.dropped, fBinding' = fBinding,
           fStore'.funding = fStore.funding, fStore'.pay = fStore.pay,
           fStore'.usage = fStore.usage, fStore'.closing = fStore.closing,
           fStore'.closed = fStore.closed, fMint'.settled = fMint.settled,
           Item.cb \notin {"mark_channel_closed", "call_mint_swap", "get_closing_data",
                           "get_amount_due", "record_payment"},
           (Item.cb = "get_channel_state" /\ Item.use = "open") =>
                get_channel_state(fStore) = "open"
    PROVE  TodoInOrder' /\ Progress'
<1>1. /\ TodoInOrder' /\ Len(fCall'.todo) = Len(fCall.todo) - 1
      /\ Len(fCall.todo) \in Nat \ {0}
      /\ Fits(fCall.op, Len(fCall.todo) - 1, Item)
    BY Advanced, Front, Zenon DEF HostInv
<1>2. CloseProgress'
  <2>1. SUFFICES ASSUME fCall.op \in Closes PROVE CloseProgress'
    BY Zenon DEF CloseProgress
  <2>2. CloseItem(Len(fCall.todo) - 1, Item)
    BY <1>1, <2>1, Zenon DEF Fits
  <2>3. Len(fCall.todo) \notin {1, 4, 12}
    BY <1>1, <2>2 DEF CloseItem
  <2>4. /\ Len(fCall'.todo) \in 1..11 => Len(fCall.todo) \in 1..11
        /\ Len(fCall'.todo) <= 3 => Len(fCall.todo) <= 3
        /\ Len(fCall'.todo) # 0
    BY <1>1, <2>3, OneLess, Zenon
  <2>5. QED
    BY <2>1, <2>4, Zenon DEF HostInv, Progress, CloseProgress
<1>3. PaymentProgress'
  <2>1. get_channel_state(fStore)' = get_channel_state(fStore)
    BY Zenon DEF get_channel_state
  <2>2. Number(fCall.proof.bal)' = Number(fCall.proof.bal)
    BY Zenon DEF Number
  <2>3. SUFFICES ASSUME fCall.op = "process_payment" PROVE PaymentProgress'
    BY Zenon DEF PaymentProgress
  <2>4. PaymentItem(Len(fCall.todo) - 1, Item)
    BY <1>1, <2>3, Zenon DEF Fits
  <2>5. Len(fCall.todo) \notin {1, 2}
    BY <1>1, <2>4 DEF PaymentItem
  <2>6. Len(fCall.todo) = 5 => get_channel_state(fStore) = "open"
    BY <1>1, <2>4 DEF PaymentItem
  <2>7. /\ Len(fCall'.todo) <= 4 => Len(fCall.todo) <= 4 \/ Len(fCall.todo) = 5
        /\ Len(fCall'.todo) # 1 /\ Len(fCall'.todo) # 0
    BY <1>1, <2>5, OneLess, Zenon
  <2>8. QED
    BY <2>1, <2>3, <2>6, <2>7, Zenon DEF HostInv, Progress, PaymentProgress
<1>4. QED
    BY <1>1, <1>2, <1>3, Zenon DEF Progress

(* The types of the running call, where it has callbacks left. *)
LEMMA TypedCall ==
    ASSUME HostInv, fCall.todo # << >>
    PROVE  /\ Tail(fCall.todo) \in Seq(Items) /\ fCall.todo \in Seq(Items)
           /\ fCall.proof \in Proofs /\ {} \in SUBSET Callbacks
<1>1. fCall.todo \in Seq(Items) /\ fCall.proof \in Proofs
    BY Zenon DEF HostInv, HostTypes, CallTypes, HostCall
<1>2. QED
    BY <1>1, TailOf, Zenon

(* A list of callbacks that fits is in order once it is what the call has to do. *)
LEMMA StartsFit ==
    ASSUME NEW s, FitsAll(fCall'.op, s, 0), fCall'.todo = s PROVE TodoInOrder'
<1>1. ASSUME NEW i \in 1..Len(s) PROVE Fits(fCall'.op, Len(s) - i, s[i])
  <2>1. Len(s) \in Nat
    BY DEF FitsAll
  <2>2. Len(s) - i + 0 = Len(s) - i
    BY <2>1
  <2>3. Fits(fCall'.op, Len(s) - i + 0, s[i])
    BY Zenon DEF FitsAll
  <2>4. QED
    BY <2>2, <2>3, Zenon
<1>2. QED
    BY <1>1, Zenon DEF TodoInOrder

(* Nothing is asked of a call that is far from its end. *)
LEMMA EarlyOn ==
    ASSUME Len(fCall'.todo) \in Nat,
           fCall'.op \in Closes => Len(fCall'.todo) > 11,
           fCall'.op = "process_payment" => Len(fCall'.todo) > 4
    PROVE  Progress'
<1>1. ASSUME NEW n \in Nat
      PROVE  /\ n > 11 => n \notin 1..11 /\ ~(n <= 3) /\ n # 0
             /\ n > 4 => ~(n <= 4) /\ n # 1 /\ n # 0
    OBVIOUS
<1>2. QED
    BY <1>1, Zenon DEF Progress, CloseProgress, PaymentProgress

(* The same for a callback that only passes its answer on. *)
LEMMA Continued ==
    ASSUME HostInv, fCall.todo # << >>, fBinding' = fBinding, Continues
    PROVE  /\ fCall'.todo = Tail(fCall.todo) /\ fCall'.proof = fCall.proof
           /\ fCall'.dropped = fCall.dropped
           /\ fCall'.op = fCall.op /\ Unanswered' /\ CallTypes'
<1>1. Tail(fCall.todo) \in Seq(Items) /\ fCall.proof \in Proofs /\ {} \in SUBSET Callbacks
    BY TypedCall, Zenon
<1>2. fCall.dropped \cup {} = fCall.dropped
    OBVIOUS
<1>3. QED
    BY <1>1, <1>2, Gone, Zenon DEF Continues

(* What a step that leaves the call unanswered keeps of the invariant. *)
Steady == CallTypes /\ TodoInOrder /\ Progress /\ Unanswered

(* A callback that changes no record and none of the places Progress speaks of
   keeps the call where the invariant has it. *)
LEMMA PassedOnSteady ==
    ASSUME HostInv, fCall.todo # << >>, fBinding' = fBinding, fStore' = fStore, fMint' = fMint,
           Continues \/ Ends("error") \/ Ends("abort"),
           Item.cb \notin {"mark_channel_closed", "call_mint_swap", "get_closing_data",
                           "get_amount_due", "record_payment", "get_channel_state"}
    PROVE  Steady'
<1>1. CASE Continues
    BY <1>1, Continued, PassedOn, Zenon DEF Steady
<1>2. CASE Ends("error") \/ Ends("abort")
    BY <1>2, Ended, Running, Zenon DEF Steady
<1>3. QED
    BY <1>1, <1>2, Zenon

(* Reading a value that is needed. *)
LEMMA LookupSteady ==
    ASSUME HostInv, Lookup PROVE Steady'
<1>1. /\ fCall.todo # << >> /\ Item.cb \in Needed
      /\ Continues \/ Ends("error") \/ Ends("abort")
      /\ fBinding' = fBinding /\ fStore' = fStore /\ fMint' = fMint
    BY Zenon DEF Lookup, Asked
<1>2. Item.cb \notin {"mark_channel_closed", "call_mint_swap", "get_closing_data",
                      "get_amount_due", "record_payment", "get_channel_state"}
    BY <1>1, Zenon DEF Needed
<1>3. QED
    BY <1>1, <1>2, PassedOnSteady, Zenon

(* Verifying a signature. *)
LEMMA VerifySteady ==
    ASSUME HostInv, verify_signature PROVE Steady'
<1>1. /\ fCall.todo # << >> /\ Item.cb = "none"
      /\ Continues \/ Ends("error")
      /\ fBinding' = fBinding /\ fStore' = fStore /\ fMint' = fMint
    BY Zenon DEF verify_signature, Asked
<1>2. QED
    BY <1>1, PassedOnSteady, Zenon

(* Reading the state of the channel: a payment goes on only where it is open. *)
LEMMA StateSteady ==
    ASSUME HostInv, StateLookup PROVE Steady'
<1> DEFINE rest == Tail(fCall.todo)
           next == OnState(Item.use, get_channel_state(fStore), rest)
<1>1. /\ fCall.todo # << >> /\ Item.cb = "get_channel_state"
      /\ Ends("error") \/ \E todo \in next : Goes(todo, fCall.proof, {})
      /\ fBinding' = fBinding /\ fStore' = fStore /\ fMint' = fMint
    BY Zenon DEF StateLookup, Asked
<1>2. CASE Ends("error")
    BY <1>1, <1>2, Ended, Running, Zenon DEF Steady
<1>3. CASE \E todo \in next : Goes(todo, fCall.proof, {})
  <2>1. PICK todo \in next : Goes(todo, fCall.proof, {})
    BY <1>3, Zenon
  <2>2. /\ Len(fCall.todo) \in Nat \ {0}
        /\ Fits(fCall.op, Len(fCall.todo) - 1, Item)
        /\ Item.use \in StateUses
    BY <1>1, Front, Zenon DEF HostInv, Fits
  <2>3. /\ \/ todo = rest
           \/ Item.use \in {"new", "first_use"} /\ todo = register \o rest
           \/ Item.use = "fund" /\ todo = register
        /\ Item.use = "open" => get_channel_state(fStore) = "open"
    <3> HIDE DEF rest
    <3>1. todo \in OnState(Item.use, get_channel_state(fStore), rest) /\ Item.use \in StateUses
        BY <2>1, <2>2, Zenon
    <3> DEFINE state == get_channel_state(fStore)
               use == Item.use
    <3> HIDE DEF state, use
    <3>2. todo \in OnState(use, state, rest) /\ use \in StateUses
        BY <3>1, Zenon DEF state, use
    <3>3. /\ \/ todo = rest
             \/ use \in {"new", "first_use"} /\ todo = register \o rest
             \/ use = "fund" /\ todo = register
          /\ use = "open" => state = "open"
        BY <3>2, StateGoes, Zenon
    <3>4. QED
        BY <3>3, Zenon DEF state, use
  <2>4. CASE todo = rest
    <3>1. Continues
        BY <2>1, <2>4, Zenon DEF Continues
    <3>2. QED
        BY <1>1, <2>3, <3>1, Continued, PassedOn, Zenon DEF Steady
  <2>5. CASE Item.use \in {"new", "first_use"} /\ todo = register \o rest
    <3>1. /\ fCall.op \in Closes => Len(fCall.todo) - 1 > 11
          /\ fCall.op = "process_payment" => Len(fCall.todo) - 1 > 4
          /\ Len(fCall.todo) - 1 \in Nat
        BY <2>2, <2>5 DEF Fits, CloseItem, PaymentItem
    <3>2. FitsAll(fCall.op, register, Len(fCall.todo) - 1) /\ Len(register) = 8
        BY <3>1, RegisterFits, Zenon
    <3>3. /\ register \in Seq(Items)
          /\ \A j \in 1..Len(register) :
                Fits(fCall.op, Len(register) - j + (Len(fCall.todo) - 1), register[j])
        BY <3>2, Zenon DEF FitsAll
    <3>4. rest \in Seq(Items) /\ fCall.proof \in Proofs /\ {} \in SUBSET Callbacks
        BY <1>1, TypedCall, Zenon
    <3>5. todo \in Seq(Items)
        BY <2>5, <3>3, <3>4, Joining, Zenon
    <3>6. fCall'.todo = register \o rest /\ fCall'.op = fCall.op /\ Unanswered' /\ CallTypes'
        BY <1>1, <2>1, <2>5, <3>4, <3>5, Gone, Zenon
    <3>7. TodoInOrder' /\ Len(fCall'.todo) = Len(register) + Len(fCall.todo) - 1
        BY <1>1, <3>3, <3>6, Replaced, Zenon DEF HostInv
    <3>8. Progress'
      <4>1. /\ fCall.op \in Closes => Len(fCall'.todo) > 11
            /\ fCall.op = "process_payment" => Len(fCall'.todo) > 4
            /\ Len(fCall'.todo) \in Nat
        BY <2>2, <3>1, <3>2, <3>7
      <4>2. QED
        BY <3>6, <4>1, EarlyOn, Zenon
    <3>9. QED
        BY <3>6, <3>7, <3>8, Zenon DEF Steady
  <2>6. CASE Item.use = "fund" /\ todo = register
    <3>1. fCall.op \notin Closes /\ fCall.op # "process_payment"
        BY <2>2, <2>6, Zenon DEF Fits, CloseItem, PaymentItem
    <3>2. FitsAll(fCall.op, register, 0)
        BY <3>1, RegisterFits, Zenon
    <3>3. todo \in Seq(Items) /\ fCall.proof \in Proofs /\ {} \in SUBSET Callbacks
        BY <1>1, <2>6, <3>2, TypedCall, Zenon DEF FitsAll
    <3>4. fCall'.todo = register /\ fCall'.op = fCall.op /\ Unanswered' /\ CallTypes'
        BY <1>1, <2>1, <2>6, <3>3, Gone, Zenon
    <3>5. TodoInOrder'
        BY <3>2, <3>4, StartsFit, Zenon
    <3>6. Progress'
        BY <3>1, <3>4, Zenon DEF Progress, CloseProgress, PaymentProgress
    <3>7. QED
        BY <3>4, <3>5, <3>6, Zenon DEF Steady
  <2>7. QED
    BY <2>3, <2>4, <2>5, <2>6, Zenon
<1>4. QED
    BY <1>1, <1>2, <1>3, Zenon

(* The callbacks that come before a close reads its closing record back. *)
Early == {"get_amount_due", "unilateral_exit", "save_funding", "record_payment",
          "mark_channel_closing"}

(* Before the closing record is read back nothing is claimed of a close. *)
LEMMA EarlyClose ==
    ASSUME HostInv, fCall.todo # << >>, fCall'.op = fCall.op,
           fCall'.todo = Tail(fCall.todo), Item.cb \in Early
    PROVE  CloseProgress'
<1>1. /\ Len(fCall'.todo) = Len(fCall.todo) - 1 /\ Len(fCall.todo) \in Nat \ {0}
      /\ Fits(fCall.op, Len(fCall.todo) - 1, Item)
    BY Advanced, Front, Zenon DEF HostInv
<1>2. SUFFICES ASSUME fCall.op \in Closes PROVE CloseProgress'
    BY Zenon DEF CloseProgress
<1>3. CloseItem(Len(fCall.todo) - 1, Item)
    BY <1>1, <1>2, Zenon DEF Fits
<1>4. ASSUME NEW k \in Nat, CloseItem(k, Item) PROVE k > 11 /\ k \notin 1..11 /\ ~(k <= 3) /\ k # 0
    BY <1>4 DEF CloseItem, Early, Needed
<1>5. Len(fCall'.todo) \in Nat
    BY <1>1, OneLess, Zenon
<1>6. QED
    BY <1>1, <1>3, <1>4, <1>5, Zenon DEF CloseProgress

(* Reading the amount due: a payment goes on only when it covers it. *)
LEMMA AmountDueSteady ==
    ASSUME HostInv, AmountDue PROVE Steady'
<1>1. PICK outcome \in {"value", "raised", "malformed"}, seen \in SeenValues :
            AmountDue!(outcome, seen)
    BY Zenon DEF AmountDue
<1> DEFINE due == IF seen = "zero" THEN 0
                  ELSE get_amount_due(fStore, IF Item.use = "covered" THEN 1 ELSE 0)
           enough == IF Item.use = "covered" THEN fCall.proof.bal >= due
                     ELSE fCall.proof.bal = due
           lost == IF seen = "zero" THEN {"get_amount_due"} ELSE {}
<1>2. /\ fCall.todo # << >> /\ Item.cb = "get_amount_due"
      /\ Ends("error") \/ Ends("abort") \/ (enough /\ Goes(Tail(fCall.todo), fCall.proof, lost))
      /\ fBinding' = fBinding /\ fStore' = fStore /\ fMint' = fMint
    BY <1>1, Zenon DEF Asked
<1>3. CASE Ends("error") \/ Ends("abort")
    BY <1>2, <1>3, Ended, Running, Zenon DEF Steady
<1>4. CASE enough /\ Goes(Tail(fCall.todo), fCall.proof, lost)
  <2>1. Tail(fCall.todo) \in Seq(Items) /\ fCall.proof \in Proofs /\ lost \in SUBSET Callbacks
    BY <1>2, TypedCall, Zenon DEF Callbacks
  <2>2. /\ fCall'.todo = Tail(fCall.todo) /\ fCall'.proof = fCall.proof
        /\ fCall'.dropped = fCall.dropped \cup lost
        /\ fCall'.op = fCall.op /\ Unanswered' /\ CallTypes'
    BY <1>2, <1>4, <2>1, Gone, Zenon
  <2>3. /\ TodoInOrder' /\ Len(fCall'.todo) = Len(fCall.todo) - 1
        /\ Len(fCall.todo) \in Nat \ {0}
        /\ Fits(fCall.op, Len(fCall.todo) - 1, Item)
    BY <1>2, <2>2, Advanced, Front, Zenon DEF HostInv
  <2>4. CloseProgress'
    BY <1>2, <2>2, EarlyClose, Zenon DEF Early
  <2>5. ASSUME fCall.op = "process_payment" PROVE PaymentProgress'
    <3>1. PaymentItem(Len(fCall.todo) - 1, Item)
        BY <2>3, <2>5, Zenon DEF Fits
    <3>2. Len(fCall.todo) = 2 /\ Item.use = "covered"
      <4>1. ASSUME NEW k \in Nat, PaymentItem(k, Item) PROVE k = 1 /\ Item.use = "covered"
        BY <1>2, <4>1 DEF PaymentItem, Needed
      <4>2. Len(fCall.todo) - 1 \in Nat
        BY <2>3
      <4>3. Len(fCall.todo) - 1 = 1 /\ Item.use = "covered"
        BY <3>1, <4>1, <4>2, Zenon
      <4>4. QED
        BY <2>3, <4>3
    <3>3. get_channel_state(fStore) = "open"
        BY <2>5, <3>2 DEF HostInv, Progress, PaymentProgress
    <3>4. fStore.funding
        BY <3>3, Zenon DEF get_channel_state
    <3>5. seen # "zero" => fStore.usage + 1 <= fCall.proof.bal
      <4>1. fCall.proof.bal \in Nat /\ fStore.usage \in Nat
        BY <2>1, Zenon DEF Proofs, HostInv, HostTypes, StoreRow
      <4>2. QED
        BY <1>4, <3>2, <3>4, <4>1, Zenon DEF get_amount_due
    <3>6. fCall'.dropped = {} => seen # "zero"
        BY <2>2, Zenon
    <3>7. Len(fCall'.todo) = 1 /\ 1 # 0
        BY <2>3, <3>2
    <3>8. get_channel_state(fStore)' = get_channel_state(fStore)
        BY <1>2, Zenon DEF get_channel_state
    <3>9. QED
        BY <1>2, <2>2, <3>3, <3>5, <3>6, <3>7, <3>8, Zenon DEF PaymentProgress
  <2>6. PaymentProgress'
    BY <2>2, <2>5, Zenon DEF PaymentProgress
  <2>7. QED
    BY <2>2, <2>3, <2>4, <2>6, Zenon DEF Steady, Progress
<1>5. QED
    BY <1>2, <1>3, <1>4, Zenon

(* Reading a payment back: from get_closing_data on a close works with the
   closing record. *)
LEMMA ProofLookupSteady ==
    ASSUME HostInv, ProofLookup PROVE Steady'
<1> DEFINE p == IF Item.cb = "get_closing_data" THEN fStore.closing ELSE fStore.pay
<1>1. /\ fCall.todo # << >> /\ Item.cb \in {"unilateral_exit", "get_closing_data"}
      /\ Ends("error") \/ Ends("abort") \/ Goes(Tail(fCall.todo), p, {})
      /\ fBinding' = fBinding /\ fStore' = fStore /\ fMint' = fMint
    BY Zenon DEF ProofLookup, Asked
<1>2. CASE Ends("error") \/ Ends("abort")
    BY <1>1, <1>2, Ended, Running, Zenon DEF Steady
<1>3. CASE Goes(Tail(fCall.todo), p, {})
  <2>1. fStore.closing \in Proofs /\ fStore.pay \in Proofs
    BY Zenon DEF HostInv, HostTypes, StoreRow
  <2>2. Tail(fCall.todo) \in Seq(Items) /\ p \in Proofs /\ {} \in SUBSET Callbacks
    BY <1>1, <2>1, TypedCall, Zenon
  <2>3. /\ fCall'.todo = Tail(fCall.todo) /\ fCall'.proof = p
        /\ fCall'.op = fCall.op /\ Unanswered' /\ CallTypes'
    BY <1>1, <1>3, <2>2, Gone, Zenon
  <2>4. /\ TodoInOrder' /\ Len(fCall'.todo) = Len(fCall.todo) - 1
        /\ Len(fCall.todo) \in Nat \ {0}
        /\ Fits(fCall.op, Len(fCall.todo) - 1, Item)
    BY <1>1, <2>3, Advanced, Front, Zenon DEF HostInv
  <2>5. fCall.op # "process_payment"
    <3>1. SUFFICES ASSUME fCall.op = "process_payment" PROVE FALSE
        OBVIOUS
    <3>2. PaymentItem(Len(fCall.todo) - 1, Item)
        BY <2>4, <3>1, Zenon DEF Fits
    <3>3. ASSUME NEW k \in Nat, PaymentItem(k, Item) PROVE FALSE
        BY <1>1, <3>3 DEF PaymentItem, Needed
    <3>4. Len(fCall.todo) - 1 \in Nat
        BY <2>4
    <3>5. QED
        BY <3>2, <3>3, <3>4, Zenon
  <2>6. CloseProgress'
    <3>1. CASE Item.cb = "unilateral_exit"
        BY <1>1, <2>3, <3>1, EarlyClose, Zenon DEF Early
    <3>2. CASE Item.cb = "get_closing_data"
      <4>1. SUFFICES ASSUME fCall.op \in Closes PROVE CloseProgress'
        BY <2>3, Zenon DEF CloseProgress
      <4>2. CloseItem(Len(fCall.todo) - 1, Item)
        BY <2>4, <4>1, Zenon DEF Fits
      <4>3. ASSUME NEW k \in Nat, CloseItem(k, Item) PROVE ~(k <= 3) /\ k # 0
        BY <3>2, <4>3 DEF CloseItem, Needed
      <4>4. Len(fCall'.todo) \in Nat
        BY <2>4, OneLess, Zenon
      <4>5. fCall'.proof = fStore'.closing
        BY <1>1, <2>3, <3>2, Zenon
      <4>6. QED
        BY <2>4, <4>2, <4>3, <4>4, <4>5, Zenon DEF CloseProgress
    <3>3. QED
        BY <1>1, <3>1, <3>2, Zenon
  <2>7. QED
    BY <2>3, <2>4, <2>5, <2>6, Zenon DEF Steady, Progress, PaymentProgress
<1>4. QED
    BY <1>1, <1>2, <1>3, Zenon

(* Selecting the output keyset from the cache. *)
LEMMA SelectSteady ==
    ASSUME HostInv, SelectKeyset PROVE Steady'
<1>1. /\ fCall.todo # << >> /\ Item.cb = "get_active_keyset_ids"
      /\ \/ Ends("error") \/ Ends("abort")
         \/ /\ Item.use = "warm"
            /\ Goes(<< Ask("refresh_all_keysets") >> \o Tail(fCall.todo), fCall.proof, {})
         \/ /\ fCall' = [fCall EXCEPT !.todo = Tail(@), !.keyset = fStore.keyset]
            /\ fAnswer' = fAnswer
      /\ fBinding' = fBinding /\ fStore' = fStore /\ fMint' = fMint
    BY Zenon DEF SelectKeyset, Asked
<1>2. CASE Ends("error") \/ Ends("abort")
    BY <1>1, <1>2, Ended, Running, Zenon DEF Steady
<1>3. CASE /\ Item.use = "warm"
           /\ Goes(<< Ask("refresh_all_keysets") >> \o Tail(fCall.todo), fCall.proof, {})
  <2> DEFINE p == << Ask("refresh_all_keysets") >>
  <2>1. /\ Len(fCall.todo) \in Nat \ {0} /\ Fits(fCall.op, Len(fCall.todo) - 1, Item)
    BY <1>1, Front, Zenon DEF HostInv
  <2>2. fCall.op \in Closes /\ Len(fCall.todo) - 1 = 9
    BY <1>3, <2>1, Zenon DEF Fits, CloseItem, OtherItem
  <2>3. /\ p \in Seq(Items) /\ Len(p) = 1 /\ p[1] = Ask("refresh_all_keysets")
    BY DEF Items, Callbacks, Uses, Ask
  <2>4. Fits(fCall.op, 9, Ask("refresh_all_keysets"))
    BY <2>2 DEF Fits, CloseItem, Closes, Ask
  <2> HIDE DEF p
  <2>5. \A j \in 1..Len(p) : Fits(fCall.op, Len(p) - j + (Len(fCall.todo) - 1), p[j])
    <3>1. ASSUME NEW j \in 1..Len(p)
          PROVE  j = 1 /\ Len(p) - j + (Len(fCall.todo) - 1) = 9
      <4>1. Len(fCall.todo) = 10
        BY <2>1, <2>2
      <4>2. QED
        BY <2>3, <4>1
    <3>2. QED
        BY <2>3, <2>4, <3>1, Zenon
  <2>6. Tail(fCall.todo) \in Seq(Items) /\ fCall.proof \in Proofs /\ {} \in SUBSET Callbacks
    BY <1>1, TypedCall, Zenon
  <2>7. p \o Tail(fCall.todo) \in Seq(Items)
    BY <2>3, <2>6, Joining, Zenon
  <2>8. /\ fCall'.todo = p \o Tail(fCall.todo) /\ fCall'.proof = fCall.proof
        /\ fCall'.op = fCall.op /\ Unanswered' /\ CallTypes'
    BY <1>1, <1>3, <2>6, <2>7, Gone, Zenon DEF p
  <2>9. TodoInOrder' /\ Len(fCall'.todo) = Len(p) + Len(fCall.todo) - 1
    BY <1>1, <2>3, <2>5, <2>8, Replaced, Zenon DEF HostInv
  <2>10. Len(fCall.todo) = 10 /\ Len(fCall'.todo) = 10
    BY <2>1, <2>2, <2>3, <2>9
  <2>11. 10 \in 1..11 /\ ~(10 <= 3) /\ 10 # 0
    OBVIOUS
  <2>12. CloseProgress'
    BY <1>1, <2>2, <2>8, <2>10, <2>11, Zenon DEF HostInv, Progress, CloseProgress
  <2>13. fCall'.op # "process_payment"
    BY <2>2, <2>8, Zenon DEF Closes
  <2>14. QED
    BY <2>8, <2>9, <2>12, <2>13, Zenon DEF Steady, Progress, PaymentProgress
<1>4. CASE /\ fCall' = [fCall EXCEPT !.todo = Tail(@), !.keyset = fStore.keyset]
           /\ fAnswer' = fAnswer
  <2>1. fCall \in HostCall /\ fStore.keyset \in HostKeysets
    BY Zenon DEF HostInv, HostTypes, CallTypes, StoreRow
  <2>2. Tail(fCall.todo) \in Seq(Items)
    BY <1>1, TypedCall, Zenon
  <2>3. /\ fCall'.todo = Tail(fCall.todo) /\ fCall'.proof = fCall.proof
        /\ fCall'.dropped = fCall.dropped /\ fCall'.op = fCall.op
    BY <1>4, <2>1, Zenon DEF HostCall
  <2>4. fCall' \in HostCall
    BY <1>4, <2>1, <2>2, Zenon DEF HostCall
  <2>5. CallTypes' /\ Unanswered'
    BY <1>1, <1>4, <2>3, <2>4, Running, Zenon DEF CallTypes, Unanswered
  <2>6. TodoInOrder' /\ Progress'
    BY <1>1, <2>3, PassedOn, Zenon
  <2>7. QED
    BY <2>5, <2>6, Zenon DEF Steady
<1>5. QED
    BY <1>1, <1>2, <1>3, <1>4, Zenon

(* Refreshing the keysets leaves the close records alone. *)
LEMMA RefreshSteady ==
    ASSUME HostInv, RefreshKeysets
    PROVE  /\ Steady' /\ fStore' \in StoreRow /\ fStore'.closed = fStore.closed
           /\ fStore'.closing = fStore.closing
<1>1. /\ fCall.todo # << >> /\ Item.cb = "refresh_all_keysets"
      /\ Continues \/ Ends("error")
      /\ fStore' = fStore \/ fStore' = [fStore EXCEPT !.keyset = fMint.keyset]
      /\ fBinding' = fBinding /\ fMint' = fMint
    BY Zenon DEF RefreshKeysets, Asked
<1>2. fStore \in StoreRow /\ fMint.keyset \in HostKeysets
    BY Zenon DEF HostInv, HostTypes
<1>3. fStore' \in StoreRow
    BY <1>1, <1>2, Zenon DEF StoreRow
<1>4. /\ fStore'.funding = fStore.funding /\ fStore'.pay = fStore.pay
      /\ fStore'.usage = fStore.usage /\ fStore'.closing = fStore.closing
      /\ fStore'.closed = fStore.closed
    BY <1>1, <1>2, Zenon DEF StoreRow
<1>5. CASE Continues
    BY <1>1, <1>3, <1>4, <1>5, Continued, PassedOn, Zenon DEF Steady
<1>6. CASE Ends("error")
    BY <1>1, <1>3, <1>4, <1>6, Ended, Running, Zenon DEF Steady
<1>7. QED
    BY <1>1, <1>5, <1>6, Zenon

(* A new call promises nothing yet. *)
LEMMA CalledSteady ==
    ASSUME HostInv, BridgeCalled PROVE Steady'
<1>1. PICK oper \in DOMAIN Operations, b \in HostBalances :
          /\ oper \in DOMAIN Exports[fBinding]
          /\ fCall' = [NoCall EXCEPT !.op = oper, !.todo = Operations[oper],
                           !.proof = IF oper \in Unilateral THEN NoProof
                                     ELSE [bal |-> b, sig |-> b]]
          /\ fAnswer' = NoAnswer /\ fBinding' = fBinding
  <2>1. DOMAIN Exports[fBinding] \subseteq DOMAIN Operations
    BY ErrorsReported, Zenon DEF HostInv, HostTypes
  <2>2. QED
    BY <2>1, Zenon DEF BridgeCalled
<1> DEFINE proof == IF oper \in Unilateral THEN NoProof ELSE [bal |-> b, sig |-> b]
<1>2. oper \in DOMAIN Operations
    OBVIOUS
<1>3. /\ FitsAll(oper, Operations[oper], 0)
      /\ oper \in Closes => Len(Operations[oper]) > 11
      /\ oper = "process_payment" => Len(Operations[oper]) > 4
    BY <1>2, CallsFit, Zenon
<1>4. Operations[oper] \in Seq(Items) /\ Len(Operations[oper]) \in Nat
    BY <1>3 DEF FitsAll
<1>5. proof \in Proofs
  <2>1. b \in Nat
    BY HostAssumption, Zenon
  <2>2. QED
    BY <2>1, Zenon DEF Proofs, NoProof
<1>6. fCall' = [NoCall EXCEPT !.op = oper, !.todo = Operations[oper], !.proof = proof]
    BY <1>1, Zenon
<1>7. fCall'.op = oper /\ fCall'.todo = Operations[oper]
    BY <1>6, Zenon DEF NoCall
<1>8. NoCall \in HostCall
    BY DEF NoCall, HostCall, NoProof, Proofs, HostKeysets
<1>9. fCall' \in HostCall
    BY <1>2, <1>4, <1>5, <1>6, <1>8, Zenon DEF HostCall
<1>10. CallTypes'
    BY <1>1, <1>7, <1>9, Zenon DEF CallTypes
<1>11. TodoInOrder'
    BY <1>3, <1>7, StartsFit, Zenon
<1>12. Progress'
    BY <1>3, <1>4, <1>7, EarlyOn, Zenon
<1>13. Unanswered'
    BY <1>1, Zenon DEF Unanswered, NoAnswer
<1>14. QED
    BY <1>10, <1>11, <1>12, <1>13, Zenon DEF Steady

(* What the host's statements do to the channel's rows. *)
LEMMA BalanceUpdated ==
    ASSUME NEW s \in StoreRow, NEW p \in Proofs
    PROVE  /\ Stored(p) \in Proofs /\ Number(Stored(p).bal) = Stored(p).bal
           /\ UpdateBalance(s, p) \in StoreRow
           /\ UpdateBalance(s, p).funding = s.funding
           /\ UpdateBalance(s, p).usage = s.usage
           /\ UpdateBalance(s, p).closing = s.closing
           /\ UpdateBalance(s, p).closed = s.closed
           /\ s.funding => UpdateBalance(s, p).pay.bal >= Number(p.bal)
<1>1. Stored(p) \in Proofs /\ Stored(p).bal = Number(p.bal) /\ p.bal \in Nat
    BY NumberTwice, Zenon DEF Stored, Proofs
<1>2. Number(Stored(p).bal) = Stored(p).bal
    BY <1>1, NumberTwice, Zenon
<1>3. [s EXCEPT !.pay = Stored(p)] \in StoreRow
    BY <1>1, Zenon DEF StoreRow
<1>4. UpdateBalance(s, p) \in StoreRow
    BY <1>3, Zenon DEF UpdateBalance
<1>5. /\ UpdateBalance(s, p).funding = s.funding /\ UpdateBalance(s, p).usage = s.usage
      /\ UpdateBalance(s, p).closing = s.closing /\ UpdateBalance(s, p).closed = s.closed
    BY Zenon DEF UpdateBalance, StoreRow
<1>6. ASSUME s.funding PROVE UpdateBalance(s, p).pay.bal >= Number(p.bal)
  <2>1. CASE s.pay = NoProof \/ s.pay.bal < Stored(p).bal
    <3>1. UpdateBalance(s, p).pay = Stored(p)
        BY <1>6, <2>1, Zenon DEF UpdateBalance, StoreRow
    <3>2. QED
        BY <1>1, <3>1 DEF Proofs
  <2>2. CASE ~(s.pay = NoProof \/ s.pay.bal < Stored(p).bal)
    <3>1. UpdateBalance(s, p) = s /\ s.pay \in Proofs
        BY <2>2, Zenon DEF UpdateBalance, StoreRow
    <3>2. QED
        BY <1>1, <2>2, <3>1 DEF Proofs
  <2>3. QED
    BY <2>1, <2>2, Zenon
<1>7. QED
    BY <1>1, <1>2, <1>4, <1>5, <1>6, Zenon

(* A write as it goes: all of it, or some of its first statements. *)
WriteGoes(outcome, stores) ==
    IF outcome = "value" THEN fStore' = stores[Len(stores)]
    ELSE \E i \in 1..(Len(stores) - 1) : fStore' = stores[i]

(* save_funding, whole or interrupted, leaves the close records alone. *)
LEMMA FundingWritten ==
    ASSUME HostInv, fBinding' = fBinding, NEW outcome,
           WriteGoes(outcome, save_funding(fStore, fCall.proof))
    PROVE  /\ fStore' \in StoreRow /\ fStore'.closed = fStore.closed
           /\ fStore'.closing = fStore.closing
<1>1. fStore \in StoreRow /\ fCall.proof \in Proofs
    BY Zenon DEF HostInv, HostTypes, CallTypes, HostCall
<1> DEFINE row == [fStore EXCEPT !.funding = TRUE]
<1>2. row \in StoreRow
    BY <1>1, Zenon DEF StoreRow
<1>3. row.closed = fStore.closed /\ row.closing = fStore.closing
    BY <1>1, Zenon DEF StoreRow
<1> HIDE DEF row
<1>4. save_funding(fStore, fCall.proof) = << fStore, row, UpdateBalance(row, fCall.proof) >>
    BY Zenon DEF save_funding, row
<1>5. fStore' \in {fStore, row, UpdateBalance(row, fCall.proof)}
    BY <1>4 DEF WriteGoes
<1>6. QED
    BY <1>1, <1>2, <1>3, <1>5, BalanceUpdated

(* record_payment counts the usage and keeps the larger payment. *)
LEMMA PaymentWritten ==
    ASSUME HostInv, fBinding' = fBinding, NEW outcome,
           WriteGoes(outcome, record_payment(fStore, fCall.proof))
    PROVE  /\ fStore' \in StoreRow /\ fStore'.closed = fStore.closed
           /\ fStore'.closing = fStore.closing /\ fStore'.funding = fStore.funding
           /\ outcome = "value" =>
                /\ fStore'.usage = fStore.usage + 1
                /\ fStore.funding => fStore'.pay.bal >= Number(fCall.proof.bal)
<1>1. fStore \in StoreRow /\ fCall.proof \in Proofs
    BY Zenon DEF HostInv, HostTypes, CallTypes, HostCall
<1> DEFINE used == [fStore EXCEPT !.usage = @ + 1]
<1>2. used \in StoreRow
  <2>1. fStore.usage + 1 \in Nat
    BY <1>1 DEF StoreRow
  <2>2. QED
    BY <1>1, <2>1, Zenon DEF StoreRow
<1>3. /\ used.closed = fStore.closed /\ used.closing = fStore.closing
      /\ used.funding = fStore.funding /\ used.usage = fStore.usage + 1
    BY <1>1, Zenon DEF StoreRow
<1> HIDE DEF used
<1>4. record_payment(fStore, fCall.proof) = << fStore, used, UpdateBalance(used, fCall.proof) >>
    BY Zenon DEF record_payment, used
<1>5. /\ fStore' \in {fStore, used, UpdateBalance(used, fCall.proof)}
      /\ outcome = "value" => fStore' = UpdateBalance(used, fCall.proof)
    BY <1>4 DEF WriteGoes
<1>6. QED
    BY <1>1, <1>2, <1>3, <1>5, BalanceUpdated

(* mark_channel_closing writes the payment the call carries, or nothing. *)
LEMMA ClosingWritten ==
    ASSUME HostInv, fBinding' = fBinding, NEW outcome,
           WriteGoes(outcome, mark_channel_closing(fStore, fCall.proof))
    PROVE  /\ fStore' \in StoreRow /\ fStore'.closed = fStore.closed
           /\ fStore'.closing \in {fStore.closing, Stored(fCall.proof)}
<1>1. fStore \in StoreRow /\ fCall.proof \in Proofs
    BY Zenon DEF HostInv, HostTypes, CallTypes, HostCall
<1> DEFINE paying == UpdateBalance(fStore, fCall.proof)
<1>2. /\ paying \in StoreRow /\ paying.closed = fStore.closed /\ paying.closing = fStore.closing
      /\ Stored(fCall.proof) \in Proofs
    BY <1>1, BalanceUpdated, Zenon
<1> HIDE DEF paying
<1> DEFINE closing == [paying EXCEPT !.closing = Stored(fCall.proof)]
<1>3. closing \in StoreRow
    BY <1>2, Zenon DEF StoreRow
<1>4. closing.closed = fStore.closed /\ closing.closing = Stored(fCall.proof)
    BY <1>2, Zenon DEF StoreRow
<1> HIDE DEF closing
<1>5. mark_channel_closing(fStore, fCall.proof) =
          << fStore, paying, IF paying.closed = 0 /\ paying.funding THEN closing ELSE paying >>
    BY Zenon DEF mark_channel_closing, paying, closing
<1>6. fStore' \in {fStore, paying, closing}
    BY <1>5 DEF WriteGoes
<1>7. QED
    BY <1>1, <1>2, <1>3, <1>4, <1>6, Zenon

(* mark_channel_closed writes all of its statements or none. *)
LEMMA ClosedWritten ==
    ASSUME HostInv, fBinding' = fBinding, NEW outcome \in {"value", "raised"},
           WriteGoes(outcome, mark_channel_closed(fStore, fCall.proof))
    PROVE  /\ fStore' \in StoreRow
           /\ outcome = "value" =>
                fStore'.closed = Number(fCall.proof.bal) /\ fStore'.closing = NoProof
           /\ outcome = "raised" => fStore' = fStore
<1>1. fStore \in StoreRow /\ fCall.proof \in Proofs
    BY Zenon DEF HostInv, HostTypes, CallTypes, HostCall
<1> DEFINE closed == [fStore EXCEPT !.closed = Number(fCall.proof.bal), !.closing = NoProof]
<1>2. Number(fCall.proof.bal) \in Nat /\ NoProof \in Proofs
    BY <1>1, NumberTwice, Zenon DEF Proofs, NoProof
<1>3. closed \in StoreRow
    BY <1>1, <1>2, Zenon DEF StoreRow
<1>4. closed.closed = Number(fCall.proof.bal) /\ closed.closing = NoProof
    BY <1>1, Zenon DEF StoreRow
<1> HIDE DEF closed
<1>5. mark_channel_closed(fStore, fCall.proof) = << fStore, closed >>
    BY Zenon DEF mark_channel_closed, closed
<1>6. /\ outcome = "value" => fStore' = closed
      /\ outcome = "raised" => fStore' = fStore
    BY <1>5 DEF WriteGoes
<1>7. QED
    BY <1>1, <1>3, <1>4, <1>6, Zenon

(* What a step keeps of the rows: the mint settled what the host has closed. *)
RowsHold ==
    /\ fStore \in StoreRow /\ ClosingExact
    /\ fStore.closed # 0 => fMint.settled = fStore.closed

(* The records stay true where only the closing record may be written. *)
LEMMA RowsKept ==
    ASSUME HostInv, fBinding' = fBinding, fStore' \in StoreRow,
           fStore'.closing \in {fStore.closing, Stored(fCall.proof)},
           fStore'.closed = fStore.closed, fMint'.settled = fMint.settled
    PROVE  RowsHold'
<1>1. fStore \in StoreRow /\ fCall.proof \in Proofs
    BY Zenon DEF HostInv, HostTypes, CallTypes, HostCall
<1>2. Number(fStore'.closing.bal) = fStore'.closing.bal
    BY <1>1, BalanceUpdated DEF HostInv, ClosingExact
<1>3. ClosingExact'
    BY <1>2, Zenon DEF ClosingExact, Number
<1>4. QED
    BY <1>3, Zenon DEF RowsHold, HostInv, ClosedIsSettled

(* Where a write is, in the call that makes it. *)
LEMMA WritePlaced ==
    ASSUME NEW oper, NEW k \in Nat, NEW item, Fits(oper, k, item), item.cb \in Writes
    PROVE  /\ item.cb = "mark_channel_closed" => oper \in Closes /\ k = 0
           /\ oper = "process_payment" =>
                \/ item.cb = "record_payment" /\ k = 0
                \/ item.cb = "save_funding" /\ k > 4
    BY DEF Fits, CloseItem, PaymentItem, OtherItem, Needed, Writes

(* The writes of the host, by callback. *)
LEMMA WritesSteady ==
    ASSUME HostInv, HostWrites PROVE Steady' /\ RowsHold' /\ fMint' = fMint
<1>0. /\ Adapter[fBinding]["mark_channel_closed"]["raised"] = "err"
      /\ Adapter[fBinding]["record_payment"]["raised"] \in {"ok", "abort"}
    BY FaultsSeen DEF HostInv, HostTypes, Raises
<1>1. PICK outcome \in {"value", "raised"}, seen \in SeenValues : HostWrites!(outcome, seen)
    BY Zenon DEF HostWrites
<1> DEFINE lost == IF seen = "ok" THEN {Item.cb} ELSE {}
<1>2. /\ fCall.todo # << >> /\ Item.cb \in Writes
      /\ WriteGoes(outcome, Write(Item.cb, fStore, fCall.proof))
      /\ \/ (seen \in {"err", "abort"} /\ (Ends("error") \/ Ends("abort")))
         \/ (seen \notin {"err", "abort"} /\ Goes(Tail(fCall.todo), fCall.proof, lost))
      /\ fBinding' = fBinding /\ fMint' = fMint
    BY <1>1, Zenon DEF Asked, WriteGoes
<1>3. /\ outcome = "raised" => seen = Adapter[fBinding][Item.cb]["raised"]
      /\ outcome = "value" => seen = "value"
    BY <1>1, Zenon DEF Sees
<1>4. /\ Len(fCall.todo) \in Nat \ {0} /\ Len(fCall.todo) - 1 \in Nat
      /\ Fits(fCall.op, Len(fCall.todo) - 1, Item)
  <2>1. Len(fCall.todo) \in Nat \ {0} /\ Fits(fCall.op, Len(fCall.todo) - 1, Item)
    BY <1>2, Front, Zenon DEF HostInv
  <2>2. QED
    BY <2>1
<1>5. /\ Item.cb = "mark_channel_closed" => fCall.op \in Closes /\ Len(fCall.todo) - 1 = 0
      /\ fCall.op = "process_payment" =>
            \/ Item.cb = "record_payment" /\ Len(fCall.todo) - 1 = 0
            \/ Item.cb = "save_funding" /\ Len(fCall.todo) - 1 > 4
    BY <1>2, <1>4, WritePlaced, Zenon
<1>6. ASSUME Item.cb = "mark_channel_closed"
      PROVE  /\ Len(fCall.todo) = 1
             /\ Number(fCall.proof.bal) = fCall.proof.bal /\ fMint.settled = fCall.proof.bal
  <2>1. fCall.op \in Closes /\ Len(fCall.todo) = 1
    BY <1>4, <1>5, <1>6
  <2>2. fCall.proof = fStore.closing /\ fMint.settled = fCall.proof.bal
    BY <2>1 DEF HostInv, Progress, CloseProgress
  <2>3. QED
    BY <2>1, <2>2, Zenon DEF HostInv, ClosingExact
<1>7. RowsHold'
  <2>1. CASE Item.cb = "save_funding"
    <3>1. Write(Item.cb, fStore, fCall.proof) = save_funding(fStore, fCall.proof)
        BY <2>1 DEF Write
    <3>2. QED
        BY <1>2, <3>1, FundingWritten, RowsKept, Zenon
  <2>2. CASE Item.cb = "record_payment"
    <3>1. Write(Item.cb, fStore, fCall.proof) = record_payment(fStore, fCall.proof)
        BY <2>2 DEF Write
    <3>2. QED
        BY <1>2, <3>1, PaymentWritten, RowsKept, Zenon
  <2>3. CASE Item.cb = "mark_channel_closing"
    <3>1. Write(Item.cb, fStore, fCall.proof) = mark_channel_closing(fStore, fCall.proof)
        BY <2>3 DEF Write
    <3>2. QED
        BY <1>2, <3>1, ClosingWritten, RowsKept, Zenon
  <2>4. CASE Item.cb = "mark_channel_closed"
    <3>1. Write(Item.cb, fStore, fCall.proof) = mark_channel_closed(fStore, fCall.proof)
        BY <2>4 DEF Write
    <3>2. /\ fStore' \in StoreRow
          /\ outcome = "value" =>
                fStore'.closed = Number(fCall.proof.bal) /\ fStore'.closing = NoProof
          /\ outcome = "raised" => fStore' = fStore
        BY <1>2, <3>1, ClosedWritten, Zenon
    <3>3. CASE outcome = "raised"
        BY <1>2, <3>2, <3>3, RowsKept, Zenon
    <3>4. CASE outcome = "value"
      <4>1. ClosingExact'
        BY <3>2, <3>4 DEF ClosingExact, Number, NoProof
      <4>2. QED
        BY <1>2, <1>6, <2>4, <3>2, <3>4, <4>1, Zenon DEF RowsHold
    <3>5. QED
        BY <3>3, <3>4, Zenon
  <2>5. QED
    BY <1>2, <2>1, <2>2, <2>3, <2>4, Zenon DEF Writes
<1>8. Steady'
  <2>1. CASE Ends("error") \/ Ends("abort")
    BY <1>2, <2>1, Ended, Running, Zenon DEF Steady
  <2>2. CASE seen \notin {"err", "abort"} /\ Goes(Tail(fCall.todo), fCall.proof, lost)
    <3>1. Tail(fCall.todo) \in Seq(Items) /\ fCall.proof \in Proofs /\ lost \in SUBSET Callbacks
      <4>1. lost \in SUBSET Callbacks
        BY <1>2, Zenon DEF Callbacks
      <4>2. QED
        BY <1>2, <4>1, TypedCall, Zenon
    <3>2. /\ fCall'.todo = Tail(fCall.todo) /\ fCall'.proof = fCall.proof
          /\ fCall'.dropped = fCall.dropped \cup lost
          /\ fCall'.op = fCall.op /\ Unanswered' /\ CallTypes'
        BY <1>2, <2>2, <3>1, Gone, Zenon
    <3>3. TodoInOrder' /\ Len(fCall'.todo) = Len(fCall.todo) - 1
        BY <1>2, <3>2, Advanced, Zenon DEF HostInv
    <3>4. CloseProgress'
      <4>1. CASE Item.cb = "mark_channel_closed"
        <5>1. outcome = "value"
            BY <1>0, <1>3, <2>2, <4>1, Zenon
        <5>2. fStore'.closed = Number(fCall.proof.bal)
          <6>1. Write(Item.cb, fStore, fCall.proof) = mark_channel_closed(fStore, fCall.proof)
            BY <4>1 DEF Write
          <6>2. QED
            BY <1>2, <5>1, <6>1, ClosedWritten, Zenon
        <5>3. Len(fCall'.todo) = 0 /\ 0 \notin 1..11
            BY <1>6, <3>3, <4>1
        <5>4. QED
            BY <1>2, <1>6, <3>2, <4>1, <5>2, <5>3, Zenon DEF CloseProgress
      <4>2. CASE Item.cb # "mark_channel_closed"
        BY <1>2, <3>2, <4>2, EarlyClose, Zenon DEF Early, Writes
      <4>3. QED
        BY <4>1, <4>2, Zenon
    <3>5. PaymentProgress'
      <4>1. SUFFICES ASSUME fCall.op = "process_payment" PROVE PaymentProgress'
        BY <3>2, Zenon DEF PaymentProgress
      <4>2. CASE Item.cb = "save_funding" /\ Len(fCall.todo) - 1 > 4
        <5>1. ~(Len(fCall'.todo) <= 4) /\ Len(fCall'.todo) # 1 /\ Len(fCall'.todo) # 0
          <6>1. ASSUME NEW k \in Nat, k > 4 PROVE ~(k <= 4) /\ k # 1 /\ k # 0
            BY <6>1
          <6>2. QED
            BY <1>4, <3>3, <4>2, <6>1, Zenon
        <5>2. QED
            BY <5>1, Zenon DEF PaymentProgress
      <4>3. CASE Item.cb = "record_payment" /\ Len(fCall.todo) - 1 = 0
        <5>1. Write(Item.cb, fStore, fCall.proof) = record_payment(fStore, fCall.proof)
            BY <4>3 DEF Write
        <5>2. /\ fStore'.closed = fStore.closed
              /\ fStore'.closing = fStore.closing /\ fStore'.funding = fStore.funding
              /\ outcome = "value" =>
                    /\ fStore'.usage = fStore.usage + 1
                    /\ fStore.funding => fStore'.pay.bal >= Number(fCall.proof.bal)
            BY <1>2, <5>1, PaymentWritten, Zenon
        <5>3. Len(fCall.todo) = 1 /\ Len(fCall'.todo) = 0 /\ 1 <= 4 /\ 0 # 1
            BY <1>4, <3>3, <4>3
        <5>4. /\ get_channel_state(fStore) = "open"
              /\ fCall.dropped = {} => fStore.usage + 1 <= fCall.proof.bal
            BY <4>1, <5>3, Zenon DEF HostInv, Progress, PaymentProgress
        <5>5. fStore.funding
            BY <5>4, Zenon DEF get_channel_state
        <5>6. get_channel_state(fStore') = "open"
            BY <5>2, <5>4, Zenon DEF get_channel_state
        <5>7. outcome = "raised" => "record_payment" \in fCall'.dropped
            BY <1>0, <1>3, <2>2, <3>2, <4>3, Zenon
        <5>8. /\ fCall'.dropped = {} => outcome = "value" /\ fCall.dropped = {}
              /\ "record_payment" \notin fCall'.dropped => outcome = "value"
            BY <3>2, <5>7, Zenon
        <5>9. Number(fCall.proof.bal)' = Number(fCall.proof.bal)
            BY <1>2, <3>2, Zenon DEF Number
        <5>10. QED
            BY <3>2, <5>2, <5>3, <5>4, <5>5, <5>6, <5>8, <5>9, Zenon DEF PaymentProgress
      <4>4. QED
        BY <1>5, <4>1, <4>2, <4>3, Zenon
    <3>6. QED
        BY <3>2, <3>3, <3>4, <3>5, Zenon DEF Steady, Progress
  <2>3. QED
    BY <1>2, <2>1, <2>2, Zenon
<1>9. QED
    BY <1>2, <1>7, <1>8, Zenon

(* Only a close swaps, three callbacks before its end. *)
LEMMA SwapPlaced ==
    ASSUME NEW oper, NEW k \in Nat, NEW item, Fits(oper, k, item), item.cb = "call_mint_swap"
    PROVE  oper \in Closes /\ oper # "process_payment" /\ k = 3
    BY DEF Fits, CloseItem, OtherItem, Needed, Closes

MintTypes == fMint \in [settled : Nat, keyset : HostKeysets]

(* The closing swap: what the mint settles is what the host has on record. *)
LEMMA SwapSteady ==
    ASSUME HostInv, call_mint_swap
    PROVE  /\ Steady' /\ RowsHold' /\ MintTypes'
           /\ fMint'.settled # fMint.settled =>
                    fStore.closing = [bal |-> fMint'.settled, sig |-> fMint'.settled]
<1>1. PICK outcome \in {"value", "raised", "malformed"}, seen \in SeenValues, taken \in BOOLEAN :
            call_mint_swap!(outcome, seen, taken)
    BY Zenon DEF call_mint_swap
<1>2. /\ fCall.todo # << >> /\ Item.cb = "call_mint_swap"
      /\ taken => MintAccepts
      /\ fMint' = IF taken THEN [fMint EXCEPT !.settled = fCall.proof.bal] ELSE fMint
      /\ \/ (taken /\ Continues)
         \/ /\ fCall' = [fCall EXCEPT !.retried = TRUE, !.todo = resubmit_close]
            /\ fAnswer' = fAnswer
         \/ Ends("error")
      /\ fBinding' = fBinding /\ fStore' = fStore
    BY <1>1, Zenon DEF Asked
<1>3. Len(fCall.todo) \in Nat \ {0} /\ Fits(fCall.op, Len(fCall.todo) - 1, Item)
    BY <1>2, Front, Zenon DEF HostInv
<1>4. fCall.op \in Closes /\ fCall.op # "process_payment" /\ Len(fCall.todo) = 4
  <2>1. Len(fCall.todo) - 1 \in Nat
    BY <1>3
  <2>2. fCall.op \in Closes /\ fCall.op # "process_payment" /\ Len(fCall.todo) - 1 = 3
    BY <1>2, <1>3, <2>1, SwapPlaced, Zenon
  <2>3. QED
    BY <1>3, <2>2
<1>5. fCall.proof = fStore.closing
    BY <1>4 DEF HostInv, Progress, CloseProgress
<1>6. /\ fStore \in StoreRow /\ fCall \in HostCall /\ fCall.proof \in Proofs
      /\ fMint \in [settled : Nat, keyset : HostKeysets]
    BY Zenon DEF HostInv, HostTypes, CallTypes, HostCall
<1>7. fCall.proof.bal \in Nat
    BY <1>6, Zenon DEF Proofs
<1>8. MintTypes'
    BY <1>2, <1>6, <1>7, Zenon DEF MintTypes
<1>9. taken => fMint'.settled = fCall.proof.bal
    BY <1>2, <1>6, Zenon
<1>10. ~taken => fMint' = fMint
    BY <1>2, Zenon
<1>11. RowsHold'
  <2>1. ClosingExact'
    BY <1>2, Zenon DEF HostInv, ClosingExact, Number
  <2>2. taken => fStore.closed = 0
    BY <1>2, Zenon DEF MintAccepts, HostInv, ClosedIsSettled
  <2>3. QED
    BY <1>2, <1>6, <1>10, <2>1, <2>2, Zenon DEF RowsHold, HostInv, ClosedIsSettled
<1>12. fMint'.settled # fMint.settled =>
            fStore.closing = [bal |-> fMint'.settled, sig |-> fMint'.settled]
  <2>1. taken => fCall.proof.bal = fCall.proof.sig
    BY <1>2, Zenon DEF MintAccepts, Signed
  <2>2. fCall.proof.bal = fCall.proof.sig =>
            fCall.proof = [bal |-> fCall.proof.bal, sig |-> fCall.proof.bal]
    BY <1>6, Zenon DEF Proofs
  <2>3. QED
    BY <1>5, <1>9, <1>10, <2>1, <2>2, Zenon
<1>13. Steady'
  <2>1. CASE taken /\ Continues
    <3>1. /\ fCall'.todo = Tail(fCall.todo) /\ fCall'.proof = fCall.proof
          /\ fCall'.op = fCall.op /\ Unanswered' /\ CallTypes'
        BY <1>2, <2>1, Continued, Zenon
    <3>2. TodoInOrder' /\ Len(fCall'.todo) = Len(fCall.todo) - 1
        BY <1>2, <3>1, Advanced, Zenon DEF HostInv
    <3>3. Len(fCall'.todo) = 3 /\ 3 # 0
        BY <1>4, <3>2
    <3>4. CloseProgress'
        BY <1>2, <1>5, <1>9, <2>1, <3>1, <3>3, Zenon DEF CloseProgress
    <3>5. QED
        BY <1>4, <3>1, <3>2, <3>4, Zenon DEF Steady, Progress, PaymentProgress
  <2>2. CASE /\ fCall' = [fCall EXCEPT !.retried = TRUE, !.todo = resubmit_close]
             /\ fAnswer' = fAnswer
    <3>1. FitsAll(fCall.op, resubmit_close, 0) /\ Len(resubmit_close) = 10
        BY <1>4, ResubmitFits, Zenon
    <3>2. /\ fCall'.todo = resubmit_close /\ fCall'.proof = fCall.proof /\ fCall'.op = fCall.op
        BY <1>6, <2>2, Zenon DEF HostCall
    <3>3. resubmit_close \in Seq(Items)
        BY <3>1, Zenon DEF FitsAll
    <3>4. fCall' \in HostCall
        BY <1>6, <2>2, <3>3, Zenon DEF HostCall
    <3>5. CallTypes' /\ Unanswered'
        BY <1>2, <2>2, <3>2, <3>4, Running, Zenon DEF CallTypes, Unanswered
    <3>6. TodoInOrder'
        BY <3>1, <3>2, StartsFit, Zenon
    <3>7. ~(10 <= 3) /\ 10 # 0
        OBVIOUS
    <3>8. CloseProgress'
        BY <1>2, <1>5, <3>1, <3>2, <3>7, Zenon DEF CloseProgress
    <3>9. QED
        BY <1>4, <3>2, <3>5, <3>6, <3>8, Zenon DEF Steady, Progress, PaymentProgress
  <2>3. CASE Ends("error")
    BY <1>2, <2>3, Ended, Running, Zenon DEF Steady
  <2>4. QED
    BY <1>2, <2>1, <2>2, <2>3, Zenon
<1>14. QED
    BY <1>8, <1>11, <1>12, <1>13, Zenon
-----------------------------------------------------------------------------
(* An unanswered call in order, over rows that hold, is all of the invariant. *)
LEMMA SteadyHolds ==
    ASSUME HostInv, fBinding' = fBinding, Steady', RowsHold', MintTypes'
    PROVE  HostInv'
<1>1. HostTypes'
    BY Zenon DEF HostInv, HostTypes, Steady, RowsHold, MintTypes
<1>2. AnswerStands' /\ ClosedIsSettled' /\ ServedPaymentSound'
    BY Zenon DEF Steady, Unanswered, RowsHold, AnswerStands, ClosedIsSettled, ServedPaymentSound
<1>3. QED
    BY <1>1, <1>2, Zenon DEF HostInv, Steady, RowsHold

(* A call that returns promises what it has reached. *)
LEMMA ReturnsKeep ==
    ASSUME HostInv, CallReturns PROVE HostInv'
<1>1. /\ fCall.todo = << >> /\ fCall' = NoCall
      /\ fAnswer' = [op |-> fCall.op, proof |-> fCall.proof, dropped |-> fCall.dropped,
                     seen |-> "success"]
      /\ fBinding' = fBinding /\ fStore' = fStore /\ fMint' = fMint
    BY Zenon DEF CallReturns, Ends
<1>2. Len(fCall.todo) = 0 /\ 0 <= 4
    BY <1>1
<1>3. /\ fAnswer'.op = fCall.op /\ fAnswer'.proof = fCall.proof
      /\ fAnswer'.dropped = fCall.dropped
    BY <1>1, Zenon
<1>4. HostTypes' /\ ClosingExact'
  <2>1. NoCall \in HostCall
    BY DEF NoCall, HostCall, NoProof, Proofs, HostKeysets
  <2>2. QED
    BY <1>1, <2>1, Zenon DEF HostInv, HostTypes, CallTypes, ClosingExact, Number
<1>5. TodoInOrder' /\ Progress' /\ AnswerStands'
  <2>1. fCall' = NoCall /\ fCall'.todo = << >> /\ fCall'.op = "none"
    BY <1>1, Zenon DEF NoCall
  <2>2. QED
    BY <2>1 DEF TodoInOrder, Progress, CloseProgress, PaymentProgress, Closes, AnswerStands
<1>6. ClosedIsSettled'
    BY <1>1, <1>2, <1>3, Zenon DEF ClosedIsSettled, HostInv, Progress, CloseProgress
<1>7. ServedPaymentSound'
  <2>1. /\ get_channel_state(fStore)' = get_channel_state(fStore)
        /\ Number(fAnswer.proof.bal)' = Number(fCall.proof.bal)
    BY <1>1, <1>3, Zenon DEF get_channel_state, Number
  <2>2. QED
    BY <1>1, <1>2, <1>3, <2>1, Zenon DEF ServedPaymentSound, HostInv, Progress, PaymentProgress
<1>8. QED
    BY <1>4, <1>5, <1>6, <1>7, Zenon DEF HostInv

(* The mint rotates its keyset. *)
LEMMA RotationKeeps ==
    ASSUME HostInv, HostMintRotates PROVE HostInv' /\ fMint'.settled = fMint.settled
<1>1. /\ fMint \in [settled : Nat, keyset : HostKeysets]
      /\ fMint' = [fMint EXCEPT !.keyset = 2] /\ 2 \in HostKeysets
      /\ fBinding' = fBinding /\ fStore' = fStore /\ fCall' = fCall /\ fAnswer' = fAnswer
    BY Zenon DEF HostInv, HostTypes, HostMintRotates, HostKeysets
<1>2. fMint'.settled = fMint.settled
    BY <1>1, Zenon
<1>3. fMint' \in [settled : Nat, keyset : HostKeysets]
    BY <1>1, Zenon
<1>4. HostTypes' /\ ClosingExact' /\ TodoInOrder' /\ AnswerStands' /\ ServedPaymentSound'
    BY <1>1, <1>3, Zenon DEF HostInv, HostTypes, CallTypes, ClosingExact, TodoInOrder,
        AnswerStands, ServedPaymentSound, Number, get_channel_state
<1>5. Progress' /\ ClosedIsSettled'
    BY <1>1, <1>2, Zenon DEF HostInv, Progress, CloseProgress, PaymentProgress, ClosedIsSettled,
        Number, get_channel_state
<1>6. QED
    BY <1>2, <1>4, <1>5, Zenon DEF HostInv

(* The invariant holds at the start. *)
LEMMA HostInitHolds ==
    ASSUME HostInit PROVE HostInv
<1>1. fCall = NoCall /\ fAnswer.seen = "none" /\ fStore.closed = 0 /\ fStore.closing.bal = 0
    BY Zenon DEF HostInit, NoAnswer, NoProof
<1>2. NoCall \in HostCall
    BY DEF NoCall, HostCall, NoProof, Proofs, HostKeysets
<1>3. /\ fStore \in StoreRow /\ fMint \in [settled : Nat, keyset : HostKeysets]
    BY Zenon DEF HostInit, StoreRow, NoProof, Proofs, HostKeysets
<1>4. HostTypes
    BY <1>1, <1>2, <1>3, Zenon DEF HostTypes, CallTypes, HostInit
<1>5. ClosingExact
    BY <1>1 DEF ClosingExact, Number
<1>6. TodoInOrder /\ Progress
    BY <1>1 DEF NoCall, TodoInOrder, Progress, CloseProgress, PaymentProgress, Closes
<1>7. QED
    BY <1>1, <1>4, <1>5, <1>6, Zenon DEF HostInv, AnswerStands, ClosedIsSettled, ServedPaymentSound

(* One step of the host, and what it does to the mint. *)
LEMMA HostStep ==
    ASSUME HostInv, [HostNext]_hostVars
    PROVE  /\ HostInv'
           /\ fMint'.settled # fMint.settled =>
                    fStore.closing = [bal |-> fMint'.settled, sig |-> fMint'.settled]
<1>1. CASE UNCHANGED hostVars
  <2>1. /\ fBinding' = fBinding /\ fStore' = fStore /\ fMint' = fMint /\ fCall' = fCall
        /\ fAnswer' = fAnswer
    BY <1>1, Zenon DEF hostVars
  <2>2. HostTypes' /\ ClosingExact' /\ TodoInOrder' /\ AnswerStands' /\ ServedPaymentSound'
    BY <2>1, Zenon DEF HostInv, HostTypes, CallTypes, ClosingExact, TodoInOrder,
        AnswerStands, ServedPaymentSound, Number, get_channel_state
  <2>3. Progress' /\ ClosedIsSettled'
    BY <2>1, Zenon DEF HostInv, Progress, CloseProgress, PaymentProgress, ClosedIsSettled,
        Number, get_channel_state
  <2>4. QED
    BY <2>1, <2>2, <2>3, Zenon DEF HostInv
<1>2. ASSUME Steady', fBinding' = fBinding, fStore' = fStore, fMint' = fMint
      PROVE  HostInv'
  <2>1. fStore \in StoreRow /\ MintTypes
    BY Zenon DEF HostInv, HostTypes, MintTypes
  <2>2. RowsHold' /\ MintTypes'
    BY <1>2, <2>1, RowsKept, Zenon DEF MintTypes
  <2>3. QED
    BY <1>2, <2>2, SteadyHolds, Zenon
<1>3. CASE BridgeCalled
    BY <1>2, <1>3, CalledSteady, Zenon DEF BridgeCalled
<1>4. CASE StateLookup
    BY <1>2, <1>4, StateSteady, Zenon DEF StateLookup
<1>5. CASE Lookup
    BY <1>2, <1>5, LookupSteady, Zenon DEF Lookup
<1>6. CASE AmountDue
    BY <1>2, <1>6, AmountDueSteady, Zenon DEF AmountDue
<1>7. CASE ProofLookup
    BY <1>2, <1>7, ProofLookupSteady, Zenon DEF ProofLookup
<1>8. CASE verify_signature
    BY <1>2, <1>8, VerifySteady, Zenon DEF verify_signature
<1>9. CASE SelectKeyset
    BY <1>2, <1>9, SelectSteady, Zenon DEF SelectKeyset
<1>10. CASE RefreshKeysets
  <2>1. fBinding' = fBinding /\ fMint' = fMint /\ MintTypes
    BY <1>10, Zenon DEF RefreshKeysets, HostInv, HostTypes, MintTypes
  <2>2. Steady' /\ RowsHold'
    BY <1>10, <2>1, RefreshSteady, RowsKept, Zenon
  <2>3. QED
    BY <2>1, <2>2, SteadyHolds, Zenon DEF MintTypes
<1>11. CASE HostWrites
  <2>1. fBinding' = fBinding /\ MintTypes
    BY <1>11, Zenon DEF HostWrites, HostInv, HostTypes, MintTypes
  <2>2. QED
    BY <1>11, <2>1, WritesSteady, SteadyHolds, Zenon DEF MintTypes
<1>12. CASE call_mint_swap
  <2>1. fBinding' = fBinding
    BY <1>12, Zenon DEF call_mint_swap
  <2>2. QED
    BY <1>12, <2>1, SwapSteady, SteadyHolds, Zenon
<1>13. CASE HostMintRotates
    BY <1>13, RotationKeeps, Zenon
<1>14. CASE CallReturns
    BY <1>14, ReturnsKeep, Zenon DEF CallReturns
<1>15. QED
    BY <1>1, <1>3, <1>4, <1>5, <1>6, <1>7, <1>8, <1>9, <1>10, <1>11, <1>12, <1>13, <1>14, Zenon
       DEF HostNext

(* The invariant of the host. *)
LEMMA HostInvAlways == HostSpec => []HostInv
<1>1. HostInit => HostInv
    BY HostInitHolds, Zenon
<1>2. HostInv /\ [HostNext]_hostVars => HostInv'
    BY HostStep, Zenon
<1>3. QED
    BY <1>1, <1>2, PTL DEF HostSpec

(* A channel the host holds as closed was settled by the mint at that balance, and a close
   reported to the application is on the host's disk: execute_close_for_closing_channel
   closes what it read back, and no adapter drops a failure of mark_channel_closed. *)
THEOREM ClosesAreSettled == HostSpec => []ClosedIsSettled
<1>1. HostInv => ClosedIsSettled
    BY Zenon DEF HostInv
<1>2. QED
    BY <1>1, HostInvAlways, PTL

(* A payment reported as served left the channel open, is kept, and covers the usage, unless
   the adapter dropped a failure of record_payment or get_amount_due. *)
THEOREM ServedPaymentsSound == HostSpec => []ServedPaymentSound
<1>1. HostInv => ServedPaymentSound
    BY Zenon DEF HostInv
<1>2. QED
    BY <1>1, HostInvAlways, PTL

(* What the mint takes in a closing swap is the host's closing record, at the balance the
   sender signed: call_mint_swap is made with the proof read back by get_closing_data. *)
THEOREM SwapsAreJournaled == HostSpec => SwapIsJournaled
<1>1. HostInv /\ [HostNext]_hostVars =>
          [fMint'.settled # fMint.settled =>
              fStore.closing = [bal |-> fMint'.settled, sig |-> fMint'.settled]]_hostVars
    BY HostStep, Zenon
<1>2. QED
    BY <1>1, HostInvAlways, PTL DEF HostSpec, SwapIsJournaled

-----------------------------------------------------------------------------
(***************************************************************************)
(* The client's host behind a language binding, for any bindings, balances *)
(* and opening records and any number of failing callbacks.                *)
(*                                                                         *)
(* A call is a list of callbacks, and what protects the inputs is which    *)
(* callback comes before which: the invariant says that the list left is   *)
(* in that order (InOrder), and that an opening record is written only     *)
(* over nothing pending and a swap sent only for inputs that are unspent   *)
(* and recorded (OpeningGuarded).                                          *)
(***************************************************************************)

-----------------------------------------------------------------------------
(* The client's host. *)

ClientCallbacks ==
    {"get_channel_funding", "get_client_state", "get_opening", "get_payment_state",
     "now_seconds", "sign_with_tweaked_key", "compute_channel_secret",
     "call_mint_restore", "call_mint_swap", "save_opening", "mark_channel_open",
     "mark_opening_failed", "record_client_payment", "client_closing", "client_closed",
     "delete_channel"}
HostStates == {"unknown", "opening", "opening_failed", "open", "closing", "closed"}

HostRow ==
    [state : HostStates, opening : OpeningRecords \cup {0}, funding : BOOLEAN,
     bal : Nat, count : Nat]
ClientCall ==
    [op : DOMAIN ClientOperations \cup {"none"}, todo : Seq(ClientCallbacks), bal : Nat,
     opening : OpeningRecords \cup {0}, count : Nat]

ClientTypes ==
    /\ cBinding \in HostBindings
    /\ cHost \in HostRow
    /\ cMint \in [spent : BOOLEAN, rotated : BOOLEAN]
    /\ cCall \in ClientCall
    /\ cCall.todo # << >> => cCall.opening \in OpeningRecords
    /\ cGaveUp \in BOOLEAN

(* What precedes a callback in a call that still has to make it. *)
InOrder ==
    \A i \in 1..Len(cCall.todo) :
        /\ i > 1 => /\ cCall.todo[i] = "call_mint_swap" => cCall.todo[i - 1] = "save_opening"
                    /\ cCall.todo[i] = "save_opening" => cCall.todo[i - 1] = "get_opening"
                    /\ cCall.todo[i] # "mark_opening_failed"
        /\ cCall.todo[i] \in {"client_closed", "delete_channel"} => cGaveUp

Now == IF cCall.todo = << >> THEN "return" ELSE Head(cCall.todo)

(* Opening records are written only over nothing pending, and a swap is sent or
   given up only for inputs that were not spent. *)
OpeningGuarded ==
    /\ Now = "save_opening" => get_channel_opening_from_swap(cHost) = 0
    /\ Now = "call_mint_swap" => cHost.state = "opening" /\ cHost.opening # 0
    /\ Now \in {"call_mint_swap", "mark_opening_failed"} => (cMint.spent => cGaveUp)

ClientInv == ClientTypes /\ InOrder /\ OpeningGuarded /\ SpentInputsReachable

(* The adapters of all bindings report a failure to read the opening record, and
   to save one, as an error. *)
LEMMA ClientFaultsSeen ==
    ASSUME NEW b \in HostBindings
    PROVE  /\ ClientAdapter[b]["get_opening"] = Both("err")
           /\ ClientAdapter[b]["save_opening"] = Raises("err")
<1>1. b \in {"go", "python", "wasm"}
    BY BindingsAssumption, Zenon
<1>2. CASE b = "go"
  <2>1. ClientAdapter[b] = Joined(go_client, go_client_rest)
    BY <1>2, Zenon DEF ClientAdapter
  <2>2. QED
    BY <2>1, Zenon DEF Joined, go_client
<1>3. CASE b = "python"
  <2>1. ClientAdapter[b] = Joined(python_client, python_client_rest)
    BY <1>3, Zenon DEF ClientAdapter
  <2>2. QED
    BY <2>1, Zenon DEF Joined, python_client
<1>4. CASE b = "wasm"
  <2>1. ClientAdapter[b] = Joined(wasm_client, wasm_async_networking)
    BY <1>4, Zenon DEF ClientAdapter
  <2>2. QED
    BY <2>1, Zenon DEF Joined, wasm_client
<1>5. QED
    BY <1>1, <1>2, <1>3, <1>4, Zenon

(* Every call of the application starts in order. *)
LEMMA ClientCallsInOrder ==
    ASSUME NEW oper \in DOMAIN ClientOperations
    PROVE  /\ ClientOperations[oper] \in Seq(ClientCallbacks)
           /\ ClientOperations[oper][1] \notin {"save_opening", "call_mint_swap", "mark_opening_failed"}
           /\ \A i \in 1..Len(ClientOperations[oper]) :
                /\ i > 1 =>
                    /\ ClientOperations[oper][i] = "call_mint_swap" =>
                            ClientOperations[oper][i - 1] = "save_opening"
                    /\ ClientOperations[oper][i] = "save_opening" =>
                            ClientOperations[oper][i - 1] = "get_opening"
                    /\ ClientOperations[oper][i] # "mark_opening_failed"
                /\ ClientOperations[oper][i] \in {"client_closed", "delete_channel"} => oper \in GiveUp
<1>1. CASE oper = "open_channel_from_token"
  <2>1. ClientOperations[oper] = open_channel_from_token
    BY <1>1, Zenon DEF ClientOperations
  <2>2. QED
    BY <2>1 DEF ClientCallbacks, open_channel_from_token, submit_prepared_open
<1>2. CASE oper = "sign_and_record_payment"
  <2>1. ClientOperations[oper] = sign_and_record_payment
    BY <1>2, Zenon DEF ClientOperations
  <2>2. QED
    BY <2>1 DEF ClientCallbacks, sign_and_record_payment, sign_payment_internal, record_signed_payment
<1>3. CASE oper \in {"sign_payment", "sign_payment_header", "sign_channel_registration",
                   "sign_cooperative_close_request"}
  <2>1. ClientOperations[oper] = sign_payment_internal
    BY <1>3 DEF ClientOperations
  <2>2. QED
    BY <2>1 DEF ClientCallbacks, sign_payment_internal
<1>4. CASE oper \in {"process_cooperative_close_response", "close_channel"}
  <2>1. ClientOperations[oper] = << "client_closed" >>
    BY <1>4 DEF ClientOperations
  <2>2. QED
    BY <1>4, <2>1 DEF GiveUp, ClientCallbacks
<1>5. CASE oper = "mark_channel_unusable"
  <2>1. ClientOperations[oper] = << "client_closing" >>
    BY <1>5, Zenon DEF ClientOperations
  <2>2. QED
    BY <2>1 DEF ClientCallbacks
<1>6. CASE oper = "delete_channel"
  <2>1. ClientOperations[oper] = << "delete_channel" >>
    BY <1>6, Zenon DEF ClientOperations
  <2>2. QED
    BY <1>6, <2>1 DEF GiveUp, ClientCallbacks
<1>7. QED
    BY <1>1, <1>2, <1>3, <1>4, <1>5, <1>6, Zenon DEF ClientOperations

(* A call that goes on leaves its callbacks in order, and one that ends has none. *)
LEMMA ClientAdvances ==
    ASSUME ClientTypes, InOrder, cCall.todo # << >>, cGaveUp' = cGaveUp,
           cCall'.todo = Tail(cCall.todo)
    PROVE  /\ cCall'.todo \in Seq(ClientCallbacks)
           /\ InOrder'
           /\ Now = Head(cCall.todo)
           /\ Now' = "call_mint_swap" => Now = "save_opening"
           /\ Now' = "save_opening" => Now = "get_opening"
           /\ Now' # "mark_opening_failed"
<1>1. cCall.todo \in Seq(ClientCallbacks)
    BY Zenon DEF ClientTypes, ClientCall
<1>2. /\ cCall'.todo \in Seq(ClientCallbacks)
      /\ Len(cCall'.todo) = Len(cCall.todo) - 1
      /\ Len(cCall.todo) \in Nat \ {0}
      /\ Head(cCall.todo) = cCall.todo[1]
      /\ \A i \in 1..Len(cCall'.todo) : cCall'.todo[i] = cCall.todo[i + 1]
    BY <1>1, TailOf
<1>3. InOrder'
    BY <1>2 DEF InOrder
<1>4. CASE cCall'.todo = << >>
    BY <1>2, <1>3, <1>4, Zenon DEF Now
<1>5. CASE cCall'.todo # << >>
  <2>1. Head(cCall'.todo) = cCall.todo[2] /\ 2 \in 1..Len(cCall.todo)
    BY <1>2, <1>5
  <2>2. Now' = cCall.todo[2] /\ Now = cCall.todo[1]
    BY <1>2, <1>5, <2>1, Zenon DEF Now
  <2>3. QED
    BY <1>2, <1>3, <2>1, <2>2 DEF InOrder
<1>6. QED
    BY <1>4, <1>5, Zenon

(* A call that has ended has nothing left to make. *)
LEMMA ClientStops ==
    ASSUME cCall' = NoClientCall
    PROVE  /\ cCall'.todo = << >> /\ Now' = "return"
           /\ InOrder' /\ OpeningGuarded'
<1>1. cCall'.todo = << >>
    BY Zenon DEF NoClientCall
<1>2. QED
    BY <1>1 DEF Now, InOrder, OpeningGuarded

(* The types of every step. *)
LEMMA StopTypes == NoClientCall \in ClientCall /\ NoClientCall.todo = << >>
    BY DEF NoClientCall, ClientCall

Onward == [cCall EXCEPT !.todo = Tail(@)]
OnwardCounting(n) == [cCall EXCEPT !.todo = Tail(@), !.count = n]
ToFailed == [cCall EXCEPT !.todo = << "mark_opening_failed" >>]

(* The three ways on in a call keep its types and its opening. *)
LEMMA AdvanceTypes ==
    ASSUME cCall \in ClientCall, cCall.todo # << >>
    PROVE  /\ Onward \in ClientCall /\ Onward.opening = cCall.opening
           /\ Onward.todo = Tail(cCall.todo)
           /\ ToFailed \in ClientCall /\ ToFailed.opening = cCall.opening
           /\ ToFailed.todo = << "mark_opening_failed" >>
           /\ \A n \in Nat : /\ OnwardCounting(n) \in ClientCall
                             /\ OnwardCounting(n).opening = cCall.opening
                             /\ OnwardCounting(n).todo = Tail(cCall.todo)
<1>1. Tail(cCall.todo) \in Seq(ClientCallbacks)
  <2>1. cCall.todo \in Seq(ClientCallbacks)
    BY Zenon DEF ClientCall
  <2>2. QED
    BY <2>1, TailOf, Zenon
<1>2. << "mark_opening_failed" >> \in Seq(ClientCallbacks)
    BY DEF ClientCallbacks
<1>3. /\ Onward \in ClientCall /\ ToFailed \in ClientCall
      /\ \A n \in Nat : OnwardCounting(n) \in ClientCall
    BY <1>1, <1>2, Zenon DEF ClientCall, Onward, OnwardCounting, ToFailed
<1>4. QED
    BY <1>3, Zenon DEF ClientCall, Onward, OnwardCounting, ToFailed

(* What a write leaves in the host's maps. *)
LEMMA RowTypes ==
    ASSUME ClientTypes, cCall.todo # << >>, NEW cb \in ClientWrites,
           NEW row \in ClientWrite(cb, cHost, cCall)
    PROVE  row \in HostRow
<1>1. /\ cHost \in HostRow /\ cCall.opening \in OpeningRecords
      /\ cCall.bal \in Nat /\ cCall.count \in Nat
    BY Zenon DEF ClientTypes, ClientCall
<1> USE <1>1
<1>2. CASE cb = "save_opening"
    BY <1>2, Zenon DEF ClientWrite, save_opening_from_swap_channel, HostRow, HostStates
<1>3. CASE cb = "mark_channel_open"
    BY <1>3, Zenon DEF ClientWrite, mark_channel_open, HostRow, HostStates
<1>4. CASE cb = "mark_opening_failed"
    BY <1>4, Zenon DEF ClientWrite, mark_channel_opening_failed, HostRow, HostStates
<1>5. CASE cb = "record_client_payment"
  <2>1. row = [cHost EXCEPT !.bal = cCall.bal, !.count = cCall.count]
    BY <1>5, Zenon DEF ClientWrite
  <2>2. QED
    BY <2>1, Zenon DEF HostRow
<1>6. CASE cb = "client_closing"
    BY <1>6, Zenon DEF ClientWrite, client_mark_channel_closing, HostRow, HostStates
<1>7. CASE cb = "client_closed"
    BY <1>7, Zenon DEF ClientWrite, HostRow, HostStates
<1>8. CASE cb = "delete_channel"
  <2>1. row = NoRow
    BY <1>8, Zenon DEF ClientWrite
  <2>2. NoRow \in HostRow
    BY Zenon DEF NoRow, HostRow, HostStates
  <2>3. QED
    BY <2>1, <2>2, Zenon
<1>9. QED
    BY <1>2, <1>3, <1>4, <1>5, <1>6, <1>7, <1>8, Zenon DEF ClientWrites

(* The three bindings export the same calls of the client. *)
LEMMA ExportsKnown ==
    ASSUME cBinding \in HostBindings
    PROVE  DOMAIN ClientExports[cBinding] = DOMAIN ClientOperations
<1>1. cBinding \in {"go", "python", "wasm"}
    BY BindingsAssumption, Zenon
<1>2. ClientExports[cBinding] \in {go_client_exports, python_client_exports, wasm_client_exports}
    BY <1>1 DEF ClientExports
<1>3. QED
    BY <1>2, Zenon DEF go_client_exports, python_client_exports, wasm_client_exports

(* Every step keeps the types. *)
LEMMA ClientTypesStep ==
    ASSUME ClientTypes, ClientNext
    PROVE  ClientTypes'
<1> USE BindingsAssumption, ClientAssumption
<1>1. CASE ClientCalled
  <2>1. PICK oper \in DOMAIN ClientExports[cBinding], b \in ClientBalances, d \in OpeningRecords :
            /\ cCall' = [NoClientCall EXCEPT !.op = oper, !.todo = ClientOperations[oper],
                            !.bal = b, !.opening = d]
            /\ cGaveUp' = (cGaveUp \/ oper \in GiveUp)
            /\ UNCHANGED <<cBinding, cHost, cMint>>
    BY <1>1, Zenon DEF ClientCalled
  <2>2. oper \in DOMAIN ClientOperations
    BY ExportsKnown, Zenon DEF ClientTypes
  <2>3. ClientOperations[oper] \in Seq(ClientCallbacks) /\ b \in Nat /\ d # 0
    BY <2>2, ClientCallsInOrder, Zenon
  <2>4. cCall' \in ClientCall /\ cCall'.opening = d
    BY <2>1, <2>2, <2>3, StopTypes, Zenon DEF ClientCall
  <2>5. QED
    BY <2>1, <2>4, Zenon DEF ClientTypes
<1>2. CASE ClientLookup
  <2>1. /\ UNCHANGED <<cBinding, cHost, cMint, cGaveUp>>
        /\ cCall.todo # << >>
        /\ \/ cCall' = NoClientCall
           \/ cCall' = Onward
           \/ \E n \in {1, cHost.count + 1} : cCall' = OnwardCounting(n)
    BY <1>2, Zenon DEF ClientLookup, ClientAsked, ClientEnds, ClientGoes, Onward, OnwardCounting
  <2>3. cHost.count + 1 \in Nat /\ 1 \in Nat
    BY DEF ClientTypes, HostRow
  <2>4. cCall' \in ClientCall /\ (cCall'.todo # << >> => cCall'.opening = cCall.opening)
    BY <2>1, <2>3, AdvanceTypes, StopTypes, Zenon DEF ClientTypes
  <2>5. QED
    BY <2>1, <2>4, Zenon DEF ClientTypes
<1>3. CASE ClientHostWrites
  <2>1. /\ UNCHANGED <<cBinding, cMint, cGaveUp>>
        /\ cCall.todo # << >>
        /\ Head(cCall.todo) \in ClientWrites
        /\ cHost' = cHost \/ cHost' \in ClientWrite(Head(cCall.todo), cHost, cCall)
        /\ cCall' = NoClientCall \/ cCall' = Onward
    BY <1>3, Zenon DEF ClientHostWrites, ClientAsked, ClientEnds, ClientContinues, ClientGoes, Onward, ToFailed
  <2>2. cCall' \in ClientCall /\ (cCall'.todo # << >> => cCall'.opening = cCall.opening)
    BY <2>1, AdvanceTypes, StopTypes, Zenon DEF ClientTypes
  <2>3. cHost' \in HostRow
    BY <2>1, RowTypes, Zenon DEF ClientTypes
  <2>4. QED
    BY <2>1, <2>2, <2>3, Zenon DEF ClientTypes
<1>4. CASE ClientSwap
  <2>1. /\ UNCHANGED <<cBinding, cHost, cGaveUp>>
        /\ cCall.todo # << >>
        /\ cMint' = cMint \/ cMint' = [cMint EXCEPT !.spent = TRUE]
        /\ \/ cCall' = NoClientCall
           \/ cCall' = Onward
           \/ cCall' = ToFailed
    BY <1>4, Zenon DEF ClientSwap, ClientAsked, ClientEnds, ClientContinues, ClientGoes, Onward, ToFailed
  <2>2. cCall' \in ClientCall /\ (cCall'.todo # << >> => cCall'.opening = cCall.opening)
    BY <2>1, AdvanceTypes, StopTypes, Zenon DEF ClientTypes
  <2>3. cMint' \in [spent : BOOLEAN, rotated : BOOLEAN]
    BY <2>1, Zenon DEF ClientTypes
  <2>4. QED
    BY <2>1, <2>2, <2>3, Zenon DEF ClientTypes
<1>5. CASE ClientMintRotates
    BY <1>5, Zenon DEF ClientMintRotates, ClientTypes
<1>6. CASE ClientReturns
    BY <1>6, StopTypes, Zenon DEF ClientReturns, ClientTypes, ClientEnds, NoClientCall
<1>7. QED
    BY <1>1, <1>2, <1>3, <1>4, <1>5, <1>6, Zenon DEF ClientNext

(* What each write of the host does to the channel. *)
LEMMA WriteEffects ==
    ASSUME cHost \in HostRow, cCall.opening \in OpeningRecords, NEW cb \in ClientWrites,
           NEW row \in ClientWrite(cb, cHost, cCall)
    PROVE  /\ cb = "save_opening" =>
                /\ row.state = "opening" /\ row.opening # 0
                /\ \/ cHost.state \in {"unknown", "opening_failed"}
                   \/ cHost.state = "opening" /\ cHost.opening # 0
           /\ cb = "mark_channel_open" =>
                \/ row = cHost
                \/ row.state = "open" /\ row.funding
           /\ cb = "record_client_payment" =>
                row.state = cHost.state /\ row.opening = cHost.opening /\ row.funding = cHost.funding
           /\ cb = "client_closing" =>
                row.state = "closing" /\ row.opening = cHost.opening /\ row.funding = cHost.funding
<1>1. CASE cb = "save_opening"
    BY <1>1, ClientAssumption, Zenon DEF ClientWrite, save_opening_from_swap_channel, HostRow
<1>2. CASE cb = "mark_channel_open"
    BY <1>2, Zenon DEF ClientWrite, mark_channel_open, HostRow
<1>3. CASE cb = "record_client_payment"
    BY <1>3, Zenon DEF ClientWrite, HostRow
<1>4. CASE cb = "client_closing"
    BY <1>4, Zenon DEF ClientWrite, client_mark_channel_closing, HostRow
<1>5. QED
    BY <1>1, <1>2, <1>3, <1>4, Zenon

(* A call of the application, and the end of one, leave the host and the mint. *)
LEMMA CalledKeeps ==
    ASSUME ClientInv, ClientCalled
    PROVE  InOrder' /\ OpeningGuarded' /\ SpentInputsReachable'
<1>1. PICK oper \in DOMAIN ClientExports[cBinding], b \in ClientBalances, d \in OpeningRecords :
            /\ cCall' = [NoClientCall EXCEPT !.op = oper, !.todo = ClientOperations[oper],
                            !.bal = b, !.opening = d]
            /\ cGaveUp' = (cGaveUp \/ oper \in GiveUp)
            /\ UNCHANGED <<cBinding, cHost, cMint>>
    BY Zenon DEF ClientCalled
<1>2. oper \in DOMAIN ClientOperations
    BY ExportsKnown, Zenon DEF ClientInv, ClientTypes
<1>3. cCall'.todo = ClientOperations[oper]
    BY <1>1, Zenon DEF NoClientCall
<1>4. InOrder'
  <2>1. oper \in GiveUp => cGaveUp'
    BY <1>1, Zenon
  <2>2. QED
    BY <1>2, <1>3, <2>1, ClientCallsInOrder, Zenon DEF InOrder
<1>5. Now' \notin {"save_opening", "call_mint_swap", "mark_opening_failed"}
    BY <1>2, <1>3, ClientCallsInOrder DEF Now
<1>6. OpeningGuarded'
    BY <1>5, Zenon DEF OpeningGuarded
<1>7. SpentInputsReachable'
    BY <1>1, Zenon DEF ClientInv, SpentInputsReachable
<1>8. QED
    BY <1>4, <1>6, <1>7, Zenon

(* Reading from the host: a pending opening stops the next one
   (get_channel_opening_from_swap), an unreadable one ends the call. *)
LEMMA LookupKeeps ==
    ASSUME ClientInv, ClientLookup
    PROVE  InOrder' /\ OpeningGuarded' /\ SpentInputsReachable'
<1>1. /\ UNCHANGED <<cBinding, cHost, cMint, cGaveUp>>
      /\ cCall.todo # << >>
      /\ \/ cCall' = NoClientCall
         \/ cCall' = Onward
         \/ \E n \in {1, cHost.count + 1} : cCall' = OnwardCounting(n)
      /\ Head(cCall.todo) # "save_opening"
    BY Zenon DEF ClientLookup, ClientAsked, ClientEnds, ClientGoes, Onward, OnwardCounting
<1>2. SpentInputsReachable'
    BY <1>1, Zenon DEF ClientInv, SpentInputsReachable
<1>3. CASE cCall' = NoClientCall
    BY <1>2, <1>3, ClientStops, Zenon
<1>4. CASE cCall' # NoClientCall
  <2>1. cHost.count + 1 \in Nat /\ 1 \in Nat
    BY DEF ClientInv, ClientTypes, HostRow
  <2>2. cCall'.todo = Tail(cCall.todo)
    BY <1>1, <1>4, <2>1, AdvanceTypes, Zenon DEF ClientInv, ClientTypes
  <2>3. /\ InOrder'
        /\ Now' \notin {"call_mint_swap", "mark_opening_failed"}
        /\ Now' = "save_opening" => Head(cCall.todo) = "get_opening"
    BY <1>1, <2>2, ClientAdvances, Zenon DEF ClientInv
  <2>4. ASSUME Head(cCall.todo) = "get_opening"
        PROVE  get_channel_opening_from_swap(cHost) = 0
    <3>1. PICK outcome \in {"value", "raised", "malformed"}, seen \in SeenValues :
            /\ ClientSees(outcome, seen)
            /\ seen # "err"
            /\ seen = "value" => get_channel_opening_from_swap(cHost) = 0
        BY <1>4, <2>4, Zenon DEF ClientLookup, ClientEnds
    <3>2. ClientAdapter[cBinding][Head(cCall.todo)] = Both("err")
        BY <2>4, ClientFaultsSeen, Zenon DEF ClientInv, ClientTypes
    <3>3. seen = "value"
        BY <3>1, <3>2 DEF ClientSees, Both
    <3>4. QED
        BY <3>1, <3>3, Zenon
  <2>5. OpeningGuarded'
    BY <1>1, <2>3, <2>4, Zenon DEF OpeningGuarded, get_channel_opening_from_swap
  <2>6. QED
    BY <1>2, <2>3, <2>5, Zenon
<1>5. QED
    BY <1>3, <1>4, Zenon

(* Writing to the host: an opening is saved before its swap is sent, and given up
   only for unspent inputs. *)
LEMMA WritesKeep ==
    ASSUME ClientInv, ClientHostWrites
    PROVE  InOrder' /\ OpeningGuarded' /\ SpentInputsReachable'
<1> DEFINE cb == Head(cCall.todo)
<1>1. /\ UNCHANGED <<cBinding, cMint, cGaveUp>>
      /\ cCall.todo # << >>
      /\ cb \in ClientWrites
      /\ cHost' = cHost \/ cHost' \in ClientWrite(cb, cHost, cCall)
      /\ cCall' = NoClientCall \/ cCall' = Onward
    BY Zenon DEF ClientHostWrites, ClientAsked, ClientEnds, ClientContinues, ClientGoes, Onward
<1>2. /\ cHost \in HostRow /\ cCall \in ClientCall /\ cCall.opening \in OpeningRecords
      /\ cCall.todo \in Seq(ClientCallbacks) /\ cGaveUp \in BOOLEAN /\ cBinding \in HostBindings
    BY <1>1, Zenon DEF ClientInv, ClientTypes, ClientCall
<1>3. Now = cb
    BY <1>1, Zenon DEF Now
<1>4. cHost.funding \in BOOLEAN
    BY <1>2, Zenon DEF HostRow
<1>5. SpentInputsReachable'
  <2> SUFFICES ASSUME cMint.spent, ~cGaveUp, cHost' # cHost
               PROVE  SpentInputsReachable'
    BY <1>1, Zenon DEF ClientInv, SpentInputsReachable
  <2>1. cb \notin {"client_closed", "delete_channel"}
    BY <1>1, <1>2, TailOf DEF ClientInv, InOrder
  <2>2. cb # "mark_opening_failed"
    BY <1>3, Zenon DEF ClientInv, OpeningGuarded
  <2>3. cHost' \in ClientWrite(cb, cHost, cCall)
    BY <1>1, Zenon
  <2>4. \/ cHost.state = "opening" /\ cHost.opening # 0
        \/ cHost.state \in {"open", "closing"} /\ (cHost.funding \/ cHost.opening # 0)
    BY Zenon DEF ClientInv, SpentInputsReachable
  <2>5. CASE cb = "save_opening"
    BY <1>1, <1>2, <2>3, <2>5, WriteEffects, Zenon DEF SpentInputsReachable
  <2>6. CASE cb = "mark_channel_open"
    BY <1>1, <1>2, <2>3, <2>6, WriteEffects, Zenon DEF SpentInputsReachable
  <2>7. CASE cb = "record_client_payment"
    BY <1>1, <1>2, <2>3, <2>4, <2>7, WriteEffects, Zenon DEF SpentInputsReachable
  <2>8. CASE cb = "client_closing"
    BY <1>1, <1>2, <1>4, <2>3, <2>4, <2>8, WriteEffects, Zenon DEF SpentInputsReachable
  <2>9. QED
    BY <1>1, <2>1, <2>2, <2>5, <2>6, <2>7, <2>8, Zenon DEF ClientWrites
<1>6. CASE cCall' = NoClientCall
    BY <1>5, <1>6, ClientStops, Zenon
<1>7. CASE cCall' = Onward /\ cCall' # NoClientCall
  <2>1. /\ InOrder'
        /\ Now' \notin {"save_opening", "mark_opening_failed"}
        /\ Now' = "call_mint_swap" => cb = "save_opening"
    <3>1. cCall'.todo = Tail(cCall.todo)
        BY <1>1, <1>2, <1>7, AdvanceTypes, Zenon
    <3>2. QED
        BY <1>1, <1>3, <3>1, ClientAdvances, Zenon DEF ClientInv, ClientWrites
  <2>2. ASSUME cb = "save_opening"
        PROVE  cHost' \in ClientWrite(cb, cHost, cCall)
    <3>1. PICK outcome \in {"value", "raised"}, seen \in SeenValues :
            /\ ClientSees(outcome, seen)
            /\ seen = "err" => outcome = "value" /\ ClientWrite(cb, cHost, cCall) = {}
            /\ (outcome = "value" /\ ClientWrite(cb, cHost, cCall) = {}) =>
                    ClientAdapter[cBinding][cb].raised # "err"
            /\ (outcome = "value" /\ ClientWrite(cb, cHost, cCall) # {}) =>
                    cHost' \in ClientWrite(cb, cHost, cCall)
        BY <1>7, Zenon DEF ClientHostWrites, ClientEnds
    <3>2. ClientAdapter[cBinding][cb] = Raises("err")
        BY <1>2, <2>2, ClientFaultsSeen, Zenon
    <3>3. outcome = "value"
        BY <3>1, <3>2 DEF ClientSees, Raises
    <3>4. QED
        BY <3>1, <3>2, <3>3 DEF Raises
  <2>3. ASSUME Now' = "call_mint_swap"
        PROVE  cHost'.state = "opening" /\ cHost'.opening # 0 /\ (cMint.spent => cGaveUp)
    <3>1. cb = "save_opening" /\ cHost' \in ClientWrite(cb, cHost, cCall)
        BY <2>1, <2>2, <2>3, Zenon
    <3>2. get_channel_opening_from_swap(cHost) = 0
        BY <1>3, <3>1, Zenon DEF ClientInv, OpeningGuarded
    <3>3. cHost.state \in {"unknown", "opening_failed"} /\ cHost'.state = "opening" /\ cHost'.opening # 0
        BY <1>1, <1>2, <3>1, <3>2, WriteEffects, Zenon DEF get_channel_opening_from_swap
    <3>4. QED
        BY <3>3, Zenon DEF ClientInv, SpentInputsReachable
  <2>4. OpeningGuarded'
    BY <1>1, <2>1, <2>3, Zenon DEF OpeningGuarded
  <2>5. QED
    BY <1>5, <2>1, <2>4, Zenon
<1>8. QED
    BY <1>1, <1>6, <1>7, Zenon

(* The funding swap: the mint takes inputs only behind a saved opening. *)
LEMMA SwapKeeps ==
    ASSUME ClientInv, ClientSwap
    PROVE  InOrder' /\ OpeningGuarded' /\ SpentInputsReachable'
<1>1. /\ UNCHANGED <<cBinding, cHost, cGaveUp>>
      /\ cCall.todo # << >>
      /\ Head(cCall.todo) = "call_mint_swap"
      /\ cMint' = cMint \/ cMint' = [cMint EXCEPT !.spent = TRUE]
      /\ \/ cCall' = NoClientCall
         \/ cCall' = Onward
         \/ cCall' = ToFailed /\ cMint' = cMint
    BY Zenon DEF ClientSwap, ClientAsked, ClientEnds, ClientContinues, ClientGoes, Onward, ToFailed
<1>2. cHost.state = "opening" /\ cHost.opening # 0 /\ (cMint.spent => cGaveUp)
    BY <1>1, Zenon DEF ClientInv, OpeningGuarded, Now
<1>3. SpentInputsReachable'
    BY <1>1, <1>2, Zenon DEF SpentInputsReachable
<1>4. CASE cCall' = NoClientCall
    BY <1>3, <1>4, ClientStops, Zenon
<1>5. CASE cCall' = Onward
  <2>1. cCall'.todo = Tail(cCall.todo)
    BY <1>1, <1>5, AdvanceTypes, Zenon DEF ClientInv, ClientTypes
  <2>2. InOrder' /\ Now' \notin {"save_opening", "call_mint_swap", "mark_opening_failed"}
    BY <1>1, <2>1, ClientAdvances, Zenon DEF ClientInv
  <2>3. OpeningGuarded'
    BY <2>2, Zenon DEF OpeningGuarded
  <2>4. QED
    BY <1>3, <2>2, <2>3, Zenon
<1>6. CASE cCall' = ToFailed /\ cMint' = cMint
  <2>1. cCall'.todo = << "mark_opening_failed" >>
    BY <1>1, <1>6, AdvanceTypes, Zenon DEF ClientInv, ClientTypes
  <2>2. InOrder' /\ Now' = "mark_opening_failed"
    BY <2>1 DEF InOrder, Now
  <2>3. OpeningGuarded'
    BY <1>1, <1>2, <1>6, <2>2, Zenon DEF OpeningGuarded
  <2>4. QED
    BY <1>3, <2>2, <2>3, Zenon
<1>7. QED
    BY <1>1, <1>4, <1>5, <1>6, Zenon

(* SpentInputsReachable for every behaviour: whatever callbacks fail in whatever
   binding, inputs that the mint took stay behind a channel the host knows until
   the application gives it up. *)
THEOREM SpentInputsStayReachable == ClientSpec => []SpentInputsReachable
<1>1. ClientInit => ClientInv
  <2> SUFFICES ASSUME ClientInit PROVE ClientInv
    OBVIOUS
  <2>1. cCall.todo = << >> /\ cCall \in ClientCall
    BY StopTypes, Zenon DEF ClientInit
  <2>2. cHost \in HostRow
    BY Zenon DEF ClientInit, NoRow, HostRow, HostStates
  <2>3. ClientTypes
    BY <2>1, <2>2, Zenon DEF ClientInit, ClientTypes
  <2>4. InOrder /\ OpeningGuarded
    BY <2>1 DEF InOrder, OpeningGuarded, Now
  <2>5. SpentInputsReachable
    BY Zenon DEF ClientInit, SpentInputsReachable
  <2>6. QED
    BY <2>3, <2>4, <2>5, Zenon DEF ClientInv
<1>2. ClientInv /\ [ClientNext]_clientVars => ClientInv'
  <2> SUFFICES ASSUME ClientInv, [ClientNext]_clientVars PROVE ClientInv'
    OBVIOUS
  <2>1. CASE ClientNext
    <3>1. ClientTypes'
        BY <2>1, ClientTypesStep, Zenon DEF ClientInv
    <3>2. CASE ClientReturns
        <4>1. cCall' = NoClientCall /\ UNCHANGED <<cHost, cMint, cGaveUp>>
            BY <3>2, Zenon DEF ClientReturns, ClientEnds
        <4>2. SpentInputsReachable'
            BY <4>1, Zenon DEF ClientInv, SpentInputsReachable
        <4>3. QED
            BY <3>1, <4>1, <4>2, ClientStops, Zenon DEF ClientInv
    <3>3. CASE ClientMintRotates
        <4>1. cCall' = cCall /\ cHost' = cHost /\ cGaveUp' = cGaveUp /\ cMint'.spent = cMint.spent
            BY <3>3, Zenon DEF ClientMintRotates, ClientInv, ClientTypes
        <4>2. QED
            BY <3>1, <4>1, Zenon
               DEF ClientInv, InOrder, OpeningGuarded, SpentInputsReachable, Now,
                   get_channel_opening_from_swap
    <3>4. QED
        BY <2>1, <3>1, <3>2, <3>3, CalledKeeps, LookupKeeps, WritesKeep, SwapKeeps, Zenon
           DEF ClientNext, ClientInv
  <2>2. CASE UNCHANGED clientVars
    BY <2>2, Zenon
       DEF clientVars, ClientInv, ClientTypes, InOrder, OpeningGuarded, SpentInputsReachable,
           Now, get_channel_opening_from_swap
  <2>3. QED
    BY <2>1, <2>2, Zenon
<1>3. ClientInv => SpentInputsReachable
    BY Zenon DEF ClientInv
<1>4. QED
    BY <1>1, <1>2, <1>3, PTL DEF ClientSpec

-----------------------------------------------------------------------------
(***************************************************************************)
(* Proofs about SenderRecovery, for any contexts, keysets and bounds.      *)
(***************************************************************************)

(* The inductive invariant.  A refund the mint works on was sent after      *)
(* expiry and found the funding free; a recovery past its inspection knows  *)
(* the funding is spent for good; and if the executed refund is one of the  *)
(* attempts it was given, it is still to be tried or the recovery is        *)
(* already marked unresolved.                                               *)
OpKnows ==
    /\ pendingOn # NoAttempt => spend.by = "none" /\ now > Expiry
    /\ spend.by = "refund" => spend.share
    /\ op.step = "restore" =>
         /\ pendingOn = NoAttempt
         /\ spend.by \in {"refund", "close", "other"}
         /\ spend.by = "refund" /\ spend.attempt \in op.attempts =>
               spend.attempt \in op.todo \/ op.invalid
    /\ op.step = "inspect" => op.todo = op.attempts
    /\ op.todo \subseteq op.attempts

RecoveryInv == TypeOK /\ RefundRestorable /\ RecoveryExact /\ OpKnows

(* The invariant holds at the start. *)
LEMMA InitInv == Init => RecoveryInv
  BY RecoveryAssumption DEF Init, RecoveryInv, TypeOK, RefundRestorable, RecoveryExact, OpKnows,
     Spend, Idle, Result

(* Retaining a verified attempt keeps the invariant. *)
LEMMA RetainInv ==
  ASSUME RecoveryInv, NEW a \in Attempts, verify(a), Retain(a)
  PROVE  RecoveryInv'
  BY DEF RecoveryInv, TypeOK, RefundRestorable, RecoveryExact, OpKnows, Retain, verify, Attempts

(* Every step of the refund operations and of the mint preserves it. *)
LEMMA RefundsInv ==
  ASSUME RecoveryInv,
         \/ Tick \/ prepare_sender_refund_after_expiry \/ with_output_keyset
         \/ submit_prepared_sender_refund \/ MintRotates \/ MintTakes \/ MintFinishes
         \/ RequestLost \/ ReceiverCloses \/ OtherRefund
  PROVE  RecoveryInv'
<1> USE RecoveryAssumption DEF RecoveryInv
<1>1. CASE Tick
  BY <1>1 DEF Tick, TypeOK, RefundRestorable, RecoveryExact, OpKnows, verify
<1>2. CASE prepare_sender_refund_after_expiry
  <2>1. PICK c \in Contexts, k \in Keysets :
             Retain([context |-> c, derivation |-> k, keyset |-> k])
    BY <1>2, Zenon DEF prepare_sender_refund_after_expiry
  <2>2. verify([context |-> c, derivation |-> k, keyset |-> k])
    BY Zenon DEF verify, replace_output_keyset, Attempts
  <2> QED BY <2>1, <2>2, RetainInv, Zenon DEF verify
<1>3. CASE with_output_keyset
  <2>1. PICK a \in attempts, k \in Keysets : \E successor \in replace_output_keyset(a, k) :
             verify(successor) /\ Retain(successor)
    BY <1>3, Zenon DEF with_output_keyset
  <2> QED BY <2>1, RetainInv, Zenon DEF verify
<1>4. CASE submit_prepared_sender_refund
  BY <1>4 DEF submit_prepared_sender_refund, TypeOK, RefundRestorable, RecoveryExact,
     OpKnows, verify
<1>5. CASE MintRotates
  BY <1>5 DEF MintRotates, TypeOK, RefundRestorable, RecoveryExact, OpKnows, verify
<1>6. CASE MintTakes
  <2>1. PICK a \in wire :
          /\ pendingOn = NoAttempt
          /\ wire' = wire \ {a}
          /\ pendingOn' = IF spend.by = "none" /\ a.keyset = active /\ now > Expiry
                          THEN a ELSE NoAttempt
          /\ UNCHANGED << rerandomized, now, attempts, spend, active, op, result, paid,
                          netFaults >>
    BY <1>6, Zenon DEF MintTakes
  <2> QED BY <2>1 DEF TypeOK, RefundRestorable, RecoveryExact, OpKnows, verify
<1>7. CASE MintFinishes
  <2>1. CASE spend' = Spend("refund", pendingOn, pendingOn.keyset, TRUE)
    <3>1. pendingOn \in Attempts /\ pendingOn.keyset \in Keysets
      BY <1>7, Zenon DEF MintFinishes, TypeOK, Attempts
    <3>2. spend.by = "none" /\ op.step # "restore" /\ paid = {}
      BY <1>7, Zenon DEF MintFinishes, TypeOK, RecoveryExact, OpKnows
    <3>3. TypeOK'
      BY <1>7, <2>1, <3>1, ZenonT(30) DEF MintFinishes, TypeOK, Spend
    <3>4. RefundRestorable'
      BY <1>7, <2>1, <3>1, Zenon DEF MintFinishes, RefundRestorable, OpKnows, Spend, verify
    <3>5. RecoveryExact' /\ OpKnows'
      BY <1>7, <2>1, <3>2, Zenon DEF MintFinishes, RecoveryExact, OpKnows, Spend, TypeOK
    <3> QED BY <3>3, <3>4, <3>5, Zenon
  <2>2. CASE UNCHANGED << spend, paid >>
    BY <1>7, <2>2 DEF MintFinishes, TypeOK, RefundRestorable, RecoveryExact, OpKnows, verify
  <2> QED BY <1>7, <2>1, <2>2, ZenonT(30) DEF MintFinishes
<1>8. CASE RequestLost
  BY <1>8 DEF RequestLost, TypeOK, RefundRestorable, RecoveryExact, OpKnows, verify
<1>9. CASE ReceiverCloses
  <2>1. PICK share \in BOOLEAN : spend' = Spend("close", NoAttempt, active, share)
    BY <1>9, Zenon DEF ReceiverCloses
  <2> QED BY <1>9, <2>1 DEF ReceiverCloses, Spend, TypeOK, RefundRestorable, RecoveryExact,
          OpKnows, verify
<1>10. CASE OtherRefund
  <2>1. PICK by \in {"other", "part"} : spend' = Spend(by, NoAttempt, active, FALSE)
    BY <1>10, ZenonT(30) DEF OtherRefund
  <2> QED BY <1>10, <2>1 DEF OtherRefund, Spend, TypeOK, RefundRestorable, RecoveryExact,
          OpKnows, verify
<1> QED BY <1>1, <1>2, <1>3, <1>4, <1>5, <1>6, <1>7, <1>8, <1>9, <1>10, Zenon

(* Every step of recover_funds preserves it. *)
LEMMA RecoverInv ==
  ASSUME RecoveryInv, Recover
  PROVE  RecoveryInv'
<1> USE RecoveryAssumption DEF RecoveryInv
<1>1. ASSUME NEW keysets \in SUBSET Keysets, RecoverCalled(keysets)
      PROVE  RecoveryInv'
  BY <1>1 DEF RecoverCalled, TypeOK, RefundRestorable, RecoveryExact, OpKnows, verify
<1>2. CASE RecoverInspects
  <2>1. CASE inspect_funding = "spent"
    <3>1. pendingOn = NoAttempt /\ spend.by \in {"refund", "close", "other"}
      BY <2>1, Zenon DEF inspect_funding, TypeOK
    <3>2. op.step = "inspect" /\ op' = [op EXCEPT !.step = "restore"]
      BY <1>2, <2>1, Zenon DEF RecoverInspects
    <3>3. UNCHANGED << rerandomized, now, attempts, wire, pendingOn, spend, active, result,
                       paid, netFaults >>
      BY <1>2, <2>1, Zenon DEF RecoverInspects
    <3>4. TypeOK' /\ RefundRestorable' /\ RecoveryExact'
      BY <3>2, <3>3 DEF TypeOK, RefundRestorable, RecoveryExact, verify
    <3>5. /\ op'.attempts = op.attempts /\ op'.todo = op.todo /\ op'.invalid = op.invalid
          /\ op'.step = "restore" /\ op.todo = op.attempts
      BY <3>2, Zenon DEF TypeOK, OpKnows
    <3>6. OpKnows'
      BY <3>1, <3>3, <3>5, Zenon DEF OpKnows
    <3> QED BY <3>4, <3>6, Zenon
  <2>2. CASE inspect_funding # "spent"
    <3>1. inspect_funding \in {"unspent", "pending", "mixed"}
      BY <2>2, Zenon DEF inspect_funding
    <3>2. /\ op' = Idle /\ result' = Result(inspect_funding, NoAttempt) /\ paid' = paid
          /\ UNCHANGED << rerandomized, now, attempts, wire, pendingOn, spend, active,
                          netFaults >>
      BY <1>2, <2>2, <3>1, Zenon DEF RecoverInspects, Returns, Result
    <3> QED BY <3>1, <3>2 DEF Result, Idle, TypeOK, RefundRestorable, RecoveryExact, OpKnows,
            verify
  <2> QED BY <2>1, <2>2, Zenon
<1>3. ASSUME NEW a \in Attempts, RecoverRestores(a)
      PROVE  RecoveryInv'
  <2> DEFINE issued == spend.by = "refund" /\ Points(spend.attempt) = Points(a)
             complete == {c \in op.attempts : /\ Points(c) = Points(a)
                                              /\ c.keyset = spend.attempt.keyset}
  <2>1. CASE issued /\ complete # {}
    <3>1. PICK c \in complete : Returns(Result("refund", c))
      BY <1>3, <2>1, Zenon DEF RecoverRestores
    <3>2. spend.attempt \in Attempts /\ c \in Attempts
      BY <2>1, Zenon DEF RefundRestorable, verify, TypeOK
    <3>3. c = spend.attempt
      BY <2>1, <3>2 DEF Points, Attempts
    <3> HIDE DEF issued, complete
    <3>4. spend.by = "refund" /\ spend.share
      BY <2>1, Zenon DEF issued, OpKnows
    <3> QED BY <1>3, <3>1, <3>2, <3>3, <3>4, Zenon DEF RecoverRestores, Returns, Result, Idle, TypeOK,
            RefundRestorable, RecoveryExact, OpKnows, verify
  <2>2. CASE ~(issued /\ complete # {})
    <3>1. /\ op.step = "restore" /\ a \in op.todo
          /\ op' = Tried(a, issued)
          /\ UNCHANGED << rerandomized, now, attempts, wire, pendingOn, spend, active, result,
                          paid, netFaults >>
      BY <1>3, <2>2, Zenon DEF RecoverRestores
    <3>2. spend.by = "refund" /\ spend.attempt = a => issued
      OBVIOUS
    <3>3. issued \in BOOLEAN
      OBVIOUS
    <3> HIDE DEF issued
    <3>4. TypeOK' /\ RefundRestorable' /\ RecoveryExact'
      BY <3>1, <3>3 DEF Tried, TypeOK, RefundRestorable, RecoveryExact, verify
    <3>5. OpKnows'
      BY <3>1, <3>2, <3>3, Zenon DEF Tried, OpKnows, TypeOK
    <3> QED BY <3>4, <3>5, Zenon
  <2> QED BY <2>1, <2>2, Zenon
<1>4. ASSUME NEW a \in Attempts, RestoreFails(a)
      PROVE  RecoveryInv'
  <2>1. /\ op.step = "restore" /\ op' = Tried(a, TRUE)
        /\ UNCHANGED << rerandomized, now, attempts, wire, pendingOn, spend, active, result,
                        paid >>
        /\ netFaults' = netFaults + 1
    BY <1>4, Zenon DEF RestoreFails
  <2>2. TypeOK' /\ RefundRestorable' /\ RecoveryExact'
    BY <2>1 DEF Tried, TypeOK, RefundRestorable, RecoveryExact, verify
  <2>3. OpKnows'
    BY <2>1, Zenon DEF Tried, OpKnows, TypeOK
  <2> QED BY <2>2, <2>3, Zenon
<1>5. CASE RecoverDiscovers
  <2>1. PICK r \in {Result("error", NoAttempt), Result("no_known_payout", NoAttempt)}
                   \cup {x \in {Result("close", NoAttempt)} :
                           spend.by = "close" /\ spend.share} : Returns(r)
    BY <1>5, Zenon DEF RecoverDiscovers
  <2>2. TypeOK' /\ OpKnows'
    BY <1>5, <2>1, SMTT(30) DEF RecoverDiscovers, Returns, Result, Idle, TypeOK, OpKnows
  <2>3. RefundRestorable' /\ RecoveryExact'
    BY <1>5, <2>1, SMTT(30) DEF RecoverDiscovers, Returns, Result, Idle, TypeOK,
       RefundRestorable, RecoveryExact, verify
  <2> QED BY <2>2, <2>3, Zenon
<1>6. CASE RecoverFails
  BY <1>6 DEF RecoverFails, Result, Idle, TypeOK, RefundRestorable, RecoveryExact, OpKnows,
     verify
<1> QED BY <1>1, <1>2, <1>3, <1>4, <1>5, <1>6, Zenon DEF Recover

(* Every step keeps the invariant. *)
LEMMA NextInv == RecoveryInv /\ [Next]_vars => RecoveryInv'
<1> SUFFICES ASSUME RecoveryInv, [Next]_vars PROVE RecoveryInv'
  OBVIOUS
<1>1. CASE UNCHANGED vars
  BY <1>1 DEF vars, RecoveryInv, TypeOK, RefundRestorable, RecoveryExact, OpKnows, verify
<1>2. CASE Next
  BY <1>2, RefundsInv, RecoverInv, Zenon DEF Next
<1> QED BY <1>1, <1>2, Zenon

(* The invariant of the recovery. *)
LEMMA SpecInv == Spec => []RecoveryInv
  BY InitInv, NextInv, PTL DEF Spec

(* Type correctness of the recovery's state. *)
THEOREM RecoveryTyped == Spec => []TypeOK
<1>1. RecoveryInv => TypeOK
  BY Zenon DEF RecoveryInv
<1> QED BY <1>1, SpecInv, PTL

(* A refund the mint has executed is retained, so its answer may be lost:   *)
(* the host persists an attempt before submit_prepared_sender_refund.       *)
THEOREM RefundsRestorable == Spec => []RefundRestorable
<1>1. RecoveryInv => RefundRestorable
  BY Zenon DEF RecoveryInv
<1> QED BY <1>1, SpecInv, PTL

(* recover_funds attributes a payout to the spend that made it, however     *)
(* many successors share the executed refund's points.                      *)
THEOREM RecoveriesExact == Spec => []RecoveryExact
<1>1. RecoveryInv => RecoveryExact
  BY Zenon DEF RecoveryInv
<1> QED BY <1>1, SpecInv, PTL

(* recover_funds concludes that there is no payout only when, of the        *)
(* attempts it was given and the sender's close outputs, there is none.     *)
THEOREM AbsencesReal == Spec => AbsenceIsReal
<1>1. RecoveryInv /\ [Next]_vars =>
        [RecoverDiscovers /\ result'.kind = "no_known_payout" =>
            /\ spend.by # "close" \/ ~spend.share
            /\ spend.by = "refund" => spend.attempt \notin op.attempts]_vars
  <2> SUFFICES ASSUME RecoveryInv, RecoverDiscovers, result'.kind = "no_known_payout"
               PROVE  /\ spend.by # "close" \/ ~spend.share
                      /\ spend.by = "refund" => spend.attempt \notin op.attempts
    OBVIOUS
  <2>1. ~op.invalid /\ ~(spend.by = "close" /\ spend.share)
    BY Zenon DEF RecoverDiscovers, Returns, Result
  <2>2. spend.by = "refund" => spend.attempt \notin op.attempts
    BY <2>1, Zenon DEF RecoverDiscovers, RecoveryInv, OpKnows
  <2> QED BY <2>1, <2>2, Zenon
<1> QED BY <1>1, SpecInv, PTL DEF Spec, AbsenceIsReal
=============================================================================
