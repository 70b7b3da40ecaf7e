------------------------- MODULE PaymentServerProofs -------------------------
(***************************************************************************)
(* PaymentServer for any number of handlers, any balances, capacity,       *)
(* prices and keysets: the closed record agrees with the mint, a settled   *)
(* channel is not Open, only authorized payments are stored or executed,   *)
(* and a served payment is kept.                                           *)
(*                                                                         *)
(* The inductive invariant is those four, TypeOK and HandlerView: a step   *)
(* of one handler uses what it read several steps ago, so the invariant    *)
(* has to say what of that is still true (View).  View survives the steps  *)
(* of the others because the store and the mint only move forward (the     *)
(* predicate Forward).                                                     *)
(*                                                                         *)
(* Behind one lock a handler's read is as good as new: the usage is        *)
(* covered, a unilateral close settles the best payment, and the record of *)
(* a closing channel is the one the mint settles.                          *)
(***************************************************************************)
EXTENDS PaymentServer, ReceiverStoreProofs

(* The values a handler needs at a step are there: its payment, the stored
   payment it is going to read again, the keyset it submits with, and a try
   left for the mint. *)
Local(h) ==
    /\ pc[h] \notin {"idle", "execute"} => pay[h] \in Payment
    /\ (pc[h] = "reread" \/ (pc[h] = "prepare" /\ kind[h] # "cooperative"))
          => payment # None
    /\ pc[h] \in {"submit", "reply"} => ks[h] \in Keysets
    /\ pc[h] \notin {"reply", "finish", "mark_closed"} => tries[h] <= 1

TypeInv == TypeOK /\ \A h \in Handlers : Local(h)

(* What a refresh of the keyset cache stores are keysets of the mint. *)
LEMMA RefreshedKeysets ==
    ASSUME cached \subseteq Keysets, NEW c \in refreshed
    PROVE  c \subseteq Keysets
  BY Zenon DEF refreshed, active_keysets

(* Every step keeps the types, and gives a handler what its next step needs. *)
LEMMA TypeStep ==
    ASSUME TypeInv, [Next]_vars
    PROVE  TypeInv'
<1> USE StoreAssumption, ServerAssumption
    DEF TypeInv, TypeOK, StoreTypeOK, Local, Labels, RequestKinds
<1>1. ASSUME NEW h \in Handlers, process_payment(h)
      PROVE  TypeInv'
  BY <1>1 DEF process_payment, Begin, StaysPut, storeVars, mintVars
<1>2. ASSUME NEW h \in Handlers, process_first_payment(h)
      PROVE  TypeInv'
  BY <1>2 DEF process_first_payment, Begin, StaysPut, storeVars, mintVars
<1>3. ASSUME NEW h \in Handlers, fund_channel(h)
      PROVE  TypeInv'
  BY <1>3 DEF fund_channel, Begin, StaysPut, storeVars, mintVars
<1>4. ASSUME NEW h \in Handlers, save_funding_step(h)
      PROVE  TypeInv'
  BY <1>4 DEF save_funding_step, Goto, KeepLocals, mintVars, save_funding
<1>5. ASSUME NEW h \in Handlers, first_balance_step(h)
      PROVE  TypeInv'
  BY <1>5 DEF first_balance_step, Goto, KeepLocals, Answer, storeVars,
     mintVars, update_balance
<1>6. ASSUME NEW h \in Handlers, validate_payment(h)
      PROVE  TypeInv'
  BY <1>6 DEF validate_payment, Goto, KeepLocals, Answer, StaysPut, storeVars,
     mintVars
<1>7. ASSUME NEW h \in Handlers, record_payment(h)
      PROVE  TypeInv'
  BY <1>7 DEF record_payment, Goto, KeepLocals, Answer, storeVars, mintVars,
     update_balance
<1>8. ASSUME NEW h \in Handlers, record_usage(h)
      PROVE  TypeInv'
  <2>1. pay[h] \in Payment /\ units[h] \in Nat
    BY <1>8, Zenon DEF record_usage
  <2>2. pay[h].balance \in Nat
    BY <2>1, Zenon DEF Payment
  <2>3. StoreTypeOK' /\ served' \in Nat
    BY <1>8, <2>1, <2>2 DEF record_usage, increment_usage
  <2> QED
    BY <1>8, <2>3 DEF record_usage, Answer, mintVars, increment_usage
<1>9. ASSUME NEW h \in Handlers, first_use_close(h)
      PROVE  TypeInv'
  BY <1>9 DEF first_use_close, Begin, StaysPut, storeVars, mintVars
<1>10. ASSUME NEW h \in Handlers, execute_cooperative_close(h)
      PROVE  TypeInv'
  BY <1>10 DEF execute_cooperative_close, Begin, StaysPut, storeVars, mintVars
<1>11. ASSUME NEW h \in Handlers, execute_unilateral_close(h)
      PROVE  TypeInv'
  BY <1>11 DEF execute_unilateral_close, Begin, StaysPut, storeVars, mintVars
<1>12. ASSUME NEW h \in Handlers, prepare_close_data(h)
      PROVE  TypeInv'
  BY <1>12 DEF prepare_close_data, Goto, KeepLocals, Answer, StaysPut,
     storeVars, mintVars
<1>13. ASSUME NEW h \in Handlers, reread_payment(h)
      PROVE  TypeInv'
  BY <1>13 DEF reread_payment, Goto, StaysPut, storeVars, mintVars
<1>14. ASSUME NEW h \in Handlers, mark_prepared_close_closing(h)
      PROVE  TypeInv'
  BY <1>14 DEF mark_prepared_close_closing, Goto, KeepLocals, Answer,
     storeVars, mintVars, mark_closing
<1>15. ASSUME NEW h \in Handlers, resume_close(h)
      PROVE  TypeInv'
  BY <1>15 DEF resume_close, Begin, StaysPut, storeVars, mintVars
<1>16. ASSUME NEW h \in Handlers, execute_close(h)
      PROVE  TypeInv'
  BY <1>16, RefreshedKeysets DEF execute_close, Goto, storeVars, mintVars,
     get_state
<1>17. ASSUME NEW h \in Handlers, execute_close_fails(h)
      PROVE  TypeInv'
  BY <1>17 DEF execute_close_fails, Answer, StaysPut, storeVars, mintVars
<1>18. ASSUME NEW h \in Handlers, select_keyset(h)
      PROVE  TypeInv'
  BY <1>18 DEF select_keyset, Goto, Answer, storeVars, mintVars, usable
<1>19. ASSUME NEW h \in Handlers, submit_swap(h)
      PROVE  TypeInv'
  BY <1>19 DEF submit_swap, Goto, storeVars, mint_answers, Spend
<1>20. ASSUME NEW h \in Handlers, receive_answer(h)
      PROVE  TypeInv'
  BY <1>20 DEF receive_answer, Goto, KeepLocals, Answer, StaysPut, storeVars,
     mintVars
<1>21. ASSUME NEW h \in Handlers, lose_answer(h)
      PROVE  TypeInv'
  BY <1>21 DEF lose_answer, Answer, StaysPut, storeVars, mintVars
<1>22. ASSUME NEW h \in Handlers, refresh_keysets(h)
      PROVE  TypeInv'
  BY <1>22, RefreshedKeysets DEF refresh_keysets, Goto, KeepLocals, storeVars,
     mintVars
<1>23. ASSUME NEW h \in Handlers, refresh_failed(h)
      PROVE  TypeInv'
  BY <1>23 DEF refresh_failed, Goto, KeepLocals, StaysPut, storeVars, mintVars
<1>24. ASSUME NEW h \in Handlers, recover_close(h)
      PROVE  TypeInv'
  BY <1>24 DEF recover_close, Begin, StaysPut, storeVars, mintVars, get_state
<1>25. ASSUME NEW h \in Handlers, restore_close(h)
      PROVE  TypeInv'
  <2>1. pc[h] = "restore" /\ ((Goto(h, "finish") /\ KeepLocals) \/ Answer(h)) /\ StaysPut
    BY <1>25, Zenon DEF restore_close
  <2>2. CASE Goto(h, "finish") /\ KeepLocals
    BY <2>1, <2>2 DEF Goto, KeepLocals, StaysPut, storeVars, mintVars
  <2>3. CASE Answer(h)
    BY <2>1, <2>3 DEF Answer, StaysPut, storeVars, mintVars
  <2> QED
    BY <2>1, <2>2, <2>3, Zenon
<1>26. ASSUME NEW h \in Handlers, finish_close(h)
      PROVE  TypeInv'
  BY <1>26 DEF finish_close, Goto, KeepLocals, Answer, StaysPut, storeVars,
     mintVars
<1>27. ASSUME NEW h \in Handlers, mark_completed_close(h)
      PROVE  TypeInv'
  BY <1>27 DEF mark_completed_close, Answer, storeVars, mintVars, mark_closed,
     Payment
<1>28. CASE rotate_keyset
  BY <1>28 DEF rotate_keyset, storeVars, localVars
<1>29. CASE expire_keyset
  BY <1>29 DEF expire_keyset, storeVars, localVars
<1>30. CASE tick
  BY <1>30 DEF tick, storeVars, localVars
<1>31. CASE refund
  BY <1>31, Zenon DEF refund, storeVars, localVars, Spend
<1>32. CASE crash
  BY <1>32 DEF crash, StaysPut, storeVars, mintVars
<1>33. CASE UNCHANGED vars
  BY <1>33 DEF vars, storeVars, mintVars, localVars
<1> QED
  BY <1>1, <1>2, <1>3, <1>4, <1>5, <1>6, <1>7, <1>8, <1>9, <1>10, <1>11,
     <1>12, <1>13, <1>14, <1>15, <1>16, <1>17, <1>18, <1>19, <1>20, <1>21,
     <1>22, <1>23, <1>24, <1>25, <1>26, <1>27, <1>28, <1>29, <1>30, <1>31, <1>32,
     <1>33, Zenon DEF Next, payment_step, close_step

(* The handlers, however many run concurrently, keep every variable of the
   server in its type; in particular no handler submits a third swap (tries),
   submits without a keyset, or works on with a payment it never read. *)
THEOREM ServerTypeCorrect == Spec => []TypeOK
<1>1. Init => TypeInv
  BY StoreAssumption, ServerAssumption
     DEF Init, StoreInit, TypeInv, TypeOK, StoreTypeOK, Local, Labels
<1>2. TypeInv /\ [Next]_vars => TypeInv'
  BY TypeStep, Zenon
<1> QED
  BY <1>1, <1>2, PTL DEF Spec, TypeInv

-----------------------------------------------------------------------------
(* What the steps of all handlers, and of the environment, leave true: closing
   is not undone, the payment is kept or raised, and the mint spends once. *)
Forward ==
    /\ closing # None \/ closed # None => closing' # None \/ closed' # None
    /\ payment # None /\ payment' # payment
          => payment' # None /\ payment'.balance > payment.balance
    /\ spent # None => spent' = spent
    /\ closed # None => closed' = closed

(* Every step of every handler and of the environment is such a step. *)
LEMMA ForwardStep ==
    ASSUME TypeInv, [Next]_vars
    PROVE  Forward
<1> USE StoreAssumption, ServerAssumption
    DEF TypeInv, TypeOK, StoreTypeOK, Local, Forward
<1>1. ASSUME NEW h \in Handlers, process_payment(h)
      PROVE  Forward
  BY <1>1, Zenon DEF process_payment, Begin, StaysPut, storeVars, mintVars
<1>2. ASSUME NEW h \in Handlers, process_first_payment(h)
      PROVE  Forward
  BY <1>2, Zenon DEF process_first_payment, Begin, StaysPut, storeVars, mintVars
<1>3. ASSUME NEW h \in Handlers, fund_channel(h)
      PROVE  Forward
  BY <1>3, Zenon DEF fund_channel, Begin, StaysPut, storeVars, mintVars
<1>4. ASSUME NEW h \in Handlers, save_funding_step(h)
      PROVE  Forward
  BY <1>4, Zenon DEF save_funding_step, Goto, KeepLocals, mintVars, save_funding
<1>5. ASSUME NEW h \in Handlers, first_balance_step(h)
      PROVE  Forward
  BY <1>5 DEF first_balance_step, Goto, KeepLocals, Answer, storeVars,
     mintVars, update_balance
<1>6. ASSUME NEW h \in Handlers, validate_payment(h)
      PROVE  Forward
  BY <1>6, Zenon DEF validate_payment, Goto, KeepLocals, Answer, StaysPut, storeVars,
     mintVars
<1>7. ASSUME NEW h \in Handlers, record_payment(h)
      PROVE  Forward
  BY <1>7 DEF record_payment, Goto, KeepLocals, Answer, storeVars, mintVars,
     update_balance
<1>8. ASSUME NEW h \in Handlers, record_usage(h)
      PROVE  Forward
  BY <1>8, Zenon DEF record_usage, Answer, mintVars, increment_usage
<1>9. ASSUME NEW h \in Handlers, first_use_close(h)
      PROVE  Forward
  BY <1>9, Zenon DEF first_use_close, Begin, StaysPut, storeVars, mintVars
<1>10. ASSUME NEW h \in Handlers, execute_cooperative_close(h)
      PROVE  Forward
  BY <1>10, Zenon DEF execute_cooperative_close, Begin, StaysPut, storeVars, mintVars
<1>11. ASSUME NEW h \in Handlers, execute_unilateral_close(h)
      PROVE  Forward
  BY <1>11, Zenon DEF execute_unilateral_close, Begin, StaysPut, storeVars, mintVars
<1>12. ASSUME NEW h \in Handlers, prepare_close_data(h)
      PROVE  Forward
  BY <1>12, Zenon DEF prepare_close_data, Goto, KeepLocals, Answer, StaysPut,
     storeVars, mintVars
<1>13. ASSUME NEW h \in Handlers, reread_payment(h)
      PROVE  Forward
  BY <1>13, Zenon DEF reread_payment, Goto, StaysPut, storeVars, mintVars
<1>14. ASSUME NEW h \in Handlers, mark_prepared_close_closing(h)
      PROVE  Forward
  BY <1>14 DEF mark_prepared_close_closing, Goto, KeepLocals, Answer,
     storeVars, mintVars, mark_closing
<1>15. ASSUME NEW h \in Handlers, resume_close(h)
      PROVE  Forward
  BY <1>15, Zenon DEF resume_close, Begin, StaysPut, storeVars, mintVars
<1>16. ASSUME NEW h \in Handlers, execute_close(h)
      PROVE  Forward
  BY <1>16, Zenon DEF execute_close, Goto, storeVars, mintVars, get_state
<1>17. ASSUME NEW h \in Handlers, execute_close_fails(h)
      PROVE  Forward
  BY <1>17, Zenon DEF execute_close_fails, Answer, StaysPut, storeVars, mintVars
<1>18. ASSUME NEW h \in Handlers, select_keyset(h)
      PROVE  Forward
  BY <1>18, Zenon DEF select_keyset, Goto, Answer, storeVars, mintVars, usable
<1>19. ASSUME NEW h \in Handlers, submit_swap(h)
      PROVE  Forward
  BY <1>19, Zenon DEF submit_swap, Goto, storeVars, mint_answers, Spend
<1>20. ASSUME NEW h \in Handlers, receive_answer(h)
      PROVE  Forward
  BY <1>20, Zenon DEF receive_answer, Goto, KeepLocals, Answer, StaysPut, storeVars,
     mintVars
<1>21. ASSUME NEW h \in Handlers, lose_answer(h)
      PROVE  Forward
  BY <1>21, Zenon DEF lose_answer, Answer, StaysPut, storeVars, mintVars
<1>22. ASSUME NEW h \in Handlers, refresh_keysets(h)
      PROVE  Forward
  BY <1>22, Zenon DEF refresh_keysets, Goto, KeepLocals, storeVars, mintVars
<1>23. ASSUME NEW h \in Handlers, refresh_failed(h)
      PROVE  Forward
  BY <1>23, Zenon DEF refresh_failed, Goto, KeepLocals, StaysPut, storeVars, mintVars
<1>24. ASSUME NEW h \in Handlers, recover_close(h)
      PROVE  Forward
  BY <1>24, Zenon DEF recover_close, Begin, StaysPut, storeVars, mintVars
<1>25. ASSUME NEW h \in Handlers, restore_close(h)
      PROVE  Forward
  BY <1>25, Zenon DEF restore_close, Goto, KeepLocals, Answer, StaysPut, storeVars,
     mintVars
<1>26. ASSUME NEW h \in Handlers, finish_close(h)
      PROVE  Forward
  BY <1>26, Zenon DEF finish_close, Goto, KeepLocals, Answer, StaysPut, storeVars,
     mintVars
<1>27. ASSUME NEW h \in Handlers, mark_completed_close(h)
      PROVE  Forward
  <2>1. pay[h].balance \in Balances
    BY <1>27, Zenon DEF mark_completed_close, Payment
  <2>2. closed' # None \/ UNCHANGED storeVars
    BY <1>27, <2>1, Zenon DEF mark_completed_close, mark_closed
  <2> QED
    BY <1>27, <2>2, Zenon DEF mark_completed_close, storeVars, mintVars, mark_closed,
       mark_closed_ok
<1>28. CASE rotate_keyset
  BY <1>28, Zenon DEF rotate_keyset, storeVars, localVars
<1>29. CASE expire_keyset
  BY <1>29, Zenon DEF expire_keyset, storeVars, localVars
<1>30. CASE tick
  BY <1>30, Zenon DEF tick, storeVars, localVars
<1>31. CASE refund
  BY <1>31, Zenon DEF refund, storeVars, localVars, Spend
<1>32. CASE crash
  BY <1>32, Zenon DEF crash, StaysPut, storeVars, mintVars
<1>33. CASE UNCHANGED vars
  BY <1>33, Zenon DEF vars, storeVars, mintVars, localVars
<1> QED
  BY <1>1, <1>2, <1>3, <1>4, <1>5, <1>6, <1>7, <1>8, <1>9, <1>10, <1>11,
     <1>12, <1>13, <1>14, <1>15, <1>16, <1>17, <1>18, <1>19, <1>20, <1>21,
     <1>22, <1>23, <1>24, <1>25, <1>26, <1>27, <1>28, <1>29, <1>30, <1>31, <1>32,
     <1>33, Zenon DEF Next, payment_step, close_step
-----------------------------------------------------------------------------
(* The balances and signatures of the payments at hand. *)
LEMMA BalancesAreNumbers ==
    ASSUME TypeOK
    PROVE  /\ payment # None => payment.balance \in Nat
           /\ \A h \in Handlers : pay[h] \in Payment => pay[h].balance \in Nat
  BY StoreAssumption, Zenon DEF TypeOK, StoreTypeOK, Payment

(* The part of the inductive invariant about the store and the mint. *)
Global ==
    ClosedMatchesMint /\ SettledChannelNotOpen /\ CloseAuthorized /\ ServedPaymentKept

(* The inductive invariant. *)
IInv == TypeInv /\ HandlerView /\ Global

(* The handlers other than h stay where they are. *)
OthersWait(h) ==
    \A g \in Handlers \ {h} :
        pc'[g] = pc[g] /\ pay'[g] = pay[g] /\ answer'[g] = answer[g]

(* What a handler relies on stays true while it waits. *)
LEMMA ViewKept ==
    ASSUME TypeInv, TypeInv', Forward, NEW g \in Handlers, View(g),
           pc'[g] = pc[g], pay'[g] = pay[g], answer'[g] = answer[g]
    PROVE  View(g)'
<1>1. get_state \in {"Closing", "Closed"} => (get_state \in {"Closing", "Closed"})'
  BY Zenon DEF Forward, get_state
<1>2. SettledAtMint => SettledAtMint' /\ spent' = spent
  BY Zenon DEF Forward, SettledAtMint
<1>3. ASSUME pc[g] = "usage"
      PROVE  payment' # None /\ payment'.balance >= pay[g].balance
  <2>1. payment # None /\ payment.balance >= pay[g].balance
    BY <1>3, Zenon DEF View
  <2>2. payment' # None /\ payment'.balance \in Nat
    BY <2>1, StoreAssumption, Zenon DEF Forward, TypeInv, TypeOK, StoreTypeOK, Payment
  <2>3. payment.balance \in Nat /\ pay[g].balance \in Nat
    BY <1>3, <2>1, BalancesAreNumbers, Zenon DEF TypeInv, Local
  <2> QED
    BY <2>1, <2>2, <2>3 DEF Forward
<1> QED
  BY <1>1, <1>2, <1>3, Zenon DEF View, Authorized, Executing

(* update_balance leaves a payment that is no lower than the one it was given
   and than the one that was there. *)
LEMMA BalanceRecorded ==
    ASSUME TypeOK, ServedPaymentKept, NEW p \in Payment, update_balance(p),
           served' = served
    PROVE  /\ payment' # None /\ payment' \in {p, payment}
           /\ payment'.balance >= p.balance
           /\ ServedPaymentKept'
<1>1. p # None /\ p.balance \in Nat
  BY StoreAssumption, Zenon DEF Payment
<1>2. payment # None => payment.balance \in Nat
  BY BalancesAreNumbers, Zenon
<1>3. payment' = p \/ (payment # None /\ payment' = payment /\ ~(p.balance > payment.balance))
  BY Zenon DEF update_balance
<1> QED
  BY <1>1, <1>2, <1>3 DEF ServedPaymentKept, TypeOK, update_balance

(* The invariants are about the store, the spend and the answered payments. *)
LEMMA GlobalKept ==
    ASSUME Global, UNCHANGED <<storeVars, spent, served>>
    PROVE  Global'
  BY Zenon DEF Global, ClosedMatchesMint, SettledChannelNotOpen, CloseAuthorized,
         Authorized, ServedPaymentKept, SettledAtMint, get_state, storeVars

(* A step of a handler keeps its own view and the invariants, and leaves the
   other handlers where they are. *)
LEMMA HandlerStep ==
    ASSUME IInv, NEW h \in Handlers, payment_step(h) \/ close_step(h)
    PROVE  View(h)' /\ OthersWait(h) /\ Global'
<1> DEFINE
    Moves == View(h)' /\ OthersWait(h)
<1>a. /\ pc \in [Handlers -> Labels]
      /\ pay \in [Handlers -> Payment \cup {None}]
      /\ answer \in [Handlers -> {"signed", "spent", "keyset", None}]
  BY Zenon DEF IInv, TypeInv, TypeOK
<1>b. TypeOK /\ View(h) /\ Local(h) /\ Global
  BY Zenon DEF IInv, TypeInv, HandlerView
<1>1. CASE process_payment(h)
  <2>1. Moves
    BY <1>a, <1>b, <1>1, Zenon DEF process_payment, Begin, View, Executing,
       OthersWait
  <2> QED
    BY <1>b, <1>1, <2>1, GlobalKept, Zenon DEF process_payment, StaysPut, mintVars
<1>2. CASE process_first_payment(h)
  <2>1. Moves
    BY <1>a, <1>b, <1>2, Zenon DEF process_first_payment, Begin,
       validate_new_channel_funding, verify_signature, Authorized, View,
       Executing, OthersWait
  <2> QED
    BY <1>b, <1>2, <2>1, GlobalKept, Zenon DEF process_first_payment, StaysPut,
       mintVars
<1>3. CASE fund_channel(h)
  <2>1. Moves
    BY <1>a, <1>b, <1>3, Zenon DEF fund_channel, Begin, validate_new_channel_funding,
       verify_signature, Authorized, View, Executing, OthersWait
  <2> QED
    BY <1>b, <1>3, <2>1, GlobalKept, Zenon DEF fund_channel, StaysPut, mintVars
<1>4. CASE save_funding_step(h)
  <2>1. Moves
    BY <1>a, <1>b, <1>4, Zenon DEF save_funding_step, Goto, KeepLocals, View,
       Executing, Authorized, OthersWait
  <2>2. UNCHANGED <<payment, closing, closed, spent, served>>
    BY <1>4, Zenon DEF save_funding_step, save_funding, mintVars
  <2> QED
    BY <1>b, <2>1, <2>2, Zenon DEF Global, ClosedMatchesMint, SettledChannelNotOpen,
       CloseAuthorized, Authorized, ServedPaymentKept, SettledAtMint, get_state
<1>5. CASE first_balance_step(h)
  <2>1. pay[h] \in Payment /\ Authorized(pay[h])
    BY <1>b, <1>5, Zenon DEF first_balance_step, Local, View
  <2>2. Moves
    BY <1>a, <1>5, Zenon DEF first_balance_step, Goto, KeepLocals, Answer, View, Executing, OthersWait
  <2>3. Global'
    <3>1. CASE update_balance_ok
      <4>1. payment' # None /\ payment' \in {pay[h], payment} /\ ServedPaymentKept'
        BY <1>b, <1>5, <2>1, <3>1, BalanceRecorded, Zenon DEF first_balance_step, Global
      <4>2. UNCHANGED <<funding, closing, closed, spent>>
        BY <1>5, <3>1, Zenon DEF first_balance_step, update_balance, mintVars
      <4> QED
        BY <1>b, <2>1, <4>1, <4>2, Zenon DEF Global, ClosedMatchesMint,
           SettledChannelNotOpen, CloseAuthorized, Authorized, SettledAtMint, get_state
    <3>2. CASE ~update_balance_ok
      BY <1>b, <1>5, <3>2, GlobalKept, Zenon DEF first_balance_step, mintVars
    <3> QED
      BY <3>1, <3>2, Zenon
  <2> QED
    BY <2>2, <2>3, Zenon
<1>6. CASE validate_payment(h)
  <2>1. Moves
    BY <1>a, <1>b, <1>6 DEF validate_payment, Goto, KeepLocals, Answer,
       verify_signature, Authorized, View, Executing, OthersWait
  <2> QED
    BY <1>b, <1>6, <2>1, GlobalKept, Zenon DEF validate_payment, StaysPut, mintVars
<1>7. CASE record_payment(h)
  <2>1. pay[h] \in Payment /\ Authorized(pay[h])
    BY <1>b, <1>7, Zenon DEF record_payment, Local, View
  <2>2. CASE update_balance_ok
    <3>1. /\ payment' # None /\ payment' \in {pay[h], payment}
          /\ payment'.balance >= pay[h].balance /\ ServedPaymentKept'
      BY <1>b, <1>7, <2>1, <2>2, BalanceRecorded, Zenon DEF record_payment, Global
    <3>2. UNCHANGED <<funding, closing, closed, spent>>
      BY <1>7, <2>2, Zenon DEF record_payment, update_balance, mintVars
    <3>3. Moves
      BY <1>a, <1>7, <2>2, <3>1, Zenon DEF record_payment, Goto, KeepLocals, View,
         Executing, OthersWait
    <3> QED
      BY <1>b, <2>1, <3>1, <3>2, <3>3, Zenon DEF Global, ClosedMatchesMint,
         SettledChannelNotOpen, CloseAuthorized, Authorized, SettledAtMint, get_state
  <2>3. CASE ~update_balance_ok
    <3>1. Moves
      BY <1>a, <1>7, <2>3, Zenon DEF record_payment, Answer, View, Executing, OthersWait
    <3> QED
      BY <1>b, <1>7, <2>3, <3>1, GlobalKept, Zenon DEF record_payment, mintVars
  <2> QED
    BY <2>2, <2>3, Zenon
<1>8. CASE record_usage(h)
  <2>1. payment # None /\ payment.balance >= pay[h].balance
    BY <1>b, <1>8, Zenon DEF record_usage, View
  <2>2. ServedPaymentKept'
    BY <1>b, <1>8, <2>1, Zenon DEF record_usage, increment_usage, Global, ServedPaymentKept
  <2>3. UNCHANGED <<funding, payment, closing, closed, spent>>
    BY <1>8, Zenon DEF record_usage, increment_usage, mintVars
  <2>4. Moves
    BY <1>a, <1>8, Zenon DEF record_usage, Answer, View, Executing, OthersWait
  <2> QED
    BY <1>b, <2>2, <2>3, <2>4, Zenon DEF Global, ClosedMatchesMint,
       SettledChannelNotOpen, CloseAuthorized, Authorized, SettledAtMint, get_state
<1>9. CASE first_use_close(h)
  <2>1. Moves
    BY <1>a, <1>b, <1>9, Zenon DEF first_use_close, Begin,
       validate_new_channel_funding, verify_signature, Authorized, View,
       Executing, OthersWait
  <2> QED
    BY <1>b, <1>9, <2>1, GlobalKept, Zenon DEF first_use_close, StaysPut, mintVars
<1>10. CASE execute_cooperative_close(h)
  <2>1. Moves
    BY <1>a, <1>b, <1>10, Zenon DEF execute_cooperative_close, Begin, View,
       Executing, OthersWait
  <2> QED
    BY <1>b, <1>10, <2>1, GlobalKept, Zenon DEF execute_cooperative_close, StaysPut,
       mintVars
<1>11. CASE execute_unilateral_close(h)
  <2>1. Moves
    BY <1>a, <1>b, <1>11, Zenon DEF execute_unilateral_close, Begin, View, Executing,
       OthersWait
  <2> QED
    BY <1>b, <1>11, <2>1, GlobalKept, Zenon DEF execute_unilateral_close, StaysPut,
       mintVars
<1>12. CASE prepare_close_data(h)
  <2>1. Moves
    BY <1>a, <1>b, <1>12 DEF prepare_close_data, Goto, KeepLocals, Answer,
       verify_signature, Authorized, View, Executing, OthersWait
  <2> QED
    BY <1>b, <1>12, <2>1, GlobalKept, Zenon DEF prepare_close_data, StaysPut,
       mintVars
<1>13. CASE reread_payment(h)
  <2>1. Moves
    BY <1>a, <1>b, <1>13, Zenon DEF reread_payment, Goto, Local, Global,
       CloseAuthorized, Authorized, View, Executing, OthersWait
  <2> QED
    BY <1>b, <1>13, <2>1, GlobalKept, Zenon DEF reread_payment, StaysPut, mintVars
<1>14. CASE mark_prepared_close_closing(h)
  <2>1. pay[h] \in Payment /\ Authorized(pay[h])
    BY <1>b, <1>14, Zenon DEF mark_prepared_close_closing, Local, View
  <2>2. Moves
    BY <1>a, <1>14, Zenon DEF mark_prepared_close_closing, Goto, KeepLocals, Answer,
       View, Executing, OthersWait
  <2>3. CASE mark_closing_ok
    <3>1. closing' = pay[h] /\ closing' # None
          /\ UNCHANGED <<funding, payment, closed, spent, served>>
      BY <1>14, <2>1, <2>3, StoreAssumption, Zenon DEF mark_prepared_close_closing,
         mark_closing, mintVars
    <3> QED
      BY <1>b, <2>1, <2>2, <3>1, Zenon DEF Global, ClosedMatchesMint, Authorized,
         SettledChannelNotOpen, CloseAuthorized, ServedPaymentKept,
         SettledAtMint, get_state
  <2>4. CASE ~mark_closing_ok
    BY <1>b, <1>14, <2>2, <2>4, GlobalKept, Zenon DEF mark_prepared_close_closing, mintVars
  <2> QED
    BY <2>3, <2>4, Zenon
<1>15. CASE resume_close(h)
  <2>1. Moves
    BY <1>a, <1>b, <1>15, Zenon DEF resume_close, Begin, View, Executing, OthersWait
  <2> QED
    BY <1>b, <1>15, <2>1, GlobalKept, Zenon DEF resume_close, StaysPut, mintVars
<1>16. CASE execute_close(h)
  <2>1. Moves
    BY <1>a, <1>b, <1>16, Zenon DEF execute_close, Goto, get_state, Global,
       CloseAuthorized, storeVars, mintVars, get_state, Authorized,
       SettledAtMint, View, Executing, OthersWait
  <2> QED
    BY <1>b, <1>16, <2>1, GlobalKept, Zenon DEF execute_close, mintVars
<1>17. CASE execute_close_fails(h)
  <2>1. Moves
    BY <1>a, <1>b, <1>17, Zenon DEF execute_close_fails, Answer, View, Executing,
       OthersWait
  <2> QED
    BY <1>b, <1>17, <2>1, GlobalKept, Zenon DEF execute_close_fails, StaysPut,
       mintVars
<1>18. CASE select_keyset(h)
  <2>1. Moves
    BY <1>a, <1>b, <1>18, Zenon DEF select_keyset, Goto, Answer, storeVars, mintVars,
       get_state, Authorized, SettledAtMint, View, Executing, OthersWait
  <2> QED
    BY <1>b, <1>18, <2>1, GlobalKept, Zenon DEF select_keyset, mintVars
<1>19. CASE submit_swap(h)
  <2>1. PICK a \in mint_answers(ks[h]) :
             /\ answer' = [answer EXCEPT ![h] = a]
             /\ spent' = IF a = "signed"
                         THEN [by |-> "close", payment |-> pay[h], ks |-> ks[h]]
                         ELSE spent
    BY <1>19, Zenon DEF submit_swap
  <2>2. /\ Authorized(pay[h]) /\ get_state \in {"Closing", "Closed"}
        /\ pay[h] \in Payment /\ ks[h] \in Keysets
    BY <1>b, <1>19, Zenon DEF submit_swap, View, Executing, Local
  <2>3. /\ pc' = [pc EXCEPT ![h] = "reply"] /\ pay' = pay
        /\ UNCHANGED <<storeVars, served>>
    BY <1>19, Zenon DEF submit_swap, Goto
  <2>4. (get_state \in {"Closing", "Closed"})'
    BY <2>2, <2>3, Zenon DEF get_state, storeVars
  <2>5. OthersWait(h)
    BY <1>a, <2>1, <2>3, Zenon DEF OthersWait
  <2>6. CASE a = "signed"
    <3>1. [by |-> "close", payment |-> pay[h], ks |-> ks[h]] \in Spend
      BY <2>2, Zenon DEF Spend
    <3>2. spent' # None /\ spent'.by = "close" /\ spent'.payment = pay[h]
      BY <2>1, <2>6, <3>1, SpendAssumption, Zenon
    <3>3. closed = None
      BY <1>b, <2>6, Zenon DEF mint_answers, Global, ClosedMatchesMint, SettledAtMint
    <3>4. View(h)'
      BY <1>a, <2>2, <2>3, <2>4, <3>2, Zenon DEF View, Executing, Authorized, SettledAtMint
    <3> QED
      BY <1>b, <2>2, <2>3, <2>4, <2>5, <3>2, <3>3, <3>4, Zenon DEF Global, ClosedMatchesMint,
         SettledChannelNotOpen, CloseAuthorized, Authorized, ServedPaymentKept,
         SettledAtMint, storeVars
  <2>7. CASE a # "signed"
    <3>1. View(h)'
      BY <1>a, <2>1, <2>2, <2>3, <2>4, <2>7, Zenon DEF View, Executing, Authorized
    <3> QED
      BY <1>b, <2>1, <2>3, <2>5, <2>7, <3>1, GlobalKept, Zenon
  <2> QED
    BY <2>6, <2>7, Zenon
<1>20. CASE receive_answer(h)
  <2>1. Moves
    BY <1>a, <1>b, <1>20 DEF receive_answer, Goto, KeepLocals, Answer,
       StaysPut, storeVars, mintVars, get_state, Authorized, SettledAtMint,
       View, Executing, OthersWait
  <2> QED
    BY <1>b, <1>20, <2>1, GlobalKept, Zenon DEF receive_answer, StaysPut, mintVars
<1>21. CASE lose_answer(h)
  <2>1. Moves
    BY <1>a, <1>b, <1>21, Zenon DEF lose_answer, Answer, View, Executing, OthersWait
  <2> QED
    BY <1>b, <1>21, <2>1, GlobalKept, Zenon DEF lose_answer, StaysPut, mintVars
<1>22. CASE refresh_keysets(h)
  <2>1. Moves
    BY <1>a, <1>b, <1>22, Zenon DEF refresh_keysets, Goto, KeepLocals, storeVars,
       mintVars, get_state, Authorized, SettledAtMint, View, Executing,
       OthersWait
  <2> QED
    BY <1>b, <1>22, <2>1, GlobalKept, Zenon DEF refresh_keysets, mintVars
<1>23. CASE refresh_failed(h)
  <2>1. Moves
    BY <1>a, <1>b, <1>23, Zenon DEF refresh_failed, Goto, KeepLocals, StaysPut,
       storeVars, mintVars, get_state, Authorized, SettledAtMint, View,
       Executing, OthersWait
  <2> QED
    BY <1>b, <1>23, <2>1, GlobalKept, Zenon DEF refresh_failed, StaysPut, mintVars
<1>24. CASE recover_close(h)
  <2>1. Moves
    BY <1>a, <1>b, <1>24, Zenon DEF recover_close, Begin, StaysPut, storeVars,
       mintVars, get_state, Authorized, SettledAtMint, Global,
       CloseAuthorized, View, Executing, OthersWait
  <2> QED
    BY <1>b, <1>24, <2>1, GlobalKept, Zenon DEF recover_close, StaysPut, mintVars
<1>25. CASE restore_close(h)
  <2>1. Moves
    <3>1. CASE pc'[h] = "finish"
      <4>1. PICK a \in attempts :
                spent = [by |-> "close", payment |-> pay[h], ks |-> a.ks]
        BY <1>a, <1>25, <3>1, Zenon DEF restore_close, Answer
      <4>2. pay[h] \in Payment /\ a.ks \in Keysets
        BY <1>b, <1>25, Zenon DEF restore_close, Local, TypeOK
      <4>3. spent \in Spend
        BY <4>1, <4>2, Zenon DEF Spend
      <4>4. SettledAtMint /\ spent.payment = pay[h]
        BY <4>1, <4>3, SpendAssumption, Zenon DEF SettledAtMint
      <4> QED
        BY <1>a, <1>b, <1>25, <3>1, <4>4, Zenon DEF restore_close, Goto, KeepLocals,
           Answer, StaysPut, storeVars, mintVars, get_state, Authorized,
           SettledAtMint, View, Executing, OthersWait
    <3>2. CASE pc'[h] # "finish"
      BY <1>a, <1>25, <3>2 DEF restore_close, Goto, KeepLocals, Answer, View,
         Executing, OthersWait
    <3> QED
      BY <3>1, <3>2, Zenon
  <2> QED
    BY <1>b, <1>25, <2>1, GlobalKept, Zenon DEF restore_close, StaysPut, mintVars
<1>26. CASE finish_close(h)
  <2>1. Moves
    BY <1>a, <1>b, <1>26 DEF finish_close, Goto, KeepLocals, Answer, StaysPut,
       storeVars, mintVars, get_state, Authorized, SettledAtMint, View,
       Executing, OthersWait
  <2> QED
    BY <1>b, <1>26, <2>1, GlobalKept, Zenon DEF finish_close, StaysPut, mintVars
<1>27. CASE mark_completed_close(h)
  <2>1. pay[h] \in Payment /\ SettledAtMint /\ spent.payment = pay[h]
    BY <1>b, <1>27, Zenon DEF mark_completed_close, Local, View
  <2>2. Moves
    BY <1>a, <1>27, Zenon DEF mark_completed_close, Answer, View, Executing, OthersWait
  <2>3. CASE mark_closed_ok
    <3>1. pay[h].balance # None
      BY <2>1, StoreAssumption, Zenon DEF Payment
    <3>2. /\ closed' = pay[h].balance /\ closing' = None
          /\ UNCHANGED <<funding, payment, spent, served>>
      BY <1>27, <2>3, Zenon DEF mark_completed_close, mark_closed, mintVars
    <3> QED
      BY <1>b, <2>1, <2>2, <3>1, <3>2, Zenon DEF Global, ClosedMatchesMint, Authorized,
         SettledChannelNotOpen, CloseAuthorized, ServedPaymentKept,
         SettledAtMint, get_state
  <2>4. CASE ~mark_closed_ok
    BY <1>b, <1>27, <2>2, <2>4, GlobalKept, Zenon DEF mark_completed_close, mintVars
  <2> QED
    BY <2>3, <2>4, Zenon
<1> QED
  BY <1>1, <1>2, <1>3, <1>4, <1>5, <1>6, <1>7, <1>8, <1>9, <1>10, <1>11,
     <1>12, <1>13, <1>14, <1>15, <1>16, <1>17, <1>18, <1>19, <1>20, <1>21,
     <1>22, <1>23, <1>24, <1>25, <1>26, <1>27, Zenon DEF payment_step, close_step

(* A step of the mint, of time, of the sender or a crash keeps the invariants. *)
LEMMA EnvironmentStep ==
    ASSUME IInv, TypeInv', Forward,
           \/ rotate_keyset \/ expire_keyset \/ tick \/ refund \/ crash
           \/ UNCHANGED vars
    PROVE  (HandlerView /\ Global)'
<1>1. CASE rotate_keyset \/ expire_keyset \/ tick \/ UNCHANGED vars
  <2>1. UNCHANGED <<storeVars, spent, served>> /\ UNCHANGED <<pc, pay, answer>>
    BY <1>1, Zenon DEF rotate_keyset, expire_keyset, tick, vars, mintVars, localVars
  <2>2. Global'
    BY <2>1, GlobalKept, Zenon DEF IInv
  <2>3. ASSUME NEW g \in Handlers
        PROVE  View(g)'
    BY <2>1, ViewKept, Zenon DEF IInv, HandlerView
  <2> QED
    BY <2>2, <2>3, Zenon DEF HandlerView
<1>2. CASE refund
  <2>1. UNCHANGED <<storeVars, served>> /\ UNCHANGED <<pc, pay, answer>>
    BY <1>2, Zenon DEF refund, localVars
  <2>2. spent = None /\ spent'.by = "refund"
    BY <1>2, Zenon DEF refund
  <2>3. Global'
    BY <2>1, <2>2, Zenon DEF IInv, Global, ClosedMatchesMint, SettledChannelNotOpen,
       CloseAuthorized, Authorized, ServedPaymentKept, SettledAtMint, storeVars
  <2>4. ASSUME NEW g \in Handlers
        PROVE  View(g)'
    BY <2>1, ViewKept, Zenon DEF IInv, HandlerView
  <2> QED
    BY <2>3, <2>4, Zenon DEF HandlerView
<1>3. CASE crash
  <2>1. UNCHANGED <<storeVars, spent, served>>
    BY <1>3, Zenon DEF crash, StaysPut, mintVars
  <2>2. Global'
    BY <2>1, GlobalKept, Zenon DEF IInv
  <2>3. HandlerView'
    BY <1>3, Zenon DEF crash, HandlerView, View, Executing
  <2> QED
    BY <2>2, <2>3, Zenon
<1> QED
  BY <1>1, <1>2, <1>3, Zenon

(* The invariant is inductive: the handler that moves by HandlerStep, the
   others by ViewKept. *)
LEMMA InductiveStep ==
    ASSUME IInv, [Next]_vars
    PROVE  IInv'
<1>1. TypeInv' /\ Forward
  BY TypeStep, ForwardStep, Zenon DEF IInv
<1>2. ASSUME NEW h \in Handlers, payment_step(h) \/ close_step(h)
      PROVE  (HandlerView /\ Global)'
  <2>1. View(h)' /\ Global' /\ OthersWait(h)
    BY <1>2, HandlerStep, Zenon
  <2>2. ASSUME NEW g \in Handlers \ {h}
        PROVE  View(g)'
    BY <1>1, <2>1, ViewKept, Zenon DEF IInv, HandlerView, OthersWait
  <2> QED
    BY <2>1, <2>2, Zenon DEF HandlerView
<1>3. ASSUME \/ rotate_keyset \/ expire_keyset \/ tick \/ refund \/ crash
             \/ UNCHANGED vars
      PROVE  (HandlerView /\ Global)'
  BY <1>1, <1>3, EnvironmentStep, Zenon
<1> QED
  BY <1>1, <1>2, <1>3, Zenon DEF IInv, Next

(* The inductive invariant of the server holds in every reachable state. *)
THEOREM ServerInductive == Spec => []IInv
<1>1. Init => IInv
  BY StoreAssumption, ServerAssumption
     DEF Init, StoreInit, IInv, TypeInv, TypeOK, StoreTypeOK, Local, Labels,
         HandlerView, View, Executing, Global, ClosedMatchesMint,
         SettledChannelNotOpen, CloseAuthorized, ServedPaymentKept, SettledAtMint
<1> QED
  BY <1>1, InductiveStep, PTL DEF Spec

(* Whatever the handlers interleave, lose and replay, a channel the server has
   as Closed was spent at the mint by a close for exactly the recorded
   balance. *)
THEOREM ClosedRecordIsTrue == Spec => []ClosedMatchesMint
  BY ServerInductive, PTL DEF IInv, Global

(* A channel the mint settled through a close is never Open again, so
   process_payment takes no payment on it. *)
THEOREM NoPaymentAfterSettlement == Spec => []SettledChannelNotOpen
  BY ServerInductive, PTL DEF IInv, Global

(* The sender signed, within the capacity, everything the server stores as
   payment or closing authorization and everything the mint settles. *)
THEOREM OnlyAuthorizedCloses == Spec => []CloseAuthorized
  BY ServerInductive, PTL DEF IInv, Global

(* A payment that was answered after it was recorded is never lost to a lower
   one. *)
THEOREM ServedPaymentsStay == Spec => []ServedPaymentKept
  BY ServerInductive, PTL DEF IInv, Global

(* What a handler read before its last storage or mint call still holds where
   it relies on it. *)
THEOREM HandlerViewsHold == Spec => []HandlerView
  BY ServerInductive, PTL DEF IInv

-----------------------------------------------------------------------------
(* An application that runs one request at a time. *)

OneAtATime == \A g, h \in Handlers : pc[g] # "idle" /\ pc[h] # "idle" => g = h

(* What validate_payment found is still so when the usage is recorded. *)
Due(h) ==
    /\ pc[h] = "record" => pay[h].balance >= amount_due(usage + units[h])
    /\ pc[h] = "usage" =>
          payment # None /\ payment.balance >= amount_due(usage + units[h])

UsageInv == OneAtATime /\ UsageCovered /\ \A h \in Handlers : Due(h)

(* Without cooperative closes, what is marked as closing is the stored payment,
   and what is executed is what is marked. *)
Best(h) ==
    /\ pc[h] # "idle" => kind[h] # "cooperative"
    /\ pc[h] = "mark_closing" => pay[h] = payment
    /\ pc[h] \in Executing /\ closing # None => pay[h] = closing

SettleInv ==
    /\ OneAtATime /\ UnilateralSettlesBest /\ ClosingMatchesMint
    /\ \A h \in Handlers : Best(h)

(* The amount due is a number. *)
LEMMA DueIsNumber ==
    ASSUME NEW u \in Nat
    PROVE  amount_due(u) \in Int
<1>1. u * Price \in Nat /\ Scale \in Nat \ {0}
  BY ServerAssumption
<1> QED
  BY <1>1 DEF amount_due

(* A request begins when no other is running, and goes on alone. *)
LEMMA Alone ==
    ASSUME Serialized = TRUE, IInv, OneAtATime,
           NEW h \in Handlers, payment_step(h) \/ close_step(h)
    PROVE  (\A g \in Handlers \ {h} : pc[g] = "idle" /\ pc'[g] = "idle") /\ OneAtATime'
<1>1. ASSUME payment_step(h)
      PROVE  pc[h] # "idle" \/ Free
  BY <1>1, Zenon DEF payment_step, process_payment, process_first_payment, fund_channel,
     save_funding_step, first_balance_step, validate_payment, record_payment, record_usage
<1>2. ASSUME close_step(h)
      PROVE  pc[h] # "idle" \/ Free
  BY <1>2, Zenon DEF close_step, first_use_close, execute_cooperative_close,
     execute_unilateral_close, prepare_close_data, reread_payment,
     mark_prepared_close_closing, resume_close, execute_close, execute_close_fails,
     select_keyset, submit_swap, receive_answer, lose_answer, refresh_keysets,
     refresh_failed, recover_close, restore_close, finish_close, mark_completed_close
<1>3. \A g \in Handlers \ {h} : pc[g] = "idle"
  BY <1>1, <1>2, Zenon DEF Free, OneAtATime
<1>4. \A g \in Handlers \ {h} : pc'[g] = pc[g]
  BY HandlerStep, Zenon DEF OthersWait
<1> QED
  BY <1>3, <1>4, Zenon DEF OneAtATime

(* A raised payment covers what the lower one covered. *)
LEMMA StillCovered ==
    ASSUME TypeInv, UsageCovered, Forward, TypeInv', usage' = usage
    PROVE  UsageCovered'
<1>1. usage \in Nat /\ amount_due(usage) \in Int
  BY DueIsNumber, Zenon DEF TypeInv, TypeOK, StoreTypeOK
<1>2. /\ payment # None => payment.balance \in Nat
      /\ payment' # None => payment'.balance \in Nat
  BY StoreAssumption, Zenon DEF TypeInv, TypeOK, StoreTypeOK, Payment
<1>3. amount_due(usage)' = amount_due(usage)
  BY Zenon DEF amount_due
<1> QED
  BY <1>1, <1>2, <1>3 DEF UsageCovered, Forward

(* The steps that neither validate nor record a payment. *)
LEMMA UsageElsewhere ==
    ASSUME IInv, NEW h \in Handlers, payment_step(h) \/ close_step(h),
           ~ validate_payment(h), ~ record_payment(h), ~ record_usage(h)
    PROVE  usage' = usage /\ pc'[h] \notin {"record", "usage"}
<1>0. pc \in [Handlers -> Labels]
  BY Zenon DEF IInv, TypeInv, TypeOK
<1> USE <1>0 DEF Goto, Begin, Answer, StaysPut, storeVars
<1>1. CASE payment_step(h)
  BY <1>1, Zenon DEF payment_step, process_payment, process_first_payment, fund_channel,
     save_funding_step, save_funding, first_balance_step, update_balance
<1>2. CASE first_use_close(h) \/ execute_cooperative_close(h) \/ execute_unilateral_close(h)
           \/ prepare_close_data(h) \/ reread_payment(h) \/ mark_prepared_close_closing(h)
  BY <1>2, Zenon DEF first_use_close, execute_cooperative_close, execute_unilateral_close,
     prepare_close_data, reread_payment, mark_prepared_close_closing, mark_closing
<1>3. CASE resume_close(h) \/ execute_close(h) \/ execute_close_fails(h) \/ select_keyset(h)
           \/ submit_swap(h) \/ receive_answer(h)
  BY <1>3, Zenon DEF resume_close, execute_close, execute_close_fails, select_keyset,
     submit_swap, receive_answer
<1>4. CASE lose_answer(h) \/ refresh_keysets(h) \/ refresh_failed(h) \/ recover_close(h)
           \/ restore_close(h) \/ finish_close(h) \/ mark_completed_close(h)
  BY <1>4, Zenon DEF lose_answer, refresh_keysets, refresh_failed, recover_close,
     restore_close, finish_close, mark_completed_close, mark_closed
<1> QED
  BY <1>1, <1>2, <1>3, <1>4, Zenon DEF close_step

(* A step of the request being served keeps the usage covered. *)
LEMMA UsageStep ==
    ASSUME Serialized = TRUE, IInv, UsageInv, [Next]_vars
    PROVE  UsageInv'
<1>0. TypeInv /\ TypeInv' /\ Forward
  BY InductiveStep, ForwardStep, Zenon DEF IInv
<1>1. ASSUME NEW h \in Handlers, payment_step(h) \/ close_step(h)
      PROVE  UsageInv'
  <2>0. /\ \A g \in Handlers \ {h} : pc'[g] = "idle"
        /\ OneAtATime'
    BY <1>1, Alone, Zenon DEF UsageInv
  <2>1. SUFFICES UsageCovered' /\ Due(h)'
    BY <2>0, Zenon DEF UsageInv, Due
  <2>2. /\ pc \in [Handlers -> Labels] /\ pay \in [Handlers -> Payment \cup {None}]
        /\ units \in [Handlers -> Nat] /\ usage \in Nat
        /\ UsageCovered /\ Due(h)
    BY <1>0, Zenon DEF TypeInv, TypeOK, StoreTypeOK, UsageInv
  <2>3. CASE validate_payment(h)
    <3>1. /\ UNCHANGED <<usage, pay, units>> \/ pc'[h] = "idle"
          /\ usage' = usage /\ pc'[h] \in {"record", "idle"}
          /\ pc'[h] = "record" => pay[h].balance >= amount_due(usage + units[h])
      BY <2>2, <2>3, Zenon DEF validate_payment, Goto, KeepLocals, Answer, StaysPut, storeVars
    <3>2. UsageCovered'
      BY <1>0, <2>2, <3>1, StillCovered, Zenon
    <3>3. Due(h)'
      BY <3>1, Zenon DEF Due, amount_due
    <3> QED
      BY <3>2, <3>3, Zenon
  <2>4. CASE record_payment(h)
    <3>1. usage' = usage /\ pc'[h] \in {"usage", "idle"}
      BY <2>2, <2>4, Zenon DEF record_payment, Goto, Answer, storeVars, update_balance
    <3>2. UsageCovered'
      BY <1>0, <2>2, <3>1, StillCovered, Zenon
    <3>3. ASSUME pc'[h] = "usage"
          PROVE  payment' # None /\ payment'.balance >= amount_due(usage + units[h])
      <4>1. update_balance(pay[h]) /\ served' = served
        BY <2>2, <2>4, <3>3, Zenon DEF record_payment, Answer
      <4>2. pay[h] \in Payment /\ pay[h].balance >= amount_due(usage + units[h])
        BY <1>0, <2>2, <2>4, Zenon DEF record_payment, TypeInv, Local, Due
      <4>3. payment' # None /\ payment'.balance >= pay[h].balance
        BY <1>0, <4>1, <4>2, BalanceRecorded, Zenon DEF IInv, TypeInv, Global
      <4>4. payment'.balance \in Nat /\ pay[h].balance \in Nat
        BY <1>0, <4>2, <4>3, StoreAssumption, Zenon DEF TypeInv, TypeOK, StoreTypeOK, Payment
      <4>5. usage + units[h] \in Nat
        BY <2>2
      <4>6. amount_due(usage + units[h]) \in Int
        BY <4>5, DueIsNumber, Zenon
      <4> QED
        BY <4>2, <4>3, <4>4, <4>6
    <3>4. pc'[h] = "usage" => units' = units
      BY <2>2, <2>4, Zenon DEF record_payment, KeepLocals, Answer
    <3>5. Due(h)'
      BY <3>1, <3>3, <3>4, Zenon DEF Due, amount_due
    <3> QED
      BY <3>2, <3>5, Zenon
  <2>5. CASE record_usage(h)
    <3>1. pc'[h] = "idle" /\ usage' = usage + units[h] /\ payment' = payment
      BY <2>2, <2>5, Zenon DEF record_usage, Answer, increment_usage
    <3>2. payment # None /\ payment.balance >= amount_due(usage + units[h])
      BY <2>2, <2>5, Zenon DEF record_usage, Due
    <3>3. UsageCovered'
      BY <3>1, <3>2, Zenon DEF UsageCovered, amount_due
    <3> QED
      BY <3>1, <3>3, Zenon DEF Due
  <2>6. CASE ~ validate_payment(h) /\ ~ record_payment(h) /\ ~ record_usage(h)
    <3>1. usage' = usage /\ pc'[h] \notin {"record", "usage"}
      BY <1>1, <2>6, UsageElsewhere, Zenon
    <3> QED
      BY <1>0, <2>2, <3>1, StillCovered, Zenon DEF Due
  <2> QED
    BY <2>3, <2>4, <2>5, <2>6, Zenon
<1>2. CASE crash
  BY <1>2, Zenon DEF crash, StaysPut, storeVars, UsageInv, OneAtATime, UsageCovered, Due, amount_due
<1>3. CASE rotate_keyset \/ expire_keyset \/ tick \/ refund \/ UNCHANGED vars
  <2>1. UNCHANGED <<storeVars, pc, pay, units>>
    BY <1>3, Zenon DEF rotate_keyset, expire_keyset, tick, refund, vars, localVars
  <2> QED
    BY <2>1, Zenon DEF UsageInv, OneAtATime, UsageCovered, Due, amount_due, storeVars
<1> QED
  BY <1>1, <1>2, <1>3, Zenon DEF Next

(* An application that serves one request at a time, and keeps doing so across
   crashes and restarts, never records more usage than the stored payment
   covers (UsageCovered). *)
THEOREM UsageIsCovered ==
    ASSUME Serialized = TRUE
    PROVE  Spec => []UsageCovered
<1>1. Init => UsageInv
  BY DEF Init, StoreInit, UsageInv, OneAtATime, UsageCovered, Due
<1>2. IInv /\ UsageInv /\ [Next]_vars => UsageInv'
  BY UsageStep, Zenon
<1> QED
  BY <1>1, <1>2, ServerInductive, PTL DEF Spec, UsageInv

(* The steps that neither choose a payment nor write closing or the spend. *)
LEMMA SettleElsewhere ==
    ASSUME IInv, "cooperative" \notin Kinds, NEW h \in Handlers, Best(h),
           payment_step(h) \/ close_step(h),
           ~ first_balance_step(h), ~ record_payment(h), ~ reread_payment(h),
           ~ mark_prepared_close_closing(h), ~ execute_close(h), ~ submit_swap(h),
           ~ recover_close(h), ~ mark_completed_close(h)
    PROVE  Best(h)' /\ UNCHANGED <<payment, closing, spent>>
<1>0. /\ pc \in [Handlers -> Labels] /\ pay \in [Handlers -> Payment \cup {None}]
      /\ kind \in [Handlers -> RequestKinds \cup {None}]
  BY Zenon DEF IInv, TypeInv, TypeOK
<1> USE <1>0 DEF Goto, Begin, Answer, KeepLocals, StaysPut, storeVars, mintVars, Best, Executing
<1>1. CASE process_payment(h) \/ process_first_payment(h) \/ fund_channel(h)
           \/ execute_unilateral_close(h) \/ resume_close(h)
  BY <1>1, ServerAssumption, Zenon DEF process_payment, process_first_payment, fund_channel,
     execute_unilateral_close, resume_close
<1>2. CASE save_funding_step(h) \/ validate_payment(h) \/ record_usage(h)
  BY <1>2, Zenon DEF save_funding_step, save_funding, validate_payment, record_usage, increment_usage
<1>3. CASE first_use_close(h) \/ execute_cooperative_close(h)
  BY <1>3, Zenon DEF first_use_close, execute_cooperative_close
<1>4. CASE prepare_close_data(h)
  BY <1>4, Zenon DEF prepare_close_data
<1>5. CASE execute_close_fails(h) \/ lose_answer(h) \/ refresh_keysets(h) \/ refresh_failed(h)
  BY <1>5, Zenon DEF execute_close_fails, lose_answer, refresh_keysets, refresh_failed
<1>6. CASE select_keyset(h)
  BY <1>6, Zenon DEF select_keyset
<1>7. CASE receive_answer(h) \/ restore_close(h) \/ finish_close(h)
  BY <1>7, Zenon DEF receive_answer, restore_close, finish_close
<1> QED
  BY <1>1, <1>2, <1>3, <1>4, <1>5, <1>6, <1>7, Zenon DEF payment_step, close_step

(* Recording a payment finds the channel Open, with nothing marked as closing. *)
LEMMA PaymentWhileOpen ==
    ASSUME IInv, UnilateralSettlesBest, ClosingMatchesMint, NEW h \in Handlers, Best(h),
           first_balance_step(h) \/ record_payment(h)
    PROVE  Best(h)' /\ UnilateralSettlesBest' /\ ClosingMatchesMint'
<1>0. /\ pc \in [Handlers -> Labels] /\ kind \in [Handlers -> RequestKinds \cup {None}]
  BY Zenon DEF IInv, TypeInv, TypeOK
<1>1. pc'[h] \notin Executing \cup {"mark_closing"} /\ (pc'[h] = "idle" \/ kind'[h] = kind[h])
  BY <1>0, Zenon DEF first_balance_step, record_payment, Goto, Answer, KeepLocals, Executing
<1>2. UNCHANGED <<closing, spent>> /\ (payment' # payment => closing = None)
  BY Zenon DEF first_balance_step, record_payment, update_balance, update_balance_ok,
     get_state, storeVars, mintVars
<1>3. pc[h] # "idle"
  BY Zenon DEF first_balance_step, record_payment
<1> QED
  BY <1>1, <1>2, <1>3, Zenon DEF Best, UnilateralSettlesBest, ClosingMatchesMint, SettledAtMint

(* A unilateral close marks, submits and finishes the stored payment. *)
LEMMA SettleStep ==
    ASSUME Serialized = TRUE, "cooperative" \notin Kinds, IInv, SettleInv, [Next]_vars
    PROVE  SettleInv'
<1> DEFINE Settled == UnilateralSettlesBest /\ ClosingMatchesMint
<1>1. ASSUME NEW h \in Handlers, payment_step(h) \/ close_step(h)
      PROVE  SettleInv'
  <2>0. (\A g \in Handlers \ {h} : pc'[g] = "idle") /\ OneAtATime'
    BY <1>1, Alone, Zenon DEF SettleInv
  <2>1. SUFFICES Best(h)' /\ Settled'
    BY <2>0, Zenon DEF SettleInv, Best, Executing
  <2>2. /\ pc \in [Handlers -> Labels] /\ pay \in [Handlers -> Payment \cup {None}]
        /\ kind \in [Handlers -> RequestKinds \cup {None}]
        /\ Best(h) /\ Settled /\ Local(h) /\ View(h)
        /\ SettledChannelNotOpen
    BY Zenon DEF IInv, TypeInv, TypeOK, SettleInv, HandlerView, Global
  <2>3. CASE first_balance_step(h) \/ record_payment(h)
    BY <2>2, <2>3, PaymentWhileOpen, Zenon
  <2>4. CASE reread_payment(h)
    <3>1. /\ pc[h] = "reread" /\ pc'[h] = "mark_closing" /\ pay'[h] = payment
          /\ UNCHANGED <<payment, closing, spent, kind>>
      BY <2>2, <2>4, Zenon DEF reread_payment, Goto, StaysPut, storeVars, mintVars
    <3> QED
      BY <2>2, <3>1, Zenon DEF Best, Executing, UnilateralSettlesBest, ClosingMatchesMint,
         SettledAtMint
  <2>5. CASE mark_prepared_close_closing(h)
    <3>1. /\ pc[h] = "mark_closing" /\ pay[h] = payment /\ pay[h] \in Payment
          /\ UNCHANGED <<payment, spent>>
      BY <2>2, <2>5, Zenon DEF mark_prepared_close_closing, Best, Local, mark_closing,
         storeVars, mintVars
    <3>2. /\ pc'[h] \in {"execute", "idle"}
          /\ pc'[h] # "idle" => kind' = kind
      BY <2>2, <2>5, Zenon DEF mark_prepared_close_closing, Goto, KeepLocals, Answer
    <3>3. Best(h)'
      BY <2>2, <3>1, <3>2, Zenon DEF Best, Executing
    <3>4. CASE mark_closing_ok
      <4>1. closed = None /\ closing' = payment
        BY <2>5, <3>1, <3>4, Zenon DEF mark_prepared_close_closing, mark_closing, mark_closing_ok
      <4>2. SettledAtMint => closing # None
        BY <2>2, <4>1, Zenon DEF SettledChannelNotOpen, get_state
      <4> QED
        BY <2>2, <3>1, <3>3, <4>1, <4>2, Zenon DEF UnilateralSettlesBest,
           ClosingMatchesMint, SettledAtMint
    <3>5. CASE ~ mark_closing_ok
      <4>1. closing' = closing
        BY <2>5, <3>5, Zenon DEF mark_prepared_close_closing, storeVars
      <4> QED
        BY <2>2, <3>1, <3>3, <4>1, Zenon DEF UnilateralSettlesBest,
           ClosingMatchesMint, SettledAtMint
    <3> QED
      BY <3>4, <3>5, Zenon
  <2>6. CASE execute_close(h) \/ recover_close(h)
    <3>1. /\ pc'[h] \in {"select", "restore"} /\ pay'[h] = closing
          /\ UNCHANGED <<payment, closing, spent>>
      BY <2>2, <2>6, Zenon DEF execute_close, recover_close, Begin, Goto, StaysPut,
         storeVars, mintVars
    <3>2. kind'[h] # "cooperative"
      BY <2>2, <2>6, Zenon DEF execute_close, recover_close, Begin, Best
    <3> QED
      BY <2>2, <3>1, <3>2, Zenon DEF Best, UnilateralSettlesBest, ClosingMatchesMint,
         SettledAtMint
  <2>7. CASE submit_swap(h)
    <3>1. /\ pc[h] = "submit" /\ pc'[h] = "reply"
          /\ UNCHANGED <<payment, closing, pay, kind>>
          /\ \/ spent' = spent
             \/ spent' = [by |-> "close", payment |-> pay[h], ks |-> ks[h]]
      BY <2>2, <2>7, Zenon DEF submit_swap, Goto, storeVars
    <3>2. Best(h)' /\ UnilateralSettlesBest'
      BY <2>2, <3>1, Zenon DEF Best, Executing, UnilateralSettlesBest
    <3>3. closing # None => pay[h] = closing
      BY <2>2, <3>1, Zenon DEF Best, Executing
    <3>4. spent' = spent \/ spent'.payment = pay[h]
      BY <3>1
    <3>5. ClosingMatchesMint'
      BY <2>2, <3>1, <3>3, <3>4, Zenon DEF ClosingMatchesMint, SettledAtMint
    <3> QED
      BY <3>2, <3>5, Zenon
  <2>8. CASE mark_completed_close(h)
    <3>1. /\ pc'[h] = "idle" /\ closing' \in {closing, None}
          /\ UNCHANGED <<payment, spent>>
      BY <2>2, <2>8, Zenon DEF mark_completed_close, Answer, mark_closed, storeVars, mintVars
    <3> QED
      BY <2>2, <3>1, Zenon DEF Best, Executing, UnilateralSettlesBest, ClosingMatchesMint,
         SettledAtMint
  <2>9. CASE /\ ~ first_balance_step(h) /\ ~ record_payment(h) /\ ~ reread_payment(h)
             /\ ~ mark_prepared_close_closing(h) /\ ~ execute_close(h) /\ ~ submit_swap(h)
             /\ ~ recover_close(h) /\ ~ mark_completed_close(h)
    <3>1. Best(h)' /\ UNCHANGED <<payment, closing, spent>>
      BY <1>1, <2>2, <2>9, SettleElsewhere, Zenon
    <3> QED
      BY <2>2, <3>1, Zenon DEF UnilateralSettlesBest, ClosingMatchesMint, SettledAtMint
  <2> QED
    BY <2>3, <2>4, <2>5, <2>6, <2>7, <2>8, <2>9, Zenon
<1>2. CASE crash
  BY <1>2, Zenon DEF crash, StaysPut, storeVars, mintVars, SettleInv, OneAtATime, Best,
     Executing, UnilateralSettlesBest, ClosingMatchesMint, SettledAtMint
<1>3. CASE rotate_keyset \/ expire_keyset \/ tick \/ UNCHANGED vars
  <2>1. UNCHANGED <<storeVars, pc, pay, kind, spent>>
    BY <1>3, Zenon DEF rotate_keyset, expire_keyset, tick, vars, localVars, mintVars
  <2> QED
    BY <2>1, Zenon DEF SettleInv, OneAtATime, Best, UnilateralSettlesBest,
       ClosingMatchesMint, SettledAtMint, storeVars
<1>4. CASE refund
  <2>1. UNCHANGED <<storeVars, pc, pay, kind>> /\ spent'.by = "refund"
    BY <1>4, Zenon DEF refund, localVars
  <2> QED
    BY <2>1, Zenon DEF SettleInv, OneAtATime, Best, UnilateralSettlesBest,
       ClosingMatchesMint, SettledAtMint, storeVars
<1> QED
  BY <1>1, <1>2, <1>3, <1>4, Zenon DEF Next

(* The invariant of unilateral closes, one request at a time. *)
LEMMA SettleAlways ==
    ASSUME Serialized = TRUE, "cooperative" \notin Kinds
    PROVE  Spec => []SettleInv
<1>1. Init => SettleInv
  BY Zenon DEF Init, StoreInit, SettleInv, OneAtATime, Best, Executing,
     UnilateralSettlesBest, ClosingMatchesMint
<1>2. IInv /\ SettleInv /\ [Next]_vars => SettleInv'
  BY SettleStep, Zenon
<1> QED
  BY <1>1, <1>2, ServerInductive, PTL DEF Spec

(* Where only unilateral closes are run, one request at a time, a close settles
   the best payment the server holds (UnilateralSettlesBest). *)
THEOREM ClosesSettleBest ==
    ASSUME Serialized = TRUE, "cooperative" \notin Kinds
    PROVE  Spec => []UnilateralSettlesBest
  BY SettleAlways, PTL DEF SettleInv

(* ... and the stored closing payment stays the one the mint executed, so that
   a replay or a recovery from it can complete the close (ClosingMatchesMint). *)
THEOREM StoredClosingIsMints ==
    ASSUME Serialized = TRUE, "cooperative" \notin Kinds
    PROVE  Spec => []ClosingMatchesMint
  BY SettleAlways, PTL DEF SettleInv

-----------------------------------------------------------------------------
(* The bridge changes its storage only through the operations of the
   SpilmanStorage trait, each of them once per step. *)
LEMMA ServerUsesStore ==
    ASSUME TypeInv, [Next]_vars
    PROVE  StoreNext \/ UNCHANGED storeVars \/ \E u \in Nat : increment_usage(u)
<1>0. \A h \in Handlers : /\ units[h] \in Nat
                          /\ pc[h] \notin {"idle", "execute"} => pay[h] \in Payment
  BY Zenon DEF TypeInv, TypeOK, Local
<1>1. ASSUME NEW h \in Handlers, save_funding_step(h)
      PROVE  SaveFunding
  BY <1>1, Zenon DEF save_funding_step, SaveFunding
<1>2. ASSUME NEW h \in Handlers, first_balance_step(h) \/ record_payment(h)
      PROVE  UpdateBalance \/ UNCHANGED storeVars
  BY <1>0, <1>2, Zenon DEF first_balance_step, record_payment, UpdateBalance
<1>3. ASSUME NEW h \in Handlers, record_usage(h)
      PROVE  \E u \in Nat : increment_usage(u)
  BY <1>0, <1>3, Zenon DEF record_usage
<1>4. ASSUME NEW h \in Handlers, mark_prepared_close_closing(h)
      PROVE  MarkClosing \/ UNCHANGED storeVars
  BY <1>0, <1>4, Zenon DEF mark_prepared_close_closing, MarkClosing
<1>5. ASSUME NEW h \in Handlers, mark_completed_close(h)
      PROVE  MarkClosed \/ UNCHANGED storeVars
  BY <1>0, <1>5, Zenon DEF mark_completed_close, MarkClosed, Payment
<1>6. ASSUME NEW h \in Handlers, payment_step(h),
             ~ save_funding_step(h), ~ first_balance_step(h), ~ record_payment(h),
             ~ record_usage(h)
      PROVE  UNCHANGED storeVars
  BY <1>6, Zenon DEF payment_step, process_payment, process_first_payment, fund_channel,
     validate_payment, StaysPut
<1>7. ASSUME NEW h \in Handlers, close_step(h),
             ~ mark_prepared_close_closing(h), ~ mark_completed_close(h)
      PROVE  UNCHANGED storeVars
  BY <1>7, Zenon DEF close_step, first_use_close, execute_cooperative_close,
     execute_unilateral_close, prepare_close_data, reread_payment, resume_close,
     execute_close, execute_close_fails, select_keyset, submit_swap, receive_answer,
     lose_answer, refresh_keysets, refresh_failed, recover_close, restore_close,
     finish_close, StaysPut
<1>8. ASSUME rotate_keyset \/ expire_keyset \/ tick \/ refund \/ crash \/ UNCHANGED vars
      PROVE  UNCHANGED storeVars
  BY <1>8, Zenon DEF rotate_keyset, expire_keyset, tick, refund, crash, StaysPut, vars
<1> QED
  BY <1>1, <1>2, <1>3, <1>4, <1>5, <1>6, <1>7, <1>8, Zenon DEF Next, StoreNext

(* Whatever the handlers interleave, the channel's lifecycle, its funding, its
   closed record and its recorded payment only move forward (Ratchet). *)
THEOREM ServerRatchets == Spec => Ratchet
<1>1. TypeInv /\ [Next]_vars =>
        [ /\ Rank(get_state') >= Rank(get_state)
          /\ funding # None => funding' = funding
          /\ closed # None => closed' = closed
          /\ payment' # payment =>
                /\ get_state = "Open"
                /\ payment # None => payment'.balance > payment.balance ]_storeVars
  <2> SUFFICES ASSUME TypeInv, [Next]_vars
               PROVE  /\ Rank(get_state') >= Rank(get_state)
                      /\ funding # None => funding' = funding
                      /\ closed # None => closed' = closed
                      /\ payment' # payment =>
                            /\ get_state = "Open"
                            /\ payment # None => payment'.balance > payment.balance
    BY Zenon
  <2>1. CASE [StoreNext]_storeVars
    BY <2>1, RatchetStep, Zenon DEF TypeInv, TypeOK
  <2>2. CASE \E u \in Nat : increment_usage(u)
    BY <2>2 DEF increment_usage, get_state, Rank
  <2> QED
    BY <2>1, <2>2, ServerUsesStore, Zenon
<1>2. Spec => []TypeInv
  BY ServerInductive, PTL DEF IInv
<1> QED
  BY <1>1, <1>2, PTL DEF Spec, Ratchet

(* The bridge records payments and closings only for a channel it has funding
   of (RecordsNeedFunding). *)
THEOREM ServerNeedsFunding == Spec => []RecordsNeedFunding
<1>1. Init => RecordsNeedFunding
  BY DEF Init, StoreInit, RecordsNeedFunding, get_state
<1>2. TypeInv /\ RecordsNeedFunding /\ [Next]_vars => RecordsNeedFunding'
  <2> SUFFICES ASSUME TypeInv, RecordsNeedFunding, [Next]_vars
               PROVE  RecordsNeedFunding'
    BY Zenon
  <2>1. CASE [StoreNext]_storeVars
    BY <2>1, FundingStep, Zenon DEF TypeInv, TypeOK
  <2>2. CASE \E u \in Nat : increment_usage(u)
    BY <2>2, Zenon DEF increment_usage, get_state, RecordsNeedFunding
  <2> QED
    BY <2>1, <2>2, ServerUsesStore, Zenon
<1>3. Spec => []TypeInv
  BY ServerInductive, PTL DEF IInv
<1> QED
  BY <1>1, <1>2, <1>3, PTL DEF Spec
=============================================================================
