------------------------- MODULE ReceiverStoreProofs -------------------------
(***************************************************************************)
(* The receiver's store, for every set of payments, journals and fundings, *)
(* for both backends and for any number of calls.                          *)
(***************************************************************************)
EXTENDS ReceiverStore, TLAPS

(* The store's columns keep their types under every operation of
   SpilmanStorage. *)
LEMMA StoreTypeStep ==
    ASSUME StoreTypeOK, [StoreNext]_storeVars
    PROVE  StoreTypeOK'
<1> USE StoreAssumption DEF StoreTypeOK
<1>1. CASE SaveFunding
  BY <1>1 DEF SaveFunding, save_funding
<1>2. CASE UpdateBalance
  BY <1>2 DEF UpdateBalance, update_balance
<1>3. CASE ComparePayment
  BY <1>3 DEF ComparePayment, compare_payment
<1>4. CASE IncrementUsage
  <2>1. PICK u \in Usages : increment_usage(u)
    BY <1>4 DEF IncrementUsage
  <2>2. u \in Nat
    OBVIOUS
  <2> QED
    BY <2>1, <2>2 DEF increment_usage
<1>5. CASE MarkClosing
  BY <1>5 DEF MarkClosing, mark_closing
<1>6. CASE MarkClosed
  BY <1>6 DEF MarkClosed, mark_closed
<1>7. CASE FreezeClose
  BY <1>7 DEF FreezeClose, freeze_close
<1>8. CASE AdvanceClose
  <2>1. PICK e \in Journals, j \in Journals, a \in Balances \cup {None} :
            advance_close(e, j, a)
    BY <1>8 DEF AdvanceClose
  <2>2. CASE a = None
    BY <2>1, <2>2 DEF advance_close
  <2>3. CASE a # None
    BY <2>1, <2>3 DEF advance_close
  <2> QED
    BY <2>2, <2>3
<1>9. CASE UNCHANGED storeVars
  BY <1>9 DEF storeVars
<1> QED
  BY <1>1, <1>2, <1>3, <1>4, <1>5, <1>6, <1>7, <1>8, <1>9 DEF StoreNext

(* StoreTypeOK holds of every reachable state of the store. *)
THEOREM StoreTypeCorrect == StoreSpec => []StoreTypeOK
<1>1. StoreInit => StoreTypeOK
  BY DEF StoreInit, StoreTypeOK
<1>2. StoreTypeOK /\ [StoreNext]_storeVars => StoreTypeOK'
  BY StoreTypeStep
<1> QED
  BY <1>1, <1>2, PTL DEF StoreSpec

(* One operation keeps a journaled close frozen. *)
LEMMA JournalStep ==
    ASSUME StoreTypeOK, JournalFreezesPayment, [StoreNext]_storeVars
    PROVE  JournalFreezesPayment'
<1> USE StoreAssumption DEF JournalFreezesPayment, get_state
<1>1. CASE SaveFunding
  BY <1>1 DEF SaveFunding, save_funding
<1>2. CASE UpdateBalance
  BY <1>2 DEF UpdateBalance, update_balance, update_balance_ok
<1>3. CASE ComparePayment
  BY <1>3 DEF ComparePayment, compare_payment
<1>4. CASE IncrementUsage
  BY <1>4 DEF IncrementUsage, increment_usage
<1>5. CASE MarkClosing
  BY <1>5 DEF MarkClosing, mark_closing, mark_closing_ok
<1>6. CASE MarkClosed
  BY <1>6 DEF MarkClosed, mark_closed, mark_closed_ok
<1>7. CASE FreezeClose
  BY <1>7 DEF FreezeClose, freeze_close
<1>8. CASE AdvanceClose
  BY <1>8 DEF AdvanceClose, advance_close
<1>9. CASE UNCHANGED storeVars
  BY <1>9 DEF storeVars
<1> QED
  BY <1>1, <1>2, <1>3, <1>4, <1>5, <1>6, <1>7, <1>8, <1>9 DEF StoreNext

(* From freeze_close on, the journaled channel is Closing or Closed, and while
   it is Closing its authorization is exactly the recorded payment. *)
THEOREM JournaledCloseIsFrozen == StoreSpec => []JournalFreezesPayment
<1>1. StoreInit => JournalFreezesPayment
  BY DEF StoreInit, JournalFreezesPayment
<1>2. StoreTypeOK /\ JournalFreezesPayment /\ [StoreNext]_storeVars
        => JournalFreezesPayment'
  BY JournalStep
<1> QED
  BY <1>1, <1>2, StoreTypeCorrect, PTL DEF StoreSpec

(* The conjuncts of Ratchet, for one step. *)
LEMMA RatchetStep ==
    ASSUME StoreTypeOK, [StoreNext]_storeVars
    PROVE  /\ Rank(get_state') >= Rank(get_state)
           /\ funding # None => funding' = funding
           /\ closed # None => closed' = closed
           /\ payment' # payment =>
                 /\ get_state = "Open"
                 /\ payment # None => payment'.balance > payment.balance
<1> USE StoreAssumption DEF get_state, Rank, StoreTypeOK
<1>1. CASE SaveFunding
  BY <1>1 DEF SaveFunding, save_funding
<1>2. CASE UpdateBalance
  BY <1>2 DEF UpdateBalance, update_balance, update_balance_ok
<1>3. CASE ComparePayment
  BY <1>3 DEF ComparePayment, compare_payment
<1>4. CASE IncrementUsage
  BY <1>4 DEF IncrementUsage, increment_usage
<1>5. CASE MarkClosing
  BY <1>5 DEF MarkClosing, mark_closing, mark_closing_ok
<1>6. CASE MarkClosed
  BY <1>6 DEF MarkClosed, mark_closed, mark_closed_ok
<1>7. CASE FreezeClose
  BY <1>7 DEF FreezeClose, freeze_close
<1>8. CASE AdvanceClose
  BY <1>8 DEF AdvanceClose, advance_close
<1>9. CASE UNCHANGED storeVars
  BY <1>9 DEF storeVars
<1> QED
  BY <1>1, <1>2, <1>3, <1>4, <1>5, <1>6, <1>7, <1>8, <1>9 DEF StoreNext

(* The lifecycle only moves forward, funding and the closed record are written
   once, and the payment only grows, and only while the channel is Open. *)
THEOREM StoreRatchets == StoreSpec => Ratchet
<1>1. StoreTypeOK /\ [StoreNext]_storeVars =>
        [ /\ Rank(get_state') >= Rank(get_state)
          /\ funding # None => funding' = funding
          /\ closed # None => closed' = closed
          /\ payment' # payment =>
                /\ get_state = "Open"
                /\ payment # None => payment'.balance > payment.balance ]_storeVars
  BY RatchetStep
<1> QED
  BY <1>1, StoreTypeCorrect, PTL DEF StoreSpec, Ratchet

(* An installed journal fixes the closing authorization. *)
THEOREM StoreFixesJournaledClosing == StoreSpec => JournaledClosingFixed
<1>1. StoreTypeOK /\ [StoreNext]_storeVars =>
        [journal # None /\ get_state' = "Closing" => closing' = closing]_storeVars
  <2> SUFFICES ASSUME StoreTypeOK, StoreNext, journal # None, get_state' = "Closing"
               PROVE  closing' = closing
    BY DEF storeVars
  <2> USE StoreAssumption DEF get_state
  <2>1. CASE SaveFunding \/ UpdateBalance \/ ComparePayment \/ IncrementUsage
    BY <2>1 DEF SaveFunding, save_funding, UpdateBalance, update_balance,
       ComparePayment, compare_payment, IncrementUsage, increment_usage
  <2>2. CASE MarkClosing \/ MarkClosed \/ FreezeClose
    BY <2>2 DEF MarkClosing, mark_closing, mark_closing_ok,
       MarkClosed, mark_closed, mark_closed_ok, FreezeClose, freeze_close
  <2>3. CASE AdvanceClose
    BY <2>3 DEF AdvanceClose, advance_close
  <2> QED
    BY <2>1, <2>2, <2>3 DEF StoreNext
<1> QED
  BY <1>1, StoreTypeCorrect, PTL DEF StoreSpec, JournaledClosingFixed

(* Payments hang on funding in both backends, closings and closed records in
   the SQLite one. *)
LEMMA FundingStep ==
    ASSUME StoreTypeOK, RecordsNeedFunding, [StoreNext]_storeVars
    PROVE  RecordsNeedFunding'
<1> USE StoreAssumption DEF RecordsNeedFunding, get_state, StoreTypeOK
<1>1. CASE SaveFunding
  BY <1>1 DEF SaveFunding, save_funding
<1>2. CASE UpdateBalance
  BY <1>2 DEF UpdateBalance, update_balance, update_balance_ok
<1>3. CASE ComparePayment
  BY <1>3 DEF ComparePayment, compare_payment
<1>4. CASE IncrementUsage
  BY <1>4 DEF IncrementUsage, increment_usage
<1>5. CASE MarkClosing
  BY <1>5 DEF MarkClosing, mark_closing, mark_closing_ok, row_exists
<1>6. CASE MarkClosed
  BY <1>6 DEF MarkClosed, mark_closed, mark_closed_ok, row_exists
<1>7. CASE FreezeClose
  BY <1>7 DEF FreezeClose, freeze_close
<1>8. CASE AdvanceClose
  BY <1>8 DEF AdvanceClose, advance_close
<1>9. CASE UNCHANGED storeVars
  BY <1>9 DEF storeVars
<1> QED
  BY <1>1, <1>2, <1>3, <1>4, <1>5, <1>6, <1>7, <1>8, <1>9 DEF StoreNext

(* mark_closing and mark_closed of the SQLite backend refuse a channel that was
   never funded, and no backend records a payment for one. *)
THEOREM StoreNeedsFunding == StoreSpec => []RecordsNeedFunding
<1>1. StoreInit => RecordsNeedFunding
  BY DEF StoreInit, RecordsNeedFunding, get_state
<1>2. StoreTypeOK /\ RecordsNeedFunding /\ [StoreNext]_storeVars
        => RecordsNeedFunding'
  BY FundingStep
<1> QED
  BY <1>1, <1>2, StoreTypeCorrect, PTL DEF StoreSpec
=============================================================================
