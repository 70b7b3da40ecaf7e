------------------------ MODULE ClientChannelProofs -------------------------
(***************************************************************************)
(* The sender's bridge for any number of concurrent calls, channels and    *)
(* keysets: an input is released only when it is unspent, what the mint    *)
(* issued for a channel is never lost, what is recorded as paid was signed *)
(* against funding, and the change of an opening is kept before the record *)
(* with its secrets goes.                                                  *)
(*                                                                         *)
(* First the client's records by themselves, then that the bridge uses     *)
(* them only through the operations of the ClientStorage trait, then what  *)
(* the calls have read, and the properties.                                *)
(***************************************************************************)
EXTENDS ClientChannel, TLAPS

-----------------------------------------------------------------------------
(* The client's records, for every set of channels, openings and proofs and for
   both backends. *)

(* OnePhase is not inductive by itself: saving an opening for a channel without
   a record must not meet funding left behind by an earlier one. *)
NoLeftovers == \A c \in Channels : state[c] = None => opening[c] = None /\ funding[c] = None

StoreInv == StoreTypeOK /\ OnePhase /\ NoLeftovers

(* Every call of the trait, one channel at a time. *)
LEMMA StoreInvStep == StoreInv /\ [StoreNext]_storeVars => StoreInv'
<1> SUFFICES ASSUME StoreInv, [StoreNext]_storeVars PROVE StoreInv'
    OBVIOUS
<1> USE ClientStoreAssumption DEF StoreInv, StoreTypeOK, OnePhase, NoLeftovers, States
<1>1. CASE SaveOpening
    BY <1>1 DEF SaveOpening, save_opening_from_swap, save_opening_ok
<1>2. CASE SetOpen
    BY <1>2 DEF SetOpen, set_open, set_open_ok
<1>3. CASE SetOpeningFailed
    BY <1>3 DEF SetOpeningFailed, set_opening_failed, set_opening_failed_ok
<1>4. CASE SavePaymentState
    BY <1>4 DEF SavePaymentState, save_payment_state
<1>5. CASE SetClosed
    BY <1>5 DEF SetClosed, set_closed
<1>6. CASE SetClosing
    BY <1>6 DEF SetClosing, set_closing
<1>7. CASE Delete
    BY <1>7 DEF Delete, delete
<1>8. CASE UNCHANGED storeVars
    BY <1>8, Zenon DEF storeVars
<1> QED
    BY <1>1, <1>2, <1>3, <1>4, <1>5, <1>6, <1>7, <1>8, Zenon DEF StoreNext

(* The storage invariant holds under every sequence of calls. *)
LEMMA StoreInvAlways == StoreSpec => []StoreInv
<1>1. StoreInit => StoreInv
    BY ClientStoreAssumption, Zenon
    DEF StoreInit, StoreInv, StoreTypeOK, OnePhase, NoLeftovers, States
<1> QED
    BY <1>1, StoreInvStep, PTL DEF StoreSpec

(* The columns keep their types under every sequence of calls of the
   ClientStorage trait. *)
THEOREM StoreTyped == StoreSpec => []StoreTypeOK
BY StoreInvAlways, PTL DEF StoreInv

(* A record is in one phase, on both backends: save_opening_from_swap never
   meets funding, set_open trades the opening for the funding, and an opening
   state always has the record that recovery reads. *)
THEOREM StoreOnePhase == StoreSpec => []OnePhase
BY StoreInvAlways, PTL DEF StoreInv

(* No call of the trait replaces an opening or the funding of a channel, or
   turns a funded record back into an opening. *)
THEOREM StoreNotOverwritten == StoreSpec => RecordsNotOverwritten
<1> DEFINE Kept(c) ==
        /\ opening[c] # None => opening'[c] \in {opening[c], None}
        /\ funding[c] # None => funding'[c] \in {funding[c], None}
        /\ funding[c] # None => state'[c] \notin {"OpeningFromSwap", "OpeningFailed"}
<1>1. ASSUME StoreInv, StoreNext, NEW c \in Channels PROVE Kept(c)
    <2> USE <1>1, ClientStoreAssumption
        DEF StoreInv, StoreTypeOK, OnePhase, NoLeftovers, States
    <2>1. CASE SaveOpening
        BY <2>1, Zenon DEF SaveOpening, save_opening_from_swap, save_opening_ok
    <2>2. CASE SetOpen
        BY <2>2 DEF SetOpen, set_open, set_open_ok
    <2>3. CASE SetOpeningFailed
        BY <2>3, Zenon DEF SetOpeningFailed, set_opening_failed, set_opening_failed_ok
    <2>4. CASE SavePaymentState
        BY <2>4, Zenon DEF SavePaymentState, save_payment_state
    <2>5. CASE SetClosed
        BY <2>5, Zenon DEF SetClosed, set_closed
    <2>6. CASE SetClosing
        BY <2>6, Zenon DEF SetClosing, set_closing
    <2>7. CASE Delete
        BY <2>7, Zenon DEF Delete, delete
    <2> QED
        BY <1>1, <2>1, <2>2, <2>3, <2>4, <2>5, <2>6, <2>7, Zenon DEF StoreNext
<1>2. StoreInv /\ [StoreNext]_storeVars => [\A c \in Channels : Kept(c)]_storeVars
    BY <1>1, Zenon
<1> QED
    BY <1>2, StoreInvAlways, PTL DEF StoreSpec, RecordsNotOverwritten

(* With the SQLite storage a closed channel stays closed until it is deleted:
   the guards of set_closing and set_open, and the check in
   save_opening_from_swap, keep every other call from leaving Closed. *)
THEOREM SqliteClosedStaysClosed ==
    ASSUME Backend = "sqlite" PROVE StoreSpec => ClosedStaysClosed
<1> DEFINE Stays(c) == state[c] = "Closed" => state'[c] \in {"Closed", None}
<1>1. ASSUME Backend = "sqlite", StoreInv, StoreNext, NEW c \in Channels PROVE Stays(c)
    <2> USE <1>1, ClientStoreAssumption DEF StoreInv, StoreTypeOK, States
    <2>1. CASE SaveOpening
        BY <2>1, Zenon DEF SaveOpening, save_opening_from_swap, save_opening_ok
    <2>2. CASE SetOpen
        BY <2>2, Zenon DEF SetOpen, set_open, set_open_ok
    <2>3. CASE SetOpeningFailed
        BY <2>3, Zenon DEF SetOpeningFailed, set_opening_failed, set_opening_failed_ok
    <2>4. CASE SavePaymentState
        BY <2>4, Zenon DEF SavePaymentState, save_payment_state
    <2>5. CASE SetClosed
        BY <2>5, Zenon DEF SetClosed, set_closed
    <2>6. CASE SetClosing
        BY <2>6, Zenon DEF SetClosing, set_closing
    <2>7. CASE Delete
        BY <2>7, Zenon DEF Delete, delete
    <2> QED
        BY <1>1, <2>1, <2>2, <2>3, <2>4, <2>5, <2>6, <2>7, Zenon DEF StoreNext
<1>2. Backend = "sqlite" => (StoreInv /\ [StoreNext]_storeVars => [\A c \in Channels : Stays(c)]_storeVars)
    BY <1>1, Zenon
<1> QED
    BY <1>2, StoreInvAlways, PTL DEF StoreSpec, ClosedStaysClosed

-----------------------------------------------------------------------------
(* Where a call has chosen its channel, and where it holds funding proofs. *)
Placed == Labels \ {"idle", "prepare", "refresh"}
Holding == {"verify", "restore_change", "mark_open", "deliver"}

(* TypeOK, and what a call has read at each of its program points.  Only an
   opening submits, and what it holds is what the mint issued. *)
Locals ==
    \A t \in Tasks :
        /\ pc[t] \in Placed => chan[t] \in Channels
        /\ pc[t] \in {"fresh", "save"} => prep[t] \in Openings
        /\ pc[t] = "write" => paid[t] \in PaymentState
        /\ pc[t] \in Holding => got[t] \in Proofs /\ got[t] = issued[chan[t]]
AnswersTrue == \A c \in Channels : reply[c] = "signed" => issued[c] # None

TypeInv == StoreInv /\ TypeOK /\ Locals /\ AnswersTrue
-----------------------------------------------------------------------------
(* Calls of the storage as the bridge makes them: a careful application closes
   only channels that it opened. *)
CloseOpened ==
    \E c \in Channels : (Careful => state[c] \in {"Open", "Closing"}) /\ set_closed(c)
StoreCall ==
    \/ SaveOpening \/ SetOpen \/ SetOpeningFailed \/ SavePaymentState
    \/ CloseOpened \/ SetClosing \/ Delete

(* Every step of the bridge is one call of the storage, or none. *)
LEMMA StepOfStore ==
    ASSUME TypeInv, [Next]_vars PROVE [StoreCall]_storeVars
<1> USE DEF TypeInv, Locals, Placed, Holding, Labels, storeVars
<1>1. CASE \E t \in Tasks : open_step(t)
  <2>1. PICK t \in Tasks : open_step(t)
    BY <1>1, Zenon
  <2>2. CASE mark_prepared_open_saved(t)
    BY <2>2, Zenon DEF mark_prepared_open_saved, StoreCall, SaveOpening
  <2>3. CASE mark_prepared_open_rejected(t)
    BY <2>3, Zenon DEF mark_prepared_open_rejected, StoreCall, SetOpeningFailed
  <2>4. CASE mark_completed_open(t)
    BY <2>4, Zenon DEF mark_completed_open, StoreCall, SetOpen
  <2>5. CASE ~ (mark_prepared_open_saved(t) \/ mark_prepared_open_rejected(t)
               \/ mark_completed_open(t))
    BY <2>1, <2>5, Zenon DEF open_step, open_channel, prepare_open_channel, prepare_fails,
       require_fresh_open_submission, submit_prepared_open, receive_answer, lose_answer,
       refresh_keysets, verify_completed_open_matches_restore, deliver_result
  <2> QED
    BY <2>2, <2>3, <2>4, <2>5, Zenon
<1>2. CASE \E t \in Tasks : recovery_step(t)
  BY <1>2, Zenon DEF recovery_step, prepare_open_channel_recovery, restore_funding_proofs,
     restore_change_proofs
<1>3. CASE \E t \in Tasks : record_step(t)
  BY <1>3, Zenon DEF record_step, record_signed_payment, record_payment, StoreCall, SavePaymentState
<1>4. CASE \E c \in Channels : channel_step(c)
  BY <1>4, Zenon DEF channel_step, sign_payment, close_channel, mark_channel_unusable,
     delete_channel, StoreCall, CloseOpened, SetClosing, Delete
<1>5. CASE \/ \E c \in Channels : mint_swap(c)
           \/ spend_elsewhere \/ rotate_keyset \/ expire_keyset \/ crash \/ UNCHANGED vars
  BY <1>5, Zenon DEF mint_swap, spend_elsewhere, rotate_keyset, expire_keyset, crash, vars
<1> QED
  BY <1>1, <1>2, <1>3, <1>4, <1>5, Zenon DEF Next

(* What the bridge makes of its storage is calls of the storage. *)
LEMMA StoreCalls == [StoreCall]_storeVars => [StoreNext]_storeVars
BY Zenon DEF StoreCall, CloseOpened, StoreNext, SetClosed

(* A call that returns forgets what it has read. *)
LEMMA ReturnTypes ==
    ASSUME TypeInv, StoreInv', NEW t \in Tasks, Return(t),
           claim' \in {"free", "busy", "uncertain", "used"}, cache' \subseteq Keysets,
           change' \subseteq Channels, UNCHANGED <<mintVars, signed, dropped>>
    PROVE  TypeInv'
<1> USE DEF TypeInv, mintVars
<1>1. TypeOK'
  BY ClientStoreAssumption, ClientAssumption, Zenon DEF StoreInv, TypeOK, Return, Labels, CallKinds
<1>2. Locals'
  BY Zenon DEF Locals, Return, Placed, Holding, TypeOK
<1> QED
  BY <1>1, <1>2, Zenon DEF AnswersTrue

(* A failing call settles the reservation and returns. *)
LEMMA FailTypes ==
    ASSUME TypeInv, StoreInv', NEW t \in Tasks, FailUnspent(t) \/ FailUncertain(t),
           cache' \subseteq Keysets, UNCHANGED <<mintVars, change, signed, dropped>>
    PROVE  TypeInv'
<1>1. claim' \in {"free", "busy", "uncertain", "used"} /\ change' \subseteq Channels
  BY Zenon DEF FailUnspent, FailUncertain, TypeInv, TypeOK
<1> QED
  BY <1>1, ReturnTypes, Zenon DEF FailUnspent, FailUncertain

(* Types, and what a call has read, over one step of an opening. *)
LEMMA OpenTypes ==
    ASSUME TypeInv, StoreInv', NEW t \in Tasks, open_step(t) PROVE TypeInv'
<1>0. CASE (FailUnspent(t) \/ FailUncertain(t)) /\ UNCHANGED mintVars
           /\ cache' \subseteq Keysets /\ UNCHANGED <<change, signed, dropped>>
  BY <1>0, FailTypes, Zenon
<1> USE ClientStoreAssumption, ClientAssumption
    DEF TypeInv, TypeOK, Locals, AnswersTrue, Placed, Holding, Labels, CallKinds, Replies,
        Goto, KeepLocals, KeepRest, mintVars, appVars, storeVars
<1>1. StoreTypeOK'
  BY Zenon DEF StoreInv
<1>2. CASE \E k \in {"open", "auto", "prepared"} : open_channel(t, k)
  BY <1>1, <1>2 DEF open_channel
<1>3. CASE prepare_open_channel(t)
  BY <1>1, <1>3 DEF prepare_open_channel
<1>4. CASE prepare_fails(t) \/ lose_answer(t)
  BY <1>0, <1>4, Zenon DEF prepare_fails, lose_answer
<1>5. CASE require_fresh_open_submission(t)
  <2>1. CASE get_opening_from_swap(chan[t]) = None
    BY <1>1, <1>5, <2>1 DEF require_fresh_open_submission
  <2>2. CASE get_opening_from_swap(chan[t]) # None
    BY <1>0, <1>5, <2>2, Zenon DEF require_fresh_open_submission
  <2> QED
    BY <2>1, <2>2, Zenon
<1>6. CASE mark_prepared_open_saved(t)
  <2>1. CASE save_opening_ok(chan[t], prep[t])
    BY <1>1, <1>6, <2>1 DEF mark_prepared_open_saved
  <2>2. CASE ~ save_opening_ok(chan[t], prep[t])
    BY <1>0, <1>6, <2>2, Zenon DEF mark_prepared_open_saved
  <2> QED
    BY <2>1, <2>2, Zenon
<1>7. CASE submit_prepared_open(t)
  BY <1>1, <1>7 DEF submit_prepared_open
<1>8. CASE receive_answer(t)
  <2>1. CASE reply[chan[t]] = "spent"
    BY <1>0, <1>8, <2>1, Zenon DEF receive_answer
  <2>2. CASE reply[chan[t]] # "spent"
    BY <1>1, <1>8, <2>2 DEF receive_answer
  <2> QED
    BY <2>1, <2>2, Zenon
<1>9. CASE mark_prepared_open_rejected(t)
  <2>1. CASE set_opening_failed_ok(chan[t]) /\ kind[t] = "auto" /\ retry[t] = None
    BY <1>1, <1>9, <2>1 DEF mark_prepared_open_rejected
  <2>2. CASE ~ (set_opening_failed_ok(chan[t]) /\ kind[t] = "auto" /\ retry[t] = None)
    BY <1>0, <1>9, <2>2, Zenon DEF mark_prepared_open_rejected
  <2> QED
    BY <2>1, <2>2, Zenon
<1>10. CASE refresh_keysets(t)
  <2>1. cache' \subseteq Keysets
    BY <1>10, Zenon DEF refresh_keysets, written, active_keysets
  <2>2. CASE FailUnspent(t)
    BY <1>0, <1>10, <2>1, <2>2, Zenon DEF refresh_keysets
  <2>3. CASE Goto(t, "prepare") /\ KeepLocals /\ UNCHANGED claim
    BY <1>1, <1>10, <2>1, <2>3 DEF refresh_keysets
  <2> QED
    BY <1>10, <2>2, <2>3, Zenon DEF refresh_keysets
<1>11. CASE verify_completed_open_matches_restore(t)
  BY <1>1, <1>11 DEF verify_completed_open_matches_restore
<1>12. CASE mark_completed_open(t)
  <2>1. CASE set_open_ok(chan[t], got[t])
    BY <1>1, <1>12, <2>1 DEF mark_completed_open
  <2>2. CASE ~ set_open_ok(chan[t], got[t])
    BY <1>0, <1>12, <2>2, Zenon DEF mark_completed_open
  <2> QED
    BY <2>1, <2>2, Zenon
<1>13. CASE deliver_result(t)
  BY <1>13, ReturnTypes DEF deliver_result
<1> QED
  BY <1>2, <1>3, <1>4, <1>5, <1>6, <1>7, <1>8, <1>9, <1>10, <1>11, <1>12, <1>13, Zenon
  DEF open_step

(* Types, and what a call has read, over the other steps. *)
LEMMA TypeStep ==
    ASSUME TypeInv, [Next]_vars PROVE TypeInv'
<1>1. StoreInv'
  BY StepOfStore, StoreCalls, StoreInvStep, Zenon DEF TypeInv
<1>2. StoreTypeOK'
  BY <1>1, Zenon DEF StoreInv
<1>3. CASE \E t \in Tasks : open_step(t)
  BY <1>1, <1>3, OpenTypes, Zenon
<1> USE ClientStoreAssumption, ClientAssumption
    DEF TypeInv, TypeOK, Locals, AnswersTrue, Placed, Holding, Labels, CallKinds, Replies,
        Goto, KeepLocals, KeepRest, localVars, mintVars, appVars, storeVars
<1>4. ASSUME NEW t \in Tasks, recovery_step(t) PROVE TypeInv'
  <2>1. CASE \E k \in {"recover", "recover_prepared"} : prepare_open_channel_recovery(t, k)
    BY <1>1, <1>2, <2>1
    DEF prepare_open_channel_recovery, get_opening_from_swap, StoreInv, StoreTypeOK
  <2>2. CASE restore_funding_proofs(t)
    <3>1. CASE issued[chan[t]] # None
      BY <1>1, <1>2, <2>2, <3>1 DEF restore_funding_proofs
    <3>2. CASE issued[chan[t]] = None
      BY <1>1, <2>2, <3>2, FailTypes, Zenon DEF restore_funding_proofs
    <3> QED
      BY <3>1, <3>2, Zenon
  <2>3. CASE restore_change_proofs(t)
    BY <1>1, <1>2, <2>3 DEF restore_change_proofs
  <2> QED
    BY <1>4, <2>1, <2>2, <2>3, Zenon DEF recovery_step
<1>5. ASSUME NEW t \in Tasks, record_step(t) PROVE TypeInv'
  <2>1. CASE record_signed_payment(t)
    <3>1. PICK s \in signed :
            LET n == IF pstate[s.chan] = None THEN 1 ELSE pstate[s.chan].count + 1
            IN /\ n <= MaxCount
               /\ chan' = [chan EXCEPT ![t] = s.chan]
               /\ paid' = [paid EXCEPT ![t] = [balance |-> s.balance, count |-> n]]
      BY <2>1, ZenonT(30) DEF record_signed_payment
    <3> DEFINE n == IF pstate[s.chan] = None THEN 1 ELSE pstate[s.chan].count + 1
    <3>2. s.chan \in Channels /\ s.balance \in Balances
      BY Zenon
    <3>3. n \in 1..MaxCount
      BY <3>1, <3>2 DEF StoreInv, StoreTypeOK, PaymentState
    <3>4. [balance |-> s.balance, count |-> n] \in PaymentState
      BY <3>2, <3>3, Zenon DEF PaymentState
    <3>5. /\ chan' \in [Tasks -> Channels \cup {None}]
          /\ chan'[t] \in Channels
          /\ paid' \in [Tasks -> PaymentState \cup {None}]
          /\ paid'[t] \in PaymentState
      BY <3>1, <3>2, <3>4
    <3> HIDE DEF n
    <3>6. chan' = [chan EXCEPT ![t] = s.chan] /\ paid' = [paid EXCEPT ![t] = paid'[t]]
      BY <3>1 DEF n
    <3> QED
      BY <1>1, <1>2, <2>1, <3>5, <3>6 DEF record_signed_payment
  <2>2. CASE record_payment(t)
    BY <1>1, <2>2, ReturnTypes, Zenon DEF record_payment
  <2> QED
    BY <1>5, <2>1, <2>2, Zenon DEF record_step
<1>6. ASSUME NEW c \in Channels, channel_step(c) PROVE TypeInv'
  <2>1. CASE \E b \in Balances : sign_payment(c, b)
    BY <1>1, <1>2, <2>1 DEF sign_payment
  <2>2. CASE close_channel(c) \/ mark_channel_unusable(c) \/ delete_channel(c)
    BY <1>1, <1>2, <2>2 DEF close_channel, mark_channel_unusable, delete_channel
  <2> QED
    BY <1>6, <2>1, <2>2, Zenon DEF channel_step
<1>7. ASSUME NEW c \in Channels, mint_swap(c) PROVE TypeInv'
  BY <1>1, <1>2, <1>7 DEF mint_swap, inputSpent
<1>8. CASE spend_elsewhere \/ rotate_keyset \/ expire_keyset
  <2>1. status' \in [Keysets -> {"future", "active", "retired", "dead"}]
    BY <1>8 DEF spend_elsewhere, rotate_keyset, expire_keyset
  <2>2. elsewhere' \in BOOLEAN
    BY <1>8, ZenonT(30) DEF spend_elsewhere, rotate_keyset, expire_keyset
  <2>3. UNCHANGED <<storeVars, localVars, wire, reply, issued, cache, appVars>>
    BY <1>8, Zenon DEF spend_elsewhere, rotate_keyset, expire_keyset
  <2> QED
    BY <1>1, <1>2, <2>1, <2>2, <2>3, Zenon
<1>9. CASE crash
  BY <1>1, <1>2, <1>9, Zenon DEF crash
<1>10. CASE UNCHANGED vars
  BY <1>1, <1>2, <1>10, Zenon DEF vars
<1> QED
  BY <1>3, <1>4, <1>5, <1>6, <1>7, <1>8, <1>9, <1>10, Zenon DEF Next

(* Types, and what a call holds where, for the whole bridge. *)
LEMMA TypeAlways == Spec => []TypeInv
<1>1. Init => TypeInv
  <2> SUFFICES ASSUME Init PROVE TypeInv
    OBVIOUS
  <2>1. StoreInv
    BY ClientStoreAssumption, Zenon
    DEF Init, StoreInit, StoreInv, StoreTypeOK, OnePhase, NoLeftovers, States
  <2>2. TypeOK
    BY <2>1, ClientStoreAssumption, ClientAssumption, ZenonT(30)
    DEF Init, StoreInv, TypeOK, Labels, CallKinds, Replies
  <2> QED
    BY <2>1, <2>2, ClientAssumption, Zenon
    DEF Init, TypeInv, Locals, Placed, Holding, AnswersTrue, Replies
<1> QED
  BY <1>1, TypeStep, PTL DEF Spec

(* Every value of the client, the mint and the application has its type, with
   any number of concurrent calls. *)
THEOREM ClientTyped == Spec => []TypeOK
BY TypeAlways, PTL DEF TypeInv

(* The bridge is a user of its storage: seen from the storage, opening, retrying,
   recovering, paying, closing and deleting, interleaved and interrupted by
   crashes, is a sequence of calls of the ClientStorage trait.  What is proved
   of every such sequence holds of the bridge. *)
THEOREM ClientImplementsStore == Spec => StoreSpec
<1>1. Init => StoreInit
  BY Zenon DEF Init
<1> QED
  BY <1>1, StepOfStore, StoreCalls, TypeAlways, PTL DEF Spec, StoreSpec
-----------------------------------------------------------------------------
(* A closed channel stays closed until it is deleted, also while other calls
   complete a recovery of it or record payments: inherited from the storage. *)
THEOREM ClientClosedStaysClosed ==
    ASSUME Backend = "sqlite" PROVE Spec => ClosedStaysClosed
BY SqliteClosedStaysClosed, ClientImplementsStore, PTL

(* The states of a record follow the diagram of ARCHITECTURE.md when the
   application closes only channels that it opened; without that assumption
   close_channel takes an opening to Closed. *)
THEOREM CarefulLifecycle ==
    ASSUME Backend = "sqlite", Careful = TRUE PROVE Spec => FollowsLifecycle
<1> DEFINE Follows(c) ==
        state'[c] \in {state[c], None} \/ <<state[c], state'[c]>> \in Lifecycle
<1>1. ASSUME Backend = "sqlite", Careful = TRUE, TypeInv, Next, NEW c \in Channels
      PROVE  Follows(c)
  <2>1. StoreTypeOK /\ OnePhase /\ NoLeftovers
    BY <1>1, Zenon DEF TypeInv, StoreInv
  <2>2. [StoreCall]_storeVars
    BY <1>1, StepOfStore, Zenon
  <2> USE <1>1, <2>1, ClientStoreAssumption DEF StoreTypeOK, States, Lifecycle
  <2>3. CASE SaveOpening
    BY <2>3, Zenon DEF SaveOpening, save_opening_from_swap, save_opening_ok
  <2>4. CASE SetOpen
    BY <2>4, Zenon DEF SetOpen, set_open, set_open_ok
  <2>5. CASE SetOpeningFailed
    BY <2>5, Zenon DEF SetOpeningFailed, set_opening_failed, set_opening_failed_ok
  <2>6. CASE SavePaymentState \/ UNCHANGED storeVars
    BY <2>6, Zenon DEF SavePaymentState, save_payment_state, storeVars
  <2>7. CASE SetClosing
    BY <2>7, Zenon DEF SetClosing, set_closing
  <2>8. CASE CloseOpened
    BY <2>8, Zenon DEF CloseOpened, set_closed
  <2>9. CASE Delete
    BY <2>9, Zenon DEF Delete, delete
  <2> QED
    BY <2>2, <2>3, <2>4, <2>5, <2>6, <2>7, <2>8, <2>9, Zenon DEF StoreCall
<1>2. Backend = "sqlite" /\ Careful = TRUE =>
        (TypeInv /\ [Next]_vars => [\A c \in Channels : Follows(c)]_vars)
  BY <1>1, Zenon
<1> QED
  BY <1>2, TypeAlways, PTL DEF Spec, FollowsLifecycle
-----------------------------------------------------------------------------
(* No swap of the input is on its way and none was executed. *)
Quiet == wire = {} /\ \A c \in Channels : issued[c] = None

Unsent == {"prepare", "fresh", "save", "refresh", "submit", "reject"}

(* A call that waits for the answer to its swap: no other swap of the input is
   on its way or was executed, and a keyset rejection is the truth about it. *)
Waiting(t) ==
    /\ wire \subseteq {chan[t]}
    /\ \A c \in Channels : issued[c] # None => c = chan[t]
    /\ chan[t] \in wire => reply[chan[t]] = None /\ issued[chan[t]] = None
    /\ reply[chan[t]] = "keyset" => Quiet

(* One opening at a time uses the input, and before its swap is sent, and after
   its rejection, the input is unspent. *)
Reserved ==
    /\ \A t, u \in Tasks : Opens(t) /\ Opens(u) => t = u
    /\ \A t \in Tasks :
          /\ Opens(t) => claim \in {"busy", "used"}
          /\ pc[t] \in Unsent \cup {"wait"} => Opens(t)
          /\ pc[t] \in Unsent => Quiet
          /\ pc[t] = "wait" => Waiting(t)

InputInv == TypeInv /\ Reserved /\ ReservationSafe


(* What the SQLite storage holds when the application closes only channels that
   it opened: an opening about to be sent can be recovered, a funded record has
   traded its opening for the funding, and a swap is executed once. *)
Stored ==
    /\ \A t \in Tasks : pc[t] = "submit" => get_opening_from_swap(chan[t]) # None
    /\ \A c \in Channels : state[c] \in Funded => opening[c] = None
    /\ \A c \in wire : issued[c] = None
FundInv == InputInv /\ FundingReachable /\ FailedNotFunded /\ Stored
-----------------------------------------------------------------------------
(* An opening starts on a free input, and keeps it to itself until it is sent;
   after that only its own swap can reach the mint. *)
LEMMA OpenReserved ==
    ASSUME InputInv, NEW t \in Tasks, open_step(t) PROVE Reserved' /\ ReservationSafe'
<1>0. /\ pc \in [Tasks -> Labels]
      /\ kind \in [Tasks -> CallKinds \cup {None}]
      /\ chan \in [Tasks -> Channels \cup {None}]
      /\ reply \in [Channels -> Replies \cup {None}]
      /\ pc[t] \in Placed => chan[t] \in Channels
      /\ Reserved /\ ReservationSafe
  BY Zenon DEF InputInv, TypeInv, TypeOK, Locals
<1> USE <1>0, ClientAssumption
    DEF Reserved, ReservationSafe, Waiting, Quiet, Unsent, Opens, Placed, Labels, CallKinds,
        Replies, Goto, KeepLocals, KeepRest, mintVars, appVars
<1>1. ASSUME FailUnspent(t), pc[t] \in Unsent, UNCHANGED mintVars
      PROVE  Reserved' /\ ReservationSafe'
  BY <1>1 DEF FailUnspent, Return
<1>2. ASSUME FailUncertain(t), UNCHANGED mintVars
      PROVE  Reserved' /\ ReservationSafe'
  BY <1>2 DEF FailUncertain, Return
<1>3. CASE \E k \in {"open", "auto", "prepared"} : open_channel(t, k)
  BY <1>3 DEF open_channel
<1>4. CASE prepare_open_channel(t)
  BY <1>4 DEF prepare_open_channel
<1>5. CASE prepare_fails(t) \/ lose_answer(t)
  BY <1>1, <1>2, <1>5, Zenon DEF prepare_fails, lose_answer
<1>6. CASE require_fresh_open_submission(t)
  BY <1>2, <1>6 DEF require_fresh_open_submission
<1>7. CASE mark_prepared_open_saved(t)
  BY <1>1, <1>7 DEF mark_prepared_open_saved
<1>8. CASE submit_prepared_open(t)
  BY <1>8 DEF submit_prepared_open
<1>9. CASE receive_answer(t)
  BY <1>2, <1>9, SMTT(30) DEF receive_answer
<1>10. CASE mark_prepared_open_rejected(t)
  BY <1>1, <1>2, <1>10 DEF mark_prepared_open_rejected
<1>11. CASE refresh_keysets(t)
  BY <1>1, <1>11 DEF refresh_keysets
<1>12. CASE verify_completed_open_matches_restore(t)
  BY <1>12 DEF verify_completed_open_matches_restore
<1>13. CASE mark_completed_open(t)
  BY <1>2, <1>13 DEF mark_completed_open
<1>14. CASE deliver_result(t)
  BY <1>14 DEF deliver_result, Return
<1> QED
  BY <1>3, <1>4, <1>5, <1>6, <1>7, <1>8, <1>9, <1>10, <1>11, <1>12, <1>13, <1>14, Zenon
  DEF open_step

(* No other call takes part: a recovery or a payment leaves the reservation to
   the opening, and the mint executes only the swap of the call that waits. *)
LEMMA InputStep ==
    ASSUME InputInv, [Next]_vars PROVE InputInv'
<1>1. TypeInv'
  BY TypeStep, Zenon DEF InputInv
<1> SUFFICES Reserved' /\ ReservationSafe'
  BY <1>1, Zenon DEF InputInv
<1>2. CASE \E t \in Tasks : open_step(t)
  BY <1>2, OpenReserved, Zenon
<1>3. /\ pc \in [Tasks -> Labels]
      /\ kind \in [Tasks -> CallKinds \cup {None}]
      /\ chan \in [Tasks -> Channels \cup {None}]
      /\ reply \in [Channels -> Replies \cup {None}]
      /\ issued \in [Channels -> Proofs \cup {None}]
      /\ \A t \in Tasks : pc[t] \in Placed => chan[t] \in Channels
      /\ Reserved /\ ReservationSafe
  BY Zenon DEF InputInv, TypeInv, TypeOK, Locals
<1> USE <1>3, ClientStoreAssumption, ClientAssumption
    DEF Reserved, ReservationSafe, Waiting, Quiet, Unsent, Opens, Placed, Labels, CallKinds,
        Replies, Goto, KeepLocals, KeepRest, localVars, mintVars, appVars
<1>4. ASSUME NEW t \in Tasks, recovery_step(t) PROVE Reserved' /\ ReservationSafe'
  <2>1. CASE \E k \in {"recover", "recover_prepared"} : prepare_open_channel_recovery(t, k)
    BY <2>1, SMTT(30) DEF prepare_open_channel_recovery
  <2>2. CASE restore_funding_proofs(t)
    BY <2>2 DEF restore_funding_proofs, FailUncertain, Return
  <2>3. CASE restore_change_proofs(t)
    BY <2>3 DEF restore_change_proofs
  <2> QED
    BY <1>4, <2>1, <2>2, <2>3, Zenon DEF recovery_step
<1>5. ASSUME NEW t \in Tasks, record_step(t) PROVE Reserved' /\ ReservationSafe'
  <2>1. CASE record_signed_payment(t)
    <3>1. \E c : chan' = [chan EXCEPT ![t] = c]
      BY <2>1, ZenonT(30) DEF record_signed_payment
    <3> QED
      BY <2>1, <3>1 DEF record_signed_payment
  <2>2. CASE record_payment(t)
    BY <2>2, SMTT(30) DEF record_payment, Return
  <2> QED
    BY <1>5, <2>1, <2>2, Zenon DEF record_step
<1>6. ASSUME NEW c \in Channels, channel_step(c) PROVE Reserved' /\ ReservationSafe'
  BY <1>6 DEF channel_step, sign_payment, close_channel, mark_channel_unusable, delete_channel
<1>7. ASSUME NEW c \in Channels, mint_swap(c) PROVE Reserved' /\ ReservationSafe'
  BY <1>7 DEF mint_swap
<1>8. CASE spend_elsewhere \/ rotate_keyset \/ expire_keyset
  BY <1>8 DEF spend_elsewhere, rotate_keyset, expire_keyset
<1>9. CASE crash
  BY <1>9, Zenon DEF crash
<1>10. CASE UNCHANGED vars
  BY <1>10, Zenon DEF vars
<1> QED
  BY <1>2, <1>4, <1>5, <1>6, <1>7, <1>8, <1>9, <1>10, Zenon DEF Next

(* The invariant of the funding input. *)
LEMMA InputAlways == Spec => []InputInv
<1>1. Init => Reserved /\ ReservationSafe
  BY ClientAssumption
  DEF Init, Reserved, ReservationSafe, Opens, CallKinds, Unsent, Quiet
<1>2. TypeInv /\ Reserved /\ ReservationSafe => InputInv
  BY Zenon DEF InputInv
<1> QED
  BY <1>1, <1>2, InputStep, TypeAlways, PTL DEF Spec

(* "safe input proof reservation handling": whatever the number of calls, the
   storage and the moment of a crash, an input whose calls all reported
   input_may_be_spent = FALSE is unspent by them and stays so. *)
THEOREM ReleasedInputsUnspent == Spec => []ReservationSafe
BY InputAlways, PTL DEF InputInv
-----------------------------------------------------------------------------
(* Steps that neither call the storage nor the mint leave the funding as it is. *)
LEMMA FundKept ==
    ASSUME FundInv, UNCHANGED <<state, opening, funding, wire, issued, dropped>>,
           \A t \in Tasks :
              pc'[t] = "submit" => pc[t] = "submit" /\ chan'[t] = chan[t]
    PROVE  FundingReachable' /\ FailedNotFunded' /\ Stored'
BY DEF FundInv, FundingReachable, FailedNotFunded, Stored, get_opening_from_swap, get_funding

(* The mint can issue funding only for an opening that is on record; a record
   leaves that state for the funding, after a rejection that is the truth, or
   never. *)
LEMMA FundStep ==
    ASSUME Backend = "sqlite", Careful = TRUE, FundInv, [Next]_vars PROVE FundInv'
<1>1. InputInv'
  BY InputStep, Zenon DEF FundInv
<1> SUFFICES FundingReachable' /\ FailedNotFunded' /\ Stored'
  BY <1>1, Zenon DEF FundInv
<1>2. /\ pc \in [Tasks -> Labels]
      /\ chan \in [Tasks -> Channels \cup {None}]
      /\ issued \in [Channels -> Proofs \cup {None}]
      /\ wire \subseteq Channels
      /\ StoreTypeOK /\ OnePhase /\ Locals /\ Reserved
      /\ FundingReachable /\ FailedNotFunded /\ Stored
  BY Zenon DEF FundInv, InputInv, TypeInv, TypeOK, StoreInv
<1> USE <1>2 DEF Labels
<1> DEFINE Safe == FundingReachable' /\ FailedNotFunded' /\ Stored'
<1>3. ASSUME NEW t \in Tasks, FailUnspent(t) \/ FailUncertain(t),
             UNCHANGED <<storeVars, wire, issued, dropped>>
      PROVE  Safe
  BY <1>3, FundKept, ZenonT(30) DEF FailUnspent, FailUncertain, Return, storeVars
<1>4. ASSUME NEW t \in Tasks, open_step(t) PROVE Safe
  <2>1. CASE mark_prepared_open_saved(t) /\ save_opening_ok(chan[t], prep[t])
    BY <2>1, ClientStoreAssumption, SMTT(30)
    DEF mark_prepared_open_saved, save_opening_from_swap, Goto, KeepLocals, KeepRest, mintVars,
        Locals, Placed, Reserved, Unsent, Quiet, FundingReachable, FailedNotFunded, Stored,
        get_opening_from_swap, get_funding, StoreTypeOK, Funded, States
  <2>2. CASE submit_prepared_open(t)
    BY <2>2
    DEF submit_prepared_open, Goto, KeepLocals, appVars, storeVars, Locals, Placed, Reserved,
        Unsent, Quiet, FundingReachable, FailedNotFunded, Stored, get_opening_from_swap,
        get_funding
  <2>3. CASE mark_prepared_open_rejected(t) /\ set_opening_failed_ok(chan[t])
    <3>1. \A u \in Tasks : pc'[u] # "submit"
      BY <2>3, Zenon
      DEF mark_prepared_open_rejected, FailUnspent, Return, Goto, Reserved, Unsent
    <3>2. Quiet /\ chan[t] \in Channels
      BY <2>3, Zenon DEF mark_prepared_open_rejected, Reserved, Unsent, Locals, Placed
    <3>3. set_opening_failed(chan[t]) /\ UNCHANGED <<wire, issued, dropped>>
      BY <2>3, Zenon DEF mark_prepared_open_rejected, KeepRest, mintVars
    <3> QED
      BY <3>1, <3>2, <3>3, Zenon
      DEF set_opening_failed, Quiet, FundingReachable, FailedNotFunded, Stored, StoreTypeOK,
          get_opening_from_swap, get_funding, Funded
  <2>4. CASE mark_completed_open(t) /\ set_open_ok(chan[t], got[t])
    <3>1. /\ chan[t] \in Channels /\ got[t] \in Proofs /\ got[t] = issued[chan[t]]
          /\ set_open(chan[t], got[t])
          /\ UNCHANGED <<chan, wire, issued, dropped>>
          /\ \A u \in Tasks : pc'[u] = "submit" => pc[u] = "submit"
      BY <2>4, Zenon
      DEF mark_completed_open, Goto, KeepLocals, KeepRest, mintVars, Locals, Placed, Holding
    <3>2. \A u \in Tasks : pc[u] # "submit"
      BY <3>1, ClientStoreAssumption, SMTT(30) DEF Reserved, Unsent, Quiet
    <3>3. CASE state[chan[t]] = "OpeningFromSwap"
      BY <3>1, <3>2, <3>3, ClientStoreAssumption
      DEF set_open, FundingReachable, FailedNotFunded, Stored, StoreTypeOK,
          get_opening_from_swap, get_funding, Funded, States
    <3>4. CASE state[chan[t]] # "OpeningFromSwap"
      BY <3>1, <3>2, <3>4, FundKept, Zenon DEF set_open
    <3> QED
      BY <3>3, <3>4, Zenon
  <2>5. CASE \/ mark_prepared_open_saved(t) /\ ~ save_opening_ok(chan[t], prep[t])
             \/ mark_prepared_open_rejected(t) /\ ~ set_opening_failed_ok(chan[t])
             \/ mark_completed_open(t) /\ ~ set_open_ok(chan[t], got[t])
             \/ prepare_fails(t) \/ lose_answer(t)
    BY <1>3, <2>5, Zenon
    DEF mark_prepared_open_saved, mark_prepared_open_rejected, mark_completed_open,
        prepare_fails, lose_answer, KeepRest, mintVars
  <2>6. CASE \/ \E k \in {"open", "auto", "prepared"} : open_channel(t, k)
             \/ prepare_open_channel(t) \/ require_fresh_open_submission(t)
             \/ receive_answer(t) \/ refresh_keysets(t)
             \/ verify_completed_open_matches_restore(t) \/ deliver_result(t)
    <3>1. UNCHANGED <<state, opening, funding, wire, issued, dropped>>
      BY <2>6, Zenon
      DEF open_channel, prepare_open_channel, require_fresh_open_submission, receive_answer,
          refresh_keysets, verify_completed_open_matches_restore, deliver_result, KeepRest,
          storeVars, mintVars
    <3>2. \A u \in Tasks : pc'[u] = "submit" => pc[u] = "submit" /\ chan'[u] = chan[u]
      BY <2>6, Zenon
      DEF open_channel, prepare_open_channel, require_fresh_open_submission, receive_answer,
          refresh_keysets, verify_completed_open_matches_restore, deliver_result, FailUnspent,
          FailUncertain, Return, Goto, KeepLocals
    <3> QED
      BY <3>1, <3>2, FundKept, Zenon
  <2> QED
    BY <1>4, <2>1, <2>2, <2>3, <2>4, <2>5, <2>6, Zenon DEF open_step
<1>5. ASSUME NEW t \in Tasks, recovery_step(t) \/ record_step(t) PROVE Safe
  <2>1. UNCHANGED <<state, opening, funding, wire, issued, dropped>>
    BY <1>5, Zenon
    DEF recovery_step, record_step, prepare_open_channel_recovery, restore_funding_proofs,
        restore_change_proofs, record_signed_payment, record_payment, save_payment_state,
        KeepRest, storeVars, mintVars
  <2>2. \A u \in Tasks : pc'[u] = "submit" => pc[u] = "submit" /\ chan'[u] = chan[u]
    BY <1>5, ZenonT(30)
    DEF recovery_step, record_step, prepare_open_channel_recovery, restore_funding_proofs,
        restore_change_proofs, record_signed_payment, record_payment, FailUncertain, Return,
        Goto, KeepLocals
  <2> QED
    BY <2>1, <2>2, FundKept, Zenon
<1>6. ASSUME NEW c \in Channels, channel_step(c) PROVE Safe
  <2> USE <1>6 DEF localVars, mintVars, appVars, FundingReachable, FailedNotFunded, Stored,
        Locals, Placed, StoreTypeOK, get_opening_from_swap, get_funding, Funded, States
  <2>1. CASE \E b \in Balances : sign_payment(c, b)
    BY <2>1, SMTT(30) DEF sign_payment, storeVars
  <2>2. CASE close_channel(c) \/ mark_channel_unusable(c)
    BY <2>2, ClientStoreAssumption, SMTT(30)
    DEF close_channel, mark_channel_unusable, set_closed, set_closing
  <2>3. CASE delete_channel(c)
    BY <2>3, ClientStoreAssumption, SMTT(30) DEF delete_channel, delete
  <2> QED
    BY <2>1, <2>2, <2>3, Zenon DEF channel_step
<1>7. ASSUME NEW c \in Channels, mint_swap(c) PROVE Safe
  BY <1>7, ClientStoreAssumption
  DEF mint_swap, storeVars, localVars, appVars, FundingReachable, FailedNotFunded, Stored,
      OnePhase, StoreTypeOK, get_opening_from_swap, get_funding, Reserved, Unsent, Quiet
<1>8. CASE spend_elsewhere \/ rotate_keyset \/ expire_keyset \/ crash \/ UNCHANGED vars
  BY <1>8, FundKept, Zenon
  DEF spend_elsewhere, rotate_keyset, expire_keyset, crash, vars, storeVars, localVars,
      mintVars, appVars
<1> QED
  BY <1>4, <1>5, <1>6, <1>7, <1>8, Zenon DEF Next

(* The invariant of the funding, for SQLite and a careful application. *)
LEMMA FundAlways ==
    ASSUME Backend = "sqlite", Careful = TRUE PROVE Spec => []FundInv
<1>1. Init => FundingReachable /\ FailedNotFunded /\ Stored
  BY ClientStoreAssumption
  DEF Init, StoreInit, FundingReachable, FailedNotFunded, Stored, get_opening_from_swap,
      get_funding, States, Funded
<1>2. InputInv /\ FundingReachable /\ FailedNotFunded /\ Stored => FundInv
  BY Zenon DEF FundInv
<1>3. FundInv /\ [Next]_vars => FundInv'
  BY FundStep, Zenon
<1> QED
  BY <1>1, <1>2, <1>3, InputAlways, PTL DEF Spec

(* "two-phase opening process to prevent fund loss": with the SQLite storage, and
   an application that closes only what it opened, whatever the mint issued for a
   channel can be restored from the opening record or is stored, for any number
   of calls and keysets, until the closed channel is deleted. *)
THEOREM FundingStaysReachable ==
    ASSUME Backend = "sqlite", Careful = TRUE PROVE Spec => []FundingReachable
BY FundAlways, PTL DEF FundInv

(* mark_prepared_open_rejected is the truth: an opening in OpeningFailed has
   nothing to recover, and no swap of it can reach the mint any more. *)
THEOREM FailedOpeningsEmpty ==
    ASSUME Backend = "sqlite", Careful = TRUE PROVE Spec => []FailedNotFunded
BY FundAlways, PTL DEF FundInv

-----------------------------------------------------------------------------
(* What is about to be recorded was signed, and only deletion parts a payment
   from its funding. *)
PayLocals ==
    /\ \A t \in Tasks :
          pc[t] = "write" => [chan |-> chan[t], balance |-> paid[t].balance] \in signed
    /\ \A s \in signed : funding[s.chan] # None \/ state[s.chan] = None
PayInv == FundInv /\ PaymentsBacked /\ PayLocals

(* The parts of a signed payment. *)
LEMMA SignatureFields ==
    ASSUME NEW c, NEW b, NEW s, s = [chan |-> c, balance |-> b]
    PROVE  s.chan = c /\ s.balance = b
  OBVIOUS

(* Steps that leave signatures and payment states alone, and take no funding
   from a channel. *)
LEMMA PayKept ==
    ASSUME PayInv, UNCHANGED <<pstate, signed>>,
           \A c \in Channels : issued[c] # None => issued'[c] # None,
           \A c \in Channels : funding[c] # None => funding'[c] # None,
           \A s \in signed : state[s.chan] = None => state'[s.chan] = None,
           \A t \in Tasks :
              pc'[t] = "write" => pc[t] = "write" /\ chan'[t] = chan[t] /\ paid'[t] = paid[t]
    PROVE  PaymentsBacked' /\ PayLocals'
<1>1. \A s \in signed : s.chan \in Channels
  BY Zenon DEF PayInv, FundInv, InputInv, TypeInv, TypeOK
<1> QED
  BY <1>1, Zenon DEF PayInv, PaymentsBacked, PayLocals

(* A payment is signed while its channel is funded, and written only to a record
   that is still there. *)
LEMMA PayStep ==
    ASSUME Backend = "sqlite", Careful = TRUE, PayInv, [Next]_vars PROVE PayInv'
<1>1. FundInv'
  BY FundStep, Zenon DEF PayInv
<1> SUFFICES PaymentsBacked' /\ PayLocals'
  BY <1>1, Zenon DEF PayInv
<1>2. /\ pc \in [Tasks -> Labels]
      /\ chan \in [Tasks -> Channels \cup {None}]
      /\ paid \in [Tasks -> PaymentState \cup {None}]
      /\ issued \in [Channels -> Proofs \cup {None}]
      /\ StoreTypeOK /\ OnePhase /\ NoLeftovers /\ Locals /\ Reserved
      /\ FundingReachable /\ FailedNotFunded /\ Stored
      /\ PaymentsBacked /\ PayLocals
  BY Zenon DEF PayInv, FundInv, InputInv, TypeInv, TypeOK, StoreInv
<1>3. \A s \in signed : s.chan \in Channels /\ s.balance \in Balances
  BY Zenon DEF PayInv, FundInv, InputInv, TypeInv, TypeOK
<1> USE <1>2 DEF Labels
<1> DEFINE Safe == PaymentsBacked' /\ PayLocals'
<1>4. ASSUME NEW t \in Tasks, open_step(t) \/ recovery_step(t) PROVE Safe
  <2>1. UNCHANGED <<pstate, signed, issued>>
    BY <1>4, Zenon
    DEF open_step, recovery_step, open_channel, prepare_open_channel, prepare_fails,
        require_fresh_open_submission, mark_prepared_open_saved, submit_prepared_open,
        receive_answer, lose_answer, mark_prepared_open_rejected, refresh_keysets,
        verify_completed_open_matches_restore, mark_completed_open, deliver_result,
        prepare_open_channel_recovery, restore_funding_proofs, restore_change_proofs,
        save_opening_from_swap, set_opening_failed, set_open, KeepRest, storeVars, mintVars,
        appVars
  <2>2. \A u \in Tasks :
          pc'[u] = "write" => pc[u] = "write" /\ chan'[u] = chan[u] /\ paid'[u] = paid[u]
    <3>1. CASE open_step(t)
      BY <3>1, ZenonT(30)
      DEF open_step, open_channel, prepare_open_channel, prepare_fails,
          require_fresh_open_submission, mark_prepared_open_saved, submit_prepared_open,
          receive_answer, lose_answer, mark_prepared_open_rejected, refresh_keysets,
          verify_completed_open_matches_restore, mark_completed_open, deliver_result,
          FailUnspent, FailUncertain, Return, Goto, KeepLocals
    <3>2. CASE recovery_step(t)
      BY <3>2
      DEF recovery_step, prepare_open_channel_recovery, restore_funding_proofs,
          restore_change_proofs, FailUncertain, Return, Goto, KeepLocals
    <3> QED
      BY <1>4, <3>1, <3>2, Zenon
  <2>3. CASE mark_prepared_open_saved(t) /\ save_opening_ok(chan[t], prep[t])
    <3>1. pc[t] \in Unsent /\ UNCHANGED funding
      BY <2>3, Zenon DEF mark_prepared_open_saved, save_opening_from_swap, Unsent
    <3>2. signed = {}
      BY <1>3, <3>1, Zenon DEF Reserved, Quiet, PaymentsBacked
    <3> QED
      BY <2>1, <2>2, <3>1, <3>2, PayKept, Zenon
  <2>4. CASE mark_prepared_open_rejected(t) /\ set_opening_failed_ok(chan[t])
    <3>1. pc[t] \in Unsent /\ UNCHANGED funding
      BY <2>4, Zenon DEF mark_prepared_open_rejected, set_opening_failed, Unsent
    <3>2. signed = {}
      BY <1>3, <3>1, Zenon DEF Reserved, Quiet, PaymentsBacked
    <3> QED
      BY <2>1, <2>2, <3>1, <3>2, PayKept, Zenon
  <2>5. CASE mark_completed_open(t) /\ set_open_ok(chan[t], got[t])
    <3>1. /\ chan[t] \in Channels /\ got[t] \in Proofs /\ set_open(chan[t], got[t])
      BY <2>5, Zenon DEF mark_completed_open, Locals, Placed, Holding
    <3>2. \A c \in Channels : funding[c] # None => funding'[c] # None
      BY <3>1, ClientStoreAssumption DEF set_open, StoreTypeOK
    <3>3. \A c \in Channels : state[c] = None => state'[c] = None
      BY <3>1, ClientStoreAssumption, Zenon DEF set_open, StoreTypeOK, States
    <3> QED
      BY <1>3, <2>1, <2>2, <3>2, <3>3, PayKept, Zenon
  <2>6. CASE /\ ~ (mark_prepared_open_saved(t) /\ save_opening_ok(chan[t], prep[t]))
             /\ ~ (mark_prepared_open_rejected(t) /\ set_opening_failed_ok(chan[t]))
             /\ ~ (mark_completed_open(t) /\ set_open_ok(chan[t], got[t]))
    <3>1. UNCHANGED <<state, funding>>
      BY <1>4, <2>6, Zenon
      DEF open_step, recovery_step, open_channel, prepare_open_channel, prepare_fails,
          require_fresh_open_submission, mark_prepared_open_saved, submit_prepared_open,
          receive_answer, lose_answer, mark_prepared_open_rejected, refresh_keysets,
          verify_completed_open_matches_restore, mark_completed_open, deliver_result,
          prepare_open_channel_recovery, restore_funding_proofs, restore_change_proofs,
          storeVars
    <3> QED
      BY <2>1, <2>2, <3>1, PayKept, Zenon
  <2> QED
    BY <2>3, <2>4, <2>5, <2>6, Zenon
<1>5. ASSUME NEW t \in Tasks, record_signed_payment(t) PROVE Safe
  <2>1. PICK s \in signed : \E n :
          /\ chan' = [chan EXCEPT ![t] = s.chan]
          /\ paid' = [paid EXCEPT ![t] = [balance |-> s.balance, count |-> n]]
    BY <1>5, ZenonT(30) DEF record_signed_payment
  <2>2. signed \subseteq [chan : Channels, balance : Balances]
    BY Zenon DEF PayInv, FundInv, InputInv, TypeInv, TypeOK
  <2>3. s = [chan |-> s.chan, balance |-> s.balance]
    BY <2>2, ZenonT(30)
  <2>4. chan'[t] = s.chan /\ paid'[t].balance = s.balance
    BY <2>1
  <2>5. [chan |-> chan'[t], balance |-> paid'[t].balance] \in signed
    BY <2>3, <2>4, Zenon
  <2>6. UNCHANGED <<state, funding, pstate, signed, issued>>
    BY <1>5, Zenon DEF record_signed_payment, KeepRest, storeVars, mintVars
  <2>7. \A u \in Tasks :
          u # t => pc'[u] = pc[u] /\ chan'[u] = chan[u] /\ paid'[u] = paid[u]
    BY <1>5, <2>1, Zenon DEF record_signed_payment, Goto
  <2>8. PaymentsBacked'
    BY <2>6, Zenon DEF PaymentsBacked
  <2>9. \A u \in Tasks :
          pc'[u] = "write" => [chan |-> chan'[u], balance |-> paid'[u].balance] \in signed
    BY <2>5, <2>7, Zenon DEF PayLocals
  <2> QED
    BY <2>6, <2>8, <2>9, Zenon DEF PayLocals
<1>6. ASSUME NEW t \in Tasks, record_payment(t) PROVE Safe
  <2>1. UNCHANGED <<state, funding, signed, issued>>
    BY <1>6, Zenon DEF record_payment, save_payment_state, KeepRest, storeVars, mintVars
  <2>2. PayLocals'
    BY <1>6, <2>1, Zenon DEF record_payment, Return, PayLocals
  <2>3. CASE row_exists(chan[t])
    <3>1. /\ chan[t] \in Channels /\ pstate' = [pstate EXCEPT ![chan[t]] = paid[t]]
          /\ state[chan[t]] # None
      BY <1>6, <2>3, Zenon DEF record_payment, save_payment_state, row_exists, Locals, Placed
    <3>2. [chan |-> chan[t], balance |-> paid[t].balance] \in signed
      BY <1>6, Zenon DEF record_payment, PayLocals
    <3>3. funding[chan[t]] # None
      BY <3>1, <3>2, Zenon DEF PayLocals
    <3>4. ASSUME NEW c \in Channels, pstate'[c] # None
          PROVE  funding[c] # None /\ [chan |-> c, balance |-> pstate'[c].balance] \in signed
      <4>1. CASE c = chan[t]
        BY <3>1, <3>2, <3>3, <4>1, Zenon DEF StoreTypeOK
      <4>2. CASE c # chan[t]
        BY <3>1, <3>4, <4>2, Zenon DEF StoreTypeOK, PaymentsBacked
      <4> QED
        BY <4>1, <4>2, Zenon
    <3> QED
      BY <2>1, <2>2, <3>4, Zenon DEF PaymentsBacked
  <2>4. CASE ~ row_exists(chan[t])
    BY <1>6, <2>1, <2>2, <2>4, Zenon DEF record_payment, storeVars, PaymentsBacked
  <2> QED
    BY <2>3, <2>4, Zenon
<1>7. ASSUME NEW c \in Channels, channel_step(c) PROVE Safe
  <2>1. CASE \E b \in Balances : sign_payment(c, b)
    <3>1. PICK b \in Balances : sign_payment(c, b)
      BY <2>1, Zenon
    <3>2. /\ b <= Capacity /\ funding[c] # None /\ issued[c] # None
          /\ signed' = signed \cup {[chan |-> c, balance |-> b]}
          /\ UNCHANGED <<storeVars, localVars, issued>>
      BY <3>1, Zenon DEF sign_payment, get_funding, FundingReachable, mintVars
    <3>3. /\ pstate' = pstate /\ funding' = funding /\ state' = state /\ issued' = issued
          /\ pc' = pc /\ chan' = chan /\ paid' = paid
      BY <3>2, ZenonT(30) DEF storeVars, localVars
    <3>4. \A s \in signed' : s \in signed \/ (s.chan = c /\ s.balance <= Capacity)
      <4>1. ASSUME NEW s \in signed', s \notin signed
            PROVE  s.chan = c /\ s.balance <= Capacity
        <5>1. s = [chan |-> c, balance |-> b]
          BY <3>2, <4>1, Zenon
        <5>2. s.chan = c /\ s.balance = b
          BY <5>1, SignatureFields, Zenon
        <5>3. QED
          BY <3>2, <5>2, Zenon
      <4>2. QED
        BY <4>1, Zenon
    <3>5. signed \subseteq signed'
      BY <3>2, Zenon
    <3>6. PaymentsBacked'
      BY <3>2, <3>3, <3>4, <3>5, Zenon DEF PaymentsBacked
    <3> QED
      BY <3>2, <3>3, <3>4, <3>5, <3>6, Zenon DEF PayLocals
  <2>2. CASE close_channel(c) \/ mark_channel_unusable(c)
    <3>1. \A d \in Channels : state[d] = None => state'[d] = None
      BY <2>2, ClientStoreAssumption, Zenon
      DEF close_channel, mark_channel_unusable, set_closed, set_closing, row_exists, StoreTypeOK,
          States
    <3> QED
      BY <1>3, <2>2, <3>1, PayKept, Zenon
      DEF close_channel, mark_channel_unusable, set_closed, set_closing, localVars, mintVars,
          appVars
  <2>3. CASE delete_channel(c)
    BY <1>3, <2>3, ClientStoreAssumption, Zenon
    DEF delete_channel, delete, localVars, mintVars, PaymentsBacked, PayLocals, StoreTypeOK
  <2> QED
    BY <1>7, <2>1, <2>2, <2>3, Zenon DEF channel_step
<1>8. ASSUME NEW c \in Channels, mint_swap(c) PROVE Safe
  <2>1. \A d \in Channels : issued[d] # None => issued'[d] # None
    BY <1>8, ClientStoreAssumption DEF mint_swap
  <2> QED
    BY <1>8, <2>1, PayKept, Zenon DEF mint_swap, storeVars, localVars, appVars
<1>9. CASE spend_elsewhere \/ rotate_keyset \/ expire_keyset \/ crash \/ UNCHANGED vars
  BY <1>9, PayKept, Zenon
  DEF spend_elsewhere, rotate_keyset, expire_keyset, crash, vars, storeVars, localVars,
      mintVars, appVars
<1> QED
  BY <1>4, <1>5, <1>6, <1>7, <1>8, <1>9, Zenon DEF Next, record_step

(* What is recorded as paid was signed, within the capacity, against funding that
   the mint issued, whatever is deleted between reading the counter and writing
   the payment. *)
THEOREM PaymentsAreBacked ==
    ASSUME Backend = "sqlite", Careful = TRUE PROVE Spec => []PaymentsBacked
<1>1. Init => PaymentsBacked /\ PayLocals
  BY DEF Init, StoreInit, PaymentsBacked, PayLocals
<1>2. FundInv /\ PaymentsBacked /\ PayLocals => PayInv
  BY Zenon DEF PayInv
<1>3. PayInv /\ [Next]_vars => PayInv'
  BY PayStep, Zenon
<1>4. PayInv => PaymentsBacked
  BY Zenon DEF PayInv
<1> QED
  BY <1>1, <1>2, <1>3, <1>4, FundAlways, PTL DEF Spec
-----------------------------------------------------------------------------
(* A call that runs the explicit phases keeps the change before it marks the
   channel open. *)
KeptChange ==
    \A t \in Tasks :
        /\ kind[t] \in {"prepared", "recover_prepared", "record", None}
        /\ pc[t] \in {"verify", "restore", "restore_change"} => Persists(t)
        /\ pc[t] \in {"mark_open", "deliver"} => chan[t] \in change
ChangeInv == FundInv /\ ChangeReachable /\ KeptChange

(* With the explicit phases the change is kept before set_open clears the opening
   record that holds its secrets. *)
LEMMA ChangeStep ==
    ASSUME Backend = "sqlite", Careful = TRUE, Kinds \subseteq {"prepared", "recover_prepared", "record"},
           ChangeInv, [Next]_vars
    PROVE  ChangeInv'
<1>1. FundInv'
  BY FundStep, Zenon DEF ChangeInv
<1> SUFFICES ChangeReachable' /\ KeptChange'
  BY <1>1, Zenon DEF ChangeInv
<1>2. /\ pc \in [Tasks -> Labels]
      /\ kind \in [Tasks -> CallKinds \cup {None}]
      /\ chan \in [Tasks -> Channels \cup {None}]
      /\ issued \in [Channels -> Proofs \cup {None}]
      /\ StoreTypeOK /\ OnePhase /\ Locals /\ Reserved
      /\ FundingReachable /\ FailedNotFunded /\ Stored
      /\ ChangeReachable /\ KeptChange
  BY Zenon DEF ChangeInv, FundInv, InputInv, TypeInv, TypeOK, StoreInv
<1> USE <1>2, ClientStoreAssumption, ClientAssumption
    DEF Labels, CallKinds, KeptChange, Persists, Goto, KeepLocals, KeepRest, localVars, mintVars,
        appVars
<1> DEFINE Safe == ChangeReachable' /\ KeptChange'
<1>3. ASSUME NEW t \in Tasks, open_step(t) PROVE Safe
  <2>1. CASE mark_prepared_open_saved(t)
    <3>1. ChangeReachable'
      BY <2>1, Zenon
      DEF mark_prepared_open_saved, save_opening_from_swap, storeVars, Reserved, Unsent, Quiet,
          ChangeReachable
    <3> QED
      BY <2>1, <3>1 DEF mark_prepared_open_saved, FailUnspent, Return
  <2>2. CASE mark_completed_open(t)
    <3>1. chan[t] \in change /\ chan[t] \in Channels /\ UNCHANGED <<issued, change>>
      BY <2>2, Zenon DEF mark_completed_open, Locals, Placed
    <3>2. \A c \in Channels : c # chan[t] => opening'[c] = opening[c]
      BY <2>2 DEF mark_completed_open, set_open, storeVars, StoreTypeOK
    <3>3. ChangeReachable'
      BY <3>1, <3>2 DEF ChangeReachable
    <3> QED
      BY <2>2, <3>3 DEF mark_completed_open, FailUncertain, Return
  <2>3. CASE ~ mark_prepared_open_saved(t) /\ ~ mark_completed_open(t)
    <3>1. UNCHANGED <<opening, issued>> /\ change \subseteq change'
      BY <1>3, <2>3, Zenon
      DEF open_step, open_channel, prepare_open_channel, prepare_fails,
          require_fresh_open_submission, submit_prepared_open, receive_answer, lose_answer,
          mark_prepared_open_rejected, refresh_keysets, verify_completed_open_matches_restore,
          deliver_result, set_opening_failed, storeVars
    <3>2. ChangeReachable'
      BY <3>1, Zenon DEF ChangeReachable
    <3>3. KeptChange'
      <4>1. CASE \/ \E k \in {"open", "auto", "prepared"} : open_channel(t, k)
                 \/ prepare_open_channel(t) \/ submit_prepared_open(t)
        BY <4>1, SMTT(30) DEF open_channel, prepare_open_channel, submit_prepared_open
      <4>2. CASE prepare_fails(t) \/ lose_answer(t) \/ require_fresh_open_submission(t)
        BY <4>2, SMTT(30)
        DEF prepare_fails, lose_answer, require_fresh_open_submission, FailUnspent, FailUncertain,
            Return
      <4>3. CASE receive_answer(t)
        BY <4>3, SMTT(30) DEF receive_answer, FailUncertain, Return, Reserved, Opens
      <4>4. CASE mark_prepared_open_rejected(t) \/ refresh_keysets(t)
        BY <4>4
        DEF mark_prepared_open_rejected, refresh_keysets, FailUnspent, FailUncertain, Return
      <4>5. CASE verify_completed_open_matches_restore(t)
        BY <4>5 DEF verify_completed_open_matches_restore
      <4>6. CASE deliver_result(t)
        BY <4>6, Zenon DEF deliver_result, Return
      <4> QED
        BY <1>3, <2>3, <4>1, <4>2, <4>3, <4>4, <4>5, <4>6, Zenon DEF open_step
    <3> QED
      BY <3>2, <3>3, Zenon
  <2> QED
    BY <2>1, <2>2, <2>3, Zenon
<1>4. ASSUME NEW t \in Tasks, recovery_step(t) \/ record_step(t) PROVE Safe
  <2>1. UNCHANGED <<opening, issued>> /\ change \subseteq change'
    BY <1>4, Zenon
    DEF recovery_step, record_step, prepare_open_channel_recovery, restore_funding_proofs,
        restore_change_proofs, record_signed_payment, record_payment, save_payment_state,
        storeVars
  <2>2. KeptChange'
    <3>1. CASE \E k \in {"recover", "recover_prepared"} : prepare_open_channel_recovery(t, k)
      BY <3>1, SMTT(30) DEF prepare_open_channel_recovery
    <3>2. CASE restore_funding_proofs(t) \/ restore_change_proofs(t)
      BY <3>2, SMTT(30) DEF restore_funding_proofs, restore_change_proofs, FailUncertain, Return
    <3>3. CASE record_signed_payment(t)
      <4>1. \E c : chan' = [chan EXCEPT ![t] = c]
        BY <3>3, ZenonT(30) DEF record_signed_payment
      <4> QED
        BY <3>3, <4>1 DEF record_signed_payment
    <3>4. CASE record_payment(t)
      BY <3>4, ZenonT(30) DEF record_payment, Return
    <3> QED
      BY <1>4, <3>1, <3>2, <3>3, <3>4, Zenon DEF recovery_step, record_step
  <2> QED
    BY <2>1, <2>2, Zenon DEF ChangeReachable
<1>5. ASSUME NEW c \in Channels, channel_step(c) PROVE Safe
  <2>1. KeptChange'
    BY <1>5, Zenon DEF channel_step, sign_payment, close_channel, mark_channel_unusable, delete_channel
  <2>2. CASE delete_channel(c)
    BY <2>1, <2>2
    DEF delete_channel, delete, FailedNotFunded, Stored, Funded, StoreTypeOK, ChangeReachable
  <2>3. CASE ~ delete_channel(c)
    BY <1>5, <2>1, <2>3, Zenon
    DEF channel_step, sign_payment, close_channel, mark_channel_unusable, set_closed, set_closing,
        storeVars, ChangeReachable
  <2> QED
    BY <2>2, <2>3, Zenon
<1>6. ASSUME NEW c \in Channels, mint_swap(c) PROVE Safe
  BY <1>6
  DEF mint_swap, storeVars, FundingReachable, get_opening_from_swap, ChangeReachable
<1>7. CASE spend_elsewhere \/ rotate_keyset \/ expire_keyset \/ UNCHANGED vars
  BY <1>7, Zenon
  DEF spend_elsewhere, rotate_keyset, expire_keyset, vars, storeVars, ChangeReachable
<1>8. CASE crash
  BY <1>8, Zenon DEF crash, storeVars, ChangeReachable
<1> QED
  BY <1>3, <1>4, <1>5, <1>6, <1>7, <1>8, Zenon DEF Next

(* An application that runs the explicit phases and keeps each result before it
   marks the channel open never loses change: until the change has reached it,
   the record with the change secrets exists. *)
THEOREM ChangeStaysReachable ==
    ASSUME Backend = "sqlite", Careful = TRUE,
           Kinds \subseteq {"prepared", "recover_prepared", "record"}
    PROVE  Spec => []ChangeReachable
<1>1. Init => ChangeReachable /\ KeptChange
  BY DEF Init, ChangeReachable, KeptChange
<1>2. FundInv /\ ChangeReachable /\ KeptChange => ChangeInv
  BY Zenon DEF ChangeInv
<1>3. ChangeInv /\ [Next]_vars => ChangeInv'
  BY ChangeStep, Zenon
<1>4. ChangeInv => ChangeReachable
  BY Zenon DEF ChangeInv
<1> QED
  BY <1>1, <1>2, <1>3, <1>4, FundAlways, PTL DEF Spec
=============================================================================
