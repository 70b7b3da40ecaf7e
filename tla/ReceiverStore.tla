---------------------------- MODULE ReceiverStore ----------------------------
(***************************************************************************)
(* The receiver's durable record of one channel: the operations of the     *)
(* SpilmanStorage trait as MemoryStorage and SqliteStorage implement them. *)
(* Every write is one critical section in both backends (close_gate, or    *)
(* the connection mutex around one SQL transaction), so every write is one *)
(* action.  Channels are independent rows, hence one channel.              *)
(*                                                                         *)
(* An operation Op(args) is the call that returns Ok.  OpOk is the         *)
(* condition under which it does; a call that returns Err changes nothing. *)
(***************************************************************************)
EXTENDS Integers

CONSTANTS
    Backend,      \* "memory" or "sqlite"
    Fundings,     \* ChannelFunding records that validate for this channel
    Balances,     \* balances that appear in payments
    Signatures,   \* signature texts, none of them the empty string
    Journals,     \* application close journals, opaque to the store
    Usages,       \* increments of the usage counter
    MaxUsage,     \* bound on the usage counter
    None          \* absence of a value

Payment == [balance : Balances, signature : Signatures]

ASSUME StoreAssumption ==
    /\ Backend \in {"memory", "sqlite"}
    /\ Balances \subseteq Nat
    /\ Usages \subseteq Nat
    /\ MaxUsage \in Nat
    /\ None \notin Fundings \cup Payment \cup Journals \cup Balances

VARIABLES
    funding,      \* ChannelFunding, written once
    payment,      \* PaymentProof of the highest balance
    usage,        \* accumulated usage, one priced variable
    closing,      \* payment authorization of the close under way (ClosingData)
    closed,       \* amount of the completed close (ClosedDataView)
    journal       \* the application's close journal

storeVars == <<funding, payment, usage, closing, closed, journal>>

StoreInit ==
    /\ funding = None
    /\ payment = None
    /\ usage = 0
    /\ closing = None
    /\ closed = None
    /\ journal = None

(* get_state.  SQLite keeps a state column that every UPDATE of closing_json
   or closed_json sets with it, so both backends report this value. *)
get_state ==
    IF closed # None THEN "Closed"
    ELSE IF closing # None THEN "Closing"
    ELSE IF funding # None THEN "Open"
    ELSE "Unknown"

save_funding(f) ==
    /\ funding' = IF funding = None THEN f ELSE funding
    /\ UNCHANGED <<payment, usage, closing, closed, journal>>

(* Mutant: a payment is recorded while the channel is closing. *)
update_balance_ok_closing == get_state \in {"Open", "Closing"}

update_balance_ok == get_state = "Open"

(* Mutant: the last payment replaces the highest. *)
update_balance_last(p) ==
    /\ update_balance_ok
    /\ payment' = p
    /\ UNCHANGED <<funding, usage, closing, closed, journal>>

update_balance(p) ==
    /\ update_balance_ok
    /\ payment' = IF payment = None \/ p.balance > payment.balance
                  THEN p ELSE payment
    /\ UNCHANGED <<funding, usage, closing, closed, journal>>

compare_payment(expected, p) ==
    /\ get_state = "Open"
    /\ p.balance > expected.balance
    /\ payment = expected
    /\ payment' = p
    /\ UNCHANGED <<funding, usage, closing, closed, journal>>

(* increment_usage looks at no other column: it also succeeds for a channel
   that is closed, or that has no funding. *)
increment_usage(u) ==
    /\ usage' = usage + u
    /\ UNCHANGED <<funding, payment, closing, closed, journal>>

(* The SQLite UPDATE needs the channel's row; the memory maps do not. *)
row_exists == Backend = "sqlite" => funding # None

mark_closing_ok == journal = None /\ closed = None /\ row_exists

mark_closing(p) ==
    /\ mark_closing_ok
    /\ closing' = p
    /\ UNCHANGED <<funding, payment, usage, closed, journal>>

mark_closed_ok == journal = None /\ closed = None /\ row_exists

mark_closed(a) ==
    /\ mark_closed_ok
    /\ closed' = a
    /\ closing' = None
    /\ UNCHANGED <<funding, payment, usage, journal>>

freeze_close(expected, j) ==
    /\ get_state = "Open"
    /\ payment = expected
    /\ journal = None
    /\ closing' = expected
    /\ journal' = j
    /\ UNCHANGED <<funding, payment, usage, closed>>

(* completed = None leaves the channel in Closing. *)
advance_close(expected, j, completed) ==
    /\ journal = expected
    /\ get_state = "Closing"
    /\ journal' = j
    /\ IF completed = None
       THEN UNCHANGED <<closing, closed>>
       ELSE closed' = completed /\ closing' = None
    /\ UNCHANGED <<funding, payment, usage>>

(* Any sequence of calls of the public trait. *)
SaveFunding == \E f \in Fundings : save_funding(f)
UpdateBalance == \E p \in Payment : update_balance(p)
ComparePayment == \E e, p \in Payment : compare_payment(e, p)
IncrementUsage == \E u \in Usages : usage + u <= MaxUsage /\ increment_usage(u)
MarkClosing == \E p \in Payment : mark_closing(p)
MarkClosed == \E a \in Balances : mark_closed(a)
FreezeClose == \E p \in Payment, j \in Journals : freeze_close(p, j)
AdvanceClose == \E e, j \in Journals, a \in Balances \cup {None} :
                    advance_close(e, j, a)

StoreNext ==
    \/ SaveFunding
    \/ UpdateBalance
    \/ ComparePayment
    \/ IncrementUsage
    \/ MarkClosing
    \/ MarkClosed
    \/ FreezeClose
    \/ AdvanceClose

StoreSpec == StoreInit /\ [][StoreNext]_storeVars

-----------------------------------------------------------------------------
(* Every column holds a value of its type. *)
StoreTypeOK ==
    /\ funding \in Fundings \cup {None}
    /\ payment \in Payment \cup {None}
    /\ usage \in Nat
    /\ closing \in Payment \cup {None}
    /\ closed \in Balances \cup {None}
    /\ journal \in Journals \cup {None}

(* A journaled close is frozen at exactly the payment that is recorded: from
   freeze_close on, no update_balance, compare_payment, mark_closing or
   mark_closed moves the payment, the closing authorization or the state, and
   only advance_close takes the channel out of Closing
   (ARCHITECTURE.md "payments cannot update a frozen channel"). *)
JournalFreezesPayment ==
    journal # None => /\ get_state \in {"Closing", "Closed"}
                      /\ payment # None
                      /\ get_state = "Closing" => closing = payment

(* Payments and closings hang on funding in the SQLite backend: the row that
   save_funding inserts is what every later UPDATE needs. *)
RecordsNeedFunding ==
    /\ payment # None => funding # None
    /\ Backend = "sqlite" /\ get_state # "Unknown" => funding # None

Rank(s) == IF s = "Closed" THEN 3 ELSE IF s = "Closing" THEN 2
           ELSE IF s = "Open" THEN 1 ELSE 0

(* No call moves the lifecycle backwards, funding and the closed record are
   written once, and the recorded payment only changes while the channel is
   Open and only to a strictly higher balance: the receiver never loses a
   better payment and never takes one after closing has begun. *)
Ratchet ==
    [][ /\ Rank(get_state') >= Rank(get_state)
        /\ funding # None => funding' = funding
        /\ closed # None => closed' = closed
        /\ payment' # payment =>
              /\ get_state = "Open"
              /\ payment # None => payment'.balance > payment.balance ]_storeVars

(* Once a journal is installed the closing authorization cannot be replaced:
   while the channel stays in Closing it is the one that was frozen. *)
JournaledClosingFixed ==
    [][journal # None /\ get_state' = "Closing" => closing' = closing]_storeVars
=============================================================================
