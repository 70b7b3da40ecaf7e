----------------------------- MODULE ClientStore -----------------------------
(***************************************************************************)
(* The sender's durable record of its channels: the operations of the      *)
(* ClientStorage trait as MemoryClientStorage and SqliteClientStorage      *)
(* implement them.  Each is one call on a RefCell, or one SQL transaction  *)
(* under the connection mutex, hence one action.                           *)
(*                                                                         *)
(* The failure text of a rejected opening is readable exactly while the    *)
(* state is OpeningFailed, and every step into that state writes it, so    *)
(* the state stands for it.                                                *)
(***************************************************************************)
EXTENDS Integers

CONSTANTS
    Backend,      \* "memory" or "sqlite"
    Channels,     \* channel ids
    Openings,     \* opening records (parameters, change secrets, input token)
    Proofs,       \* funding proofs
    Balances,     \* balances that appear in payments
    MaxCount,     \* bound on the payment counter
    None          \* absence of a value

States == {"OpeningFromSwap", "OpeningFailed", "Open", "Closing", "Closed"}
Funded == {"Open", "Closing", "Closed"}
PaymentState == [balance : Balances, count : 1..MaxCount]

ASSUME ClientStoreAssumption ==
    /\ Backend \in {"memory", "sqlite"}
    /\ Balances \subseteq Nat
    /\ MaxCount \in Nat
    /\ None \notin Openings \cup Proofs \cup States \cup PaymentState

VARIABLES
    state,        \* [Channels -> lifecycle state]
    opening,      \* [Channels -> opening record], kept until set_open
    funding,      \* [Channels -> funding proofs]
    pstate        \* [Channels -> ClientPaymentState]

storeVars == <<state, opening, funding, pstate>>

StoreInit ==
    /\ state = [c \in Channels |-> None]
    /\ opening = [c \in Channels |-> None]
    /\ funding = [c \in Channels |-> None]
    /\ pstate = [c \in Channels |-> None]

save_opening_ok(c, o) ==
    \/ state[c] = None
    \/ state[c] \in {"OpeningFromSwap", "OpeningFailed"} /\ opening[c] = o

(* The SQLite row is inserted with its other columns NULL; the memory maps keep
   a payment recorded before the channel was known. *)
save_opening_from_swap(c, o) ==
    /\ save_opening_ok(c, o)
    /\ state' = [state EXCEPT ![c] = "OpeningFromSwap"]
    /\ opening' = [opening EXCEPT ![c] = o]
    /\ UNCHANGED <<funding, pstate>>

get_opening_from_swap(c) ==
    IF state[c] = "OpeningFromSwap" THEN opening[c] ELSE None

(* SQLite reads funding_json only in a funded state. *)
get_funding(c) ==
    IF Backend = "memory" \/ state[c] \in Funded THEN funding[c] ELSE None

set_open_ok(c, p) ==
    \/ state[c] = "OpeningFromSwap" /\ opening[c] # None
    \/ state[c] \in Funded /\ funding[c] = p

(* Mutant: completing an opening again makes the channel Open again. *)
set_open_again(c, p) ==
    /\ set_open_ok(c, p)
    /\ state' = [state EXCEPT ![c] = "Open"]
    /\ opening' = [opening EXCEPT ![c] = None]
    /\ funding' = [funding EXCEPT ![c] = p]
    /\ UNCHANGED pstate

set_open(c, p) ==
    /\ set_open_ok(c, p)
    /\ IF state[c] = "OpeningFromSwap"
       THEN /\ state' = [state EXCEPT ![c] = "Open"]
            /\ opening' = [opening EXCEPT ![c] = None]
            /\ funding' = [funding EXCEPT ![c] = p]
       ELSE UNCHANGED <<state, opening, funding>>
    /\ UNCHANGED pstate

(* Memory asks for an opening record, SQLite for the state. *)
set_opening_failed_ok(c) ==
    IF Backend = "memory" THEN opening[c] # None
    ELSE state[c] = "OpeningFromSwap"

set_opening_failed(c) ==
    /\ set_opening_failed_ok(c)
    /\ state' = [state EXCEPT ![c] = "OpeningFailed"]
    /\ UNCHANGED <<opening, funding, pstate>>

(* Mutant: a payment is inserted when the channel has no row. *)
row_exists_upsert(c) == TRUE

(* The SQLite UPDATE needs the channel's row; the memory map does not. *)
row_exists(c) == Backend = "sqlite" => state[c] # None

save_payment_state(c, s) ==
    /\ row_exists(c)
    /\ pstate' = [pstate EXCEPT ![c] = s]
    /\ UNCHANGED <<state, opening, funding>>

set_closed(c) ==
    /\ row_exists(c)
    /\ Backend = "sqlite" => state[c] # "Closed"
    /\ state' = [state EXCEPT ![c] = "Closed"]
    /\ UNCHANGED <<opening, funding, pstate>>

set_closing(c) ==
    /\ Backend = "sqlite" => state[c] \in {"Open", "Closing"}
    /\ state' = [state EXCEPT ![c] = "Closing"]
    /\ UNCHANGED <<opening, funding, pstate>>

delete(c) ==
    /\ state' = [state EXCEPT ![c] = None]
    /\ opening' = [opening EXCEPT ![c] = None]
    /\ funding' = [funding EXCEPT ![c] = None]
    /\ pstate' = [pstate EXCEPT ![c] = None]

(* Any sequence of calls of the public trait. *)
SaveOpening == \E c \in Channels, o \in Openings : save_opening_from_swap(c, o)
SetOpen == \E c \in Channels, p \in Proofs : set_open(c, p)
SetOpeningFailed == \E c \in Channels : set_opening_failed(c)
SavePaymentState == \E c \in Channels, s \in PaymentState : save_payment_state(c, s)
SetClosed == \E c \in Channels : set_closed(c)
SetClosing == \E c \in Channels : set_closing(c)
Delete == \E c \in Channels : delete(c)

StoreNext ==
    \/ SaveOpening \/ SetOpen \/ SetOpeningFailed \/ SavePaymentState
    \/ SetClosed \/ SetClosing \/ Delete

StoreSpec == StoreInit /\ [][StoreNext]_storeVars

-----------------------------------------------------------------------------
(* Every column holds a value of its type. *)
StoreTypeOK ==
    /\ state \in [Channels -> States \cup {None}]
    /\ opening \in [Channels -> Openings \cup {None}]
    /\ funding \in [Channels -> Proofs \cup {None}]
    /\ pstate \in [Channels -> PaymentState \cup {None}]

(* A record is in one of its two phases: before set_open it holds the opening,
   from then on the funding, and never both; a payable channel has funding and
   an opening that can be recovered has its record
   ("corrupt OpeningFromSwap state" is never reported). *)
OnePhase ==
    \A c \in Channels :
        /\ opening[c] = None \/ funding[c] = None
        /\ state[c] = "Open" => funding[c] # None
        /\ state[c] \in {"OpeningFromSwap", "OpeningFailed"} => opening[c] # None

(* "Existing differing or funded channel records must not be overwritten": no
   call replaces an opening or the funding by another one, and none brings a
   funded record back into an opening state. *)
RecordsNotOverwritten ==
    [][\A c \in Channels :
          /\ opening[c] # None => opening'[c] \in {opening[c], None}
          /\ funding[c] # None => funding'[c] \in {funding[c], None}
          /\ funding[c] # None =>
                state'[c] \notin {"OpeningFromSwap", "OpeningFailed"}]_storeVars

(* "Channel is closed, no more payments allowed": a closed channel stays closed
   until its record is deleted. *)
ClosedStaysClosed ==
    [][\A c \in Channels : state[c] = "Closed" => state'[c] \in {"Closed", None}]_storeVars
=============================================================================
