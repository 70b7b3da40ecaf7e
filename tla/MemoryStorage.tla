---------------------------- MODULE MemoryStorage ----------------------------
(***************************************************************************)
(* MemoryStorage at the grain of its locks: one map per RwLock, and the    *)
(* close_gate mutex that serializes the operations which look at one map   *)
(* and write another.  Checks under the gate read maps that only gated     *)
(* operations write (funding only grows), so they are one step with taking *)
(* the gate; each write to a map is a step of its own, because get_state   *)
(* and the other readers take no gate.                                     *)
(*                                                                         *)
(* The writes are shown to implement the atomic operations of              *)
(* ReceiverStore; what readers see in between is checked separately.       *)
(***************************************************************************)
EXTENDS Integers

CONSTANTS Threads, Fundings, Balances, Signatures, Journals, None

Payment == [balance : Balances, signature : Signatures]

ASSUME MemoryAssumption ==
    /\ Balances \subseteq Nat
    /\ None \notin Fundings \cup Payment \cup Journals \cup Balances \cup Threads
    /\ None # "Closed"

VARIABLES
    fundingMap, balanceMap, closingMap, closedMap, journalMap,
    gate,      \* holder of close_gate
    pc,        \* next step of each thread
    arg,       \* argument of the thread's current operation
    began,     \* true state of the channel when a get_state call began
    result     \* what the last get_state call returned

maps == <<fundingMap, balanceMap, closingMap, closedMap, journalMap>>
vars == <<maps, gate, pc, arg, began, result>>

state ==
    IF closedMap # None THEN "Closed"
    ELSE IF closingMap # None THEN "Closing"
    ELSE IF fundingMap # None THEN "Open"
    ELSE "Unknown"

Init ==
    /\ fundingMap = None /\ balanceMap = None /\ closingMap = None
    /\ closedMap = None /\ journalMap = None
    /\ gate = None
    /\ pc = [t \in Threads |-> "idle"]
    /\ arg = [t \in Threads |-> None]
    /\ began = [t \in Threads |-> None]
    /\ result = [t \in Threads |-> None]

Goto(t, l) == pc' = [pc EXCEPT ![t] = l]
NoRead == UNCHANGED <<began, result>>

(* Mutant: the checks are not made under the gate. *)
Enter_ungated(t, l, a) ==
    /\ pc[t] = "idle"
    /\ gate' = t
    /\ Goto(t, l)
    /\ arg' = [arg EXCEPT ![t] = a]
    /\ NoRead /\ UNCHANGED maps

(* Takes the gate and, the checks having passed, goes on to the writes. *)
Enter(t, l, a) ==
    /\ pc[t] = "idle" /\ gate = None
    /\ gate' = t
    /\ Goto(t, l)
    /\ arg' = [arg EXCEPT ![t] = a]
    /\ NoRead /\ UNCHANGED maps

(* The last write of an operation releases the gate. *)
Leave(t) ==
    /\ gate' = None
    /\ Goto(t, "idle")
    /\ arg' = [arg EXCEPT ![t] = None]
    /\ NoRead

save_funding(t) ==
    /\ pc[t] = "idle"
    /\ fundingMap = None
    /\ \E f \in Fundings : fundingMap' = f
    /\ NoRead /\ UNCHANGED <<balanceMap, closingMap, closedMap, journalMap, gate, pc, arg>>

update_balance(t) ==
    /\ state = "Open"
    /\ \E p \in Payment : /\ (balanceMap # None => p.balance > balanceMap.balance)
                          /\ Enter(t, "write_balance", p)

compare_payment(t) ==
    /\ state = "Open"
    /\ \E e, p \in Payment : /\ balanceMap = e /\ p.balance > e.balance
                             /\ Enter(t, "write_balance", p)

write_balance(t) ==
    /\ pc[t] = "write_balance"
    /\ balanceMap' = arg[t]
    /\ UNCHANGED <<fundingMap, closingMap, closedMap, journalMap>>
    /\ Leave(t)

mark_closing(t) ==
    /\ journalMap = None /\ closedMap = None
    /\ \E p \in Payment : Enter(t, "write_closing", p)

write_closing(t) ==
    /\ pc[t] = "write_closing"
    /\ closingMap' = arg[t]
    /\ UNCHANGED <<fundingMap, balanceMap, closedMap, journalMap>>
    /\ Leave(t)

(* mark_closed: insert into closed, then remove from closing *)
mark_closed(t) ==
    /\ journalMap = None /\ closedMap = None
    /\ \E a \in Balances : Enter(t, "insert_closed", a)

insert_closed(t) ==
    /\ pc[t] = "insert_closed"
    /\ closedMap' = arg[t]
    /\ Goto(t, "remove_closing")
    /\ NoRead /\ UNCHANGED <<fundingMap, balanceMap, closingMap, journalMap, gate, arg>>

(* Mutant: the wrong map is cleared. *)
remove_closed(t) ==
    /\ pc[t] = "remove_closing"
    /\ closedMap' = None
    /\ UNCHANGED <<fundingMap, balanceMap, closingMap, journalMap>>
    /\ Leave(t)

remove_closing(t) ==
    /\ pc[t] = "remove_closing"
    /\ closingMap' = None
    /\ UNCHANGED <<fundingMap, balanceMap, closedMap, journalMap>>
    /\ Leave(t)

(* freeze_close: insert into closing, then into close_journals *)
freeze_close(t) ==
    /\ state = "Open" /\ journalMap = None
    /\ \E p \in Payment, j \in Journals :
          balanceMap = p /\ Enter(t, "freeze_closing", [payment |-> p, journal |-> j])

freeze_closing(t) ==
    /\ pc[t] = "freeze_closing"
    /\ closingMap' = arg[t].payment
    /\ Goto(t, "freeze_journal")
    /\ NoRead /\ UNCHANGED <<fundingMap, balanceMap, closedMap, journalMap, gate, arg>>

freeze_journal(t) ==
    /\ pc[t] = "freeze_journal"
    /\ journalMap' = arg[t].journal
    /\ UNCHANGED <<fundingMap, balanceMap, closingMap, closedMap>>
    /\ Leave(t)

(* advance_close: the payout first (if any), the journal last *)
advance_close(t) ==
    /\ state = "Closing" /\ journalMap # None
    /\ \E j \in Journals, a \in Balances \cup {None} :
          Enter(t, IF a = None THEN "advance_journal" ELSE "advance_closed",
                [amount |-> a, journal |-> j])

advance_closed(t) ==
    /\ pc[t] = "advance_closed"
    /\ closedMap' = arg[t].amount
    /\ Goto(t, "advance_closing")
    /\ NoRead /\ UNCHANGED <<fundingMap, balanceMap, closingMap, journalMap, gate, arg>>

advance_closing(t) ==
    /\ pc[t] = "advance_closing"
    /\ closingMap' = None
    /\ Goto(t, "advance_journal")
    /\ NoRead /\ UNCHANGED <<fundingMap, balanceMap, closedMap, journalMap, gate, arg>>

advance_journal(t) ==
    /\ pc[t] = "advance_journal"
    /\ journalMap' = arg[t].journal
    /\ UNCHANGED <<fundingMap, balanceMap, closingMap, closedMap>>
    /\ Leave(t)

-----------------------------------------------------------------------------
(* get_state outside the gate: three maps, three read locks. *)

Return(t, s) ==
    /\ result' = [result EXCEPT ![t] = s]
    /\ Goto(t, "idle")
    /\ UNCHANGED began

get_state(t) ==
    /\ pc[t] = "idle"
    /\ began' = [began EXCEPT ![t] = state]
    /\ result' = [result EXCEPT ![t] = None]
    /\ Goto(t, "read_closed")
    /\ UNCHANGED <<maps, gate, arg>>

read_closed(t) ==
    /\ pc[t] = "read_closed"
    /\ IF closedMap # None THEN Return(t, "Closed")
       ELSE Goto(t, "read_closing") /\ NoRead
    /\ UNCHANGED <<maps, gate, arg>>

read_closing(t) ==
    /\ pc[t] = "read_closing"
    /\ IF closingMap # None THEN Return(t, "Closing")
       ELSE Goto(t, "read_funding") /\ NoRead
    /\ UNCHANGED <<maps, gate, arg>>

read_funding(t) ==
    /\ pc[t] = "read_funding"
    /\ Return(t, IF fundingMap # None THEN "Open" ELSE "Unknown")
    /\ UNCHANGED <<maps, gate, arg>>

Next == \E t \in Threads :
    \/ save_funding(t) \/ update_balance(t) \/ compare_payment(t) \/ write_balance(t)
    \/ mark_closing(t) \/ write_closing(t)
    \/ mark_closed(t) \/ insert_closed(t) \/ remove_closing(t)
    \/ freeze_close(t) \/ freeze_closing(t) \/ freeze_journal(t)
    \/ advance_close(t) \/ advance_closed(t) \/ advance_closing(t) \/ advance_journal(t)
    \/ get_state(t) \/ read_closed(t) \/ read_closing(t) \/ read_funding(t)

Spec == Init /\ [][Next]_vars

-----------------------------------------------------------------------------
(* freeze_close takes effect when it writes the journal, a payout when it is
   inserted into closed. *)
Freezing == \E t \in Threads : pc[t] = "freeze_journal"
Paying(t) == \/ pc[t] = "advance_closing"
             \/ pc[t] = "advance_journal" /\ arg[t].amount # None

closingColumn == IF closedMap # None \/ Freezing THEN None ELSE closingMap
journalColumn == IF \E t \in Threads : Paying(t)
                 THEN arg[CHOOSE t \in Threads : Paying(t)].journal ELSE journalMap

Atomic == INSTANCE ReceiverStore WITH
    Backend <- "memory", Usages <- {}, MaxUsage <- 0, usage <- 0,
    funding <- fundingMap, payment <- balanceMap, closed <- closedMap,
    closing <- closingColumn, journal <- journalColumn

(* MemoryStorage's map-by-map writes, interleaved with the ungated
   save_funding, implement the atomic operations of the store: close_gate
   makes every check and the writes that depend on it one operation. *)
WritesAreAtomic == Atomic!StoreSpec

(* A get_state call that begins when the channel is Closed answers Closed:
   nothing ever removes the channel from the closed map. *)
ClosedSeenAsClosed ==
    \A t \in Threads : began[t] = "Closed" => result[t] \in {"Closed", None}

(* "Insert into closed before removing from closing, so that get_state (which
   checks closed first) never sees the channel in neither store and briefly
   reports it as Open" (MemoryStorage::mark_closed): a channel that had begun
   to close is not reported as Open. *)
ClosingNeverSeenAsOpen ==
    \A t \in Threads : began[t] \in {"Closing", "Closed"} => result[t] # "Open"
=============================================================================
