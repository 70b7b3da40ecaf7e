--------------------------- MODULE SenderRecovery ---------------------------
(***************************************************************************)
(* The sender's way out of a channel: refunds after expiry, keyset-only    *)
(* successors of a refund, and recover_funds, which finds out where the    *)
(* funding went (NUT-07) and restores the sender's share of it (NUT-09).   *)
(* The receiver's close and the refunds race at the mint; requests and     *)
(* answers may be lost or arrive late; a recovery may be interrupted and   *)
(* is called with the attempts that were retained when it was called.      *)
(*                                                                         *)
(* A refund attempt is its derivation context, the keyset its secrets were *)
(* derived for and the keyset its outputs ask for.  The first two fix the  *)
(* blinded points, so an attempt and its successors ask for the same       *)
(* points under different keysets.  The host persists an attempt in the    *)
(* step that prepares it and keeps it.                                     *)
(***************************************************************************)
EXTENDS Naturals, FiniteSets

CONSTANTS Contexts,         \* derivation contexts of refund attempts
          Keysets,          \* keysets of the unit
          Covers,           \* <<k, l>>: l has the denominations of a split in k
          Expiry, MaxTime,  \* the channel's expiry and the end of time
          MaxAttempts, MaxNetFaults,
          NoAttempt

Attempts == [context : Contexts, derivation : Keysets, keyset : Keysets]

ASSUME RecoveryAssumption ==
    /\ Expiry \in Nat /\ MaxTime \in Nat /\ MaxNetFaults \in Nat /\ MaxAttempts \in Nat
    /\ Covers \subseteq Keysets \X Keysets
    /\ \A k \in Keysets : << k, k >> \in Covers
    /\ NoAttempt \notin Attempts

VARIABLES rerandomized, \* the channel's commitment mode
          now,        \* the sender's and the mint's clock
          attempts,   \* retained refund attempts
          wire,       \* refund requests on their way to the mint
          pendingOn,  \* the refund the mint is working on, or NoAttempt
          spend,      \* what spent the funding: [by, attempt, keyset, share]
          active,     \* the mint's active keyset
          op,         \* the recover_funds in progress
          result,     \* what the last one returned
          paid,       \* what reached the sender
          netFaults

vars == << rerandomized, now, attempts, wire, pendingOn, spend, active, op, result,
           paid, netFaults >>

Points(a) == << a.context, a.derivation >>

Spend(by, attempt, keyset, share) ==
    [by |-> by, attempt |-> attempt, keyset |-> keyset, share |-> share]

Idle == [step |-> "idle", attempts |-> {}, todo |-> {}, invalid |-> FALSE, keysets |-> {}]

Result(kind, attempt) == [kind |-> kind, attempt |-> attempt]

(* inspect_funding's aggregate of a truthful, complete NUT-07 answer. *)
inspect_funding ==
    IF pendingOn # NoAttempt THEN "pending"
    ELSE IF spend.by = "none" THEN "unspent"
    ELSE IF spend.by = "part" THEN "mixed"
    ELSE "spent"

Init ==
    /\ rerandomized \in BOOLEAN
    /\ now = 0
    /\ attempts = {}
    /\ wire = {}
    /\ pendingOn = NoAttempt
    /\ active \in Keysets
    /\ spend = Spend("none", NoAttempt, active, FALSE)
    /\ op = Idle
    /\ result = Result("none", NoAttempt)
    /\ paid = {}
    /\ netFaults = 0

-----------------------------------------------------------------------------
(* Refunds. *)

Tick ==
    /\ now < MaxTime
    /\ now' = now + 1
    /\ UNCHANGED << rerandomized, attempts, wire, pendingOn, spend, active, op, result, paid, netFaults >>

(* The same points asked for under another keyset, which must have every    *)
(* denomination of the split.                                               *)
replace_output_keyset(a, k) ==
    IF << a.derivation, k >> \in Covers
    THEN {[context |-> a.context, derivation |-> a.derivation, keyset |-> k]}
    ELSE {}

(* verify regenerates the attempt from its context and derivation keyset,   *)
(* replaces the keyset and compares; what the code prepares always passes.  *)
verify(a) == a \in Attempts /\ a \in replace_output_keyset(a, a.keyset)

Retain(a) ==
    /\ a \notin attempts
    /\ Cardinality(attempts) < MaxAttempts
    /\ attempts' = attempts \cup {a}
    /\ UNCHANGED << rerandomized, now, wire, pendingOn, spend, active, op, result, paid, netFaults >>

prepare_sender_refund_after_expiry == \E c \in Contexts, k \in Keysets :
    /\ now > Expiry
    /\ Retain([context |-> c, derivation |-> k, keyset |-> k])

(* Mutant: the successor takes the place of the attempt it came from. *)
with_output_keyset_replacing == \E a \in attempts, k \in Keysets :
    /\ verify(a)
    /\ k # a.keyset
    /\ \E successor \in replace_output_keyset(a, k) :
          attempts' = (attempts \ {a}) \cup {successor}
    /\ UNCHANGED << rerandomized, now, wire, pendingOn, spend, active, op, result, paid, netFaults >>

with_output_keyset == \E a \in attempts, k \in Keysets :
    /\ verify(a)
    /\ k # a.keyset
    /\ \E successor \in replace_output_keyset(a, k) : verify(successor) /\ Retain(successor)

(* The request goes out; what comes back is the mint's and network's doing. *)
submit_prepared_sender_refund == \E a \in attempts \ wire :
    /\ now > Expiry
    /\ verify(a)
    /\ wire' = wire \cup {a}
    /\ UNCHANGED << rerandomized, now, attempts, pendingOn, spend, active, op, result, paid, netFaults >>

-----------------------------------------------------------------------------
(* The mint, the network and the receiver (external). *)

MintRotates ==
    /\ \E k \in Keysets : k # active /\ active' = k
    /\ UNCHANGED << rerandomized, now, attempts, wire, pendingOn, spend, op, result, paid, netFaults >>

MintTakes == \E a \in wire :
    /\ pendingOn = NoAttempt
    /\ wire' = wire \ {a}
    /\ pendingOn' = IF spend.by = "none" /\ a.keyset = active /\ now > Expiry
                    THEN a ELSE NoAttempt
    /\ UNCHANGED << rerandomized, now, attempts, spend, active, op, result, paid, netFaults >>

(* The swap succeeds, its answer reaching the sender (whose completion      *)
(* checks every signature) or not; or it fails and the funding is free.     *)
MintFinishes ==
    /\ pendingOn # NoAttempt
    /\ pendingOn' = NoAttempt
    /\ \/ /\ spend' = Spend("refund", pendingOn, pendingOn.keyset, TRUE)
          /\ paid' \in {paid, paid \cup {"refund"}}
       \/ UNCHANGED << spend, paid >>
    /\ UNCHANGED << rerandomized, now, attempts, wire, active, op, result, netFaults >>

RequestLost == \E a \in wire :
    /\ netFaults < MaxNetFaults
    /\ wire' = wire \ {a}
    /\ netFaults' = netFaults + 1
    /\ UNCHANGED << rerandomized, now, attempts, pendingOn, spend, active, op, result, paid >>

(* The receiver's close pays the sender a share, or nothing. *)
ReceiverCloses == \E share \in BOOLEAN :
    /\ spend.by = "none"
    /\ pendingOn = NoAttempt
    /\ spend' = Spend("close", NoAttempt, active, share)
    /\ UNCHANGED << rerandomized, now, attempts, wire, pendingOn, active, op, result, paid, netFaults >>

(* A refund this host never retained, of all of the funding or of a part. *)
OtherRefund == \E by \in {"other", "part"} :
    /\ spend.by = "none"
    /\ pendingOn = NoAttempt
    /\ now > Expiry
    /\ spend' = Spend(by, NoAttempt, active, FALSE)
    /\ UNCHANGED << rerandomized, now, attempts, wire, pendingOn, active, op, result, paid, netFaults >>

-----------------------------------------------------------------------------
(* recover_funds. *)

Returns(r) ==
    /\ op' = Idle
    /\ result' = r
    /\ paid' = paid \cup ({r.kind} \cap {"refund", "close"})

(* The caller passes the attempts it has now and some historical keysets. *)
RecoverCalled(keysets) ==
    /\ op.step = "idle"
    /\ paid = {}
    /\ \A a \in attempts : verify(a)
    /\ op' = [step |-> "inspect", attempts |-> attempts, todo |-> attempts,
              invalid |-> FALSE, keysets |-> keysets]
    /\ UNCHANGED << rerandomized, now, attempts, wire, pendingOn, spend, active, result, paid, netFaults >>

RecoverInspects ==
    /\ op.step = "inspect"
    /\ IF inspect_funding = "spent"
       THEN op' = [op EXCEPT !.step = "restore"] /\ UNCHANGED << result, paid >>
       ELSE Returns(Result(inspect_funding, NoAttempt))
    /\ UNCHANGED << rerandomized, now, attempts, wire, pendingOn, spend, active, netFaults >>

(* Mutant: an unresolved attempt is passed over. *)
Tried_resolved(a, unresolved) ==
    [step |-> "restore", attempts |-> op.attempts, todo |-> op.todo \ {a},
     invalid |-> op.invalid, keysets |-> op.keysets]

(* One attempt less to try, unresolved or not. *)
Tried(a, unresolved) ==
    [step |-> "restore", attempts |-> op.attempts, todo |-> op.todo \ {a},
     invalid |-> op.invalid \/ unresolved, keysets |-> op.keysets]

(* Mutant: any candidate with the points is taken for the executed one. *)
RecoverRestores_any(a) ==
    /\ op.step = "restore"
    /\ a \in op.todo
    /\ IF spend.by = "refund" /\ Points(spend.attempt) = Points(a)
       THEN \E c \in op.attempts : Points(c) = Points(a) /\ Returns(Result("refund", c))
       ELSE /\ op' = Tried(a, FALSE)
            /\ UNCHANGED << result, paid >>
    /\ UNCHANGED << rerandomized, now, attempts, wire, pendingOn, spend, active, netFaults >>

(* The answer to a restore of a's points: nothing, or signatures whose      *)
(* keyset decides which candidate they complete.                            *)
RecoverRestores(a) ==
    /\ op.step = "restore"
    /\ a \in op.todo
    /\ LET issued == spend.by = "refund" /\ Points(spend.attempt) = Points(a)
           complete == {c \in op.attempts : /\ Points(c) = Points(a)
                                            /\ c.keyset = spend.attempt.keyset}
       IN  IF issued /\ complete # {}
           THEN \E c \in complete : Returns(Result("refund", c))
           ELSE /\ op' = Tried(a, issued)
                /\ UNCHANGED << result, paid >>
    /\ UNCHANGED << rerandomized, now, attempts, wire, pendingOn, spend, active, netFaults >>

(* A failed call, or an answer no candidate's exact completion accepts. *)
RestoreFails(a) ==
    /\ op.step = "restore"
    /\ a \in op.todo
    /\ netFaults < MaxNetFaults
    /\ netFaults' = netFaults + 1
    /\ op' = Tried(a, TRUE)
    /\ UNCHANGED << rerandomized, now, attempts, wire, pendingOn, spend, active, result, paid >>

(* Mutant: a rerandomized channel is never searched. *)
RecoverDiscovers_ordinary ==
    /\ op.step = "restore"
    /\ op.todo = {}
    /\ LET closed == spend.by = "close"
       IN  Returns(
             IF \/ op.invalid
                \/ rerandomized
                \/ closed /\ spend.share /\ spend.keyset \notin op.keysets
             THEN Result("error", NoAttempt)
             ELSE IF closed /\ spend.share THEN Result("close", NoAttempt)
             ELSE Result("no_known_payout", NoAttempt))
    /\ UNCHANGED << rerandomized, now, attempts, wire, pendingOn, spend, active, netFaults >>

(* The committed randomness fits the mode: the mint has it for a            *)
(* rerandomized close and for nothing else.                                 *)
close_randomness == rerandomized => spend.by = "close"

(* All refunds tried: discover the sender's outputs of a close, unless a    *)
(* refund is unresolved.                                                    *)
RecoverDiscovers ==
    /\ op.step = "restore"
    /\ op.todo = {}
    /\ LET closed == spend.by = "close"
       IN  Returns(
             IF \/ op.invalid
                \/ ~close_randomness
                \/ closed /\ spend.share /\ spend.keyset \notin op.keysets
             THEN Result("error", NoAttempt)
             ELSE IF closed /\ spend.share THEN Result("close", NoAttempt)
             ELSE Result("no_known_payout", NoAttempt))
    /\ UNCHANGED << rerandomized, now, attempts, wire, pendingOn, spend, active, netFaults >>

(* A failed inspection or discovery is an error; a crash leaves no result. *)
RecoverFails ==
    /\ op.step # "idle"
    /\ netFaults < MaxNetFaults
    /\ netFaults' = netFaults + 1
    /\ op' = Idle
    /\ result' \in {Result("error", NoAttempt), result}
    /\ UNCHANGED << rerandomized, now, attempts, wire, pendingOn, spend, active, paid >>

Recover ==
    \/ \E keysets \in SUBSET Keysets : RecoverCalled(keysets)
    \/ RecoverInspects
    \/ \E a \in Attempts : RecoverRestores(a)
    \/ \E a \in Attempts : RestoreFails(a)
    \/ RecoverDiscovers
    \/ RecoverFails

Next ==
    \/ Tick
    \/ prepare_sender_refund_after_expiry
    \/ with_output_keyset
    \/ submit_prepared_sender_refund
    \/ MintRotates
    \/ MintTakes
    \/ MintFinishes
    \/ RequestLost
    \/ ReceiverCloses
    \/ OtherRefund
    \/ Recover

Spec == Init /\ [][Next]_vars

(* The host calls recover_funds again and again with every historical       *)
(* keyset it has, and a call in progress proceeds.                          *)
Fairness ==
    /\ SF_vars(RecoverCalled(Keysets))
    /\ WF_vars(RecoverInspects)
    /\ WF_vars(\E a \in Attempts : RecoverRestores(a))
    /\ WF_vars(RecoverDiscovers)

LiveSpec == Spec /\ Fairness

-----------------------------------------------------------------------------
TypeOK ==
    /\ rerandomized \in BOOLEAN
    /\ now \in Nat
    /\ attempts \subseteq Attempts
    /\ wire \subseteq Attempts
    /\ pendingOn \in Attempts \cup {NoAttempt}
    /\ spend \in [by : {"none", "refund", "close", "other", "part"},
                  attempt : Attempts \cup {NoAttempt}, keyset : Keysets, share : BOOLEAN]
    /\ active \in Keysets
    /\ op \in [step : {"idle", "inspect", "restore"}, attempts : SUBSET Attempts,
               todo : SUBSET Attempts, invalid : BOOLEAN, keysets : SUBSET Keysets]
    /\ result \in [kind : {"none", "unspent", "pending", "mixed", "refund", "close",
                           "no_known_payout", "error"},
                   attempt : Attempts \cup {NoAttempt}]
    /\ paid \subseteq {"refund", "close"}
    /\ netFaults \in Nat

(* Whatever refund the mint works on or has executed was retained before it *)
(* was sent, was sent after expiry only, and is still retained: a lost      *)
(* answer never strands the proofs (verify of the attempt, points and       *)
(* keyset, still succeeds on the record).                                   *)
RefundRestorable ==
    /\ wire \cup {pendingOn} \subseteq attempts \cup {NoAttempt}
    /\ spend.by = "refund" => spend.attempt \in attempts /\ now > Expiry
    /\ \A a \in attempts : verify(a)

(* What recover_funds reports is what happened: a refund is attributed to   *)
(* the attempt, points and keyset, that the mint executed, even though its  *)
(* successors have the same points; a close payout is one of a close that   *)
(* paid the sender; and what reached the sender came from the spend.        *)
RecoveryExact ==
    /\ result.kind = "refund" => spend.by = "refund" /\ result.attempt = spend.attempt
    /\ result.kind = "close" => spend.by = "close" /\ spend.share
    /\ \A by \in paid : spend.by = by /\ spend.share

(* recover_funds concludes "no known payout" only when there is none: not   *)
(* while a refund it was given could not be restored, and not while a       *)
(* close's outputs of the sender wait at the mint.  Its answers are         *)
(* about the attempts it was given: RecoverDiscovers never concludes while  *)
(* the executed refund is one of them.                                      *)
AbsenceIsReal ==
    [][RecoverDiscovers /\ result'.kind = "no_known_payout" =>
          /\ spend.by # "close" \/ ~spend.share
          /\ spend.by = "refund" => spend.attempt \notin op.attempts]_vars

(* A sender that keeps calling recover_funds gets its money: once a         *)
(* retained refund or a close with a share for the sender has spent the     *)
(* funding, that payout reaches the sender.                                 *)
SenderMadeWhole ==
    (spend.by = "refund" \/ (spend.by = "close" /\ spend.share)) ~> (paid # {})
=============================================================================
