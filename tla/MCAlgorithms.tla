---------------------------- MODULE MCAlgorithms ----------------------------
(***************************************************************************)
(* Model-checking instance of the three modules on pure algorithms.  Their *)
(* variables are disjoint and no step involves two of them, so one         *)
(* behaviour explores one of the modules, named by part, and keeps the     *)
(* variables of the others at one initial value.                           *)
(***************************************************************************)
EXTENDS Amounts, SwapCompletion, ChannelKeys

CONSTANTS r1, r2, k1, k2

VARIABLE part

-----------------------------------------------------------------------------
(* Amounts: binary denominations without and with a fee, denominations that *)
(* the greedy split handles badly with a fee close to an output's value, a  *)
(* keyset without the denomination 1, a keyset of another unit, and one for *)
(* inputs and refunds only: its fee is too high for a channel.              *)
Binary == {1, 2, 4, 8, 16}
Free == [id |-> "free", unit |-> "sat", amounts |-> Binary, ppk |-> 0]
Fee == [id |-> "fee", unit |-> "sat", amounts |-> Binary, ppk |-> 400]
Dear == [id |-> "dear", unit |-> "sat", amounts |-> {1, 5, 7}, ppk |-> 999]
Even == [id |-> "even", unit |-> "sat", amounts |-> {2, 4, 8}, ppk |-> 100]
Other == [id |-> "other", unit |-> "usd", amounts |-> {1, 3}, ppk |-> 500]
Toll == [id |-> "toll", unit |-> "sat", amounts |-> {1, 2}, ppk |-> 1500]

MCFeeKeysets == {Free, Fee, Dear, Even, Other, Toll}

MCAmountTerms ==
    {[keyset |-> ks, max |-> max] : ks \in {Free, Fee}, max \in {0, 1, 4}}
    \cup {[keyset |-> Dear, max |-> max] : max \in {0, 5}}
    \cup {[keyset |-> ks, max |-> 0] : ks \in {Even, Other}}

(* One input, and two of any of the keysets. *)
MCOpeningInputs ==
    {<< [amount |-> 16, keyset |-> ks.id] >> : ks \in MCFeeKeysets}
    \cup {<< [amount |-> a, keyset |-> ks.id], [amount |-> 2, keyset |-> other.id] >> :
             a \in {1, 16}, ks, other \in MCFeeKeysets}

MCCharges ==
    [prices : {<< p1, p2 >> : p1, p2 \in {0, 3, MaxU}}, scale : {1, 2},
     pending : {<< 0, 0 >>, << 7, 1 >>}]

(* Swap completion: nothing, one output, two of the same and of different   *)
(* amounts on either side.                                                  *)
MCSplits == {<< >>, << 1 >>, << 1, 1 >>, << 2, 1 >>}

-----------------------------------------------------------------------------
SwapIdle ==
    /\ job = [opening |-> FALSE, rerandomized |-> FALSE, first |-> << 1 >>,
              second |-> << >>, keyset |-> k1]
    /\ SwapInit

KeysIdle == parties = [alice |-> 1, charlie |-> 2, mode |-> "ordinary"] /\ KeysInit

MCInit ==
    \/ part = "amounts" /\ AmountsInit /\ SwapIdle /\ KeysIdle
    \/ part = "swaps" /\ AmountsInit /\ SwapInit /\ KeysIdle
    \/ part = "keys" /\ AmountsInit /\ SwapIdle /\ KeysInit

MCNext ==
    /\ UNCHANGED part
    /\ \/ part = "amounts" /\ AmountsNext /\ UNCHANGED << swapVars, keyVars >>
       \/ part = "swaps" /\ SwapNext /\ UNCHANGED << amountVars, keyVars >>
       \/ part = "keys" /\ HashFalls /\ UNCHANGED << amountVars, swapVars >>

MCSpec == MCInit /\ [][MCNext]_<< part, amountVars, swapVars, keyVars >>
=============================================================================
