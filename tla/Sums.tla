-------------------------------- MODULE Sums --------------------------------
(***************************************************************************)
(* The sum of a sequence of amounts.                                       *)
(***************************************************************************)
EXTENDS Naturals, Sequences

SumOf(amounts) ==
    LET sum[i \in 0..Len(amounts)] == IF i = 0 THEN 0 ELSE sum[i - 1] + amounts[i]
    IN  sum[Len(amounts)]
=============================================================================
