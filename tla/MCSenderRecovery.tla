-------------------------- MODULE MCSenderRecovery --------------------------
(* Model-checking instance of SenderRecovery: k2 lacks a denomination that
   splits of k1 do not need, so a refund split in k1 can be asked for in
   either keyset and one split in k2 only in k2. *)
EXTENDS SenderRecovery

CONSTANTS k1, k2

MCCovers == {<< k1, k1 >>, << k1, k2 >>, << k2, k2 >>}
=============================================================================
