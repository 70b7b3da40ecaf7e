--------------------------- MODULE MCPaymentServer ---------------------------
(* Model-checking instance of PaymentServer: the handlers are interchangeable
   in every action and property, so runs without liveness use them as a
   symmetry set. *)
EXTENDS PaymentServer, TLC

HandlerSymmetry == Permutations(Handlers)
=============================================================================
