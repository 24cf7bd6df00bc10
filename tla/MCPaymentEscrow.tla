---------------------------- MODULE MCPaymentEscrow ----------------------------
(* Small instances of PaymentEscrow for TLC. *)
EXTENDS PaymentEscrow

(* A full release in two legs, and one that leaves a remainder. *)
Plans == {<<1, 1>>, <<1>>}
================================================================================
