----------------------------- MODULE MCPayments -----------------------------
(* Instances of Payments for TLC. *)
EXTENDS Payments, TLC

PaymentSymmetry == Permutations(Payments)
=============================================================================
