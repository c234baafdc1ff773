------------------------------- MODULE MCRefunds -------------------------------
(* Instances of Refunds: a payment of two units, enough for two refunds of    *)
(* one unit each, or for one of both.                                         *)
EXTENDS Refunds, TLC

MCSymmetry == Permutations(RefundIds) \union Permutations(RefundCalls)
=============================================================================
