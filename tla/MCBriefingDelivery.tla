-------------------------- MODULE MCBriefingDelivery --------------------------
(* Small instances of BriefingDelivery for TLC. *)
EXTENDS BriefingDelivery, TLC

CONSTANTS w1, w2, a, b

WorkerSymmetry == Permutations({w1, w2})
=============================================================================
