----------------------------- MODULE MCDispute -----------------------------
(* A small table for TLC. *)
EXTENDS Dispute, TLC

CONSTANTS d1, d2, u1, u2, r1, r2, text

RequestSymmetry == Permutations(Requests)
=============================================================================
