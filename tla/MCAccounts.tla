----------------------------- MODULE MCAccounts -----------------------------
(* A small instance of Accounts.                                           *)
EXTENDS Accounts, TLC

CONSTANTS r1, r2, k1, k2, p1, p2

Symmetry == Permutations({r1, r2}) \cup Permutations({k1, k2})
            \cup Permutations({p1, p2})
=============================================================================
