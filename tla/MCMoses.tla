------------------------------ MODULE MCMoses ------------------------------
(* Small pipelines for TLC: king is validated, gray is not. *)
EXTENDS Moses, FiniteSets, TLC

CONSTANTS t1, t2, king, gray

King == <<king>>
KingGray == <<king, gray>>
NoExtra == {<< >>}
MaybeGray == {<< >>, <<gray>>}
=============================================================================
