----------------------------- MODULE MCBlueGreen ----------------------------
(* Small instances of BlueGreen.                                           *)
EXTENDS BlueGreen
=============================================================================
