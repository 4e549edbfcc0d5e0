---------------------------- MODULE MCTransfers ----------------------------
(* Small instances of Transfers for TLC: a release of one file or of two. *)
EXTENDS Transfers

OneFile == 1 .. 1
TwoFiles == 1 .. 2
=============================================================================
