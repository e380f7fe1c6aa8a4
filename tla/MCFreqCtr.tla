----------------------------- MODULE MCFreqCtr -----------------------------
(* Small instances of FreqCtr for TLC.                                     *)
EXTENDS FreqCtr, TLC

=============================================================================
