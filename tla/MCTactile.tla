----------------------------- MODULE MCTactile -----------------------------
(* Small instances of TactileCollect: as in the sample set of the code the   *)
(* samples that turn the arm come last.                                      *)
EXTENDS TactileCollect

MCRotSamples == 1..(Samples - 1)
=============================================================================
