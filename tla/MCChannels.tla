----------------------------- MODULE MCChannels -----------------------------
(* Channels for TLC.                                                          *)
EXTENDS Channels, TLC

\* The others can be exchanged.
OtherSymmetry == Permutations(Others)
=============================================================================
