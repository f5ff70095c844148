----------------------------- MODULE MCArconNode -----------------------------
(* ArconNode for TLC.                                                       *)
EXTENDS ArconNode, TLC

Symmetry == Permutations(InChannels)
=============================================================================
