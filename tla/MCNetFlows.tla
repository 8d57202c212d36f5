----------------------------- MODULE MCNetFlows -----------------------------
(* Instances of NetFlows for TLC.                                            *)
EXTENDS NetFlows, TLC

FlowSymmetry == Permutations(Jobs)
=============================================================================
