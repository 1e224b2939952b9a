----------------------------- MODULE MCSimulator -----------------------------
(* Small instances of Simulator for TLC.                                   *)
EXTENDS Simulator, TLC

\* No action or safety property tells requests, or devices, apart.
Symmetry == Permutations(Request) \cup Permutations(Device)
=============================================================================
