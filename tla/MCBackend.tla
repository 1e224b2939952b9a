------------------------------ MODULE MCBackend ------------------------------
(* Small instances of Backend for TLC.                                     *)
EXTENDS Backend, TLC

\* No action or property tells the members of one of these sets apart.
Symmetry ==
  Permutations(Request) \cup Permutations(Device) \cup Permutations(Body)
=============================================================================
