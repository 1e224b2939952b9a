------------------------------- MODULE MCSystem ------------------------------
(* Small instances of System for TLC.                                      *)
EXTENDS System, TLC

\* One backend for all devices, or one that is restarted for each.
MCBackendAnswers == [allowDup : {FALSE}, device : Device \cup {Wild}]

MCSimulatorAnswers == [mode : {"autonomous"}, telemetry : {FALSE}]

\* No action or property tells devices apart.
Symmetry == Permutations(Device)
=============================================================================
