------------------------------ MODULE MCDelivery -----------------------------
(* Small instances of Delivery for TLC.                                    *)
EXTENDS Delivery, TLC

\* No action or safety property tells requests, or devices, apart.
Symmetry == Permutations(Request) \cup Permutations(Device)
=============================================================================
