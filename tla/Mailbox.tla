-------------------------------- MODULE Mailbox ------------------------------
(***************************************************************************)
(* What option B promises of the commands for a device, on line or not     *)
(* (MQTT-Command-Firing-POC.md:29): a mailbox that delivers at least once. *)
(* A promised command stays in the box at least until it has arrived; it   *)
(* may arrive again until it has left the box.  A promise ends only with   *)
(* the expiry of its command, or all promises with that of the session.    *)
(***************************************************************************)
CONSTANT Command

VARIABLES
  promised,   \* commands whose promise stands
  box,        \* those the broker still keeps
  arrived     \* those that have reached the simulator

vars == <<promised, box, arrived>>
-----------------------------------------------------------------------------
Init == promised = {} /\ box = {} /\ arrived = {}

Post(c) ==
  /\ c \notin promised
  /\ promised' = promised \cup {c}
  /\ box' = box \cup {c}
  /\ arrived' = arrived

Arrive(c) ==
  /\ c \in box
  /\ arrived' = arrived \cup {c}
  /\ UNCHANGED <<promised, box>>

Leave(c) ==
  /\ c \in box \cap arrived
  /\ box' = box \ {c}
  /\ UNCHANGED <<promised, arrived>>

Expire(c) ==
  /\ promised' = promised \ {c}
  /\ box' = box \ {c}
  /\ arrived' = arrived \ {c}

\* The session has expired, or the operator has left option B.
Void == promised' = {} /\ box' = {} /\ arrived' = {}

Next == Void \/ \E c \in Command : Post(c) \/ Arrive(c) \/ Leave(c) \/ Expire(c)

Spec == Init /\ [][Next]_vars
=============================================================================
