-------------------------------- MODULE Stages -------------------------------
(***************************************************************************)
(* What the POC promises of a command, whoever the two processes, the      *)
(* threads in them and the broker are: the delivery stages of              *)
(* MQTT-Command-Firing-POC.md section 9.  A command is fired at a device;  *)
(* its publish may be confirmed (stage 2); its device may answer it (stage *)
(* 3); and the backend settles the request only when some device has       *)
(* answered it.  Confirmation and answer come in either order, and a       *)
(* backend that restarts forgets what was confirmed and what was settled,  *)
(* but a command once fired or answered stays so.                          *)
(***************************************************************************)
CONSTANTS
  Request,    \* request ids
  Device      \* device ids

VARIABLES
  fired,      \* commands handed to MQTT
  confirmed,  \* requests the backend knows to be published
  answered,   \* commands a device has acknowledged
  settled     \* requests the backend knows to be acknowledged

vars == <<fired, confirmed, answered, settled>>

Command == [id : Request, device : Device]
IDs(cs) == {c.id : c \in cs}
-----------------------------------------------------------------------------
Init ==
  /\ fired = {} /\ confirmed = {} /\ answered = {} /\ settled = {}

Fire ==
  /\ \E c \in Command : fired' = fired \cup {c}
  /\ UNCHANGED <<confirmed, answered, settled>>

\* Stage 2, which says nothing of the device.
Confirm ==
  /\ \E r \in IDs(fired) : confirmed' = confirmed \cup {r}
  /\ UNCHANGED <<fired, answered, settled>>

\* Stage 3, at the device: only the device a command was fired at answers it.
Answer ==
  /\ \E c \in fired : answered' = answered \cup {c}
  /\ UNCHANGED <<fired, confirmed, settled>>

\* Stage 3, at the backend.
Settle ==
  /\ \E r \in IDs(answered) : settled' = settled \cup {r}
  /\ UNCHANGED <<fired, confirmed, answered>>

\* The backend restarts.
Forget ==
  /\ confirmed' = {} /\ settled' = {}
  /\ UNCHANGED <<fired, answered>>

Next == Fire \/ Confirm \/ Answer \/ Settle \/ Forget

Spec == Init /\ [][Next]_vars
=============================================================================
