-------------------------------- MODULE Answers ------------------------------
(***************************************************************************)
(* Which answers to the start-up prompts the two programs accept           *)
(* (Config.validate of each).  An answer c has the delivery mode, the QoS, *)
(* the retain flag, whether the session is persistent, and whether it has  *)
(* an expiry other than 0.                                                 *)
(***************************************************************************)

BackendValid(c) == c.mode = "B" => c.qos = 1 /\ ~c.retain

\* Plausible bug: the session expiry is not validated.
BugSimulatorValid(c) == c.mode = "B" => c.qos = 1 /\ c.persistent

SimulatorValid(c) == c.mode = "B" => c.qos = 1 /\ c.persistent /\ c.expiry
=============================================================================
