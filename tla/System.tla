-------------------------------- MODULE System -------------------------------
(***************************************************************************)
(* The two programs connected by the broker.  Backend and Simulator leave  *)
(* their environments free: Backend hears an ACK of anything it has sent,  *)
(* Simulator is given any command.  Here each is the environment of the    *)
(* other, and the broker routes commands by their topic and ACKs by the    *)
(* subscriptions of the backend's session.                                 *)
(*                                                                         *)
(* The broker may hold a message back for ever, or deliver it again: what  *)
(* is promised about its queue is Delivery's matter.                       *)
(***************************************************************************)
CONSTANTS
  Request, Device, Body, Wild, NoDevice,  \* as in Backend
  Other, QueueCap, Telemetry,             \* as in Simulator
  None,                                   \* as in both
  BackendAnswers,     \* answers the operators give when the backend starts
  SimulatorAnswers    \* answers the operators give when the simulator starts

VARIABLES
  \* the backend process, and what it has handed to MQTT
  bcfg, topic, blast, bcur, tracker, published, processed, forced, sent,
  \* the simulator process, and what it has handed to MQTT
  scfg, rx, queue, seenIDs, pc, scur, out, slast, acks,
  \* the broker
  cmds,     \* commands it has for the simulator
  heard,    \* filters of the backend's session
  inbox     \* ACKs it has for the backend

backendVars == <<bcfg, topic, blast, bcur, tracker, published, processed, forced, sent>>
simulatorVars == <<scfg, rx, queue, seenIDs, pc, scur, out, slast, acks>>
brokerVars == <<cmds, heard, inbox>>
vars == <<backendVars, simulatorVars, brokerVars>>

\* What Handle reads of an ACK.  ack.Build knows one status only.
HandlerView == {[id |-> a.id, status |-> "ACKNOWLEDGED"] : a \in inbox}

B == INSTANCE Backend WITH cfg <- bcfg, last <- blast, cur <- bcur, acks <- HandlerView
S == INSTANCE Simulator WITH cfg <- scfg, cur <- scur, last <- slast

ASSUME SystemAssumption ==
  /\ B!BackendAssumption
  /\ S!SimulatorAssumption
  /\ BackendAnswers \subseteq B!Config
  /\ SimulatorAnswers \subseteq S!Config
-----------------------------------------------------------------------------
Init ==
  /\ bcfg \in BackendAnswers
  /\ scfg \in SimulatorAnswers
  /\ heard = {bcfg.device}
  /\ inbox = {}
  /\ B!Init
  /\ S!Init

(* The two programs *)

BackendStep ==
  /\ UNCHANGED <<simulatorVars, brokerVars>>
  /\ B!MainNext \/ B!Handle \/ B!ForceAck

\* A new process subscribes to the ACK topic of its device.  What its
\* predecessor had subscribed to stays if the session does.
BackendRestart ==
  /\ bcfg' \in BackendAnswers
  /\ heard' = {bcfg'.device} \/ heard' = heard \cup {bcfg'.device}
  /\ UNCHANGED <<simulatorVars, cmds, inbox>>
  /\ B!Restart

SimulatorStep ==
  /\ UNCHANGED <<backendVars, brokerVars>>
  /\ S!Receive \/ S!Run

SimulatorRestart ==
  /\ scfg' \in SimulatorAnswers
  /\ UNCHANGED <<backendVars, brokerVars>>
  /\ S!Restart

(* The broker between them *)

\* What Parse makes of a command: the device is that of its topic.
Parse(m) == [id |-> m.id, device |-> m.topic]

\* The simulator's subscription matches the command's topic.
RouteCommand ==
  /\ \E m \in sent : cmds' = cmds \cup {Parse(m)}
  /\ UNCHANGED <<backendVars, simulatorVars, heard, inbox>>

\* The backend's session has a filter that matches the ACK's topic.
RouteAck ==
  /\ \E a \in acks :
       /\ a.topic \in Device
       /\ heard \cap {Wild, a.topic} # {}
       /\ inbox' = inbox \cup {a}
  /\ UNCHANGED <<backendVars, simulatorVars, cmds, heard>>

Next ==
  \/ BackendStep \/ BackendRestart
  \/ SimulatorStep \/ SimulatorRestart
  \/ RouteCommand \/ RouteAck

Spec == Init /\ [][Next]_vars
-----------------------------------------------------------------------------
(* Properties *)

\* A request id together with a device, of a command or of an ACK.
Pair(m) == [id |-> m.id, device |-> m.device]

\* From end to end: what the simulator is given was sent, each of its ACKs
\* answers a command that was sent to the device it names, and the backend
\* processes a request only on such an ACK.
SystemInv ==
  /\ heard \subseteq Device \cup {Wild}
  /\ inbox \subseteq acks
  /\ cmds \subseteq {Parse(m) : m \in sent}
  /\ {Pair(a) : a \in acks} \subseteq {Pair(m) : m \in sent}
  /\ processed \subseteq {a.id : a \in inbox}

\* Handle tells requests apart by their id alone, and an ACK may be late by a
\* restart of either program.  Still a request is ACKNOWLEDGED only if a command
\* of that id was answered by the very device it was addressed to: as long as
\* an operator does not type the same id for two devices, by the right one.
AcknowledgedByAddressee ==
  \A r \in Request :
    B!Acknowledged(r) =>
      \E m \in sent, a \in acks : m.id = r /\ Pair(a) = Pair(m)

\* Every ACK of an autonomous simulator is for the device it was sent for, even
\* as a repeat after commands for another device have come in.
AutonomousAckTopic == S!AutonomousAckTopic

\* Each program is a correct environment of the other: what the broker gives it
\* is what its own specification allows it to be given.
BackendSpec == B!Spec
SimulatorSpec == S!Spec

\* MQTT-Command-Firing-POC.md:263: the system goes through the delivery stages
\* of each command in their order, on whichever goroutine and over whichever
\* restarts: see Stages.
Promise == INSTANCE Stages WITH
  fired <- {Pair(m) : m \in sent},
  confirmed <- published,
  answered <- {Pair(a) : a \in acks},
  settled <- processed

StagesInOrder == Promise!Spec
=============================================================================
