----------------------------- MODULE SystemProofs ----------------------------
(***************************************************************************)
(* Proofs about System.  The two programs are each other's environment, so *)
(* the argument is circular, and an invariant breaks the circle: Whole     *)
(* joins the invariants of both programs with what is true of the broker.  *)
(* From it every step of the system is a step of either program's own      *)
(* specification (BackendRefines, SimulatorRefines), whose invariants are  *)
(* then preserved by the lemmas of BackendProofs and SimulatorProofs.      *)
(*                                                                         *)
(* BP and SP are B and S again, with their theorems.                       *)
(***************************************************************************)
EXTENDS System, TLAPS

BP == INSTANCE BackendProofs WITH cfg <- bcfg, last <- blast, cur <- bcur, acks <- HandlerView
SP == INSTANCE SimulatorProofs WITH cfg <- scfg, cur <- scur, last <- slast

\* The inductive invariant.
Whole == SystemInv /\ B!BackendInv /\ S!SimulatorInv

\* What is assumed of the constants is what both programs assume.
LEMMA Constants ==
  /\ BP!BackendAssumption /\ SP!SimulatorAssumption
  /\ BackendAnswers \subseteq B!Config /\ SimulatorAnswers \subseteq S!Config
BY SystemAssumption
DEF SystemAssumption, B!BackendAssumption, S!SimulatorAssumption,
    BP!BackendAssumption, SP!SimulatorAssumption

\* B and BP are the same specification, and so are S and SP.
LEMMA BackendIsBP ==
  /\ B!Init <=> BP!Init
  /\ [B!Next]_(B!vars) <=> [BP!Next]_(BP!vars)
  /\ B!BackendInv <=> BP!BackendInv
  /\ B!BackendInv' <=> BP!BackendInv'
<1>1. B!Init <=> BP!Init
  BY DEF B!Init, BP!Init, B!Config, BP!Config, B!SetDeviceTopics, BP!SetDeviceTopics
<1>2. [B!Next]_(B!vars) <=> [BP!Next]_(BP!vars)
  BY DEF B!Next, BP!Next, B!MainNext, BP!MainNext, B!RepeatLast, BP!RepeatLast,
      B!Generated, BP!Generated, B!IDs, BP!IDs, B!PublishSaved, BP!PublishSaved,
      B!PublishTopic, BP!PublishTopic, B!Wildcard, BP!Wildcard, B!CanPublish,
      BP!CanPublish, B!Set, BP!Set, B!handlerVars, BP!handlerVars, B!NewCommand,
      BP!NewCommand, B!AbandonPrompt, BP!AbandonPrompt, B!Transmit, BP!Transmit,
      B!mainVars, BP!mainVars, B!PublishOK, BP!PublishOK, B!MarkPublished,
      BP!MarkPublished, B!PublishErr, BP!PublishErr, B!Handle, BP!Handle,
      B!HandleDuplicate, BP!HandleDuplicate, B!IsNew, BP!IsNew, B!HandleSuccess,
      BP!HandleSuccess, B!MarkProcessed, BP!MarkProcessed, B!HandleAck,
      BP!HandleAck, B!TransitionAllowed, BP!TransitionAllowed, B!ValidTransition,
      BP!ValidTransition, B!ForceAck, BP!ForceAck, B!DeviceAck, BP!DeviceAck, B!Ack,
      BP!Ack, B!Restart, BP!Restart, B!Config, BP!Config, B!SetDeviceTopics,
      BP!SetDeviceTopics, B!vars, BP!vars
<1>3. (B!BackendInv <=> BP!BackendInv) /\ (B!BackendInv' <=> BP!BackendInv')
  BY DEF B!BackendInv, BP!BackendInv, B!TypeOK, BP!TypeOK, B!Config, BP!Config,
      B!Saved, BP!Saved, B!Command, BP!Command, B!Status, BP!Status, B!Ack, BP!Ack,
      B!StatusMeaning, BP!StatusMeaning, B!Acknowledged, BP!Acknowledged,
      B!TopicMatchesPayload, BP!TopicMatchesPayload, B!InFlightIsNew,
      BP!InFlightIsNew, B!KnownWasSent, BP!KnownWasSent, B!IDs, BP!IDs,
      B!DeviceIsFixed, BP!DeviceIsFixed, B!Wildcard, BP!Wildcard, B!InFlightMeaning,
      BP!InFlightMeaning, B!ForcedMeaning, BP!ForcedMeaning
<1> QED
  BY <1>1, <1>2, <1>3

LEMMA SimulatorIsSP ==
  /\ S!Init <=> SP!Init
  /\ [S!Next]_(S!vars) <=> [SP!Next]_(SP!vars)
  /\ S!SimulatorInv <=> SP!SimulatorInv
  /\ S!SimulatorInv' <=> SP!SimulatorInv'
<1>1. S!Init <=> SP!Init
  BY DEF S!Init, SP!Init, S!Config, SP!Config, S!Start, SP!Start, S!FirstOut, SP!FirstOut
<1>2. [S!Next]_(S!vars) <=> [SP!Next]_(SP!vars)
  BY DEF S!Next, SP!Next, S!Receive, SP!Receive, S!Classify, SP!Classify,
      S!IsDuplicate, SP!IsDuplicate, S!runVars, SP!runVars, S!Enqueue, SP!Enqueue,
      S!HasRoom, SP!HasRoom, S!Drop, SP!Drop, S!Run, SP!Run, S!Dequeue, SP!Dequeue,
      S!Autonomous, SP!Autonomous, S!AckOf, SP!AckOf, S!Answer, SP!Answer, S!Ignore,
      SP!Ignore, S!OfferRepeat, SP!OfferRepeat, S!SkipAck, SP!SkipAck, S!SendAck,
      SP!SendAck, S!Topic, SP!Topic, S!Transmit, SP!Transmit, S!Publishing,
      SP!Publishing, S!PublishReturns, SP!PublishReturns, S!AckOK, SP!AckOK,
      S!Transmitted, SP!Transmitted, S!AckErr, SP!AckErr, S!TelemetryOK,
      SP!TelemetryOK, S!TelemetryErr, SP!TelemetryErr, S!RepeatOK, SP!RepeatOK,
      S!RepeatErr, SP!RepeatErr, S!Repeat, SP!Repeat, S!RepeatOf, SP!RepeatOf,
      S!Continue, SP!Continue, S!CommandPublished, SP!CommandPublished, S!Command,
      SP!Command, S!Restart, SP!Restart, S!Config, SP!Config, S!Start, SP!Start,
      S!FirstOut, SP!FirstOut, S!vars, SP!vars
<1>3. (S!SimulatorInv <=> SP!SimulatorInv) /\ (S!SimulatorInv' <=> SP!SimulatorInv')
  BY DEF S!SimulatorInv, SP!SimulatorInv, S!TypeOK, SP!TypeOK, S!Config, SP!Config,
      S!Command, SP!Command, S!Incoming, SP!Incoming, S!Point, SP!Point,
      S!Publishing, SP!Publishing, S!Ack, SP!Ack, S!Topic, SP!Topic, S!RunMeaning,
      SP!RunMeaning, S!Autonomous, SP!Autonomous, S!FlagSound, SP!FlagSound,
      S!Sound, SP!Sound, S!SeenMeansAcked, SP!SeenMeansAcked, S!IDs, SP!IDs,
      S!LastWasSent, SP!LastWasSent, S!AcksReceived, SP!AcksReceived,
      S!AutonomousTopics, SP!AutonomousTopics
<1> QED
  BY <1>1, <1>2, <1>3

\* Each program preserves its own invariant (BackendProofs, SimulatorProofs).
LEMMA ProgramsStep ==
  /\ B!BackendInv /\ [B!Next]_(B!vars) => B!BackendInv'
  /\ S!SimulatorInv /\ [S!Next]_(S!vars) => S!SimulatorInv'
<1>1. BP!BackendAssumption /\ SP!SimulatorAssumption
  BY Constants
<1>2. BP!BackendInv /\ [BP!Next]_(BP!vars) => BP!BackendInv'
  BY <1>1, BP!BackendInvStep
<1>3. SP!SimulatorInv /\ [SP!Next]_(SP!vars) => SP!SimulatorInv'
  BY <1>1, SP!SimulatorInvStep
<1> QED
  BY <1>2, <1>3, BackendIsBP, SimulatorIsSP

\* What the proofs below use of the two invariants.
LEMMA WholeMeaning ==
  ASSUME Whole
  PROVE  /\ sent \subseteq B!Command /\ acks \subseteq S!Ack
         /\ bcur \in B!Command \cup {None} /\ out \in S!Ack \cup {Telemetry, None}
         /\ \A m \in sent : m.topic = m.device
         /\ \A a \in acks : [id |-> a.id, device |-> a.device] \in cmds
         /\ \A r \in Request : B!Acknowledged(r) => r \in processed
BY DEF Whole, B!BackendInv, B!TypeOK, B!TopicMatchesPayload, B!StatusMeaning,
       S!SimulatorInv, S!TypeOK, S!AcksReceived

\* An ACK that the broker delivers is one that Backend's environment may send.
LEMMA RouteAckRefines ==
  ASSUME Whole, RouteAck
  PROVE  B!DeviceAck
<1>1. PICK a \in acks : inbox' = inbox \cup {a}
  BY DEF RouteAck
<1> DEFINE view == [id |-> a.id, status |-> "ACKNOWLEDGED"]
<1>2. a.id \in Request /\ Pair(a) \in {Pair(m) : m \in sent}
  BY WholeMeaning DEF Whole, SystemInv, S!Ack
<1>3. PICK m \in sent : Pair(m) = Pair(a)
  BY <1>2
<1>4. a.id = m.id
  BY <1>3 DEF Pair
<1>5. view.id \in B!IDs(sent) /\ view \in B!Ack
  BY <1>2, <1>4 DEF B!IDs, B!Ack
<1>6. HandlerView' = HandlerView \cup {view}
  BY <1>1 DEF HandlerView
<1>7. UNCHANGED backendVars
  BY DEF RouteAck
<1> QED
  BY <1>5, <1>6, <1>7 DEF B!DeviceAck, backendVars, B!mainVars, B!handlerVars

\* Every step of the system is a step of Backend: the simulator and the broker
\* are a backend's environment.
LEMMA BackendRefines ==
  ASSUME Whole, [Next]_vars
  PROVE  [B!Next]_(B!vars)
<1>1. CASE BackendStep
  BY <1>1 DEF BackendStep, B!Next
<1>2. CASE BackendRestart
  BY <1>2 DEF BackendRestart, B!Next
<1>3. CASE RouteAck
  BY <1>3, RouteAckRefines DEF B!Next
<1>4. CASE UNCHANGED <<backendVars, inbox>>
  BY <1>4 DEF backendVars, HandlerView, B!vars, B!mainVars, B!handlerVars
<1> QED
  BY <1>1, <1>2, <1>3, <1>4
  DEF Next, SimulatorStep, SimulatorRestart, RouteCommand, vars, brokerVars

\* Every step of the system is a step of Simulator: the backend and the broker
\* are a simulator's environment.
LEMMA SimulatorRefines ==
  ASSUME Whole, [Next]_vars
  PROVE  [S!Next]_(S!vars)
<1>1. CASE SimulatorStep
  BY <1>1 DEF SimulatorStep, S!Next
<1>2. CASE SimulatorRestart
  BY <1>2 DEF SimulatorRestart, S!Next
<1>3. CASE RouteCommand
  <2>1. PICK m \in sent : cmds' = cmds \cup {Parse(m)}
    BY <1>3 DEF RouteCommand
  <2>2. Parse(m) \in S!Command
    BY WholeMeaning DEF Parse, S!Command, B!Command
  <2> QED
    BY <1>3, <2>1, <2>2
    DEF RouteCommand, simulatorVars, S!CommandPublished, S!runVars, S!Next
<1>4. CASE UNCHANGED <<simulatorVars, cmds>>
  BY <1>4 DEF simulatorVars, S!vars, S!runVars
<1> QED
  BY <1>1, <1>2, <1>3, <1>4
  DEF Next, BackendStep, BackendRestart, RouteAck, vars, brokerVars

\* Every variable of Whole is in the initial state what the programs expect.
LEMMA WholeInit == Init => Whole
<1> SUFFICES ASSUME Init PROVE Whole
  OBVIOUS
<1>1. B!BackendInv
  <2>1. BP!BackendAssumption
    BY Constants
  <2>2. BP!Init => BP!BackendInv
    BY <2>1, BP!BackendInvInit
  <2> QED
    BY <2>2, BackendIsBP DEF Init
<1>2. S!SimulatorInv
  <2>1. SP!SimulatorAssumption
    BY Constants
  <2>2. SP!Init => SP!SimulatorInv
    BY <2>1, SP!SimulatorInvInit
  <2> QED
    BY <2>2, SimulatorIsSP DEF Init
<1>3. SystemInv
  BY Constants DEF Init, B!Init, S!Init, SystemInv, B!Config
<1> QED
  BY <1>1, <1>2, <1>3 DEF Whole

\* What the backend has sent is never taken back.
LEMMA SentGrows ==
  ASSUME [B!Next]_(B!vars)
  PROVE  sent \subseteq sent'
BY DEF B!Next, B!MainNext, B!RepeatLast, B!NewCommand, B!PublishSaved, B!AbandonPrompt,
       B!Transmit, B!PublishOK, B!PublishErr, B!Handle, B!HandleDuplicate, B!HandleSuccess,
       B!HandleAck, B!ForceAck, B!DeviceAck, B!Restart, B!vars, B!mainVars, B!handlerVars

\* The backend processes only what it hears, and forgets it when it restarts.
LEMMA ProcessedFromInbox ==
  ASSUME [Next]_vars
  PROVE  processed' \subseteq processed \cup {a.id : a \in inbox}
<1>1. CASE BackendStep
  <2>1. CASE B!MainNext \/ B!ForceAck
    BY <2>1
    DEF B!MainNext, B!RepeatLast, B!NewCommand, B!PublishSaved, B!AbandonPrompt, B!Transmit,
        B!PublishOK, B!PublishErr, B!ForceAck, B!handlerVars
  <2>2. CASE B!Handle
    BY <2>2
    DEF B!Handle, B!HandleDuplicate, B!HandleSuccess, B!HandleAck, B!MarkProcessed,
        B!handlerVars, HandlerView
  <2> QED
    BY <1>1, <2>1, <2>2 DEF BackendStep
<1>2. CASE BackendRestart
  BY <1>2 DEF BackendRestart, B!Restart
<1>3. CASE UNCHANGED backendVars
  BY <1>3 DEF backendVars
<1> QED
  BY <1>1, <1>2, <1>3
  DEF Next, SimulatorStep, SimulatorRestart, RouteCommand, RouteAck, vars

\* ACKs are only added.
LEMMA AcksGrow ==
  ASSUME [S!Next]_(S!vars)
  PROVE  acks \subseteq acks'
BY DEF S!Next, S!Receive, S!Classify, S!Enqueue, S!Drop, S!Run, S!Dequeue, S!Answer, S!Ignore,
       S!SkipAck, S!SendAck, S!Transmit, S!PublishReturns, S!AckOK, S!AckErr, S!TelemetryOK,
       S!TelemetryErr, S!RepeatOK, S!RepeatErr, S!Repeat, S!Continue, S!CommandPublished,
       S!Restart, S!vars

\* Every step of the system preserves the invariant.
LEMMA WholeStep == Whole /\ [Next]_vars => Whole'
<1> SUFFICES ASSUME Whole, [Next]_vars PROVE Whole'
  OBVIOUS
<1>1. B!BackendInv' /\ S!SimulatorInv'
  BY BackendRefines, SimulatorRefines, ProgramsStep DEF Whole
<1>2. sent \subseteq sent' /\ acks \subseteq acks'
  BY BackendRefines, SimulatorRefines, SentGrows, AcksGrow
<1>3. (heard \subseteq Device \cup {Wild})'
  BY Constants
  DEF Next, BackendStep, BackendRestart, SimulatorStep, SimulatorRestart, RouteCommand,
      RouteAck, vars, brokerVars, Whole, SystemInv, B!Config
<1>4. (inbox \subseteq acks)'
  BY <1>2
  DEF Next, BackendStep, BackendRestart, SimulatorStep, SimulatorRestart, RouteCommand,
      RouteAck, vars, brokerVars, Whole, SystemInv
<1>5. (cmds \subseteq {Parse(m) : m \in sent})'
  BY <1>2
  DEF Next, BackendStep, BackendRestart, SimulatorStep, SimulatorRestart, RouteCommand,
      RouteAck, vars, brokerVars, Whole, SystemInv, S!Receive, S!Run
<1>6. ({Pair(a) : a \in acks} \subseteq {Pair(m) : m \in sent})'
  <2> SUFFICES ASSUME NEW a \in acks' PROVE \E m \in sent' : Pair(m) = Pair(a)
    OBVIOUS
  <2>1. [id |-> a.id, device |-> a.device] \in cmds'
    BY <1>1 DEF S!SimulatorInv, S!AcksReceived
  <2>2. PICK m \in sent' : Parse(m) = [id |-> a.id, device |-> a.device]
    BY <1>5, <2>1
  <2>3. m.topic = m.device
    BY <1>1 DEF B!BackendInv, B!TopicMatchesPayload
  <2> QED
    BY <2>2, <2>3 DEF Parse, Pair
<1>7. (processed \subseteq {a.id : a \in inbox})'
  <2>1. inbox \subseteq inbox'
    BY DEF Next, BackendStep, BackendRestart, SimulatorStep, SimulatorRestart, RouteCommand,
           RouteAck, vars, brokerVars
  <2> QED
    BY <2>1, ProcessedFromInbox DEF Whole, SystemInv
<1> QED
  BY <1>1, <1>3, <1>4, <1>5, <1>6, <1>7 DEF Whole, SystemInv

\* Whole is an invariant of the system.
THEOREM WholeHolds == Spec => []Whole
<1>1. Init => Whole
  BY WholeInit
<1>2. Whole /\ [Next]_vars => Whole'
  BY WholeStep
<1> QED
  BY <1>1, <1>2, PTL DEF Spec

\* From end to end nothing is made up: commands, ACKs and processed requests go
\* back to what was really sent.
THEOREM NothingInvented == Spec => []SystemInv
BY WholeHolds, PTL DEF Whole

\* A request becomes ACKNOWLEDGED only by the device a command of its id was
\* addressed to, over restarts of either program, repeats and late ACKs.
THEOREM RightDeviceAcknowledges == Spec => []AcknowledgedByAddressee
<1>1. Whole => AcknowledgedByAddressee
  <2> SUFFICES ASSUME Whole, NEW r \in Request, B!Acknowledged(r)
               PROVE  \E m \in sent, a \in acks : m.id = r /\ Pair(a) = Pair(m)
    BY DEF AcknowledgedByAddressee
  <2>1. PICK a \in acks : a.id = r
    BY WholeMeaning DEF Whole, SystemInv
  <2>2. PICK m \in sent : Pair(m) = Pair(a)
    BY DEF Whole, SystemInv
  <2> QED
    BY <2>1, <2>2 DEF Pair
<1> QED
  BY <1>1, WholeHolds, PTL

\* The simulator and the broker are an environment that Backend allows for: all
\* that is proved of Backend holds in the system.
THEOREM ImplementsBackend == Spec => BackendSpec
<1>1. Init => B!Init
  BY DEF Init
<1>2. Whole /\ [Next]_vars => [B!Next]_(B!vars)
  BY BackendRefines
<1> QED
  BY <1>1, <1>2, WholeHolds, PTL DEF Spec, BackendSpec, B!Spec

\* The backend and the broker are an environment that Simulator allows for.
THEOREM ImplementsSimulator == Spec => SimulatorSpec
<1>1. Init => S!Init
  BY DEF Init
<1>2. Whole /\ [Next]_vars => [S!Next]_(S!vars)
  BY SimulatorRefines
<1> QED
  BY <1>1, <1>2, WholeHolds, PTL DEF Spec, SimulatorSpec, S!Spec

\* Among what is proved of Simulator: autonomous ACKs go to their own device.
THEOREM SystemAcksGoHome == Spec => AutonomousAckTopic
<1>1. SP!SimulatorAssumption
  BY Constants
<1>2. SP!Spec => SP!AutonomousAckTopic
  BY <1>1, SP!AcksGoHome
<1>3. S!Spec => SP!Spec
  BY SimulatorIsSP, PTL DEF S!Spec, SP!Spec
<1>4. SP!AutonomousAckTopic => AutonomousAckTopic
  BY DEF AutonomousAckTopic, S!AutonomousAckTopic, SP!AutonomousAckTopic,
         S!Autonomous, SP!Autonomous, S!vars, SP!vars, S!runVars, SP!runVars
<1> QED
  BY <1>2, <1>3, <1>4, ImplementsSimulator, PTL DEF SimulatorSpec

\* A request is told apart by its id alone, so an id typed for two devices can be
\* acknowledged by the wrong one.  If every id is used for one device only, all
\* commands of an ACKNOWLEDGED request have been answered by their device, and no
\* other device has answered any of them.
THEOREM OnlyAddresseeAcknowledges ==
  Spec => [](  (\A m, n \in sent : m.id = n.id => m.device = n.device)
            => \A r \in Request, m \in sent :
                 B!Acknowledged(r) /\ m.id = r =>
                   /\ \E a \in acks : Pair(a) = Pair(m)
                   /\ \A a \in acks : a.id = r => Pair(a) = Pair(m))
<1> DEFINE OneDevice == \A m, n \in sent : m.id = n.id => m.device = n.device
           Answered(m) == \E a \in acks : Pair(a) = Pair(m)
           ByNobodyElse(m) == \A a \in acks : a.id = m.id => Pair(a) = Pair(m)
<1>1. ASSUME Whole, OneDevice, NEW m \in sent PROVE ByNobodyElse(m)
  <2>1. SUFFICES ASSUME NEW a \in acks, a.id = m.id PROVE Pair(a) = Pair(m)
    OBVIOUS
  <2>2. PICK n \in sent : Pair(n) = Pair(a)
    BY <1>1 DEF Whole, SystemInv
  <2>3. n.id = m.id /\ n.device = a.device
    BY <2>1, <2>2 DEF Pair
  <2>4. a.device = m.device
    BY <1>1, <2>3
  <2> QED
    BY <2>1, <2>4 DEF Pair
<1>2. ASSUME Whole, OneDevice, NEW r \in Request, NEW m \in sent, B!Acknowledged(r), m.id = r
      PROVE  Answered(m)
  <2>1. PICK a \in acks : a.id = r
    BY <1>2, WholeMeaning DEF Whole, SystemInv
  <2> QED
    BY <1>1, <1>2, <2>1
<1>3. Whole => (OneDevice => \A r \in Request, m \in sent :
        B!Acknowledged(r) /\ m.id = r =>
          /\ \E a \in acks : Pair(a) = Pair(m)
          /\ \A a \in acks : a.id = r => Pair(a) = Pair(m))
  BY <1>1, <1>2
<1> QED
  BY <1>3, WholeHolds, PTL

\* Among what is proved of Backend: in the system too, with the broker keeping
\* ACKs over restarts of the backend, a status agrees with the idempotency
\* stores and is about a command that was handed to MQTT.
THEOREM SystemStatusesSound == Spec => [](B!StatusMeaning /\ B!StatusHasCommand)
<1>1. Whole => B!StatusMeaning /\ B!StatusHasCommand
  BY DEF Whole, B!BackendInv, B!StatusMeaning, B!KnownWasSent, B!StatusHasCommand, B!Acknowledged
<1> QED
  BY <1>1, WholeHolds, PTL

\* Also among it: the simulator's repeats and the broker's redeliveries make no
\* request acknowledged twice, and none that is confirmed falls back.
THEOREM SystemAcknowledgesOnce ==
  Spec => B!AcknowledgedOnce /\ B!NoRegressionOnceConfirmed
<1>1. BP!BackendAssumption
  BY Constants
<1>2. BP!Spec => BP!AcknowledgedOnce /\ BP!NoRegressionOnceConfirmed
  BY <1>1, BP!AckOnce, BP!NoRegression
<1>3. B!Spec => BP!Spec
  BY BackendIsBP, PTL DEF B!Spec, BP!Spec
<1>4. BP!AcknowledgedOnce => B!AcknowledgedOnce
  BY DEF B!AcknowledgedOnce, BP!AcknowledgedOnce, B!Acknowledged, BP!Acknowledged,
         B!vars, BP!vars, B!mainVars, BP!mainVars, B!handlerVars, BP!handlerVars
<1>5. BP!NoRegressionOnceConfirmed => B!NoRegressionOnceConfirmed
  BY DEF B!NoRegressionOnceConfirmed, BP!NoRegressionOnceConfirmed, B!Acknowledged,
         BP!Acknowledged, B!vars, BP!vars, B!mainVars, BP!mainVars, B!handlerVars,
         BP!handlerVars
<1> QED
  BY <1>2, <1>3, <1>4, <1>5, ImplementsBackend, PTL DEF BackendSpec

\* A pair is a command of Stages.
LEMMA PairType ==
  ASSUME NEW m, m.id \in Request, m.device \in Device
  PROVE  Pair(m) \in Promise!Command
BY DEF Pair, Promise!Command

\* The id of a message is the id of its pair.
LEMMA PairIDs ==
  ASSUME NEW T, NEW m \in T
  PROVE  m.id \in Promise!IDs({Pair(t) : t \in T})
<1>1. Pair(m) \in {Pair(t) : t \in T}
  OBVIOUS
<1>2. m.id = Pair(m).id
  BY DEF Pair
<1> QED
  BY <1>1, <1>2 DEF Promise!IDs

\* The operator loop fires and confirms commands, or does what Stages does not
\* see.
LEMMA MainAdvances ==
  ASSUME Whole, B!MainNext, UNCHANGED acks
  PROVE  [Promise!Next]_(Promise!vars)
<1>1. CASE B!Transmit
  <2>1. /\ sent' = sent \cup {bcur} /\ bcur \in B!Command
        /\ UNCHANGED <<published, processed>>
    BY <1>1, WholeMeaning DEF B!Transmit, B!mainVars, B!handlerVars
  <2>2. Pair(bcur) \in Promise!Command
    BY <2>1, PairType DEF B!Command
  <2>3. {Pair(m) : m \in sent'} = {Pair(m) : m \in sent} \cup {Pair(bcur)}
    BY <2>1
  <2> QED
    BY <2>1, <2>2, <2>3 DEF Promise!Fire, Promise!Next
<1>2. CASE B!PublishOK
  <2>1. /\ bcur \in sent /\ published' = published \cup {bcur.id}
        /\ UNCHANGED <<sent, processed>>
    BY <1>2 DEF B!PublishOK, B!MarkPublished, B!handlerVars
  <2>2. bcur.id \in Promise!IDs({Pair(m) : m \in sent})
    BY <2>1, PairIDs
  <2> QED
    BY <2>1, <2>2 DEF Promise!Confirm, Promise!Next
<1>3. CASE UNCHANGED <<sent, published, processed>>
  BY <1>3 DEF Promise!vars
<1> QED
  BY <1>1, <1>2, <1>3
  DEF B!MainNext, B!RepeatLast, B!NewCommand, B!PublishSaved, B!AbandonPrompt, B!PublishErr,
      B!handlerVars

\* Handle settles a request, unless the ACK is a duplicate.
LEMMA HandleAdvances ==
  ASSUME Whole, B!Handle \/ B!ForceAck, UNCHANGED acks
  PROVE  [Promise!Next]_(Promise!vars)
<1>1. UNCHANGED <<sent, published>>
  BY DEF B!Handle, B!HandleDuplicate, B!HandleSuccess, B!HandleAck, B!ForceAck, B!mainVars
<1>2. CASE processed' = processed
  BY <1>1, <1>2 DEF Promise!vars
<1>3. CASE processed' # processed
  <2>1. PICK v \in HandlerView : processed' = processed \cup {v.id}
    BY <1>3
    DEF B!Handle, B!HandleDuplicate, B!HandleSuccess, B!HandleAck, B!ForceAck,
        B!MarkProcessed, B!handlerVars
  <2>2. PICK a \in acks : a.id = v.id
    BY DEF HandlerView, Whole, SystemInv
  <2>3. a.id \in Promise!IDs({Pair(b) : b \in acks})
    BY PairIDs
  <2> QED
    BY <1>1, <2>1, <2>2, <2>3 DEF Promise!Settle, Promise!Next
<1> QED
  BY <1>2, <1>3

\* The simulator answers a command when it hands its ACK to MQTT, and only a
\* command that was fired.
LEMMA SimulatorAdvances ==
  ASSUME Whole, Whole', S!Receive \/ S!Run, UNCHANGED backendVars
  PROVE  [Promise!Next]_(Promise!vars)
<1>1. UNCHANGED <<sent, published, processed>>
  BY DEF backendVars
<1>2. CASE acks' = acks
  BY <1>1, <1>2 DEF Promise!vars
<1>3. CASE acks' # acks
  <2>1. acks' = acks \cup {out}
    BY <1>3
    DEF S!Receive, S!Classify, S!Enqueue, S!Drop, S!Run, S!Dequeue, S!Answer, S!Ignore,
        S!SkipAck, S!SendAck, S!Transmit, S!PublishReturns, S!AckOK, S!AckErr, S!TelemetryOK,
        S!TelemetryErr, S!RepeatOK, S!RepeatErr, S!Repeat, S!Continue
  <2>2. {Pair(a) : a \in acks'} = {Pair(a) : a \in acks} \cup {Pair(out)}
    BY <2>1
  <2>3. Pair(out) \in {Pair(m) : m \in sent}
    BY <1>1, <2>1 DEF Whole, SystemInv
  <2> QED
    BY <1>1, <2>2, <2>3 DEF Promise!Answer, Promise!Next
<1> QED
  BY <1>2, <1>3

\* The delivery stages: every step of the two programs and the broker advances
\* some command by one stage, forgets what the backend knew, or stutters.
THEOREM ImplementsStages == Spec => StagesInOrder
<1>1. Init => Promise!Init
  BY DEF Init, B!Init, S!Init, Promise!Init
<1>2. ASSUME Whole, Whole', [Next]_vars PROVE [Promise!Next]_(Promise!vars)
  <2>1. CASE BackendStep
    BY <1>2, <2>1, MainAdvances, HandleAdvances DEF BackendStep, simulatorVars
  <2>2. CASE BackendRestart
    BY <2>2 DEF BackendRestart, B!Restart, simulatorVars, Promise!Forget, Promise!Next
  <2>3. CASE SimulatorStep
    BY <1>2, <2>3, SimulatorAdvances DEF SimulatorStep
  <2>4. CASE UNCHANGED <<backendVars, acks>>
    BY <2>4 DEF backendVars, Promise!vars
  <2> QED
    BY <1>2, <2>1, <2>2, <2>3, <2>4
    DEF Next, SimulatorRestart, S!Restart, RouteCommand, RouteAck, vars, simulatorVars
<1> QED
  BY <1>1, <1>2, WholeHolds, PTL DEF Spec, StagesInOrder, Promise!Spec
=============================================================================
