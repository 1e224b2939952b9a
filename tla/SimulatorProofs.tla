--------------------------- MODULE SimulatorProofs ---------------------------
(***************************************************************************)
(* Proofs about Simulator, for every capacity of the queue and every set   *)
(* of requests and devices.                                                *)
(*                                                                         *)
(* SimulatorInv is inductive: RunMeaning says what Run holds at each point *)
(* of its loop, and the other parts relate the commands in the process, the*)
(* ids it has seen and the message it could repeat to what was received    *)
(* from, and handed to, MQTT.                                              *)
(***************************************************************************)
EXTENDS Simulator, SequenceTheorems, TLAPS

\* Received commands and seen ids only grow within a process, so a command's
\* flag stays right while it waits.
LEMMA SoundMonotone ==
  ASSUME NEW c, Sound(c), cmds \subseteq cmds', seenIDs \subseteq seenIDs'
  PROVE  Sound(c)'
BY DEF Sound

\* The state of Run at the end of a command.
LEMMA OfferRepeatMeaning ==
  ASSUME OfferRepeat
  PROVE  /\ pc' \in {"idle", "offer"}
         /\ pc' = "offer" => last' # None
         /\ cur' = None
         /\ out' = None
BY DEF OfferRepeat

\* A process that has just started satisfies the invariant.
LEMMA SimulatorInvInit == Init => SimulatorInv
<1> SUFFICES ASSUME Init PROVE SimulatorInv
  OBVIOUS
<1>1. TypeOK
  BY SimulatorAssumption
  DEF Init, TypeOK, Config, Start, FirstOut, Point, Publishing
<1>2. RunMeaning /\ AutonomousTopics
  BY SimulatorAssumption DEF Init, RunMeaning, AutonomousTopics, Ack, Topic, Start, FirstOut
<1>3. FlagSound /\ SeenMeansAcked /\ LastWasSent /\ AcksReceived
  BY SimulatorAssumption
  DEF Init, FlagSound, SeenMeansAcked, LastWasSent, AcksReceived, Ack, Topic
<1> QED
  BY <1>1, <1>2, <1>3 DEF SimulatorInv

\* OnMessage preserves the invariant, at each of its two steps.
LEMMA ReceivePreserves ==
  ASSUME SimulatorInv, Receive
  PROVE  SimulatorInv'
<1> USE SimulatorAssumption
<1>1. UNCHANGED <<cfg, cmds, seenIDs, pc, cur, out, last, acks>>
  BY DEF Receive, Classify, Enqueue, Drop, runVars
<1>2. (RunMeaning /\ SeenMeansAcked /\ LastWasSent /\ AcksReceived /\ AutonomousTopics)'
  BY <1>1
  DEF SimulatorInv, RunMeaning, SeenMeansAcked, LastWasSent, AcksReceived, AutonomousTopics,
      Autonomous, IDs
<1>3. CASE Classify
  <2>1. PICK c \in cmds :
          rx' = [id |-> c.id, device |-> c.device, dup |-> c.id \in seenIDs] /\ queue' = queue
    BY <1>3 DEF Classify, IsDuplicate
  <2>2. c \in Command /\ c = [id |-> c.id, device |-> c.device]
    BY DEF SimulatorInv, TypeOK, Command
  <2>3. rx' \in Incoming /\ Sound(rx)'
    <3>1. c.id \in Request /\ c.device \in Device
      BY <2>2 DEF Command
    <3> DEFINE d == c.id \in seenIDs
    <3>2. d \in BOOLEAN
      OBVIOUS
    <3> HIDE DEF d
    <3>3. rx' = [id |-> c.id, device |-> c.device, dup |-> d]
      BY <2>1 DEF d
    <3>4. rx' \in Incoming /\ rx'.id = c.id /\ rx'.device = c.device /\ rx'.dup = d
      BY <3>1, <3>2, <3>3 DEF Incoming
    <3>5. d => c.id \in seenIDs
      BY DEF d
    <3> QED
      BY <1>1, <2>2, <3>4, <3>5 DEF Sound
  <2>4. TypeOK'
    BY <1>1, <2>1, <2>3 DEF SimulatorInv, TypeOK
  <2>5. FlagSound'
    BY <1>1, <2>1, <2>3 DEF SimulatorInv, FlagSound, Sound
  <2> QED
    BY <1>2, <2>4, <2>5 DEF SimulatorInv
<1>4. CASE Enqueue
  <2>1. /\ rx \in Incoming /\ Sound(rx) /\ rx' = None
        /\ queue \in Seq(Incoming) /\ queue' = Append(queue, rx) /\ Len(queue) < QueueCap
    BY <1>4 DEF Enqueue, HasRoom, SimulatorInv, TypeOK, FlagSound
  <2>2. /\ queue' \in Seq(Incoming) /\ Len(queue') = Len(queue) + 1
        /\ Len(queue) \in Nat
        /\ \A i \in 1..Len(queue) : queue'[i] = queue[i]
        /\ queue'[Len(queue) + 1] = rx
    BY <2>1
  <2>3. TypeOK'
    BY <1>1, <2>1, <2>2 DEF SimulatorInv, TypeOK
  <2>4. ASSUME NEW i \in 1..Len(queue') PROVE Sound(queue'[i])
    BY <2>1, <2>2 DEF SimulatorInv, FlagSound
  <2>5. FlagSound'
    BY <1>1, <2>1, <2>4 DEF SimulatorInv, FlagSound, Sound
  <2> QED
    BY <1>2, <2>3, <2>5 DEF SimulatorInv
<1>5. CASE Drop
  <2>1. rx' = None /\ queue' = queue
    BY <1>5 DEF Drop
  <2>2. TypeOK' /\ FlagSound'
    BY <1>1, <2>1 DEF SimulatorInv, TypeOK, FlagSound, Sound
  <2> QED
    BY <1>2, <2>2 DEF SimulatorInv
<1> QED
  BY <1>3, <1>4, <1>5 DEF Receive

\* Taking a command from the queue preserves the invariant.
LEMMA DequeuePreserves ==
  ASSUME SimulatorInv, Dequeue
  PROVE  SimulatorInv'
<1> USE SimulatorAssumption
<1>1. /\ queue \in Seq(Incoming) /\ queue # <<>>
      /\ queue' = Tail(queue) /\ cur' = queue[1]
      /\ UNCHANGED <<cfg, cmds, rx, seenIDs, last, acks>>
  BY DEF Dequeue, SimulatorInv, TypeOK
<1>2. /\ Len(queue) \in Nat \ {0} /\ queue[1] \in Incoming
      /\ queue' \in Seq(Incoming) /\ Len(queue') = Len(queue) - 1
      /\ \A i \in 1..Len(queue') : queue'[i] = queue[i + 1]
  BY <1>1
<1>3. \/ Autonomous /\ pc' = "acking" /\ out' = AckOf(queue[1], queue[1].device)
      \/ ~Autonomous /\ pc' = "present" /\ out' = None
  BY <1>1 DEF Dequeue
<1>4. cur' \in Incoming /\ cur' # None /\ cur'.id \in Request /\ cur'.device \in Device
  BY <1>1, <1>2 DEF Incoming
<1>5. Autonomous => out' \in Ack /\ out'.id = cur'.id /\ out'.device = cur'.device
                     /\ out'.topic = cur'.device
  BY <1>1, <1>3, <1>4 DEF AckOf, Ack, Topic
<1>6. TypeOK'
  BY <1>1, <1>2, <1>3, <1>4, <1>5 DEF SimulatorInv, TypeOK, Point, Publishing
<1>7. RunMeaning'
  BY <1>1, <1>3, <1>4, <1>5 DEF RunMeaning, Autonomous
<1>8. FlagSound'
  <2>1. \A i \in 1..Len(queue) : Sound(queue[i])
    BY DEF SimulatorInv, FlagSound
  <2>2. Sound(queue[1]) /\ \A i \in 1..Len(queue') : Sound(queue'[i])
    BY <1>2, <2>1
  <2> QED
    BY <1>1, <2>2 DEF SimulatorInv, FlagSound, Sound
<1>9. (SeenMeansAcked /\ LastWasSent /\ AcksReceived)'
  BY <1>1 DEF SimulatorInv, SeenMeansAcked, LastWasSent, AcksReceived, Autonomous, IDs
<1>10. AutonomousTopics'
  BY <1>1, <1>3, <1>5 DEF SimulatorInv, AutonomousTopics, Autonomous
<1> QED
  BY <1>6, <1>7, <1>8, <1>9, <1>10 DEF SimulatorInv

\* The operator's answers preserve the invariant.
LEMMA AnswerPreserves ==
  ASSUME SimulatorInv, Answer
  PROVE  SimulatorInv'
<1> USE SimulatorAssumption
<1>1. /\ pc = "present" /\ ~Autonomous /\ cur \in Incoming
      /\ cur.id \in Request /\ cur.device \in Device
      /\ UNCHANGED <<cfg, cmds, rx, queue, last, acks>>
  BY DEF Answer, Ignore, SkipAck, SendAck, SimulatorInv, TypeOK, RunMeaning, Incoming
<1>2. seenIDs \subseteq seenIDs' /\ seenIDs' \subseteq Request
  BY <1>1 DEF Answer, Ignore, SkipAck, SendAck, SimulatorInv, TypeOK
<1>3. (SeenMeansAcked /\ LastWasSent /\ AcksReceived)'
  BY <1>1, <1>2 DEF SimulatorInv, SeenMeansAcked, LastWasSent, AcksReceived, Autonomous
<1>4. AutonomousTopics'
  BY <1>1 DEF AutonomousTopics, Autonomous
<1>5. CASE Ignore \/ SkipAck
  <2>1. OfferRepeat
    BY <1>5 DEF Ignore, SkipAck
  <2>2. TypeOK'
    BY <1>1, <1>2, <2>1, OfferRepeatMeaning DEF SimulatorInv, TypeOK, Point
  <2>3. RunMeaning'
    BY <2>1, OfferRepeatMeaning DEF RunMeaning
  <2>4. FlagSound'
    BY <1>1, <1>2, <2>1, OfferRepeatMeaning DEF SimulatorInv, FlagSound, Sound
  <2> QED
    BY <1>3, <1>4, <2>2, <2>3, <2>4 DEF SimulatorInv
<1>6. CASE SendAck
  <2>1. PICK t \in Topic : out' = AckOf(cur, t) /\ pc' = "acking" /\ cur' = cur
    BY <1>6 DEF SendAck
  <2>2. out' \in Ack /\ out'.id = cur.id /\ out'.device = cur.device
    BY <1>1, <2>1 DEF AckOf, Ack
  <2>3. TypeOK'
    BY <1>1, <1>2, <2>1, <2>2 DEF SimulatorInv, TypeOK, Point, Publishing
  <2>4. RunMeaning'
    BY <1>1, <2>1, <2>2 DEF RunMeaning, Incoming
  <2>5. FlagSound'
    BY <1>1, <1>2, <2>1 DEF SimulatorInv, FlagSound, Sound
  <2> QED
    BY <1>3, <1>4, <2>3, <2>4, <2>5 DEF SimulatorInv
<1> QED
  BY <1>5, <1>6 DEF Answer

\* Handing an ACK to MQTT preserves the invariant: it is the ACK of the command
\* being answered, or the remembered one.
LEMMA TransmitPreserves ==
  ASSUME SimulatorInv, Transmit
  PROVE  SimulatorInv'
<1> USE SimulatorAssumption
<1>1. /\ acks' = acks \cup {out}
      /\ UNCHANGED <<cfg, cmds, rx, queue, seenIDs, pc, cur, out, last>>
  BY DEF Transmit, runVars
<1>2. out \in Ack /\ [id |-> out.id, device |-> out.device] \in cmds
  <2>1. CASE pc = "acking"
    BY <2>1 DEF SimulatorInv, RunMeaning, FlagSound, Sound
  <2>2. CASE pc = "repeating"
    BY <2>2 DEF Transmit, SimulatorInv, TypeOK, RunMeaning, LastWasSent, AcksReceived
  <2> QED
    BY <2>1, <2>2 DEF Transmit, Publishing, SimulatorInv, RunMeaning
<1>3. (TypeOK /\ AcksReceived)'
  BY <1>1, <1>2 DEF SimulatorInv, TypeOK, AcksReceived
<1>4. (RunMeaning /\ FlagSound /\ AutonomousTopics)'
  BY <1>1 DEF SimulatorInv, RunMeaning, FlagSound, Sound, AutonomousTopics, Autonomous
<1>5. (SeenMeansAcked /\ LastWasSent)'
  BY <1>1 DEF SimulatorInv, SeenMeansAcked, LastWasSent, Autonomous, IDs
<1> QED
  BY <1>3, <1>4, <1>5 DEF SimulatorInv

\* The return of a publish preserves the invariant.
LEMMA PublishReturnsPreserves ==
  ASSUME SimulatorInv, PublishReturns
  PROVE  SimulatorInv'
<1> USE SimulatorAssumption
<1>1. UNCHANGED <<cfg, cmds, rx, queue, acks>>
  BY DEF PublishReturns, AckOK, AckErr, TelemetryOK, TelemetryErr, RepeatOK, RepeatErr
<1>2. /\ pc' \in {"idle", "offer"}
      /\ pc' = "offer" => last' # None
      /\ out' = None
      /\ cur' \in {None, cur}
  BY OfferRepeatMeaning
  DEF PublishReturns, AckOK, AckErr, TelemetryOK, TelemetryErr, RepeatOK, RepeatErr
<1>3. RunMeaning' /\ AcksReceived'
  BY <1>1, <1>2 DEF SimulatorInv, RunMeaning, AcksReceived
<1>4. CASE AckOK
  <2>1. /\ out \in Ack /\ out \in acks /\ out.id = cur.id /\ cur \in Incoming
        /\ last' = out /\ seenIDs' = seenIDs \cup {cur.id}
        /\ Autonomous => out.topic = out.device
    BY <1>4
    DEF AckOK, Transmitted, SimulatorInv, TypeOK, RunMeaning, AutonomousTopics, Ack, Topic
  <2>2. TypeOK'
    BY <1>1, <1>2, <2>1 DEF SimulatorInv, TypeOK, Point, Incoming
  <2>3. FlagSound'
    BY <1>1, <1>2, <2>1 DEF SimulatorInv, FlagSound, Sound
  <2>4. (SeenMeansAcked /\ LastWasSent /\ AutonomousTopics)'
    BY <1>1, <1>2, <2>1
    DEF SimulatorInv, SeenMeansAcked, LastWasSent, AutonomousTopics, Autonomous, IDs
  <2> QED
    BY <1>3, <2>2, <2>3, <2>4 DEF SimulatorInv
<1>5. CASE AckErr \/ TelemetryOK \/ TelemetryErr \/ RepeatOK \/ RepeatErr
  <2>1. seenIDs' = seenIDs /\ (last' = last \/ last' = Telemetry)
    BY <1>5 DEF AckErr, TelemetryOK, TelemetryErr, RepeatOK, RepeatErr
  <2>2. Telemetry \notin Ack
    BY DEF Ack, Topic
  <2>3. TypeOK'
    BY <1>1, <1>2, <2>1 DEF SimulatorInv, TypeOK, Point
  <2>4. FlagSound'
    BY <1>1, <1>2, <2>1 DEF SimulatorInv, FlagSound, Sound
  <2>5. (SeenMeansAcked /\ LastWasSent /\ AutonomousTopics)'
    BY <1>1, <1>2, <2>1, <2>2
    DEF SimulatorInv, SeenMeansAcked, LastWasSent, AutonomousTopics, Autonomous
  <2> QED
    BY <1>3, <2>3, <2>4, <2>5 DEF SimulatorInv
<1> QED
  BY <1>4, <1>5 DEF PublishReturns

\* Both keys at the offer preserve the invariant.
LEMMA OfferPreserves ==
  ASSUME SimulatorInv, Repeat \/ Continue
  PROVE  SimulatorInv'
<1> USE SimulatorAssumption
<1>1. /\ pc = "offer" /\ UNCHANGED <<cfg, cmds, rx, queue, seenIDs, cur, last, acks>>
      /\ (pc' = "repeating" /\ out' = last) \/ (pc' = "idle" /\ out' = out)
  BY DEF Repeat, Continue, RepeatOf
<1>2. TypeOK'
  BY <1>1 DEF SimulatorInv, TypeOK, Point, Publishing
<1>3. (RunMeaning /\ AutonomousTopics)'
  BY <1>1 DEF SimulatorInv, RunMeaning, AutonomousTopics, Autonomous
<1>4. (FlagSound /\ SeenMeansAcked /\ LastWasSent /\ AcksReceived)'
  BY <1>1
  DEF SimulatorInv, FlagSound, Sound, SeenMeansAcked, LastWasSent, AcksReceived, Autonomous
<1> QED
  BY <1>2, <1>3, <1>4 DEF SimulatorInv

\* A new command, and a restart, preserve the invariant.
LEMMA EnvironmentPreserves ==
  ASSUME SimulatorInv, CommandPublished \/ Restart
  PROVE  SimulatorInv'
<1> USE SimulatorAssumption
<1>1. CASE CommandPublished
  <2>1. /\ cmds \subseteq cmds' /\ cmds' \subseteq Command
        /\ UNCHANGED <<cfg, rx, queue, seenIDs, pc, cur, out, last, acks>>
    BY <1>1 DEF CommandPublished, runVars, SimulatorInv, TypeOK
  <2>2. (TypeOK /\ RunMeaning /\ AutonomousTopics)'
    BY <2>1 DEF SimulatorInv, TypeOK, RunMeaning, AutonomousTopics, Autonomous
  <2>3. (FlagSound /\ SeenMeansAcked /\ LastWasSent /\ AcksReceived)'
    BY <2>1
    DEF SimulatorInv, FlagSound, Sound, SeenMeansAcked, LastWasSent, AcksReceived, Autonomous
  <2> QED
    BY <2>2, <2>3 DEF SimulatorInv
<1>2. CASE Restart
  <2>1. TypeOK'
    BY <1>2 DEF Restart, SimulatorInv, TypeOK, Config, Start, FirstOut, Point, Publishing
  <2>2. (RunMeaning /\ AutonomousTopics)'
    BY <1>2 DEF Restart, RunMeaning, AutonomousTopics, Ack, Topic, Start, FirstOut
  <2>3. (FlagSound /\ SeenMeansAcked /\ LastWasSent /\ AcksReceived)'
    BY <1>2
    DEF Restart, SimulatorInv, FlagSound, SeenMeansAcked, LastWasSent, AcksReceived, Ack, Topic
  <2> QED
    BY <2>1, <2>2, <2>3 DEF SimulatorInv
<1> QED
  BY <1>1, <1>2

\* Every step of the simulator and of its environment preserves the invariant.
LEMMA SimulatorInvStep == SimulatorInv /\ [Next]_vars => SimulatorInv'
<1>1. ASSUME SimulatorInv, UNCHANGED vars PROVE SimulatorInv'
  BY <1>1
  DEF vars, runVars, SimulatorInv, TypeOK, RunMeaning, FlagSound, Sound, SeenMeansAcked,
      LastWasSent, AcksReceived, AutonomousTopics, Autonomous
<1> QED
  BY <1>1, ReceivePreserves, DequeuePreserves, AnswerPreserves, TransmitPreserves,
     PublishReturnsPreserves, OfferPreserves, EnvironmentPreserves
  DEF Next, Run

\* The inductive invariant holds in every state of the simulator.
THEOREM SimulatorInvHolds == Spec => []SimulatorInv
<1>1. Init => SimulatorInv
  BY SimulatorInvInit
<1>2. SimulatorInv /\ [Next]_vars => SimulatorInv'
  BY SimulatorInvStep
<1> QED
  BY <1>1, <1>2, PTL DEF Spec

\* TypeOK, with the bound of the queue, for every capacity.
THEOREM TypeCorrect == Spec => []TypeOK
BY SimulatorInvHolds, PTL DEF SimulatorInv

\* A duplicate flag is never wrong, however long the command waits between its
\* classification on one goroutine and its presentation on the other.
THEOREM FlagsAreSound == Spec => []FlagSound
BY SimulatorInvHolds, PTL DEF SimulatorInv

\* In autonomous mode a command is marked as seen only after its ACK went out.
THEOREM SeenWasAcked == Spec => []SeenMeansAcked
BY SimulatorInvHolds, PTL DEF SimulatorInv

\* Every ACK is of a command that was received, under its own device.
THEOREM AcksAreReal == Spec => []AcksReceived
BY SimulatorInvHolds, PTL DEF SimulatorInv

\* A repeat gives the broker nothing it did not have.
THEOREM RepeatIsIdempotent == Spec => RepeatAddsNothing
<1>1. ASSUME SimulatorInv, [Next]_vars, pc = "repeating" PROVE acks' = acks
  <2>1. CASE Transmit
    BY <1>1, <2>1 DEF Transmit, SimulatorInv, TypeOK, RunMeaning, LastWasSent
  <2> QED
    BY <1>1, <2>1
    DEF Next, Run, Receive, Classify, Enqueue, Drop, Dequeue, Answer, Ignore, SkipAck, SendAck,
        PublishReturns, AckOK, AckErr, TelemetryOK, TelemetryErr, RepeatOK, RepeatErr, Repeat,
        Continue, CommandPublished, Restart, vars
<1> QED
  BY <1>1, SimulatorInvHolds, PTL DEF Spec, RepeatAddsNothing

\* In autonomous mode an ACK goes to the topic of the device it names.
THEOREM AcksGoHome == Spec => AutonomousAckTopic
<1> DEFINE Home == Autonomous => \A a \in acks' \ acks : a.topic = a.device
<1>1. ASSUME SimulatorInv, [Next]_vars PROVE Home
  <2>1. CASE Transmit
    <3>1. acks' = acks \cup {out} /\ pc \in {"telemetry", "acking", "repeating"} /\ out # Telemetry
      BY <2>1 DEF Transmit, Publishing
    <3>2. Autonomous /\ out \notin acks => out.topic = out.device
      BY <1>1, <3>1 DEF SimulatorInv, TypeOK, RunMeaning, LastWasSent, AutonomousTopics
    <3> QED
      BY <3>1, <3>2
  <2>2. CASE acks' = acks
    BY <2>2
  <2> QED
    BY <1>1, <2>1, <2>2
    DEF Next, Run, Receive, Classify, Enqueue, Drop, Dequeue, Answer, Ignore, SkipAck, SendAck,
        PublishReturns, AckOK, AckErr, TelemetryOK, TelemetryErr, RepeatOK, RepeatErr, Repeat,
        Continue, CommandPublished, Restart, vars
<1> QED
  BY <1>1, SimulatorInvHolds, PTL DEF Spec, AutonomousAckTopic
=============================================================================
