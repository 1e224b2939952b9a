------------------------------ MODULE Simulator ------------------------------
(***************************************************************************)
(* The simulator process (src/simulator) once main() has connected:        *)
(* command.Handler with its two goroutines.  The MQTT client's receive     *)
(* goroutine calls OnMessage, which classifies a command and puts it in a  *)
(* bounded queue; main's goroutine is in Run, which answers one command    *)
(* after the other and prompts the operator.                               *)
(***************************************************************************)
EXTENDS Naturals, Sequences

CONSTANTS
  Request,    \* request ids
  Device,     \* device ids, as parsed from the command topic
  Other,      \* any ACK topic the operator types that is no device's own
  QueueCap,   \* capacity of Handler.queue (64 in the code)
  Telemetry,  \* the hard-coded telemetry message
  None        \* no command, no message

ASSUME SimulatorAssumption ==
  /\ QueueCap \in Nat \ {0}
  /\ Other \notin Device
  /\ Telemetry # None
  /\ {None, Telemetry} \cap [id : Request, device : Device, topic : Device \cup {Other}] = {}
  /\ None \notin [id : Request, device : Device, dup : BOOLEAN]

VARIABLES
  cfg,      \* the answers given at startup
  cmds,     \* commands on the subscribed topics, deliverable any time, repeatedly
  rx,       \* OnMessage between its look at seenIDs and the send to the queue
  queue,    \* Handler.queue
  seenIDs,  \* Handler.seenIDs
  pc,       \* where Run is
  cur,      \* the command Run is answering
  out,      \* the message Run is publishing
  last,     \* Handler.last
  acks      \* ACKs handed to MQTT: the broker may deliver them

rxVars == <<rx>>
runVars == <<pc, cur, out, last>>
vars == <<cfg, cmds, rx, queue, seenIDs, runVars, acks>>

Config == [mode : {"autonomous", "controlled"}, telemetry : BOOLEAN]
Command == [id : Request, device : Device]
Incoming == [id : Request, device : Device, dup : BOOLEAN]
Topic == Device \cup {Other}
Ack == [id : Request, device : Device, topic : Topic]
Publishing == {"telemetry", "acking", "repeating"}
Point == Publishing \cup {"idle", "present", "offer"}

Autonomous == cfg.mode = "autonomous"
IDs(msgs) == {m.id : m \in msgs}
-----------------------------------------------------------------------------
(* Startup.  Run first publishes the telemetry, if it was asked for. *)

Start(c) == IF c.telemetry THEN "telemetry" ELSE "idle"
FirstOut(c) == IF c.telemetry THEN Telemetry ELSE None

Init ==
  /\ cfg \in Config
  /\ cmds = {}
  /\ rx = None
  /\ queue = <<>>
  /\ seenIDs = {}
  /\ pc = Start(cfg)
  /\ cur = None
  /\ out = FirstOut(cfg)
  /\ last = None
  /\ acks = {}
-----------------------------------------------------------------------------
(* OnMessage, on the receive goroutine.  A message Parse refuses changes
   nothing.  seenMu is released before the send to the queue. *)

\* Plausible bug: an id that is still waiting in the queue counts as seen.
BugIsDuplicate(r) == r \in seenIDs \/ \E i \in DOMAIN queue : queue[i].id = r

IsDuplicate(r) == r \in seenIDs

Classify ==
  /\ rx = None
  /\ \E c \in cmds : rx' = [id |-> c.id, device |-> c.device, dup |-> IsDuplicate(c.id)]
  /\ UNCHANGED <<cfg, cmds, queue, seenIDs, runVars, acks>>

\* Plausible bug: the queue is not bounded.
BugHasRoom == TRUE

HasRoom == Len(queue) < QueueCap

Enqueue ==
  /\ rx # None
  /\ HasRoom
  /\ queue' = Append(queue, rx)
  /\ rx' = None
  /\ UNCHANGED <<cfg, cmds, seenIDs, runVars, acks>>

\* Plausible bug: a plain send, which waits for room.
BugDrop == FALSE /\ UNCHANGED vars

\* The default branch of the select: the message is logged and forgotten.
Drop ==
  /\ rx # None
  /\ ~HasRoom
  /\ rx' = None
  /\ UNCHANGED <<cfg, cmds, queue, seenIDs, runVars, acks>>
-----------------------------------------------------------------------------
(* Run, on main's goroutine *)

\* Plausible bug: the payload names the device of the topic the operator typed.
BugAckOf(c, t) ==
  [id |-> c.id, device |-> IF t \in Device THEN t ELSE c.device, topic |-> t]

\* ack.Build with the device of the command's topic, to be published on t.
AckOf(c, t) == [id |-> c.id, device |-> c.device, topic |-> t]

\* The next command: autonomous mode publishes its ACK, controlled mode
\* prompts for it.
Dequeue ==
  /\ pc = "idle"
  /\ queue # <<>>
  /\ queue' = Tail(queue)
  /\ cur' = Head(queue)
  /\ IF Autonomous
     THEN pc' = "acking" /\ out' = AckOf(cur', cur'.device)
     ELSE pc' = "present" /\ out' = None
  /\ UNCHANGED <<cfg, cmds, rx, seenIDs, last, acks>>

\* The end of a command: offerRepeat returns at once if nothing was published.
OfferRepeat ==
  /\ pc' = IF last' = None THEN "idle" ELSE "offer"
  /\ cur' = None
  /\ out' = None

\* The operator ignores the command, or a prompt fails.
Ignore ==
  /\ pc = "present"
  /\ last' = last
  /\ OfferRepeat
  /\ UNCHANGED <<cfg, cmds, rx, queue, seenIDs, acks>>

\* The operator accepts the command and skips its ACK.
SkipAck ==
  /\ pc = "present"
  /\ seenIDs' = seenIDs \cup {cur.id}
  /\ last' = last
  /\ OfferRepeat
  /\ UNCHANGED <<cfg, cmds, rx, queue, acks>>

\* The operator accepts the command and picks the ACK's topic.
SendAck ==
  /\ pc = "present"
  /\ \E t \in Topic : out' = AckOf(cur, t)
  /\ pc' = "acking"
  /\ UNCHANGED <<cfg, cmds, rx, queue, seenIDs, cur, last, acks>>

\* The ACK reaches the client's session store or the wire.
Transmit ==
  /\ pc \in Publishing
  /\ out # Telemetry
  /\ acks' = acks \cup {out}
  /\ UNCHANGED <<cfg, cmds, rx, queue, seenIDs, runVars>>

Transmitted == out \in acks \cup {Telemetry}

\* PublishACK returns without error: rememberPublish, then markSeen.
AckOK ==
  /\ pc = "acking"
  /\ Transmitted
  /\ last' = out
  /\ seenIDs' = seenIDs \cup {cur.id}
  /\ OfferRepeat
  /\ UNCHANGED <<cfg, cmds, rx, queue, acks>>

\* Plausible bug: the id is marked although the publish failed.
BugAckErr ==
  /\ pc = "acking"
  /\ last' = last
  /\ seenIDs' = seenIDs \cup {cur.id}
  /\ OfferRepeat
  /\ UNCHANGED <<cfg, cmds, rx, queue, acks>>

\* Plausible bug: the publish is remembered before its result is known.
BugRememberEarly ==
  /\ pc = "acking"
  /\ last' = out
  /\ OfferRepeat
  /\ UNCHANGED <<cfg, cmds, rx, queue, seenIDs, acks>>

\* PublishACK returns an error: the command is neither retried nor remembered,
\* though its ACK may still be on its way.
AckErr ==
  /\ pc = "acking"
  /\ last' = last
  /\ OfferRepeat
  /\ UNCHANGED <<cfg, cmds, rx, queue, seenIDs, acks>>

\* publishInitialTelemetry returns; a failure offers no repeat.
TelemetryOK ==
  /\ pc = "telemetry"
  /\ last' = Telemetry
  /\ OfferRepeat
  /\ UNCHANGED <<cfg, cmds, rx, queue, seenIDs, acks>>

TelemetryErr ==
  /\ pc = "telemetry"
  /\ pc' = "idle"
  /\ out' = None
  /\ UNCHANGED <<cfg, cmds, rx, queue, seenIDs, cur, last, acks>>

\* Plausible bug: a repeat is addressed to the device heard of last.
BugRepeatOf(m) ==
  IF m # Telemetry /\ queue # <<>> THEN [m EXCEPT !.topic = Head(queue).device] ELSE m

\* repeatLastPublish sends the remembered message, unchanged.
RepeatOf(m) == m

\* Ctrl+R at the offer.
Repeat ==
  /\ pc = "offer"
  /\ pc' = "repeating"
  /\ out' = RepeatOf(last)
  /\ UNCHANGED <<cfg, cmds, rx, queue, seenIDs, cur, last, acks>>

\* The repeat is published and offered once more.
RepeatOK ==
  /\ pc = "repeating"
  /\ Transmitted
  /\ last' = last
  /\ OfferRepeat
  /\ UNCHANGED <<cfg, cmds, rx, queue, seenIDs, acks>>

\* The repeat fails: offerRepeat returns.
RepeatErr ==
  /\ pc = "repeating"
  /\ pc' = "idle"
  /\ out' = None
  /\ UNCHANGED <<cfg, cmds, rx, queue, seenIDs, cur, last, acks>>

\* Plausible bug: the early return for "no repeat" is missing.
BugContinue ==
  /\ pc = "offer"
  /\ pc' = "repeating"
  /\ out' = last
  /\ UNCHANGED <<cfg, cmds, rx, queue, seenIDs, cur, last, acks>>

\* Enter at the offer, or the end of input.
Continue ==
  /\ pc = "offer"
  /\ pc' = "idle"
  /\ UNCHANGED <<cfg, cmds, rx, queue, seenIDs, cur, out, last, acks>>
-----------------------------------------------------------------------------
(* The environment *)

CommandPublished ==
  /\ \E c \in Command : cmds' = cmds \cup {c}
  /\ UNCHANGED <<cfg, rx, queue, seenIDs, runVars, acks>>

\* Ctrl+C or a crash, then a new process.  The queue is in memory, so what it
\* held is gone unless the broker delivers it again.
Restart ==
  /\ cfg' \in Config
  /\ rx' = None
  /\ queue' = <<>>
  /\ seenIDs' = {}
  /\ pc' = Start(cfg')
  /\ cur' = None
  /\ out' = FirstOut(cfg')
  /\ last' = None
  /\ UNCHANGED <<cmds, acks>>

Receive == Classify \/ Enqueue \/ Drop
Answer == Ignore \/ SkipAck \/ SendAck
PublishReturns ==
  AckOK \/ AckErr \/ TelemetryOK \/ TelemetryErr \/ RepeatOK \/ RepeatErr
Run == Dequeue \/ Answer \/ Transmit \/ PublishReturns \/ Repeat \/ Continue

Next == Receive \/ Run \/ CommandPublished \/ Restart

Spec == Init /\ [][Next]_vars

\* What the code itself guarantees: the receive goroutine goes on, the select of
\* Run takes a waiting command, and every publish has a 15 second timeout.
FairSpec ==
  Spec /\ WF_vars(Enqueue \/ Drop) /\ WF_vars(Dequeue) /\ WF_vars(PublishReturns)

\* An operator who answers every prompt and does not repeat for ever.
Attended == WF_vars(Answer) /\ SF_vars(Continue)
-----------------------------------------------------------------------------
(* Properties *)

\* Every variable holds a value of its Go type, and the queue its capacity.
TypeOK ==
  /\ cfg \in Config
  /\ cmds \subseteq Command
  /\ rx \in Incoming \cup {None}
  /\ queue \in Seq(Incoming) /\ Len(queue) <= QueueCap
  /\ seenIDs \subseteq Request
  /\ pc \in Point
  /\ cur \in Incoming \cup {None}
  /\ out \in Ack \cup {Telemetry, None}
  /\ last \in Ack \cup {Telemetry, None}
  /\ acks \subseteq Ack

\* c is a command on the subscribed topics, and its duplicate flag is not wrong.
Sound(c) == [id |-> c.id, device |-> c.device] \in cmds /\ (c.dup => c.id \in seenIDs)

\* A command flagged as a duplicate is one this process has answered, however
\* long it waited and whatever the operator did between its arrival and now.
\* (The converse fails: see FlagIsAccurate.)
FlagSound ==
  /\ rx # None => Sound(rx)
  /\ \A i \in 1..Len(queue) : Sound(queue[i])
  /\ cur # None => Sound(cur)

\* In autonomous mode an id counts as seen only if an ACK of it went out: a
\* failed publish leaves the command unseen, so a redelivery is answered.
SeenMeansAcked == Autonomous => seenIDs \subseteq IDs(acks)

\* What Ctrl+R re-sends is an ACK that was sent before, of a seen command.
LastWasSent == last \in Ack => last \in acks /\ last.id \in seenIDs

\* Each ACK names the id and device of one command that was really received.
AcksReceived == \A a \in acks : [id |-> a.id, device |-> a.device] \in cmds

\* What Run holds at each point of its loop.
RunMeaning ==
  /\ pc = "telemetry" => out = Telemetry
  /\ pc = "present" => cur # None /\ ~Autonomous
  /\ pc = "acking" =>
       cur # None /\ out \in Ack /\ out.id = cur.id /\ out.device = cur.device
  /\ pc \in {"offer", "repeating"} => last # None
  /\ pc = "repeating" => out = last

\* In autonomous mode whatever is sent, or could be repeated, is addressed to
\* the ACK topic of its own device.
AutonomousTopics ==
  Autonomous =>
    /\ pc = "acking" => out.topic = out.device
    /\ last \in Ack => last.topic = last.device

\* The inductive invariant from which SimulatorProofs derives the others.
SimulatorInv ==
  /\ TypeOK
  /\ RunMeaning
  /\ FlagSound
  /\ SeenMeansAcked
  /\ LastWasSent
  /\ AcksReceived
  /\ AutonomousTopics

\* MQTT-Command-Firing-POC.md:294: Ctrl+R repeats the last publish.  It never
\* makes the broker see an ACK it had not been given before.
RepeatAddsNothing == [][pc = "repeating" => acks' = acks]_vars

\* Every ACK that autonomous mode adds goes to the ACK topic of the device the
\* command was for, repeats included, whatever arrived in between.
AutonomousAckTopic ==
  [][Autonomous => \A a \in acks' \ acks : a.topic = a.device]_vars

\* OnMessage never waits for the operator: were the receive goroutine blocked,
\* the client could not see the PUBACK of an ACK, nor answer a ping.
ReceiveNeverBlocks == rx # None ~> rx = None

\* The command at the head of the queue is taken, unless a restart empties the
\* queue: with an operator at the prompt nothing starves.
WaitingCommandIsTaken ==
  Attended =>
    \A r \in Request :
      (queue # <<>> /\ Head(queue).id = r) ~> (queue = <<>> \/ (cur # None /\ cur.id = r))

\* simulator/README.md:149: "Autonomous mode always ACKs immediately".  Run
\* calls offerRepeat after each ACK, so the next command waits for a key.
AutonomousNeedsNoOperator ==
  \A r \in Request :
    (Autonomous /\ queue # <<>> /\ Head(queue).id = r) ~>
      (queue = <<>> \/ (cur # None /\ cur.id = r))

\* simulator/README.md:114: each command is shown with its duplicate status.
\* The flag is taken on arrival: a copy that arrived before the first one was
\* answered is presented as new.
FlagIsAccurate == pc = "present" => (cur.dup <=> cur.id \in seenIDs)
=============================================================================
