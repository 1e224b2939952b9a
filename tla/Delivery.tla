------------------------------- MODULE Delivery ------------------------------
(***************************************************************************)
(* Commands on their way from PublishCommand in the backend to Run in the  *)
(* simulator, under the two delivery modes: A (the broker retains the last *)
(* command of a topic) and B (the broker queues commands for the session   *)
(* of a simulator that is offline).                                        *)
(*                                                                         *)
(* The programs contribute their validated answers, what they publish, and *)
(* when they connect, subscribe and take a command.  The broker is AWS IoT *)
(* Core as the code uses it and as MQTT-Command-Firing-POC.md reports it:  *)
(* QoS 1 is queued and repeated until the PUBACK, QoS 0 is not; a retained *)
(* command is sent to each new subscription of its exact topic, but not to *)
(* a wildcard.  The simulator keeps its client id over restarts.           *)
(***************************************************************************)
EXTENDS Answers, Naturals, Sequences

CONSTANTS
  Request,    \* request ids; each is published once
  Device,     \* concrete device ids
  Wild,       \* "+", the other thing a simulator can subscribe to
  Modes,      \* the delivery modes the operators choose from
  QueueCap,   \* capacity of the simulator's queue (64 in the code)
  None        \* no retained command

ASSUME DeliveryAssumption ==
  /\ Modes \subseteq {"A", "B"}
  /\ Wild \notin Device
  /\ QueueCap \in Nat \ {0}
  /\ None \notin [id : Request, device : Device, qos : {0, 1}]

VARIABLES
  bcfg,       \* the backend's configuration
  scfg,       \* the simulator's configuration
  stage,      \* simulator process: new, connected, then how its first Subscribe ended
  link,       \* its connection: down, up, ready, deaf, gone
  subs,       \* subscriptions in the simulator's session at the broker
  pending,    \* QoS 1 commands of that session without a PUBACK
  puback,     \* PUBACKs on their way on the current connection
  wire,       \* QoS 0 commands on the current connection
  retained,   \* the retained command of each device's topic
  published,  \* commands the broker has accepted
  queue,      \* Handler.queue of the simulator
  received,   \* commands OnMessage has seen
  taken,      \* commands Run has taken
  covered,    \* filters a mode B simulator subscribed to, in this session
  owed        \* commands of a mode B backend published under those filters

simVars == <<scfg, stage>>
brokerVars == <<subs, pending, retained, published>>
promiseVars == <<covered, owed>>
vars == <<bcfg, simVars, link, brokerVars, puback, wire, queue, received, taken, promiseVars>>

QoS == {0, 1}
Filter == Device \cup {Wild}
Command == [id : Request, device : Device, qos : QoS]
Online == {"up", "ready", "deaf"}

Matches(filter, device) == filter \in {device, Wild}
IDs(cs) == {c.id : c \in cs}
-----------------------------------------------------------------------------
(* Startup: the answers both programs accept *)

\* PromptInteractive does not ask about retain in mode B.
BackendPrompt(a) == [a EXCEPT !.retain = a.mode # "B" /\ a.retain]

BackendConfig ==
  {c \in {BackendPrompt(a) : a \in [mode : Modes, qos : QoS, retain : BOOLEAN]} :
     BackendValid(c)}

EffectiveRetain(c) == c.mode # "B" /\ c.retain

SimulatorConfig ==
  {c \in [mode : Modes, filter : Filter, qos : QoS, persistent : BOOLEAN,
          expiry : BOOLEAN, autoReconnect : BOOLEAN] : SimulatorValid(c)}

\* Plausible bug: the operator's device is asked for and not used.
BugSubscribeFilter == Wild

\* Autonomous mode subscribes to all devices, controlled mode to the answer.
SubscribeFilter == scfg.filter

Init ==
  /\ bcfg \in BackendConfig
  /\ scfg \in SimulatorConfig
  /\ stage = "new"
  /\ link = "down"
  /\ subs = {}
  /\ pending = {} /\ puback = {} /\ wire = {}
  /\ retained = [d \in Device |-> None]
  /\ published = {}
  /\ queue = <<>>
  /\ received = {} /\ taken = {}
  /\ covered = {} /\ owed = {}
-----------------------------------------------------------------------------
(* The broker *)

\* The broker routes the commands new under the subscriptions S.
Route(new, S) ==
  LET Sub(c) == {s \in S : Matches(s.filter, c.device)}
      Kept == {c \in new : c.qos = 1 /\ \E s \in Sub(c) : s.qos = 1}
  IN /\ pending' = pending \cup Kept
     /\ wire' = IF link \in Online
                THEN wire \cup {c \in new \ Kept : Sub(c) # {}}
                ELSE wire

\* What the broker does to the session when its connection, if any, ends.
DisconnectSession ==
  IF link \in Online /\ ~scfg.expiry
  THEN subs' = {} /\ pending' = {}
  ELSE UNCHANGED <<subs, pending>>

\* The simulator stays away longer than its session expiry.
SessionExpires ==
  /\ link \notin Online
  /\ subs \cup pending # {}
  /\ subs' = {} /\ pending' = {}
  /\ covered' = {} /\ owed' = {}
  /\ UNCHANGED <<bcfg, simVars, link, retained, published, puback, wire, queue, received, taken>>

\* The message expiry interval of a command elapses at the broker.
MessageExpires(c) ==
  /\ c \in pending \/ retained[c.device] = c
  /\ pending' = pending \ {c}
  /\ retained' = [d \in Device |-> IF retained[d] = c THEN None ELSE retained[d]]
  /\ owed' = owed \ {c}
  /\ UNCHANGED <<bcfg, simVars, link, subs, published, puback, wire, queue, received, taken, covered>>
-----------------------------------------------------------------------------
(* The backend *)

\* PublishCommand, and the broker has accepted the command.
PublishCommand(c) ==
  /\ c.id \notin IDs(published)
  /\ c.qos = bcfg.qos
  /\ published' = published \cup {c}
  /\ retained' = IF EffectiveRetain(bcfg) THEN [retained EXCEPT ![c.device] = c] ELSE retained
  /\ Route({c}, subs)
  /\ owed' = IF bcfg.mode = "B" /\ \E f \in covered : Matches(f, c.device)
             THEN owed \cup {c}
             ELSE owed
  /\ UNCHANGED <<bcfg, simVars, link, subs, puback, queue, received, taken, covered>>

BackendRestart ==
  /\ bcfg' \in BackendConfig
  /\ UNCHANGED <<simVars, link, brokerVars, puback, wire, queue, received, taken, promiseVars>>
-----------------------------------------------------------------------------
(* The simulator's connection *)

\* Plausible bug: clean start whatever the answer was.
BugCleanStart == stage = "new"

CleanStart == stage = "new" /\ ~scfg.persistent

Connect ==
  /\ link = "down"
  /\ link' = "up"
  /\ stage' = IF stage = "new" THEN "connected" ELSE stage
  /\ IF CleanStart THEN subs' = {} /\ pending' = {} ELSE UNCHANGED <<subs, pending>>
  /\ UNCHANGED <<bcfg, scfg, retained, published, puback, wire, queue, received, taken, promiseVars>>

\* Plausible bug: onConnectionUp returns early after a reconnect.
BugBrokerSubscribes ==
  /\ subs' = IF stage = "subscribed" THEN subs
             ELSE subs \cup {[filter |-> SubscribeFilter, qos |-> scfg.qos]}
  /\ UNCHANGED <<pending, wire>>

\* The broker replaces an older subscription to the same filter, keeps all
\* others, and sends the retained command of an exact topic.
BrokerSubscribes ==
  /\ subs' = {s \in subs : s.filter # SubscribeFilter}
               \cup {[filter |-> SubscribeFilter, qos |-> scfg.qos]}
  /\ Route({retained[d] : d \in Device \cap {SubscribeFilter}} \ {None}, subs')

\* signalFirstSub: the outcome of the first Subscribe stays.
First(outcome) == stage' = IF stage = "connected" THEN outcome ELSE stage

\* onConnectionUp subscribes, at every connection.
SubscribeOK ==
  /\ link = "up"
  /\ link' = "ready"
  /\ First("subscribed")
  /\ BrokerSubscribes
  /\ covered' = IF scfg.mode = "B" THEN covered \cup {SubscribeFilter} ELSE covered
  /\ UNCHANGED <<bcfg, scfg, retained, published, puback, queue, received, taken, owed>>

\* Subscribe fails, or its answer does not come in time: not tried again on
\* this connection.
SubscribeErr ==
  /\ link = "up"
  /\ link' = "deaf"
  /\ First("failed")
  /\ BrokerSubscribes \/ UNCHANGED <<subs, pending, wire>>
  /\ UNCHANGED <<bcfg, scfg, retained, published, puback, queue, received, taken, promiseVars>>

\* If the first Subscribe of the process has failed, main exits, at its leisure:
\* the manager may have reconnected and subscribed by then.
StartupFails ==
  /\ stage = "failed"
  /\ link' = "gone"
  /\ queue' = <<>> /\ puback' = {} /\ wire' = {}
  /\ DisconnectSession
  /\ UNCHANGED <<bcfg, simVars, retained, published, received, taken, promiseVars>>

\* OnConnectionDown: the manager goes on or stops; the process, and with it the
\* queue, lives.  A Subscribe that runs fails.
ConnectionLost ==
  /\ link \in Online
  /\ link' = IF scfg.autoReconnect THEN "down" ELSE "gone"
  /\ IF link = "up" THEN First("failed") ELSE stage' = stage
  /\ puback' = {} /\ wire' = {}
  /\ DisconnectSession
  /\ UNCHANGED <<bcfg, scfg, retained, published, queue, received, taken, promiseVars>>

\* Ctrl+C or a crash, and a new process with new answers.  One that does not
\* choose mode B makes no promise about what was queued before.
Restart ==
  /\ scfg' \in SimulatorConfig
  /\ stage' = "new"
  /\ link' = "down"
  /\ queue' = <<>> /\ puback' = {} /\ wire' = {}
  /\ DisconnectSession
  /\ IF scfg'.mode = "B" THEN UNCHANGED promiseVars ELSE covered' = {} /\ owed' = {}
  /\ UNCHANGED <<bcfg, retained, published, received, taken>>
-----------------------------------------------------------------------------
(* The simulator's handler *)

\* Plausible bug: the queue is not bounded.
BugHasRoom == TRUE

HasRoom == Len(queue) < QueueCap

\* OnMessage queues or drops the command; the client then sends the PUBACK.
OnMessage(c) ==
  /\ link \in Online
  /\ c \in (pending \ puback) \cup wire
  /\ received' = received \cup {c}
  /\ queue' = IF HasRoom THEN Append(queue, c) ELSE queue
  /\ puback' = puback \cup ({c} \cap pending)
  /\ wire' = wire \ {c}
  /\ UNCHANGED <<bcfg, simVars, link, brokerVars, taken, promiseVars>>

\* The broker sees the PUBACK.
PubAck(c) ==
  /\ link \in Online
  /\ c \in puback
  /\ puback' = puback \ {c}
  /\ pending' = pending \ {c}
  /\ UNCHANGED <<bcfg, simVars, link, subs, retained, published, wire, queue, received, taken, promiseVars>>

\* Run, which main calls after Connect, takes the next command.
Run ==
  /\ stage = "subscribed"
  /\ queue # <<>>
  /\ taken' = taken \cup {Head(queue)}
  /\ queue' = Tail(queue)
  /\ UNCHANGED <<bcfg, simVars, link, brokerVars, puback, wire, received, promiseVars>>

Backend == BackendRestart \/ \E c \in Command : PublishCommand(c)
Broker == SessionExpires \/ \E c \in published : MessageExpires(c) \/ PubAck(c)
Client == Connect \/ SubscribeOK \/ SubscribeErr \/ StartupFails \/ ConnectionLost \/ Restart
Handler == Run \/ \E c \in published : OnMessage(c)

Next == Backend \/ Broker \/ Client \/ Handler

Spec == Init /\ [][Next]_vars

\* The manager keeps trying to connect, and a try succeeds in the end; the
\* client passes on what arrives, however often the connection is lost; the
\* operator starts a simulator again that has stopped.
FairSpec ==
  /\ Spec
  /\ WF_vars(Connect)
  /\ WF_vars(link = "gone" /\ Restart)
  /\ \A c \in Command : SF_vars(c \in published /\ OnMessage(c))
-----------------------------------------------------------------------------
(* Properties *)

\* Every variable holds a value of its type.
TypeOK ==
  /\ bcfg \in BackendConfig
  /\ scfg \in SimulatorConfig
  /\ stage \in {"new", "connected", "subscribed", "failed"}
  /\ link \in {"down", "up", "ready", "deaf", "gone"}
  /\ subs \subseteq [filter : Filter, qos : QoS]
  /\ published \subseteq Command
  /\ pending \subseteq published /\ wire \subseteq published
  /\ retained \in [Device -> published \cup {None}]
  /\ puback \subseteq received /\ received \subseteq published
  /\ queue \in Seq(Command) /\ Len(queue) <= QueueCap
  /\ taken \subseteq Command
  /\ covered \subseteq Filter
  /\ owed \subseteq published

\* MQTT-Command-Firing-POC.md:29: with option B on both sides, a command for a
\* device the simulator has subscribed to reaches OnMessage or stays queued at
\* the broker, whatever happens to connection and process, until it or the
\* session expires.
OfflineQueueKeeps == owed \subseteq pending \cup received

\* The session still holds, with QoS 1, every subscription that a mode B
\* simulator has been told is in place.
CoverageStands == \A f \in covered : [filter |-> f, qos |-> 1] \in subs

\* A connection on which nothing is waiting for its SUBACK has the simulator's
\* own filter among the subscriptions of the session.
ReadyIsSubscribed == link = "ready" => \E s \in subs : s.filter = SubscribeFilter

\* MQTT-Command-Firing-POC.md:30: a simulator that is subscribed to the exact
\* topic of a device has got its retained command or is about to get it, whether
\* the command was published before or after the simulator subscribed.
RetainedIsOnItsWay ==
  \A d \in Device :
    link = "ready" /\ scfg.filter = d /\ retained[d] # None =>
      retained[d] \in pending \cup wire \cup received

\* What the broker retains on a topic is a command for the device of that topic.
RetainedOfTopic == \A d \in Device : retained[d] # None => retained[d].device = d

\* The inductive invariant for option A, on top of DeliveryInv.
RetainInv == ReadyIsSubscribed /\ RetainedOfTopic /\ RetainedIsOnItsWay

\* A promise is made only by a simulator that runs in mode B.
PromiseMeansB == covered \cup owed # {} => scfg.mode = "B"

\* A promised command is queued and nothing else: it is never retained, nor sent
\* as a QoS 0 message.
PromisedIsQueued ==
  owed \cap (wire \cup {retained[d] : d \in Device}) = {}

\* The inductive invariant from which DeliveryProofs derives the others.
DeliveryInv ==
  /\ TypeOK
  /\ PromiseMeansB
  /\ PromisedIsQueued
  /\ CoverageStands
  /\ OfflineQueueKeeps

\* The simulator's session, whatever commands are on their way: only the first
\* connection of a process may start clean, and filters are only ever added to a
\* session that lives, one operator's after another's.
Settings ==
  [autoReconnect |-> scfg.autoReconnect, persistent |-> scfg.persistent, expiry |-> scfg.expiry]
Connection == IF link \in {"ready", "deaf"} THEN "settled" ELSE link
Held == {s.filter : s \in subs}

AtBroker == INSTANCE Session WITH
  cfg <- Settings, filter <- scfg.filter, link <- Connection, subs <- Held

ImplementsSession == AtBroker!Spec

\* With option B on both sides the two programs and the broker are a mailbox
\* that delivers at least once, whatever happens to connection and process.
Offline == INSTANCE Mailbox WITH
  promised <- owed, box <- owed \cap pending, arrived <- owed \cap received

ImplementsMailbox == Offline!Spec

\* Such a command arrives in the end, unless it or the session expires first
\* or the operator leaves option B.
OfflineCommandArrives ==
  \A c \in Command : c \in owed ~> (c \in received \/ c \notin owed)

\* MQTT-Command-Firing-POC.md:329: the queued command is delivered and its ACK
\* sent.  A command that the simulator's full queue drops, or that waits in it
\* when the process ends, has been acknowledged to the broker and is lost.
OfflineCommandHandled ==
  \A c \in owed : c \in pending \cup taken \/ \E i \in DOMAIN queue : queue[i] = c
=============================================================================
