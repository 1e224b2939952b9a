# Verification of the HeyEV MQTT command proof of concept

Two Go programs talk to each other over an MQTT 5 broker (AWS IoT Core).
The **backend** publishes commands an operator types; the **simulator** plays
one or many devices and answers each command with an application-level ACK that
carries the command's `request_id`. These TLA+ modules model both programs, TLC
checks them on small instances, and TLAPS proves the main safety properties for
every value of the constants.

## 1. The system

| Component | Source | State | Operations | Interacts with |
|---|---|---|---|---|
| backend operator loop | `backend/main.go`, `backend/command/` | `last` saved command, current publish topic, ids published | new command, repeat, abandoned prompt, publish result | tracker; MQTT client (blocking call of `Publish`, 30 s) |
| backend ACK handler | `backend/ack/` | ids processed | `Handle` (duplicate, SUCCESS, anything else) | called on the MQTT client's receive goroutine; tracker |
| request state tracker | `backend/state/tracker.go` | status of each request id | `Set`, `Transition`, `Get`, one mutex | shared by the two goroutines above |
| MQTT clients | `*/mqttclient/` | first connection seen, outcome of the first subscription | `Connect`, `onConnectionUp`, `OnConnectionDown`, publish, disconnect | autopaho's manager goroutine calls back; `main` waits on a channel |
| simulator command handler | `simulator/command/` | queue of 64 commands, ids seen, last publish | `OnMessage`; `Run`: autonomous ACK, controlled prompts, repeat, first telemetry | receive goroutine and main's goroutine share queue and seen ids |
| ACK builder, topics, telemetry | `simulator/ack`, `*/topic`, `simulator/telemetry` | none | pure functions | |
| start-up configuration | `*/config/` | the answers, fixed for the process | prompts, validation, topics | read everywhere |
| TLS, logging | `*/tlsconfig`, `*/logger` | none the programs read | I/O | |

Everything is in memory: a restart forgets every store, queue and answer. Only
the broker remembers (subscriptions, queued and retained messages).

What is hard to get right here:

* the ACK of a command can be handled before the publish of that command has
  returned to the operator loop, and both write the tracker;
* a publish that timed out may still be delivered, QoS 1 may deliver twice, the
  operator may repeat anything at any time, and a process may stop anywhere;
* the duplicate flag of a command is computed on one goroutine and shown on
  another, with a queue and an operator in between;
* the queue is bounded, and the goroutine that fills it must never wait;
* start-up waits for the outcome of a callback that runs at every reconnect;
* option B promises that a command for an offline device is kept, and the
  promise has to hold over lost connections, lost PUBACKs, failed subscriptions
  and restarts of either program, which are configured independently;
* requests are matched by id alone, stores are lost at each restart, and the ACK
  of a command may come when the process that sent it is gone;
* the input of an operator may end anywhere, and the two ways of reading a line
  treat its end differently;
* defaults of the start-up questions depend on earlier answers, and validation
  looks at several answers together.

### What makes each component correct

| Component | Properties |
|---|---|
| operator loop, ACK handler, tracker | a status agrees with the idempotency stores and with what was handed to MQTT; a confirmed and acknowledged request never falls back; a request is acknowledged once; a command goes out on the topic of its own device |
| MQTT clients | the operator loop starts only with a confirmed subscription; start-up is decided by the first subscription, for good, and does not hang; no connected client is deaf without having logged a failure |
| simulator handler | the duplicate flag is never wrong when set; a seen id has an ACK that went out; every ACK belongs to a received command and its device; receiving never waits for the operator; no command starves |
| both programs together | a request is acknowledged only by the device it was sent to; each program gets only what it was written for; the delivery stages come in their order |
| start-up and prompts | defaults are accepted; start-up does not hang at the end of input; no operator's message is sent there; ACKs come back on a subscribed topic |
| delivery | option B: a queued command stays at the broker until received, and is received in the end; option A: a subscriber of an exact topic gets the retained command |

## 2. Modules

| Module | Models | Kind |
|---|---|---|
| `Backend` | operator loop, ACK handler, tracker, both idempotency stores | specification |
| `BackendProofs` | theorems about `Backend` | proofs |
| `Simulator` | `OnMessage` and `Run` around the bounded queue | specification |
| `SimulatorProofs` | theorems about `Simulator` | proofs |
| `Client` | `Connect`, `onConnectionUp`, reconnect and session, of either program | specification |
| `ClientProofs` | theorems about `Client` | proofs |
| `Delivery` | a command's way through the broker under options A and B | specification |
| `DeliveryProofs` | theorems about `Delivery` | proofs |
| `Answers` | what `validate` of each program accepts | operators |
| `Console` | the prompts of both programs, start-up and loops, and the topics they lead to | specification |
| `ConsoleProofs` | theorems about `Console` | proofs |
| `Session` | the life of an MQTT client and of its session at the broker | abstract specification |
| `SessionProofs` | theorems about `Session`, which `Client` and `Delivery` inherit | proofs |
| `Mailbox` | what option B promises of the commands for a device | abstract specification |
| `Stages` | what the documentation promises of a command | abstract specification |
| `System` | `Backend` and `Simulator` composed over the broker | composition |
| `SystemProofs` | theorems about `System`, refinements included | proofs |
| `MCBackend`, `MCSimulator`, `MCDelivery`, `MCConsole`, `MCSystem` | symmetry sets and constants for the runs | model checking |

`System` instantiates `Backend` and `Simulator` and is shown to implement
`Stages`. `Client` and `Delivery` are both shown to implement `Session`, and
`Delivery` to implement `Mailbox`. `Delivery` and `Console` extend `Answers`.

Definitions named `Bug...` are not part of the specifications: each is a
plausible mistake in the definition that follows it, and replacing that
definition by it makes TLC report the property it stands for.

### Backend

A step is one critical section of the tracker's mutex, with what the same
goroutine does to its own state around it. The operator loop is `NewCommand`
(prompts, `Build`, `CanPublish`, and `publishSaved` up to `PublishCommand`),
`RepeatLast`, `AbandonPrompt`, and the two returns `PublishOK` and `PublishErr`
of the blocking publish; `Transmit` is the moment at which MQTT takes the packet,
which may come before a timeout is reported and may never come. The receive
goroutine is `Handle`, split where the code leaves the mutex: after a refused
`Transition`, `forced` holds the request until `ForceAck` performs the `Set`.
A command, once handed to MQTT, may be answered any number of times, in any
order (`DeviceAck`): the set `acks` never shrinks, which stands for QoS 1
redelivery, retained ACKs and Ctrl+R in the simulator. `Restart` loses what the
process kept in memory and asks for a new configuration.

### Simulator

`OnMessage` is two steps, since it unlocks `seenMu` before it tries the queue:
`Classify` computes the duplicate flag, `Enqueue` or `Drop` is the `select`.
`Run` is `pc`: idle, presenting a command to the operator, publishing an ACK,
offering a repeat, repeating, publishing the first telemetry. `Transmit` and the
outcome of a publish are separate steps for the reason given above. The operator
may choose any ACK topic in controlled mode. A command stays deliverable
(`cmds` only grows), so it may arrive again at any time.

### Client

The code of both programs' `Connect` and `onConnectionUp` is the same as far as
the model goes. Main's goroutine is `main`; autopaho's manager is `link` and
`callback`, and is external: the assumptions about it are stated at the head of
the module. `SignalFirstSub` is the `sync.Once`; `closes` counts closings of the
channel, because a second one would panic. `Left` is what remains of the session
when a connection ends, however it ends: a loss, the exit of `main` after a failed
first `Subscribe`, or a restart. A `Subscribe` that runs when the connection is
lost fails, and may have reached the broker before. `lastSub` is what
`onConnectionUp` has logged last: the code does nothing else about a `Subscribe`
that fails after the first, so the log is all an operator has to go by
(`NeverSilentlyDeaf`).

### Delivery

Both programs' prompts and validation become `BackendConfig` and
`SimulatorConfig`, the sets of configurations that main accepts; every restart
picks a new one. The simulator's session is `subs` and `pending`; `wire` is what
QoS 0 put on the current connection. `PublishCommand` also stands for the
broker's acceptance (a publish that fails reaches nobody and is `Backend`'s
matter). `ConnectionLost`, `StartupFails` and `Restart` are the ways a connection
ends. `stage` is how far the process is: `signalFirstSub` fixes the outcome of its
first `Subscribe` (`First`), `subscribed` lets `main` go on to `Run`, and `failed`
makes it exit, but on another goroutine than the manager's: before `StartupFails`
the manager may reconnect, subscribe and receive commands, which then are lost with
the queue. `covered` and `owed` are history variables that say what option B has
promised: the filters that mode B simulators were told are subscribed, and the
commands a mode B backend published for them. `received` and `taken` record what
`OnMessage` and `Run` have seen.

The broker is external. What is assumed of it is what MQTT 5 says of sessions
and what `MQTT-Command-Firing-POC.md` reports of AWS IoT Core, retained messages
for exact topics only included. The simulator keeps its client id, as the
documentation asks; nothing in the code enforces it.

### Session and Mailbox

`Session` is the common core of `Client` and `Delivery`: connecting, the outcome of
the first `Subscribe`, and which subscriptions the session holds over connections
and processes. The two modules see it from different sides. `Client` has one filter
and goroutines: there a connection is lost before the manager notices, and a failed
start-up is known to the callback before it is known to `main`. `Delivery` has many
filters and no goroutines, but commands. The refinement mappings (`AtBroker`) are
written out in both: in `Client`, `Phase` and `Connection` read the stage and the
connection off the positions of `main`, manager and callback, and a first
`Subscribe` counts as failed as soon as its connection is lost.

`Mailbox` is option B seen from outside: a command is posted, arrives, perhaps more
than once, leaves the box only after it has arrived, and may expire; the box is
void when the session expires or the operator leaves option B. Under the mapping
(`Offline`) the promises are `owed`, and the box is what of them is in `pending`.

### Console

`Backend` and `Simulator` begin where an operator has answered; `Console` is the
answering. `at` is the prompt a program is at. `Script` is the order of the
start-up questions, `Default` what a blank line means, `Means` what any other
line does; `AnswerLine` has one line of each kind that some question tells apart.
Validation (`Answers`), the environment check, which may fail, the device prompt
and `Connect` follow. Then the backend goes round `Offer`, `PromptTarget` (under
`+`), `PromptName`, `PromptValue`, `PromptRequestID` and `Repeat`, and the
simulator waits for a command (`Receive`) and asks its own questions.

The input may end at every read. `readLine` (start-up) then returns blank lines
for ever and takes a truncated line for a whole one (`ReadLine`); `promptLine` and
`waitRepeatOrNew` fail and drop the text (`CompleteLine`, `NoLine`). At the end of
input the backend's loop goes round without a pause: it stays at `repeat`, or at
its first prompt. `ReadFails` is any other error of `readLine`, which ends the
program. `published` is the latest publish; its parity makes every publish a change
of state, also a repeat on the topic of the one before, so that a property of steps
(`NothingSentAtTheEnd`) sees each. Two publishes of an autonomous simulator do come
after the end of input: its start-up telemetry, and the ACK of a command that
arrives.

A topic is the sequence of the levels of its device id, and the last level, since
what the code does with a device id depends on slashes in it: `ParseDeviceID`
takes the first level, and `+` matches exactly one.

### System and Stages

`Backend` lets its environment send an ACK of anything that was sent, and
`Simulator` lets its environment send any command. `System` puts each in the
place of the other's environment. The broker keeps `cmds`, `inbox` and `heard`,
the filters of the backend's session: a new process subscribes to its own filter,
and what its predecessor had subscribed to may stay. `RouteCommand` and `RouteAck`
match topics; both may happen again, late, or never, so they also stand for
redelivery and loss. `RouteCommand` does not look at the simulator's filter: a
resumed session may hold any. `HandlerView` is what `Handle` reads of an ACK: the
id and the status, not the device. Device ids have one level here.

`Stages` is section 9 of `MQTT-Command-Firing-POC.md` as a specification of five
actions: a command is fired, its publish is confirmed, its device answers, the
backend settles it, and a restart of the backend forgets what it knew. Under the
refinement mapping (`Promise`) `fired` are the commands handed to MQTT, `confirmed`
and `settled` are the two idempotency stores, `answered` the ACKs handed to MQTT.

## 3. Runs

| Run | Instance | Shows |
|---|---|---|
| `backend` | 2 requests, 2 devices, 1 body | the safety of `Backend` in every interleaving of the two goroutines |
| `simulator` | 2 requests, 1 device, queue of 2 | soundness of flags and of seen ids, that receiving never blocks, and that no command starves if the operator answers |
| `system` | 1 request, 2 devices, 1 body, queue of 1, autonomous mode, backends for one device and for `+` | from end to end: only the addressed device acknowledges, the simulator's environment is what its specification allows, `Stages` is implemented |
| `console` | ids `d` and `a/b`, all answers | both programs' prompts, with the input ending anywhere or a read failing: what is refused, what is still published, where ACKs come back |
| `client` | all 8 configurations | the first subscription decides start-up, over any losses and reconnects; a deaf client has logged why; liveness of start-up and reconnect; `Session` is implemented |
| `delivery` | 1 request, 1 device and `+`, queue of 1, both options | every pair of valid configurations, mixed ones included; `Session` is implemented |
| `delivery_offline` | 2 requests, 1 device and `+`, queue of 1, option B | nothing queued is lost, and it arrives; `Mailbox` is implemented (programs of mixed options are in the run `delivery`; for `Mailbox` in the proof of `OptionBIsAMailbox`) |
| `backend_race`, `backend_retry`, `simulator_flag`, `simulator_unattended`, `delivery_queue` | as above | the disagreements below |

Why these bounds are enough. Two requests are needed for one to interfere with
another, and two devices (or a device and the wildcard) for a command to go
astray; in `Backend`, `Simulator` and `Delivery` no action looks at a third one.
`system` has one request id, so that it is reused for the other device, and after
a restart, in every order; its instance has autonomous simulators only, because
both modes together exceed what TLC can do in minutes, and the theorems about
`System` cover controlled mode. `console` has an id of one level and one of two,
and its start-up part does not depend on them. The queues of 1 and 2 commands are full in many states, so the default branch of
the `select` is taken. Nothing else is bounded: messages are sets, so the state
spaces are finite without constraints. Symmetry is used only where no liveness
property is checked. The theorems below remove the bounds for the safety
properties.

The runs that end in a violation each state what a comment or document of the
repository says:

* `backend_race` (`PublishedOnlyFromPending`): `MarkPublished` uses `Set`, not
  `Transition`. If the ACK is handled before `Publish` returns, `PUBLISHED`
  overwrites `ACKNOWLEDGED`. The transition table of `tracker.go` forbids it.
* `backend_retry` (`AcknowledgedNotRepublished`): only a publish that returns OK
  is remembered. After a timeout the device may have acknowledged the command,
  and its id is published again though duplicates are not allowed.
* `simulator_flag` (`FlagIsAccurate`): the flag is computed at arrival. Of two
  copies that arrive before the first is answered, both are shown as new.
* `simulator_unattended` (`AutonomousNeedsNoOperator`): autonomous mode waits for
  a key after each publish, so the next command is not acknowledged.
* `delivery_queue` (`OfflineCommandHandled`): the broker gets its PUBACK when a
  command is in the simulator's memory, or was dropped by a full queue. A
  process that ends there loses the command, and no ACK is ever sent.

The models also contain behaviour that no property excludes: a second ACK, logged
as ignored, sets the status `DUPLICATE`; a wildcard subscriber gets no retained
command in option A; a simulator restarted for another device still gets the
commands of the earlier one, because the session keeps its old subscription;
after a session has expired, a subscription that fails at a reconnect leaves the
client connected and deaf until its next connection, with only a log line to tell
(`NeverSilentlyDeaf`); a request whose publish failed stays `PENDING`, or falls back
to it when its id is tried again; the ACK for a device id with a slash in it goes
elsewhere.

### Fairness

* `Simulator!FairSpec`: the receive goroutine goes on, the `select` of `Run`
  takes a command that is waiting, and a publish returns, because
  `PublishACK` and `PublishTelemetry` have a timeout of 15 seconds. Nothing is
  assumed of the operator or the broker.
* `Simulator!Attended` is an operator who answers every prompt and does not
  press Ctrl+R for ever: an assumption of `WaitingCommandIsTaken`, not of the
  specification. This is no property of the code: `simulator_unattended` shows
  what happens without it.
* `Console!Spec`: a read of a start-up question returns in the end. An operator
  who types nonsense for ever is not excluded, and `StartupEnds` is about input
  that has ended, where a read returns at once. That it fails is not assumed.
* `System` and `Stages` state no fairness: their properties are safety. Liveness
  from end to end is not stated for `System`, whose broker may hold a message back
  for ever; `Delivery` has the liveness of delivery.
* `Client!FairSpec`: goroutines go on and `Subscribe` returns, because it has a
  timeout. Nothing is assumed of the network.
* `Delivery!FairSpec` assumes a usable environment, because delivery cannot be
  promised without one: attempts to connect succeed in the end, a command that
  can be delivered again and again is delivered once (strong fairness, since the
  connection may be lost each time), and a simulator that has stopped is started
  again. It assumes neither that the first subscription succeeds nor that `Run`
  takes anything.

## 4. Theorems

TLAPS proves the safety properties for every value of the constants, from the
assumptions on constants alone (`BackendAssumption`, `SimulatorAssumption`,
`DeliveryAssumption`, `SystemAssumption`, `ConsoleAssumption`: the special values
are no ordinary ones, the queue has room for one command, modes are A and B, a
device id has at least one level and none of its levels is blank or `+`).
`Client` has no constants, and what is proved of `Session` assumes nothing.

* **Backend.** `BackendInv` is inductive. The properties alone are not: that a
  status agrees with the stores (`StatusMeaning`) survives a step of one
  goroutine only because of what is known of the other in the middle of its own.
  `InFlightMeaning` says that a request being published has left `PENDING` only
  through an ACK of the same id; `ForcedMeaning` says that the `Set` that `Handle`
  still owes concerns a processed request that is not yet acknowledged;
  `KnownWasSent` ties both stores to the commands handed to MQTT, and gives
  `StatusTruthful`. The action properties `NoRegression` and `AckOnce` follow
  from the invariant, action by action.
* **Simulator.** `SimulatorInv` is inductive: `RunMeaning` says what `Run` holds
  at each point, `FlagSound` extends over the receive goroutine, the queue and
  the command in hand, `LastWasSent` makes a repeat harmless
  (`RepeatIsIdempotent`), `AutonomousTopics` covers repeats (`AcksGoHome`).
* **Client.** `ClientInv` with `CallbackMeaning`, which relates the position of
  the callback to the signal: once the first callback has returned, the channel
  has been closed, exactly once. `OutcomeMeaning`, also part of it, says what
  a recorded outcome stands for. Neither says that it stays: `OutcomeIsFinal` is
  about steps (`FirstOutcomeDecides`). From the invariant, no step but the first
  signal and a new process touches the outcome (`OutcomeStep`), and `main` leaves its
  wait by it alone (`WaitStep`): a success that comes after a failed first
  `Subscribe` revives nothing. `DeafnessIsLogged` (`NeverSilentlyDeaf`) is inductive
  by itself: every new connection runs the whole callback, and an open connection
  keeps its session. `SessionIsKept` (`ImplementsSession`) maps the goroutines to
  `Session`: `CallbackMeaning` is what makes the mapping total (a callback that runs
  has a connection, up or just lost; one that does not has signalled), `Mapped`
  computes the mapped state for each position of `main`, manager and callback, and
  `MainMaps`, `CallbackMaps` and `ManagerMaps` take each action to one of `Session`
  or to a stutter.
* **Session.** `Lasting` and `OutcomeFinal` are proved of the abstract session, and
  `SessionLasts` takes them over to `Client` and to `Delivery`: with a session expiry
  subscriptions are lost only together, while the client is away; no later
  `Subscribe` changes what the first one decided.
* **Delivery.** `DeliveryInv` gives `OfflineQueueIsKept` and
  `SubscriptionsStand`. The argument goes through the validation of both
  programs: a mode B simulator never starts clean and has a session expiry, so
  only expiry ends its session; a mode B backend publishes with QoS 1, so a
  covered command is queued; the PUBACK follows `OnMessage`
  (`puback \subseteq received`). `RetainInv`, on top of it, gives
  `RetainedIsDelivered` for option A, since what is retained on a topic is a
  command for that topic's device (`RetainedOfTopic`). `SessionIsKept` shows the
  same `Session` here, with a filter for each operator that the session has had.
  `OptionBIsAMailbox` (`ImplementsMailbox`) is stronger than `OfflineQueueIsKept`:
  it says of every step what it may do to promises, box and arrivals together, for
  example that a PUBACK takes a command out only after its arrival, and that only
  the commands' expiry, the session's, or a simulator of option A ends a promise. It
  needs `PromisedIsQueued`, since a promised command that also travelled as a
  retained or a QoS 0 message would arrive without being in the box.
  `MailboxKeepsPromises` is the converse: `OfflineQueueKeeps` follows from the
  mailbox alone.
* **System.** Each program's specification holds only if the other behaves, so
  neither can be used to prove the other. `Whole` breaks the circle: it conjoins
  `BackendInv`, `SimulatorInv` and `SystemInv`, and is inductive because every step
  of the system is, in a state where `Whole` holds, a step of `Backend`'s and of
  `Simulator`'s next-state relation (`BackendRefines`, `SimulatorRefines`); their
  step lemmas then do the rest. `ImplementsBackend` and `ImplementsSimulator` say
  so of behaviours, and make every safety theorem above one about the system
  (`SystemAcksGoHome`, `SystemStatusesSound` and `SystemAcknowledgesOnce` are those
  that concern the hazards of the composition). `RightDeviceAcknowledges` follows from
  `Whole`: an ACKNOWLEDGED request was processed, on an ACK from the inbox, which
  answers a command addressed to the ACK's device. With one device for each id, an
  assumption about the operator and not about the code, `OnlyAddresseeAcknowledges`
  gives more: every command of an ACKNOWLEDGED request was answered by its device
  and by no other. `ImplementsStages` maps each
  action of the system to one action of `Stages` or to a stutter.
* **Console.** `ConsoleInv` is inductive: `PromptMeaning` says what a program has
  at each prompt, `BackendTopics` on what the backend can have published. The
  lemmas `BackendLoop` and `SimulatorLoop` say once what a step of either loop may
  change, and each action is shown to be such a step. `AcksComeHome` holds for ids
  of any number of levels, as long as the command's id has one; `SilentAtEnd` says
  that no step at or after the end of input publishes but an autonomous simulator's
  telemetry at start-up and its ACK of a command that arrives; a repeat is excluded.
  `DefaultsPass` says that accepted defaults are never refused, whichever mode and
  delivery mode were chosen (under A, `validate` accepts everything). What it needs of the invariant is
  that a program is refused only if `validate` does not accept what it has, and that
  `retain` is still `FALSE` under option B, where that question is skipped
  (`PromptMeaning`); `AfterAsked` says which question can follow which, and
  `SameAnswers` that only answers change what `validate` sees.

Only model-checked: the liveness properties (`ReceiveNeverBlocks`,
`WaitingCommandIsTaken`, `StartupDecides`, `ReconnectsIfAsked`,
`OfflineCommandArrives`, `StartupEnds`), which the prover does not reach,
and the violations. Only proved, and
not among the runs: `ImplementsBackend` (it is
about the ids of ACKs, and the instance of `system` has one id only), what follows
from `Session` alone, and corollaries of what the runs check (`ReadyIsSubscribed`
of `ClientInv`, `SubscriptionsStand` and `OfflineQueueIsKept` of
`DeliveryInv`, `OnlyAddresseeAcknowledges` of `SystemInv`).

## 5. Not modelled

* TLS set-up and logging: no state the programs read.
* The spelling of answers, JSON and topics. `Console` has one line of each kind;
  messages and topics that do not parse change no state in the code.
* Device ids with a blank level or a level `+`: the simulator refuses to parse
  their topics, and no ACK is ever sent.
* The raw terminal. There `waitRepeatOrNew` reads one key past the buffered
  reader; `Console` is about input that is not a terminal. `Backend` and
  `Simulator` have the outcomes of both (repeat, go on, interrupted).
* The clock: timestamps are only printed; expiry and timeouts are
  nondeterministic steps.
* Payload bodies other than what the properties tell apart.
* More than one client with the same client id.

## 6. Plan

Still open, in this order:

1. The ACK's way back under option B: the backend has a session too, with its own
   queue, and an expiry. `System` has the subscriptions of that session and lets
   any ACK be late or lost; what option B promises of an ACK is not stated. `Session`
   and `Mailbox` are written so that they can be used for this direction too.
2. `System` with the delivery of `Delivery` in place of its broker, and the
   liveness from the prompt to the status `ACKNOWLEDGED`.
