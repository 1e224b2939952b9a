-------------------------------- MODULE Console ------------------------------
(***************************************************************************)
(* What the two programs make of their standard input when it is not a     *)
(* terminal: the start-up prompts of both (config.PromptInteractive and    *)
(* main), the backend's operator loop and the simulator's prompts.  What   *)
(* publishing does to the rest of the state is in Backend and Simulator.   *)
(*                                                                         *)
(* The input may end at any line, and its last line may lack its newline.  *)
(* The start-up questions then read on and get blank lines (readLine);     *)
(* every other prompt fails (promptLine) and the text before the end is    *)
(* lost.                                                                   *)
(*                                                                         *)
(* A topic is the device id, as the sequence of its levels, and the last   *)
(* level; the prefix heyev/v1/devices/ is common to all.                   *)
(***************************************************************************)
EXTENDS Answers, Naturals, Sequences

CONSTANTS
  Device,     \* device ids that may be typed; a slash in one makes it two levels
  Levels      \* the levels of a device id

ASSUME ConsoleAssumption ==
  /\ "" \notin Device /\ "+" \notin Device
  /\ Levels \in [Device -> Seq(STRING) \ {<<>>}]
  /\ \A d \in Device : \A i \in 1..Len(Levels[d]) : Levels[d][i] \notin {"", "+"}

VARIABLES
  program,    \* which of the two it is
  at,         \* the prompt it is at, or where it is between two
  ended,      \* whether the input has come to its end
  cfg,        \* config.Config, with Go's zero values until they are answered
  device,     \* cfg.DeviceID
  topic,      \* backend: cfg.CommandPublishTopic; simulator: the ACK's default topic
  last,       \* topic of the saved command, or of the simulator's last publish
  published   \* the latest publish: its topic, and the parity of their number, by
              \* which each publish, also a repeat, is a change

startupVars == <<program, cfg, device>>
vars == <<startupVars, at, ended, topic, last, published>>

Field == {"mode", "delivery", "qos1", "retain", "allowDup", "autoReconnect",
          "expiry", "persistent", "telemetry"}
LogOnly == {"clientID", "dup", "debug"}
BackendOnly == {"allowDup", "target", "name", "value", "expirySec", "requestID"}
SimulatorOnly == {"mode", "clientID", "telemetry", "idle", "accept", "send", "ackTopic"}
Started == {"repeat", "target", "name", "value", "expirySec", "requestID",
            "idle", "accept", "send", "ackTopic"}
Stopped == {"refused", "exited"}
Point == Field \cup LogOnly \cup Started \cup Stopped \cup {"validate", "device", "connect"}

NoTopic == [id |-> <<>>, kind |-> "none"]
ID == {Levels[d] : d \in Device}

Topic == [id : ID \cup {<<Head(id)>> : id \in ID}, kind : {"ack", "commands"}]

\* topic.AckTopic and CommandTopic of both programs
AckTopic(id) == [id |-> id, kind |-> "ack"]
CommandTopic(id) == [id |-> id, kind |-> "commands"]

\* The device is the first level after the prefix, whatever follows it.
ParseDeviceID(t) == <<Head(t.id)>>

\* Whether the broker delivers what is published on t to the filter f.
Matches(f, t) ==
  /\ f.kind = t.kind
  /\ Len(f.id) = Len(t.id)
  /\ \A i \in 1..Len(f.id) : f.id[i] \in {"+", t.id[i]}

Wildcard == device = "+"
\* The device level of what the program subscribes to; an autonomous simulator
\* is not asked for a device.
Wanted == IF device \in Device THEN Levels[device] ELSE <<"+">>
Yes(b) == IF b THEN 1 ELSE 0
Telemetry == [id |-> <<>>, kind |-> "telemetry"]
Typed == [id |-> <<>>, kind |-> "typed"]

Zero(f) == IF f \in {"mode", "delivery"} THEN "" ELSE FALSE
Values(f) ==
  CASE f = "mode" -> {"autonomous", "controlled"}
    [] f = "delivery" -> {"A", "B"}
    [] OTHER -> BOOLEAN

\* One line of each kind that some question tells apart.
AnswerLine == {"", "y", "n", "0", "1", "2", "none of these"}
-----------------------------------------------------------------------------
(* The start-up questions, in their order *)

Script ==
  IF program = "simulator"
  THEN <<"mode", "delivery", "clientID", "qos1", "retain", "dup", "autoReconnect",
         "expiry", "persistent", "debug", "telemetry", "validate">>
  ELSE <<"delivery", "qos1", "retain", "dup", "allowDup", "autoReconnect",
         "expiry", "persistent", "debug", "validate">>

\* In option B the backend does not ask for the retain flag.
Skipped == IF program = "backend" /\ cfg["delivery"] = "B" THEN {"retain"} ELSE {}

Asked == {Script[i] : i \in 1..(Len(Script) - 1)} \ Skipped

After(f) ==
  LET i == CHOOSE i \in DOMAIN Script : Script[i] = f
  IN IF Script[i + 1] \in Skipped THEN Script[i + 2] ELSE Script[i + 1]

\* Plausible bug: the default is option A's.
BugDefault(f) ==
  CASE f = "mode" -> "autonomous"
    [] f = "delivery" -> "B"
    [] f = "qos1" -> cfg["delivery"] = "B"
    [] f = "retain" -> program = "backend"
    [] f = "autoReconnect" -> TRUE
    [] OTHER -> FALSE

\* What a blank line means.
Default(f) ==
  CASE f = "mode" -> "autonomous"
    [] f = "delivery" -> "B"
    [] f \in {"qos1", "persistent", "expiry"} -> cfg["delivery"] = "B"
    [] f = "retain" -> program = "backend"
    [] f = "autoReconnect" -> TRUE
    [] OTHER -> FALSE

\* Plausible bug: promptUint does not accept a blank line.
BugMeans(line, f, v) ==
  \/ f # "expiry" /\ line = "" /\ v = Default(f)
  \/ f = "clientID"
  \/ f = "mode" /\ <<line, v>> \in {<<"1", "autonomous">>, <<"2", "controlled">>}
  \/ f = "delivery" /\ <<line, v>> \in {<<"1", "A">>, <<"2", "B">>}
  \/ f = "expiry" /\ <<line, v>> \in {<<"0", FALSE>>, <<"1", TRUE>>, <<"2", TRUE>>}
  \/ f \notin {"mode", "delivery", "expiry"} /\ <<line, v>> \in {<<"y", TRUE>>, <<"n", FALSE>>}

\* The answer v that a line gives to question f.  No answer: the question is
\* asked again.  An expiry is a number that fits 32 bits.
Means(line, f, v) ==
  \/ line = "" /\ v = Default(f)
  \/ f = "clientID"
  \/ f = "mode" /\ <<line, v>> \in {<<"1", "autonomous">>, <<"2", "controlled">>}
  \/ f = "delivery" /\ <<line, v>> \in {<<"1", "A">>, <<"2", "B">>}
  \/ f = "expiry" /\ <<line, v>> \in {<<"0", FALSE>>, <<"1", TRUE>>, <<"2", TRUE>>}
  \/ f \notin {"mode", "delivery", "expiry"} /\ <<line, v>> \in {<<"y", TRUE>>, <<"n", FALSE>>}

\* What validate is given.
Valid ==
  LET answers == [mode |-> cfg["delivery"], qos |-> Yes(cfg["qos1"]), retain |-> cfg["retain"],
                  persistent |-> cfg["persistent"], expiry |-> cfg["expiry"]]
  IN IF program = "backend" THEN BackendValid(answers) ELSE SimulatorValid(answers)

\* readLine: text before the end of input counts, and after it a line is blank.
ReadLine(line) ==
  /\ ended => line = ""
  /\ ended' \in {ended, TRUE}

Init ==
  /\ program \in {"backend", "simulator"}
  /\ at = IF program = "simulator" THEN "mode" ELSE "delivery"
  /\ ended = FALSE
  /\ cfg = [f \in Field |-> Zero(f)]
  /\ device = ""
  /\ topic = NoTopic
  /\ last = NoTopic
  /\ published = [on |-> NoTopic, parity |-> 0]

Answer ==
  /\ at \in Asked
  /\ \E line \in AnswerLine, v \in Values(at) :
       /\ ReadLine(line)
       /\ Means(line, at, v)
       /\ cfg' = IF at \in LogOnly THEN cfg ELSE [cfg EXCEPT ![at] = v]
  /\ at' = After(at)
  /\ UNCHANGED <<program, device, topic, last, published>>

\* The question is asked again.
AskAgain ==
  /\ at \in Asked
  /\ \E line \in AnswerLine :
       ReadLine(line) /\ \A v \in Values(at) : ~Means(line, at, v)
  /\ UNCHANGED <<startupVars, at, topic, last, published>>

\* Reading fails other than by the end of input: main exits.
ReadFails ==
  /\ at \in Asked
  /\ at' = "exited"
  /\ UNCHANGED <<startupVars, ended, topic, last, published>>

\* validate, then loadEnvironment, which may fail.
Validate ==
  /\ at = "validate"
  /\ IF ~Valid THEN at' = "refused"
     ELSE \/ at' = "exited"
          \/ at' = IF program = "backend" \/ cfg["mode"] = "controlled" THEN "device" ELSE "connect"
  /\ UNCHANGED <<startupVars, ended, topic, last, published>>
-----------------------------------------------------------------------------
(* promptLine, everywhere else: a complete line, or an error at the end *)

\* Plausible bug: the end of input is a blank line, as in readLine.
BugCompleteLine == ended' \in {ended, TRUE}

CompleteLine == ~ended /\ ended' = FALSE

NoLine == ended' = TRUE

\* A line the prompt accepts, and one it refuses or that is not there.
Refused == CompleteLine \/ NoLine

\* The device, "+" included; main exits if there is none.
ReadDevice ==
  /\ at = "device"
  /\ \/ /\ CompleteLine
        /\ device' \in Device \cup {"+"}
        /\ topic' = IF program = "backend" /\ device' # "+"
                    THEN CommandTopic(Levels[device'])
                    ELSE NoTopic
        /\ at' = "connect"
     \/ /\ Refused
        /\ at' = "exited"
        /\ UNCHANGED <<device, topic>>
  /\ UNCHANGED <<program, cfg, last, published>>

Publish(t) == published' = [on |-> t, parity |-> 1 - published.parity]

\* A publish succeeds, or fails, or (backend) is not tried for a duplicate.
PublishOn(t) == Publish(t) \/ published' = published

\* rememberPublish of the simulator: only if the publish succeeds.
Remember(t) ==
  \/ Publish(t) /\ last' = t
  \/ PublishOn(t) /\ last' = last

\* Plausible bug: the device of a command is always asked for.
BugFirstPrompt == "target"

\* promptAndPublish asks for the device of a command under "+" only.
FirstPrompt == IF Wildcard THEN "target" ELSE "name"

\* Where main's loop, or Run, goes on.  A repeat is offered if there is anything
\* to repeat.
Offer(l) ==
  IF l # NoTopic THEN "repeat"
  ELSE IF program = "backend" THEN FirstPrompt ELSE "idle"

\* TLS and Connect; then the simulator may publish its telemetry.
Connect ==
  /\ at = "connect"
  /\ \/ at' = "exited" /\ UNCHANGED <<last, published>>
     \/ /\ IF program = "simulator" /\ cfg["telemetry"]
           THEN Remember(Telemetry)
           ELSE UNCHANGED <<last, published>>
        /\ at' = Offer(last')
  /\ UNCHANGED <<startupVars, ended, topic>>

\* publishSaved with the saved command, or repeatLastPublish: under "+" the
\* publish topic becomes that of the saved command's device.
RepeatLast ==
  /\ topic' = IF program = "backend" /\ Wildcard THEN last ELSE topic
  /\ PublishOn(IF program = "backend" THEN topic' ELSE last)

\* waitRepeatOrNew, and the repeat.  Run offers it again unless it failed; at
\* the end of input main's loop comes back to it for ever.
Repeat ==
  /\ at = "repeat"
  /\ \/ /\ CompleteLine
        /\ PublishOn(last)
        /\ topic' = IF program = "backend" THEN last ELSE topic
        /\ at' = "repeat" \/ (program = "simulator" /\ at' = "idle")
     \/ /\ CompleteLine
        /\ at' = IF program = "backend" THEN FirstPrompt ELSE "idle"
        /\ UNCHANGED <<topic, published>>
     \/ /\ NoLine
        /\ at' = IF program = "backend" THEN "repeat" ELSE "idle"
        /\ UNCHANGED <<topic, published>>
  /\ UNCHANGED <<startupVars, last>>
-----------------------------------------------------------------------------
(* promptAndPublish of the backend *)

\* Plausible bug: SetCommandDeviceID takes "+" as well.
BugCommandDevice == {<<"+">>} \cup ID

CommandDevice == ID

\* The device of a command, under "+": the publish topic moves at once.
PromptTarget ==
  /\ at = "target"
  /\ \/ /\ CompleteLine
        /\ \E id \in CommandDevice : topic' = CommandTopic(id)
        /\ at' = "name"
     \/ Refused /\ topic' = topic /\ at' = Offer(last)
  /\ UNCHANGED <<startupVars, last, published>>

\* The name; "r" repeats the last command after all.
PromptName ==
  /\ at = "name"
  /\ \/ CompleteLine /\ at' = "value" /\ UNCHANGED <<topic, published>>
     \/ CompleteLine /\ last # NoTopic /\ at' = "repeat" /\ RepeatLast
     \/ Refused /\ at' = Offer(last) /\ UNCHANGED <<topic, published>>
  /\ UNCHANGED <<startupVars, last>>

\* Any value will do; the expiry must be a number that fits 32 bits.
PromptValue ==
  /\ at \in {"value", "expirySec"}
  /\ \/ CompleteLine /\ at' = IF at = "value" THEN "expirySec" ELSE "requestID"
     \/ NoLine /\ at' = Offer(last)
     \/ at = "expirySec" /\ Refused /\ at' = Offer(last)
  /\ UNCHANGED <<startupVars, topic, last, published>>

\* The request id, blank or not; only now is the command saved and published.
PromptRequestID ==
  /\ at = "requestID"
  /\ \/ CompleteLine /\ last' = topic /\ PublishOn(topic)
     \/ NoLine /\ UNCHANGED <<last, published>>
  /\ at' = Offer(last')
  /\ UNCHANGED <<startupVars, topic>>
-----------------------------------------------------------------------------
(* Run of the simulator *)

\* A command that its subscription matches, or that of an earlier process in
\* the same session.  Autonomous mode answers it without asking.
Receive ==
  /\ at = "idle"
  /\ \E id \in ID :
       /\ Matches(CommandTopic(Wanted), CommandTopic(id)) \/ cfg["persistent"]
       /\ topic' = AckTopic(ParseDeviceID(CommandTopic(id)))
  /\ IF cfg["mode"] = "controlled"
     THEN at' = "accept" /\ UNCHANGED <<last, published>>
     ELSE Remember(topic') /\ at' = Offer(last')
  /\ UNCHANGED <<startupVars, ended>>

\* Accept this command?  Send ACK?  A line that is neither y nor n is asked for
\* again; the end of input ignores the command.
PromptYesNo ==
  /\ at \in {"accept", "send"}
  /\ \/ CompleteLine /\ at' = IF at = "accept" THEN "send" ELSE "ackTopic"
     \/ CompleteLine /\ at' = at
     \/ Refused /\ at' = Offer(last)
  /\ UNCHANGED <<startupVars, topic, last, published>>

\* A blank line is the default topic; any other is the topic itself.
PromptAckTopic ==
  /\ at = "ackTopic"
  /\ \/ CompleteLine /\ \E t \in {topic, Typed} : Remember(t)
     \/ NoLine /\ UNCHANGED <<last, published>>
  /\ at' = Offer(last')
  /\ UNCHANGED <<startupVars, topic>>

\* The process has ended.
Gone == at \in Stopped /\ UNCHANGED vars

Startup == Answer \/ AskAgain \/ Validate \/ ReadDevice
Loop == Repeat \/ PromptTarget \/ PromptName \/ PromptValue \/ PromptRequestID
Run == Receive \/ PromptYesNo \/ PromptAckTopic

Next == Startup \/ ReadFails \/ Connect \/ Loop \/ Run \/ Gone

\* A read of the input returns in the end; that it fails is not to be counted on.
Spec == Init /\ [][Next]_vars /\ WF_vars(Startup)
-----------------------------------------------------------------------------
(* Properties *)

\* Every variable holds a value of its type; a topic that something is
\* published on is that of a concrete device, a typed one apart.
TypeOK ==
  /\ program \in {"backend", "simulator"}
  /\ at \in Point
  /\ ended \in BOOLEAN
  /\ cfg = [f \in Field |-> cfg[f]]
  /\ \A f \in Field : cfg[f] \in Values(f) \cup {Zero(f)}
  /\ device \in Device \cup {"", "+"}
  /\ topic \in Topic \cup {NoTopic}
  /\ last \in Topic \cup {NoTopic, Telemetry, Typed}
  /\ published \in [on : Topic \cup {NoTopic, Telemetry, Typed}, parity : {0, 1}]

\* Which program is at which prompt, and what it has by then: in option B the
\* backend keeps the zero value of the retain flag it does not ask for.
PromptMeaning ==
  /\ at = "repeat" => last # NoTopic
  /\ at = "refused" => ~Valid
  /\ program = "backend" =>
       /\ at \notin SimulatorOnly
       /\ at = "retain" => cfg["delivery"] # "B"
       /\ at = "delivery" \/ cfg["delivery"] = "B" => cfg["retain"] = FALSE
  /\ program = "simulator" =>
       /\ at \notin BackendOnly
       /\ at \notin {"mode", "exited"} => cfg["mode"] \in Values("mode")
       /\ at = "connect" /\ cfg["mode"] = "controlled" => ~ended
       /\ at \in {"accept", "send", "ackTopic"} => topic # NoTopic

\* The topics the backend publishes on: that of the device given at startup, or
\* under "+" those of the devices given since.
BackendTopics ==
  program = "backend" =>
    /\ at \in Started \cup {"connect"} => device # ""
    /\ at = "target" => Wildcard
    /\ device = "" \/ at \notin Started \cup Stopped => last = NoTopic /\ published.on = NoTopic
    /\ device \in Device =>
         /\ topic = CommandTopic(Levels[device])
         /\ {published.on, last} \subseteq {topic, NoTopic}
    /\ Wildcard =>
         /\ {published.on, last} \subseteq {CommandTopic(id) : id \in ID} \cup {NoTopic}
         /\ at \in {"name", "value", "expirySec", "requestID"} =>
              topic \in {CommandTopic(id) : id \in ID}

\* The inductive invariant from which ConsoleProofs derives the others.
ConsoleInv == TypeOK /\ PromptMeaning /\ BackendTopics

\* backend/README.md:57, simulator/README.md:62: Enter accepts the default.  An
\* operator who chooses a mode and a delivery mode and accepts every default from
\* there on is never turned away, though the defaults depend on the delivery mode
\* and validate looks at several answers together.
DefaultsAreValid ==
  at = "refused" =>
    \E f \in (Asked \cap Field) \ {"mode", "delivery"} : cfg[f] # Default(f)

\* After the end of input, or on a line that it cuts short, two things only are
\* ever published, both by an autonomous simulator and neither by an operator: the
\* telemetry of start-up, and the ACK of a command that has just arrived.  Main's
\* loop, which goes round for ever, and Run send no command, no repeat and no ACK
\* that an operator would have to agree to.
NothingSentAtTheEnd ==
  [][ended' /\ published' # published =>
       /\ program = "simulator" /\ cfg["mode"] = "autonomous"
       /\ \/ at = "connect" /\ published'.on = Telemetry
          \/ at = "idle" /\ published'.on = topic' /\ topic'.kind = "ack"]_vars

\* Whatever device ids were typed: the ACK of a simulator that gets a command
\* comes back on a topic the backend has subscribed to, as long as the id has
\* one level.  (With "a/b" the simulator answers for "a".)
AckComesHome ==
  program = "backend" /\ Len(published.on.id) = 1 =>
    Matches(AckTopic(Wanted), AckTopic(ParseDeviceID(published.on)))

\* Once the input has ended no question is asked for ever: start-up is over,
\* one way or the other, or waits for the network.
StartupEnds == ended ~> at \in Started \cup Stopped \cup {"connect"}
=============================================================================
