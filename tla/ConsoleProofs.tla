---------------------------- MODULE ConsoleProofs ----------------------------
(***************************************************************************)
(* Proofs about Console, for every set of device ids and however many      *)
(* levels they have.  ConsoleInv says at each prompt what the program has  *)
(* by then: a topic to publish on, a mode, a device.  The theorems about   *)
(* what is sent follow from it.                                            *)
(***************************************************************************)
EXTENDS Console, TLAPS

\* What is validated follows from the answers.
LEMMA SameAnswers ==
  ASSUME program' = program, cfg' = cfg
  PROVE  Valid' = Valid
  BY DEF Valid, Yes, BackendValid, SimulatorValid

\* What follows a start-up question is a question of the same program, never its
\* first, or validate; the backend gets to the retain flag from QoS, in option A.
LEMMA AfterAsked ==
  ASSUME program \in {"backend", "simulator"}, NEW f \in Asked
  PROVE  /\ After(f) \in Field \cup LogOnly \cup {"validate"}
         /\ After(f) # "mode"
         /\ program = "backend" => After(f) \notin SimulatorOnly
         /\ program = "simulator" => After(f) \notin BackendOnly
         /\ program = "backend" =>
              /\ After(f) # "delivery"
              /\ After(f) = "retain" => f = "qos1" /\ cfg["delivery"] # "B"
<1> DEFINE i == CHOOSE i \in DOMAIN Script : Script[i] = f
<1>1. PICK j \in 1..(Len(Script) - 1) : Script[j] = f
  BY DEF Asked
<1>2. j \in DOMAIN Script
  BY <1>1 DEF Script
<1>3. i \in DOMAIN Script /\ Script[i] = f
  BY <1>1, <1>2
<1> HIDE DEF i
<1>a. After(f) = IF Script[i + 1] \in Skipped THEN Script[i + 2] ELSE Script[i + 1]
  BY DEF After, i
<1>b. "mode" \in SimulatorOnly
  BY DEF SimulatorOnly
<1>4. CASE program = "simulator"
  <2>1. i \in 1..11
    BY <1>1, <1>3, <1>4 DEF Script
  <2>2. Script[i + 1] \notin Skipped
    BY <1>4 DEF Skipped
  <2>4. \A k \in 2..12 : /\ Script[k] \in Field \cup LogOnly \cup {"validate"}
                         /\ Script[k] \notin BackendOnly \cup {"mode"}
    BY <1>4 DEF Script, Field, LogOnly, BackendOnly
  <2>5. i + 1 \in 2..12
    BY <2>1
  <2> QED
    BY <1>4, <1>a, <2>2, <2>4, <2>5
<1>5. CASE program = "backend"
  <2>1. i \in 1..9
    BY <1>1, <1>3, <1>5 DEF Script
  <2>3. Script[i + 1] \in Skipped => i = 2
    BY <1>5, <2>1 DEF Script, Skipped
  <2>4. \A k \in 2..10 : /\ Script[k] \in Field \cup LogOnly \cup {"validate"}
                         /\ Script[k] \notin SimulatorOnly \cup {"delivery"}
                         /\ Script[k] = "retain" => k = 3
    BY <1>5 DEF Script, Field, LogOnly, SimulatorOnly
  <2>5. i + 1 \in 2..10 /\ (i = 2 => i + 2 \in 2..10)
    BY <2>1
  <2>6. After(f) = "retain" => f = "qos1" /\ cfg["delivery"] # "B"
    <3> SUFFICES ASSUME After(f) = "retain" PROVE f = "qos1" /\ cfg["delivery"] # "B"
      OBVIOUS
    <3>1. Script[i + 1] = "retain" /\ "retain" \notin Skipped
      BY <1>a, <2>3, <2>4, <2>5
    <3>2. i = 2
      BY <2>1, <2>4, <2>5, <3>1
    <3>3. f = "qos1"
      BY <1>3, <1>5, <3>2 DEF Script
    <3>4. cfg["delivery"] # "B"
      BY <1>5, <3>1 DEF Skipped
    <3> QED
      BY <3>3, <3>4
  <2> QED
    BY <1>5, <1>a, <1>b, <2>3, <2>4, <2>5, <2>6
<1> QED
  BY <1>4, <1>5

\* The topics of device ids are topics, and are not the special ones.
LEMMA TopicFacts ==
  /\ \A id \in ID : id \in Seq(STRING) /\ id # <<>>
  /\ \A id \in ID : CommandTopic(id) \in Topic /\ AckTopic(ParseDeviceID(CommandTopic(id))) \in Topic
  /\ \A t \in Topic : t # NoTopic
  /\ Telemetry # NoTopic /\ Typed # NoTopic
  /\ \A d \in Device : Levels[d] \in ID
<1>1. \A id \in ID : id \in Seq(STRING) /\ id # <<>>
  BY ConsoleAssumption DEF ConsoleAssumption, ID
<1>2. \A id \in ID : CommandTopic(id) \in Topic /\ AckTopic(ParseDeviceID(CommandTopic(id))) \in Topic
  <2>1. \A id \in ID : CommandTopic(id) \in Topic
    BY DEF CommandTopic, Topic
  <2>2. ASSUME NEW id \in ID PROVE AckTopic(ParseDeviceID(CommandTopic(id))) \in Topic
    <3>1. ParseDeviceID(CommandTopic(id)) = <<Head(id)>>
      BY DEF CommandTopic, ParseDeviceID
    <3> QED
      BY <3>1 DEF AckTopic, Topic
  <2> QED
    BY <2>1, <2>2
<1>3. \A t \in Topic : t # NoTopic
  BY DEF Topic, NoTopic
<1>4. Telemetry # NoTopic /\ Typed # NoTopic
  BY DEF Telemetry, Typed, NoTopic
<1>5. \A d \in Device : Levels[d] \in ID
  BY DEF ID
<1> QED
  BY <1>1, <1>2, <1>3, <1>4, <1>5

\* Where a loop goes on.
LEMMA Offers ==
  ASSUME program \in {"backend", "simulator"}, NEW l
  PROVE  /\ Offer(l) \in {"repeat", "target", "name", "idle"}
         /\ Offer(l) = "repeat" => l # NoTopic
         /\ Offer(l) = "target" => Wildcard
         /\ program = "backend" => Offer(l) # "idle"
         /\ program = "simulator" => Offer(l) \notin {"target", "name"}
  BY DEF Offer, FirstPrompt

\* A publish, or none, keeps the type of published.
LEMMA Publishing ==
  ASSUME NEW S, NEW t \in S, published \in [on : S, parity : {0, 1}], PublishOn(t)
  PROVE  published' \in [on : S, parity : {0, 1}]
<1>1. CASE published' = published
  BY <1>1
<1>2. CASE Publish(t)
  <2>1. 1 - published.parity \in {0, 1}
    OBVIOUS
  <2> QED
    BY <1>2, <2>1 DEF Publish
<1> QED
  BY <1>1, <1>2 DEF PublishOn

LEMMA ConsoleInvInit == Init => ConsoleInv
<1> SUFFICES ASSUME Init PROVE ConsoleInv
  OBVIOUS
<1> USE DEF Init
<1>1. TypeOK
  <2>1. \A f \in Field : cfg[f] = Zero(f)
    OBVIOUS
  <2>2. at \in Point
    BY DEF Point, Field
  <2>3. published \in [on : Topic \cup {NoTopic, Telemetry, Typed}, parity : {0, 1}]
    <3>1. NoTopic \in Topic \cup {NoTopic, Telemetry, Typed}
      OBVIOUS
    <3>2. 0 \in {0, 1}
      OBVIOUS
    <3> QED
      BY <3>1, <3>2
  <2> QED
    BY <2>1, <2>2, <2>3 DEF TypeOK
<1>2. PromptMeaning
  <2>1. "retain" \in Field /\ Zero("retain") = FALSE
    BY DEF Field, Zero
  <2> QED
    BY <2>1 DEF PromptMeaning, SimulatorOnly, BackendOnly
<1>3. BackendTopics
  <2>1. "delivery" \notin Started \cup {"connect", "target"}
    BY DEF Started
  <2> QED
    BY <2>1, ConsoleAssumption DEF BackendTopics, ConsoleAssumption, Wildcard
<1> QED
  BY <1>1, <1>2, <1>3 DEF ConsoleInv

LEMMA AnswerKeeps == ConsoleInv /\ Answer => ConsoleInv'
<1> SUFFICES ASSUME ConsoleInv, Answer PROVE ConsoleInv'
  OBVIOUS
<1> USE DEF ConsoleInv
<1>1. PICK line \in AnswerLine, v \in Values(at) :
        cfg' = IF at \in LogOnly THEN cfg ELSE [cfg EXCEPT ![at] = v]
  BY DEF Answer
<1>2. /\ at \in Asked
      /\ at' = After(at)
      /\ UNCHANGED <<program, device, topic, last, published>>
      /\ ended' \in BOOLEAN
  BY DEF Answer, ReadLine, TypeOK
<1>3. /\ at' \in Field \cup LogOnly \cup {"validate"}
      /\ at' # "mode"
      /\ program = "backend" => at' \notin SimulatorOnly
      /\ program = "simulator" => at' \notin BackendOnly
      /\ program = "backend" =>
           /\ at' # "delivery"
           /\ at' = "retain" => at = "qos1" /\ cfg["delivery"] # "B"
  <2>1. program \in {"backend", "simulator"}
    BY DEF TypeOK
  <2> QED
    BY <1>2, <2>1, AfterAsked
<1>4. TypeOK'
  <2>1. \A f \in Field : cfg'[f] \in Values(f) \cup {Zero(f)}
    BY <1>1 DEF TypeOK
  <2>2. cfg' = [f \in Field |-> cfg'[f]]
    BY <1>1 DEF TypeOK
  <2>3. at' \in Point
    BY <1>3 DEF Point
  <2> QED
    BY <1>2, <2>1, <2>2, <2>3 DEF TypeOK
<1>5. PromptMeaning'
  <2>1. program = "simulator" => cfg'["mode"] \in Values("mode")
    <3>1. CASE at = "mode"
      BY <1>1, <3>1 DEF TypeOK, Field, LogOnly
    <3>2. CASE at # "mode"
      <4>1. at # "exited"
        BY <1>2 DEF Asked, Script
      <4> QED
        BY <1>1, <3>2, <4>1 DEF PromptMeaning, TypeOK, Field
    <3> QED
      BY <3>1, <3>2
  <2>2. at' \notin {"repeat", "refused", "connect", "accept", "send", "ackTopic"}
    BY <1>3 DEF Field, LogOnly
  <2>3. program = "backend" /\ at' = "retain" => cfg'["delivery"] # "B"
    BY <1>1, <1>3 DEF TypeOK, Field
  <2>4. program = "backend" /\ cfg'["delivery"] = "B" => cfg'["retain"] = FALSE
    <3> SUFFICES ASSUME program = "backend", cfg'["delivery"] = "B" PROVE cfg'["retain"] = FALSE
      OBVIOUS
    <3>1. "delivery" \in Field /\ "retain" \in Field
      BY DEF Field
    <3>2. CASE at = "delivery"
      BY <1>1, <3>1, <3>2 DEF TypeOK, PromptMeaning, LogOnly
    <3>3. CASE at # "delivery"
      <4>1. cfg["delivery"] = "B" /\ at # "retain"
        BY <1>1, <3>1, <3>3 DEF TypeOK, PromptMeaning
      <4> QED
        BY <1>1, <3>1, <4>1 DEF TypeOK, PromptMeaning
    <3> QED
      BY <3>2, <3>3
  <2> QED
    BY <1>2, <1>3, <2>1, <2>2, <2>3, <2>4 DEF PromptMeaning
<1>6. BackendTopics'
  <2>1. at' \notin Started \cup {"connect", "target", "name", "value", "expirySec", "requestID"}
    BY <1>3 DEF Field, LogOnly, Started
  <2>2. at \notin Started \cup Stopped
    BY <1>2 DEF Asked, Script, Started, Stopped
  <2> QED
    BY <1>2, <2>1, <2>2 DEF BackendTopics, Wildcard, CommandTopic
<1> QED
  BY <1>4, <1>5, <1>6

LEMMA AskAgainKeeps == ConsoleInv /\ AskAgain => ConsoleInv'
<1> SUFFICES ASSUME ConsoleInv, AskAgain PROVE ConsoleInv'
  OBVIOUS
<1>1. UNCHANGED <<startupVars, at, topic, last, published>> /\ ended' \in BOOLEAN /\ at \in Asked
  BY DEF AskAgain, ReadLine, ConsoleInv, TypeOK
<1>2. at # "connect" /\ at # "refused"
  BY <1>1 DEF Asked, Script
<1>3. PromptMeaning'
  BY <1>1, <1>2 DEF startupVars, ConsoleInv, PromptMeaning
<1> QED
  BY <1>1, <1>2, <1>3
  DEF startupVars, ConsoleInv, TypeOK, BackendTopics, Wildcard

LEMMA ReadFailsKeeps == ConsoleInv /\ ReadFails => ConsoleInv'
<1> SUFFICES ASSUME ConsoleInv, ReadFails PROVE ConsoleInv'
  OBVIOUS
<1>1. /\ UNCHANGED <<startupVars, ended, topic, last, published>>
      /\ at \in Asked /\ at' = "exited"
  BY DEF ReadFails
<1>2. at' \in Point /\ at' \notin Started \cup SimulatorOnly \cup BackendOnly
  BY <1>1 DEF Point, Stopped, Started, SimulatorOnly, BackendOnly
<1>3. PromptMeaning'
  BY <1>1, <1>2 DEF startupVars, ConsoleInv, PromptMeaning, Started, BackendOnly
<1>4. BackendTopics'
  <2>1. at \notin Started \cup Stopped
    BY <1>1 DEF Asked, Script, Started, Stopped
  <2> QED
    BY <1>1, <1>2, <2>1 DEF startupVars, ConsoleInv, BackendTopics, Wildcard, Started
<1> QED
  BY <1>1, <1>2, <1>3, <1>4 DEF startupVars, ConsoleInv, TypeOK

LEMMA ValidateKeeps == ConsoleInv /\ Validate => ConsoleInv'
<1> SUFFICES ASSUME ConsoleInv, Validate PROVE ConsoleInv'
  OBVIOUS
<1>1. /\ UNCHANGED <<startupVars, ended, topic, last, published>>
      /\ at = "validate"
      /\ at' \in {"refused", "exited", "device", "connect"}
      /\ at' = "connect" => program = "simulator" /\ cfg["mode"] # "controlled"
  BY DEF Validate, ConsoleInv, TypeOK
<1>2. at' \in Point
  BY <1>1 DEF Point, Stopped
<1>3. at' \notin Started \cup SimulatorOnly \cup BackendOnly
  BY <1>1 DEF Started, SimulatorOnly, BackendOnly
<1>4. PromptMeaning'
  <2>1. at' = "refused" => ~Valid'
    BY <1>1, SameAnswers DEF Validate, startupVars
  <2> QED
    BY <1>1, <1>3, <2>1 DEF startupVars, ConsoleInv, PromptMeaning, TypeOK, Started, BackendOnly
<1>5. BackendTopics'
  <2>1. at \notin Started \cup Stopped /\ at' # "target"
    BY <1>1 DEF Started, Stopped
  <2> QED
    BY <1>1, <1>3, <2>1 DEF startupVars, ConsoleInv, TypeOK, BackendTopics, Wildcard, Started
<1> QED
  BY <1>1, <1>2, <1>4, <1>5 DEF startupVars, ConsoleInv, TypeOK

LEMMA ReadDeviceKeeps == ConsoleInv /\ ReadDevice => ConsoleInv'
<1> SUFFICES ASSUME ConsoleInv, ReadDevice PROVE ConsoleInv'
  OBVIOUS
<1>1. /\ at = "device" /\ UNCHANGED <<program, cfg, last, published>>
      /\ ended' \in BOOLEAN
      /\ \/ /\ at' = "exited" /\ UNCHANGED <<device, topic>>
         \/ /\ at' = "connect" /\ ended' = FALSE
            /\ device' \in Device \cup {"+"}
            /\ topic' = IF program = "backend" /\ device' # "+"
                        THEN CommandTopic(Levels[device']) ELSE NoTopic
  BY DEF ReadDevice, CompleteLine, Refused, NoLine
<1>2. at' \in Point /\ at' \notin Started \cup SimulatorOnly \cup BackendOnly
  BY <1>1 DEF Point, Stopped, Started, SimulatorOnly, BackendOnly
<1>3. topic' \in Topic \cup {NoTopic}
  BY <1>1, TopicFacts DEF ConsoleInv, TypeOK
<1>4. TypeOK'
  BY <1>1, <1>2, <1>3 DEF ConsoleInv, TypeOK
<1>5. PromptMeaning'
  BY <1>1, <1>2 DEF ConsoleInv, PromptMeaning, TypeOK, Started, BackendOnly
<1>6. BackendTopics'
  <2>0. at \notin Started \cup Stopped
    BY <1>1 DEF Started, Stopped
  <2>1. CASE at' = "exited"
    BY <1>1, <1>2, <2>0, <2>1 DEF ConsoleInv, BackendTopics, Wildcard, Started
  <2>2. CASE at' = "connect"
    <3>1. program = "backend" => last = NoTopic /\ published.on = NoTopic
      BY <1>1 DEF ConsoleInv, BackendTopics, Started, Stopped
    <3> QED
      BY <1>1, <1>2, <2>2, <3>1, ConsoleAssumption
      DEF ConsoleAssumption, BackendTopics, Wildcard, Started
  <2> QED
    BY <1>1, <2>1, <2>2
<1> QED
  BY <1>4, <1>5, <1>6 DEF ConsoleInv
-----------------------------------------------------------------------------
(* After start-up *)

\* What the backend may publish on.
Mine == IF Wildcard THEN {CommandTopic(id) : id \in ID} ELSE {topic}

LEMMA MineFacts ==
  ASSUME ConsoleInv, program = "backend", at \in Started \cup {"connect"}
  PROVE  /\ Mine \subseteq Topic
         /\ last \in Mine \cup {NoTopic}
         /\ published \in [on : Mine \cup {NoTopic}, parity : {0, 1}]
         /\ at \in {"name", "value", "expirySec", "requestID"} => topic \in Mine
<1>1. device \in Device \/ Wildcard
  BY DEF ConsoleInv, TypeOK, BackendTopics, Wildcard
<1>2. /\ topic \in Topic \cup {NoTopic}
      /\ published.on \in Mine \cup {NoTopic}
           => published \in [on : Mine \cup {NoTopic}, parity : {0, 1}]
  BY DEF ConsoleInv, TypeOK
<1>3. CASE Wildcard
  <2>1. Mine \subseteq Topic
    BY <1>3, TopicFacts DEF Mine
  <2>2. {last, published.on} \subseteq Mine \cup {NoTopic}
    BY <1>3 DEF Mine, ConsoleInv, BackendTopics
  <2>4. at \in {"name", "value", "expirySec", "requestID"} => topic \in Mine
    BY <1>3 DEF Mine, ConsoleInv, BackendTopics
  <2> QED
    BY <1>2, <2>1, <2>2, <2>4
<1>4. CASE device \in Device
  <2>1. Mine = {topic} /\ ~Wildcard
    BY <1>4, ConsoleAssumption DEF ConsoleAssumption, Mine, Wildcard
  <2>2. topic \in Topic
    BY <1>4, TopicFacts DEF ConsoleInv, BackendTopics
  <2>3. {last, published.on} \subseteq Mine \cup {NoTopic}
    BY <1>4, <2>1 DEF ConsoleInv, BackendTopics
  <2> QED
    BY <1>2, <2>1, <2>2, <2>3
<1> QED
  BY <1>1, <1>3, <1>4

\* A step of the backend's loop keeps the invariant if it publishes, saves and
\* moves its topic only to its own.
LEMMA BackendLoop ==
  ASSUME ConsoleInv, program = "backend", at \in Started \cup {"connect"},
         UNCHANGED startupVars, ended' \in BOOLEAN,
         at' \in (Started \cup {"exited"}) \ SimulatorOnly,
         at' = "repeat" => last' # NoTopic,
         at' = "target" => Wildcard,
         at' \in {"name", "value", "expirySec", "requestID"} /\ Wildcard => topic' \in Mine,
         topic' \in Mine \cup {topic},
         last' \in Mine \cup {NoTopic},
         published' \in [on : Mine \cup {NoTopic}, parity : {0, 1}]
  PROVE  ConsoleInv'
<1>1. device # "" /\ (device \in Device \/ Wildcard)
  BY DEF ConsoleInv, TypeOK, BackendTopics, Wildcard
<1>2. Mine \subseteq Topic
  BY MineFacts
<1>3. TypeOK'
  <2>1. at' \in Point
    BY DEF Point, Stopped
  <2> QED
    BY <1>2, <2>1 DEF startupVars, ConsoleInv, TypeOK
<1>4. PromptMeaning'
  BY DEF startupVars, ConsoleInv, PromptMeaning, Started
<1>5. BackendTopics'
  <2>1. CASE Wildcard
    <3>1. device \notin Device
      BY <2>1, ConsoleAssumption DEF ConsoleAssumption, Wildcard
    <3>2. at' \in Started \cup Stopped
      BY DEF Stopped
    <3> QED
      BY <1>1, <2>1, <3>1, <3>2 DEF startupVars, BackendTopics, Wildcard, Mine
  <2>2. CASE device \in Device
    <3>1. ~Wildcard
      BY <2>2, ConsoleAssumption DEF ConsoleAssumption, Wildcard
    <3>2. at' \in Started \cup Stopped
      BY DEF Stopped
    <3>3. Mine = {topic} /\ topic = CommandTopic(Levels[device])
      BY <2>2, <3>1 DEF Mine, ConsoleInv, BackendTopics
    <3> QED
      BY <1>1, <2>2, <3>1, <3>2, <3>3
      DEF startupVars, BackendTopics, Wildcard, CommandTopic
  <2> QED
    BY <1>1, <2>1, <2>2
<1> QED
  BY <1>3, <1>4, <1>5 DEF ConsoleInv

\* A step of the simulator's loop keeps the invariant.
LEMMA SimulatorLoop ==
  ASSUME ConsoleInv, program = "simulator", at \in Started \cup {"connect"},
         UNCHANGED startupVars, ended' \in BOOLEAN,
         at' \in (Started \cup {"exited"}) \ BackendOnly,
         at' = "repeat" => last' # NoTopic,
         at' \in {"accept", "send", "ackTopic"} => topic' # NoTopic,
         topic' \in Topic \cup {NoTopic},
         last' \in Topic \cup {NoTopic, Telemetry, Typed},
         published' \in [on : Topic \cup {NoTopic, Telemetry, Typed}, parity : {0, 1}]
  PROVE  ConsoleInv'
<1>1. TypeOK'
  <2>1. at' \in Point
    BY DEF Point, Stopped
  <2> QED
    BY <2>1 DEF startupVars, ConsoleInv, TypeOK
<1>2. PromptMeaning'
  <2>1. at \notin {"mode", "exited"} /\ at' # "connect"
    BY DEF Started
  <2> QED
    BY <2>1 DEF startupVars, ConsoleInv, PromptMeaning, Started
<1>3. BackendTopics'
  BY DEF startupVars, BackendTopics
<1> QED
  BY <1>1, <1>2, <1>3 DEF ConsoleInv

\* What the prompts of a program may lead to.
LEMMA Places ==
  /\ {"repeat", "target", "name", "value", "expirySec", "requestID", "exited"}
       \subseteq (Started \cup {"exited"}) \ SimulatorOnly
  /\ {"repeat", "idle", "accept", "send", "ackTopic", "exited"}
       \subseteq (Started \cup {"exited"}) \ BackendOnly
  BY DEF Started, SimulatorOnly, BackendOnly

LEMMA ConnectKeeps == ConsoleInv /\ Connect => ConsoleInv'
<1> SUFFICES ASSUME ConsoleInv, Connect PROVE ConsoleInv'
  OBVIOUS
<1>0. program \in {"backend", "simulator"} /\ ended' \in BOOLEAN /\ at = "connect"
  BY DEF Connect, ConsoleInv, TypeOK
<1>1. UNCHANGED startupVars /\ topic' = topic
  BY DEF Connect
<1>2. \/ at' = "exited" /\ last' = last /\ published' = published
      \/ at' = Offer(last) /\ last' = last /\ published' = published
      \/ /\ program = "simulator" /\ at' = Offer(last')
         /\ last' \in {last, Telemetry} /\ PublishOn(Telemetry)
  BY DEF Connect, Remember, PublishOn
<1>3. CASE program = "backend"
  <2>1. last' = last /\ published' = published
    BY <1>2, <1>3
  <2>2. last \in Mine \cup {NoTopic} /\ published \in [on : Mine \cup {NoTopic}, parity : {0, 1}]
    BY <1>0, <1>3, MineFacts
  <2>3. at' \in {"repeat", "target", "name", "exited"} /\ (at' = "repeat" => last' # NoTopic)
        /\ (at' = "target" => Wildcard) /\ (Wildcard => at' # "name")
    BY <1>2, <1>3, Offers DEF Offer, FirstPrompt
  <2> QED
    BY <1>0, <1>1, <1>3, <2>1, <2>2, <2>3, Places, BackendLoop
<1>4. CASE program = "simulator"
  <2>1. at' \in {"repeat", "idle", "exited"} /\ (at' = "repeat" => last' # NoTopic)
    BY <1>2, <1>4, Offers
  <2>2. /\ topic \in Topic \cup {NoTopic}
        /\ last' \in Topic \cup {NoTopic, Telemetry, Typed}
    BY <1>2 DEF ConsoleInv, TypeOK
  <2>3. published' = published \/ PublishOn(Telemetry)
    BY <1>2
  <2>4. published' \in [on : Topic \cup {NoTopic, Telemetry, Typed}, parity : {0, 1}]
    BY <2>3, Publishing DEF ConsoleInv, TypeOK
  <2> QED
    BY <1>0, <1>1, <1>4, <2>1, <2>2, <2>4, Places, SimulatorLoop
<1> QED
  BY <1>0, <1>3, <1>4

LEMMA RepeatKeeps == ConsoleInv /\ Repeat => ConsoleInv'
<1> SUFFICES ASSUME ConsoleInv, Repeat PROVE ConsoleInv'
  OBVIOUS
<1>0. /\ program \in {"backend", "simulator"} /\ ended' \in BOOLEAN
      /\ at \in Started /\ last # NoTopic
  BY DEF Repeat, CompleteLine, NoLine, ConsoleInv, TypeOK, PromptMeaning, Started
<1>1. UNCHANGED startupVars /\ last' = last /\ PublishOn(last)
  BY DEF Repeat, PublishOn
<1>2. CASE program = "backend"
  <2>1. last \in Mine /\ published \in [on : Mine \cup {NoTopic}, parity : {0, 1}]
    BY <1>0, <1>2, MineFacts
  <2>4. published' \in [on : Mine \cup {NoTopic}, parity : {0, 1}]
    BY <1>1, <2>1, Publishing
  <2>2. topic' \in {topic, last} /\ at' \in {"repeat", FirstPrompt}
    BY <1>2 DEF Repeat
  <2>3. at' \in {"repeat", "target", "name"} /\ (at' = "target" => Wildcard) /\ (Wildcard => at' # "name")
    BY <2>2 DEF FirstPrompt
  <2> QED
    BY <1>0, <1>1, <1>2, <2>1, <2>2, <2>3, <2>4, Places, BackendLoop
<1>3. CASE program = "simulator"
  <2>1. topic' = topic /\ at' \in {"repeat", "idle"}
    BY <1>3 DEF Repeat
  <2>2. /\ topic \in Topic \cup {NoTopic}
        /\ last \in Topic \cup {Telemetry, Typed}
    BY <1>0 DEF ConsoleInv, TypeOK
  <2>3. published' \in [on : Topic \cup {NoTopic, Telemetry, Typed}, parity : {0, 1}]
    BY <1>1, <2>2, Publishing DEF ConsoleInv, TypeOK
  <2> QED
    BY <1>0, <1>1, <1>3, <2>1, <2>2, <2>3, Places, SimulatorLoop
<1> QED
  BY <1>0, <1>2, <1>3

\* The backend's prompts.
LEMMA PromptsKeep ==
  ConsoleInv /\ (PromptTarget \/ PromptName \/ PromptValue \/ PromptRequestID) => ConsoleInv'
<1> SUFFICES ASSUME ConsoleInv, PromptTarget \/ PromptName \/ PromptValue \/ PromptRequestID
             PROVE  ConsoleInv'
  OBVIOUS
<1>0. /\ at \in {"target", "name", "value", "expirySec", "requestID"} /\ program = "backend"
      /\ ended' \in BOOLEAN /\ UNCHANGED startupVars /\ at \in Started
  BY DEF PromptTarget, PromptName, PromptValue, PromptRequestID, CompleteLine, NoLine, Refused,
         ConsoleInv, TypeOK, PromptMeaning, BackendOnly, Started
<1>1. /\ Mine \subseteq Topic
      /\ last \in Mine \cup {NoTopic}
      /\ published \in [on : Mine \cup {NoTopic}, parity : {0, 1}]
      /\ at # "target" => topic \in Mine
  BY <1>0, MineFacts
<1>2. /\ Offer(last) \in {"repeat", "target", "name"}
      /\ Offer(last) = "repeat" => last # NoTopic
      /\ Offer(last) = "target" => Wildcard
      /\ Wildcard => Offer(last) # "name"
  BY <1>0, Offers DEF Offer, FirstPrompt
<1>3. CASE PromptTarget
  <2>1. last' = last /\ published' = published
    BY <1>3 DEF PromptTarget
  <2>2. \/ at' = "name" /\ topic' \in Mine
        \/ at' = Offer(last) /\ topic' = topic
    <3>1. Wildcard
      BY <1>0, <1>3 DEF PromptTarget, ConsoleInv, BackendTopics
    <3> QED
      BY <1>3, <3>1 DEF PromptTarget, CommandDevice, Mine
  <2> QED
    BY <1>0, <1>1, <1>2, <2>1, <2>2, Places, BackendLoop
<1>4. CASE PromptName
  <2>1. \/ /\ at' = "value" /\ topic' = topic
        \/ /\ at' = "repeat" /\ last # NoTopic
           /\ topic' = (IF Wildcard THEN last ELSE topic)
        \/ at' = Offer(last) /\ topic' = topic
    BY <1>0, <1>4 DEF PromptName, RepeatLast
  <2>5. PublishOn(topic')
    BY <1>0, <1>4 DEF PromptName, RepeatLast, PublishOn
  <2>2. last' = last /\ topic \in Mine
    BY <1>1, <1>4 DEF PromptName
  <2>6. topic' \in Mine
    BY <1>1, <2>1, <2>2
  <2>3. topic' \in Mine /\ published' \in [on : Mine \cup {NoTopic}, parity : {0, 1}]
    BY <1>1, <2>5, <2>6, Publishing
  <2>4. at' \in {"value", "repeat", "target", "name"} /\ (at' = "repeat" => last' # NoTopic)
        /\ (at' = "target" => Wildcard)
    BY <1>2, <2>1, <2>2
  <2> QED
    BY <1>0, <1>1, <2>2, <2>3, <2>4, Places, BackendLoop
<1>5. CASE PromptValue
  <2>1. topic' = topic /\ last' = last /\ published' = published /\ topic \in Mine
    BY <1>1, <1>5 DEF PromptValue
  <2>2. at' \in {"expirySec", "requestID", Offer(last)}
    BY <1>5 DEF PromptValue
  <2> QED
    BY <1>0, <1>1, <1>2, <2>1, <2>2, Places, BackendLoop
<1>6. CASE PromptRequestID
  <2>1. topic \in Mine /\ topic' = topic /\ at' = Offer(last')
    BY <1>1, <1>6 DEF PromptRequestID
  <2>2. last' \in {last, topic} /\ PublishOn(topic)
    BY <1>6 DEF PromptRequestID, PublishOn
  <2>4. published' \in [on : Mine \cup {NoTopic}, parity : {0, 1}]
    BY <1>1, <2>1, <2>2, Publishing
  <2>3. /\ Offer(last') \in {"repeat", "target", "name"}
        /\ Offer(last') = "repeat" => last' # NoTopic
        /\ Offer(last') = "target" => Wildcard
    BY <1>0, Offers DEF Offer, FirstPrompt
  <2> QED
    BY <1>0, <1>1, <2>1, <2>2, <2>3, <2>4, Places, BackendLoop
<1> QED
  BY <1>3, <1>4, <1>5, <1>6

\* Run of the simulator.
LEMMA RunKeeps == ConsoleInv /\ (Receive \/ PromptYesNo \/ PromptAckTopic) => ConsoleInv'
<1> SUFFICES ASSUME ConsoleInv, Receive \/ PromptYesNo \/ PromptAckTopic PROVE ConsoleInv'
  OBVIOUS
<1>0. /\ at \in {"idle", "accept", "send", "ackTopic"} /\ program = "simulator"
      /\ ended' \in BOOLEAN /\ UNCHANGED startupVars /\ at \in Started
  BY DEF Receive, PromptYesNo, PromptAckTopic, CompleteLine, NoLine, Refused,
         ConsoleInv, TypeOK, PromptMeaning, SimulatorOnly, Started
<1>1. /\ topic \in Topic \cup {NoTopic}
      /\ last \in Topic \cup {NoTopic, Telemetry, Typed}
      /\ published \in [on : Topic \cup {NoTopic, Telemetry, Typed}, parity : {0, 1}]
      /\ at # "idle" => topic # NoTopic
  BY <1>0 DEF ConsoleInv, TypeOK, PromptMeaning
<1>2. \A l : Offer(l) \in {"repeat", "idle"} /\ (Offer(l) = "repeat" => l # NoTopic)
  BY <1>0, Offers
<1>3. CASE Receive
  <2>1. PICK id \in ID : topic' = AckTopic(ParseDeviceID(CommandTopic(id)))
    BY <1>3 DEF Receive
  <2>2. topic' \in Topic /\ topic' # NoTopic
    BY <2>1, TopicFacts
  <2>3. /\ at' \in {"accept", Offer(last')}
        /\ last' \in {last, topic'}
        /\ PublishOn(topic')
    BY <1>3 DEF Receive, Remember, PublishOn
  <2>4. published' \in [on : Topic \cup {NoTopic, Telemetry, Typed}, parity : {0, 1}]
    BY <1>1, <2>2, <2>3, Publishing
  <2> QED
    BY <1>0, <1>1, <1>2, <2>2, <2>3, <2>4, Places, SimulatorLoop
<1>4. CASE PromptYesNo
  <2>1. topic' = topic /\ last' = last /\ published' = published /\ topic # NoTopic
    BY <1>1, <1>4 DEF PromptYesNo
  <2>2. at' \in {"accept", "send", "ackTopic", Offer(last)}
    BY <1>4 DEF PromptYesNo
  <2> QED
    BY <1>0, <1>1, <1>2, <2>1, <2>2, Places, SimulatorLoop
<1>5. CASE PromptAckTopic
  <2>1. topic' = topic /\ topic \in Topic /\ at' = Offer(last')
    BY <1>1, <1>5 DEF PromptAckTopic
  <2>2. last' \in {last, topic, Typed} /\ (PublishOn(topic) \/ PublishOn(Typed))
    BY <1>5 DEF PromptAckTopic, Remember, PublishOn
  <2>3. published' \in [on : Topic \cup {NoTopic, Telemetry, Typed}, parity : {0, 1}]
    BY <1>1, <2>1, <2>2, Publishing
  <2> QED
    BY <1>0, <1>1, <1>2, <2>1, <2>2, <2>3, Places, SimulatorLoop
<1> QED
  BY <1>3, <1>4, <1>5
-----------------------------------------------------------------------------
(* The theorems *)

LEMMA ConsoleInvHolds == Spec => []ConsoleInv
<1>1. Init => ConsoleInv
  BY ConsoleInvInit
<1>2. ConsoleInv /\ [Next]_vars => ConsoleInv'
  <2> SUFFICES ASSUME ConsoleInv, [Next]_vars PROVE ConsoleInv'
    OBVIOUS
  <2>1. CASE Startup
    BY <2>1, AnswerKeeps, AskAgainKeeps, ValidateKeeps, ReadDeviceKeeps DEF Startup
  <2>2. CASE ReadFails \/ Connect
    BY <2>2, ReadFailsKeeps, ConnectKeeps
  <2>3. CASE Loop
    BY <2>3, RepeatKeeps, PromptsKeep DEF Loop
  <2>4. CASE Run
    BY <2>4, RunKeeps DEF Run
  <2>5. CASE Gone \/ UNCHANGED vars
    <3>1. UNCHANGED <<program, cfg, device, at, ended, topic, last, published>>
      BY <2>5 DEF Gone, vars, startupVars
    <3>2. TypeOK'
      BY <3>1 DEF ConsoleInv, TypeOK
    <3>3. PromptMeaning'
      BY <3>1, SameAnswers DEF ConsoleInv, PromptMeaning
    <3>4. BackendTopics'
      BY <3>1 DEF ConsoleInv, BackendTopics, Wildcard
    <3> QED
      BY <3>2, <3>3, <3>4 DEF ConsoleInv
  <2> QED
    BY <2>1, <2>2, <2>3, <2>4, <2>5 DEF Next
<1> QED
  BY <1>1, <1>2, PTL DEF Spec

\* main.go and prompt.go of both programs: whatever is typed and wherever the
\* input ends, each prompt is reached with what it needs.
THEOREM PromptsHaveWhatTheyNeed == Spec => []ConsoleInv
  BY ConsoleInvHolds

\* Every variable of the model always has its type: in particular a topic that
\* something is published on is that of a concrete device, or typed by hand.
THEOREM TypeCorrect == Spec => []TypeOK
<1>1. ConsoleInv => TypeOK
  BY DEF ConsoleInv
<1> QED
  BY <1>1, ConsoleInvHolds, PTL

\* config.go:66-90 and config.go:72-94 (validate) against prompt.go's
\* defaults: in either program, mode and delivery mode, and whatever the order of
\* the questions, an operator who takes every default offered is never turned away.
\* Under A validate accepts anything; under B the other defaults have to add up to
\* what it asks, and the backend's retain flag is not asked for.
THEOREM DefaultsPass == Spec => []DefaultsAreValid
<1>1. ConsoleInv => DefaultsAreValid
  <2> SUFFICES ASSUME ConsoleInv, at = "refused",
                      \A f \in (Asked \cap Field) \ {"mode", "delivery"} : cfg[f] = Default(f)
               PROVE  Valid
    BY DEF DefaultsAreValid, ConsoleInv, PromptMeaning
  <2>1. program \in {"backend", "simulator"}
    BY DEF ConsoleInv, TypeOK
  <2>2. CASE cfg["delivery"] # "B"
    BY <2>2 DEF Valid, BackendValid, SimulatorValid
  <2>3. CASE cfg["delivery"] = "B"
    <3>1. cfg["qos1"] = TRUE
      <4>1. \E i \in 1..(Len(Script) - 1) : Script[i] = "qos1"
        BY <2>1 DEF Script
      <4>2. "qos1" \in (Asked \cap Field) \ {"mode", "delivery"}
        BY <4>1 DEF Asked, Skipped, Field
      <4> QED
        BY <2>3, <4>2 DEF Default
    <3>2. CASE program = "backend"
      <4>1. cfg["retain"] = FALSE
        BY <2>3, <3>2 DEF ConsoleInv, PromptMeaning
      <4> QED
        BY <3>1, <3>2, <4>1 DEF Valid, BackendValid, Yes
    <3>3. CASE program = "simulator"
      <4>1. {"persistent", "expiry"} \subseteq (Asked \cap Field) \ {"mode", "delivery"}
        <5>1. Script[9] = "persistent" /\ Script[8] = "expiry" /\ Len(Script) = 12
          BY <3>3 DEF Script
        <5> QED
          BY <3>3, <5>1 DEF Asked, Skipped, Field
      <4>2. cfg["persistent"] = TRUE /\ cfg["expiry"] = TRUE
        BY <2>3, <4>1 DEF Default
      <4> QED
        BY <3>1, <3>3, <4>2 DEF Valid, SimulatorValid, Yes
    <3> QED
      BY <2>1, <3>2, <3>3
  <2> QED
    BY <2>2, <2>3
<1> QED
  BY <1>1, ConsoleInvHolds, PTL

\* config.go:79-108, topic.go:8-36: whatever device ids are typed, and however
\* many levels they have, the ACK of a simulator that gets a command of this
\* backend comes back on a topic it has subscribed to, as long as the id has one
\* level.
THEOREM AcksComeHome == Spec => []AckComesHome
<1>1. ConsoleInv => AckComesHome
  <2> SUFFICES ASSUME ConsoleInv, program = "backend", Len(published.on.id) = 1
               PROVE  Matches(AckTopic(Wanted), AckTopic(ParseDeviceID(published.on)))
    BY DEF AckComesHome
  <2> DEFINE t == published.on
  <2>0. t # NoTopic
    BY DEF NoTopic
  <2>1. device \in Device \/ Wildcard
    BY <2>0 DEF ConsoleInv, TypeOK, BackendTopics, Wildcard
  <2>2. CASE device \in Device
    <3> DEFINE id == Levels[device]
    <3>1. ~Wildcard /\ id \in Seq(STRING)
      BY <2>2, ConsoleAssumption DEF ConsoleAssumption, Wildcard
    <3>2. t.id = id
      <4>1. t = CommandTopic(id)
        BY <2>0, <2>2 DEF ConsoleInv, BackendTopics
      <4> QED
        BY <4>1 DEF CommandTopic
    <3>3. Len(id) = 1 /\ Head(id) = id[1]
      BY <3>1, <3>2
    <3> QED
      BY <3>1, <3>2, <3>3 DEF Wanted, AckTopic, ParseDeviceID, Matches
  <2>3. CASE Wildcard
    <3>1. Wanted = <<"+">>
      BY <2>3, ConsoleAssumption DEF ConsoleAssumption, Wildcard, Wanted
    <3> QED
      BY <3>1 DEF AckTopic, ParseDeviceID, Matches
  <2> QED
    BY <2>1, <2>2, <2>3
<1> QED
  BY <1>1, ConsoleInvHolds, PTL

\* prompt.go:114-140 and prompt.go:139-181, promptLine, in the loops of both
\* programs: at and after the end of input nothing goes out but the telemetry and
\* the immediate ACKs of an autonomous simulator.
THEOREM SilentAtEnd == Spec => NothingSentAtTheEnd
<1> DEFINE Own == /\ program = "simulator" /\ cfg["mode"] = "autonomous"
                  /\ \/ at = "connect" /\ published'.on = Telemetry
                     \/ at = "idle" /\ published'.on = topic' /\ topic'.kind = "ack"
<1>1. ASSUME ConsoleInv, [Next]_vars, ended', published' # published PROVE Own
  <2>1. \/ Connect
        \/ Repeat \/ PromptName \/ PromptRequestID
        \/ Receive \/ PromptAckTopic
    BY <1>1 DEF Next, Startup, Loop, Run, Gone, vars, Answer, AskAgain, Validate, ReadDevice,
           ReadFails, PromptTarget, PromptValue, PromptYesNo
  <2>2. ~Repeat /\ ~PromptName /\ ~PromptRequestID /\ ~PromptAckTopic
    BY <1>1 DEF Repeat, PromptName, PromptRequestID, PromptAckTopic, CompleteLine, NoLine, Refused
  <2>3. CASE Connect
    <3>1. at = "connect" /\ program = "simulator" /\ ended /\ published'.on = Telemetry
      BY <1>1, <2>3 DEF Connect, Remember, PublishOn, Publish
    <3> QED
      BY <1>1, <3>1 DEF ConsoleInv, PromptMeaning, Values
  <2>4. CASE Receive
    <3>1. at = "idle" /\ cfg["mode"] # "controlled" /\ published'.on = topic' /\ topic'.kind = "ack"
      BY <1>1, <2>4 DEF Receive, Remember, PublishOn, Publish, AckTopic
    <3>2. program = "simulator"
      BY <1>1, <3>1 DEF ConsoleInv, TypeOK, PromptMeaning, SimulatorOnly
    <3> QED
      BY <1>1, <3>1, <3>2 DEF ConsoleInv, PromptMeaning, Values
  <2> QED
    BY <2>1, <2>2, <2>3, <2>4
<1> QED
  BY <1>1, ConsoleInvHolds, PTL DEF Spec, NothingSentAtTheEnd
=============================================================================
