------------------------------- MODULE Backend -------------------------------
(***************************************************************************)
(* The backend process (src/backend) once main() has connected: the        *)
(* operator loop of main.go, which publishes commands, and the MQTT        *)
(* client's receive goroutine, which runs ack.Handler.Handle.  Both write  *)
(* the one state.Tracker; each idempotency store has a single user.        *)
(*                                                                         *)
(* A step is one critical section of the tracker's mutex together with     *)
(* whatever the same goroutine does to its own state around it.            *)
(***************************************************************************)
CONSTANTS
  Request,    \* request ids, typed by the operator or generated by Build
  Device,     \* concrete device ids
  Body,       \* the rest of a command: name, value, expiry
  Wild,       \* the device id "+" given at startup
  NoDevice,   \* cfg.CommandPublishTopic = ""
  None        \* no command, no request

ASSUME BackendAssumption ==
  /\ Wild \notin Device
  /\ NoDevice \notin Device \cup {Wild}
  /\ None \notin Request
  /\ None \notin [device : Device, body : Body]
  /\ None \notin [id : Request, topic : Device, device : Device, body : Body]

VARIABLES
  cfg,        \* the answers given at startup
  topic,      \* the device of cfg.CommandPublishTopic
  last,       \* main's `last`: the saved command that a repeat re-sends
  cur,        \* the command PublishCommand is publishing, or None
  tracker,    \* state.Tracker.states; "UNKNOWN" stands for an absent key
  published,  \* command.IdempotencyStore.seen
  processed,  \* ack.IdempotencyStore.seen
  forced,     \* Handle between a refused Transition and the Set after it
  sent,       \* commands handed to MQTT: the broker may deliver them
  acks        \* device ACKs on the subscribed topic, deliverable any time

mainVars == <<topic, last, cur, published>>
handlerVars == <<processed, forced>>
vars == <<cfg, mainVars, tracker, handlerVars, sent, acks>>

Config == [allowDup : BOOLEAN, device : Device \cup {Wild}]
Saved == [device : Device, body : Body]
Command == [id : Request, topic : Device, device : Device, body : Body]
Ack == [id : Request, status : {"ACKNOWLEDGED", "SUCCESS"}]
Status == {"UNKNOWN", "PENDING", "PUBLISHED", "ACKNOWLEDGED", "SUCCESS",
           "FAILED", "EXPIRED", "DUPLICATE"}

Wildcard == cfg.device = Wild
Acknowledged(r) == tracker[r] \in {"ACKNOWLEDGED", "SUCCESS"}
IDs(msgs) == {m.id : m \in msgs}
-----------------------------------------------------------------------------
(* Startup *)

\* Plausible bug: "+" is formatted into the publish topic as well.
BugWildcardTopic(c) == c.device

\* The device of cfg.CommandPublishTopic after SetDeviceTopics.
SetDeviceTopics(c) == IF c.device = Wild THEN NoDevice ELSE c.device

Init ==
  /\ cfg \in Config
  /\ topic = SetDeviceTopics(cfg)
  /\ last = None
  /\ cur = None
  /\ tracker = [r \in Request |-> "UNKNOWN"]
  /\ published = {}
  /\ processed = {}
  /\ forced = None
  /\ sent = {}
  /\ acks = {}
-----------------------------------------------------------------------------
(* state.Tracker and the command idempotency store *)

ValidTransition(from, to) ==
  CASE to = "PUBLISHED"    -> from = "PENDING"
    [] to = "ACKNOWLEDGED" -> from = "PUBLISHED"
    [] to = "SUCCESS"      -> from \in {"ACKNOWLEDGED", "PUBLISHED"}
    [] to \in {"FAILED", "EXPIRED", "DUPLICATE"} -> TRUE
    [] OTHER -> FALSE

Set(r, status) == tracker' = [tracker EXCEPT ![r] = status]

\* Whether Transition(r, to) writes: an absent key is always accepted.
TransitionAllowed(r, to) ==
  tracker[r] = "UNKNOWN" \/ ValidTransition(tracker[r], to)

\* Plausible bug: the idempotency store is not consulted.
BugCanPublish(r) == TRUE

CanPublish(r) == cfg.allowDup \/ r \notin published

\* Plausible bug: only the tracker is told, so the store stays empty.
BugMarkPublished(r) == published' = published /\ Set(r, "PUBLISHED")

MarkPublished(r) == published' = published \cup {r} /\ Set(r, "PUBLISHED")
-----------------------------------------------------------------------------
(* The operator loop *)

\* Plausible bug: a repeat publishes on the topic of the device typed last.
BugPublishTopic(saved) == IF topic = NoDevice THEN saved.device ELSE topic

\* Plausible bug: the saved device is not looked at.
BugSameTopic(saved) == topic

\* publishSaved calls SetCommandDeviceID(saved.DeviceID) under the wildcard, so
\* that cfg.CommandPublishTopic is the saved device's own topic.
PublishTopic(saved) == IF Wildcard THEN saved.device ELSE topic

\* publishSaved up to the call of PublishCommand: a blocked duplicate is only
\* recorded, anything else becomes PENDING and is in flight.
PublishSaved(saved, r) ==
  /\ topic' = PublishTopic(saved)
  /\ \/ /\ ~CanPublish(r)
        /\ Set(r, "DUPLICATE")
        /\ cur' = cur
     \/ /\ CanPublish(r)
        /\ Set(r, "PENDING")
        /\ cur' = [id |-> r, topic |-> topic', device |-> saved.device, body |-> saved.body]
  /\ UNCHANGED <<cfg, published, handlerVars, sent, acks>>

\* uuid.NewString: an id nobody has used.
Generated == {r \in Request : tracker[r] = "UNKNOWN" /\ r \notin IDs(sent)}

\* Repeat the last command with a generated id, from the repeat prompt or by
\* answering the name prompt with "r".
RepeatLast ==
  /\ cur = None
  /\ last # None
  /\ \E r \in Generated : PublishSaved(last, r)
  /\ last' = last

\* A new command; a blank request id is generated, a typed one is arbitrary.
NewCommand ==
  /\ cur = None
  /\ \E d \in Device, b \in Body, r \in Request :
       /\ Wildcard \/ d = cfg.device
       /\ last' = [device |-> d, body |-> b]
       /\ PublishSaved([device |-> d, body |-> b], r)

\* promptAndPublish gives up (empty name, invalid expiry, nothing to repeat, end
\* of input) after SetCommandDeviceID has already moved the publish topic.
AbandonPrompt ==
  /\ cur = None
  /\ Wildcard
  /\ topic' \in Device
  /\ UNCHANGED <<cfg, last, cur, published, tracker, handlerVars, sent, acks>>

\* The packet reaches the client's session store or the wire.  Delivery is up
\* to the broker: late, repeated, or (QoS 0, expiry) not at all.
Transmit ==
  /\ cur # None
  /\ sent' = sent \cup {cur}
  /\ UNCHANGED <<cfg, mainVars, tracker, handlerVars, acks>>

\* Publish returns without error; only then is the command marked.
PublishOK ==
  /\ cur \in sent
  /\ MarkPublished(cur.id)
  /\ cur' = None
  /\ UNCHANGED <<cfg, topic, last, handlerVars, sent, acks>>

\* Plausible bug: result.Err is not looked at.
BugPublishErr ==
  /\ cur # None
  /\ MarkPublished(cur.id)
  /\ cur' = None
  /\ UNCHANGED <<cfg, topic, last, handlerVars, sent, acks>>

\* Publish returns an error: connection down, negative PUBACK, or a timeout of
\* a packet that is already on its way.  Nothing is recorded.
PublishErr ==
  /\ cur # None
  /\ cur' = None
  /\ UNCHANGED <<cfg, topic, last, published, tracker, handlerVars, sent, acks>>
-----------------------------------------------------------------------------
(* ack.Handler.Handle *)

MarkProcessed(r) == processed' = processed \cup {r}

\* Plausible bug: a duplicate is processed like a first ACK.
BugIsNew(r) == TRUE

IsNew(r) == r \notin processed

HandleDuplicate(a) ==
  /\ forced = None
  /\ ~IsNew(a.id)
  /\ Set(a.id, "DUPLICATE")
  /\ UNCHANGED <<cfg, mainVars, handlerVars, sent, acks>>

HandleSuccess(a) ==
  /\ forced = None
  /\ IsNew(a.id)
  /\ a.status = "SUCCESS"
  /\ MarkProcessed(a.id)
  /\ Set(a.id, "SUCCESS")
  /\ UNCHANGED <<cfg, mainVars, forced, sent, acks>>

\* The first ACK of a request, up to and including Transition.
HandleAck(a) ==
  /\ forced = None
  /\ IsNew(a.id)
  /\ a.status # "SUCCESS"
  /\ MarkProcessed(a.id)
  /\ IF TransitionAllowed(a.id, "ACKNOWLEDGED")
     THEN Set(a.id, "ACKNOWLEDGED") /\ forced' = None
     ELSE tracker' = tracker /\ forced' = a.id
  /\ UNCHANGED <<cfg, mainVars, sent, acks>>

\* A refused Transition is followed by an unconditional Set, in a critical
\* section of its own.
ForceAck ==
  /\ forced # None
  /\ Set(forced, "ACKNOWLEDGED")
  /\ forced' = None
  /\ UNCHANGED <<cfg, mainVars, processed, sent, acks>>

Handle == \E a \in acks : HandleDuplicate(a) \/ HandleSuccess(a) \/ HandleAck(a)
-----------------------------------------------------------------------------
(* The environment *)

\* A device that received a command acknowledges it.
DeviceAck ==
  /\ \E a \in Ack : a.id \in IDs(sent) /\ acks' = acks \cup {a}
  /\ UNCHANGED <<cfg, mainVars, tracker, handlerVars, sent>>

\* Ctrl+C or a crash, then a new process: all state is in memory, and the
\* operator answers the startup prompts anew.
Restart ==
  /\ cfg' \in Config
  /\ topic' = SetDeviceTopics(cfg')
  /\ last' = None
  /\ cur' = None
  /\ tracker' = [r \in Request |-> "UNKNOWN"]
  /\ published' = {}
  /\ processed' = {}
  /\ forced' = None
  /\ UNCHANGED <<sent, acks>>

MainNext ==
  \/ RepeatLast \/ NewCommand \/ AbandonPrompt
  \/ Transmit \/ PublishOK \/ PublishErr

Next == MainNext \/ Handle \/ ForceAck \/ DeviceAck \/ Restart

Spec == Init /\ [][Next]_vars
-----------------------------------------------------------------------------
(* Properties *)

\* Every variable holds a value of its Go type.
TypeOK ==
  /\ cfg \in Config
  /\ topic \in Device \cup {NoDevice}
  /\ last \in Saved \cup {None}
  /\ cur \in Command \cup {None}
  /\ tracker \in [Request -> Status]
  /\ published \subseteq Request
  /\ processed \subseteq Request
  /\ forced \in Request \cup {None}
  /\ sent \subseteq Command
  /\ acks \subseteq Ack

\* What a status says about the two idempotency stores: PUBLISHED means that
\* a publish returned OK, ACKNOWLEDGED and SUCCESS that an ACK was processed,
\* DUPLICATE one of the two, and PENDING that no publish of the id has been
\* confirmed unless duplicates are allowed.
StatusMeaning ==
  \A r \in Request :
    /\ tracker[r] = "PUBLISHED" => r \in published
    /\ Acknowledged(r) => r \in processed
    /\ tracker[r] = "DUPLICATE" => r \in published \cup processed
    /\ tracker[r] = "PENDING" => cfg.allowDup \/ r \notin published
    /\ tracker[r] = "UNKNOWN" => r \notin published \cup processed

\* A status of PUBLISHED, ACKNOWLEDGED or SUCCESS is about a command that was
\* really handed to MQTT, by this process or by one before it.
StatusHasCommand ==
  \A r \in Request :
    tracker[r] \in {"PUBLISHED", "ACKNOWLEDGED", "SUCCESS"} => r \in IDs(sent)

\* Under "+" the publish topic moves with every prompt, abandoned ones too;
\* still every command goes out on the topic of the device in its payload.
TopicMatchesPayload == \A m \in sent : m.topic = m.device

\* Unless duplicates are allowed, no command is on its way whose id this
\* process has seen published: the check made before the publish still holds
\* when the packet leaves.
InFlightIsNew == cur # None => cfg.allowDup \/ cur.id \notin published

\* Every id the backend knows to be confirmed, acknowledged or about to be
\* acknowledged is the id of a command that was handed to MQTT.
KnownWasSent ==
  /\ published \cup processed \subseteq IDs(sent)
  /\ IDs(acks) \subseteq IDs(sent)

\* With a fixed device, the publish topic and the saved command never leave it.
DeviceIsFixed ==
  ~Wildcard =>
    /\ topic = cfg.device
    /\ last # None => last.device = cfg.device

\* The command in flight is on its device's topic, and its request has left
\* PENDING only because an ACK of the same id was handled meanwhile.
InFlightMeaning ==
  cur # None =>
    /\ cur.topic = cur.device
    /\ tracker[cur.id] = "PENDING" \/ cur.id \in processed

\* The Set that Handle still owes is about a processed request whose status
\* is known and is not one of the two it would overwrite wrongly.
ForcedMeaning ==
  forced # None =>
    /\ forced \in processed
    /\ tracker[forced] # "UNKNOWN"
    /\ ~Acknowledged(forced)

\* The inductive invariant from which BackendProofs derives the others.
BackendInv ==
  /\ TypeOK
  /\ StatusMeaning
  /\ TopicMatchesPayload
  /\ InFlightIsNew
  /\ KnownWasSent
  /\ DeviceIsFixed
  /\ InFlightMeaning
  /\ ForcedMeaning

\* Once a publish is confirmed and the command acknowledged, the status never
\* falls back to PENDING or PUBLISHED, and SUCCESS never to ACKNOWLEDGED;
\* only a restart forgets it.  (Before the confirmation it can: see
\* PublishedOnlyFromPending.)
NoRegressionOnceConfirmed ==
  [][\A r \in published :
       Acknowledged(r) /\ ~cfg.allowDup =>
         tracker'[r] \in {tracker[r], "DUPLICATE", "UNKNOWN"}]_vars

\* A request is acknowledged once: after its ACK has been processed a status
\* becomes ACKNOWLEDGED or SUCCESS only by the Set that Handle still owes.
AcknowledgedOnce ==
  [][\A r \in processed :
       ~Acknowledged(r) /\ Acknowledged(r)' => forced = r]_vars

\* state/tracker.go:62-63 lets a request become PUBLISHED from PENDING only;
\* MarkPublished (command/service.go:64) uses Set and overwrites an ACK that
\* was handled before the publish call returned.
PublishedOnlyFromPending ==
  [][\A r \in Request :
       tracker[r] # "PUBLISHED" /\ tracker'[r] = "PUBLISHED" =>
         ValidTransition(tracker[r], "PUBLISHED")]_vars

\* MQTT-Command-Firing-POC.md:283: idempotency on request_id, duplicates only
\* when allowed.  An id is remembered only when Publish returns OK, so one that
\* the device has acknowledged after a timed-out publish is published again.
AcknowledgedNotRepublished ==
  [][cur = None /\ cur' # None =>
       cfg.allowDup \/ cur'.id \notin processed]_vars
=============================================================================
