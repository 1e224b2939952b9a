---------------------------- MODULE BackendProofs ----------------------------
(***************************************************************************)
(* Proofs about Backend, for every set of requests, devices and bodies.    *)
(*                                                                         *)
(* BackendInv is inductive: it ties the tracker's statuses to the two      *)
(* idempotency stores (StatusMeaning), the stores to what was handed to    *)
(* MQTT (KnownWasSent), and says what holds while one goroutine is between *)
(* two of its critical sections (InFlightMeaning, ForcedMeaning).          *)
(***************************************************************************)
EXTENDS Backend, TLAPS

\* The ids of a larger set of messages.
LEMMA IDsMonotone ==
  ASSUME NEW S, NEW T, S \subseteq T
  PROVE  IDs(S) \subseteq IDs(T)
BY DEF IDs

\* An element's id is among the ids.
LEMMA IDsMember ==
  ASSUME NEW S, NEW m \in S
  PROVE  m.id \in IDs(S)
BY DEF IDs

\* The one-entry write to the tracker, which every Tracker.Set is.
LEMMA SetWrites ==
  ASSUME NEW t \in [Request -> Status], NEW r \in Request, NEW s \in Status,
         NEW u, u = [t EXCEPT ![r] = s]
  PROVE  /\ u \in [Request -> Status]
         /\ u[r] = s
         /\ \A q \in Request : q # r => u[q] = t[q]
OBVIOUS

\* A process that has just started satisfies the invariant.
LEMMA BackendInvInit == Init => BackendInv
<1> SUFFICES ASSUME Init PROVE BackendInv
  OBVIOUS
<1>1. TypeOK
  BY BackendAssumption DEF Init, TypeOK, Config, SetDeviceTopics, Status
<1>2. StatusMeaning
  BY DEF Init, StatusMeaning, Acknowledged
<1>3. TopicMatchesPayload /\ InFlightIsNew /\ KnownWasSent
  BY DEF Init, TopicMatchesPayload, InFlightIsNew, KnownWasSent, IDs
<1>4. DeviceIsFixed /\ InFlightMeaning /\ ForcedMeaning
  BY DEF Init, DeviceIsFixed, InFlightMeaning, ForcedMeaning, Wildcard, SetDeviceTopics
<1> QED
  BY <1>1, <1>2, <1>3, <1>4 DEF BackendInv

\* publishSaved preserves the invariant, for a saved command whose device is
\* the configured one unless the wildcard is on.
LEMMA PublishSavedPreserves ==
  ASSUME BackendInv, NEW saved \in Saved, NEW r \in Request,
         cur = None, PublishSaved(saved, r), last' \in Saved,
         Wildcard \/ (saved.device = cfg.device /\ last'.device = cfg.device)
  PROVE  BackendInv'
<1> USE BackendAssumption
<1> DEFINE new == [id |-> r, topic |-> topic', device |-> saved.device, body |-> saved.body]
<1>1. UNCHANGED <<cfg, published, processed, forced, sent, acks>>
  BY DEF PublishSaved, handlerVars
<1>2. saved.device \in Device /\ saved.body \in Body
  BY DEF Saved
<1>3. topic' = saved.device
  <2>1. CASE Wildcard
    BY <2>1 DEF PublishSaved, PublishTopic
  <2>2. CASE ~Wildcard
    BY <2>2 DEF PublishSaved, PublishTopic, BackendInv, DeviceIsFixed
  <2> QED
    BY <2>1, <2>2
<1>4. new \in Command /\ new # None /\ new.id = r /\ new.topic = new.device
  BY <1>2, <1>3 DEF Command
<1>5. \/ r \in published /\ ~cfg.allowDup /\ Set(r, "DUPLICATE") /\ cur' = None
      \/ (cfg.allowDup \/ r \notin published) /\ Set(r, "PENDING") /\ cur' = new
  BY DEF PublishSaved, CanPublish
<1>6. /\ tracker' \in [Request -> Status]
      /\ tracker'[r] \in {"DUPLICATE", "PENDING"}
      /\ tracker'[r] = "DUPLICATE" => r \in published
      /\ tracker'[r] = "PENDING" => cfg.allowDup \/ r \notin published
      /\ \A q \in Request : q # r => tracker'[q] = tracker[q]
  BY <1>5, SetWrites DEF Set, BackendInv, TypeOK, Status
<1>7. cur' = None \/ (cur' = new /\ tracker'[r] = "PENDING"
                      /\ (cfg.allowDup \/ r \notin published))
  BY <1>5, SetWrites DEF Set, BackendInv, TypeOK, Status
<1>8. TypeOK'
  BY <1>1, <1>2, <1>3, <1>4, <1>6, <1>7 DEF BackendInv, TypeOK
<1>9. StatusMeaning'
  BY <1>1, <1>6 DEF BackendInv, StatusMeaning, Acknowledged
<1>10. (TopicMatchesPayload /\ KnownWasSent)'
  BY <1>1 DEF BackendInv, TopicMatchesPayload, KnownWasSent, IDs
<1>11. InFlightIsNew'
  BY <1>1, <1>4, <1>7 DEF InFlightIsNew
<1>12. DeviceIsFixed'
  BY <1>1, <1>3 DEF DeviceIsFixed, Wildcard
<1>13. InFlightMeaning'
  BY <1>4, <1>7 DEF InFlightMeaning
<1>14. ForcedMeaning'
  BY <1>1, <1>6 DEF BackendInv, TypeOK, ForcedMeaning, Acknowledged
<1> QED
  BY <1>8, <1>9, <1>10, <1>11, <1>12, <1>13, <1>14 DEF BackendInv

\* MarkPublished preserves the invariant.
LEMMA PublishOKPreserves ==
  ASSUME BackendInv, PublishOK
  PROVE  BackendInv'
<1> USE BackendAssumption
<1> DEFINE r == cur.id
<1>1. /\ UNCHANGED <<cfg, topic, last, processed, forced, sent, acks>>
      /\ cur' = None
      /\ published' = published \cup {r}
      /\ tracker' = [tracker EXCEPT ![r] = "PUBLISHED"]
  BY DEF PublishOK, MarkPublished, Set, handlerVars
<1>2. r \in Request /\ r \in IDs(sent)
  BY IDsMember DEF PublishOK, BackendInv, TypeOK, Command
<1>3. /\ tracker' \in [Request -> Status]
      /\ tracker'[r] = "PUBLISHED"
      /\ \A q \in Request : q # r => tracker'[q] = tracker[q]
  BY <1>1, <1>2, SetWrites DEF BackendInv, TypeOK, Status
<1>4. TypeOK'
  BY <1>1, <1>2, <1>3 DEF BackendInv, TypeOK
<1>5. StatusMeaning'
  BY <1>1, <1>3 DEF BackendInv, StatusMeaning, Acknowledged
<1>6. (TopicMatchesPayload /\ KnownWasSent)'
  BY <1>1, <1>2 DEF BackendInv, TopicMatchesPayload, KnownWasSent, IDs
<1>7. (InFlightIsNew /\ InFlightMeaning)'
  BY <1>1 DEF InFlightIsNew, InFlightMeaning
<1>8. DeviceIsFixed'
  BY <1>1 DEF BackendInv, DeviceIsFixed, Wildcard
<1>9. ForcedMeaning'
  BY <1>1, <1>3 DEF BackendInv, TypeOK, ForcedMeaning, Acknowledged
<1> QED
  BY <1>4, <1>5, <1>6, <1>7, <1>8, <1>9 DEF BackendInv

\* Handle, for one ACK, preserves the invariant.
LEMMA HandlePreserves ==
  ASSUME BackendInv, NEW a \in acks,
         HandleDuplicate(a) \/ HandleSuccess(a) \/ HandleAck(a)
  PROVE  BackendInv'
<1> USE BackendAssumption
<1> DEFINE r == a.id
<1>1. r \in Request /\ r \in IDs(sent)
  BY IDsMember DEF BackendInv, TypeOK, Ack, KnownWasSent
<1>2. UNCHANGED <<cfg, topic, last, cur, published, sent, acks>> /\ forced = None
  BY DEF HandleDuplicate, HandleSuccess, HandleAck, mainVars, handlerVars
<1>3. CASE HandleDuplicate(a)
  <2>1. /\ r \in processed
        /\ UNCHANGED <<processed, forced>>
        /\ tracker' \in [Request -> Status]
        /\ tracker'[r] = "DUPLICATE"
        /\ \A q \in Request : q # r => tracker'[q] = tracker[q]
    BY <1>1, <1>3, SetWrites
    DEF HandleDuplicate, IsNew, Set, handlerVars, BackendInv, TypeOK, Status
  <2>2. TypeOK'
    BY <1>2, <2>1 DEF BackendInv, TypeOK
  <2>3. StatusMeaning'
    BY <1>2, <2>1 DEF BackendInv, StatusMeaning, Acknowledged
  <2>4. (TopicMatchesPayload /\ InFlightIsNew /\ KnownWasSent /\ DeviceIsFixed)'
    BY <1>2, <2>1
    DEF BackendInv, TopicMatchesPayload, InFlightIsNew, KnownWasSent, DeviceIsFixed, Wildcard, IDs
  <2>5. InFlightMeaning'
    BY <1>2, <2>1 DEF BackendInv, TypeOK, Command, InFlightMeaning
  <2>6. ForcedMeaning'
    BY <1>2, <2>1 DEF ForcedMeaning
  <2> QED
    BY <2>2, <2>3, <2>4, <2>5, <2>6 DEF BackendInv
<1>4. CASE HandleSuccess(a) \/ (HandleAck(a) /\ TransitionAllowed(r, "ACKNOWLEDGED"))
  <2>1. /\ processed' = processed \cup {r}
        /\ forced' = None
        /\ tracker' \in [Request -> Status]
        /\ Acknowledged(r)'
        /\ \A q \in Request : q # r => tracker'[q] = tracker[q]
    BY <1>1, <1>2, <1>4, SetWrites
    DEF HandleSuccess, HandleAck, MarkProcessed, Set, Acknowledged, BackendInv, TypeOK, Status
  <2>2. TypeOK'
    BY <1>1, <1>2, <2>1 DEF BackendInv, TypeOK
  <2>3. StatusMeaning'
    BY <1>2, <2>1 DEF BackendInv, StatusMeaning, Acknowledged
  <2>4. (TopicMatchesPayload /\ InFlightIsNew /\ KnownWasSent /\ DeviceIsFixed)'
    BY <1>1, <1>2, <2>1
    DEF BackendInv, TopicMatchesPayload, InFlightIsNew, KnownWasSent, DeviceIsFixed, Wildcard, IDs
  <2>5. InFlightMeaning'
    BY <1>2, <2>1 DEF BackendInv, TypeOK, Command, InFlightMeaning
  <2>6. ForcedMeaning'
    BY <2>1 DEF ForcedMeaning
  <2> QED
    BY <2>2, <2>3, <2>4, <2>5, <2>6 DEF BackendInv
<1>5. CASE HandleAck(a) /\ ~TransitionAllowed(r, "ACKNOWLEDGED")
  <2>1. /\ r \notin processed
        /\ processed' = processed \cup {r}
        /\ forced' = r
        /\ tracker' = tracker
        /\ tracker[r] # "UNKNOWN"
    BY <1>5 DEF HandleAck, IsNew, MarkProcessed, TransitionAllowed
  <2>2. ~Acknowledged(r)
    BY <1>1, <2>1 DEF BackendInv, StatusMeaning
  <2>3. TypeOK'
    BY <1>1, <1>2, <2>1 DEF BackendInv, TypeOK
  <2>4. StatusMeaning'
    BY <1>2, <2>1 DEF BackendInv, StatusMeaning, Acknowledged
  <2>5. (TopicMatchesPayload /\ InFlightIsNew /\ KnownWasSent /\ DeviceIsFixed /\ InFlightMeaning)'
    BY <1>1, <1>2, <2>1
    DEF BackendInv, TopicMatchesPayload, InFlightIsNew, KnownWasSent, DeviceIsFixed,
        InFlightMeaning, Wildcard, IDs
  <2>6. ForcedMeaning'
    BY <2>1, <2>2 DEF ForcedMeaning, Acknowledged
  <2> QED
    BY <2>3, <2>4, <2>5, <2>6 DEF BackendInv
<1> QED
  BY <1>3, <1>4, <1>5

\* The Set that follows a refused Transition preserves the invariant.
LEMMA ForceAckPreserves ==
  ASSUME BackendInv, ForceAck
  PROVE  BackendInv'
<1> USE BackendAssumption
<1>1. /\ forced \in Request
      /\ forced \in processed
      /\ forced' = None
      /\ UNCHANGED <<cfg, topic, last, cur, published, processed, sent, acks>>
  BY DEF ForceAck, BackendInv, TypeOK, ForcedMeaning, mainVars
<1>2. /\ tracker' \in [Request -> Status]
      /\ tracker'[forced] = "ACKNOWLEDGED"
      /\ \A q \in Request : q # forced => tracker'[q] = tracker[q]
  BY <1>1, SetWrites DEF ForceAck, Set, BackendInv, TypeOK, Status
<1>3. TypeOK'
  BY <1>1, <1>2 DEF BackendInv, TypeOK
<1>4. StatusMeaning'
  BY <1>1, <1>2 DEF BackendInv, StatusMeaning, Acknowledged
<1>5. (TopicMatchesPayload /\ InFlightIsNew /\ KnownWasSent /\ DeviceIsFixed)'
  BY <1>1
  DEF BackendInv, TopicMatchesPayload, InFlightIsNew, KnownWasSent, DeviceIsFixed, Wildcard, IDs
<1>6. (InFlightMeaning /\ ForcedMeaning)'
  BY <1>1, <1>2 DEF BackendInv, TypeOK, Command, InFlightMeaning, ForcedMeaning
<1> QED
  BY <1>3, <1>4, <1>5, <1>6 DEF BackendInv

\* Handing the command in flight to MQTT preserves the invariant.
LEMMA TransmitPreserves ==
  ASSUME BackendInv, Transmit
  PROVE  BackendInv'
<1>1. /\ sent' = sent \cup {cur}
      /\ cur \in Command
      /\ cur.topic = cur.device
      /\ UNCHANGED <<cfg, topic, last, cur, published, tracker, processed, forced, acks>>
  BY DEF Transmit, BackendInv, TypeOK, InFlightMeaning, mainVars, handlerVars
<1>2. TypeOK'
  BY <1>1 DEF BackendInv, TypeOK
<1>3. TopicMatchesPayload'
  BY <1>1 DEF BackendInv, TopicMatchesPayload
<1>4. KnownWasSent'
  BY <1>1, IDsMonotone DEF BackendInv, KnownWasSent
<1>5. (StatusMeaning /\ InFlightIsNew /\ DeviceIsFixed /\ InFlightMeaning /\ ForcedMeaning)'
  BY <1>1
  DEF BackendInv, StatusMeaning, InFlightIsNew, DeviceIsFixed, InFlightMeaning, ForcedMeaning,
      Acknowledged, Wildcard
<1> QED
  BY <1>2, <1>3, <1>4, <1>5 DEF BackendInv

\* A device's ACK preserves the invariant.
LEMMA DeviceAckPreserves ==
  ASSUME BackendInv, DeviceAck
  PROVE  BackendInv'
<1>1. /\ UNCHANGED <<cfg, topic, last, cur, published, tracker, processed, forced, sent>>
      /\ \E a \in Ack : a.id \in IDs(sent) /\ acks' = acks \cup {a}
  BY DEF DeviceAck, mainVars, handlerVars
<1>2. TypeOK'
  BY <1>1 DEF BackendInv, TypeOK
<1>3. KnownWasSent'
  BY <1>1 DEF BackendInv, KnownWasSent, IDs
<1>4. (StatusMeaning /\ TopicMatchesPayload /\ InFlightIsNew /\ DeviceIsFixed
       /\ InFlightMeaning /\ ForcedMeaning)'
  BY <1>1
  DEF BackendInv, StatusMeaning, TopicMatchesPayload, InFlightIsNew, DeviceIsFixed,
      InFlightMeaning, ForcedMeaning, Acknowledged, Wildcard
<1> QED
  BY <1>2, <1>3, <1>4 DEF BackendInv

\* A restart preserves the invariant: nothing is remembered, what was sent and
\* acknowledged before stays on its way.
LEMMA RestartPreserves ==
  ASSUME BackendInv, Restart
  PROVE  BackendInv'
<1> USE BackendAssumption
<1>1. (TypeOK /\ StatusMeaning)'
  BY DEF Restart, BackendInv, TypeOK, StatusMeaning, Acknowledged, Config, SetDeviceTopics, Status
<1>2. (TopicMatchesPayload /\ InFlightIsNew /\ KnownWasSent)'
  BY DEF Restart, BackendInv, TopicMatchesPayload, InFlightIsNew, KnownWasSent, IDs
<1>3. (DeviceIsFixed /\ InFlightMeaning /\ ForcedMeaning)'
  BY DEF Restart, DeviceIsFixed, InFlightMeaning, ForcedMeaning, Wildcard, SetDeviceTopics
<1> QED
  BY <1>1, <1>2, <1>3 DEF BackendInv

\* Every step of the backend and of its environment preserves the invariant.
LEMMA BackendInvStep == BackendInv /\ [Next]_vars => BackendInv'
<1> SUFFICES ASSUME BackendInv, [Next]_vars PROVE BackendInv'
  OBVIOUS
<1> USE BackendAssumption
<1>1. CASE RepeatLast
  <2>1. PICK r \in Request : PublishSaved(last, r)
    BY <1>1 DEF RepeatLast, Generated
  <2>2. last \in Saved /\ last' = last /\ cur = None
    BY <1>1 DEF RepeatLast, BackendInv, TypeOK
  <2>3. Wildcard \/ last.device = cfg.device
    BY <1>1 DEF RepeatLast, BackendInv, DeviceIsFixed
  <2> QED
    BY <2>1, <2>2, <2>3, PublishSavedPreserves
<1>2. CASE NewCommand
  <2>1. PICK d \in Device, b \in Body, r \in Request :
          /\ Wildcard \/ d = cfg.device
          /\ last' = [device |-> d, body |-> b]
          /\ PublishSaved([device |-> d, body |-> b], r)
    BY <1>2 DEF NewCommand
  <2> DEFINE s == [device |-> d, body |-> b]
  <2>2. s \in Saved /\ s.device = d /\ cur = None
    BY <1>2 DEF Saved, NewCommand
  <2> QED
    BY <2>1, <2>2, PublishSavedPreserves
<1>3. CASE AbandonPrompt
  BY <1>3
  DEF AbandonPrompt, handlerVars, BackendInv, TypeOK, StatusMeaning, TopicMatchesPayload, InFlightIsNew,
      KnownWasSent, DeviceIsFixed, InFlightMeaning, ForcedMeaning, Acknowledged, Wildcard, IDs
<1>4. CASE Transmit
  BY <1>4, TransmitPreserves
<1>5. CASE PublishOK
  BY <1>5, PublishOKPreserves
<1>6. CASE PublishErr
  BY <1>6
  DEF PublishErr, handlerVars, BackendInv, TypeOK, StatusMeaning, TopicMatchesPayload, InFlightIsNew,
      KnownWasSent, DeviceIsFixed, InFlightMeaning, ForcedMeaning, Acknowledged, Wildcard, IDs
<1>7. CASE Handle
  BY <1>7, HandlePreserves DEF Handle
<1>8. CASE ForceAck
  BY <1>8, ForceAckPreserves
<1>9. CASE DeviceAck
  BY <1>9, DeviceAckPreserves
<1>10. CASE Restart
  BY <1>10, RestartPreserves
<1>11. CASE UNCHANGED vars
  BY <1>11
  DEF vars, mainVars, handlerVars, BackendInv, TypeOK, StatusMeaning, TopicMatchesPayload,
      InFlightIsNew, KnownWasSent, DeviceIsFixed, InFlightMeaning, ForcedMeaning, Acknowledged,
      Wildcard, IDs
<1> QED
  BY <1>1, <1>2, <1>3, <1>4, <1>5, <1>6, <1>7, <1>8, <1>9, <1>10, <1>11 DEF Next, MainNext

\* The inductive invariant holds in every state of the backend.
THEOREM BackendInvHolds == Spec => []BackendInv
<1>1. Init => BackendInv
  BY BackendInvInit
<1>2. BackendInv /\ [Next]_vars => BackendInv'
  BY BackendInvStep
<1> QED
  BY <1>1, <1>2, PTL DEF Spec

\* TypeOK, for every instance.
THEOREM TypeCorrect == Spec => []TypeOK
BY BackendInvHolds, PTL DEF BackendInv

\* A tracked status never claims more than the idempotency stores know, at any
\* interleaving of the operator loop with the ACK handler.
THEOREM StatusSound == Spec => []StatusMeaning
BY BackendInvHolds, PTL DEF BackendInv

\* No command leaves on another device's topic, whatever prompts were abandoned.
THEOREM TopicsMatch == Spec => []TopicMatchesPayload
BY BackendInvHolds, PTL DEF BackendInv

\* The duplicate check made before a publish still holds while it is in flight.
THEOREM NoConcurrentDuplicate == Spec => []InFlightIsNew
BY BackendInvHolds, PTL DEF BackendInv

\* PUBLISHED, ACKNOWLEDGED and SUCCESS are only said of transmitted commands.
THEOREM StatusTruthful == Spec => []StatusHasCommand
<1>1. BackendInv => StatusHasCommand
  BY DEF BackendInv, StatusMeaning, KnownWasSent, StatusHasCommand, Acknowledged
<1> QED
  BY <1>1, BackendInvHolds, PTL

\* A step that writes the tracker entry of one request only.
LEMMA OnlyOneWritten ==
  ASSUME TypeOK, [Next]_vars, NEW q \in Request, tracker'[q] # tracker[q]
  PROVE  \/ tracker'[q] = "DUPLICATE"
         \/ CanPublish(q) /\ tracker'[q] = "PENDING"
         \/ PublishOK /\ cur.id = q /\ tracker'[q] = "PUBLISHED"
         \/ q \notin processed /\ Acknowledged(q)'
         \/ ForceAck /\ q = forced
         \/ tracker'[q] = "UNKNOWN"
<1> USE BackendAssumption
<1>1. ASSUME NEW saved, NEW r \in Request, PublishSaved(saved, r)
      PROVE  tracker'[q] = "DUPLICATE" \/ (CanPublish(q) /\ tracker'[q] = "PENDING")
  BY <1>1 DEF PublishSaved, Set, TypeOK
<1>2. CASE RepeatLast \/ NewCommand
  BY <1>1, <1>2 DEF RepeatLast, NewCommand, Generated
<1>3. CASE AbandonPrompt \/ Transmit \/ PublishErr \/ DeviceAck \/ UNCHANGED vars
  BY <1>3 DEF AbandonPrompt, Transmit, PublishErr, DeviceAck, vars
<1>4. CASE PublishOK
  <2>1. tracker' = [tracker EXCEPT ![cur.id] = "PUBLISHED"]
    BY <1>4 DEF PublishOK, MarkPublished, Set
  <2> QED
    BY <1>4, <2>1 DEF TypeOK
<1>5. ASSUME NEW a \in acks, HandleDuplicate(a) \/ HandleSuccess(a) \/ HandleAck(a)
      PROVE  tracker'[q] = "DUPLICATE" \/ (q \notin processed /\ Acknowledged(q)')
  BY <1>5 DEF HandleDuplicate, HandleSuccess, HandleAck, IsNew, Set, TypeOK, Acknowledged, Ack
<1>6. CASE ForceAck
  BY <1>6 DEF ForceAck, Set, TypeOK
<1>7. CASE Restart
  BY <1>7 DEF Restart
<1> QED
  BY <1>2, <1>3, <1>4, <1>5, <1>6, <1>7 DEF Next, MainNext, Handle

\* Between the confirmation of a publish and a restart, an acknowledged command
\* keeps its status or becomes DUPLICATE.
THEOREM NoRegression == Spec => NoRegressionOnceConfirmed
<1> DEFINE Kept ==
      \A r \in published :
        Acknowledged(r) /\ ~cfg.allowDup => tracker'[r] \in {tracker[r], "DUPLICATE", "UNKNOWN"}
<1>1. ASSUME BackendInv, [Next]_vars PROVE Kept
  <2> SUFFICES ASSUME NEW r \in published, Acknowledged(r), ~cfg.allowDup,
                      tracker'[r] # tracker[r]
               PROVE  tracker'[r] \in {"DUPLICATE", "UNKNOWN"}
    OBVIOUS
  <2>1. r \in Request /\ r \in processed
    BY <1>1 DEF BackendInv, TypeOK, StatusMeaning
  <2>2. ~CanPublish(r)
    BY DEF CanPublish
  <2>3. ~(PublishOK /\ cur.id = r)
    BY <1>1, BackendAssumption DEF PublishOK, BackendInv, TypeOK, InFlightIsNew, Command
  <2>4. ~(ForceAck /\ r = forced)
    BY <1>1 DEF ForceAck, BackendInv, ForcedMeaning
  <2> QED
    BY <1>1, <2>1, <2>2, <2>3, <2>4, OnlyOneWritten DEF BackendInv
<1> QED
  BY <1>1, BackendInvHolds, PTL DEF Spec, NoRegressionOnceConfirmed

\* A request is acknowledged at most once per process, whatever duplicates of
\* its ACK arrive and whenever the refused Transition's Set runs.
THEOREM AckOnce == Spec => AcknowledgedOnce
<1> DEFINE Once == \A r \in processed : ~Acknowledged(r) /\ Acknowledged(r)' => forced = r
<1>1. ASSUME BackendInv, [Next]_vars PROVE Once
  <2> SUFFICES ASSUME NEW r \in processed, ~Acknowledged(r), Acknowledged(r)' PROVE forced = r
    OBVIOUS
  <2>1. r \in Request
    BY <1>1 DEF BackendInv, TypeOK
  <2>2. tracker'[r] # tracker[r]
    BY DEF Acknowledged
  <2> QED
    BY <1>1, <2>1, <2>2, OnlyOneWritten DEF BackendInv, Acknowledged
<1> QED
  BY <1>1, BackendInvHolds, PTL DEF Spec, AcknowledgedOnce
=============================================================================
