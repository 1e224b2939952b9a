---------------------------- MODULE DeliveryProofs ---------------------------
(***************************************************************************)
(* Proofs about Delivery, for every set of requests and devices and every  *)
(* capacity of the queue.                                                  *)
(*                                                                         *)
(* The promise of option B rests on what the programs validate: a mode B   *)
(* simulator never starts clean and always has a session expiry, so that   *)
(* only SessionExpires ends its session (PromiseMeansB); a mode B backend  *)
(* publishes with QoS 1, so that a covered command is queued               *)
(* (CoverageStands); and the broker drops it only after its PUBACK, which  *)
(* OnMessage precedes (puback \subseteq received in TypeOK).               *)
(***************************************************************************)
EXTENDS Delivery, SequenceTheorems, TLAPS

\* What the broker does with the commands it routes.
LEMMA RouteMeaning ==
  ASSUME NEW new, NEW S, Route(new, S)
  PROVE  /\ pending \subseteq pending' /\ pending' \subseteq pending \cup new
         /\ wire' \subseteq wire \cup new
         /\ \A c \in new :
              c.qos = 1 /\ (\E s \in S : Matches(s.filter, c.device) /\ s.qos = 1)
                => c \in pending' /\ (c \in wire' => c \in wire)
BY DEF Route

\* A retained command, or None, is not promised.
LEMMA NoneIsNoCommand == None \notin Command
  BY DeliveryAssumption DEF DeliveryAssumption, Command, QoS

\* A backend in mode B publishes with QoS 1.
LEMMA BackendInB ==
  ASSUME NEW c \in BackendConfig, c.mode = "B"
  PROVE  c.qos = 1
BY DEF BackendConfig, BackendValid

\* A simulator in mode B subscribes with QoS 1 and keeps its session.
LEMMA SimulatorInB ==
  ASSUME NEW c \in SimulatorConfig, c.mode = "B"
  PROVE  c.qos = 1 /\ c.persistent /\ c.expiry
BY DEF SimulatorConfig, SimulatorValid

\* The end of a connection takes nothing from a session with a promise.
LEMMA DisconnectMeaning ==
  ASSUME TypeOK, PromiseMeansB, DisconnectSession
  PROVE  /\ subs' \subseteq subs /\ pending' \subseteq pending
         /\ covered \cup owed # {} => subs' = subs /\ pending' = pending
<1>1. covered \cup owed # {} => scfg.expiry
  BY SimulatorInB DEF TypeOK, PromiseMeansB
<1> QED
  BY <1>1 DEF DisconnectSession

\* A subscription adds the simulator's filter and removes no other.
LEMMA SubscribeMeaning ==
  ASSUME TypeOK, BrokerSubscribes
  PROVE  /\ subs' \subseteq [filter : Filter, qos : QoS]
         /\ [filter |-> SubscribeFilter, qos |-> scfg.qos] \in subs'
         /\ \A s \in subs : s.filter # SubscribeFilter => s \in subs'
         /\ pending \subseteq pending' /\ pending' \subseteq published
         /\ wire' \subseteq published
         /\ wire' \subseteq wire \cup {retained[d] : d \in Device}
<1>1. SubscribeFilter \in Filter /\ scfg.qos \in QoS
  BY DEF TypeOK, SimulatorConfig, SubscribeFilter
<1> DEFINE new == {retained[d] : d \in Device \cap {SubscribeFilter}} \ {None}
<1>2. new \subseteq published /\ new \subseteq {retained[d] : d \in Device}
  BY DEF TypeOK
<1>3. Route(new, subs')
  BY DEF BrokerSubscribes
<1> HIDE DEF new
<1>4. /\ pending \subseteq pending' /\ pending' \subseteq pending \cup new
      /\ wire' \subseteq wire \cup new
  BY <1>3, RouteMeaning
<1>5. subs' = {s \in subs : s.filter # SubscribeFilter}
                \cup {[filter |-> SubscribeFilter, qos |-> scfg.qos]}
  BY DEF BrokerSubscribes
<1>6. [filter |-> SubscribeFilter, qos |-> scfg.qos] \in [filter : Filter, qos : QoS]
  BY <1>1
<1> QED
  BY <1>2, <1>4, <1>5, <1>6 DEF TypeOK

\* Both programs have just started.
LEMMA DeliveryInvInit == Init => DeliveryInv
<1> SUFFICES ASSUME Init PROVE DeliveryInv
  OBVIOUS
<1>1. TypeOK
  BY DeliveryAssumption DEF Init, TypeOK
<1>2. PromiseMeansB /\ PromisedIsQueued /\ CoverageStands /\ OfflineQueueKeeps
  BY DEF Init, PromiseMeansB, PromisedIsQueued, CoverageStands, OfflineQueueKeeps
<1> QED
  BY <1>1, <1>2 DEF DeliveryInv

\* Publishing a command, and a restart of the backend, preserve the invariant:
\* a command that becomes owed is queued in the same step.
LEMMA BackendPreserves ==
  ASSUME DeliveryInv, Backend
  PROVE  DeliveryInv'
<1> USE DEF DeliveryInv
<1>1. CASE BackendRestart
  <2>1. TypeOK'
    BY <1>1 DEF BackendRestart, TypeOK, simVars, brokerVars, promiseVars
  <2>2. PromiseMeansB' /\ PromisedIsQueued' /\ CoverageStands' /\ OfflineQueueKeeps'
    BY <1>1
    DEF BackendRestart, PromiseMeansB, PromisedIsQueued, CoverageStands, OfflineQueueKeeps, simVars, brokerVars,
        promiseVars
  <2> QED
    BY <2>1, <2>2
<1>2. ASSUME NEW c \in Command, PublishCommand(c) PROVE DeliveryInv'
  <2>1. UNCHANGED <<bcfg, scfg, stage, link, subs, puback, queue, received, taken, covered>>
    BY <1>2 DEF PublishCommand, simVars
  <2>2. published' = published \cup {c} /\ c.qos = bcfg.qos
    BY <1>2 DEF PublishCommand
  <2>3. Route({c}, subs)
    BY <1>2 DEF PublishCommand
  <2>4. /\ pending \subseteq pending' /\ pending' \subseteq pending \cup {c}
        /\ wire' \subseteq wire \cup {c}
        /\ c.qos = 1 /\ (\E s \in subs : Matches(s.filter, c.device) /\ s.qos = 1)
             => c \in pending' /\ (c \in wire' => c \in wire)
    BY <2>3, RouteMeaning
  <2>5. retained' \in [Device -> published' \cup {None}]
    BY <1>2, <2>2 DEF PublishCommand, TypeOK
  <2>6. owed \subseteq owed' /\ owed' \subseteq owed \cup {c}
    BY <1>2 DEF PublishCommand
  <2>7. TypeOK'
    BY <2>1, <2>2, <2>4, <2>5, <2>6 DEF TypeOK
  <2>8. ASSUME c \in owed', c \notin owed
        PROVE  c \in pending' /\ covered # {} /\ (c \in wire' => c \in wire) /\ bcfg.mode = "B"
    <3>1. bcfg.mode = "B" /\ \E f \in covered : Matches(f, c.device)
      BY <1>2, <2>8 DEF PublishCommand
    <3>2. c.qos = 1
      BY <2>2, <3>1, BackendInB DEF TypeOK
    <3>3. PICK f \in covered : Matches(f, c.device)
      BY <3>1
    <3>4. [filter |-> f, qos |-> 1] \in subs
      BY <3>3 DEF CoverageStands
    <3> QED
      BY <2>4, <3>1, <3>2, <3>3, <3>4
  <2>9. PromiseMeansB'
    BY <2>1, <2>6, <2>8 DEF PromiseMeansB
  <2>10. CoverageStands'
    BY <2>1 DEF CoverageStands
  <2>11. OfflineQueueKeeps'
    BY <2>1, <2>4, <2>6, <2>8 DEF OfflineQueueKeeps
  <2>12. PromisedIsQueued'
    <3>1. c \notin published /\ c \notin owed /\ c \notin wire /\ \A d \in Device : retained[d] # c
      <4>1. c \notin published
        BY <1>2 DEF PublishCommand, IDs
      <4> QED
        BY <4>1, NoneIsNoCommand DEF TypeOK
    <3>2. CASE c \in owed'
      <4>1. retained' = retained
        BY <1>2, <2>8, <3>1, <3>2 DEF PublishCommand, EffectiveRetain
      <4>2. c \notin wire'
        BY <2>8, <3>1, <3>2
      <4> QED
        BY <2>4, <2>6, <3>1, <4>1, <4>2 DEF PromisedIsQueued
    <3>3. CASE c \notin owed'
      <4>1. \A d \in Device : retained'[d] \in {retained[d], c}
        BY <1>2 DEF PublishCommand, TypeOK
      <4> QED
        BY <2>4, <2>6, <3>3, <4>1 DEF PromisedIsQueued
    <3> QED
      BY <3>2, <3>3
  <2> QED
    BY <2>7, <2>9, <2>10, <2>11, <2>12
<1> QED
  BY <1>1, <1>2 DEF Backend

\* What the broker does on its own preserves the invariant: it forgets a
\* command only when it has expired or has been received.
LEMMA BrokerPreserves ==
  ASSUME DeliveryInv, Broker
  PROVE  DeliveryInv'
<1> USE DEF DeliveryInv
<1>1. CASE SessionExpires
  <2>1. TypeOK'
    BY <1>1 DEF SessionExpires, TypeOK, simVars
  <2>2. PromiseMeansB' /\ PromisedIsQueued' /\ CoverageStands' /\ OfflineQueueKeeps'
    BY <1>1 DEF SessionExpires, PromiseMeansB, PromisedIsQueued, CoverageStands, OfflineQueueKeeps
  <2> QED
    BY <2>1, <2>2
<1>2. ASSUME NEW c \in published, MessageExpires(c) PROVE DeliveryInv'
  <2>1. /\ UNCHANGED <<bcfg, scfg, stage, link, subs, published, puback, wire, queue, received, taken, covered>>
        /\ pending' = pending \ {c} /\ owed' = owed \ {c}
    BY <1>2 DEF MessageExpires, simVars
  <2>2. retained' \in [Device -> published' \cup {None}]
    BY <1>2, <2>1 DEF MessageExpires, TypeOK
  <2>3. TypeOK'
    BY <2>1, <2>2 DEF TypeOK
  <2>4. PromiseMeansB' /\ CoverageStands' /\ OfflineQueueKeeps'
    BY <2>1 DEF PromiseMeansB, CoverageStands, OfflineQueueKeeps
  <2>5. PromisedIsQueued'
    <3>1. \A d \in Device : retained'[d] \in {retained[d], None}
      BY <1>2 DEF MessageExpires
    <3>2. None \notin owed
      BY NoneIsNoCommand DEF TypeOK
    <3> QED
      BY <2>1, <3>1, <3>2 DEF PromisedIsQueued
  <2> QED
    BY <2>3, <2>4, <2>5
<1>3. ASSUME NEW c \in published, PubAck(c) PROVE DeliveryInv'
  <2>1. /\ UNCHANGED <<bcfg, scfg, stage, link, subs, published, retained, wire, queue, received, taken, covered, owed>>
        /\ pending' = pending \ {c} /\ puback' = puback \ {c} /\ c \in puback
    BY <1>3 DEF PubAck, simVars, promiseVars
  <2>2. TypeOK'
    BY <2>1 DEF TypeOK
  <2>3. c \in received
    BY <2>1 DEF TypeOK
  <2>4. PromiseMeansB' /\ PromisedIsQueued' /\ CoverageStands' /\ OfflineQueueKeeps'
    BY <2>1, <2>3 DEF PromiseMeansB, PromisedIsQueued, CoverageStands, OfflineQueueKeeps
  <2> QED
    BY <2>2, <2>4
<1> QED
  BY <1>1, <1>2, <1>3 DEF Broker

\* A step of the connection that takes nothing from a session with a promise,
\* and makes no new one, keeps the promise.
LEMMA PromiseKept ==
  ASSUME DeliveryInv, UNCHANGED <<scfg, retained, received, covered, owed>>, wire' \subseteq wire,
         covered \cup owed # {} => subs \subseteq subs' /\ pending \subseteq pending'
  PROVE  (PromiseMeansB /\ PromisedIsQueued /\ CoverageStands /\ OfflineQueueKeeps)'
<1>1. PromiseMeansB'
  BY DEF DeliveryInv, PromiseMeansB
<1>2. CoverageStands'
  BY DEF DeliveryInv, CoverageStands
<1>3. OfflineQueueKeeps'
  BY DEF DeliveryInv, OfflineQueueKeeps
<1>4. PromisedIsQueued'
  BY DEF DeliveryInv, PromisedIsQueued
<1> QED
  BY <1>1, <1>2, <1>3, <1>4

\* A subscription keeps every promise, and SubscribeOK makes one only with the
\* subscription in place.
LEMMA SubscriptionPreserves ==
  ASSUME DeliveryInv, BrokerSubscribes, UNCHANGED <<scfg, retained, received, owed>>,
         covered' = covered \/ (scfg.mode = "B" /\ covered' = covered \cup {SubscribeFilter})
  PROVE  (PromiseMeansB /\ PromisedIsQueued /\ CoverageStands /\ OfflineQueueKeeps)'
<1> USE DEF DeliveryInv
<1>1. PromiseMeansB'
  BY DEF PromiseMeansB
<1>2. ASSUME NEW f \in covered' PROVE [filter |-> f, qos |-> 1] \in subs'
  <2>1. scfg.qos = 1
    BY <1>1, <1>2, SimulatorInB DEF PromiseMeansB, TypeOK
  <2>2. CASE f = SubscribeFilter
    BY <2>1, <2>2, SubscribeMeaning
  <2>3. CASE f # SubscribeFilter
    BY <1>2, <2>3, SubscribeMeaning DEF CoverageStands
  <2> QED
    BY <2>2, <2>3
<1>3. OfflineQueueKeeps'
  BY SubscribeMeaning DEF OfflineQueueKeeps
<1>4. PromisedIsQueued'
  BY SubscribeMeaning DEF PromisedIsQueued
<1> QED
  BY <1>1, <1>2, <1>3, <1>4 DEF CoverageStands

\* Connecting, subscribing, losing the connection and restarting preserve the
\* invariant.
LEMMA ClientPreserves ==
  ASSUME DeliveryInv, Client
  PROVE  DeliveryInv'
<1> USE DEF DeliveryInv
<1>1. CASE Connect
  <2>1. /\ UNCHANGED <<bcfg, scfg, retained, published, puback, wire, queue, received, taken, covered, owed>>
        /\ link' = "up" /\ stage' \in {stage, "connected"}
        /\ subs' \subseteq subs /\ pending' \subseteq pending
    BY <1>1 DEF Connect, promiseVars
  <2>2. covered \cup owed # {} => subs' = subs /\ pending' = pending
    <3>1. covered \cup owed # {} => scfg.persistent
      BY SimulatorInB DEF PromiseMeansB, TypeOK
    <3> QED
      BY <1>1, <3>1 DEF Connect, CleanStart
  <2>3. TypeOK'
    BY <2>1 DEF TypeOK
  <2> QED
    BY <2>1, <2>2, <2>3, PromiseKept
<1>2. CASE SubscribeOK
  <2>1. /\ UNCHANGED <<bcfg, scfg, retained, published, puback, queue, received, taken, owed>>
        /\ link' = "ready" /\ stage' \in {stage, "subscribed"}
    BY <1>2 DEF SubscribeOK, First
  <2>2. covered' = covered \/ (scfg.mode = "B" /\ covered' = covered \cup {SubscribeFilter})
    BY <1>2 DEF SubscribeOK
  <2>3. BrokerSubscribes
    BY <1>2 DEF SubscribeOK
  <2>4. SubscribeFilter \in Filter
    BY DEF TypeOK, SimulatorConfig, SubscribeFilter
  <2>5. TypeOK'
    BY <2>1, <2>2, <2>3, <2>4, SubscribeMeaning DEF TypeOK
  <2> QED
    BY <2>1, <2>2, <2>3, <2>5, SubscriptionPreserves
<1>3. CASE SubscribeErr
  <2>1. /\ UNCHANGED <<bcfg, scfg, retained, published, puback, queue, received, taken, covered, owed>>
        /\ link' = "deaf" /\ stage' \in {stage, "failed"}
    BY <1>3 DEF SubscribeErr, First, promiseVars
  <2>2. CASE BrokerSubscribes
    <3>1. TypeOK'
      BY <2>1, <2>2, SubscribeMeaning DEF TypeOK
    <3> QED
      BY <2>1, <2>2, <3>1, SubscriptionPreserves
  <2>3. CASE UNCHANGED <<subs, pending, wire>>
    <3>1. TypeOK'
      BY <2>1, <2>3 DEF TypeOK
    <3> QED
      BY <2>1, <2>3, <3>1, PromiseKept
  <2> QED
    BY <1>3, <2>2, <2>3 DEF SubscribeErr
<1>4. CASE StartupFails \/ ConnectionLost
  <2>1. /\ UNCHANGED <<bcfg, scfg, retained, published, received, taken, covered, owed>>
        /\ link' \in {"down", "gone"} /\ stage' \in {stage, "failed"}
        /\ puback' = {} /\ wire' = {} /\ queue' \in {<<>>, queue}
    BY <1>4 DEF StartupFails, ConnectionLost, First, simVars, promiseVars
  <2>2. DisconnectSession
    BY <1>4 DEF StartupFails, ConnectionLost
  <2>3. TypeOK'
    <3>1. queue' \in Seq(Command) /\ Len(queue') <= QueueCap
      <4>1. CASE queue' = <<>>
        BY <4>1, DeliveryAssumption
      <4>2. CASE queue' = queue
        BY <4>2 DEF TypeOK
      <4> QED
        BY <2>1, <4>1, <4>2
    <3> QED
      BY <2>1, <2>2, <3>1, DisconnectMeaning DEF TypeOK
  <2> QED
    BY <2>1, <2>2, <2>3, DisconnectMeaning, PromiseKept
<1>5. CASE Restart
  <2>1. /\ UNCHANGED <<bcfg, retained, published, received, taken>>
        /\ scfg' \in SimulatorConfig /\ stage' = "new" /\ link' = "down"
        /\ queue' = <<>> /\ puback' = {} /\ wire' = {}
    BY <1>5 DEF Restart
  <2>2. \/ scfg'.mode = "B" /\ UNCHANGED <<covered, owed>>
        \/ covered' = {} /\ owed' = {}
    BY <1>5 DEF Restart, promiseVars
  <2>3. /\ subs' \subseteq subs /\ pending' \subseteq pending
        /\ covered \cup owed # {} => subs' = subs /\ pending' = pending
    BY <1>5, DisconnectMeaning DEF Restart
  <2>4. TypeOK'
    BY <2>1, <2>2, <2>3, DeliveryAssumption DEF TypeOK
  <2>5. PromiseMeansB'
    BY <2>2 DEF PromiseMeansB
  <2>6. PromisedIsQueued' /\ CoverageStands' /\ OfflineQueueKeeps'
    BY <2>1, <2>2, <2>3 DEF PromisedIsQueued, CoverageStands, OfflineQueueKeeps
  <2> QED
    BY <2>4, <2>5, <2>6
<1> QED
  BY <1>1, <1>2, <1>3, <1>4, <1>5 DEF Client

\* OnMessage and Run preserve the invariant.
LEMMA HandlerPreserves ==
  ASSUME DeliveryInv, Handler
  PROVE  DeliveryInv'
<1> USE DEF DeliveryInv
<1>1. CASE Run
  <2>1. /\ UNCHANGED <<bcfg, scfg, stage, link, subs, pending, retained, published, puback, wire, received, covered, owed>>
        /\ queue # <<>> /\ taken' = taken \cup {Head(queue)} /\ queue' = Tail(queue)
    BY <1>1 DEF Run, simVars, brokerVars, promiseVars
  <2>2. Head(queue) \in Command /\ queue' \in Seq(Command) /\ Len(queue') <= QueueCap
    BY <2>1, DeliveryAssumption DEF TypeOK
  <2>3. TypeOK'
    BY <2>1, <2>2 DEF TypeOK
  <2> QED
    BY <2>1, <2>3, PromiseKept
<1>2. ASSUME NEW c \in published, OnMessage(c) PROVE DeliveryInv'
  <2>1. /\ UNCHANGED <<bcfg, scfg, stage, link, subs, pending, retained, published, taken, covered, owed>>
        /\ received' = received \cup {c} /\ wire' = wire \ {c}
        /\ puback' \subseteq puback \cup {c}
    BY <1>2 DEF OnMessage, simVars, brokerVars, promiseVars
  <2>2. queue' \in Seq(Command) /\ Len(queue') <= QueueCap
    BY <1>2, DeliveryAssumption DEF OnMessage, HasRoom, TypeOK
  <2>3. TypeOK'
    BY <2>1, <2>2 DEF TypeOK
  <2>4. PromiseMeansB' /\ PromisedIsQueued' /\ CoverageStands' /\ OfflineQueueKeeps'
    BY <2>1 DEF PromiseMeansB, PromisedIsQueued, CoverageStands, OfflineQueueKeeps
  <2> QED
    BY <2>3, <2>4
<1> QED
  BY <1>1, <1>2 DEF Handler

\* The inductive invariant of the delivery holds in every state.
THEOREM DeliveryInvHolds == Spec => []DeliveryInv
<1>1. Init => DeliveryInv
  BY DeliveryInvInit
<1>2. DeliveryInv /\ [Next]_vars => DeliveryInv'
  <2> SUFFICES ASSUME DeliveryInv, [Next]_vars PROVE DeliveryInv'
    OBVIOUS
  <2>1. CASE Next
    BY <2>1, BackendPreserves, BrokerPreserves, ClientPreserves, HandlerPreserves DEF Next
  <2>2. CASE UNCHANGED vars
    <3>1. TypeOK'
      BY <2>2 DEF DeliveryInv, TypeOK, vars, simVars, brokerVars, promiseVars
    <3> QED
      BY <2>2, <3>1, PromiseKept DEF DeliveryInv, vars, simVars, brokerVars, promiseVars
  <2> QED
    BY <2>1, <2>2
<1> QED
  BY <1>1, <1>2, PTL DEF Spec

\* Every variable keeps its type, and the simulator's queue its capacity.
THEOREM TypeCorrect == Spec => []TypeOK
<1>1. DeliveryInv => TypeOK
  BY DEF DeliveryInv
<1> QED
  BY <1>1, DeliveryInvHolds, PTL

\* Every confirmed subscription of mode B stands in the session with QoS 1.
THEOREM SubscriptionsStand == Spec => []CoverageStands
<1>1. DeliveryInv => CoverageStands
  BY DEF DeliveryInv
<1> QED
  BY <1>1, DeliveryInvHolds, PTL

\* The promise of option B: a command for a device that is offline is queued at
\* the broker until the simulator has received it.
THEOREM OfflineQueueIsKept == Spec => []OfflineQueueKeeps
<1>1. DeliveryInv => OfflineQueueKeeps
  BY DEF DeliveryInv
<1> QED
  BY <1>1, DeliveryInvHolds, PTL
\* On an open connection the broker hands over every command that one of the
\* subscriptions matches, and takes none back.
LEMMA RouteOnline ==
  ASSUME NEW new, NEW S, Route(new, S), link \in Online
  PROVE  /\ pending \subseteq pending' /\ wire \subseteq wire'
         /\ \A c \in new : (\E s \in S : Matches(s.filter, c.device)) => c \in pending' \cup wire'
BY DEF Route

\* A published command replaces the retained one of its topic, if any, and is on
\* its way to a simulator that is subscribed to that topic.
LEMMA PublishRetains ==
  ASSUME DeliveryInv, RetainInv, NEW c \in Command, PublishCommand(c)
  PROVE  RetainInv'
<1> USE DEF RetainInv
<1>1. UNCHANGED <<scfg, link, subs, received>> /\ Route({c}, subs)
  BY DEF PublishCommand, simVars
<1>2. \A d \in Device : retained'[d] = retained[d] \/ (retained'[d] = c /\ d = c.device)
  BY DEF PublishCommand, DeliveryInv, TypeOK
<1>3. ReadyIsSubscribed' /\ RetainedOfTopic'
  BY <1>1, <1>2 DEF ReadyIsSubscribed, RetainedOfTopic, SubscribeFilter
<1>4. ASSUME NEW d \in Device, link' = "ready", scfg'.filter = d, retained'[d] # None
      PROVE  retained'[d] \in pending' \cup wire' \cup received'
  <2>1. link \in Online /\ \E s \in subs : s.filter = d
    BY <1>1, <1>4 DEF ReadyIsSubscribed, SubscribeFilter, Online
  <2>2. CASE retained'[d] = retained[d]
    BY <1>1, <1>4, <2>1, <2>2, RouteOnline DEF RetainedIsOnItsWay
  <2>3. CASE retained'[d] = c /\ d = c.device
    BY <1>1, <2>1, <2>3, RouteOnline DEF Matches
  <2> QED
    BY <1>2, <2>2, <2>3
<1> QED
  BY <1>3, <1>4 DEF RetainedIsOnItsWay

\* A new subscription of an exact topic brings its retained command.
LEMMA SubscribeRetains ==
  ASSUME DeliveryInv, RetainInv, SubscribeOK
  PROVE  RetainInv'
<1> USE DEF RetainInv
<1>1. link \in Online /\ UNCHANGED <<scfg, retained, received>> /\ BrokerSubscribes
  BY DEF SubscribeOK, Online
<1> DEFINE new == {retained[d] : d \in Device \cap {SubscribeFilter}} \ {None}
           s0 == [filter |-> SubscribeFilter, qos |-> scfg.qos]
<1>2. s0 \in subs' /\ s0.filter = SubscribeFilter /\ Route(new, subs')
  BY <1>1 DEF BrokerSubscribes
<1>3. ReadyIsSubscribed' /\ RetainedOfTopic'
  BY <1>1, <1>2 DEF ReadyIsSubscribed, RetainedOfTopic, SubscribeFilter
<1>4. ASSUME NEW d \in Device, scfg.filter = d, retained[d] # None
      PROVE  retained[d] \in pending' \cup wire'
  <2>1. retained[d] \in new
    BY <1>4 DEF SubscribeFilter
  <2>2. Matches(s0.filter, retained[d].device)
    BY <1>2, <1>4 DEF RetainedOfTopic, Matches, SubscribeFilter
  <2> HIDE DEF new, s0
  <2> QED
    BY <1>1, <1>2, <2>1, <2>2, RouteOnline
<1> QED
  BY <1>1, <1>3, <1>4 DEF RetainedIsOnItsWay

\* Every other step leaves the retained commands alone, or drops an expired one,
\* and takes a command from its way only when the simulator has received it or
\* when the connection is not ready any more.
LEMMA OthersRetain ==
  ASSUME DeliveryInv, RetainInv,
         Broker \/ BackendRestart \/ Handler \/ UNCHANGED vars
           \/ Connect \/ SubscribeErr \/ StartupFails \/ ConnectionLost \/ Restart
  PROVE  RetainInv'
<1> USE DEF RetainInv
<1>1. CASE Connect \/ SubscribeErr \/ StartupFails \/ ConnectionLost \/ Restart
  <2>1. link' # "ready" /\ retained' = retained
    BY <1>1 DEF Connect, SubscribeErr, StartupFails, ConnectionLost, Restart
  <2> QED
    BY <2>1 DEF ReadyIsSubscribed, RetainedOfTopic, RetainedIsOnItsWay
<1>2. CASE SessionExpires
  <2>1. link' # "ready" /\ retained' = retained
    BY <1>2 DEF SessionExpires, Online
  <2> QED
    BY <2>1 DEF ReadyIsSubscribed, RetainedOfTopic, RetainedIsOnItsWay
<1>3. ASSUME NEW c \in published, MessageExpires(c) PROVE RetainInv'
  <2>1. UNCHANGED <<scfg, link, subs, wire, received>> /\ pending' = pending \ {c}
    BY <1>3 DEF MessageExpires, simVars
  <2>2. \A d \in Device : retained'[d] # None => retained'[d] = retained[d] /\ retained[d] # c
    BY <1>3 DEF MessageExpires
  <2> QED
    BY <2>1, <2>2 DEF ReadyIsSubscribed, RetainedOfTopic, RetainedIsOnItsWay, SubscribeFilter
<1>4. ASSUME NEW c \in published, PubAck(c) PROVE RetainInv'
  <2>1. /\ UNCHANGED <<scfg, link, subs, retained, wire, received>>
        /\ pending' = pending \ {c} /\ c \in puback
    BY <1>4 DEF PubAck, simVars
  <2>2. c \in received
    BY <2>1 DEF DeliveryInv, TypeOK
  <2> QED
    BY <2>1, <2>2 DEF ReadyIsSubscribed, RetainedOfTopic, RetainedIsOnItsWay, SubscribeFilter
<1>5. ASSUME NEW c \in published, OnMessage(c) PROVE RetainInv'
  <2>1. /\ UNCHANGED <<scfg, link, subs, retained, pending>>
        /\ received' = received \cup {c} /\ wire' = wire \ {c}
    BY <1>5 DEF OnMessage, simVars, brokerVars
  <2> QED
    BY <2>1 DEF ReadyIsSubscribed, RetainedOfTopic, RetainedIsOnItsWay, SubscribeFilter
<1>6. CASE Run \/ BackendRestart \/ UNCHANGED vars
  <2>1. UNCHANGED <<scfg, link, subs, retained, pending, wire, received>>
    BY <1>6 DEF Run, BackendRestart, vars, simVars, brokerVars
  <2> QED
    BY <2>1 DEF ReadyIsSubscribed, RetainedOfTopic, RetainedIsOnItsWay, SubscribeFilter
<1> QED
  BY <1>1, <1>2, <1>3, <1>4, <1>5, <1>6 DEF Broker, Handler

\* The invariant of option A holds in every state.
THEOREM RetainInvHolds == Spec => []RetainInv
<1>1. Init => RetainInv
  BY DEF Init, RetainInv, ReadyIsSubscribed, RetainedOfTopic, RetainedIsOnItsWay
<1>2. DeliveryInv /\ RetainInv /\ [Next]_vars => RetainInv'
  BY PublishRetains, SubscribeRetains, OthersRetain DEF Next, Backend, Client
<1> QED
  BY <1>1, <1>2, DeliveryInvHolds, PTL DEF Spec

\* The promise of option A: a simulator subscribed to an exact topic has its
\* retained command, or the broker is about to send it.
THEOREM RetainedIsDelivered == Spec => []RetainedIsOnItsWay
<1>1. RetainInv => RetainedIsOnItsWay
  BY DEF RetainInv
<1> QED
  BY <1>1, RetainInvHolds, PTL

\* A ready connection is subscribed to the simulator's own filter.
THEOREM ReadySubscribed == Spec => []ReadyIsSubscribed
<1>1. RetainInv => ReadyIsSubscribed
  BY DEF RetainInv
<1> QED
  BY <1>1, RetainInvHolds, PTL
-----------------------------------------------------------------------------
(* The refinement of Session *)

\* What Session sees of a connection.
LEMMA OnlineMapped ==
  ASSUME TypeOK
  PROVE  AtBroker!Online <=> link \in Online
  BY DEF TypeOK, AtBroker!Online, Connection, Online

\* The answers of a simulator are among those of a client.
LEMMA SettingsType ==
  ASSUME NEW c \in SimulatorConfig
  PROVE  /\ [autoReconnect |-> c.autoReconnect, persistent |-> c.persistent, expiry |-> c.expiry]
              \in AtBroker!Config
         /\ c.filter \in Filter
  BY DEF SimulatorConfig, AtBroker!Config

\* What is left of the session when its connection ends.
LEMMA LeftMapped ==
  ASSUME TypeOK, DisconnectSession
  PROVE  Held' = AtBroker!Left(Held)
<1>1. Settings.expiry = scfg.expiry
  BY DEF Settings
<1> QED
  BY <1>1, OnlineMapped DEF DisconnectSession, AtBroker!Left, Held

\* A subscription adds the simulator's own filter to those of the session.
LEMMA HeldMapped ==
  ASSUME BrokerSubscribes
  PROVE  Held' = Held \cup {scfg.filter}
<1> DEFINE s0 == [filter |-> SubscribeFilter, qos |-> scfg.qos]
<1>1. subs' = {s \in subs : s.filter # SubscribeFilter} \cup {s0}
  BY DEF BrokerSubscribes
<1>2. s0.filter = scfg.filter
  BY DEF SubscribeFilter
<1> HIDE DEF s0
<1>3. ASSUME NEW f PROVE f \in Held' <=> f \in Held \cup {scfg.filter}
  BY <1>1, <1>2 DEF Held, SubscribeFilter
<1> QED
  BY <1>3

\* Every step of the simulator's connection is one of Session.
LEMMA ClientMaps ==
  ASSUME TypeOK, TypeOK', Client
  PROVE  AtBroker!Next
<1>1. CASE Connect
  <2>1. /\ UNCHANGED scfg /\ link = "down" /\ link' = "up"
        /\ stage' = IF stage = "new" THEN "connected" ELSE stage
        /\ subs' = IF stage = "new" /\ ~scfg.persistent THEN {} ELSE subs
    BY <1>1 DEF Connect, CleanStart
  <2>2. Held' = IF stage = "new" /\ ~Settings.persistent THEN {} ELSE Held
    BY <2>1 DEF Held, Settings
  <2> QED
    BY <2>1, <2>2 DEF AtBroker!Connect, AtBroker!Next, Connection, Settings
<1>2. CASE SubscribeOK
  <2>1. /\ UNCHANGED scfg /\ link = "up" /\ link' = "ready" /\ First("subscribed") /\ BrokerSubscribes
    BY <1>2 DEF SubscribeOK
  <2> QED
    BY <2>1, HeldMapped
    DEF AtBroker!SubscribeOK, AtBroker!First, First, AtBroker!Next, Connection, Settings
<1>3. CASE SubscribeErr
  <2>1. /\ UNCHANGED scfg /\ link = "up" /\ link' = "deaf" /\ First("failed")
        /\ BrokerSubscribes \/ subs' = subs
    BY <1>3 DEF SubscribeErr
  <2>2. Held' \in {Held, Held \cup {scfg.filter}}
    BY <2>1, HeldMapped DEF Held
  <2> QED
    BY <2>1, <2>2
    DEF AtBroker!SubscribeErr, AtBroker!First, First, AtBroker!Next, Connection, Settings
<1>4. CASE StartupFails
  <2>1. UNCHANGED <<scfg, stage>> /\ stage = "failed" /\ link' = "gone" /\ DisconnectSession
    BY <1>4 DEF StartupFails, simVars
  <2> QED
    BY <2>1, LeftMapped DEF AtBroker!StartupFails, AtBroker!Next, Connection, Settings
<1>5. CASE ConnectionLost
  <2>1. /\ UNCHANGED scfg /\ link \in Online /\ DisconnectSession
        /\ link' = IF scfg.autoReconnect THEN "down" ELSE "gone"
        /\ IF link = "up" THEN First("failed") ELSE stage' = stage
    BY <1>5 DEF ConnectionLost
  <2>2. UNCHANGED <<Settings, scfg.filter>>
    BY <2>1 DEF Settings
  <2>3. Connection' = IF Settings.autoReconnect THEN "down" ELSE "gone"
    BY <2>1 DEF Connection, Settings
  <2>4. Connection = IF link = "up" THEN "up" ELSE "settled"
    BY <2>1 DEF Connection, Online
  <2>5. Held' = AtBroker!Left(Held) /\ AtBroker!Online
    BY <2>1, LeftMapped, OnlineMapped
  <2> QED
    BY <2>1, <2>2, <2>3, <2>4, <2>5
    DEF AtBroker!ConnectionLost, AtBroker!First, First, AtBroker!Next
<1>6. CASE Restart
  <2>1. scfg' \in SimulatorConfig /\ stage' = "new" /\ link' = "down" /\ DisconnectSession
    BY <1>6 DEF Restart
  <2>2. Settings' \in AtBroker!Config /\ scfg'.filter \in Filter
    BY <2>1, SettingsType DEF Settings
  <2> QED
    BY <2>1, <2>2, LeftMapped DEF AtBroker!Restart, AtBroker!Next, Connection
<1> QED
  BY <1>1, <1>2, <1>3, <1>4, <1>5, <1>6 DEF Client

\* client.go and main.go of the simulator: commands, retained or queued, and the
\* handler never touch the session's subscriptions, and what connections and
\* processes do to them is what Session allows, for any filters.
THEOREM SessionIsKept == Spec => ImplementsSession
<1>1. Init => AtBroker!Init
  BY SettingsType DEF Init, AtBroker!Init, Connection, Settings, Held
<1>2. ASSUME TypeOK, TypeOK', [Next]_vars PROVE [AtBroker!Next]_(AtBroker!vars)
  <2>1. CASE Client
    BY <1>2, <2>1, ClientMaps
  <2>2. CASE SessionExpires
    <3>1. UNCHANGED <<scfg, stage, link>> /\ link \notin Online /\ subs' = {}
      BY <2>2 DEF SessionExpires, simVars
    <3>2. ~AtBroker!Online
      BY <1>2, <3>1, OnlineMapped
    <3> QED
      BY <3>1, <3>2
      DEF AtBroker!SessionExpires, AtBroker!Next, Connection, Settings, Held
  <2>3. CASE UNCHANGED <<scfg, stage, link, subs>>
    BY <2>3 DEF AtBroker!vars, Settings, Connection, Held
  <2>4. Client \/ SessionExpires \/ UNCHANGED <<scfg, stage, link, subs>>
    <3>1. ASSUME NEW c, PublishCommand(c) \/ MessageExpires(c) \/ PubAck(c) \/ OnMessage(c)
          PROVE  UNCHANGED <<scfg, stage, link, subs>>
      BY <3>1 DEF PublishCommand, MessageExpires, PubAck, OnMessage, simVars, brokerVars
    <3>2. BackendRestart \/ Run \/ UNCHANGED vars => UNCHANGED <<scfg, stage, link, subs>>
      BY DEF BackendRestart, Run, vars, simVars, brokerVars
    <3> QED
      BY <1>2, <3>1, <3>2 DEF Next, Backend, Broker, Handler
  <2> QED
    BY <2>1, <2>2, <2>3, <2>4
<1> QED
  BY <1>1, <1>2, TypeCorrect, PTL DEF Spec, ImplementsSession, AtBroker!Spec
-----------------------------------------------------------------------------
(* The refinement of Mailbox *)

\* A step that makes no promise and ends none, and in which what leaves the queue
\* had arrived, is a step of the mailbox or none.
LEMMA PromisesStand ==
  ASSUME owed' = owed, received' = received,
         owed \cap pending' = owed \cap pending
  PROVE  UNCHANGED Offline!vars
  BY DEF Offline!vars

\* Publishing a covered command posts it; any other publish is no business of the
\* mailbox.
LEMMA PublishPosts ==
  ASSUME DeliveryInv, DeliveryInv', NEW c \in Command, PublishCommand(c)
  PROVE  [Offline!Next]_(Offline!vars)
<1>1. /\ received' = received /\ owed' \in {owed, owed \cup {c}}
      /\ pending \subseteq pending' /\ pending' \subseteq pending \cup {c}
  BY RouteMeaning DEF PublishCommand
<1>2. c \notin owed /\ c \notin received
  <2>1. c \notin published
    BY DEF PublishCommand, IDs
  <2> QED
    BY <2>1 DEF DeliveryInv, TypeOK
<1>3. CASE owed' = owed
  <2>1. owed \cap pending' = owed \cap pending
    BY <1>1, <1>2
  <2> QED
    BY <1>1, <1>3, <2>1, PromisesStand
<1>4. CASE owed' = owed \cup {c}
  <2>1. c \in pending'
    BY <1>1, <1>2, <1>4 DEF DeliveryInv, OfflineQueueKeeps
  <2> QED
    BY <1>1, <1>2, <1>4, <2>1 DEF Offline!Post, Offline!Next
<1> QED
  BY <1>1, <1>3, <1>4

\* The steps of the simulator and its connection leave the mailbox alone, unless
\* another mode makes it void.
LEMMA ClientLeavesMailbox ==
  ASSUME DeliveryInv, Client
  PROVE  [Offline!Next]_(Offline!vars)
<1>1. CASE Connect
  <2>1. owed # {} => scfg.persistent
    BY SimulatorInB DEF DeliveryInv, PromiseMeansB, TypeOK
  <2> QED
    BY <1>1, <2>1, PromisesStand DEF Connect, CleanStart, promiseVars
<1>2. CASE SubscribeOK \/ SubscribeErr
  <2>1. owed' = owed /\ received' = received /\ (BrokerSubscribes \/ pending' = pending)
    BY <1>2 DEF SubscribeOK, SubscribeErr, promiseVars
  <2>2. CASE BrokerSubscribes
    <3> DEFINE new == {retained[d] : d \in Device \cap {SubscribeFilter}} \ {None}
    <3>1. pending \subseteq pending' /\ pending' \subseteq pending \cup new
      BY <2>2, RouteMeaning DEF BrokerSubscribes
    <3>2. owed \cap new = {}
      BY DEF DeliveryInv, PromisedIsQueued
    <3> HIDE DEF new
    <3> QED
      BY <2>1, <3>1, <3>2, PromisesStand
  <2> QED
    BY <2>1, <2>2, PromisesStand
<1>3. CASE StartupFails \/ ConnectionLost
  <2>1. owed' = owed /\ received' = received /\ DisconnectSession
    BY <1>3 DEF StartupFails, ConnectionLost, promiseVars
  <2>2. owed # {} => pending' = pending
    BY <2>1, DisconnectMeaning DEF DeliveryInv
  <2> QED
    BY <2>1, <2>2, PromisesStand
<1>4. CASE Restart
  <2>1. received' = received /\ DisconnectSession /\ owed' \in {owed, {}}
    BY <1>4 DEF Restart, promiseVars
  <2>2. CASE owed' = owed
    <3>1. owed # {} => pending' = pending
      BY <2>1, DisconnectMeaning DEF DeliveryInv
    <3> QED
      BY <2>1, <2>2, <3>1, PromisesStand
  <2>3. CASE owed' = {}
    BY <2>3 DEF Offline!Void, Offline!Next
  <2> QED
    BY <2>1, <2>2, <2>3
<1> QED
  BY <1>1, <1>2, <1>3, <1>4 DEF Client

\* PUBACK, OnMessage and the two expiries are steps of the mailbox, for promised
\* commands.
LEMMA CommandsMove ==
  ASSUME DeliveryInv, NEW c \in published,
         MessageExpires(c) \/ PubAck(c) \/ OnMessage(c) \/ SessionExpires
  PROVE  [Offline!Next]_(Offline!vars)
<1>0. c \in Command
  BY DEF DeliveryInv, TypeOK
<1>1. CASE SessionExpires
  BY <1>1 DEF SessionExpires, Offline!Void, Offline!Next
<1>2. CASE MessageExpires(c)
  <2>1. owed' = owed \ {c} /\ pending' = pending \ {c} /\ received' = received
    BY <1>2 DEF MessageExpires
  <2> QED
    BY <1>0, <2>1 DEF Offline!Expire, Offline!Next
<1>3. CASE PubAck(c)
  <2>1. owed' = owed /\ pending' = pending \ {c} /\ received' = received /\ c \in received
    BY <1>3 DEF PubAck, promiseVars, DeliveryInv, TypeOK
  <2>2. CASE c \in owed \cap pending
    BY <1>0, <2>1, <2>2 DEF Offline!Leave, Offline!Next
  <2>3. CASE c \notin owed \cap pending
    BY <2>1, <2>3, PromisesStand
  <2> QED
    BY <2>2, <2>3
<1>4. CASE OnMessage(c)
  <2>1. /\ owed' = owed /\ pending' = pending /\ received' = received \cup {c}
        /\ c \in pending \cup wire
    BY <1>4 DEF OnMessage, brokerVars, promiseVars
  <2>2. CASE c \in owed
    <3>1. c \in pending
      BY <2>1, <2>2 DEF DeliveryInv, PromisedIsQueued
    <3> QED
      BY <1>0, <2>1, <2>2, <3>1 DEF Offline!Arrive, Offline!Next
  <2>3. CASE c \notin owed
    BY <2>1, <2>3 DEF Offline!vars
  <2> QED
    BY <2>2, <2>3
<1> QED
  BY <1>1, <1>2, <1>3, <1>4

\* MQTT-Command-Firing-POC.md:29: for any commands, devices and queue capacity,
\* and over every loss, reconnect and restart, the commands of option B are in a
\* mailbox that delivers at least once.
THEOREM OptionBIsAMailbox == Spec => ImplementsMailbox
<1>1. Init => Offline!Init
  BY DEF Init, Offline!Init
<1>2. ASSUME DeliveryInv, DeliveryInv', [Next]_vars PROVE [Offline!Next]_(Offline!vars)
  <2>1. CASE SessionExpires
    BY <2>1 DEF SessionExpires, Offline!Void, Offline!Next
  <2>2. CASE BackendRestart \/ Run \/ UNCHANGED vars
    BY <2>2, PromisesStand DEF BackendRestart, Run, vars, brokerVars, promiseVars
  <2> QED
    BY <1>2, <2>1, <2>2, PublishPosts, ClientLeavesMailbox, CommandsMove
    DEF Next, Backend, Broker, Handler
<1> QED
  BY <1>1, <1>2, DeliveryInvHolds, PTL DEF Spec, ImplementsMailbox, Offline!Spec

\* The mailbox is the whole promise: whatever implements it, and not only the code
\* as it is, keeps a promised command at the broker until it has arrived.
THEOREM MailboxKeepsPromises == ImplementsMailbox => []OfflineQueueKeeps
<1>1. Offline!Init => OfflineQueueKeeps
  BY DEF Offline!Init, OfflineQueueKeeps
<1>2. ASSUME OfflineQueueKeeps, [Offline!Next]_(Offline!vars) PROVE OfflineQueueKeeps'
  <2>1. CASE Offline!Void
    BY <2>1 DEF Offline!Void, OfflineQueueKeeps
  <2>2. ASSUME NEW c \in Command,
               Offline!Post(c) \/ Offline!Arrive(c) \/ Offline!Leave(c) \/ Offline!Expire(c)
        PROVE  OfflineQueueKeeps'
    BY <1>2, <2>2
    DEF Offline!Post, Offline!Arrive, Offline!Leave, Offline!Expire, OfflineQueueKeeps
  <2>3. CASE UNCHANGED Offline!vars
    BY <1>2, <2>3 DEF Offline!vars, OfflineQueueKeeps
  <2> QED
    BY <1>2, <2>1, <2>2, <2>3 DEF Offline!Next
<1> QED
  BY <1>1, <1>2, PTL DEF ImplementsMailbox, Offline!Spec

\* AP is AtBroker again, with the theorems of SessionProofs.
AP == INSTANCE SessionProofs WITH
  cfg <- Settings, filter <- scfg.filter, link <- Connection, subs <- Held

LEMMA AtBrokerIsAP == AtBroker!Spec => AP!Spec
<1>1. AtBroker!Init => AP!Init
  BY DEF AtBroker!Init, AP!Init, AtBroker!Config, AP!Config
<1>2. [AtBroker!Next]_(AtBroker!vars) => [AP!Next]_(AP!vars)
  BY DEF AtBroker!Next, AP!Next, AtBroker!Connect, AP!Connect, AtBroker!SubscribeOK,
      AP!SubscribeOK, AtBroker!SubscribeErr, AP!SubscribeErr, AtBroker!ConnectionLost,
      AP!ConnectionLost, AtBroker!StartupFails, AP!StartupFails, AtBroker!SessionExpires,
      AP!SessionExpires, AtBroker!Restart, AP!Restart, AtBroker!First, AP!First,
      AtBroker!Left, AP!Left, AtBroker!Online, AP!Online, AtBroker!Config, AP!Config,
      AtBroker!vars, AP!vars
<1> QED
  BY <1>1, <1>2, PTL DEF AtBroker!Spec, AP!Spec

\* With a session expiry the simulator loses subscriptions, of earlier operators
\* too, only all together and while it is away; and no Subscribe after the first
\* stops the process.
THEOREM SessionLasts == Spec => AtBroker!SubscriptionsLast /\ AtBroker!OutcomeStays
<1>1. AP!Spec => AP!SubscriptionsLast /\ AP!OutcomeStays
  BY AP!Lasting, AP!OutcomeFinal
<1>2. AP!SubscriptionsLast => AtBroker!SubscriptionsLast
  BY DEF AP!SubscriptionsLast, AtBroker!SubscriptionsLast, AP!Online, AtBroker!Online,
      AP!vars, AtBroker!vars
<1>3. AP!OutcomeStays => AtBroker!OutcomeStays
  BY DEF AP!OutcomeStays, AtBroker!OutcomeStays, AP!vars, AtBroker!vars
<1> QED
  BY <1>1, <1>2, <1>3, AtBrokerIsAP, SessionIsKept, PTL DEF ImplementsSession
=============================================================================
