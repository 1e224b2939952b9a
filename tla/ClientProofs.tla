---------------------------- MODULE ClientProofs -----------------------------
(***************************************************************************)
(* Proofs about Client.  There are no constants: what the proofs add to    *)
(* the exhaustive run is the argument.  CallbackMeaning is what makes      *)
(* OutcomeMeaning inductive: every connection's onConnectionUp runs        *)
(* to its end, and therefore to a signal, before the next connection.      *)
(***************************************************************************)
EXTENDS Client, TLAPS

\* signalFirstSub writes the outcome of the first call, and closes once.
LEMMA SignalMeaning ==
  ASSUME TypeOK, NEW err \in {"nil", "err"}, SignalFirstSub(err)
  PROVE  /\ closes' = 1
         /\ closes = 0 => firstSubErr' = err
         /\ closes = 1 => firstSubErr' = firstSubErr
<1>1. CASE closes = 0
  BY <1>1 DEF SignalFirstSub
<1>2. CASE closes = 1
  BY <1>2 DEF SignalFirstSub
<1> QED
  BY <1>1, <1>2 DEF TypeOK

\* A process that has just started satisfies the invariant.
LEMMA ClientInvInit == Init => ClientInv
<1> SUFFICES ASSUME Init PROVE ClientInv
  OBVIOUS
<1>1. TypeOK
  BY DEF Init, TypeOK
<1>2. OutcomeMeaning
  BY DEF Init, OutcomeMeaning
<1>3. CallbackMeaning
  BY DEF Init, CallbackMeaning
<1> QED
  BY <1>1, <1>2, <1>3 DEF ClientInv

\* main's steps in Connect preserve the invariant.
LEMMA MainPreserves ==
  ASSUME ClientInv, Main
  PROVE  ClientInv'
<1>1. CASE AwaitOK
  BY <1>1 DEF AwaitOK, subVars, ClientInv, TypeOK, OutcomeMeaning, CallbackMeaning
<1>2. CASE AwaitErr
  BY <1>2 DEF AwaitErr, subVars, ClientInv, TypeOK, OutcomeMeaning, CallbackMeaning
<1>3. CASE ConnectReturns
  BY <1>3 DEF ConnectReturns, Left, subVars, ClientInv, TypeOK, OutcomeMeaning, CallbackMeaning
<1> QED
  BY <1>1, <1>2, <1>3 DEF Main

\* onConnectionUp, at each of its steps, preserves the invariant.
LEMMA CallbackPreserves ==
  ASSUME ClientInv, Callback
  PROVE  ClientInv'
<1>1. CASE OnConnectionUp
  BY <1>1 DEF OnConnectionUp, mainVars, ClientInv, TypeOK, OutcomeMeaning, CallbackMeaning
<1>2. CASE SubscribeOK
  <2>1. closes' = 1 /\ (closes = 0 => firstSubErr' = "nil") /\ (closes = 1 => firstSubErr' = firstSubErr)
    BY <1>2, SignalMeaning DEF SubscribeOK, ClientInv
  <2>2. TypeOK'
    BY <1>2, <2>1 DEF SubscribeOK, mainVars, ClientInv, TypeOK
  <2>3. OutcomeMeaning'
    BY <1>2, <2>1 DEF SubscribeOK, mainVars, ClientInv, TypeOK, OutcomeMeaning
  <2>4. CallbackMeaning'
    BY <1>2, <2>1 DEF SubscribeOK, mainVars, ClientInv, TypeOK, CallbackMeaning
  <2> QED
    BY <2>2, <2>3, <2>4 DEF ClientInv
<1>3. CASE SubscribeErr
  <2>1. closes' = 1 /\ (closes = 0 => firstSubErr' = "err") /\ (closes = 1 => firstSubErr' = firstSubErr)
    BY <1>3, SignalMeaning DEF SubscribeErr, ClientInv
  <2>2. TypeOK'
    BY <1>3, <2>1 DEF SubscribeErr, mainVars, ClientInv, TypeOK
  <2>3. OutcomeMeaning'
    BY <1>3, <2>1 DEF SubscribeErr, mainVars, ClientInv, TypeOK, OutcomeMeaning
  <2>4. CallbackMeaning'
    BY <1>3, <2>1 DEF SubscribeErr, mainVars, ClientInv, TypeOK, CallbackMeaning
  <2> QED
    BY <2>2, <2>3, <2>4 DEF ClientInv
<1> QED
  BY <1>1, <1>2, <1>3 DEF Callback

\* Every step of the client, its manager and its environment preserves the
\* invariant.
LEMMA ClientInvStep == ClientInv /\ [Next]_vars => ClientInv'
<1> SUFFICES ASSUME ClientInv, [Next]_vars PROVE ClientInv'
  OBVIOUS
<1>1. CASE Main
  BY <1>1, MainPreserves
<1>2. CASE Callback
  BY <1>2, CallbackPreserves
<1>3. CASE Connected
  BY <1>3 DEF Connected, subVars, ClientInv, TypeOK, OutcomeMeaning, CallbackMeaning
<1>4. CASE ConnectionLost
  BY <1>4 DEF ConnectionLost, Left, mainVars, subVars, ClientInv, TypeOK, OutcomeMeaning, CallbackMeaning
<1>5. CASE OnConnectionDown
  BY <1>5 DEF OnConnectionDown, mainVars, subVars, ClientInv, TypeOK, OutcomeMeaning, CallbackMeaning
<1>6. CASE SessionExpires
  BY <1>6 DEF SessionExpires, mainVars, subVars, ClientInv, TypeOK, OutcomeMeaning, CallbackMeaning
<1>7. CASE Restart
  <2>1. TypeOK'
    BY <1>7 DEF Restart, Left, ClientInv, TypeOK
  <2>2. OutcomeMeaning'
    BY <1>7 DEF Restart, OutcomeMeaning
  <2>3. CallbackMeaning'
    BY <1>7 DEF Restart, CallbackMeaning
  <2> QED
    BY <2>1, <2>2, <2>3 DEF ClientInv
<1>8. CASE UNCHANGED vars
  BY <1>8 DEF vars, mainVars, subVars, ClientInv, TypeOK, OutcomeMeaning, CallbackMeaning
<1> QED
  BY <1>1, <1>2, <1>3, <1>4, <1>5, <1>6, <1>7, <1>8 DEF Next, Manager

\* The inductive invariant holds in every state; with it, TypeOK, and with
\* TypeOK that firstSubDone is never closed twice.
THEOREM ClientInvHolds == Spec => []ClientInv
<1>1. Init => ClientInv
  BY ClientInvInit
<1>2. ClientInv /\ [Next]_vars => ClientInv'
  BY ClientInvStep
<1> QED
  BY <1>1, <1>2, PTL DEF Spec

\* Every variable keeps its type; in particular firstSubDone, whose second close
\* would panic, is closed at most once.
THEOREM TypeCorrect == Spec => []TypeOK
BY ClientInvHolds, PTL DEF ClientInv

\* A step of Next leaves the outcome alone once it is there, unless it is Restart,
\* and sets it to how the first Subscribe ended.
LEMMA OutcomeStep ==
  ASSUME ClientInv, ClientInv', [Next]_vars
  PROVE  /\ closes = 0 /\ closes' # 0 => firstSubErr' = IF confirmed' THEN "nil" ELSE "err"
         /\ closes # 0 => (closes' = closes /\ firstSubErr' = firstSubErr) \/ NewProcess
<1>1. CASE SubscribeOK
  BY <1>1, SignalMeaning DEF SubscribeOK, ClientInv, TypeOK
<1>2. CASE SubscribeErr
  <2>1. closes' = 1 /\ (closes = 0 => firstSubErr' = "err") /\ (closes = 1 => firstSubErr' = firstSubErr)
    BY <1>2, SignalMeaning DEF SubscribeErr, ClientInv
  <2>2. closes = 0 => ~confirmed'
    BY <1>2 DEF SubscribeErr, ClientInv, TypeOK, OutcomeMeaning
  <2> QED
    BY <2>1, <2>2 DEF ClientInv, TypeOK
<1>3. CASE Restart
  BY <1>3 DEF Restart, NewProcess
<1>4. CASE UNCHANGED <<closes, firstSubErr>>
  BY <1>4
<1>5. \/ SubscribeOK \/ SubscribeErr \/ Restart \/ UNCHANGED <<closes, firstSubErr>>
  BY DEF Next, Main, AwaitOK, AwaitErr, ConnectReturns, Manager, Callback, OnConnectionUp,
         Connected, ConnectionLost, OnConnectionDown, SessionExpires, subVars, vars
<1> QED
  BY <1>1, <1>2, <1>3, <1>4, <1>5

\* main leaves its wait for the outcome by the outcome alone.
LEMMA WaitStep ==
  ASSUME ClientInv, [Next]_vars, main = "awaitSub", main' # main
  PROVE  \/ NewProcess
         \/ main' = "running" /\ firstSubErr = "nil"
         \/ main' = "failed" /\ firstSubErr = "err"
<1>1. ConnectReturns \/ Restart
  BY DEF Next, Main, AwaitOK, AwaitErr, Manager, Callback, OnConnectionUp, SubscribeOK,
         SubscribeErr, Connected, ConnectionLost, OnConnectionDown, SessionExpires,
         mainVars, vars
<1>2. CASE ConnectReturns
  <2>1. firstSubErr \in {"nil", "err"}
    BY <1>2 DEF ConnectReturns, ClientInv, TypeOK, OutcomeMeaning
  <2> QED
    BY <1>2, <2>1 DEF ConnectReturns
<1>3. CASE Restart
  BY <1>3 DEF Restart, NewProcess
<1> QED
  BY <1>1, <1>2, <1>3

\* signalFirstSub and Connect: how the first Subscribe of a process ended is never
\* revised before the process ends, and is all that main goes by.
THEOREM OutcomeIsFinal == Spec => FirstOutcomeDecides
<1>1. ASSUME ClientInv, ClientInv', [Next]_vars
      PROVE  /\ closes = 0 /\ closes' # 0 => firstSubErr' = IF confirmed' THEN "nil" ELSE "err"
             /\ closes # 0 => (closes' = closes /\ firstSubErr' = firstSubErr) \/ NewProcess
             /\ main = "awaitSub" /\ main' # main =>
                  \/ NewProcess
                  \/ main' = "running" /\ firstSubErr = "nil"
                  \/ main' = "failed" /\ firstSubErr = "err"
  BY <1>1, OutcomeStep, WaitStep
<1> QED
  BY <1>1, ClientInvHolds, PTL DEF Spec, FirstOutcomeDecides

\* No process runs its operator loop before a subscription of its own has been
\* confirmed.
THEOREM ReadyIsSubscribed == Spec => []ReadyMeansSubscribed
<1>1. ClientInv => ReadyMeansSubscribed
  BY DEF ClientInv, OutcomeMeaning, ReadyMeansSubscribed
<1> QED
  BY <1>1, ClientInvHolds, PTL

\* onConnectionUp at every connection: a client that is connected and idle has its
\* subscription at the broker, or has logged that its Subscribe failed.
THEOREM DeafnessIsLogged == Spec => []NeverSilentlyDeaf
<1>1. Init => NeverSilentlyDeaf
  BY DEF Init, NeverSilentlyDeaf
<1>2. ASSUME NeverSilentlyDeaf, [Next]_vars PROVE NeverSilentlyDeaf'
  <2>1. CASE SubscribeOK \/ SubscribeErr
    BY <2>1 DEF SubscribeOK, SubscribeErr, NeverSilentlyDeaf
  <2>2. CASE OnConnectionUp \/ Connected \/ ConnectionLost \/ OnConnectionDown \/ Restart
    BY <2>2 DEF OnConnectionUp, Connected, ConnectionLost, OnConnectionDown, Restart,
                NeverSilentlyDeaf
  <2>3. CASE Alive /\ Main
    BY <1>2, <2>3 DEF Main, AwaitOK, AwaitErr, ConnectReturns, subVars, Alive, NeverSilentlyDeaf
  <2>4. CASE SessionExpires
    BY <1>2, <2>4 DEF SessionExpires, Online, mainVars, subVars, Alive, NeverSilentlyDeaf
  <2>5. CASE UNCHANGED vars
    BY <1>2, <2>5 DEF vars, mainVars, subVars, Alive, NeverSilentlyDeaf
  <2> QED
    BY <1>2, <2>1, <2>2, <2>3, <2>4, <2>5 DEF Next, Manager, Callback
<1> QED
  BY <1>1, <1>2, PTL DEF Spec
-----------------------------------------------------------------------------
(* The refinement of Session *)

\* What the mapping makes of the states and the steps of the client.
LEMMA Mapped ==
  ASSUME TypeOK
  PROVE  /\ ~everUp => Phase = "new"
         /\ everUp /\ closes = 0 => Phase = IF link = "lost" THEN "failed" ELSE "connected"
         /\ everUp /\ closes = 1 => Phase = IF firstSubErr = "nil" THEN "subscribed" ELSE "failed"
         /\ ~Alive => Connection = "gone"
         /\ Alive /\ link = "connecting" => Connection = "down"
         /\ Alive /\ link = "up" => Connection = IF callback = "none" THEN "settled" ELSE "up"
         /\ Alive /\ link = "lost" => Connection = IF cfg.autoReconnect THEN "down" ELSE "gone"
         /\ Alive /\ link = "gone" => Connection = "gone"
         /\ AtBroker!Online <=> Online
<1>1. closes \in {0, 1} /\ link \in {"connecting", "up", "lost", "gone"}
  BY DEF TypeOK
<1>2. /\ ~everUp => Phase = "new"
      /\ everUp /\ closes = 0 => Phase = IF link = "lost" THEN "failed" ELSE "connected"
      /\ everUp /\ closes = 1 => Phase = IF firstSubErr = "nil" THEN "subscribed" ELSE "failed"
  BY <1>1 DEF Phase
<1>3. /\ ~Alive => Connection = "gone"
      /\ Alive /\ link = "connecting" => Connection = "down"
      /\ Alive /\ link = "up" => Connection = IF callback = "none" THEN "settled" ELSE "up"
      /\ Alive /\ link = "lost" => Connection = IF cfg.autoReconnect THEN "down" ELSE "gone"
      /\ Alive /\ link = "gone" => Connection = "gone"
  BY <1>1 DEF Connection
<1>4. AtBroker!Online <=> Online
  BY <1>1, <1>3 DEF AtBroker!Online, Online
<1> QED
  BY <1>2, <1>3, <1>4

LEMMA MappedNext ==
  ASSUME TypeOK'
  PROVE  /\ ~everUp' => Phase' = "new"
         /\ everUp' /\ closes' = 0 => Phase' = IF link' = "lost" THEN "failed" ELSE "connected"
         /\ everUp' /\ closes' = 1 => Phase' = IF firstSubErr' = "nil" THEN "subscribed" ELSE "failed"
         /\ ~Alive' => Connection' = "gone"
         /\ Alive' /\ link' = "connecting" => Connection' = "down"
         /\ Alive' /\ link' = "up" => Connection' = IF callback' = "none" THEN "settled" ELSE "up"
         /\ Alive' /\ link' = "lost" => Connection' = IF cfg'.autoReconnect THEN "down" ELSE "gone"
         /\ Alive' /\ link' = "gone" => Connection' = "gone"
  BY DEF TypeOK, Phase, Connection

\* main's steps in Connect do nothing to the session, unless main exits because
\* the first Subscribe has failed.
LEMMA MainMaps ==
  ASSUME ClientInv, ClientInv', Alive, Main
  PROVE  [AtBroker!Next]_(AtBroker!vars)
<1>0. TypeOK /\ TypeOK' /\ UNCHANGED <<cfg, everUp, link, callback, closes, firstSubErr>>
  BY DEF ClientInv, Main, AwaitOK, AwaitErr, ConnectReturns, subVars
<1>1. Phase' = Phase
  BY <1>0 DEF Phase
<1>2. CASE session' = session /\ Alive'
  <2>1. Connection' = Connection
    BY <1>0, <1>2, Mapped, MappedNext DEF TypeOK
  <2> QED
    BY <1>0, <1>1, <1>2, <2>1 DEF AtBroker!vars, Held
<1>3. CASE AwaitErr
  <2>1. Connection = "gone" /\ Connection' = "gone" /\ session' = session
    BY <1>0, <1>3, Mapped, MappedNext DEF AwaitErr, Alive
  <2> QED
    BY <1>0, <1>1, <2>1 DEF AtBroker!vars, Held
<1>4. CASE ConnectReturns /\ main' = "failed"
  <2>1. Phase = "failed"
    <3>1. closes = 1 /\ everUp /\ firstSubErr # "nil"
      BY <1>4 DEF ConnectReturns, ClientInv, TypeOK, CallbackMeaning
    <3> QED
      BY <1>0, <3>1, Mapped
  <2>2. Connection' = "gone"
    BY <1>0, <1>4, MappedNext DEF Alive
  <2>3. session' = Left(session)
    BY <1>4 DEF ConnectReturns
  <2>4. Held' = AtBroker!Left(Held)
    BY <1>0, <2>3, Mapped DEF Held, Left, AtBroker!Left
  <2> QED
    BY <1>0, <1>1, <2>1, <2>2, <2>4 DEF AtBroker!StartupFails, AtBroker!Next
<1> QED
  BY <1>2, <1>3, <1>4 DEF Main, AwaitOK, ConnectReturns, Alive

\* onConnectionUp subscribes, at every connection; its failure after a loss that
\* Session has seen already adds nothing.
LEMMA CallbackMaps ==
  ASSUME ClientInv, ClientInv', Alive, Callback
  PROVE  [AtBroker!Next]_(AtBroker!vars)
<1>0. /\ TypeOK /\ TypeOK' /\ UNCHANGED <<cfg, main, everUp, link>> /\ Alive'
      /\ everUp /\ link \in {"up", "lost"} /\ callback # "none"
  BY DEF ClientInv, CallbackMeaning, Callback, OnConnectionUp, SubscribeOK, SubscribeErr, mainVars, Alive
<1>1. CASE OnConnectionUp
  <2>1. callback' # "none" /\ UNCHANGED <<closes, firstSubErr, session>>
    BY <1>1 DEF OnConnectionUp
  <2>2. Phase' = Phase /\ Connection' = Connection
    BY <1>0, <2>1, Mapped, MappedNext DEF TypeOK
  <2> QED
    BY <1>0, <2>1, <2>2 DEF AtBroker!vars, Held
<1>2. CASE SubscribeOK
  <2>1. /\ link = "up" /\ callback' = "none" /\ session' = "subscribed"
        /\ closes' = 1 /\ (closes = 0 => firstSubErr' = "nil") /\ (closes = 1 => firstSubErr' = firstSubErr)
    BY <1>2, SignalMeaning DEF SubscribeOK, ClientInv
  <2>2. Connection = "up" /\ Connection' = "settled"
    BY <1>0, <2>1, Mapped, MappedNext
  <2>3. AtBroker!First("subscribed")
    BY <1>0, <2>1, Mapped, MappedNext DEF AtBroker!First, TypeOK
  <2>4. Held' = Held \cup {"own"}
    BY <2>1 DEF Held
  <2> QED
    BY <1>0, <2>2, <2>3, <2>4 DEF AtBroker!SubscribeOK, AtBroker!Next
<1>3. CASE SubscribeErr
  <2>1. /\ callback' = "none" /\ (session' = session \/ (link = "up" /\ session' = "subscribed"))
        /\ closes' = 1 /\ (closes = 0 => firstSubErr' = "err") /\ (closes = 1 => firstSubErr' = firstSubErr)
    BY <1>3, SignalMeaning DEF SubscribeErr, ClientInv
  <2>2. CASE link = "up"
    <3>1. Connection = "up" /\ Connection' = "settled"
      BY <1>0, <2>1, <2>2, Mapped, MappedNext
    <3>2. AtBroker!First("failed")
      BY <1>0, <2>1, <2>2, Mapped, MappedNext DEF AtBroker!First, TypeOK
    <3>3. Held' \in {Held, Held \cup {"own"}}
      BY <2>1 DEF Held
    <3> QED
      BY <1>0, <3>1, <3>2, <3>3 DEF AtBroker!SubscribeErr, AtBroker!Next
  <2>3. CASE link = "lost"
    <3>1. Connection' = Connection
      BY <1>0, <2>3, Mapped, MappedNext
    <3>2. Phase' = Phase
      BY <1>0, <2>1, <2>3, Mapped, MappedNext DEF TypeOK
    <3> QED
      BY <1>0, <2>1, <2>3, <3>1, <3>2 DEF AtBroker!vars, Held
  <2> QED
    BY <1>0, <2>2, <2>3
<1> QED
  BY <1>1, <1>2, <1>3 DEF Callback

\* The manager's connections, their loss, and what comes from outside.
LEMMA ManagerMaps ==
  ASSUME ClientInv, ClientInv',
         \/ Alive /\ (Connected \/ ConnectionLost \/ OnConnectionDown)
         \/ SessionExpires \/ Restart
  PROVE  [AtBroker!Next]_(AtBroker!vars)
<1>0. TypeOK /\ TypeOK'
  BY DEF ClientInv
<1>1. CASE Alive /\ Connected
  <2>1. /\ UNCHANGED <<cfg, main, closes, firstSubErr>> /\ Alive /\ Alive'
        /\ link = "connecting" /\ link' = "up" /\ everUp' /\ callback' = "called"
        /\ session' = IF CleanStart \/ session = "none" THEN "plain" ELSE session
    BY <1>1 DEF Connected, subVars, Alive
  <2>2. Connection = "down" /\ Connection' = "up"
    BY <1>0, <2>1, Mapped, MappedNext
  <2>3. ~everUp => closes = 0
    BY DEF ClientInv, TypeOK, CallbackMeaning
  <2>4. everUp => closes = 1
    BY <2>1 DEF ClientInv, TypeOK, CallbackMeaning
  <2>5. Phase' = IF Phase = "new" THEN "connected" ELSE Phase
    BY <1>0, <2>1, <2>3, <2>4, Mapped, MappedNext
  <2>6. Phase = "new" <=> ~everUp
    BY <1>0, <2>1, <2>4, Mapped
  <2>7. Held' = IF Phase = "new" /\ ~cfg.persistent THEN {} ELSE Held
    BY <2>1, <2>6 DEF Held, CleanStart
  <2> QED
    BY <2>1, <2>2, <2>5, <2>7 DEF AtBroker!Connect, AtBroker!Next
<1>2. CASE Alive /\ ConnectionLost
  <2>1. /\ UNCHANGED <<cfg, main, everUp, callback, closes, firstSubErr>> /\ Alive /\ Alive'
        /\ link = "up" /\ link' = "lost" /\ everUp
        /\ session' = Left(session) \/ (callback = "subscribing" /\ session' = Left("subscribed"))
    BY <1>2 DEF ConnectionLost, mainVars, subVars, Alive, ClientInv, CallbackMeaning
  <2>2. AtBroker!Online /\ Connection' = IF cfg.autoReconnect THEN "down" ELSE "gone"
    BY <1>0, <2>1, Mapped, MappedNext DEF Online
  <2>3. Held' = AtBroker!Left(Held) \/ (callback = "subscribing" /\ Held' = AtBroker!Left(Held \cup {"own"}))
    BY <2>1, <2>2 DEF Held, Left, AtBroker!Left, Online
  <2>4. CASE callback = "none"
    <3>1. Connection = "settled" /\ closes = 1
      BY <1>0, <2>1, <2>4, Mapped DEF ClientInv, CallbackMeaning
    <3>2. Phase' = Phase
      BY <1>0, <2>1, <3>1, Mapped, MappedNext
    <3> QED
      BY <2>1, <2>2, <2>3, <2>4, <3>1, <3>2 DEF AtBroker!ConnectionLost, AtBroker!Next
  <2>5. CASE callback # "none"
    <3>1. Connection = "up"
      BY <1>0, <2>1, <2>5, Mapped
    <3>2. AtBroker!First("failed")
      BY <1>0, <2>1, Mapped, MappedNext DEF AtBroker!First, TypeOK
    <3> QED
      BY <2>1, <2>2, <2>3, <3>1, <3>2 DEF AtBroker!ConnectionLost, AtBroker!Next
  <2> QED
    BY <2>4, <2>5
<1>3. CASE Alive /\ OnConnectionDown
  <2>1. /\ UNCHANGED <<cfg, main, everUp, callback, closes, firstSubErr, session>> /\ Alive /\ Alive'
        /\ link = "lost" /\ callback = "none"
        /\ link' = IF cfg.autoReconnect THEN "connecting" ELSE "gone"
    BY <1>3 DEF OnConnectionDown, Reconnect, mainVars, subVars, Alive
  <2>2. Connection' = Connection
    BY <1>0, <2>1, Mapped, MappedNext
  <2>3. everUp /\ closes = 1
    BY <2>1 DEF ClientInv, CallbackMeaning
  <2>4. Phase' = Phase
    BY <1>0, <2>1, <2>3, Mapped, MappedNext
  <2> QED
    BY <2>1, <2>2, <2>4 DEF AtBroker!vars, Held
<1>4. CASE SessionExpires
  <2>1. /\ UNCHANGED <<cfg, main, everUp, link, callback, closes, firstSubErr>>
        /\ ~Online /\ session' = "none"
    BY <1>4 DEF SessionExpires, mainVars, subVars
  <2>2. Phase' = Phase /\ Connection' = Connection
    BY <2>1 DEF Phase, Connection, Alive
  <2>3. ~AtBroker!Online
    BY <1>0, <2>1, Mapped
  <2>4. Held' = {}
    BY <2>1 DEF Held
  <2> QED
    BY <2>1, <2>2, <2>3, <2>4 DEF AtBroker!SessionExpires, AtBroker!Next
<1>5. CASE Restart
  <2>1. /\ cfg' \in Config /\ ~everUp' /\ link' = "connecting" /\ Alive'
        /\ session' = Left(session)
    BY <1>5 DEF Restart, Alive
  <2>2. Phase' = "new" /\ Connection' = "down"
    BY <1>0, <2>1, MappedNext
  <2>3. Held' = AtBroker!Left(Held)
    BY <1>0, <2>1, Mapped DEF Held, Left, AtBroker!Left
  <2>4. cfg' \in AtBroker!Config
    BY <2>1 DEF Config, AtBroker!Config
  <2> QED
    BY <2>2, <2>3, <2>4 DEF AtBroker!Restart, AtBroker!Next
<1> QED
  BY <1>1, <1>2, <1>3, <1>4, <1>5

\* client.go of both programs: the goroutines, callbacks and timeouts of a client
\* do to its session at the broker what Session allows, in any order and over
\* any number of connections and processes.
THEOREM SessionIsKept == Spec => ImplementsSession
<1>1. Init => AtBroker!Init
  <2> SUFFICES ASSUME Init PROVE AtBroker!Init
    OBVIOUS
  <2>1. TypeOK /\ ~everUp /\ Alive /\ link = "connecting" /\ session = "none" /\ cfg \in Config
    BY ClientInvInit DEF Init, Alive, ClientInv
  <2> QED
    BY <2>1, Mapped DEF AtBroker!Init, Held, Config, AtBroker!Config
<1>2. ASSUME ClientInv, ClientInv', [Next]_vars PROVE [AtBroker!Next]_(AtBroker!vars)
  <2>1. CASE UNCHANGED vars
    BY <2>1
    DEF vars, mainVars, subVars, AtBroker!vars, Phase, Connection, Held, Alive
  <2> QED
    BY <1>2, <2>1, MainMaps, CallbackMaps, ManagerMaps DEF Next, Manager
<1> QED
  BY <1>1, <1>2, ClientInvHolds, PTL DEF Spec, ImplementsSession, AtBroker!Spec

\* AP is AtBroker again, with the theorems of SessionProofs.
AP == INSTANCE SessionProofs WITH
  Filter <- {"own"}, filter <- "own", stage <- Phase, link <- Connection, subs <- Held

LEMMA AtBrokerIsAP == AtBroker!Spec => AP!Spec
<1>1. AtBroker!Init => AP!Init
  BY DEF AtBroker!Init, AP!Init, AtBroker!Config, AP!Config
<1>2. [AtBroker!Next]_(AtBroker!vars) => [AP!Next]_(AP!vars)
  BY DEF AtBroker!Next, AP!Next, AtBroker!Connect, AP!Connect, AtBroker!SubscribeOK,
      AP!SubscribeOK, AtBroker!SubscribeErr, AP!SubscribeErr, AtBroker!ConnectionLost,
      AP!ConnectionLost, AtBroker!StartupFails, AP!StartupFails, AtBroker!SessionExpires,
      AP!SessionExpires, AtBroker!Restart, AP!Restart, AtBroker!First, AP!First,
      AtBroker!Left, AP!Left, AtBroker!Online, AP!Online, AtBroker!Config, AP!Config,
      AtBroker!vars, AP!vars
<1> QED
  BY <1>1, <1>2, PTL DEF AtBroker!Spec, AP!Spec

\* With a session expiry the client loses its subscription only while it is away,
\* and the outcome of its first Subscribe stands, whatever callbacks and
\* reconnects follow.
THEOREM SessionLasts == Spec => AtBroker!SubscriptionsLast /\ AtBroker!OutcomeStays
<1>1. AP!Spec => AP!SubscriptionsLast /\ AP!OutcomeStays
  BY AP!Lasting, AP!OutcomeFinal
<1>2. AP!SubscriptionsLast => AtBroker!SubscriptionsLast
  BY DEF AP!SubscriptionsLast, AtBroker!SubscriptionsLast, AP!Online, AtBroker!Online,
      AP!vars, AtBroker!vars
<1>3. AP!OutcomeStays => AtBroker!OutcomeStays
  BY DEF AP!OutcomeStays, AtBroker!OutcomeStays, AP!vars, AtBroker!vars
<1> QED
  BY <1>1, <1>2, <1>3, AtBrokerIsAP, SessionIsKept, PTL DEF ImplementsSession
=============================================================================
