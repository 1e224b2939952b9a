------------------------------- MODULE Client --------------------------------
(***************************************************************************)
(* mqttclient.Client of either program, from Connect to the end of the     *)
(* process: main's goroutine, which waits in Connect for the first         *)
(* subscription; autopaho's manager, which connects, calls onConnectionUp  *)
(* and OnConnectionDown, and reconnects; and what the broker remembers of  *)
(* the client's session.                                                   *)
(*                                                                         *)
(* The manager is external.  Its use in the code fixes what is assumed: one*)
(* goroutine makes both callbacks, so a lost connection is noticed only    *)
(* after a running onConnectionUp has returned; a connection attempt that  *)
(* fails is retried; only the first connection of a process asks for a     *)
(* clean start.                                                            *)
(***************************************************************************)
EXTENDS Naturals

VARIABLES
  cfg,          \* AutoReconnect, PersistentSession, SessionExpirySec > 0
  main,         \* where main's goroutine is
  link,         \* the manager: connecting, up, lost (unnoticed), gone; it ends with main
  everUp,       \* the channel AwaitConnection waits on has been closed
  callback,     \* onConnectionUp: none, called, subscribing
  firstUp,      \* Client.firstUp
  firstSubErr,  \* Client.firstSubErr, "unset" before the first signal
  closes,       \* how often firstSubDone has been closed: twice is a panic
  confirmed,    \* a SUBACK without error has been seen by this process
  lastSub,      \* what onConnectionUp has logged last: none, restored, failed
  session       \* the broker's session: none, plain, subscribed

mainVars == <<main, everUp>>
subVars == <<firstUp, firstSubErr, closes, confirmed, lastSub>>
vars == <<cfg, mainVars, link, callback, subVars, session>>

Config == [autoReconnect : BOOLEAN, persistent : BOOLEAN, expiry : BOOLEAN]
Alive == main # "failed"
Online == Alive /\ link = "up"

\* What is left of the session when its connection ends: nothing, with a session
\* expiry of 0.
Left(s) == IF Online /\ ~cfg.expiry THEN "none" ELSE s
-----------------------------------------------------------------------------
(* Process start: Connect has called autopaho.NewConnection. *)

Init ==
  /\ cfg \in Config
  /\ main = "await"
  /\ link = "connecting"
  /\ everUp = FALSE
  /\ callback = "none"
  /\ firstUp = FALSE
  /\ firstSubErr = "unset"
  /\ closes = 0
  /\ confirmed = FALSE
  /\ lastSub = "none"
  /\ session = "none"
-----------------------------------------------------------------------------
(* Connect, on main's goroutine *)

\* AwaitConnection returns nil at any time after the first connection.
AwaitOK ==
  /\ main = "await"
  /\ everUp
  /\ main' = "awaitSub"
  /\ UNCHANGED <<cfg, everUp, link, callback, subVars, session>>

\* AwaitConnection finds the manager gone: main exits.
AwaitErr ==
  /\ main = "await"
  /\ link = "gone"
  /\ main' = "failed"
  /\ UNCHANGED <<cfg, everUp, link, callback, subVars, session>>

\* firstSubDone is closed: Connect returns, and main goes on, or exits, which
\* ends the connection.
ConnectReturns ==
  /\ main = "awaitSub"
  /\ closes > 0
  /\ \/ firstSubErr = "nil" /\ main' = "running" /\ session' = session
     \/ firstSubErr # "nil" /\ main' = "failed" /\ session' = Left(session)
  /\ UNCHANGED <<cfg, everUp, link, callback, subVars>>
-----------------------------------------------------------------------------
(* signalFirstSub and onConnectionUp, on the manager's goroutine *)

\* Plausible bug: no sync.Once around the close.
BugSignalFirstSub(err) == firstSubErr' = err /\ closes' = closes + 1

\* Plausible bug: a success that comes after a failure takes its place.
BugSignalLateSuccess(err) ==
  /\ firstSubErr' = IF closes = 0 \/ err = "nil" THEN err ELSE firstSubErr
  /\ closes' = 1

\* Plausible bug: only success is signalled.
BugSignalSuccessOnly(err) ==
  IF closes = 0 /\ err = "nil"
  THEN firstSubErr' = "nil" /\ closes' = 1
  ELSE UNCHANGED <<firstSubErr, closes>>

SignalFirstSub(err) ==
  IF closes = 0
  THEN firstSubErr' = err /\ closes' = 1
  ELSE UNCHANGED <<firstSubErr, closes>>

\* Plausible bug: the subscription is left to the session after a reconnect.
BugOnConnectionUp ==
  /\ callback = "called"
  /\ firstUp' = TRUE
  /\ callback' = IF firstUp THEN "none" ELSE "subscribing"
  /\ UNCHANGED <<cfg, mainVars, link, firstSubErr, closes, confirmed, lastSub, session>>

\* onConnectionUp up to the call of Subscribe.
OnConnectionUp ==
  /\ callback = "called"
  /\ firstUp' = TRUE
  /\ callback' = "subscribing"
  /\ UNCHANGED <<cfg, mainVars, link, firstSubErr, closes, confirmed, lastSub, session>>

\* Subscribe returns without error.
SubscribeOK ==
  /\ callback = "subscribing"
  /\ link = "up"
  /\ callback' = "none"
  /\ session' = "subscribed"
  /\ confirmed' = TRUE
  /\ lastSub' = "restored"
  /\ SignalFirstSub("nil")
  /\ UNCHANGED <<cfg, mainVars, link, firstUp>>

\* Subscribe fails: refused, the connection is lost, or 15 seconds without an
\* answer, when the broker may have subscribed the client all the same.  The
\* connection, if it is up, stays up.
SubscribeErr ==
  /\ callback = "subscribing"
  /\ callback' = "none"
  /\ session' = session \/ (link = "up" /\ session' = "subscribed")
  /\ lastSub' = "failed"
  /\ SignalFirstSub("err")
  /\ UNCHANGED <<cfg, mainVars, link, firstUp, confirmed>>
-----------------------------------------------------------------------------
(* The manager and the broker *)

\* Plausible bug: every connection of the process starts clean.
BugCleanStart == ~cfg.persistent

\* CleanStartOnInitialConnection is the negation of PersistentSession.
CleanStart == ~cfg.persistent /\ ~everUp

\* A connection is established and onConnectionUp called.
Connected ==
  /\ link = "connecting"
  /\ link' = "up"
  /\ everUp' = TRUE
  /\ callback' = "called"
  /\ session' = IF CleanStart \/ session = "none" THEN "plain" ELSE session
  /\ UNCHANGED <<cfg, main, subVars>>

\* The connection is lost; a Subscribe that runs may have reached the broker.
ConnectionLost ==
  /\ link = "up"
  /\ link' = "lost"
  /\ \/ session' = Left(session)
     \/ callback = "subscribing" /\ session' = Left("subscribed")
  /\ UNCHANGED <<cfg, mainVars, callback, subVars>>

\* Plausible bug: the return value of OnConnectionDown is the wrong way round.
BugReconnect == ~cfg.autoReconnect

Reconnect == cfg.autoReconnect

\* The manager notices the loss and calls OnConnectionDown.
OnConnectionDown ==
  /\ link = "lost"
  /\ callback = "none"
  /\ link' = IF Reconnect THEN "connecting" ELSE "gone"
  /\ UNCHANGED <<cfg, mainVars, callback, subVars, session>>

\* The session expires while the client is away.
SessionExpires ==
  /\ ~Online
  /\ session # "none"
  /\ session' = "none"
  /\ UNCHANGED <<cfg, mainVars, link, callback, subVars>>

\* The process ends (Ctrl+C, a crash, a failed Connect) and another is started
\* under the same client id, perhaps with other answers.
Restart ==
  /\ cfg' \in Config
  /\ main' = "await"
  /\ link' = "connecting"
  /\ everUp' = FALSE
  /\ callback' = "none"
  /\ firstUp' = FALSE
  /\ firstSubErr' = "unset"
  /\ closes' = 0
  /\ confirmed' = FALSE
  /\ lastSub' = "none"
  /\ session' = Left(session)

Main == AwaitOK \/ AwaitErr \/ ConnectReturns
Callback == OnConnectionUp \/ SubscribeOK \/ SubscribeErr
Manager == Callback \/ Connected \/ ConnectionLost \/ OnConnectionDown

Next == (Alive /\ (Main \/ Manager)) \/ SessionExpires \/ Restart

Spec == Init /\ [][Next]_vars

\* Goroutines go on, and Subscribe has a timeout of 15 seconds.  Nothing is
\* assumed of the network: a connection attempt may fail for ever.
FairSpec ==
  Spec /\ WF_vars(Alive /\ Main) /\ WF_vars(Alive /\ Callback) /\ WF_vars(Alive /\ OnConnectionDown)
-----------------------------------------------------------------------------
(* Properties *)

\* Every variable holds one of its values; firstSubDone is closed at most once
\* (a second close would panic), although every reconnect signals again.
TypeOK ==
  /\ cfg \in Config
  /\ main \in {"await", "awaitSub", "running", "failed"}
  /\ link \in {"connecting", "up", "lost", "gone"}
  /\ callback \in {"none", "called", "subscribing"}
  /\ everUp \in BOOLEAN /\ firstUp \in BOOLEAN /\ confirmed \in BOOLEAN
  /\ firstSubErr \in {"unset", "nil", "err"}
  /\ lastSub \in {"none", "restored", "failed"}
  /\ closes \in {0, 1}
  /\ session \in {"none", "plain", "subscribed"}

\* The operator loop starts only after the broker has confirmed the client's
\* subscription: no ACK or command can be missed for want of it before.
ReadyMeansSubscribed == main = "running" => confirmed

\* What the outcome in firstSubErr stands for, as far as a state can tell.
OutcomeMeaning ==
  /\ (closes = 0) <=> (firstSubErr = "unset")
  /\ main = "running" => firstSubErr = "nil"
  /\ firstSubErr = "nil" => confirmed
  /\ confirmed => closes = 1
  /\ (main = "failed" /\ link # "gone") => firstSubErr = "err"

\* The manager's goroutine is inside onConnectionUp, or has finished the
\* first one of the process and signalled.
CallbackMeaning ==
  /\ callback # "none" => link \in {"up", "lost"} /\ everUp
  /\ main # "await" => everUp \/ link = "gone"
  /\ everUp /\ callback = "none" => closes = 1
  /\ link \in {"up", "lost", "gone"} => everUp
  /\ callback = "subscribing" \/ closes = 1 => firstUp
  /\ firstUp => everUp

\* The inductive invariant from which ClientProofs derives the others.
ClientInv == TypeOK /\ OutcomeMeaning /\ CallbackMeaning

\* The first Subscribe of a process decides its start-up.  How it ended is known
\* once and for all: whatever comes between that and main's look at it (a loss, a
\* reconnect, a Subscribe that ends otherwise), only a new process undoes it, and
\* main, waiting for it, goes on or exits by it alone.
NewProcess == main' = "await" /\ link' = "connecting" /\ closes' = 0

FirstOutcomeDecides ==
  [][/\ closes = 0 /\ closes' # 0 => firstSubErr' = IF confirmed' THEN "nil" ELSE "err"
     /\ closes # 0 => (closes' = closes /\ firstSubErr' = firstSubErr) \/ NewProcess
     /\ main = "awaitSub" /\ main' # main =>
          \/ NewProcess
          \/ main' = "running" /\ firstSubErr = "nil"
          \/ main' = "failed" /\ firstSubErr = "err"]_vars

\* A client that is connected and has nothing left to do gets what it subscribed
\* to, unless the last thing it logged is that its Subscribe failed: however the
\* session expired, was dropped or started clean before this connection, it is
\* never deaf with "SUBSCRIPTION RESTORED" on the screen.
NeverSilentlyDeaf ==
  Alive /\ link = "up" /\ callback = "none" => session = "subscribed" \/ lastSub = "failed"

\* The client's session, at the grain of connections.  Subscriptions are those to
\* its own filter.  The first Subscribe has failed as soon as its connection is
\* lost, before onConnectionUp gets to know it.
Phase ==
  CASE ~everUp -> "new"
    [] everUp /\ closes = 0 -> IF link = "lost" THEN "failed" ELSE "connected"
    [] everUp /\ closes # 0 -> IF firstSubErr = "nil" THEN "subscribed" ELSE "failed"

Connection ==
  CASE ~Alive -> "gone"
    [] Alive /\ link = "connecting" -> "down"
    [] Alive /\ link = "up" -> IF callback = "none" THEN "settled" ELSE "up"
    [] Alive /\ link = "lost" -> IF cfg.autoReconnect THEN "down" ELSE "gone"
    [] Alive /\ link = "gone" -> "gone"

Held == IF session = "subscribed" THEN {"own"} ELSE {}

AtBroker == INSTANCE Session WITH
  Filter <- {"own"}, filter <- "own", stage <- Phase, link <- Connection, subs <- Held

\* Goroutines, callbacks and the outcome of Connect together do to the session
\* what Session allows: only the first connection of a process may start clean,
\* only a Subscribe on an open connection adds to it, and whatever reconnects
\* come between a failed first Subscribe and the exit of main, that exit comes to
\* no process whose first Subscribe succeeded and whose connection stands.
ImplementsSession == AtBroker!Spec

\* Connect returns once the first connection is up, even if that connection is
\* lost in the middle of its Subscribe.
StartupDecides == main = "awaitSub" ~> main # "awaitSub"

\* With auto-reconnect, a lost connection is followed by a new attempt, unless
\* main exits because its first Subscribe was the victim.
ReconnectsIfAsked ==
  (cfg.autoReconnect /\ link = "lost") ~> (link = "connecting" \/ main = "failed")
=============================================================================
