-------------------------------- MODULE Session ------------------------------
(***************************************************************************)
(* The life of an MQTT client of the POC and of its session at the broker, *)
(* over connections and processes: what connecting, subscribing, losing    *)
(* the connection and exiting may do to the subscriptions that the session *)
(* holds.  Client has it in the steps of goroutines and callbacks,         *)
(* Delivery in those of connections and commands; both implement this.     *)
(*                                                                         *)
(* A session loses subscriptions only by a clean start, by the end of a    *)
(* connection that had no session expiry, or by expiring.                  *)
(***************************************************************************)
CONSTANT Filter   \* what a client can subscribe to

VARIABLES
  cfg,        \* AutoReconnect, PersistentSession, SessionExpirySec > 0
  filter,     \* what the process subscribes to, at every connection
  stage,      \* of the process: new, connected, then how its first Subscribe ended
  link,       \* its connection: down, up (Subscribe runs), settled, gone for good
  subs        \* filters the session holds

vars == <<cfg, filter, stage, link, subs>>

Config == [autoReconnect : BOOLEAN, persistent : BOOLEAN, expiry : BOOLEAN]
Online == link \in {"up", "settled"}
-----------------------------------------------------------------------------
Init ==
  /\ cfg \in Config
  /\ filter \in Filter
  /\ stage = "new"
  /\ link = "down"
  /\ subs = {}

\* Only the first connection of a process may start clean.
Connect ==
  /\ link = "down"
  /\ link' = "up"
  /\ stage' = IF stage = "new" THEN "connected" ELSE stage
  /\ subs' = IF stage = "new" /\ ~cfg.persistent THEN {} ELSE subs
  /\ UNCHANGED <<cfg, filter>>

\* The outcome of the first Subscribe of the process stays.
First(outcome) == stage' = IF stage = "connected" THEN outcome ELSE stage

SubscribeOK ==
  /\ link = "up"
  /\ link' = "settled"
  /\ subs' = subs \cup {filter}
  /\ First("subscribed")
  /\ UNCHANGED <<cfg, filter>>

\* The broker may have subscribed the client all the same.
SubscribeErr ==
  /\ link = "up"
  /\ link' = "settled"
  /\ subs' \in {subs, subs \cup {filter}}
  /\ First("failed")
  /\ UNCHANGED <<cfg, filter>>

\* What is left of the session, holding S, when a connection ends.
Left(S) == IF Online /\ ~cfg.expiry THEN {} ELSE S

\* A Subscribe that runs fails, and may have reached the broker.
ConnectionLost ==
  /\ Online
  /\ link' = IF cfg.autoReconnect THEN "down" ELSE "gone"
  /\ \/ link = "up" /\ First("failed") /\ subs' \in {Left(subs), Left(subs \cup {filter})}
     \/ link = "settled" /\ stage' = stage /\ subs' = Left(subs)
  /\ UNCHANGED <<cfg, filter>>

\* main exits because the first Subscribe failed.
StartupFails ==
  /\ stage = "failed"
  /\ link' = "gone"
  /\ subs' = Left(subs)
  /\ UNCHANGED <<cfg, filter, stage>>

SessionExpires ==
  /\ ~Online
  /\ subs' = {}
  /\ UNCHANGED <<cfg, filter, stage, link>>

\* The process ends, and another starts with answers of its own.
Restart ==
  /\ cfg' \in Config
  /\ filter' \in Filter
  /\ stage' = "new"
  /\ link' = "down"
  /\ subs' = Left(subs)

Next ==
  \/ Connect \/ SubscribeOK \/ SubscribeErr
  \/ ConnectionLost \/ StartupFails \/ SessionExpires \/ Restart

Spec == Init /\ [][Next]_vars
-----------------------------------------------------------------------------
\* A process that is past its first connection and asked for a session expiry
\* loses subscriptions in one way only, all of them at once while it is away;
\* neither a lost connection nor its own end, nor a Subscribe that fails, takes
\* one from its session.
SubscriptionsLast ==
  [][stage # "new" /\ cfg.expiry => subs \subseteq subs' \/ (~Online /\ subs' = {})]_vars

\* A process whose first Subscribe failed never recovers, and one whose first
\* Subscribe succeeded is never stopped for a later one, reconnects or not.
OutcomeStays ==
  [][(stage \in {"failed", "subscribed"}) => stage' \in {stage, "new"}]_vars
=============================================================================
