---------------------------- MODULE SessionProofs ----------------------------
(***************************************************************************)
(* What follows from Session alone, and so for whatever implements it:     *)
(* ClientProofs and DeliveryProofs take it over to Client and Delivery.    *)
(***************************************************************************)
EXTENDS Session, TLAPS

\* With a session expiry, subscriptions are lost only together, while the client
\* is away.
THEOREM Lasting == Spec => SubscriptionsLast
<1>1. ASSUME [Next]_vars, stage # "new", cfg.expiry
      PROVE  subs \subseteq subs' \/ (~Online /\ subs' = {})
  <2>1. Left(subs) = subs /\ Left(subs \cup {filter}) = subs \cup {filter}
    BY <1>1 DEF Left
  <2>2. CASE ConnectionLost \/ StartupFails \/ Restart
    BY <2>1, <2>2 DEF ConnectionLost, StartupFails, Restart
  <2>3. CASE Connect \/ SubscribeOK \/ SubscribeErr \/ SessionExpires \/ UNCHANGED vars
    BY <1>1, <2>3 DEF Connect, SubscribeOK, SubscribeErr, SessionExpires, vars
  <2> QED
    BY <1>1, <2>2, <2>3 DEF Next
<1> QED
  BY <1>1, PTL DEF Spec, SubscriptionsLast

\* The outcome of the first Subscribe of a process is never revised.
THEOREM OutcomeFinal == Spec => OutcomeStays
<1>1. ASSUME [Next]_vars, stage \in {"failed", "subscribed"} PROVE stage' \in {stage, "new"}
  BY <1>1
  DEF Next, Connect, SubscribeOK, SubscribeErr, ConnectionLost, StartupFails, SessionExpires,
      Restart, First, vars
<1> QED
  BY <1>1, PTL DEF Spec, OutcomeStays
=============================================================================
