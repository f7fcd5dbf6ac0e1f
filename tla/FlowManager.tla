----------------------------- MODULE FlowManager ----------------------------
(***************************************************************************)
(* The flow manager: src/src/connectivity/flow.rs.  It observes the        *)
(* registration of one connection, subscribes to its reg-info and decides  *)
(* from the NOTIFYs whether the connection's own flow is bound.            *)
(*                                                                         *)
(* managed_flow, the (observed, subscription, flows) triple, is guarded by *)
(* one mutex.  A NOTIFY is applied contact by contact under the mutex; one *)
(* that shows no own flow releases it and takes it again to give up, and   *)
(* other handlers may run in between.  A connection stands for what        *)
(* connect() makes together: a transport, its address, a registration.     *)
(***************************************************************************)
EXTENDS Integers, FiniteSets

CONSTANTS
    Conns,      \* connections
    None,       \* the Option's None
    Elsewhere,  \* a contact URI that is no connection's own
    FlowIds,    \* contact ids of the reg-info document
    Records,    \* registration ids of the reg-info document
    Lifetimes   \* values of a contact's expires

ASSUME FlowAssumption ==
    /\ None \notin Conns
    /\ Elsewhere \notin Conns
    /\ Lifetimes \subseteq Nat

VARIABLES
    observed,       \* managed_flow.0: the observed connection
    subscription,   \* managed_flow.1: the connection subscribed on
    flows,          \* managed_flow.2: the FlowInfo table
    fresh,          \* connections that were never observed
    subscribers,    \* connections whose Subscriber may still report events
    authenticated,  \* connections whose registration has been authenticated
    processing,     \* the connection whose NOTIFY is applied, mutex held
    rejecting,      \* NOTIFYs that showed no own flow, mutex released
    report          \* the last state_callback: what it said, of which
                    \* connection, and on behalf of which subscriber

vars == <<observed, subscription, flows, fresh, subscribers, authenticated,
          processing, rejecting, report>>

FlowInfo == [id : FlowIds, uri : Conns \cup {Elsewhere}, expires : Nat,
             aors : SUBSET Records]
Verdicts == {"none", "bound", "lost"}
Report   == [verdict : Verdicts, conn : Conns \cup {None}, by : Conns \cup {None}]

TypeOK ==
    /\ observed \in Conns \cup {None}
    /\ subscription \in Conns \cup {None}
    /\ flows \in SUBSET FlowInfo
    /\ fresh \in SUBSET Conns
    /\ subscribers \in SUBSET Conns
    /\ authenticated \in SUBSET Conns
    /\ processing \in Conns \cup {None}
    /\ rejecting \in SUBSET Conns
    /\ report \in Report

Init ==
    /\ observed = None
    /\ subscription = None
    /\ flows = {}
    /\ fresh = Conns
    /\ subscribers = {}
    /\ authenticated = {}
    /\ processing = None
    /\ rejecting = {}
    /\ report = [verdict |-> "none", conn |-> None, by |-> None]

Unlocked == processing = None

-----------------------------------------------------------------------------
(* The engine's calls.                                                     *)

\* Faulty variant: a new observation keeps the flows of the old one.
ObserveRegistration_KeepsSubscription(c) ==
    /\ Unlocked
    /\ c \in fresh
    /\ observed' = c
    /\ fresh' = fresh \ {c}
    /\ UNCHANGED <<subscription, flows, subscribers, authenticated, processing,
                   rejecting, report>>

\* A new connection replaces the observed one and stops its subscription.
ObserveRegistration(c) ==
    /\ Unlocked
    /\ c \in fresh
    /\ observed' = c
    /\ fresh' = fresh \ {c}
    /\ subscription' = None
    /\ flows' = IF subscription = None THEN flows ELSE {}
    /\ UNCHANGED <<subscribers, authenticated, processing, rejecting, report>>

\* Only the observed connection can end the observation.
StopObservation(c) ==
    /\ Unlocked
    /\ observed = c
    /\ observed' = None
    /\ subscription' = None
    /\ flows' = {}
    /\ UNCHANGED <<fresh, subscribers, authenticated, processing, rejecting, report>>

\* A registration that is no longer the observed one is not subscribed to.
MaySubscribe(c) == observed \in {c, None}

OnRegistrationAuthenticated(c) ==
    /\ Unlocked
    /\ c \in Conns \ (fresh \cup authenticated)
    /\ authenticated' = authenticated \cup {c}
    /\ IF MaySubscribe(c)
         THEN /\ subscription' = c
              /\ subscribers' = subscribers \cup {c}
         ELSE UNCHANGED <<subscription, subscribers>>
    /\ UNCHANGED <<observed, flows, fresh, processing, rejecting, report>>

-----------------------------------------------------------------------------
(* The flow table.                                                         *)

\* Faulty variant: the expires is taken as it comes.
FlowExpires_Raw(expires) == expires

\* A contact without an expires, or with one that is no number, has 0.
FlowExpires(expires) == IF expires = None THEN 0 ELSE expires

\* create_aor_within_flow: the contact's flow gets the record; a known flow
\* keeps the URI and the expires it was created with.
CreateAor(id, record, uri, expires) ==
    flows' = IF \E f \in flows : f.id = id
             THEN {IF f.id = id THEN [f EXCEPT !.aors = @ \cup {record}] ELSE f : f \in flows}
             ELSE flows \cup {[id |-> id, uri |-> uri, expires |-> FlowExpires(expires), aors |-> {record}]}

UpdateAor(id, expires) ==
    flows' = {IF f.id = id THEN [f EXCEPT !.expires = FlowExpires(expires)] ELSE f : f \in flows}

\* Faulty variant: the first terminated record takes the flow with it.
RemoveAor_DropsFlow(id, record) ==
    flows' = {f \in flows : f.id # id}

\* remove_aor_within_flow: the flow goes with its last record.
RemoveAor(id, record) ==
    LET without == {IF f.id = id THEN [f EXCEPT !.aors = @ \ {record}] ELSE f : f \in flows}
    IN  flows' = {f \in without : f.aors # {}}

-----------------------------------------------------------------------------
(* The subscriber's events.                                                *)

Tell(verdict, conn, by) ==
    report' = [verdict |-> verdict, conn |-> conn, by |-> by]

\* The subscription is given up and the observed connection reported lost.
GiveUp(by) ==
    /\ subscription' = None
    /\ flows' = {}
    /\ IF observed = None THEN UNCHANGED report ELSE Tell("lost", observed, by)

\* A NOTIFY with a reg-info document takes the mutex.
NotifyBegins(s) ==
    /\ Unlocked
    /\ s \in subscribers \ rejecting
    /\ processing' = s
    /\ UNCHANGED <<observed, subscription, flows, fresh, subscribers, authenticated,
                   rejecting, report>>

\* A NOTIFY of another kind, or one that cannot be parsed, is rejected.
NotifyUnreadable(s) ==
    /\ Unlocked
    /\ s \in subscribers \ rejecting
    /\ rejecting' = rejecting \cup {s}
    /\ UNCHANGED <<observed, subscription, flows, fresh, subscribers, authenticated,
                   processing, report>>

\* One contact of the document.
Contact(s) ==
    /\ processing = s
    /\ \E id \in FlowIds, record \in Records :
         \/ \E uri \in Conns \cup {Elsewhere}, expires \in Lifetimes \cup {None} :
               CreateAor(id, record, uri, expires)
         \/ RemoveAor(id, record)
         \/ \E expires \in Lifetimes \cup {None} :
               (\E f \in flows : f.id = id) /\ UpdateAor(id, expires)
    /\ UNCHANGED <<observed, subscription, fresh, subscribers, authenticated,
                   processing, rejecting, report>>

\* A contact is refreshed that the table does not have.
UnknownContact(s) ==
    /\ processing = s
    /\ \E id \in FlowIds : \A f \in flows : f.id # id
    /\ GiveUp(s)
    /\ processing' = None
    /\ UNCHANGED <<observed, fresh, subscribers, authenticated, rejecting>>

OwnFlow == \E f \in flows : f.uri = observed /\ subscription # None

\* The document shows the own flow: the subscriber's connection is bound, and
\* its registration is told the expiration.
NotifyShowsFlow(s) ==
    /\ processing = s
    /\ OwnFlow
    /\ Tell("bound", s, s)
    /\ processing' = None
    /\ UNCHANGED <<observed, subscription, flows, fresh, subscribers, authenticated,
                   rejecting>>

\* It does not: the mutex is released before the subscription is given up.
NotifyShowsNone(s) ==
    /\ processing = s
    /\ ~OwnFlow
    /\ processing' = None
    /\ rejecting' = rejecting \cup {s}
    /\ UNCHANGED <<observed, subscription, flows, fresh, subscribers, authenticated,
                   report>>

\* Faulty variant: nothing is cleaned up when nothing is observed any more.
Reject_OnlyObserved(s) ==
    /\ Unlocked
    /\ s \in rejecting
    /\ rejecting' = rejecting \ {s}
    /\ IF observed = None THEN UNCHANGED <<subscription, flows, report>> ELSE GiveUp(s)
    /\ UNCHANGED <<observed, fresh, subscribers, authenticated, processing>>

Reject(s) ==
    /\ Unlocked
    /\ s \in rejecting
    /\ rejecting' = rejecting \ {s}
    /\ GiveUp(s)
    /\ UNCHANGED <<observed, fresh, subscribers, authenticated, processing>>

\* Terminated or SubscribeFailed: the subscriber's last event.
SubscriptionEnds(s) ==
    /\ Unlocked
    /\ s \in subscribers
    /\ subscribers' = subscribers \ {s}
    /\ GiveUp(s)
    /\ UNCHANGED <<observed, fresh, authenticated, processing, rejecting>>

-----------------------------------------------------------------------------
SubscriberEvent(s) ==
    \/ NotifyBegins(s)
    \/ NotifyUnreadable(s)
    \/ Contact(s)
    \/ UnknownContact(s)
    \/ NotifyShowsFlow(s)
    \/ NotifyShowsNone(s)
    \/ Reject(s)
    \/ SubscriptionEnds(s)

Next == \E c \in Conns :
    \/ ObserveRegistration(c)
    \/ StopObservation(c)
    \/ OnRegistrationAuthenticated(c)
    \/ SubscriberEvent(c)

Spec == Init /\ [][Next]_vars

-----------------------------------------------------------------------------
(* Properties.                                                             *)

\* The subscription in force never outlives its observation: while another
\* connection is observed, it is that connection's or there is none.
\* (flow.rs: observe_registration, stop_observation, and the pointer test of
\* on_registration_authenticated that a late 200 OK has to pass.)
SubscriptionOfObserved ==
    subscription # None /\ observed # None => subscription = observed

\* The table is empty while there is no subscription, except while the NOTIFY
\* of a dropped subscriber is being applied or is about to be rejected.
\* (flow.rs: a subscriber that is no longer managed_flow.1 still writes to
\* the table; the second critical section has to clean up after it.)
FlowsNeedSubscription ==
    flows # {} =>
        \/ subscription # None
        \/ processing # None
        \/ rejecting # {}

\* The table stays a map from contact ids to flows that have a record.
\* (flow.rs: create_aor_within_flow, remove_aor_within_flow.)
FlowTable ==
    \A f, g \in flows : f.aors # {} /\ (f.id = g.id => f = g)

\* Whatever NOTIFYs, rejections and ends of old and new subscribers come in
\* between, no flow is left in the table without a subscription, and each is
\* there once.  Whose NOTIFY brought a flow is not asked, as the code does not
\* ask it: under a new subscription, the NOTIFY of a dropped subscriber still
\* adds its flows to the table and removes others from it.
\* (flow.rs: the two critical sections of a NOTIFY.)
FlowsSound == FlowsNeedSubscription /\ FlowTable

\* The nested vectors implement the relation RegInfoBindings describes: a
\* contact, of whichever subscriber's NOTIFY, changes no pair but its own, and
\* the pairs are forgotten all together.
\* (flow.rs: create_aor_within_flow, remove_aor_within_flow, guard.2.clear.)
Reported == {b \in FlowIds \X Records : \E f \in flows : f.id = b[1] /\ b[2] \in f.aors}

Abstract == INSTANCE RegInfoBindings WITH bindings <- Reported

RegInfo == Abstract!Spec

\* "only one subscription is allowed so terminating one means terminating
\* all" (flow.rs:388): the end of a subscriber ends the subscription in force
\* only if it is that subscriber's.
EndsOwnSubscription ==
    [][\A s \in Conns :
         (s \in subscribers /\ s \notin subscribers' /\ subscription # None)
            => subscription = s]_vars
=============================================================================
