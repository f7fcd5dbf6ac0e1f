------------------------------ MODULE RcsEngine -----------------------------
(***************************************************************************)
(* The engine's connection life cycle: connect, disconnect and the         *)
(* callbacks of rcs_engine.rs, composed with the registrations             *)
(* (registration.rs) and the flow manager (flow.rs) they call.             *)
(*                                                                         *)
(* Three kinds of mutex are involved, and callbacks run with mutexes held: *)
(* E guards the engine's state, F the flow manager's, R(c) registration    *)
(* c's.  A step is what a thread does from taking one mutex to wanting the *)
(* next; which mutexes are held follows from where the threads are.        *)
(* send_message holds E while it calls the session service, which          *)
(* CpmSessions models: one that returns changes nothing here, one that     *)
(* does not takes E with it.                                               *)
(*                                                                         *)
(* Every attempt of connect() that gets a stream makes one connection: its *)
(* transport, its registration and its reg-info subscriber share a name.   *)
(* Registration and FlowManager model the latter two in full; here a       *)
(* registration is what RegistrationLifecycle says, and a NOTIFY is its    *)
(* outcome.                                                                *)
(***************************************************************************)
EXTENDS Integers, FiniteSets

CONSTANTS
    Conns,  \* the connection attempts the host may make
    None    \* the Option's None

ASSUME EngineAssumption == None \notin Conns

VARIABLES
    connection,     \* RcsEngineConnectionState, E
    transport,      \* the transport CONNECTED carries, E
    status,         \* RcsEngineRegistrationState, E
    observed,       \* the flow manager's observed connection, F
    subscription,   \* the flow manager's subscription, F
    registration,   \* RegistrationState of each connection, R(c)
    inFlight,       \* the registration's request that is not answered yet
    subscribers,    \* connections whose Subscriber may still report events
    host,           \* where the host's call is
    task,           \* where each attempt's task is
    response,       \* where the handler of each REGISTER's outcome is
    exit,           \* where each transport's exit callback is
    notify          \* where the handler of each subscriber's event is

engineVars == <<connection, transport, status>>
flowVars   == <<observed, subscription>>
regVars    == <<registration, inFlight>>
vars == <<connection, transport, status, observed, subscription, registration,
          inFlight, subscribers, host, task, response, exit, notify>>

HostAt     == {"idle", "stopping", "deregistering", "lost"}
TaskAt     == {"new", "connecting", "ready", "observing", "registering", "failed", "done"}
ResponseAt == {"idle", "authenticating", "subscribing", "released", "unobserving"}
ExitAt     == {"none", "armed", "unobserving", "done"}
NotifyAt   == {"idle", "bound", "abandoned", "refreshing", "rejecting", "lost"}

TypeOK ==
    /\ connection \in {"IDLE", "CONNECTING", "CONNECTED"}
    /\ transport \in Conns \cup {None}
    /\ (connection = "CONNECTED") <=> (transport # None)
    /\ status \in {"NONE", "AUTHENTICATED", "MAINTAINED"}
    /\ observed \in Conns \cup {None}
    /\ subscription \in Conns \cup {None}
    /\ registration \in [Conns -> {"IDLE", "REQUESTING", "REGISTERED", "RELEASED"}]
    /\ inFlight \in [Conns -> {"none", "register", "deregister"}]
    /\ subscribers \in SUBSET Conns
    /\ host \in HostAt
    /\ task \in [Conns -> TaskAt]
    /\ response \in [Conns -> ResponseAt]
    /\ exit \in [Conns -> ExitAt]
    /\ notify \in [Conns -> NotifyAt]

Init ==
    /\ connection = "IDLE"
    /\ transport = None
    /\ status = "NONE"
    /\ observed = None
    /\ subscription = None
    /\ registration = [c \in Conns |-> "IDLE"]
    /\ inFlight = [c \in Conns |-> "none"]
    /\ subscribers = {}
    /\ host = "idle"
    /\ task = [c \in Conns |-> "new"]
    /\ response = [c \in Conns |-> "idle"]
    /\ exit = [c \in Conns |-> "none"]
    /\ notify = [c \in Conns |-> "idle"]

-----------------------------------------------------------------------------
(* The mutexes.                                                            *)

EHeld ==
    \/ host # "idle"
    \/ \E c \in Conns : \/ response[c] = "unobserving"
                        \/ exit[c] = "unobserving"
                        \/ notify[c] = "abandoned"

FHeld == \E c \in Conns : notify[c] \in {"bound", "abandoned", "refreshing", "lost"}

\* Faulty variant: a refused registration stays locked until it was told.
RHeld_UntilTold(c) ==
    response[c] \in {"authenticating", "subscribing", "released", "unobserving"}

RHeld(c) == response[c] \in {"authenticating", "subscribing"}

-----------------------------------------------------------------------------
(* What the critical sections do.                                          *)

\* Faulty variant: the transport outlives the connection.
Reset_KeepsTransport ==
    /\ connection' = "IDLE"
    /\ status' = "NONE"
    /\ UNCHANGED transport

\* The engine is disconnected and the host is told NONE.
Reset ==
    /\ connection' = "IDLE"
    /\ transport' = None
    /\ status' = "NONE"

\* stop_observation: only the observed connection's own call has an effect.
StopObservation(c) ==
    IF observed = c THEN observed' = None /\ subscription' = None
                    ELSE UNCHANGED flowVars

\* Faulty variant: a registration still being requested is given up as well.
Deregister_WhileRequesting(c) ==
    IF registration[c] \in {"REQUESTING", "REGISTERED"}
    THEN /\ registration' = [registration EXCEPT ![c] = "RELEASED"]
         /\ inFlight' = [inFlight EXCEPT ![c] = "deregister"]
    ELSE UNCHANGED regVars

Deregister(c) ==
    IF registration[c] = "REGISTERED"
    THEN /\ registration' = [registration EXCEPT ![c] = "RELEASED"]
         /\ inFlight' = [inFlight EXCEPT ![c] = "deregister"]
    ELSE UNCHANGED regVars

-----------------------------------------------------------------------------
(* The host.                                                               *)

Connect(c) ==
    /\ ~EHeld
    /\ connection = "IDLE"
    /\ task[c] = "new"
    /\ connection' = "CONNECTING"
    /\ task' = [task EXCEPT ![c] = "connecting"]
    /\ UNCHANGED <<transport, status, flowVars, regVars, subscribers, host, response,
                   exit, notify>>

\* disconnect(): a registered connection is first taken from the flow manager
\* and then de-registered, the engine's mutex held throughout.
Disconnect ==
    /\ ~EHeld
    /\ IF connection = "CONNECTED" /\ status # "NONE"
         THEN host' = "stopping" /\ UNCHANGED engineVars
         ELSE Reset /\ UNCHANGED host
    /\ UNCHANGED <<flowVars, regVars, subscribers, task, response, exit, notify>>

DisconnectStops ==
    /\ host = "stopping"
    /\ ~FHeld
    /\ StopObservation(transport)
    /\ IF observed = transport THEN host' = "deregistering" /\ UNCHANGED engineVars
                               ELSE host' = "idle" /\ Reset
    /\ UNCHANGED <<regVars, subscribers, task, response, exit, notify>>

DisconnectDeregisters ==
    /\ host = "deregistering"
    /\ ~RHeld(transport)
    /\ Deregister(transport)
    /\ host' = "idle"
    /\ Reset
    /\ UNCHANGED <<flowVars, subscribers, task, response, exit, notify>>

\* send_message() on a connection it lets messages through, to a group.  The
\* session service does not come back when it locks the list of invitations
\* it holds already, or it panics at a todo!() and E is poisoned.  Nobody has E
\* again either way: who waits for it stays, or dies leaving what he holds
\* poisoned, which comes to the same for everybody else.
SendMessageIsLost ==
    /\ ~EHeld
    /\ connection = "CONNECTED"
    /\ status = "MAINTAINED"
    /\ host' = "lost"
    /\ UNCHANGED <<engineVars, flowVars, regVars, subscribers, task, response, exit,
                   notify>>

-----------------------------------------------------------------------------
(* The task of one attempt.                                                *)

\* Faulty variant: the task ends without telling the engine.
AttemptFails_KeepsState(c) ==
    /\ task[c] = "connecting"
    /\ ~EHeld
    /\ task' = [task EXCEPT ![c] = "failed"]
    /\ UNCHANGED <<engineVars, flowVars, regVars, subscribers, host, response, exit,
                   notify>>

\* No address gave a stream.  The engine is IDLE, whatever it was before.
AttemptFails(c) ==
    /\ task[c] = "connecting"
    /\ ~EHeld
    /\ connection' = "IDLE"
    /\ transport' = None
    /\ task' = [task EXCEPT ![c] = "failed"]
    /\ UNCHANGED <<status, flowVars, regVars, subscribers, host, response, exit, notify>>

\* setup_sip_transport: from here on the exit callback may run.
StreamReady(c) ==
    /\ task[c] = "connecting"
    /\ task' = [task EXCEPT ![c] = "ready"]
    /\ exit' = [exit EXCEPT ![c] = "armed"]
    /\ UNCHANGED <<engineVars, flowVars, regVars, subscribers, host, response, notify>>

MayConnect == connection = "CONNECTING"

AttemptSucceeds(c) ==
    /\ task[c] = "ready"
    /\ ~EHeld
    /\ IF MayConnect
         THEN /\ connection' = "CONNECTED"
              /\ transport' = c
              /\ task' = [task EXCEPT ![c] = "observing"]
         ELSE /\ task' = [task EXCEPT ![c] = "done"]
              /\ UNCHANGED <<connection, transport>>
    /\ UNCHANGED <<status, flowVars, regVars, subscribers, host, response, exit, notify>>

Observe(c) ==
    /\ task[c] = "observing"
    /\ ~FHeld
    /\ observed' = c
    /\ subscription' = None
    /\ task' = [task EXCEPT ![c] = "registering"]
    /\ UNCHANGED <<engineVars, regVars, subscribers, host, response, exit, notify>>

StartRegister(c) ==
    /\ task[c] = "registering"
    /\ ~RHeld(c)
    /\ registration[c] = "IDLE"
    /\ registration' = [registration EXCEPT ![c] = "REQUESTING"]
    /\ inFlight' = [inFlight EXCEPT ![c] = "register"]
    /\ task' = [task EXCEPT ![c] = "done"]
    /\ UNCHANGED <<engineVars, flowVars, subscribers, host, response, exit, notify>>

-----------------------------------------------------------------------------
(* The outcome of a REGISTER.                                              *)

\* A 2xx binds the registration, which stays locked during its callbacks.
RegisterSucceeds(c) ==
    /\ response[c] = "idle"
    /\ inFlight[c] = "register"
    /\ registration[c] = "REQUESTING"
    /\ ~RHeld(c)
    /\ registration' = [registration EXCEPT ![c] = "REGISTERED"]
    /\ inFlight' = [inFlight EXCEPT ![c] = "none"]
    /\ response' = [response EXCEPT ![c] = "authenticating"]
    /\ UNCHANGED <<engineVars, flowVars, subscribers, host, task, exit, notify>>

\* RegistrationEvent::Registered, whichever connection the engine has.
OnRegistered(c) ==
    /\ response[c] = "authenticating"
    /\ ~EHeld
    /\ status' = "AUTHENTICATED"
    /\ response' = [response EXCEPT ![c] = "subscribing"]
    /\ UNCHANGED <<connection, transport, flowVars, regVars, subscribers, host, task,
                   exit, notify>>

MaySubscribe(c) == observed \in {c, None}

OnRegistrationAuthenticated(c) ==
    /\ response[c] = "subscribing"
    /\ ~FHeld
    /\ IF MaySubscribe(c)
         THEN subscription' = c /\ subscribers' = subscribers \cup {c}
         ELSE UNCHANGED <<subscription, subscribers>>
    /\ response' = [response EXCEPT ![c] = "idle"]
    /\ UNCHANGED <<engineVars, observed, regVars, host, task, exit, notify>>

\* Any other outcome: released, and the mutex with it.
RegisterFails(c) ==
    /\ response[c] = "idle"
    /\ inFlight[c] = "register"
    /\ ~RHeld(c)
    /\ registration' = [registration EXCEPT ![c] = "RELEASED"]
    /\ inFlight' = [inFlight EXCEPT ![c] = "none"]
    /\ response' = [response EXCEPT ![c] = "released"]
    /\ UNCHANGED <<engineVars, flowVars, subscribers, host, task, exit, notify>>

\* RegistrationEvent::Released, whichever connection the engine has.
OnReleased(c) ==
    /\ response[c] = "released"
    /\ ~EHeld
    /\ Reset
    /\ response' = [response EXCEPT ![c] = "unobserving"]
    /\ UNCHANGED <<flowVars, regVars, subscribers, host, task, exit, notify>>

OnReleasedStops(c) ==
    /\ response[c] = "unobserving"
    /\ ~FHeld
    /\ StopObservation(c)
    /\ response' = [response EXCEPT ![c] = "idle"]
    /\ UNCHANGED <<engineVars, regVars, subscribers, host, task, exit, notify>>

DeregisterEnds(c) ==
    /\ inFlight[c] = "deregister"
    /\ inFlight' = [inFlight EXCEPT ![c] = "none"]
    /\ UNCHANGED <<engineVars, flowVars, registration, subscribers, host, task,
                   response, exit, notify>>

-----------------------------------------------------------------------------
(* The end of a transport.                                                 *)

TransportExits(c) ==
    /\ exit[c] = "armed"
    /\ ~EHeld
    /\ Reset
    /\ exit' = [exit EXCEPT ![c] = "unobserving"]
    /\ UNCHANGED <<flowVars, regVars, subscribers, host, task, response, notify>>

ExitStops(c) ==
    /\ exit[c] = "unobserving"
    /\ ~FHeld
    /\ StopObservation(c)
    /\ exit' = [exit EXCEPT ![c] = "done"]
    /\ UNCHANGED <<engineVars, regVars, subscribers, host, task, response, notify>>

-----------------------------------------------------------------------------
(* The events of a subscriber, and the flow manager's callback.            *)

\* The subscription is dropped; an observed connection is to be reported lost.
GiveUp(s) ==
    /\ subscription' = None
    /\ notify' = [notify EXCEPT ![s] = IF observed = None THEN "idle" ELSE "lost"]

NotifyShowsFlow(s) ==
    /\ s \in subscribers
    /\ notify[s] = "idle"
    /\ ~FHeld
    /\ observed # None
    /\ subscription # None
    /\ notify' = [notify EXCEPT ![s] = "bound"]
    /\ UNCHANGED <<engineVars, flowVars, regVars, subscribers, host, task, response, exit>>

\* An unknown flow is refreshed.
NotifyUnknownContact(s) ==
    /\ s \in subscribers
    /\ notify[s] = "idle"
    /\ ~FHeld
    /\ GiveUp(s)
    /\ UNCHANGED <<engineVars, observed, regVars, subscribers, host, task, response, exit>>

\* No own flow, or no readable document: the mutex is free before it is taken
\* again to give up.
NotifyShowsNone(s) ==
    /\ s \in subscribers
    /\ notify[s] = "idle"
    /\ ~FHeld
    /\ notify' = [notify EXCEPT ![s] = "rejecting"]
    /\ UNCHANGED <<engineVars, flowVars, regVars, subscribers, host, task, response, exit>>

Reject(s) ==
    /\ notify[s] = "rejecting"
    /\ ~FHeld
    /\ GiveUp(s)
    /\ UNCHANGED <<engineVars, observed, regVars, subscribers, host, task, response, exit>>

SubscriptionEnds(s) ==
    /\ s \in subscribers
    /\ notify[s] = "idle"
    /\ ~FHeld
    /\ subscribers' = subscribers \ {s}
    /\ GiveUp(s)
    /\ UNCHANGED <<engineVars, observed, regVars, host, task, response, exit>>

\* Faulty variant: the callback does not compare transports.
IsCurrent_Any(c) == connection = "CONNECTED"

\* Faulty variant: the observed connection is taken for the engine's.
IsCurrent_Observed(c) == connection = "CONNECTED" /\ observed = c

IsCurrent(c) == connection = "CONNECTED" /\ transport = c

\* state_callback(true): the subscriber's connection is the engine's, or it is
\* abandoned and de-registered, both mutexes held.
ReportBound(s) ==
    /\ notify[s] = "bound"
    /\ ~EHeld
    /\ IF IsCurrent(s)
         THEN status' = "MAINTAINED" /\ notify' = [notify EXCEPT ![s] = "refreshing"]
         ELSE UNCHANGED status /\ notify' = [notify EXCEPT ![s] = "abandoned"]
    /\ UNCHANGED <<connection, transport, flowVars, regVars, subscribers, host, task,
                   response, exit>>

DeregisterAbandoned(s) ==
    /\ notify[s] = "abandoned"
    /\ ~RHeld(s)
    /\ Deregister(s)
    /\ notify' = [notify EXCEPT ![s] = "refreshing"]
    /\ UNCHANGED <<engineVars, flowVars, subscribers, host, task, response, exit>>

\* ExpirationRefreshed, the flow manager's mutex held.
ReportExpiration(s) ==
    /\ notify[s] = "refreshing"
    /\ ~RHeld(s)
    /\ notify' = [notify EXCEPT ![s] = "idle"]
    /\ UNCHANGED <<engineVars, flowVars, regVars, subscribers, host, task, response, exit>>

\* state_callback(false), of the connection that is observed now.
ReportLost(s) ==
    /\ notify[s] = "lost"
    /\ ~EHeld
    /\ IF IsCurrent(observed) THEN Reset ELSE UNCHANGED engineVars
    /\ notify' = [notify EXCEPT ![s] = "idle"]
    /\ UNCHANGED <<flowVars, regVars, subscribers, host, task, response, exit>>

-----------------------------------------------------------------------------
TaskStep(c) ==
    \/ AttemptFails(c) \/ StreamReady(c) \/ AttemptSucceeds(c)
    \/ Observe(c) \/ StartRegister(c)

ResponseStep(c) ==
    \/ RegisterSucceeds(c) \/ OnRegistered(c) \/ OnRegistrationAuthenticated(c)
    \/ RegisterFails(c) \/ OnReleased(c) \/ OnReleasedStops(c)
    \/ DeregisterEnds(c)

EventBegins(s) ==
    \/ NotifyShowsFlow(s) \/ NotifyUnknownContact(s) \/ NotifyShowsNone(s)
    \/ SubscriptionEnds(s)

EventStep(s) ==
    \/ Reject(s) \/ ReportBound(s) \/ DeregisterAbandoned(s)
    \/ ReportExpiration(s) \/ ReportLost(s)

HostStep == DisconnectStops \/ DisconnectDeregisters

Next ==
    \/ Disconnect
    \/ SendMessageIsLost
    \/ HostStep
    \/ \E c \in Conns :
         \/ Connect(c)
         \/ TaskStep(c)
         \/ ResponseStep(c)
         \/ TransportExits(c)
         \/ ExitStops(c)
         \/ EventBegins(c)
         \/ EventStep(c)

Spec == Init /\ [][Next]_vars

\* A thread that finds its next mutex free again and again gets it in the end,
\* an attempt ends (resolution and connection time out), and the transaction
\* layer ends every transaction.  Calls, events and exits are free.
Fairness ==
    /\ SF_vars(HostStep)
    /\ \A c \in Conns :
         /\ SF_vars(TaskStep(c))
         /\ SF_vars(ResponseStep(c))
         /\ SF_vars(ExitStops(c))
         /\ SF_vars(EventStep(c))

FairSpec == Spec /\ Fairness

-----------------------------------------------------------------------------
(* Properties.                                                             *)

SomeLockHeld == EHeld \/ FHeld \/ \E c \in Conns : RHeld(c)

\* Every thread that holds a mutex waits for one that is held, or is lost.
Blocked ==
    /\ host = "stopping" => FHeld
    /\ host = "deregistering" => RHeld(transport)
    /\ \A c \in Conns :
         /\ response[c] = "authenticating" => EHeld
         /\ response[c] \in {"subscribing", "unobserving"} => FHeld
         /\ exit[c] = "unobserving" => FHeld
         /\ notify[c] \in {"bound", "lost"} => EHeld
         /\ notify[c] \in {"abandoned", "refreshing"} => RHeld(c)

Deadlocked == SomeLockHeld /\ Blocked

\* The mutexes are deadlocked in three ways only: a subscriber's event, F
\* held, reports to an engine whose E is held; disconnect(), E held,
\* de-registers the connection whose 200 OK, R held, reports to the engine; or
\* a message is sent that never comes back with E, and the engine says
\* CONNECTED and MAINTAINED from then on.
\* (rcs_engine.rs: disconnect and the exit and Released callbacks take E then
\* F, the NOTIFY handler F then E; on_final_response takes R then E,
\* disconnect E then R; send_message calls the session service under E.
\* The 200 OK also takes R then F and a NOTIFY F then R, F, E and R, but never
\* for the same registration at once: it has no subscriber before its 200 OK
\* is dealt with, and no second 200 OK.)
DeadlocksKnown ==
    Deadlocked =>
        \/ \E c \in Conns : notify[c] \in {"bound", "lost"} /\ EHeld
        \/ host = "deregistering" /\ response[transport] = "authenticating"
        \/ host = "lost" /\ connection = "CONNECTED" /\ status = "MAINTAINED"

\* The subscription in force is never another connection's than the observed
\* one, though three threads write the pair and any of them may be late.
\* (flow.rs: observe_registration, stop_observation, the pointer test of
\* on_registration_authenticated.)
SubscriptionOfObserved ==
    subscription # None /\ observed # None => subscription = observed

\* While the engine lets messages through (send_message asks for CONNECTED and
\* MAINTAINED), the connection it sends them on is registered - unless an
\* attempt failed, whose task resets the connection and not the status.
\* (rcs_engine.rs: the flow manager's callback compares transports under E;
\* the end of the connect task does not.)
MaintainedIsRegistered ==
    connection = "CONNECTED" /\ status = "MAINTAINED" =>
        \/ registration[transport] = "REGISTERED"
        \/ \E c \in Conns : task[c] = "failed"

\* The registration of the connection in use is ended by disconnect() only,
\* never by a late event of a subscriber.
\* (rcs_engine.rs: the "already abandonned" branch of the callback.)
OnlyHostUnbindsCurrent ==
    [][\A c \in Conns :
         (/\ connection = "CONNECTED" /\ transport = c
          /\ registration[c] = "REGISTERED" /\ registration'[c] = "RELEASED")
            => host = "deregistering"]_vars

\* Each registration goes through the life cycle Registration implements,
\* whatever the other threads and the other attempts do.
Lifecycle(c) ==
    INSTANCE RegistrationLifecycle WITH state <- registration[c], inFlight <- inFlight[c]

EachLifecycle ==
    /\ \A c \in Conns : Lifecycle(c)!Init
    /\ [][\A c \in Conns : [Lifecycle(c)!Next]_(Lifecycle(c)!vars)]_regVars

\* An attempt is decided, whatever earlier attempts left behind: CONNECTING
\* is left, unless the mutexes are deadlocked.
\* (rcs_engine.rs: connect returns while the engine is CONNECTING, so a state
\* that stayed there would end connecting for good.)
AttemptResolves ==
    connection = "CONNECTING" ~> (connection # "CONNECTING" \/ Deadlocked)

=============================================================================
