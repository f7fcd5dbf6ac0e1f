-------------------------- MODULE RcsEngine_proofs --------------------------
(***************************************************************************)
(* What the checks of RcsEngine show on two and three connections, proved  *)
(* for any set of them.                                                    *)
(*                                                                         *)
(* None of the properties is inductive: each follows from IInv, which says *)
(* how far each connection's registration can be given where the threads   *)
(* are.  One lemma per action shows that the action keeps IInv; in it the  *)
(* conjuncts the action does not touch are one step.                       *)
(***************************************************************************)
EXTENDS RcsEngine, TLAPS

\* The host waits for a mutex inside disconnect() only while the engine, whose
\* E it holds, is CONNECTED, and loses E only to a message it let through.
HostPhase ==
    /\ host # "idle" => connection = "CONNECTED"
    /\ host = "lost" => status = "MAINTAINED"

\* Where the threads of a connection are says how far its registration is.
RegPhase == \A c \in Conns :
    /\ inFlight[c] = "register" <=> registration[c] = "REQUESTING"
    /\ inFlight[c] = "deregister" => registration[c] = "RELEASED"
    /\ response[c] \in {"authenticating", "subscribing"} => registration[c] = "REGISTERED"
    /\ task[c] \in {"new", "connecting", "ready", "observing", "registering"} =>
          registration[c] = "IDLE"

\* A subscriber reports on a connection that was registered and whose 200 OK is
\* dealt with; what it found not to be current stays so while E is held.
EventPhase == \A c \in Conns :
    /\ c \in subscribers \/ notify[c] # "idle" =>
          registration[c] \in {"REGISTERED", "RELEASED"} /\ response[c] = "idle"
    /\ notify[c] = "abandoned" => ~IsCurrent(c)

\* The current connection is released only on the way to telling the engine.
CurrentPhase == \A c \in Conns :
    IsCurrent(c) => registration[c] # "RELEASED" \/ response[c] = "released"

\* MAINTAINED is said of a registered current connection, or was left behind by
\* an attempt that failed.
MaintainedPhase ==
    status = "MAINTAINED" =>
        \/ connection = "CONNECTED" /\ registration[transport] = "REGISTERED"
        \/ \E c \in Conns : task[c] = "failed"

IInv ==
    /\ TypeOK
    /\ HostPhase
    /\ RegPhase
    /\ EventPhase
    /\ CurrentPhase
    /\ MaintainedPhase
    /\ SubscriptionOfObserved

-----------------------------------------------------------------------------
(* Every action keeps the invariant.                                       *)

\* A new attempt finds no registration and no transport of its own.
LEMMA ConnectKeeps == ASSUME IInv, NEW c \in Conns, Connect(c) PROVE IInv'
  <1> USE EngineAssumption DEF IInv
  <1>1. TypeOK'
    BY DEF Connect, flowVars, regVars, TaskAt, TypeOK
  <1>2. HostPhase'
    BY DEF Connect, HostPhase
  <1>3. RegPhase'
    BY DEF Connect, regVars, RegPhase
  <1>4. EventPhase'
    BY DEF Connect, regVars, IsCurrent, EventPhase
  <1>5. CurrentPhase'
    BY DEF Connect, IsCurrent, CurrentPhase
  <1>6. MaintainedPhase'
    BY DEF Connect, MaintainedPhase
  <1>7. SubscriptionOfObserved'
    BY DEF Connect, flowVars, SubscriptionOfObserved
  <1> QED
    BY <1>1, <1>2, <1>3, <1>4, <1>5, <1>6, <1>7

\* disconnect() resets the engine, or waits with E for what follows.
LEMMA DisconnectKeeps == ASSUME IInv, Disconnect PROVE IInv'
  <1> USE EngineAssumption DEF IInv
  <1>1. TypeOK'
    BY DEF Disconnect, Reset, engineVars, flowVars, regVars, HostAt, TypeOK
  <1>2. HostPhase'
    BY DEF Disconnect, engineVars, EHeld, HostPhase
  <1>3. EventPhase'
    BY DEF Disconnect, Reset, engineVars, regVars, IsCurrent, EventPhase
  <1>4. CurrentPhase'
    BY DEF Disconnect, Reset, engineVars, regVars, IsCurrent, CurrentPhase
  <1>5. MaintainedPhase'
    BY DEF Disconnect, Reset, engineVars, regVars, MaintainedPhase
  <1>6. (RegPhase /\ SubscriptionOfObserved)'
    BY DEF Disconnect, flowVars, regVars, RegPhase, SubscriptionOfObserved
  <1> QED
    BY <1>1, <1>2, <1>3, <1>4, <1>5, <1>6

\* A message that is lost stops the engine where it was.
LEMMA SendMessageKeeps == ASSUME IInv, SendMessageIsLost PROVE IInv'
  <1> USE EngineAssumption DEF IInv
  <1>1. TypeOK'
    BY DEF SendMessageIsLost, engineVars, flowVars, regVars, HostAt, TypeOK
  <1>2. HostPhase'
    BY DEF SendMessageIsLost, engineVars, HostPhase
  <1>3. RegPhase'
    BY DEF SendMessageIsLost, regVars, RegPhase
  <1>4. (EventPhase /\ CurrentPhase /\ MaintainedPhase)'
    BY DEF SendMessageIsLost, engineVars, regVars, IsCurrent, EventPhase, CurrentPhase,
       MaintainedPhase
  <1>5. SubscriptionOfObserved'
    BY DEF SendMessageIsLost, flowVars, SubscriptionOfObserved
  <1> QED
    BY <1>1, <1>2, <1>3, <1>4, <1>5

\* With E held nobody else moves the engine: the transport is still current.
LEMMA DisconnectStopsKeeps == ASSUME IInv, DisconnectStops PROVE IInv'
  <1> USE EngineAssumption DEF IInv
  <1>1. TypeOK'
    BY DEF DisconnectStops, StopObservation, Reset, engineVars, flowVars, regVars,
       HostAt, TypeOK
  <1>2. HostPhase'
    BY DEF DisconnectStops, engineVars, HostPhase
  <1>3. EventPhase'
    BY DEF DisconnectStops, Reset, engineVars, regVars, IsCurrent, EventPhase
  <1>4. CurrentPhase'
    BY DEF DisconnectStops, Reset, engineVars, regVars, IsCurrent, CurrentPhase
  <1>5. MaintainedPhase'
    BY DEF DisconnectStops, Reset, engineVars, regVars, MaintainedPhase
  <1>6. SubscriptionOfObserved'
    BY DEF DisconnectStops, StopObservation, flowVars, SubscriptionOfObserved
  <1>7. RegPhase'
    BY DEF DisconnectStops, regVars, RegPhase
  <1> QED
    BY <1>1, <1>2, <1>3, <1>4, <1>5, <1>6, <1>7

\* The registration is released, but its connection is no longer current.
LEMMA DisconnectDeregistersKeeps == ASSUME IInv, DisconnectDeregisters PROVE IInv'
  <1> USE EngineAssumption DEF IInv
  <1>1. TypeOK'
    BY DEF DisconnectDeregisters, Deregister, Reset, flowVars, regVars, HostAt, TypeOK
  <1>2. HostPhase'
    BY DEF DisconnectDeregisters, HostPhase
  <1>3. RegPhase'
    BY DEF DisconnectDeregisters, Deregister, regVars, RHeld, TypeOK, RegPhase
  <1>4. EventPhase'
    BY DEF DisconnectDeregisters, Deregister, Reset, regVars, IsCurrent, TypeOK,
       EventPhase
  <1>5. CurrentPhase'
    BY DEF DisconnectDeregisters, Reset, IsCurrent, CurrentPhase
  <1>6. MaintainedPhase'
    BY DEF DisconnectDeregisters, Reset, MaintainedPhase
  <1>7. SubscriptionOfObserved'
    BY DEF DisconnectDeregisters, flowVars, SubscriptionOfObserved
  <1> QED
    BY <1>1, <1>2, <1>3, <1>4, <1>5, <1>6, <1>7

\* A failing task leaves the status behind: MaintainedPhase counts it.
LEMMA AttemptFailsKeeps == ASSUME IInv, NEW c \in Conns, AttemptFails(c) PROVE IInv'
  <1> USE EngineAssumption DEF IInv
  <1>1. TypeOK'
    BY DEF AttemptFails, flowVars, regVars, TaskAt, TypeOK
  <1>2. HostPhase'
    BY DEF AttemptFails, EHeld, HostPhase
  <1>3. RegPhase'
    BY DEF AttemptFails, regVars, RegPhase
  <1>4. EventPhase'
    BY DEF AttemptFails, regVars, IsCurrent, EventPhase
  <1>5. CurrentPhase'
    BY DEF AttemptFails, IsCurrent, CurrentPhase
  <1>6. MaintainedPhase'
    BY DEF AttemptFails, TypeOK, MaintainedPhase
  <1>7. SubscriptionOfObserved'
    BY DEF AttemptFails, flowVars, SubscriptionOfObserved
  <1> QED
    BY <1>1, <1>2, <1>3, <1>4, <1>5, <1>6, <1>7

\* A stream changes the exit callback only.
LEMMA StreamReadyKeeps == ASSUME IInv, NEW c \in Conns, StreamReady(c) PROVE IInv'
  <1> USE EngineAssumption DEF IInv
  <1>1. TypeOK'
    BY DEF StreamReady, engineVars, flowVars, regVars, TaskAt, ExitAt, TypeOK
  <1>2. RegPhase'
    BY DEF StreamReady, regVars, RegPhase
  <1>3. MaintainedPhase'
    BY DEF StreamReady, engineVars, regVars, MaintainedPhase
  <1>4. (HostPhase /\ EventPhase /\ CurrentPhase /\ SubscriptionOfObserved)'
    BY DEF StreamReady, engineVars, flowVars, regVars, IsCurrent, HostPhase,
       EventPhase, CurrentPhase, SubscriptionOfObserved
  <1> QED
    BY <1>1, <1>2, <1>3, <1>4

\* A new current connection has an IDLE registration.
LEMMA AttemptSucceedsKeeps == ASSUME IInv, NEW c \in Conns, AttemptSucceeds(c) PROVE IInv'
  <1> USE EngineAssumption DEF IInv
  <1>1. TypeOK'
    BY DEF AttemptSucceeds, flowVars, regVars, TaskAt, TypeOK
  <1>2. HostPhase'
    BY DEF AttemptSucceeds, HostPhase
  <1>3. RegPhase'
    BY DEF AttemptSucceeds, regVars, TypeOK, RegPhase
  <1>4. EventPhase'
    BY DEF AttemptSucceeds, regVars, IsCurrent, RegPhase, EventPhase
  <1>5. CurrentPhase'
    BY DEF AttemptSucceeds, regVars, IsCurrent, RegPhase, CurrentPhase
  <1>6. MaintainedPhase'
    BY DEF AttemptSucceeds, MayConnect, regVars, TypeOK, MaintainedPhase
  <1>7. SubscriptionOfObserved'
    BY DEF AttemptSucceeds, flowVars, SubscriptionOfObserved
  <1> QED
    BY <1>1, <1>2, <1>3, <1>4, <1>5, <1>6, <1>7

\* Observing drops the other connection's subscription.
LEMMA ObserveKeeps == ASSUME IInv, NEW c \in Conns, Observe(c) PROVE IInv'
  <1> USE EngineAssumption DEF IInv
  <1>1. TypeOK'
    BY DEF Observe, engineVars, regVars, TaskAt, TypeOK
  <1>2. RegPhase'
    BY DEF Observe, regVars, RegPhase
  <1>3. MaintainedPhase'
    BY DEF Observe, engineVars, regVars, MaintainedPhase
  <1>4. SubscriptionOfObserved'
    BY DEF Observe, SubscriptionOfObserved
  <1>5. (HostPhase /\ EventPhase /\ CurrentPhase)'
    BY DEF Observe, engineVars, regVars, IsCurrent, HostPhase, EventPhase,
       CurrentPhase
  <1> QED
    BY <1>1, <1>2, <1>3, <1>4, <1>5

\* The REGISTER is the first of its registration.
LEMMA StartRegisterKeeps == ASSUME IInv, NEW c \in Conns, StartRegister(c) PROVE IInv'
  <1> USE EngineAssumption DEF IInv
  <1>1. TypeOK'
    BY DEF StartRegister, engineVars, flowVars, TaskAt, TypeOK
  <1>2. RegPhase'
    BY DEF StartRegister, TypeOK, RegPhase
  <1>3. EventPhase'
    BY DEF StartRegister, engineVars, IsCurrent, EventPhase
  <1>4. CurrentPhase'
    BY DEF StartRegister, engineVars, IsCurrent, CurrentPhase
  <1>5. MaintainedPhase'
    BY DEF StartRegister, engineVars, MaintainedPhase
  <1>6. (HostPhase /\ SubscriptionOfObserved)'
    BY DEF StartRegister, engineVars, flowVars, HostPhase, SubscriptionOfObserved
  <1> QED
    BY <1>1, <1>2, <1>3, <1>4, <1>5, <1>6

\* Only a REQUESTING registration has a REGISTER to be answered.
LEMMA RegisterSucceedsKeeps == ASSUME IInv, NEW c \in Conns, RegisterSucceeds(c) PROVE IInv'
  <1> USE EngineAssumption DEF IInv
  <1>1. TypeOK'
    BY DEF RegisterSucceeds, engineVars, flowVars, ResponseAt, TypeOK
  <1>2. RegPhase'
    BY DEF RegisterSucceeds, TypeOK, RegPhase
  <1>3. EventPhase'
    BY DEF RegisterSucceeds, engineVars, IsCurrent, EventPhase
  <1>4. CurrentPhase'
    BY DEF RegisterSucceeds, engineVars, IsCurrent, CurrentPhase
  <1>5. MaintainedPhase'
    BY DEF RegisterSucceeds, engineVars, MaintainedPhase
  <1>6. (HostPhase /\ SubscriptionOfObserved)'
    BY DEF RegisterSucceeds, engineVars, flowVars, HostPhase, SubscriptionOfObserved
  <1> QED
    BY <1>1, <1>2, <1>3, <1>4, <1>5, <1>6

\* AUTHENTICATED replaces MAINTAINED, whichever connection is current.
LEMMA OnRegisteredKeeps == ASSUME IInv, NEW c \in Conns, OnRegistered(c) PROVE IInv'
  <1> USE EngineAssumption DEF IInv
  <1>1. TypeOK'
    BY DEF OnRegistered, flowVars, regVars, ResponseAt, TypeOK
  <1>2. RegPhase'
    BY DEF OnRegistered, regVars, RegPhase
  <1>3. EventPhase'
    BY DEF OnRegistered, regVars, IsCurrent, EventPhase
  <1>4. CurrentPhase'
    BY DEF OnRegistered, regVars, IsCurrent, CurrentPhase
  <1>5. MaintainedPhase'
    BY DEF OnRegistered, MaintainedPhase
  <1>6. (HostPhase /\ SubscriptionOfObserved)'
    BY DEF OnRegistered, EHeld, flowVars, HostPhase, SubscriptionOfObserved
  <1> QED
    BY <1>1, <1>2, <1>3, <1>4, <1>5, <1>6

\* The pointer comparison keeps the subscription the observed connection's.
LEMMA OnAuthenticatedKeeps == ASSUME IInv, NEW c \in Conns, OnRegistrationAuthenticated(c) PROVE IInv'
  <1> USE EngineAssumption DEF IInv
  <1>1. TypeOK'
    BY DEF OnRegistrationAuthenticated, engineVars, regVars, ResponseAt, TypeOK
  <1>2. RegPhase'
    BY DEF OnRegistrationAuthenticated, regVars, RegPhase
  <1>3. EventPhase'
    BY DEF OnRegistrationAuthenticated, engineVars, regVars, IsCurrent, TypeOK,
       RegPhase, EventPhase
  <1>4. CurrentPhase'
    BY DEF OnRegistrationAuthenticated, engineVars, regVars, IsCurrent, CurrentPhase
  <1>5. SubscriptionOfObserved'
    BY DEF OnRegistrationAuthenticated, MaySubscribe, SubscriptionOfObserved
  <1>6. (HostPhase /\ MaintainedPhase)'
    BY DEF OnRegistrationAuthenticated, engineVars, regVars, HostPhase,
       MaintainedPhase
  <1> QED
    BY <1>1, <1>2, <1>3, <1>4, <1>5, <1>6

\* The current connection may be released until the engine is told.
LEMMA RegisterFailsKeeps == ASSUME IInv, NEW c \in Conns, RegisterFails(c) PROVE IInv'
  <1> USE EngineAssumption DEF IInv
  <1>1. TypeOK'
    BY DEF RegisterFails, engineVars, flowVars, ResponseAt, TypeOK
  <1>2. RegPhase'
    BY DEF RegisterFails, TypeOK, RegPhase
  <1>3. EventPhase'
    BY DEF RegisterFails, engineVars, IsCurrent, RegPhase, EventPhase
  <1>4. CurrentPhase'
    BY DEF RegisterFails, engineVars, IsCurrent, TypeOK, CurrentPhase
  <1>5. MaintainedPhase'
    BY DEF RegisterFails, engineVars, RegPhase, MaintainedPhase
  <1>6. (HostPhase /\ SubscriptionOfObserved)'
    BY DEF RegisterFails, engineVars, flowVars, HostPhase, SubscriptionOfObserved
  <1> QED
    BY <1>1, <1>2, <1>3, <1>4, <1>5, <1>6

\* The engine is told: nothing is current any more.
LEMMA OnReleasedKeeps == ASSUME IInv, NEW c \in Conns, OnReleased(c) PROVE IInv'
  <1> USE EngineAssumption DEF IInv
  <1>1. TypeOK'
    BY DEF OnReleased, Reset, flowVars, regVars, ResponseAt, TypeOK
  <1>2. HostPhase'
    BY DEF OnReleased, EHeld, HostPhase
  <1>3. RegPhase'
    BY DEF OnReleased, regVars, RegPhase
  <1>4. EventPhase'
    BY DEF OnReleased, Reset, regVars, IsCurrent, EventPhase
  <1>5. CurrentPhase'
    BY DEF OnReleased, Reset, IsCurrent, CurrentPhase
  <1>6. MaintainedPhase'
    BY DEF OnReleased, Reset, MaintainedPhase
  <1>7. SubscriptionOfObserved'
    BY DEF OnReleased, flowVars, SubscriptionOfObserved
  <1> QED
    BY <1>1, <1>2, <1>3, <1>4, <1>5, <1>6, <1>7

\* A released connection is no longer observed.
LEMMA OnReleasedStopsKeeps == ASSUME IInv, NEW c \in Conns, OnReleasedStops(c) PROVE IInv'
  <1> USE EngineAssumption DEF IInv
  <1>1. TypeOK'
    BY DEF OnReleasedStops, StopObservation, engineVars, flowVars, regVars,
       ResponseAt, TypeOK
  <1>2. RegPhase'
    BY DEF OnReleasedStops, regVars, RegPhase
  <1>3. EventPhase'
    BY DEF OnReleasedStops, engineVars, regVars, IsCurrent, EventPhase
  <1>4. CurrentPhase'
    BY DEF OnReleasedStops, engineVars, regVars, IsCurrent, CurrentPhase
  <1>5. SubscriptionOfObserved'
    BY DEF OnReleasedStops, StopObservation, flowVars, SubscriptionOfObserved
  <1>6. (HostPhase /\ MaintainedPhase)'
    BY DEF OnReleasedStops, engineVars, regVars, HostPhase, MaintainedPhase
  <1> QED
    BY <1>1, <1>2, <1>3, <1>4, <1>5, <1>6

\* The answer to a de-REGISTER changes nothing else.
LEMMA DeregisterEndsKeeps == ASSUME IInv, NEW c \in Conns, DeregisterEnds(c) PROVE IInv'
  <1> USE EngineAssumption DEF IInv
  <1>1. TypeOK'
    BY DEF DeregisterEnds, engineVars, flowVars, TypeOK
  <1>2. RegPhase'
    BY DEF DeregisterEnds, RegPhase
  <1>3. (HostPhase /\ EventPhase /\ CurrentPhase
        /\ MaintainedPhase /\ SubscriptionOfObserved)'
    BY DEF DeregisterEnds, engineVars, flowVars, IsCurrent, HostPhase, EventPhase,
       CurrentPhase, MaintainedPhase, SubscriptionOfObserved
  <1> QED
    BY <1>1, <1>2, <1>3

\* The end of any transport resets the engine.
LEMMA TransportExitsKeeps == ASSUME IInv, NEW c \in Conns, TransportExits(c) PROVE IInv'
  <1> USE EngineAssumption DEF IInv
  <1>1. TypeOK'
    BY DEF TransportExits, Reset, flowVars, regVars, ExitAt, TypeOK
  <1>2. HostPhase'
    BY DEF TransportExits, EHeld, HostPhase
  <1>3. EventPhase'
    BY DEF TransportExits, Reset, regVars, IsCurrent, EventPhase
  <1>4. CurrentPhase'
    BY DEF TransportExits, Reset, IsCurrent, CurrentPhase
  <1>5. MaintainedPhase'
    BY DEF TransportExits, Reset, MaintainedPhase
  <1>6. (RegPhase /\ SubscriptionOfObserved)'
    BY DEF TransportExits, flowVars, regVars, RegPhase, SubscriptionOfObserved
  <1> QED
    BY <1>1, <1>2, <1>3, <1>4, <1>5, <1>6

\* Its connection is no longer observed.
LEMMA ExitStopsKeeps == ASSUME IInv, NEW c \in Conns, ExitStops(c) PROVE IInv'
  <1> USE EngineAssumption DEF IInv
  <1>1. TypeOK'
    BY DEF ExitStops, StopObservation, engineVars, flowVars, regVars, ExitAt, TypeOK
  <1>2. SubscriptionOfObserved'
    BY DEF ExitStops, StopObservation, flowVars, SubscriptionOfObserved
  <1>3. (HostPhase /\ RegPhase /\ EventPhase /\ CurrentPhase /\ MaintainedPhase)'
    BY DEF ExitStops, engineVars, regVars, IsCurrent, HostPhase, RegPhase, EventPhase,
       CurrentPhase, MaintainedPhase
  <1> QED
    BY <1>1, <1>2, <1>3

\* A subscriber's event concerns a connection that was registered.
LEMMA EventBeginsKeeps == ASSUME IInv, NEW c \in Conns, EventBegins(c) PROVE IInv'
  <1> USE EngineAssumption DEF IInv
  <1>1. TypeOK'
    BY DEF EventBegins, NotifyShowsFlow, NotifyUnknownContact, NotifyShowsNone,
       SubscriptionEnds, GiveUp, engineVars, flowVars, regVars, NotifyAt, TypeOK
  <1>2. EventPhase'
    BY DEF EventBegins, NotifyShowsFlow, NotifyUnknownContact, NotifyShowsNone,
       SubscriptionEnds, GiveUp, engineVars, regVars, IsCurrent, TypeOK,
       EventPhase
  <1>3. SubscriptionOfObserved'
    BY DEF EventBegins, NotifyShowsFlow, NotifyUnknownContact, NotifyShowsNone,
       SubscriptionEnds, GiveUp, flowVars, SubscriptionOfObserved
  <1>4. (HostPhase /\ RegPhase /\ CurrentPhase /\ MaintainedPhase)'
    BY DEF EventBegins, NotifyShowsFlow, NotifyUnknownContact, NotifyShowsNone,
       SubscriptionEnds, engineVars, regVars, IsCurrent, HostPhase, RegPhase,
       CurrentPhase, MaintainedPhase
  <1> QED
    BY <1>1, <1>2, <1>3, <1>4

\* Giving up drops the subscription.
LEMMA RejectKeeps == ASSUME IInv, NEW c \in Conns, Reject(c) PROVE IInv'
  <1> USE EngineAssumption DEF IInv
  <1>1. TypeOK'
    BY DEF Reject, GiveUp, engineVars, regVars, NotifyAt, TypeOK
  <1>2. EventPhase'
    BY DEF Reject, GiveUp, engineVars, regVars, IsCurrent, EventPhase
  <1>3. SubscriptionOfObserved'
    BY DEF Reject, GiveUp, SubscriptionOfObserved
  <1>4. (HostPhase /\ RegPhase /\ CurrentPhase /\ MaintainedPhase)'
    BY DEF Reject, engineVars, regVars, IsCurrent, HostPhase, RegPhase, CurrentPhase,
       MaintainedPhase
  <1> QED
    BY <1>1, <1>2, <1>3, <1>4

\* MAINTAINED is of the transport that was compared; another is abandoned.
LEMMA ReportBoundKeeps == ASSUME IInv, NEW c \in Conns, ReportBound(c) PROVE IInv'
  <1> USE EngineAssumption DEF IInv
  <1>1. TypeOK'
    BY DEF ReportBound, flowVars, regVars, NotifyAt, TypeOK
  <1>2. EventPhase'
    BY DEF ReportBound, regVars, IsCurrent, TypeOK, EventPhase
  <1>3. MaintainedPhase'
    BY DEF ReportBound, regVars, IsCurrent, EventPhase, CurrentPhase, MaintainedPhase
  <1>4. (HostPhase /\ RegPhase /\ CurrentPhase /\ SubscriptionOfObserved)'
    BY DEF ReportBound, flowVars, regVars, IsCurrent, HostPhase, RegPhase,
       CurrentPhase, SubscriptionOfObserved
  <1> QED
    BY <1>1, <1>2, <1>3, <1>4

\* E is held since the comparison: the abandoned one is still not current.
LEMMA DeregisterAbandonedKeeps == ASSUME IInv, NEW c \in Conns, DeregisterAbandoned(c) PROVE IInv'
  <1> USE EngineAssumption DEF IInv
  <1>1. TypeOK'
    BY DEF DeregisterAbandoned, Deregister, engineVars, flowVars, regVars, NotifyAt,
       TypeOK
  <1>2. RegPhase'
    BY DEF DeregisterAbandoned, Deregister, regVars, TypeOK, RegPhase, EventPhase
  <1>3. EventPhase'
    BY DEF DeregisterAbandoned, Deregister, engineVars, regVars, IsCurrent, TypeOK,
       EventPhase
  <1>4. CurrentPhase'
    BY DEF DeregisterAbandoned, Deregister, engineVars, regVars, IsCurrent, TypeOK,
       EventPhase, CurrentPhase
  <1>5. MaintainedPhase'
    BY DEF DeregisterAbandoned, Deregister, engineVars, regVars, IsCurrent, TypeOK,
       EventPhase, MaintainedPhase
  <1>6. (HostPhase /\ SubscriptionOfObserved)'
    BY DEF DeregisterAbandoned, engineVars, flowVars, HostPhase,
       SubscriptionOfObserved
  <1> QED
    BY <1>1, <1>2, <1>3, <1>4, <1>5, <1>6

\* The report of an expiration changes no state of the engine.
LEMMA ReportExpirationKeeps == ASSUME IInv, NEW c \in Conns, ReportExpiration(c) PROVE IInv'
  <1> USE EngineAssumption DEF IInv
  <1>1. TypeOK'
    BY DEF ReportExpiration, engineVars, flowVars, regVars, NotifyAt, TypeOK
  <1>2. EventPhase'
    BY DEF ReportExpiration, engineVars, regVars, IsCurrent, EventPhase
  <1>3. (HostPhase /\ RegPhase /\ CurrentPhase
        /\ MaintainedPhase /\ SubscriptionOfObserved)'
    BY DEF ReportExpiration, engineVars, flowVars, regVars, IsCurrent, HostPhase,
       RegPhase, CurrentPhase, MaintainedPhase, SubscriptionOfObserved
  <1> QED
    BY <1>1, <1>2, <1>3

\* A lost connection resets the engine if it is current.
LEMMA ReportLostKeeps == ASSUME IInv, NEW c \in Conns, ReportLost(c) PROVE IInv'
  <1> USE EngineAssumption DEF IInv
  <1>1. TypeOK'
    BY DEF ReportLost, Reset, engineVars, flowVars, regVars, NotifyAt, TypeOK
  <1>2. HostPhase'
    BY DEF ReportLost, EHeld, HostPhase
  <1>3. EventPhase'
    BY DEF ReportLost, Reset, engineVars, regVars, IsCurrent, EventPhase
  <1>4. CurrentPhase'
    BY DEF ReportLost, Reset, engineVars, regVars, IsCurrent, CurrentPhase
  <1>5. MaintainedPhase'
    BY DEF ReportLost, Reset, engineVars, regVars, MaintainedPhase
  <1>6. (RegPhase /\ SubscriptionOfObserved)'
    BY DEF ReportLost, flowVars, regVars, RegPhase, SubscriptionOfObserved
  <1> QED
    BY <1>1, <1>2, <1>3, <1>4, <1>5, <1>6

-----------------------------------------------------------------------------
(* The invariant.                                                          *)

\* The engine starts with the invariant.
LEMMA InitHolds == ASSUME Init PROVE IInv
  <1> USE EngineAssumption DEF Init
  <1>1. TypeOK
    BY DEF TypeOK, HostAt, TaskAt, ResponseAt, ExitAt, NotifyAt
  <1>2. HostPhase /\ RegPhase /\ EventPhase
    BY DEF HostPhase, RegPhase, EventPhase
  <1>3. CurrentPhase /\ MaintainedPhase /\ SubscriptionOfObserved
    BY DEF CurrentPhase, IsCurrent, MaintainedPhase, SubscriptionOfObserved
  <1> QED
    BY <1>1, <1>2, <1>3 DEF IInv

\* A step of none of the threads changes nothing the invariant speaks of.
LEMMA StutterKeeps == ASSUME IInv, UNCHANGED vars PROVE IInv'
  <1> USE DEF IInv, vars
  <1>1. TypeOK'
    BY DEF TypeOK
  <1>2. (HostPhase /\ RegPhase /\ EventPhase)'
    BY DEF HostPhase, RegPhase, EventPhase, IsCurrent
  <1>3. (CurrentPhase /\ MaintainedPhase /\ SubscriptionOfObserved)'
    BY DEF CurrentPhase, IsCurrent, MaintainedPhase, SubscriptionOfObserved
  <1> QED
    BY <1>1, <1>2, <1>3

\* The invariant is inductive: whatever thread moves, it is kept.
LEMMA NextKeeps == ASSUME IInv, [Next]_vars PROVE IInv'
  <1>1. CASE Disconnect
    BY <1>1, DisconnectKeeps
  <1>2. CASE HostStep
    BY <1>2, DisconnectStopsKeeps, DisconnectDeregistersKeeps DEF HostStep
  <1>3. ASSUME NEW c \in Conns, Connect(c) PROVE IInv'
    BY <1>3, ConnectKeeps
  <1>4. ASSUME NEW c \in Conns, TaskStep(c) PROVE IInv'
    BY <1>4, AttemptFailsKeeps, StreamReadyKeeps, AttemptSucceedsKeeps, ObserveKeeps,
       StartRegisterKeeps DEF TaskStep
  <1>5. ASSUME NEW c \in Conns, ResponseStep(c) PROVE IInv'
    BY <1>5, RegisterSucceedsKeeps, OnRegisteredKeeps, OnAuthenticatedKeeps,
       RegisterFailsKeeps, OnReleasedKeeps, OnReleasedStopsKeeps, DeregisterEndsKeeps
       DEF ResponseStep
  <1>6. ASSUME NEW c \in Conns, TransportExits(c) \/ ExitStops(c) PROVE IInv'
    BY <1>6, TransportExitsKeeps, ExitStopsKeeps
  <1>7. ASSUME NEW c \in Conns, EventBegins(c) PROVE IInv'
    BY <1>7, EventBeginsKeeps
  <1>8. ASSUME NEW c \in Conns, EventStep(c) PROVE IInv'
    BY <1>8, RejectKeeps, ReportBoundKeeps, DeregisterAbandonedKeeps,
       ReportExpirationKeeps, ReportLostKeeps DEF EventStep
  <1>9. CASE UNCHANGED vars
    BY <1>9, StutterKeeps
  <1>10. CASE SendMessageIsLost
    BY <1>10, SendMessageKeeps
  <1> QED
    BY <1>1, <1>2, <1>3, <1>4, <1>5, <1>6, <1>7, <1>8, <1>9, <1>10 DEF Next

\* Any number of overlapping attempts keep the invariant.
THEOREM Invariance == Spec => []IInv
  <1>1. Init => IInv
    BY InitHolds
  <1>2. IInv /\ [Next]_vars => IInv'
    BY NextKeeps
  <1> QED
    BY <1>1, <1>2, PTL DEF Spec

\* The engine's state is always one the code can be in; in particular it has a
\* transport exactly while it is CONNECTED.
THEOREM TypeCorrect == Spec => []TypeOK
  <1>1. IInv => TypeOK
    BY DEF IInv
  <1> QED
    BY <1>1, Invariance, PTL

\* For any number of connections, the subscription in force belongs to the
\* observed connection (flow.rs, on_registration_authenticated).
THEOREM SubscriptionOwner == Spec => []SubscriptionOfObserved
  <1>1. IInv => SubscriptionOfObserved
    BY DEF IInv
  <1> QED
    BY <1>1, Invariance, PTL

\* For any number of connections, an engine that lets messages through has a
\* registered connection, or an attempt's task has failed.
THEOREM MessagesOnRegistered == Spec => []MaintainedIsRegistered
  <1>1. IInv => MaintainedIsRegistered
    BY DEF IInv, MaintainedPhase, MaintainedIsRegistered
  <1> QED
    BY <1>1, Invariance, PTL

-----------------------------------------------------------------------------
(* The deadlocks.                                                          *)

\* With every holder waiting for a mutex and no message lost, the one that can
\* be waited for is E or a registration's: F is held only by a callback that waits for E, since a
\* subscriber's own registration is not locked (EventPhase).
LEMMA OnlyKnownDeadlocks == IInv => DeadlocksKnown
  <1> SUFFICES ASSUME IInv, Deadlocked,
                      ~(\E c \in Conns : notify[c] \in {"bound", "lost"} /\ EHeld),
                      host # "lost"
               PROVE  host = "deregistering" /\ response[transport] = "authenticating"
    BY DEF DeadlocksKnown, IInv, HostPhase
  <1>1. ~FHeld
    <2>1. ASSUME NEW c \in Conns, notify[c] \in {"abandoned", "refreshing"} PROVE FALSE
      <3>1. response[c] = "idle"
        BY <2>1 DEF IInv, EventPhase
      <3>2. RHeld(c)
        BY <2>1 DEF Deadlocked, Blocked
      <3> QED
        BY <3>1, <3>2 DEF RHeld
    <2>2. ASSUME NEW c \in Conns, notify[c] \in {"bound", "lost"} PROVE FALSE
      BY <2>2 DEF Deadlocked, Blocked
    <2> QED
      BY <2>1, <2>2 DEF FHeld
  <1>2. \A c \in Conns :
           /\ response[c] \notin {"subscribing", "unobserving"}
           /\ exit[c] # "unobserving" /\ notify[c] # "abandoned"
    BY <1>1 DEF Deadlocked, Blocked, FHeld
  <1>3. host # "stopping"
    BY <1>1 DEF Deadlocked, Blocked
  <1>4. CASE host = "idle"
    <2>1. ~EHeld
      BY <1>2, <1>4 DEF EHeld
    <2>2. \A c \in Conns : ~RHeld(c)
      BY <1>2, <2>1 DEF RHeld, Deadlocked, Blocked
    <2> QED
      BY <1>1, <2>1, <2>2 DEF Deadlocked, SomeLockHeld
  <1>5. CASE host = "deregistering"
    <2>1. transport \in Conns
      BY <1>5 DEF IInv, HostPhase, TypeOK
    <2>2. RHeld(transport)
      BY <1>5 DEF Deadlocked, Blocked
    <2> QED
      BY <1>2, <1>5, <2>1, <2>2 DEF RHeld
  <1> QED
    BY <1>3, <1>4, <1>5 DEF IInv, TypeOK, HostAt

\* However many attempts and late events there are, the mutexes of the engine,
\* the flow manager and the registrations deadlock in the three known ways only.
THEOREM Deadlocks == Spec => []DeadlocksKnown
  BY OnlyKnownDeadlocks, Invariance, PTL

-----------------------------------------------------------------------------
(* What a step may never do.                                               *)

\* One registration changes hands at a time, along its life cycle; the one in
\* use is given up by disconnect() only.
Moves(c) ==
    \/ Lifecycle(c)!Next \/ UNCHANGED Lifecycle(c)!vars

Guarded(c) ==
    IsCurrent(c) /\ registration[c] = "REGISTERED" /\ registration'[c] = "RELEASED"
        => host = "deregistering"

LEMMA UnchangedMoves == ASSUME UNCHANGED regVars, NEW c \in Conns
                        PROVE  Moves(c) /\ Guarded(c)
  BY DEF regVars, Moves, Guarded, Lifecycle!vars

LEMMA DeregisterMoves ==
    ASSUME IInv, NEW d \in Conns, Deregister(d), NEW c \in Conns
    PROVE  Moves(c) /\ (c # d => Guarded(c))
  <1>1. CASE registration[d] = "REGISTERED"
    BY <1>1 DEF Deregister, IInv, TypeOK, Moves, Guarded, Lifecycle!vars, Lifecycle!Next,
       Lifecycle!Unbind
  <1>2. CASE registration[d] # "REGISTERED"
    BY <1>2, UnchangedMoves DEF Deregister
  <1> QED
    BY <1>1, <1>2

LEMMA ResponseMoves ==
    ASSUME IInv, NEW d \in Conns, ResponseStep(d), NEW c \in Conns
    PROVE  Moves(c) /\ Guarded(c)
  <1> USE DEF IInv, TypeOK, RegPhase, Moves, Guarded, Lifecycle!vars, Lifecycle!Next
  <1>1. CASE RegisterSucceeds(d)
    BY <1>1 DEF RegisterSucceeds, Lifecycle!Bind
  <1>2. CASE RegisterFails(d)
    BY <1>2 DEF RegisterFails, Lifecycle!Refuse
  <1>3. CASE DeregisterEnds(d)
    BY <1>3 DEF DeregisterEnds, Lifecycle!Forget
  <1>4. CASE OnRegistered(d) \/ OnRegistrationAuthenticated(d) \/ OnReleased(d)
             \/ OnReleasedStops(d)
    BY <1>4, UnchangedMoves DEF OnRegistered, OnRegistrationAuthenticated, OnReleased,
       OnReleasedStops
  <1> QED
    BY <1>1, <1>2, <1>3, <1>4 DEF ResponseStep

LEMMA StepMoves ==
    ASSUME IInv, [Next]_vars, NEW c \in Conns
    PROVE  Moves(c) /\ Guarded(c)
  <1> USE UnchangedMoves
  <1>1. CASE Disconnect \/ DisconnectStops \/ SendMessageIsLost
    BY <1>1 DEF Disconnect, DisconnectStops, SendMessageIsLost
  <1>2. CASE DisconnectDeregisters
    <2>1. transport \in Conns
      BY <1>2 DEF DisconnectDeregisters, IInv, HostPhase, TypeOK
    <2> QED
      BY <1>2, <2>1, DeregisterMoves DEF DisconnectDeregisters, Guarded
  <1>3. ASSUME NEW d \in Conns, TaskStep(d) PROVE Moves(c) /\ Guarded(c)
    <2>1. CASE StartRegister(d)
      BY <2>1 DEF StartRegister, IInv, TypeOK, RegPhase, Moves, Guarded, Lifecycle!vars,
         Lifecycle!Next, Lifecycle!Ask
    <2>2. CASE ~StartRegister(d)
      BY <1>3, <2>2 DEF TaskStep, AttemptFails, StreamReady, AttemptSucceeds, Observe
    <2> QED
      BY <2>1, <2>2
  <1>4. ASSUME NEW d \in Conns, ResponseStep(d) PROVE Moves(c) /\ Guarded(c)
    BY <1>4, ResponseMoves
  <1>5. ASSUME NEW d \in Conns, Connect(d) \/ TransportExits(d) \/ ExitStops(d)
        PROVE  Moves(c) /\ Guarded(c)
    BY <1>5 DEF Connect, TransportExits, ExitStops
  <1>6. ASSUME NEW s \in Conns, EventBegins(s) PROVE Moves(c) /\ Guarded(c)
    BY <1>6 DEF EventBegins, NotifyShowsFlow, NotifyUnknownContact, NotifyShowsNone,
       SubscriptionEnds
  <1>7. ASSUME NEW s \in Conns, EventStep(s) PROVE Moves(c) /\ Guarded(c)
    <2>1. CASE DeregisterAbandoned(s)
      <3>1. ~IsCurrent(s)
        BY <2>1 DEF DeregisterAbandoned, IInv, EventPhase
      <3> QED
        BY <2>1, <3>1, DeregisterMoves DEF DeregisterAbandoned, Guarded
    <2>2. CASE ~DeregisterAbandoned(s)
      BY <1>7, <2>2 DEF EventStep, Reject, ReportBound, ReportExpiration, ReportLost
    <2> QED
      BY <2>1, <2>2
  <1>8. CASE UNCHANGED vars
    BY <1>8 DEF vars, regVars
  <1> QED
    BY <1>1, <1>2, <1>3, <1>4, <1>5, <1>6, <1>7, <1>8 DEF Next, HostStep

\* However many attempts overlap, the registration of the connection in use is
\* ended by disconnect() only.
THEOREM UnboundByHost == Spec => OnlyHostUnbindsCurrent
  <1>1. IInv /\ [Next]_vars =>
           [\A c \in Conns :
              (/\ connection = "CONNECTED" /\ transport = c
               /\ registration[c] = "REGISTERED" /\ registration'[c] = "RELEASED")
                => host = "deregistering"]_vars
    BY StepMoves DEF Guarded, IsCurrent
  <1> QED
    BY <1>1, Invariance, PTL DEF Spec, OnlyHostUnbindsCurrent

\* Every registration the engine creates keeps to the life cycle that
\* Registration implements.
THEOREM KeepsLifecycles == Spec => EachLifecycle
  <1>1. Init => \A c \in Conns : Lifecycle(c)!Init
    BY DEF Init, Lifecycle!Init
  <1>2. IInv /\ [Next]_vars =>
           [\A c \in Conns : [Lifecycle(c)!Next]_(Lifecycle(c)!vars)]_regVars
    BY StepMoves DEF Moves
  <1> QED
    BY <1>1, <1>2, Invariance, PTL DEF Spec, EachLifecycle
=============================================================================
