------------------------- MODULE FlowManager_proofs -------------------------
(***************************************************************************)
(* Proofs about FlowManager.  The safety properties are inductive together:*)
(* that the table is a map is what makes each change of it a change of     *)
(* single bindings, and so the manager an implementation of the relation   *)
(* of RegInfoBindings.                                                     *)
(***************************************************************************)
EXTENDS FlowManager, TLAPS

IInv == TypeOK /\ SubscriptionOfObserved /\ FlowsNeedSubscription /\ FlowTable

-----------------------------------------------------------------------------
(* The flow table.                                                         *)

\* What a contact may do to a well-formed table.
LEMMA CreateKeepsTable ==
    ASSUME TypeOK, FlowTable, NEW id \in FlowIds, NEW record \in Records,
           NEW uri \in Conns \cup {Elsewhere}, NEW expires \in Lifetimes \cup {None},
           CreateAor(id, record, uri, expires)
    PROVE  flows' \in SUBSET FlowInfo /\ FlowTable'
  <1>1. FlowExpires(expires) \in Nat
    BY FlowAssumption DEF FlowExpires
  <1>2. CASE \E f \in flows : f.id = id
    <2> DEFINE Upd(f) == IF f.id = id THEN [f EXCEPT !.aors = @ \cup {record}] ELSE f
    <2>1. flows' = {Upd(f) : f \in flows}
      BY <1>2 DEF CreateAor
    <2>2. ASSUME NEW f \in flows
          PROVE  Upd(f) \in FlowInfo /\ Upd(f).id = f.id /\ Upd(f).aors # {}
      <3>1. f \in FlowInfo /\ f.aors # {}
        BY DEF TypeOK, FlowTable
      <3> QED
        BY <3>1 DEF FlowInfo
    <2> HIDE DEF Upd
    <2> QED
      BY <2>1, <2>2 DEF FlowTable
  <1>3. CASE ~ \E f \in flows : f.id = id
    <2> DEFINE new == [id |-> id, uri |-> uri, expires |-> FlowExpires(expires), aors |-> {record}]
    <2>1. flows' = flows \cup {new}
      BY <1>3 DEF CreateAor
    <2>2. new \in FlowInfo /\ new.id = id /\ new.aors # {}
      BY <1>1 DEF FlowInfo
    <2> HIDE DEF new
    <2> QED
      BY <1>3, <2>1, <2>2 DEF FlowTable, TypeOK
  <1> QED
    BY <1>2, <1>3

LEMMA UpdateKeepsTable ==
    ASSUME TypeOK, FlowTable, NEW id \in FlowIds,
           NEW expires \in Lifetimes \cup {None}, UpdateAor(id, expires)
    PROVE  flows' \in SUBSET FlowInfo /\ FlowTable'
  <1> DEFINE Upd(f) == IF f.id = id THEN [f EXCEPT !.expires = FlowExpires(expires)] ELSE f
  <1>1. flows' = {Upd(f) : f \in flows}
    BY DEF UpdateAor
  <1>2. ASSUME NEW f \in flows
        PROVE  Upd(f) \in FlowInfo /\ Upd(f).id = f.id /\ Upd(f).aors # {}
    <2>1. f \in FlowInfo /\ f.aors # {} /\ FlowExpires(expires) \in Nat
      BY FlowAssumption DEF TypeOK, FlowTable, FlowExpires
    <2> QED
      BY <2>1 DEF FlowInfo
  <1> HIDE DEF Upd
  <1> QED
    BY <1>1, <1>2 DEF FlowTable

LEMMA RemoveKeepsTable ==
    ASSUME TypeOK, FlowTable, NEW id \in FlowIds, NEW record \in Records,
           RemoveAor(id, record)
    PROVE  flows' \in SUBSET FlowInfo /\ FlowTable'
  <1> DEFINE Upd(f) == IF f.id = id THEN [f EXCEPT !.aors = @ \ {record}] ELSE f
  <1>1. flows' = {g \in {Upd(f) : f \in flows} : g.aors # {}}
    BY DEF RemoveAor
  <1>2. ASSUME NEW f \in flows PROVE Upd(f) \in FlowInfo /\ Upd(f).id = f.id
    <2>1. f \in FlowInfo
      BY DEF TypeOK
    <2> QED
      BY <2>1 DEF FlowInfo
  <1> HIDE DEF Upd
  <1> QED
    BY <1>1, <1>2 DEF FlowTable

-----------------------------------------------------------------------------
(* The steps.                                                              *)

LEMMA InitIInv == Init => IInv
    BY FlowAssumption DEF Init, IInv, TypeOK, Report, Verdicts,
       SubscriptionOfObserved, FlowsNeedSubscription, FlowTable

LEMMA ContactKeeps == ASSUME IInv, NEW s \in Conns, Contact(s) PROVE IInv'
  <1>1. flows' \in SUBSET FlowInfo /\ FlowTable'
    <2>1. PICK id \in FlowIds, record \in Records :
             \/ \E uri \in Conns \cup {Elsewhere}, expires \in Lifetimes \cup {None} :
                   CreateAor(id, record, uri, expires)
             \/ RemoveAor(id, record)
             \/ \E expires \in Lifetimes \cup {None} : UpdateAor(id, expires)
      BY DEF Contact
    <2> QED
      BY <2>1, CreateKeepsTable, UpdateKeepsTable, RemoveKeepsTable DEF IInv
  <1>2. /\ processing = s
        /\ UNCHANGED <<observed, subscription, fresh, subscribers, authenticated,
                       processing, rejecting, report>>
    BY DEF Contact
  <1> QED
    BY <1>1, <1>2, FlowAssumption DEF IInv, TypeOK, SubscriptionOfObserved, FlowsNeedSubscription

\* Giving up leaves no subscription and no flow, whoever gives up.
LEMMA GiveUpEffect ==
    ASSUME TypeOK, NEW s \in Conns, GiveUp(s)
    PROVE  subscription' = None /\ flows' = {} /\ report' \in Report
    BY DEF GiveUp, Tell, TypeOK, Report, Verdicts

LEMMA StepKeeps == IInv /\ [Next]_vars => IInv'
  <1> SUFFICES ASSUME IInv, [Next]_vars PROVE IInv'
    OBVIOUS
  <1> USE FlowAssumption
  <1>1. ASSUME NEW c \in Conns, ObserveRegistration(c) PROVE IInv'
    BY <1>1 DEF ObserveRegistration, Unlocked, IInv, TypeOK,
       SubscriptionOfObserved, FlowsNeedSubscription, FlowTable
  <1>2. ASSUME NEW c \in Conns, StopObservation(c) PROVE IInv'
    BY <1>2 DEF StopObservation, IInv, TypeOK,
       SubscriptionOfObserved, FlowsNeedSubscription, FlowTable
  <1>3. ASSUME NEW c \in Conns, OnRegistrationAuthenticated(c) PROVE IInv'
    BY <1>3 DEF OnRegistrationAuthenticated, MaySubscribe, IInv, TypeOK,
       SubscriptionOfObserved, FlowsNeedSubscription, FlowTable
  <1>4. ASSUME NEW c \in Conns, NotifyBegins(c) \/ NotifyUnreadable(c) \/ NotifyShowsNone(c)
        PROVE  IInv'
    BY <1>4 DEF NotifyBegins, NotifyUnreadable, NotifyShowsNone, IInv, TypeOK,
       SubscriptionOfObserved, FlowsNeedSubscription, FlowTable
  <1>5. ASSUME NEW c \in Conns, NotifyShowsFlow(c) PROVE IInv'
    <2>1. report' \in Report
      BY <1>5 DEF NotifyShowsFlow, Tell, Report, Verdicts
    <2>2. subscription # None
      BY <1>5 DEF NotifyShowsFlow, OwnFlow
    <2> QED
      BY <1>5, <2>1, <2>2 DEF NotifyShowsFlow, IInv, TypeOK,
         SubscriptionOfObserved, FlowsNeedSubscription, FlowTable
  <1>6. ASSUME NEW c \in Conns, UnknownContact(c) \/ Reject(c) \/ SubscriptionEnds(c)
        PROVE  IInv'
    <2>1. subscription' = None /\ flows' = {} /\ report' \in Report
      BY <1>6, GiveUpEffect DEF IInv, UnknownContact, Reject, SubscriptionEnds
    <2>2. /\ UNCHANGED <<observed, fresh, authenticated>>
          /\ subscribers' \in SUBSET Conns /\ processing' \in Conns \cup {None}
          /\ rejecting' \in SUBSET Conns
      BY <1>6 DEF UnknownContact, Reject, SubscriptionEnds, IInv, TypeOK
    <2> QED
      BY <2>1, <2>2 DEF IInv, TypeOK,
         SubscriptionOfObserved, FlowsNeedSubscription, FlowTable
  <1>7. CASE UNCHANGED vars
    BY <1>7 DEF vars, IInv, TypeOK,
       SubscriptionOfObserved, FlowsNeedSubscription, FlowTable
  <1> QED
    BY <1>1, <1>2, <1>3, <1>4, <1>5, <1>6, <1>7, ContactKeeps DEF Next, SubscriberEvent

\* The invariant is inductive.
THEOREM Invariance == Spec => []IInv
    BY InitIInv, StepKeeps, PTL DEF Spec

\* Every state of the flow manager is well typed.
THEOREM TypeCorrect == Spec => []TypeOK
    BY Invariance, PTL DEF IInv

\* The subscription in force is the observed connection's.
THEOREM SubscriptionFollows == Spec => []SubscriptionOfObserved
    BY Invariance, PTL DEF IInv

\* A table with entries has a subscription in force, and stays a map without empty
\* entries, for any number of connections, flows and records.
\* (flow.rs: the two critical sections of a NOTIFY.)
THEOREM FlowsFollow == Spec => []FlowsSound
    BY Invariance, PTL DEF IInv, FlowsSound

-----------------------------------------------------------------------------
(* The refinement.                                                         *)

\* Membership in the relation the table stands for.
LEMMA ReportedMember ==
    ASSUME NEW i \in FlowIds, NEW r \in Records
    PROVE  <<i, r>> \in Reported <=> \E f \in flows : f.id = i /\ r \in f.aors
    BY DEF Reported

\* The same after a step.
LEMMA ReportedMemberNext ==
    ASSUME NEW i \in FlowIds, NEW r \in Records
    PROVE  <<i, r>> \in Reported' <=> \E f \in flows' : f.id = i /\ r \in f.aors
    BY DEF Reported

\* Relations with the same pairs are equal.
LEMMA SamePairs ==
    ASSUME NEW S \in SUBSET (FlowIds \X Records), NEW T \in SUBSET (FlowIds \X Records),
           \A i \in FlowIds, r \in Records : <<i, r>> \in S <=> <<i, r>> \in T
    PROVE  S = T
  <1>1. \A b \in FlowIds \X Records : b \in S <=> b \in T
    <2> TAKE b \in FlowIds \X Records
    <2>1. PICK i \in FlowIds, r \in Records : b = <<i, r>>
      OBVIOUS
    <2> QED
      BY <2>1
  <1> QED
    BY <1>1

LEMMA ReportedRelation == Reported \in SUBSET (FlowIds \X Records)
    BY DEF Reported

LEMMA ReportedRelationNext == Reported' \in SUBSET (FlowIds \X Records)
    BY DEF Reported

LEMMA CreateBinds ==
    ASSUME TypeOK, FlowTable, NEW id \in FlowIds, NEW record \in Records,
           NEW uri \in Conns \cup {Elsewhere}, NEW expires \in Lifetimes \cup {None},
           CreateAor(id, record, uri, expires)
    PROVE  Reported' = Reported \cup {<<id, record>>}
  <1> SUFFICES ASSUME NEW i \in FlowIds, NEW r \in Records
               PROVE  (\E f \in flows' : f.id = i /\ r \in f.aors)
                         <=> \/ \E f \in flows : f.id = i /\ r \in f.aors
                             \/ i = id /\ r = record
    <2>1. \A i \in FlowIds, r \in Records :
            <<i, r>> \in Reported' <=> <<i, r>> \in Reported \/ (i = id /\ r = record)
      BY ReportedMember, ReportedMemberNext
    <2>2. Reported \cup {<<id, record>>} \in SUBSET (FlowIds \X Records)
      BY ReportedRelation
    <2>3. \A i \in FlowIds, r \in Records :
            <<i, r>> \in Reported' <=> <<i, r>> \in Reported \cup {<<id, record>>}
      BY <2>1
    <2> QED
      BY <2>2, <2>3, ReportedRelationNext, SamePairs
  <1>1. CASE \E f \in flows : f.id = id
    <2> DEFINE Upd(f) == IF f.id = id THEN [f EXCEPT !.aors = @ \cup {record}] ELSE f
    <2>1. flows' = {Upd(f) : f \in flows}
      BY <1>1 DEF CreateAor
    <2>2. ASSUME NEW f \in flows
          PROVE  /\ Upd(f).id = f.id
                 /\ Upd(f).aors = IF f.id = id THEN f.aors \cup {record} ELSE f.aors
      <3>1. f \in FlowInfo
        BY DEF TypeOK
      <3> QED
        BY <3>1 DEF FlowInfo
    <2> HIDE DEF Upd
    <2>3. (\E f \in flows' : f.id = i /\ r \in f.aors)
             <=> \E f \in flows : f.id = i /\ r \in Upd(f).aors
      <3>1. ASSUME NEW f \in flows', f.id = i, r \in f.aors
            PROVE  \E g \in flows : g.id = i /\ r \in Upd(g).aors
        <4>1. PICK g \in flows : f = Upd(g)
          BY <2>1
        <4> QED
          BY <2>2, <3>1, <4>1
      <3>2. ASSUME NEW f \in flows, f.id = i, r \in Upd(f).aors
            PROVE  \E g \in flows' : g.id = i /\ r \in g.aors
        <4>1. Upd(f) \in flows'
          BY <2>1
        <4> QED
          BY <2>2, <3>2, <4>1
      <3> QED
        BY <3>1, <3>2
    <2> QED
      BY <1>1, <2>2, <2>3
  <1>2. CASE ~ \E f \in flows : f.id = id
    <2> DEFINE new == [id |-> id, uri |-> uri, expires |-> FlowExpires(expires), aors |-> {record}]
    <2>1. flows' = flows \cup {new}
      BY <1>2 DEF CreateAor
    <2>2. new.id = id /\ new.aors = {record}
      OBVIOUS
    <2> HIDE DEF new
    <2> QED
      BY <2>1, <2>2
  <1> QED
    BY <1>1, <1>2

LEMMA UpdateInvisible ==
    ASSUME TypeOK, NEW id \in FlowIds, NEW expires \in Lifetimes \cup {None},
           UpdateAor(id, expires)
    PROVE  Reported' = Reported
  <1> DEFINE Upd(f) == IF f.id = id THEN [f EXCEPT !.expires = FlowExpires(expires)] ELSE f
  <1>1. flows' = {Upd(f) : f \in flows}
    BY DEF UpdateAor
  <1>2. ASSUME NEW f \in flows PROVE Upd(f).id = f.id /\ Upd(f).aors = f.aors
    <2>1. f \in FlowInfo
      BY DEF TypeOK
    <2> QED
      BY <2>1 DEF FlowInfo
  <1> HIDE DEF Upd
  <1>3. \A i \in FlowIds, r \in Records :
          (\E f \in flows' : f.id = i /\ r \in f.aors)
             <=> \E f \in flows : f.id = i /\ r \in f.aors
    BY <1>1, <1>2
  <1> QED
    BY <1>3 DEF Reported

LEMMA RemoveUnbinds ==
    ASSUME TypeOK, FlowTable, NEW id \in FlowIds, NEW record \in Records,
           RemoveAor(id, record)
    PROVE  Reported' = Reported \ {<<id, record>>}
  <1> DEFINE Upd(f) == IF f.id = id THEN [f EXCEPT !.aors = @ \ {record}] ELSE f
  <1>1. flows' = {g \in {Upd(f) : f \in flows} : g.aors # {}}
    BY DEF RemoveAor
  <1>2. ASSUME NEW f \in flows
        PROVE  /\ Upd(f).id = f.id
               /\ Upd(f).aors = IF f.id = id THEN f.aors \ {record} ELSE f.aors
    <2>1. f \in FlowInfo
      BY DEF TypeOK
    <2> QED
      BY <2>1 DEF FlowInfo
  <1> HIDE DEF Upd
  <1>3. ASSUME NEW i \in FlowIds, NEW r \in Records
        PROVE  (\E f \in flows' : f.id = i /\ r \in f.aors)
                  <=> /\ \E f \in flows : f.id = i /\ r \in f.aors
                      /\ ~(i = id /\ r = record)
    <2>1. (\E f \in flows' : f.id = i /\ r \in f.aors)
             <=> \E f \in flows : f.id = i /\ r \in Upd(f).aors
      <3>1. ASSUME NEW f \in flows', f.id = i, r \in f.aors
            PROVE  \E g \in flows : g.id = i /\ r \in Upd(g).aors
        <4>1. PICK g \in flows : f = Upd(g)
          BY <1>1
        <4> QED
          BY <1>2, <3>1, <4>1
      <3>2. ASSUME NEW f \in flows, f.id = i, r \in Upd(f).aors
            PROVE  \E g \in flows' : g.id = i /\ r \in g.aors
        <4>1. Upd(f) \in flows'
          BY <1>1, <1>2, <3>2
        <4> QED
          BY <1>2, <3>2, <4>1
      <3> QED
        BY <3>1, <3>2
    <2> QED
      BY <1>2, <2>1
  <1>4. \A i \in FlowIds, r \in Records :
          <<i, r>> \in Reported' <=> <<i, r>> \in Reported /\ ~(i = id /\ r = record)
    BY <1>3, ReportedMember, ReportedMemberNext
  <1>5. \A i \in FlowIds, r \in Records :
          <<i, r>> \in Reported' <=> <<i, r>> \in Reported \ {<<id, record>>}
    BY <1>4
  <1>6. Reported \ {<<id, record>>} \in SUBSET (FlowIds \X Records)
    BY ReportedRelation
  <1> QED
    BY <1>5, <1>6, ReportedRelationNext, SamePairs

\* The flow manager implements RegInfoBindings: a contact of a NOTIFY changes
\* at most the one binding it names, and everything else forgets them all.
THEOREM Refinement == Spec => RegInfo
  <1>1. Init => Abstract!Init
    BY DEF Init, Abstract!Init, Reported
  <1>2. IInv /\ [Next]_vars => [Abstract!Next]_(Abstract!vars)
    <2> SUFFICES ASSUME IInv, [Next]_vars PROVE Abstract!Next \/ UNCHANGED Abstract!vars
      OBVIOUS
    <2> USE DEF Abstract!vars, Abstract!Next
    <2>1. UNCHANGED flows => UNCHANGED Reported
      BY DEF Reported
    <2>2. flows' = {} => Reported' = {}
      BY DEF Reported
    <2>3. ASSUME NEW c \in Conns, ObserveRegistration(c)
          PROVE  Abstract!Next \/ UNCHANGED Abstract!vars
      <3>1. subscription' = None /\ (flows' = {} \/ (flows' = flows /\ subscription = None))
        BY <2>3 DEF ObserveRegistration
      <3> QED
        BY <2>1, <2>2, <3>1 DEF Abstract!Forget
    <2>4. ASSUME NEW c \in Conns, StopObservation(c)
          PROVE  Abstract!Next \/ UNCHANGED Abstract!vars
      BY <2>2, <2>4 DEF StopObservation, Abstract!Forget
    <2>5. ASSUME NEW c \in Conns, OnRegistrationAuthenticated(c)
          PROVE  Abstract!Next \/ UNCHANGED Abstract!vars
      BY <2>1, <2>5 DEF OnRegistrationAuthenticated, Abstract!Subscribe
    <2>6. ASSUME NEW c \in Conns, Contact(c)
          PROVE  Abstract!Next \/ UNCHANGED Abstract!vars
      <3>1. PICK id \in FlowIds, record \in Records :
               \/ \E uri \in Conns \cup {Elsewhere}, expires \in Lifetimes \cup {None} :
                     CreateAor(id, record, uri, expires)
               \/ RemoveAor(id, record)
               \/ \E expires \in Lifetimes \cup {None} : UpdateAor(id, expires)
        BY <2>6 DEF Contact
      <3>2. \/ Reported' = Reported \cup {<<id, record>>}
            \/ Reported' = Reported \ {<<id, record>>}
            \/ Reported' = Reported
        BY <3>1, CreateBinds, RemoveUnbinds, UpdateInvisible DEF IInv
      <3>3. UNCHANGED subscription
        BY <2>6 DEF Contact
      <3> QED
        BY <3>2, <3>3 DEF Abstract!Bind, Abstract!Unbind
    <2>7. ASSUME NEW c \in Conns,
                 NotifyBegins(c) \/ NotifyUnreadable(c) \/ NotifyShowsFlow(c) \/ NotifyShowsNone(c)
          PROVE  Abstract!Next \/ UNCHANGED Abstract!vars
      BY <2>1, <2>7 DEF NotifyBegins, NotifyUnreadable, NotifyShowsFlow, NotifyShowsNone
    <2>8. ASSUME NEW c \in Conns, UnknownContact(c) \/ Reject(c) \/ SubscriptionEnds(c)
          PROVE  Abstract!Next \/ UNCHANGED Abstract!vars
      <3>1. subscription' = None /\ flows' = {}
        BY <2>8, GiveUpEffect DEF IInv, UnknownContact, Reject, SubscriptionEnds
      <3> QED
        BY <2>2, <3>1 DEF Abstract!Forget
    <2>9. CASE UNCHANGED vars
      BY <2>1, <2>9 DEF vars
    <2> QED
      BY <2>3, <2>4, <2>5, <2>6, <2>7, <2>8, <2>9 DEF Next, SubscriberEvent
  <1> QED
    BY <1>1, <1>2, Invariance, PTL DEF Spec, RegInfo, Abstract!Spec
=============================================================================
