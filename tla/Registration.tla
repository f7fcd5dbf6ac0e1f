---------------------------- MODULE Registration ----------------------------
(***************************************************************************)
(* One SIP registration: src/src/connectivity/registration.rs.             *)
(*                                                                         *)
(* reg_state, the (seq, state, params) triple of the code, is guarded by   *)
(* one mutex, and each critical section is one step.  Two handlers have    *)
(* two of them: a 2xx binds in the first and hands its expiration to       *)
(* schedule_refresh, which locks again (as a new expiration from the       *)
(* reg-info subscription makes it do), and a challenge that cannot be      *)
(* answered resets the parameters in the first and releases in the second. *)
(* The steps interleave: the owner (start_register, deregister), the       *)
(* transaction layer (a final response or a transport error per request),  *)
(* the reg-info subscription and the sleeping refresh tasks.               *)
(*                                                                         *)
(* Message text is abstracted: a request keeps its CSeq, its kind (a        *)
(* de-REGISTER has expires=0), and the (nonce, nc) pair it is signed with. *)
(***************************************************************************)
EXTENDS Integers, FiniteSets

CONSTANTS
    Nonces,     \* nonces the registrar may challenge with
    NoNonce,    \* the empty nonce of an unauthenticated request
    Expiries,   \* lifetimes the registrar may grant, in clock ticks
    IsAka,      \* AuthenticationType: Aka when TRUE, Digest when FALSE
    MaxTime     \* bound of the model's clock

ASSUME RegistrationAssumption ==
    /\ NoNonce \notin Nonces
    /\ Expiries \subseteq Nat
    /\ IsAka \in BOOLEAN
    /\ MaxTime \in Nat

VARIABLES
    state,      \* RegistrationState
    expiration, \* the Instant REGISTERED carries (0 before)
    cseq,       \* seq: the CSeq of the last request built
    auth,       \* DigestAnswerParams: challenge nonce, credentials, nc
    sent,       \* every request handed to the transaction layer
    txns,       \* the client transactions that have not ended yet
    due,        \* Instants that threads carry to schedule_refresh
    timers,     \* Instants the spawned refresh tasks sleep until
    subscribed, \* the reg-info subscription of this registration exists
    now         \* the clock

vars ==
    <<state, expiration, cseq, auth, sent, txns, due, timers, subscribed, now>>

States      == {"IDLE", "REQUESTING", "REGISTERED", "RELEASED"}
Credentials == {"none", "password", "res", "auts"}
Auth        == [nonce : Nonces \cup {NoNonce}, credentials : Credentials, nc : Nat]
Kinds       == {"register", "deregister"}
Request     == [cseq : Nat, kind : Kinds,
                nonce : Nonces \cup {NoNonce}, nc : Nat]
\* failures is the failure_count of the code; refused tells that the thread
\* that took the response is on its way to release the registration.
Txn         == [request : Request, failures : {0, 1}, refused : BOOLEAN]

TypeOK ==
    /\ state \in States
    /\ expiration \in Nat
    /\ cseq \in Nat
    /\ auth \in Auth
    /\ sent \in SUBSET Request
    /\ txns \in SUBSET Txn
    /\ due \in SUBSET Nat
    /\ timers \in SUBSET Nat
    /\ subscribed \in BOOLEAN
    /\ now \in Nat

Init ==
    /\ state = "IDLE"
    /\ expiration = 0
    /\ cseq = 0
    /\ auth = [nonce |-> NoNonce, credentials |-> "none", nc |-> 0]
    /\ sent = {}
    /\ txns = {}
    /\ due = {}
    /\ timers = {}
    /\ subscribed = FALSE
    /\ now = 0

-----------------------------------------------------------------------------
(* Building and sending a request.                                         *)

\* A request signed with credentials uses the next nonce count.
NextAuthorization(a) ==
    IF a.credentials = "none" THEN a ELSE [a EXCEPT !.nc = @ + 1]

MakeRequest(a, kind) ==
    [cseq |-> cseq + 1, kind |-> kind, nonce |-> a.nonce, nc |-> a.nc]

\* make_request then send_request, with the parameters `a' the caller holds:
\* `remaining' are the other transactions that are still open afterwards.
Send(a, kind, failures, remaining) ==
    LET signed  == NextAuthorization(a)
        request == MakeRequest(signed, kind)
    IN  /\ cseq' = cseq + 1
        /\ auth' = signed
        /\ sent' = sent \cup {request}
        /\ txns' = remaining \cup
                {[request |-> request, failures |-> failures, refused |-> FALSE]}

-----------------------------------------------------------------------------
(* The owner.                                                              *)

StartRegister ==
    /\ state = "IDLE"
    /\ state' = "REQUESTING"
    /\ Send(auth, "register", 0, txns)
    /\ UNCHANGED <<expiration, due, timers, subscribed, now>>

\* Faulty variant: an owner that gives up while the request is still open.
Deregister_WhileRequesting ==
    /\ state \in {"REQUESTING", "REGISTERED"}
    /\ state' = "RELEASED"
    /\ Send(auth, "deregister", 0, txns)
    /\ UNCHANGED <<expiration, due, timers, subscribed, now>>

Deregister ==
    /\ state = "REGISTERED"
    /\ state' = "RELEASED"
    /\ Send(auth, "deregister", 0, txns)
    /\ UNCHANGED <<expiration, due, timers, subscribed, now>>

-----------------------------------------------------------------------------
(* Refreshing.                                                             *)

\* Faulty variant: the expiration in force is scheduled as well.
IsInForce_Never(s, inForce, e) == FALSE

\* schedule_refresh: no task is spawned for the expiration already in force.
IsInForce(s, inForce, e) == s = "REGISTERED" /\ e = inForce

ScheduleRefresh(e) ==
    /\ e \in due
    /\ due' = due \ {e}
    /\ timers' = IF IsInForce(state, expiration, e) THEN timers ELSE timers \cup {e}
    /\ UNCHANGED <<state, expiration, cseq, auth, sent, txns, subscribed, now>>

\* A spawned task wakes: it refreshes when its expiration is the one in force.
ShouldRefresh(e) == state = "REGISTERED" /\ e = expiration

RefreshTaskWakes(e) ==
    /\ e \in timers
    /\ now >= e
    /\ timers' = timers \ {e}
    /\ IF ShouldRefresh(e) THEN Send(auth, "register", 0, txns)
                           ELSE UNCHANGED <<cseq, auth, sent, txns>>
    /\ UNCHANGED <<state, expiration, due, subscribed, now>>

\* The reg-info subscription reports the expiration of the current flow.
OnExpirationRefreshed(lifetime) ==
    /\ subscribed
    /\ due' = due \cup {now + lifetime}
    /\ UNCHANGED <<state, expiration, cseq, auth, sent, txns, timers, subscribed, now>>

-----------------------------------------------------------------------------
(* The transaction layer: RegisterContext.                                 *)

\* Faulty variant: the state is not reset when a request fails.
Release_KeepsState(t) ==
    /\ txns' = txns \ {t}
    /\ UNCHANGED <<state, expiration, cseq, auth, sent, due, timers, subscribed, now>>

\* The registration is over: RELEASED, and the owner is told.
Release(t) ==
    /\ state' = "RELEASED"
    /\ txns' = txns \ {t}
    /\ UNCHANGED <<expiration, cseq, auth, sent, due, timers, subscribed, now>>

\* Faulty variant: a safety margin is taken off the lifetime.
GrantedUntil_WithMargin(lifetime) == now + lifetime - 3

GrantedUntil(lifetime) == now + lifetime

\* A 2xx with a lifetime.  It binds only a registration that is REQUESTING;
\* its expiration goes to schedule_refresh in any case.
OnSuccess(t, lifetime) ==
    LET granted == GrantedUntil(lifetime)
        binds   == state = "REQUESTING"
    IN  /\ t.request.kind = "register"
        /\ ~t.refused
        /\ state' = IF binds THEN "REGISTERED" ELSE state
        /\ expiration' = IF binds THEN granted ELSE expiration
        /\ IF binds THEN subscribed' \in BOOLEAN ELSE UNCHANGED subscribed
        /\ due' = due \cup {granted}
        /\ txns' = txns \ {t}
        /\ UNCHANGED <<cseq, auth, sent, timers, now>>

Answers == IF IsAka THEN {"res", "auts"} ELSE {"password"}

\* Faulty variant: a second 401 is answered like the first.
OnChallenge_Repeated(t, nonce, answer) ==
    /\ t.request.kind = "register"
    /\ ~t.refused
    /\ Send([nonce |-> nonce, credentials |-> answer, nc |-> 0], "register", 1, txns \ {t})
    /\ UNCHANGED <<state, expiration, due, timers, subscribed, now>>

\* The first 401: the challenge replaces the parameters and is answered.
OnChallenge(t, nonce, answer) ==
    /\ t.request.kind = "register"
    /\ t.failures = 0
    /\ ~t.refused
    /\ Send([nonce |-> nonce, credentials |-> answer, nc |-> 0], "register", 1, txns \ {t})
    /\ UNCHANGED <<state, expiration, due, timers, subscribed, now>>

\* A first 401 with no usable challenge: the parameters are lost with it, and
\* the thread goes on to release the registration.
OnBadChallenge(t) ==
    /\ t.request.kind = "register"
    /\ t.failures = 0
    /\ ~t.refused
    /\ \E nonce \in IF IsAka THEN Nonces \cup {NoNonce} ELSE {NoNonce} :
          auth' = [nonce |-> nonce, credentials |-> "none", nc |-> 0]
    /\ txns' = (txns \ {t}) \cup {[t EXCEPT !.refused = TRUE]}
    /\ UNCHANGED <<state, expiration, cseq, sent, due, timers, subscribed, now>>

\* A second 401, any other refusal, a 2xx without a lifetime, the transport
\* failing, or a challenge that could not be answered.
OnRefused(t) == t.request.kind = "register" /\ Release(t)

\* DeregisterContext: whatever the answer, only the transport is dropped.
OnDeregisterEnded(t) ==
    /\ t.request.kind = "deregister"
    /\ txns' = txns \ {t}
    /\ UNCHANGED <<state, expiration, cseq, auth, sent, due, timers, subscribed, now>>

Tick ==
    /\ now < MaxTime
    /\ now' = now + 1
    /\ UNCHANGED <<state, expiration, cseq, auth, sent, txns, due, timers, subscribed>>

-----------------------------------------------------------------------------
TransactionEnds(t) ==
    \/ \E lifetime \in Expiries : OnSuccess(t, lifetime)
    \/ \E nonce \in Nonces, answer \in Answers : OnChallenge(t, nonce, answer)
    \/ OnBadChallenge(t)
    \/ OnRefused(t)
    \/ OnDeregisterEnded(t)

Next ==
    \/ StartRegister
    \/ Deregister
    \/ \E e \in due : ScheduleRefresh(e)
    \/ \E e \in timers : RefreshTaskWakes(e)
    \/ \E lifetime \in Expiries : OnExpirationRefreshed(lifetime)
    \/ \E t \in txns : TransactionEnds(t)
    \/ Tick

Spec == Init /\ [][Next]_vars

\* The transaction layer ends every transaction (it times requests out), a
\* thread reaches schedule_refresh, the runtime runs every task that is due,
\* and time passes.  The owner is free.
Fairness ==
    /\ WF_vars(\E t \in txns : TransactionEnds(t))
    /\ WF_vars(\E e \in due : ScheduleRefresh(e))
    /\ WF_vars(\E e \in timers : RefreshTaskWakes(e))
    /\ WF_vars(Tick)

FairSpec == Spec /\ Fairness
-----------------------------------------------------------------------------
(* Properties.                                                             *)

\* The de-REGISTER is the registrar's last word on this Call-ID: every other
\* request precedes it in CSeq order, and no REGISTER whose 401 could still
\* be answered, re-creating the binding, is open beside it.
\* (registration.rs: deregister does not look at open transactions, and the
\* 401 branch of on_final_response does not look at the state.)
DeregisterIsLast ==
    \A d \in sent : d.kind = "deregister" =>
        /\ \A r \in sent \ {d} : r.cseq < d.cseq
        /\ \A t \in txns : t.request = d

\* Once a challenge is answered, every later request of the Call-ID is signed
\* for that challenge, each with the next nonce count.  The code starts the
\* count anew for every challenge it answers and does not compare the nonce
\* with the last one, so a registrar that repeats a nonce would be sent a
\* count twice; it never is, because no second challenge is ever answered.
\* (registration.rs: failure_count in the 401 branch of on_final_response,
\* and schedule_refresh, whose refresh would be challenged anew.)
OneChallengeSigns ==
    \A r, q \in sent : (r.nonce # NoNonce /\ r.cseq < q.cseq) =>
        /\ q.nonce = r.nonce
        /\ q.nc = r.nc + (q.cseq - r.cseq)

\* A registration behaves as RegistrationLifecycle promises, with the open
\* transactions seen as the one request in flight.
InFlight ==
    IF \E t \in txns : t.request.kind = "deregister" THEN "deregister"
    ELSE IF txns # {} THEN "register" ELSE "none"

Abstract == INSTANCE RegistrationLifecycle WITH state <- state, inFlight <- InFlight

Lifecycle == Abstract!Spec

\* A requested registration is eventually bound or given up.
Settles == state = "REQUESTING" ~> state \in {"REGISTERED", "RELEASED"}

\* What the refresh task is for: a registration whose expiration in force has
\* come is refreshed, a REGISTER of it being open, or it has been released.
\* (registration.rs:616-620 explains why the task compares its expiration
\* with the one in force before refreshing; RegistrationEvent::Refreshed.)
RefreshedWhenDue ==
    (state = "REGISTERED" /\ now >= expiration) ~> (txns # {} \/ state = "RELEASED")
=============================================================================
