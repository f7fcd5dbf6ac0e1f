------------------------ MODULE Registration_proofs ------------------------
(***************************************************************************)
(* Proofs about Registration.  The inductive invariant says what keeps the *)
(* refresh path closed: the expiration in force is never among the ones a  *)
(* refresh task sleeps for, so the only requests are the first REGISTER,   *)
(* its authenticated repetition, and the de-REGISTER.                      *)
(***************************************************************************)
EXTENDS Registration, TLAPS

\* At most one transaction is open, and its request was sent.
OneOpen ==
    /\ \A t, u \in txns : t = u
    /\ \A t \in txns : t.request \in sent

\* What may be open in each state, and what a refresh task may sleep for.
Phase ==
    /\ state = "IDLE" =>
          /\ txns = {} /\ sent = {} /\ due = {} /\ timers = {} /\ subscribed = FALSE
          /\ auth.credentials = "none"
    /\ state = "REQUESTING" =>
          /\ \E t \in txns : t.request.kind = "register"
          /\ due = {} /\ timers = {}
          /\ subscribed = FALSE
    /\ state = "REGISTERED" => txns = {} /\ expiration \notin timers
    /\ state = "RELEASED" => \A t \in txns : t.request.kind = "deregister"
    /\ state # "RELEASED" => \A r \in sent : r.kind = "register"

\* CSeq numbers identify requests, and the de-REGISTER has the last one.
Numbering ==
    /\ \A r \in sent : r.cseq <= cseq
    /\ \A r, q \in sent : r.cseq = q.cseq => r = q
    /\ \A d \in sent : d.kind = "deregister" => d.cseq = cseq

\* Every signed request used the challenge that is still current, and the
\* count has advanced with the CSeq since; before the first challenge is
\* answered nothing was signed.
Signing ==
    /\ \A r \in sent : r.nonce # NoNonce =>
          /\ r.nonce = auth.nonce /\ auth.nc = r.nc + (cseq - r.cseq)
          /\ auth.credentials # "none"
    /\ auth.credentials = "none" /\ state # "RELEASED" =>
          auth.nonce = NoNonce \/ \E t \in txns : t.refused
    /\ \A t \in txns : t.request.kind = "register" /\ t.failures = 0 =>
          \A r \in sent : r.nonce = NoNonce

IInv == TypeOK /\ OneOpen /\ Phase /\ Numbering /\ Signing /\ OneChallengeSigns

-----------------------------------------------------------------------------
(* The request that Send builds.                                           *)

\* Signing keeps the nonce and the credentials, and never lowers the count.
LEMMA SignedAuth ==
    ASSUME NEW a \in Auth
    PROVE  /\ NextAuthorization(a) \in Auth
           /\ NextAuthorization(a).nonce = a.nonce
           /\ NextAuthorization(a).credentials = a.credentials
           /\ a.credentials # "none" => NextAuthorization(a).nc = a.nc + 1
           /\ a.credentials = "none" => NextAuthorization(a).nc = a.nc
    BY DEF Auth, NextAuthorization

\* What Send changes, with the request it builds given a name.
LEMMA SendEffect ==
    ASSUME TypeOK, NEW a \in Auth, NEW k \in Kinds, NEW f \in {0, 1},
           NEW remaining \in SUBSET Txn, Send(a, k, f, remaining)
    PROVE  \E r \in Request :
              /\ r.cseq = cseq + 1 /\ r.kind = k
              /\ r.nonce = a.nonce /\ r.nc = NextAuthorization(a).nc
              /\ cseq' = cseq + 1 /\ cseq' \in Nat
              /\ auth' = NextAuthorization(a) /\ auth' \in Auth
              /\ sent' = sent \cup {r} /\ sent' \in SUBSET Request
              /\ txns' = remaining \cup {[request |-> r, failures |-> f, refused |-> FALSE]}
              /\ txns' \in SUBSET Txn
  <1> DEFINE r == MakeRequest(NextAuthorization(a), k)
  <1>1. NextAuthorization(a) \in Auth /\ NextAuthorization(a).nonce = a.nonce
    BY SignedAuth
  <1>2. /\ r \in Request /\ r.cseq = cseq + 1 /\ r.kind = k
        /\ r.nonce = a.nonce /\ r.nc = NextAuthorization(a).nc
    BY <1>1 DEF MakeRequest, Request, Auth, TypeOK
  <1>3. [request |-> r, failures |-> f, refused |-> FALSE] \in Txn
    BY <1>2 DEF Txn
  <1>4. /\ cseq' = cseq + 1 /\ auth' = NextAuthorization(a)
        /\ sent' = sent \cup {r}
        /\ txns' = remaining \cup {[request |-> r, failures |-> f, refused |-> FALSE]}
    BY DEF Send
  <1> HIDE DEF r
  <1>5. cseq' \in Nat /\ auth' \in Auth /\ sent' \in SUBSET Request
    BY <1>1, <1>2, <1>4 DEF TypeOK
  <1>6. txns' \in SUBSET Txn
    BY <1>3, <1>4
  <1> QED
    BY <1>2, <1>4, <1>5, <1>6, Zenon

-----------------------------------------------------------------------------
(* The inductive invariant.                                                *)

\* The initial state satisfies it.
LEMMA InitIInv == Init => IInv
  <1> SUFFICES ASSUME Init PROVE IInv
    OBVIOUS
  <1> USE DEF Init
  <1>1. TypeOK
    BY DEF TypeOK, States, Auth, Credentials
  <1>2. OneOpen /\ Phase /\ Numbering /\ Signing /\ OneChallengeSigns
    BY DEF OneOpen, Phase, Numbering, Signing, OneChallengeSigns
  <1> QED
    BY <1>1, <1>2 DEF IInv

\* The first REGISTER.
LEMMA StartRegisterKeeps == IInv /\ StartRegister => IInv'
  <1> SUFFICES ASSUME IInv, StartRegister PROVE IInv'
    OBVIOUS
  <1> USE DEF IInv
  <1>1. PICK r \in Request :
           /\ r.cseq = cseq + 1 /\ r.kind = "register"
           /\ r.nonce = auth.nonce /\ r.nc = NextAuthorization(auth).nc
           /\ cseq' = cseq + 1 /\ cseq' \in Nat
           /\ auth' = NextAuthorization(auth) /\ auth' \in Auth
           /\ sent' = sent \cup {r} /\ sent' \in SUBSET Request
           /\ txns' = txns \cup {[request |-> r, failures |-> 0, refused |-> FALSE]}
           /\ txns' \in SUBSET Txn
    <2>1. /\ TypeOK /\ auth \in Auth /\ txns \in SUBSET Txn /\ "register" \in Kinds
          /\ Send(auth, "register", 0, txns)
      BY DEF StartRegister, TypeOK, Kinds
    <2> QED
      BY <2>1, SendEffect
  <1>2. /\ txns = {} /\ sent = {} /\ due = {} /\ timers = {}
        /\ subscribed = FALSE /\ state = "IDLE"
    BY DEF StartRegister, Phase
  <1>3. sent' = {r} /\ txns' = {[request |-> r, failures |-> 0, refused |-> FALSE]}
    BY <1>1, <1>2
  <1>4. TypeOK'
    BY <1>1 DEF TypeOK, StartRegister, States
  <1>5. OneOpen'
    BY <1>3 DEF OneOpen
  <1>6. Phase'
    BY <1>1, <1>2, <1>3 DEF Phase, StartRegister
  <1>7. Numbering'
    BY <1>1, <1>3 DEF Numbering
  <1>8. Signing'
    <2>1. auth.credentials = "none" /\ auth.nonce = NoNonce
      BY <1>2 DEF Phase, Signing
    <2>2. auth'.nonce = NoNonce /\ r.nonce = NoNonce
      BY <1>1, <2>1, SignedAuth DEF TypeOK
    <2> QED
      BY <1>3, <2>2 DEF Signing
  <1>9. OneChallengeSigns'
    <2>1. ~(r.cseq < r.cseq)
      BY <1>1 DEF TypeOK
    <2> QED
      BY <1>1, <1>2, <2>1 DEF OneChallengeSigns
  <1> QED
    BY <1>4, <1>5, <1>6, <1>7, <1>8, <1>9

\* The de-REGISTER: nothing else is open when a bound registration sends it.
LEMMA DeregisterKeeps == IInv /\ Deregister => IInv'
  <1> SUFFICES ASSUME IInv, Deregister PROVE IInv'
    OBVIOUS
  <1> USE DEF IInv
  <1>1. PICK r \in Request :
           /\ r.cseq = cseq + 1 /\ r.kind = "deregister"
           /\ r.nonce = auth.nonce /\ r.nc = NextAuthorization(auth).nc
           /\ cseq' = cseq + 1 /\ cseq' \in Nat
           /\ auth' = NextAuthorization(auth) /\ auth' \in Auth
           /\ sent' = sent \cup {r} /\ sent' \in SUBSET Request
           /\ txns' = txns \cup {[request |-> r, failures |-> 0, refused |-> FALSE]}
           /\ txns' \in SUBSET Txn
    <2>1. /\ TypeOK /\ auth \in Auth /\ txns \in SUBSET Txn /\ "deregister" \in Kinds
          /\ Send(auth, "deregister", 0, txns)
      BY DEF Deregister, TypeOK, Kinds
    <2> QED
      BY <2>1, SendEffect
  <1>2. txns = {} /\ state = "REGISTERED"
    BY DEF Deregister, Phase
  <1>3. txns' = {[request |-> r, failures |-> 0, refused |-> FALSE]}
    BY <1>1, <1>2
  <1>4. TypeOK'
    BY <1>1 DEF TypeOK, Deregister, States
  <1>5. OneOpen'
    <2>1. \A u \in txns' : u.request = r /\ r \in sent'
      BY <1>1, <1>3
    <2>2. \A t, u \in txns' : t = u
      BY <1>3
    <2> QED
      BY <2>1, <2>2 DEF OneOpen
  <1>6. Phase'
    BY <1>1, <1>2, <1>3 DEF Phase, Deregister
  <1>7. Numbering'
    <2>1. \A q \in sent : q.cseq # r.cseq /\ q.kind = "register" /\ q.cseq <= cseq'
      BY <1>1, <1>2 DEF Numbering, Phase, TypeOK, Request, Kinds
    <2> QED
      BY <1>1, <2>1 DEF Numbering
  <1>8. /\ auth.nc \in Nat
        /\ auth'.credentials = auth.credentials /\ auth'.nonce = auth.nonce
        /\ auth.credentials # "none" => r.nc = auth.nc + 1 /\ auth'.nc = auth.nc + 1
    BY <1>1, SignedAuth DEF TypeOK, Auth
  <1>9. r.nonce # NoNonce => auth.credentials # "none"
    BY <1>1, <1>2 DEF Signing
  <1>10. Signing'
    <2>1. \A q \in sent' : q.nonce # NoNonce =>
             /\ q.nonce = auth'.nonce /\ auth'.nc = q.nc + (cseq' - q.cseq)
             /\ auth'.credentials # "none"
      BY <1>1, <1>8, <1>9 DEF Signing, TypeOK, Request
    <2> QED
      BY <1>1, <1>3, <2>1 DEF Signing, Deregister
  <1>11. OneChallengeSigns'
    <2>1. \A q \in sent : q.nonce # NoNonce =>
             r.nonce = q.nonce /\ r.nc = q.nc + (r.cseq - q.cseq)
      BY <1>1, <1>8 DEF Signing, TypeOK, Request
    <2>2. \A q \in sent : ~(r.cseq < q.cseq)
      BY <1>1 DEF Numbering, TypeOK, Request
    <2>3. ~(r.cseq < r.cseq)
      BY <1>1 DEF TypeOK
    <2> QED
      BY <1>1, <2>1, <2>2, <2>3 DEF OneChallengeSigns
  <1> QED
    BY <1>4, <1>5, <1>6, <1>7, <1>10, <1>11

\* The answer to the first challenge: nothing was signed before it.
LEMMA ChallengeKeeps ==
    ASSUME IInv, NEW t \in txns, NEW n \in Nonces, NEW answer \in Answers,
           OnChallenge(t, n, answer)
    PROVE  IInv'
  <1> USE DEF IInv
  <1> DEFINE a == [nonce |-> n, credentials |-> answer, nc |-> 0]
  <1>1. a \in Auth /\ answer # "none" /\ t \in Txn
    BY DEF Auth, Answers, Credentials, TypeOK
  <1>2. PICK r \in Request :
           /\ r.cseq = cseq + 1 /\ r.kind = "register"
           /\ r.nonce = a.nonce /\ r.nc = NextAuthorization(a).nc
           /\ cseq' = cseq + 1 /\ cseq' \in Nat
           /\ auth' = NextAuthorization(a) /\ auth' \in Auth
           /\ sent' = sent \cup {r} /\ sent' \in SUBSET Request
           /\ txns' = (txns \ {t}) \cup {[request |-> r, failures |-> 1, refused |-> FALSE]}
           /\ txns' \in SUBSET Txn
    <2>1. Send(a, "register", 1, txns \ {t}) /\ txns \ {t} \in SUBSET Txn
      BY DEF OnChallenge, TypeOK
    <2> QED
      BY <1>1, <2>1, SendEffect DEF Kinds
  <1>3. /\ auth'.nonce = n /\ auth'.credentials = answer
        /\ auth'.nc = 1 /\ r.nc = 1 /\ r.nonce = n
    BY <1>1, <1>2, SignedAuth
  <1>4. txns' = {[request |-> r, failures |-> 1, refused |-> FALSE]}
    BY <1>2 DEF OneOpen
  <1>5. state = "REQUESTING" /\ state' = state
    BY DEF OnChallenge, Phase, TypeOK, States
  <1>6. \A q \in sent : q.nonce = NoNonce /\ q.cseq # r.cseq /\ q.kind = "register"
    BY <1>2, <1>5 DEF OnChallenge, Signing, Numbering, Phase, TypeOK, Request
  <1>7. TypeOK'
    BY <1>2 DEF TypeOK, OnChallenge
  <1>8. OneOpen'
    <2>1. \A u \in txns' : u.request = r /\ r \in sent'
      BY <1>2, <1>4
    <2>2. \A v, u \in txns' : v = u
      BY <1>4
    <2> QED
      BY <2>1, <2>2 DEF OneOpen
  <1>9. Phase'
    <2>1. due' = due /\ timers' = timers /\ subscribed' = subscribed
      BY DEF OnChallenge
    <2>2. due = {} /\ timers = {} /\ subscribed = FALSE
      BY <1>5 DEF Phase
    <2>3. \A q \in sent' : q.kind = "register"
      BY <1>2, <1>6
    <2>4. \A u \in txns' : u.request.kind = "register"
      BY <1>2, <1>4
    <2>5. txns' # {}
      BY <1>4
    <2> QED
      BY <1>5, <2>1, <2>2, <2>3, <2>4, <2>5 DEF Phase
  <1>10. Numbering'
    <2>1. \A q \in sent : q.cseq <= cseq'
      BY <1>2 DEF Numbering, TypeOK, Request
    <2> QED
      BY <1>2, <1>6, <2>1 DEF Numbering
  <1>11. Signing'
    BY <1>1, <1>2, <1>3, <1>4, <1>6 DEF Signing
  <1>12. OneChallengeSigns'
    <2>1. ~(r.cseq < r.cseq)
      BY <1>2 DEF TypeOK
    <2>2. \A q \in sent : ~(r.cseq < q.cseq)
      BY <1>2 DEF Numbering, TypeOK, Request
    <2> QED
      BY <1>2, <1>6, <2>1, <2>2 DEF OneChallengeSigns
  <1> QED
    BY <1>7, <1>8, <1>9, <1>10, <1>11, <1>12

\* A 2xx: it binds, because only a requesting registration has an open
\* REGISTER.
LEMMA SuccessKeeps ==
    ASSUME IInv, NEW t \in txns, NEW lifetime \in Expiries, OnSuccess(t, lifetime)
    PROVE  IInv'
  <1> USE DEF IInv
  <1>1. state = "REQUESTING" /\ due = {} /\ timers = {} /\ subscribed = FALSE
    BY DEF OnSuccess, GrantedUntil, Phase, TypeOK, States
  <1>2. /\ state' = "REGISTERED" /\ expiration' = now + lifetime
        /\ due' = due \cup {now + lifetime}
        /\ txns' = txns \ {t} /\ subscribed' \in BOOLEAN
        /\ UNCHANGED <<cseq, auth, sent, timers, now>>
    BY <1>1 DEF OnSuccess, GrantedUntil
  <1>3. txns' = {}
    BY <1>2 DEF OneOpen
  <1>4. TypeOK'
    <2>1. now + lifetime \in Nat
      BY RegistrationAssumption DEF TypeOK
    <2> QED
      BY <1>2, <1>3, <2>1 DEF TypeOK, States
  <1>5. OneOpen' /\ Numbering' /\ OneChallengeSigns'
    BY <1>2, <1>3 DEF OneOpen, Numbering, OneChallengeSigns
  <1>6. Phase'
    BY <1>1, <1>2, <1>3 DEF Phase
  <1>7. Signing'
    <2>1. ~ \E u \in txns : u.refused
      BY DEF OnSuccess, OneOpen
    <2> QED
      BY <1>1, <1>2, <1>3, <2>1 DEF Signing
  <1> QED
    BY <1>4, <1>5, <1>6, <1>7

\* schedule_refresh starts no task for the expiration in force.
LEMMA ScheduleKeeps ==
    ASSUME IInv, NEW e \in due, ScheduleRefresh(e) PROVE IInv'
  <1> USE DEF IInv
  <1>1. /\ due' = due \ {e}
        /\ timers' \subseteq timers \cup {e}
        /\ state = "REGISTERED" /\ e = expiration => timers' = timers
        /\ UNCHANGED <<state, expiration, cseq, auth, sent, txns, subscribed, now>>
    BY DEF ScheduleRefresh, IsInForce
  <1>2. e \in Nat /\ timers' \in SUBSET Nat
    BY <1>1 DEF TypeOK
  <1>3. TypeOK' /\ OneOpen' /\ Numbering' /\ Signing' /\ OneChallengeSigns'
    BY <1>1, <1>2 DEF TypeOK, OneOpen, Numbering, Signing, OneChallengeSigns
  <1>4. Phase'
    BY <1>1 DEF Phase
  <1> QED
    BY <1>3, <1>4

\* A refresh task never finds its expiration in force, so it sends nothing.
LEMMA RefreshTaskIdle ==
    ASSUME IInv, NEW e \in timers, RefreshTaskWakes(e)
    PROVE  /\ timers' = timers \ {e}
           /\ UNCHANGED <<state, expiration, cseq, auth, sent, txns, due, subscribed, now>>
    BY DEF IInv, Phase, RefreshTaskWakes, ShouldRefresh

\* The steps that send nothing and bind nothing.
LEMMA RefreshTaskKeeps ==
    ASSUME IInv, NEW e \in timers, RefreshTaskWakes(e) PROVE IInv'
    BY RefreshTaskIdle
    DEF IInv, TypeOK, OneOpen, Phase, Numbering, Signing, OneChallengeSigns

LEMMA ExpirationRefreshedKeeps ==
    ASSUME IInv, NEW lifetime \in Expiries, OnExpirationRefreshed(lifetime) PROVE IInv'
  <1> USE DEF IInv
  <1>1. now + lifetime \in Nat
    BY RegistrationAssumption DEF TypeOK
  <1>2. /\ subscribed = TRUE
        /\ due' = due \cup {now + lifetime}
        /\ UNCHANGED <<state, expiration, cseq, auth, sent, txns, timers, subscribed, now>>
    BY DEF OnExpirationRefreshed, TypeOK
  <1>3. TypeOK' /\ OneOpen' /\ Numbering' /\ Signing' /\ OneChallengeSigns'
    BY <1>1, <1>2 DEF TypeOK, OneOpen, Numbering, Signing, OneChallengeSigns
  <1>4. Phase'
    BY <1>2 DEF Phase
  <1> QED
    BY <1>3, <1>4

\* A challenge that cannot be answered: its request stays open, nothing was
\* signed before it and nothing can be signed after it.
LEMMA BadChallengeKeeps ==
    ASSUME IInv, NEW t \in txns, OnBadChallenge(t) PROVE IInv'
  <1> USE DEF IInv
  <1> DEFINE u == [t EXCEPT !.refused = TRUE]
  <1>1. /\ txns' = (txns \ {t}) \cup {u}
        /\ UNCHANGED <<state, expiration, cseq, sent, due, timers, subscribed, now>>
    BY DEF OnBadChallenge
  <1>2. t \in Txn /\ u \in Txn /\ u.request = t.request /\ u.failures = t.failures
    BY DEF TypeOK, Txn
  <1>3. txns' = {u}
    BY <1>1 DEF OneOpen
  <1>4. state = "REQUESTING" /\ t.request.kind = "register"
    BY DEF OnBadChallenge, Phase, TypeOK, States
  <1>5. \A r \in sent : r.nonce = NoNonce
    BY DEF OnBadChallenge, Signing
  <1>6. auth' \in Auth
    BY DEF OnBadChallenge, Auth, Credentials
  <1>7. TypeOK'
    BY <1>1, <1>2, <1>3, <1>6 DEF TypeOK
  <1>8. OneOpen'
    BY <1>1, <1>2, <1>3 DEF OneOpen
  <1>9. Phase'
    BY <1>1, <1>2, <1>3, <1>4 DEF Phase
  <1>10. Numbering' /\ OneChallengeSigns'
    BY <1>1 DEF Numbering, OneChallengeSigns
  <1>11. Signing'
    <2>1. \A r \in sent' : r.nonce = NoNonce
      BY <1>1, <1>5
    <2>2. u.refused
      BY <1>2 DEF Txn
    <2>3. \A v \in txns' : v = u
      BY <1>3
    <2>4. t.failures = 0
      BY DEF OnBadChallenge
    <2> QED
      BY <1>3, <2>1, <2>2, <2>3, <2>4 DEF Signing
  <1> QED
    BY <1>7, <1>8, <1>9, <1>10, <1>11

LEMMA EndingKeeps ==
    ASSUME IInv, NEW t \in txns, OnRefused(t) \/ OnDeregisterEnded(t)
    PROVE  IInv'
  <1> USE DEF IInv
  <1>1. /\ state' = "RELEASED" /\ txns' = txns \ {t}
        /\ UNCHANGED <<expiration, cseq, auth, sent, due, timers, subscribed, now>>
    <2>1. CASE OnRefused(t)
      BY <2>1 DEF OnRefused, Release
    <2>2. CASE OnDeregisterEnded(t)
      <3>1. t.request \in sent /\ t.request.kind = "deregister"
        BY <2>2 DEF OnDeregisterEnded, OneOpen
      <3>2. state = "RELEASED"
        BY <3>1 DEF Phase
      <3> QED
        BY <2>2, <3>2 DEF OnDeregisterEnded
    <2> QED
      BY <2>1, <2>2
  <1>2. txns' = {}
    BY <1>1 DEF OneOpen
  <1>3. TypeOK'
    BY <1>1, <1>2 DEF TypeOK, States
  <1>4. OneOpen' /\ Phase' /\ Numbering' /\ OneChallengeSigns'
    BY <1>1, <1>2 DEF OneOpen, Phase, Numbering, OneChallengeSigns
  <1>5. Signing'
    BY <1>1, <1>2 DEF Signing
  <1> QED
    BY <1>3, <1>4, <1>5

LEMMA TickKeeps == IInv /\ Tick => IInv'
    BY DEF Tick, IInv, TypeOK, OneOpen, Phase, Numbering, Signing, OneChallengeSigns

LEMMA StutterKeeps == IInv /\ UNCHANGED vars => IInv'
    BY DEF vars, IInv, TypeOK, OneOpen, Phase, Numbering, Signing, OneChallengeSigns

\* The invariant is inductive.
THEOREM Invariance == Spec => []IInv
  <1>1. Init => IInv
    BY InitIInv
  <1>2. IInv /\ [Next]_vars => IInv'
    <2> SUFFICES ASSUME IInv, [Next]_vars PROVE IInv'
      OBVIOUS
    <2>1. CASE StartRegister
      BY <2>1, StartRegisterKeeps
    <2>2. CASE Deregister
      BY <2>2, DeregisterKeeps
    <2>3. CASE \E e \in timers : RefreshTaskWakes(e)
      BY <2>3, RefreshTaskKeeps
    <2>4. CASE \E lifetime \in Expiries : OnExpirationRefreshed(lifetime)
      BY <2>4, ExpirationRefreshedKeeps
    <2>5. CASE \E t \in txns : TransactionEnds(t)
      <3>1. PICK t \in txns : TransactionEnds(t)
        BY <2>5
      <3>2. CASE \E lifetime \in Expiries : OnSuccess(t, lifetime)
        BY <3>2, SuccessKeeps
      <3>3. CASE \E n \in Nonces, answer \in Answers : OnChallenge(t, n, answer)
        BY <3>3, ChallengeKeeps
      <3>4. CASE OnBadChallenge(t)
        BY <3>4, BadChallengeKeeps
      <3>5. CASE OnRefused(t) \/ OnDeregisterEnded(t)
        BY <3>5, EndingKeeps
      <3> QED
        BY <3>1, <3>2, <3>3, <3>4, <3>5 DEF TransactionEnds
    <2>6. CASE Tick
      BY <2>6, TickKeeps
    <2>7. CASE UNCHANGED vars
      BY <2>7, StutterKeeps
    <2>8. CASE \E e \in due : ScheduleRefresh(e)
      BY <2>8, ScheduleKeeps
    <2> QED
      BY <2>1, <2>2, <2>3, <2>4, <2>5, <2>6, <2>7, <2>8 DEF Next
  <1> QED
    BY <1>1, <1>2, PTL DEF Spec

\* Every state of the registration is well typed.
THEOREM TypeCorrect == Spec => []TypeOK
    BY Invariance, PTL DEF IInv

\* Every request after the answered challenge is signed for it, with the next
\* count.
THEOREM OneChallenge == Spec => []OneChallengeSigns
    BY Invariance, PTL DEF IInv

\* The de-REGISTER is the last request of its Call-ID, and nothing that could
\* re-create the binding is open beside it.
THEOREM LastWord == Spec => []DeregisterIsLast
  <1>1. IInv => DeregisterIsLast
    <2> SUFFICES ASSUME IInv, NEW d \in sent, d.kind = "deregister"
                 PROVE  /\ \A r \in sent \ {d} : r.cseq < d.cseq
                        /\ \A t \in txns : t.request = d
      BY DEF DeregisterIsLast
    <2>1. d.cseq = cseq /\ cseq \in Nat
      BY DEF IInv, Numbering, TypeOK
    <2>2. ASSUME NEW r \in sent \ {d} PROVE r.cseq < d.cseq
      <3>1. r.cseq \in Nat /\ r.cseq <= cseq /\ r.cseq # d.cseq
        BY DEF IInv, Numbering, TypeOK, Request
      <3> QED
        BY <2>1, <3>1
    <2>3. ASSUME NEW t \in txns PROVE t.request = d
      <3>1. state = "RELEASED"
        BY DEF IInv, Phase, TypeOK, Kinds
      <3>2. t.request \in sent /\ t.request.kind = "deregister"
        BY <3>1 DEF IInv, Phase, OneOpen
      <3>3. t.request.cseq = d.cseq
        BY <2>1, <3>2 DEF IInv, Numbering
      <3> QED
        BY <3>2, <3>3 DEF IInv, Numbering
    <2> QED
      BY <2>2, <2>3
  <1> QED
    BY <1>1, Invariance, PTL

-----------------------------------------------------------------------------
(* The refinement.                                                         *)

\* What the open transactions look like to the owner, in each state.
View ==
    /\ \A t \in txns : InFlight = t.request.kind
    /\ state \in {"IDLE", "REGISTERED"} => InFlight = "none"
    /\ state = "REQUESTING" => InFlight = "register"
    /\ state = "RELEASED" => InFlight \in {"none", "deregister"}

LEMMA ViewOfInvariant == IInv => View
  <1> SUFFICES ASSUME IInv PROVE View
    OBVIOUS
  <1>1. txns = {} => InFlight = "none"
    BY DEF InFlight
  <1>2. ASSUME NEW t \in txns PROVE InFlight = t.request.kind
    <2>1. txns = {t} /\ t.request.kind \in Kinds
      BY DEF IInv, OneOpen, TypeOK, Txn, Request
    <2> QED
      BY <2>1 DEF InFlight, Kinds
  <1> QED
    BY <1>1, <1>2 DEF IInv, Phase, View

LEMMA ViewAfterStep == IInv' => View'
    BY ViewOfInvariant, PTL

LEMMA DeregisterInFlight == ASSUME IInv, Deregister PROVE InFlight' = "deregister"
  <1>1. /\ TypeOK /\ auth \in Auth /\ txns \in SUBSET Txn /\ "deregister" \in Kinds
        /\ Send(auth, "deregister", 0, txns)
    BY DEF IInv, Deregister, TypeOK, Kinds
  <1>2. \E t \in txns' : t.request.kind = "deregister"
    <2>1. PICK r \in Request :
             /\ r.kind = "deregister"
             /\ txns' = txns \cup {[request |-> r, failures |-> 0, refused |-> FALSE]}
      BY <1>1, SendEffect
    <2>2. [request |-> r, failures |-> 0, refused |-> FALSE].request.kind = "deregister"
      BY <2>1
    <2> QED
      BY <2>1, <2>2
  <1> QED
    BY <1>2 DEF InFlight

\* The end of a transaction is what the owner sees of it.
LEMMA TransactionMaps ==
    ASSUME IInv, IInv', NEW t \in txns, TransactionEnds(t)
    PROVE  Abstract!Next \/ UNCHANGED Abstract!vars
  <1> USE DEF Abstract!Next, Abstract!vars
  <1>1. View /\ View'
    BY ViewOfInvariant, ViewAfterStep
  <1>2. /\ t.request.kind = "register" => state = "REQUESTING"
        /\ t.request.kind = "deregister" => state = "RELEASED"
    BY DEF IInv, OneOpen, Phase, TypeOK, States
  <1>3. txns \ {t} = {}
    BY DEF IInv, OneOpen
  <1>4. txns' = {} => InFlight' = "none"
    BY DEF InFlight
  <1>5. CASE \E lifetime \in Expiries : OnSuccess(t, lifetime)
    BY <1>1, <1>2, <1>5 DEF OnSuccess, View, Abstract!Bind
  <1>6. CASE \E n \in Nonces, answer \in Answers : OnChallenge(t, n, answer)
    BY <1>1, <1>2, <1>6 DEF OnChallenge, View
  <1>7. CASE OnRefused(t)
    <2>1. /\ t.request.kind = "register"
          /\ state' = "RELEASED" /\ txns' = txns \ {t}
      BY <1>7 DEF OnRefused, Release
    <2> QED
      BY <1>2, <1>3, <1>4, <2>1 DEF Abstract!Refuse
  <1>8. CASE OnDeregisterEnded(t)
    BY <1>1, <1>2, <1>3, <1>4, <1>8 DEF OnDeregisterEnded, View, Abstract!Forget
  <1>9. CASE OnBadChallenge(t)
    BY <1>1, <1>2, <1>9 DEF OnBadChallenge, View
  <1> QED
    BY <1>5, <1>6, <1>7, <1>8, <1>9 DEF TransactionEnds

\* A registration implements the lifecycle its owner relies on: every step of
\* it is a step of RegistrationLifecycle or invisible to the owner.
THEOREM Refinement == Spec => Lifecycle
  <1>1. Init => Abstract!Init
    BY DEF Init, Abstract!Init, InFlight
  <1>2. IInv /\ IInv' /\ [Next]_vars => [Abstract!Next]_(Abstract!vars)
    <2> SUFFICES ASSUME IInv, IInv', [Next]_vars PROVE Abstract!Next \/ UNCHANGED Abstract!vars
      OBVIOUS
    <2> USE DEF Abstract!vars, Abstract!Next
    <2> USE ViewOfInvariant, ViewAfterStep
    <2>1. CASE StartRegister
      BY <2>1 DEF StartRegister, Abstract!Ask, View
    <2>2. CASE Deregister
      BY <2>2, DeregisterInFlight DEF Deregister, Abstract!Unbind, View
    <2>3. CASE \E e \in timers : RefreshTaskWakes(e)
      <3>1. UNCHANGED <<state, txns>>
        BY <2>3, RefreshTaskIdle
      <3> QED
        BY <3>1 DEF InFlight
    <2>4. CASE \E lifetime \in Expiries : OnExpirationRefreshed(lifetime)
      BY <2>4 DEF OnExpirationRefreshed, InFlight
    <2>5. CASE \E t \in txns : TransactionEnds(t)
      BY <2>5, TransactionMaps
    <2>6. CASE Tick
      BY <2>6 DEF Tick, InFlight
    <2>7. CASE UNCHANGED vars
      BY <2>7 DEF vars, InFlight
    <2>8. CASE \E e \in due : ScheduleRefresh(e)
      BY <2>8 DEF ScheduleRefresh, InFlight
    <2> QED
      BY <2>1, <2>2, <2>3, <2>4, <2>5, <2>6, <2>7, <2>8 DEF Next
  <1> QED
    BY <1>1, <1>2, Invariance, PTL DEF Spec, Lifecycle, Abstract!Spec
=============================================================================
