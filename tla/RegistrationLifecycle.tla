----------------------- MODULE RegistrationLifecycle -----------------------
(***************************************************************************)
(* What one SIP registration promises to the engine that owns it: it is    *)
(* requested once, bound at most once, released for good, and at every     *)
(* moment at most one request of it is in flight.  A release that follows  *)
(* a binding is announced to the registrar, and nothing is sent after it.  *)
(*                                                                         *)
(* Registration.tla (one registration with its authentication, timers and  *)
(* transactions) implements this specification.                            *)
(***************************************************************************)
VARIABLES
    state,      \* IDLE, REQUESTING, REGISTERED or RELEASED
    inFlight    \* the request the registrar has not answered yet

vars == <<state, inFlight>>

States   == {"IDLE", "REQUESTING", "REGISTERED", "RELEASED"}
Requests == {"none", "register", "deregister"}

Init == state = "IDLE" /\ inFlight = "none"

\* The registration is requested.
Ask == /\ state = "IDLE"
       /\ state' = "REQUESTING"
       /\ inFlight' = "register"

\* The registrar accepts: the binding exists and nothing is in flight.
Bind == /\ state = "REQUESTING"
        /\ state' = "REGISTERED"
        /\ inFlight' = "none"

\* The registrar refuses, or the request is lost.
Refuse == /\ state = "REQUESTING"
          /\ state' = "RELEASED"
          /\ inFlight' = "none"

\* The owner gives the binding up and says so.
Unbind == /\ state = "REGISTERED"
          /\ state' = "RELEASED"
          /\ inFlight' = "deregister"

\* The registrar has heard, or will never hear.
Forget == /\ state = "RELEASED"
          /\ inFlight = "deregister"
          /\ inFlight' = "none"
          /\ UNCHANGED state

Next == Ask \/ Bind \/ Refuse \/ Unbind \/ Forget

Spec == Init /\ [][Next]_vars
=============================================================================
