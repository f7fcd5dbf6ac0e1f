--------------------------- MODULE IncomingInvite ---------------------------
(***************************************************************************)
(* What a service promises of the INVITEs it is given: each is answered at *)
(* most once, what it sets up runs only after the answer was acknowledged, *)
(* and one that was accepted is answered, unless the thread that does so   *)
(* dies or the service is blocked.                                         *)
(*                                                                         *)
(* CpmSessions.tla and Conference.tla implement it.                        *)
(***************************************************************************)
CONSTANT Invites

VARIABLES
    phase,      \* of each: new, offered, accepted, answered, running, declined or dead
    blocked     \* the service cannot answer anybody any more

vars == <<phase, blocked>>

Init == phase = [i \in Invites |-> "new"] /\ blocked = FALSE

Becomes(i, old, new) ==
    /\ phase[i] \in old
    /\ phase' = [phase EXCEPT ![i] = new]
    /\ UNCHANGED blocked

\* The host is asked.
Offer(i) == Becomes(i, {"new"}, "offered")

\* The host, or the configuration in its place, wants it.
Accept(i) == Becomes(i, {"new", "offered"}, "accepted")

\* It is refused, or was taken back.
Decline(i) == Becomes(i, {"new", "offered", "accepted"}, "declined")

Answer(i) == Becomes(i, {"accepted"}, "answered")

\* The thread that handles it dies.
Die(i) == Becomes(i, {"new", "accepted"}, "dead")

Run(i) == Becomes(i, {"answered"}, "running")

Block == ~blocked /\ blocked' = TRUE /\ UNCHANGED phase

Next ==
    \/ \E i \in Invites :
        Offer(i) \/ Accept(i) \/ Decline(i) \/ Answer(i) \/ Die(i) \/ Run(i)
    \/ Block

Resolve(i) == ~blocked /\ phase[i] = "accepted" /\ (Answer(i) \/ Decline(i) \/ Die(i))

Spec == Init /\ [][Next]_vars /\ \A i \in Invites : WF_vars(Resolve(i))
=============================================================================
