---------------------------- MODULE HttpTransfer ----------------------------
(***************************************************************************)
(* What the transfers of a file over HTTP have in common (ft_http): calls  *)
(* of the host, each with a request to the same server, and the security   *)
(* context they share, which may have an authorization for it.             *)
(***************************************************************************)
EXTENDS Naturals

CONSTANTS
    Calls,      \* what the host may have running with one file
    Size        \* of the file, in bytes

VARIABLES
    stored,     \* the security context has an authorization for the server
    step,       \* of each call: idle, or the request it is at
    auth,       \* of its request: none, stored or answer (to a challenge)
    result      \* of each call that is over

\* preload_auth, of a request that answers no challenge
Preload == IF stored THEN "stored" ELSE "none"

\* The Authentication-Info of an accepted request is kept, if there is one.
Keeps(c) == stored' \in {stored, stored \/ auth[c] # "none"}
=============================================================================
