--------------------------- MODULE MCRegistration ---------------------------
(* A registration against a registrar with two nonces and two lifetimes.   *)
EXTENDS Registration

\* The lifetimes the registrar grants.
MCExpiries == {1, 2}
=============================================================================
