--------------------------- MODULE MCCpmSessions ----------------------------
(***************************************************************************)
(* Two INVITEs of one contact, so that one can stand before the other in   *)
(* the lists.                                                              *)
(***************************************************************************)
EXTENDS CpmSessions

CONSTANT ann

FromAnn == [i \in Invitations |-> ann]
=============================================================================
