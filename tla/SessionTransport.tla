-------------------------- MODULE SessionTransport --------------------------
(***************************************************************************)
(* What a media session promises to the dialog it belongs to: it opens one *)
(* stream at most, it never starts to once the dialog has ended, and a     *)
(* stream of an ended dialog does not stay.                                *)
(*                                                                         *)
(* StandaloneSend.tla and StandaloneReceive.tla implement it.              *)
(***************************************************************************)
VARIABLES
    phase,  \* ready, connecting, open or over
    ended   \* the dialog was terminated

vars == <<phase, ended>>

Init == phase = "ready" /\ ended = FALSE

Begin == /\ phase = "ready"
         /\ ~ended
         /\ phase' = "connecting"
         /\ UNCHANGED ended

Open == /\ phase = "connecting"
        /\ phase' = "open"
        /\ UNCHANGED ended

Over == /\ phase \in {"connecting", "open"}
        /\ phase' = "over"
        /\ UNCHANGED ended

End == /\ ~ended
       /\ ended' = TRUE
       /\ phase' = IF phase = "ready" THEN "over" ELSE phase

Next == Begin \/ Open \/ Over \/ End

\* Of an ended dialog the stream is over in the end.
Spec == Init /\ [][Next]_vars /\ WF_vars(ended /\ (Open \/ Over))
=============================================================================
