----------------------------- MODULE Conference -----------------------------
(***************************************************************************)
(* The conferences of conference/mod.rs: those the host creates and those  *)
(* it is invited to, the answer it gives through a response receiver, and  *)
(* the channel and the loop that bring a conference's events to it.        *)
(*                                                                         *)
(* The dialog and the transactions are those of the SIP library: an end of *)
(* the dialog is reported by a request, by a response, or by both.         *)
(***************************************************************************)
EXTENDS Naturals

CONSTANTS
    Created,    \* the conferences the host creates
    Invited,    \* those it is invited to
    Room        \* of the channel of a conference's events

ASSUME DisjointAssumption == Created \cap Invited = {}
ASSUME RoomAssumption == Room \in Nat \ {0}

Conferences == Created \cup Invited

VARIABLES
    creation,   \* of a created one: new, inviting, usable, failed, silent, confirmed,
                \* started, and the result: none or some
    stage,      \* of an INVITE: new, asked, listening, sent, answered, refused, rung
    response,   \* what the host put into the oneshot: nothing, accepts, declines
    acked,      \* an ACK waits for the mutex of event_listener
    joined,     \* the ACK was sent or taken
    loop,       \* of the events: its receiver is kept, it is running or gone
    ended,      \* what reported the end of the dialog: request, response
    sending,    \* the tasks that wait to send that
    channel     \* the events in the channel

createdVars == creation
invitedVars == <<stage, response, acked>>
eventVars == <<ended, sending, channel>>
vars == <<createdVars, invitedVars, joined, loop, eventVars>>

Reports == {"request", "response"}

TypeOK ==
    /\ creation \in [Created -> {"new", "inviting", "usable", "failed", "silent",
                                 "confirmed", "started", "none", "some"}]
    /\ stage \in [Invited -> {"new", "asked", "listening", "sent", "answered",
                              "refused", "rung"}]
    /\ response \in [Invited -> {"nothing", "accepts", "declines"}]
    /\ acked \in [Invited -> BOOLEAN]
    /\ joined \in [Conferences -> BOOLEAN]
    /\ loop \in [Conferences -> {"kept", "running", "gone"}]
    /\ ended \in [Conferences -> SUBSET Reports]
    /\ sending \in [Conferences -> 0..2]
    /\ channel \in [Conferences -> 0..Room]

Init ==
    /\ creation = [c \in Created |-> "new"]
    /\ stage = [c \in Invited |-> "new"]
    /\ response = [c \in Invited |-> "nothing"]
    /\ acked = [c \in Invited |-> FALSE]
    /\ joined = [c \in Conferences |-> FALSE]
    /\ loop = [c \in Conferences |-> "kept"]
    /\ ended = [c \in Conferences |-> {}]
    /\ sending = [c \in Conferences |-> 0]
    /\ channel = [c \in Conferences |-> 0]

-----------------------------------------------------------------------------
(***************************************************************************)
(* A conference the host creates.                                          *)
(***************************************************************************)
Becomes(c, old, new) ==
    /\ creation[c] = old
    /\ creation' = [creation EXCEPT ![c] = new]
    /\ UNCHANGED <<invitedVars, eventVars>>

\* Without an identity the result is there at once.
Create(c) ==
    /\ \E next \in {"inviting", "none"} : Becomes(c, "new", next)
    /\ UNCHANGED <<joined, loop>>

\* A usable 2xx; a 2xx without headers or Contact, or a transport error, which
\* are failures; a refusal or a 2xx without an SDP, of which nothing is told.
Responds(c) ==
    /\ \E next \in {"usable", "failed", "silent"} : Becomes(c, "inviting", next)
    /\ UNCHANGED <<joined, loop>>

\* The dialog is made, its callbacks set, and the ACK sent.
Confirms(c) ==
    /\ Becomes(c, "usable", "confirmed")
    /\ joined' = [joined EXCEPT ![c] = TRUE]
    /\ UNCHANGED loop

CannotConfirm(c) == Becomes(c, "usable", "none") /\ UNCHANGED <<joined, loop>>

\* The host may have given no listener: the events are dropped.
Starts(c) ==
    /\ Becomes(c, "confirmed", "started")
    /\ \E next \in {"running", "gone"} : loop' = [loop EXCEPT ![c] = next]
    /\ UNCHANGED joined

\* The host hears of the conference, perhaps after an event of it.
Succeeds(c) == Becomes(c, "started", "some") /\ UNCHANGED <<joined, loop>>

Fails(c) == Becomes(c, "failed", "none") /\ UNCHANGED <<joined, loop>>

-----------------------------------------------------------------------------
(***************************************************************************)
(* A conference the host is invited to.                                    *)
(***************************************************************************)
Goes(c, old, new) ==
    /\ stage[c] = old
    /\ stage' = [stage EXCEPT ![c] = new]
    /\ UNCHANGED <<creation, joined, eventVars>>

\* 400.
Refuses(c) == Goes(c, "new", "refused") /\ UNCHANGED <<response, acked, loop>>

\* The 180 is sent only when no dialog can be made, and nothing after it.
OnlyRings(c) == Goes(c, "new", "rung") /\ UNCHANGED <<response, acked, loop>>

\* The dialog is early, and the handler of the host called with a receiver.
Asks(c) == Goes(c, "new", "asked") /\ UNCHANGED <<response, acked, loop>>

\* Faulty variant: the receiver's sender is not taken out.
Answers_Again(c) ==
    /\ stage[c] = "asked"
    /\ \E what \in {"accepts", "declines"} : response' = [response EXCEPT ![c] = what]
    /\ UNCHANGED <<creation, stage, acked, joined, loop, eventVars>>

\* accept_result with a status of 2xx and a listener; or with another status,
\* without a listener, drop_result, or the receiver is freed.
Answers(c) ==
    /\ stage[c] = "asked"
    /\ response[c] = "nothing"
    /\ \E what \in {"accepts", "declines"} : response' = [response EXCEPT ![c] = what]
    /\ UNCHANGED <<creation, stage, acked, joined, loop, eventVars>>

\* 486, and the receiver of the events is dropped with the task.
Declines(c) ==
    /\ response[c] = "declines"
    /\ Goes(c, "asked", "refused")
    /\ loop' = [loop EXCEPT ![c] = "gone"]
    /\ UNCHANGED <<response, acked>>

\* The listener is put in place, under its mutex.  A CANCEL is not heard:
\* the task that should tell of it dies in a todo!().
Accepts(c) ==
    /\ response[c] = "accepts"
    /\ Goes(c, "asked", "listening")
    /\ UNCHANGED <<response, acked, loop>>

\* The dialog is confirmed and the 200 sent, still under it.
Sends(c) == Goes(c, "listening", "sent") /\ UNCHANGED <<response, acked, loop>>

LetsGo(c) == Goes(c, "sent", "answered") /\ UNCHANGED <<response, acked, loop>>

Acknowledged(c) ==
    /\ stage[c] \in {"sent", "answered"}
    /\ ~acked[c]
    /\ acked' = [acked EXCEPT ![c] = TRUE]
    /\ UNCHANGED <<creation, stage, response, joined, loop, eventVars>>

Held(c) == stage[c] \in {"listening", "sent"}

\* Faulty variant: with try_lock, an ACK that finds the mutex taken is lost.
OnAck_TryLock(c) ==
    /\ acked[c]
    /\ ~joined[c]
    /\ joined' = [joined EXCEPT ![c] = TRUE]
    /\ loop' = IF Held(c) THEN loop ELSE [loop EXCEPT ![c] = "running"]
    /\ UNCHANGED <<creation, invitedVars, eventVars>>

\* on_ack: the listener is taken out once, whatever is sent again.
OnAck(c) ==
    /\ acked[c]
    /\ ~joined[c]
    /\ ~Held(c)
    /\ joined' = [joined EXCEPT ![c] = TRUE]
    /\ loop' = [loop EXCEPT ![c] = "running"]
    /\ UNCHANGED <<creation, invitedVars, eventVars>>

-----------------------------------------------------------------------------
(***************************************************************************)
(* The events of a conference.                                             *)
(***************************************************************************)
HasDialog(c) ==
    IF c \in Created THEN creation[c] \in {"confirmed", "started", "some"}
    ELSE stage[c] \in {"asked", "listening", "sent", "answered"}

\* Each report is sent by a task of its own.
Ends(c, report) ==
    /\ HasDialog(c)
    /\ report \notin ended[c]
    /\ ended' = [ended EXCEPT ![c] = @ \cup {report}]
    /\ sending' = [sending EXCEPT ![c] = @ + 1]
    /\ UNCHANGED <<creation, invitedVars, joined, loop, channel>>

\* Faulty variant: sends without waiting for room.
SendsEnd_Full(c) ==
    /\ sending[c] > 0
    /\ sending' = [sending EXCEPT ![c] = @ - 1]
    /\ channel' = [channel EXCEPT ![c] = @ + 1]
    /\ UNCHANGED <<creation, invitedVars, joined, loop, ended>>

SendsEnd(c) ==
    /\ sending[c] > 0
    /\ loop[c] # "gone" => channel[c] < Room
    /\ sending' = [sending EXCEPT ![c] = @ - 1]
    /\ channel' = IF loop[c] = "gone" THEN channel ELSE [channel EXCEPT ![c] = @ + 1]
    /\ UNCHANGED <<creation, invitedVars, joined, loop, ended>>

\* The host's listener is called.
Hears(c) ==
    /\ loop[c] = "running"
    /\ channel[c] > 0
    /\ channel' = [channel EXCEPT ![c] = @ - 1]
    /\ UNCHANGED <<creation, invitedVars, joined, loop, ended, sending>>

-----------------------------------------------------------------------------
CreatedStep(c) ==
    \/ Create(c) \/ Responds(c) \/ Confirms(c) \/ CannotConfirm(c)
    \/ Starts(c) \/ Succeeds(c) \/ Fails(c)

InvitedStep(c) ==
    \/ Refuses(c) \/ OnlyRings(c) \/ Asks(c) \/ Answers(c) \/ Declines(c)
    \/ Accepts(c) \/ Sends(c) \/ LetsGo(c) \/ Acknowledged(c) \/ OnAck(c)

EventStep(c) == (\E report \in Reports : Ends(c, report)) \/ SendsEnd(c) \/ Hears(c)

Next ==
    \/ \E c \in Created : CreatedStep(c)
    \/ \E c \in Invited : InvitedStep(c)
    \/ \E c \in Conferences : EventStep(c)

\* The runtime's tasks run, and the transaction of an INVITE ends with a
\* response or an error.  Nothing is asked of the host or of the peer.
Fairness ==
    /\ \A c \in Created :
        /\ WF_vars(Responds(c))
        /\ WF_vars(Confirms(c) \/ CannotConfirm(c) \/ Starts(c) \/ Succeeds(c) \/ Fails(c))
    /\ \A c \in Invited :
        /\ WF_vars(Accepts(c) \/ Declines(c) \/ Sends(c) \/ LetsGo(c))
        /\ WF_vars(OnAck(c))
    /\ \A c \in Conferences : WF_vars(SendsEnd(c)) /\ WF_vars(Hears(c))

Spec == Init /\ [][Next]_vars /\ Fairness

-----------------------------------------------------------------------------
Phase(c) ==
    CASE stage[c] = "asked" ->
            CASE response[c] = "nothing" -> "offered"
              [] response[c] = "accepts" -> "accepted"
              [] OTHER -> "declined"
      [] stage[c] = "listening" -> "accepted"
      [] stage[c] \in {"sent", "answered"} -> IF joined[c] THEN "running" ELSE "answered"
      [] stage[c] = "refused" -> "declined"
      [] stage[c] = "rung" -> "dead"
      [] OTHER -> "new"

Promise ==
    INSTANCE IncomingInvite
    WITH Invites <- Invited, phase <- [c \in Invited |-> Phase(c)], blocked <- FALSE

\* Every INVITE to a conference is handled as IncomingInvite.tla says, and the
\* service is never blocked: the host's first word counts, and an accepted one
\* is answered.
EachInvite == Promise!Spec

\* The end of a conference the host has joined, and listens to, is not lost
\* between the dialog and the host, whenever it comes: before the result of the
\* creation, before the ACK, or while the channel has no room.
EndIsHeard ==
    \A c \in Conferences :
        (joined[c] /\ loop[c] # "gone" /\ sending[c] + channel[c] > 0)
            ~> (loop[c] = "gone" \/ (sending[c] = 0 /\ channel[c] = 0))
=============================================================================
