---------------------------- MODULE CpmSessions -----------------------------
(***************************************************************************)
(* The chat sessions of session.rs and session_invitation.rs: the INVITEs  *)
(* that offer one, the list of those that ring, the list of those that     *)
(* were set up, the MSRP stream of each, and the messages the host sends.  *)
(*                                                                         *)
(* Three mutexes matter: those of the list of sessions and of the          *)
(* registered identity, which threads may take for good or die under, and  *)
(* that of a session's state.  A thread that dies poisons the mutexes it   *)
(* holds: whoever locks them next dies too.                                *)
(***************************************************************************)
EXTENDS Naturals, Sequences

CONSTANTS
    Invitations,    \* the INVITEs of other parties
    Contacts,
    From,           \* who sends which
    Messages,       \* the messages of the host
    Connections,    \* bound: the connections the client registers over
    Room,           \* of the channel in front of a session's stream
    NoSession

ASSUME FromAssumption == From \in [Invitations -> Contacts]
ASSUME ConnectionsAssumption == Connections \in Nat
ASSUME RoomAssumption == Room \in Nat \ {0}
ASSUME NoSessionAssumption == NoSession \notin Invitations

VARIABLES
    identity,   \* registered_public_identity, by its connection; 0 before the first
    poisoned,   \* which of the two mutexes a thread has died under
    opener,     \* a thread holds both, and waits for the third it holds already
    transport,  \* the connection the INVITE came over, while that matters
    stage,      \* how far the INVITE got
    task,       \* the task that waits for the host: none, waiting, busy, removing, done, dead
    box,        \* what was sent to it: accept, dispose
    incoming,   \* ongoing_incoming_invitations
    ongoing,    \* ongoing_sessions
    dialog,     \* none, live, ended by a request, ended early, ended unnoticed
    media,      \* the session's state and its stream
    queue,      \* the session's messages
    message,    \* unsent, waiting, queued, sent, inviting, hung, lost or told
    via         \* the session that got the message

inviteVars == <<transport, stage, task, box, incoming>>
sessionVars == <<ongoing, dialog, media, queue>>
messageVars == <<message, via>>
vars == <<identity, poisoned, opener, inviteVars, sessionVars, messageVars>>

Stages == {"new", "ringing", "accepting", "confirmed", "answered", "declined", "dead"}

Tasks == {"none", "waiting", "busy", "removing", "done", "dead"}

Dialogs == {"none", "live", "ended", "early", "unnoticed"}

\* negotiated: before the ACK.  broken: the state's mutex is poisoned.
Media == {"none", "negotiated", "broken", "connecting", "failed", "open", "ending", "closed"}

\* told: the message's callback was called, with whatever result.
Fates == {"unsent", "waiting", "queued", "sent", "inviting", "hung", "lost", "told"}

TypeOK ==
    /\ identity \in 0..Connections
    /\ poisoned \subseteq {"sessions", "identity"}
    /\ opener \in BOOLEAN
    /\ transport \in [Invitations -> 0..Connections]
    /\ stage \in [Invitations -> Stages]
    /\ task \in [Invitations -> Tasks]
    /\ box \in [Invitations -> SUBSET {"accept", "dispose"}]
    /\ incoming \in Seq(Invitations)
    /\ ongoing \in Seq(Invitations)
    /\ dialog \in [Invitations -> Dialogs]
    /\ media \in [Invitations -> Media]
    /\ queue \in [Invitations -> Seq(Messages)]
    /\ \A i \in Invitations : Len(queue[i]) <= Room
    /\ message \in [Messages -> Fates]
    /\ via \in [Messages -> Invitations \cup {NoSession}]

Init ==
    /\ identity = 0
    /\ poisoned = {}
    /\ opener = FALSE
    /\ transport = [i \in Invitations |-> 0]
    /\ stage = [i \in Invitations |-> "new"]
    /\ task = [i \in Invitations |-> "none"]
    /\ box = [i \in Invitations |-> {}]
    /\ incoming = <<>>
    /\ ongoing = <<>>
    /\ dialog = [i \in Invitations |-> "none"]
    /\ media = [i \in Invitations |-> "none"]
    /\ queue = [i \in Invitations |-> <<>>]
    /\ message = [m \in Messages |-> "unsent"]
    /\ via = [m \in Messages |-> NoSession]

-----------------------------------------------------------------------------
Free(mutex) == ~opener /\ mutex \notin poisoned

Dies(mutex) == ~opener /\ mutex \in poisoned

Listed(list, i) == \E n \in DOMAIN list : list[n] = i

Once(list) == \A n, k \in DOMAIN list : list[n] = list[k] => n = k

\* Faulty variant: the last entry goes, whichever was meant.
Removed_Last(list, i) ==
    IF Listed(list, i) THEN [n \in 1..(Len(list) - 1) |-> list[n]] ELSE list

\* Vec::swap_remove of the entry's first position, if it has one: the last
\* entry takes its place.
Removed(list, i) ==
    IF Listed(list, i)
    THEN [n \in 1..(Len(list) - 1) |-> IF list[n] = i THEN list[Len(list)] ELSE list[n]]
    ELSE list

\* The lists are searched from the front.
First(list, c) ==
    LET of == {n \in DOMAIN list : From[list[n]] = c}
    IN  IF of = {} THEN NoSession
        ELSE list[CHOOSE n \in of : \A k \in of : n <= k]

-----------------------------------------------------------------------------
(***************************************************************************)
(* An INVITE.                                                              *)
(***************************************************************************)

\* The client registers over a new connection.  Whoever finds the mutex
\* poisoned dies, here and elsewhere, and changes nothing.
Registered ==
    /\ identity < Connections
    /\ Free("identity")
    /\ identity' = identity + 1
    /\ UNCHANGED <<poisoned, opener, inviteVars, sessionVars, messageVars>>

\* Its content, the code the host or the configuration answers, or its kind.
Refuses(i) ==
    /\ stage[i] = "new"
    /\ stage' = [stage EXCEPT ![i] = "declined"]
    /\ UNCHANGED <<identity, poisoned, opener, transport, task, box, incoming,
                   sessionVars, messageVars>>

\* The host wants to be asked: 180, an entry of the list, and a task that
\* waits for what the host says.
Rings(i) ==
    /\ stage[i] = "new"
    /\ identity # 0
    /\ Free("identity")
    /\ transport' = [transport EXCEPT ![i] = identity]
    /\ stage' = [stage EXCEPT ![i] = "ringing"]
    /\ task' = [task EXCEPT ![i] = "waiting"]
    /\ incoming' = Append(incoming, i)
    /\ UNCHANGED <<identity, poisoned, opener, box, sessionVars, messageVars>>

\* The handler dies where it looks for the identity it puts into the 180, or
\* cannot make the dialog: nobody answers the INVITE.
RingingFails(i) ==
    /\ stage[i] = "new"
    /\ ~opener
    /\ stage' = [stage EXCEPT ![i] = "dead"]
    /\ UNCHANGED <<identity, poisoned, opener, transport, task, box, incoming,
                   sessionVars, messageVars>>

\* The handler itself goes on to the 200: there is no task to tell.
AutoAccepts(i) ==
    /\ stage[i] = "new"
    /\ identity # 0
    /\ transport' = [transport EXCEPT ![i] = identity]
    /\ stage' = [stage EXCEPT ![i] = "accepting"]
    /\ UNCHANGED <<identity, poisoned, opener, task, box, incoming, sessionVars, messageVars>>

Tells(i, what) ==
    /\ task[i] = "waiting"
    /\ box' = [box EXCEPT ![i] = @ \cup {what}]
    /\ UNCHANGED <<identity, poisoned, opener, transport, stage, task, incoming,
                   sessionVars, messageVars>>

\* accept_and_open_session: the first that rings of the contact.
Accept(c) == First(incoming, c) # NoSession /\ Tells(First(incoming, c), "accept")

\* A CANCEL of the INVITE.
Cancelled(i) == Tells(i, "dispose")

\* The task takes one thing and hears nothing after that.
TaskTakes(i, what, next, then) ==
    /\ task[i] = "waiting"
    /\ what \in box[i]
    /\ box' = [box EXCEPT ![i] = {}]
    /\ stage' = [stage EXCEPT ![i] = next]
    /\ task' = [task EXCEPT ![i] = then]
    /\ UNCHANGED <<identity, poisoned, opener, transport, incoming, sessionVars, messageVars>>

TaskAccepts(i) == TaskTakes(i, "accept", "accepting", "busy")

\* Faulty variant: the entry stays in the list.
TaskDisposes_Keep(i) == TaskTakes(i, "dispose", "declined", "done")

TaskDisposes(i) == TaskTakes(i, "dispose", "declined", "removing")

Leaves(i, then) == IF task[i] = "busy" THEN [task EXCEPT ![i] = then] ELSE task

\* No socket, or an SDP that cannot be used.
CannotAccept(i) ==
    /\ stage[i] = "accepting"
    /\ stage' = [stage EXCEPT ![i] = "declined"]
    /\ task' = Leaves(i, "removing")
    /\ transport' = [transport EXCEPT ![i] = 0]
    /\ UNCHANGED <<identity, poisoned, opener, box, incoming,
                   sessionVars, messageVars>>

\* The dialog is confirmed, with the callbacks of the session.
Confirms(i) ==
    /\ stage[i] = "accepting"
    /\ Free("identity")
    /\ transport[i] = identity
    /\ stage' = [stage EXCEPT ![i] = "confirmed"]
    /\ dialog' = [dialog EXCEPT ![i] = "live"]
    /\ media' = [media EXCEPT ![i] = "negotiated"]
    /\ transport' = [transport EXCEPT ![i] = 0]
    /\ UNCHANGED <<identity, poisoned, opener, task, box, incoming,
                   ongoing, queue, messageVars>>

\* panic!() under the mutex: the client has registered over another
\* connection since the INVITE came.
ConnectionChanged(i) ==
    /\ stage[i] = "accepting"
    /\ \/ Free("identity") /\ transport[i] # identity
       \/ Dies("identity")
    /\ poisoned' = poisoned \cup {"identity"}
    /\ stage' = [stage EXCEPT ![i] = "dead"]
    /\ task' = Leaves(i, "dead")
    /\ transport' = [transport EXCEPT ![i] = 0]
    /\ UNCHANGED <<identity, opener, box, incoming, sessionVars, messageVars>>

\* panic!() again, with no mutex held: an INVITE that did not ring has no
\* dialog yet, and none can be made.
NoDialog(i) ==
    /\ stage[i] = "accepting"
    /\ task[i] = "none"
    /\ Free("identity")
    /\ transport[i] = identity
    /\ stage' = [stage EXCEPT ![i] = "dead"]
    /\ transport' = [transport EXCEPT ![i] = 0]
    /\ UNCHANGED <<identity, poisoned, opener, task, box, incoming, sessionVars, messageVars>>

\* The session is put into the list, and the 200 sent.
Answers(i) ==
    /\ stage[i] = "confirmed"
    /\ Free("sessions")
    /\ ongoing' = Append(ongoing, i)
    /\ stage' = [stage EXCEPT ![i] = "answered"]
    /\ task' = Leaves(i, "removing")
    /\ UNCHANGED <<identity, poisoned, opener, transport, box, incoming,
                   dialog, media, queue, messageVars>>

AnswerDies(i) ==
    /\ stage[i] = "confirmed"
    /\ Dies("sessions")
    /\ stage' = [stage EXCEPT ![i] = "dead"]
    /\ task' = Leaves(i, "dead")
    /\ UNCHANGED <<identity, poisoned, opener, transport, box, incoming,
                   sessionVars, messageVars>>

TaskRemoves(i) ==
    /\ task[i] = "removing"
    /\ incoming' = Removed(incoming, i)
    /\ task' = [task EXCEPT ![i] = "done"]
    /\ UNCHANGED <<identity, poisoned, opener, transport, stage, box, sessionVars, messageVars>>

-----------------------------------------------------------------------------
(***************************************************************************)
(* A session: its dialog and its stream.                                   *)
(***************************************************************************)

\* A BYE.  One that comes before the session is in the list finds nothing to
\* remove; only a caller that heard the 180 knows the dialog by then.
Ends(i) ==
    /\ dialog[i] = "live"
    /\ Free("sessions")
    /\ \/ stage[i] = "answered" /\ dialog' = [dialog EXCEPT ![i] = "ended"]
       \/ stage[i] = "confirmed" /\ task[i] = "busy"
          /\ dialog' = [dialog EXCEPT ![i] = "early"]
    /\ ongoing' = Removed(ongoing, i)
    /\ UNCHANGED <<identity, poisoned, opener, inviteVars, media, queue, messageVars>>

\* The BYE of an expired session has nil callbacks, on_terminating_response
\* is empty, and the handler of a BYE may find the list's mutex poisoned.
EndsUnnoticed(i) ==
    /\ dialog[i] = "live"
    /\ stage[i] = "answered"
    /\ dialog' = [dialog EXCEPT ![i] = "unnoticed"]
    /\ UNCHANGED <<identity, poisoned, opener, inviteVars, ongoing, media, queue, messageVars>>

MediaBecomes(i, old, new) ==
    /\ media[i] = old
    /\ media' = [media EXCEPT ![i] = new]
    /\ UNCHANGED <<identity, poisoned, opener, inviteVars, dialog>>

\* Faulty variant: it starts as soon as it is negotiated.
Acked_Early(i) ==
    /\ dialog[i] = "live"
    /\ MediaBecomes(i, "negotiated", "connecting")
    /\ UNCHANGED <<ongoing, queue, messageVars>>

\* on_ack: the session starts, and its stream is connected.
Acked(i) ==
    /\ stage[i] = "answered"
    /\ dialog[i] = "live"
    /\ MediaBecomes(i, "negotiated", "connecting")
    /\ UNCHANGED <<ongoing, queue, messageVars>>

Connects(i) ==
    /\ MediaBecomes(i, "connecting", "open")
    /\ UNCHANGED <<ongoing, queue, messageVars>>

Elements(q) == {q[n] : n \in DOMAIN q}

\* Faulty variant: the receiver is not dropped with the task.
CannotConnect_Keep(i) ==
    /\ MediaBecomes(i, "connecting", "failed")
    /\ UNCHANGED <<ongoing, queue, messageVars>>

\* The task returns: what was queued is dropped with its callbacks, and the
\* session stays in the list.
CannotConnect(i) ==
    /\ MediaBecomes(i, "connecting", "failed")
    /\ queue' = [queue EXCEPT ![i] = <<>>]
    /\ message' = [m \in Messages |-> IF m \in Elements(queue[i]) THEN "lost" ELSE message[m]]
    /\ via' = [m \in Messages |-> IF m \in Elements(queue[i]) THEN NoSession ELSE via[m]]
    /\ UNCHANGED ongoing

\* The peer closes the stream, or it breaks.
StreamEnds(i) ==
    /\ MediaBecomes(i, "open", "ending")
    /\ UNCHANGED <<ongoing, queue, messageVars>>

\* session_end_function.
EndReported(i) ==
    /\ MediaBecomes(i, "ending", "closed")
    /\ \/ Free("sessions") /\ ongoing' = Removed(ongoing, i)
       \/ Dies("sessions") /\ UNCHANGED ongoing
    /\ UNCHANGED <<queue, messageVars>>

-----------------------------------------------------------------------------
(***************************************************************************)
(* A message of the host.  send_message holds the list of sessions to its  *)
(* end, and from the search on the list of outgoing INVITEs, too.          *)
(***************************************************************************)
MessageBecomes(m, old, new) ==
    /\ message[m] = old
    /\ message' = [message EXCEPT ![m] = new]
    /\ UNCHANGED <<identity, inviteVars, ongoing, dialog>>

\* A task of its own waits for room in the session's channel.
SendsInSession(m, c) ==
    /\ Free("sessions")
    /\ First(ongoing, c) # NoSession
    /\ media[First(ongoing, c)] # "negotiated"
    /\ MessageBecomes(m, "unsent", "waiting")
    /\ via' = [via EXCEPT ![m] = First(ongoing, c)]
    /\ UNCHANGED <<poisoned, opener, media, queue>>

\* todo!() under the mutexes of the session and of the list.
SendsBeforeAck(m, c) ==
    /\ Free("sessions")
    /\ First(ongoing, c) # NoSession
    /\ media[First(ongoing, c)] = "negotiated"
    /\ MessageBecomes(m, "unsent", "lost")
    /\ poisoned' = poisoned \cup {"sessions"}
    /\ media' = [media EXCEPT ![First(ongoing, c)] = "broken"]
    /\ UNCHANGED <<opener, queue, via>>

\* No session: no socket, or nobody has registered.
SendFails(m, c) ==
    /\ Free("sessions")
    /\ First(ongoing, c) = NoSession
    /\ MessageBecomes(m, "unsent", "told")
    /\ UNCHANGED <<poisoned, opener, media, queue, via>>

\* An INVITE is sent, and the list of outgoing INVITEs locked again by the
\* thread that holds it: it never returns, and never lets go.
Opens(m, c) ==
    /\ Free("sessions")
    /\ First(ongoing, c) = NoSession
    /\ identity # 0
    /\ Free("identity")
    /\ MessageBecomes(m, "unsent", "inviting")
    /\ opener' = TRUE
    /\ UNCHANGED <<poisoned, media, queue, via>>

\* A poisoned mutex: the list's own, or the identity's under it.
SendDies(m, c) ==
    /\ \/ Dies("sessions") /\ UNCHANGED poisoned
       \/ /\ Free("sessions")
          /\ First(ongoing, c) = NoSession
          /\ Dies("identity")
          /\ poisoned' = poisoned \cup {"sessions"}
    /\ MessageBecomes(m, "unsent", "lost")
    /\ UNCHANGED <<opener, media, queue, via>>

\* A refusal, or a 2xx that cannot be used: the task makes it the result.
InviteRefused(m) ==
    /\ MessageBecomes(m, "inviting", "told")
    /\ UNCHANGED <<poisoned, opener, media, queue, via>>

\* The task takes a good answer, unless its SDP or dialog is no good, up to
\* the transport for the ACK, where it waits for the identity.
InviteAccepted(m) ==
    /\ \E fate \in {"told", "hung"} : MessageBecomes(m, "inviting", fate)
    /\ UNCHANGED <<poisoned, opener, media, queue, via>>

\* Faulty variant: sends without waiting for room.
Queues_Full(m) ==
    /\ message[m] = "waiting"
    /\ media[via[m]] # "failed"
    /\ MessageBecomes(m, "waiting", "queued")
    /\ queue' = [queue EXCEPT ![via[m]] = Append(@, m)]
    /\ UNCHANGED <<poisoned, opener, media, via>>

Queues(m) ==
    /\ message[m] = "waiting"
    /\ media[via[m]] # "failed"
    /\ Len(queue[via[m]]) < Room
    /\ MessageBecomes(m, "waiting", "queued")
    /\ queue' = [queue EXCEPT ![via[m]] = Append(@, m)]
    /\ UNCHANGED <<poisoned, opener, media, via>>

\* The receiver is gone.
NotQueued(m) ==
    /\ message[m] = "waiting"
    /\ media[via[m]] = "failed"
    /\ MessageBecomes(m, "waiting", "told")
    /\ via' = [via EXCEPT ![m] = NoSession]
    /\ UNCHANGED <<poisoned, opener, media, queue>>

\* The task of the stream takes the next, also after the stream has ended.
Takes(i) ==
    /\ media[i] \in {"open", "ending", "closed"}
    /\ queue[i] # <<>>
    /\ MessageBecomes(Head(queue[i]), "queued", "sent")
    /\ queue' = [queue EXCEPT ![i] = Tail(@)]
    /\ UNCHANGED <<poisoned, opener, media, via>>

\* The peer answers the chunks, or does not.
Completes(m) ==
    /\ message[m] = "sent"
    /\ media[via[m]] = "open"
    /\ MessageBecomes(m, "sent", "told")
    /\ via' = [via EXCEPT ![m] = NoSession]
    /\ UNCHANGED <<poisoned, opener, media, queue>>

-----------------------------------------------------------------------------
InviteStep(i) ==
    \/ Refuses(i) \/ Rings(i) \/ RingingFails(i) \/ AutoAccepts(i)
    \/ Cancelled(i) \/ TaskAccepts(i) \/ TaskDisposes(i)
    \/ CannotAccept(i) \/ Confirms(i) \/ ConnectionChanged(i) \/ NoDialog(i)
    \/ Answers(i) \/ AnswerDies(i) \/ TaskRemoves(i)

SessionStep(i) ==
    \/ Ends(i) \/ EndsUnnoticed(i) \/ Acked(i)
    \/ Connects(i) \/ CannotConnect(i) \/ StreamEnds(i) \/ EndReported(i)
    \/ Takes(i)

MessageStep(m) ==
    \/ \E c \in Contacts : SendsInSession(m, c) \/ SendsBeforeAck(m, c)
                              \/ SendFails(m, c) \/ Opens(m, c) \/ SendDies(m, c)
    \/ InviteRefused(m) \/ InviteAccepted(m) \/ Queues(m) \/ NotQueued(m) \/ Completes(m)

Next ==
    \/ Registered
    \/ \E c \in Contacts : Accept(c)
    \/ \E i \in Invitations : InviteStep(i) \/ SessionStep(i)
    \/ \E m \in Messages : MessageStep(m)

\* Tasks run when they can, and connecting comes to an end.  Nothing is asked
\* of the host, of the peer or of the network.
Fairness ==
    /\ \A i \in Invitations :
        /\ WF_vars(TaskAccepts(i) \/ TaskDisposes(i))
        /\ WF_vars(Confirms(i) \/ ConnectionChanged(i))
        /\ WF_vars(Answers(i) \/ AnswerDies(i))
        /\ WF_vars(TaskRemoves(i))
        /\ WF_vars(Connects(i) \/ CannotConnect(i))
        /\ WF_vars(Takes(i))
    /\ \A m \in Messages : WF_vars(Queues(m)) /\ WF_vars(NotQueued(m))

Spec == Init /\ [][Next]_vars /\ Fairness

-----------------------------------------------------------------------------
\* The list of sessions is exact, but for what the actions above name: a
\* session is in it, once, from its 200 on until a BYE or the end of its
\* stream takes it out, and nothing else takes another one out in its place;
\* a message never goes to a session that is known to have ended.
ListIsExact ==
    "sessions" \notin poisoned =>
        /\ Once(ongoing)
        /\ \A i \in Invitations :
            Listed(ongoing, i) <=>
                stage[i] = "answered" /\ dialog[i] # "ended" /\ media[i] # "closed"

\* An INVITE that rings is one the host can accept, and one that does not ring
\* any more leaves the list, where it would keep the next of its contact from
\* the host: only a thread that died leaves its entry.
IncomingAnswerable ==
    /\ \A i \in Invitations :
        /\ task[i] = "waiting" => stage[i] = "ringing" /\ Listed(incoming, i)
        /\ task[i] = "busy" => stage[i] \in {"accepting", "confirmed"}
    /\ \A n \in DOMAIN incoming :
        \/ task[incoming[n]] \in {"waiting", "busy", "removing"}
        \/ task[incoming[n]] = "dead" /\ poisoned # {}
    /\ Once(incoming)

\* What the host and the peer see of an INVITE.
Phase(i) ==
    CASE stage[i] = "ringing" -> "offered"
      [] stage[i] \in {"accepting", "confirmed"} -> "accepted"
      [] stage[i] = "answered" ->
            IF media[i] \in {"negotiated", "broken"} THEN "answered" ELSE "running"
      [] OTHER -> stage[i]

Promise ==
    INSTANCE IncomingInvite
    WITH Invites <- Invitations, phase <- [i \in Invitations |-> Phase(i)], blocked <- opener

\* Every INVITE is handled as IncomingInvite.tla says: whatever the other
\* INVITEs, BYEs and messages do, it is answered once, its stream is not
\* connected before the ACK, and once accepted it is answered, unless a
\* mutex is poisoned or the thread of Opens holds it.
EachInvite == Promise!Spec

\* A message handed to a session does not wait for ever in the client: the
\* stream takes it, or it is given up with the stream.
MessagesMoveOn ==
    \A m \in Messages :
        message[m] \in {"waiting", "queued"} ~> message[m] \notin {"waiting", "queued"}
=============================================================================
