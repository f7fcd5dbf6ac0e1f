-------------------------- MODULE StandaloneReceive -------------------------
(***************************************************************************)
(* Standalone messages that are received (standalone_messaging.rs).  In    *)
(* large mode a peer's INVITE is answered, its ACK starts an MSRP session, *)
(* and what comes over the stream is given to the host.  In pager mode the *)
(* message is the body of a SIP MESSAGE.                                   *)
(*                                                                         *)
(* Every ACK, every message and every last chunk of a message is a         *)
(* callback, and each of them may come again.  That the SIP core routes    *)
(* the requests of the dialog to it is assumed: the other services add     *)
(* their dialogs to the core's list, this one does not.                    *)
(***************************************************************************)
EXTENDS MsrpSession

VARIABLES
    invite,     \* new, refused or accepted
    acked,      \* an ACK was received
    listener,   \* the host's listener: armed, writing (a writer has it) or used
    deliveries, \* how often the host's listener was called
    watcher,    \* the task that waits for a CANCEL: none, waiting or panicked
    paged       \* the pager message, and what came of it

deliveryVars == <<invite, acked, listener, deliveries, watcher, paged>>
receiveVars == <<msrpVars, deliveryVars>>

\* What the handler of a MESSAGE can tell of it.
PagerMessages ==
    [content: {"none", "cpim", "multipart"}, \* where its CPIM message is
     readable: BOOLEAN,     \* the CPIM message and its information can be decoded
     standalone: BOOLEAN,   \* it accepts a contact that serves standalone messages
     imdn: BOOLEAN,         \* it is a notification
     chatbot: BOOLEAN,      \* it is from a chatbot
     sender: BOOLEAN,       \* it has an asserted or a From identity
     body: BOOLEAN]         \* its body can be decoded

PagerAnswers == {"none", "passed", "200", "400", "606"}

ReceiveTypeOK ==
    /\ MsrpTypeOK
    /\ paged \in [answer: PagerAnswers, delivered: BOOLEAN]
    /\ invite \in {"new", "refused", "accepted"}
    /\ acked \in BOOLEAN
    /\ listener \in {"armed", "writing", "used"}
    /\ deliveries \in Nat
    /\ watcher \in {"none", "waiting", "panicked"}

ReceiveInit ==
    /\ MsrpInit
    /\ invite = "new"
    /\ acked = FALSE
    /\ listener = "armed"
    /\ deliveries = 0
    /\ watcher = "none"
    /\ paged = [answer |-> "none", delivered |-> FALSE]

-----------------------------------------------------------------------------
(* The INVITE.                                                             *)

\* No conversation or contribution, no SDP, no known sender, no MSRP path, or
\* no socket.
Refuses ==
    /\ invite = "new"
    /\ invite' = "refused"
    /\ UNCHANGED <<msrpVars, acked, listener, deliveries, watcher, paged>>

\* The 200 is sent even if no dialog can be made of it; then there is no
\* session to be started.
Accepts ==
    /\ invite = "new"
    /\ invite' = "accepted"
    /\ watcher' = "waiting"
    /\ MsrpNew \/ UNCHANGED msrpVars
    /\ UNCHANGED <<acked, listener, deliveries, paged>>

\* The CANCEL of an INVITE that was answered meanwhile ends the task only.
Cancelled ==
    /\ watcher = "waiting"
    /\ watcher' = "panicked"
    /\ UNCHANGED <<msrpVars, invite, acked, listener, deliveries, paged>>

-----------------------------------------------------------------------------
(* The dialog.                                                             *)

\* on_ack, also of the ACK of a repeated answer.
Acknowledged ==
    /\ socket # "none"
    /\ acked' = TRUE
    /\ MsrpStart
    /\ UNCHANGED <<invite, listener, deliveries, watcher, paged>>

\* A request or response that terminates the dialog.
ReceiverTerminated ==
    /\ socket # "none"
    /\ MsrpStop
    /\ UNCHANGED deliveryVars

-----------------------------------------------------------------------------
(* The stream.                                                             *)

ReceiverConnects == StreamConnects /\ UNCHANGED deliveryVars

ReceiverCannotConnect == StreamFails /\ UNCHANGED deliveryVars

ReceiverStopWaits == StopQueued /\ UNCHANGED deliveryVars

ReceiverExits == (StreamBreaks \/ StreamStops) /\ UNCHANGED deliveryVars

\* The first message gets a writer and the listener with it; another one is
\* refused.
MessageBegins ==
    /\ stream = "open"
    /\ listener' = IF listener = "armed" THEN "writing" ELSE listener
    /\ UNCHANGED <<msrpVars, invite, acked, deliveries, watcher, paged>>

\* Faulty variant: the writer calls the listener without taking it.
MessageCompletes_KeepsListener ==
    /\ stream = "open"
    /\ listener # "armed"
    /\ deliveries' = deliveries + 1
    /\ UNCHANGED <<msrpVars, invite, acked, listener, watcher, paged>>

\* The listener is taken, then the message decoded: one that is not readable
\* is lost, with the listener.
MessageCompletes ==
    /\ stream = "open"
    /\ listener # "armed"
    /\ listener' = "used"
    /\ deliveries' \in IF listener = "writing" THEN {deliveries, deliveries + 1}
                                               ELSE {deliveries}
    /\ UNCHANGED <<msrpVars, invite, acked, watcher, paged>>

-----------------------------------------------------------------------------
(* The pager message.                                                      *)

\* A part of a multipart body is found, but the whole body is decoded for it.
Decoded(m) == m.content = "cpim" /\ m.readable

\* get_bot_related_info
BotInfo(m) == FALSE

PagerAnswer(m) ==
    CASE m.content = "none" -> "400"
      [] m.content # "none" /\ ~(m.standalone /\ Decoded(m)) -> "passed"
      [] m.standalone /\ Decoded(m) /\ m.chatbot /\ ~m.imdn /\ ~BotInfo(m) -> "606"
      [] OTHER -> IF m.sender THEN "200" ELSE "passed"

\* A body that cannot be decoded is not delivered, and answered all the same.
Page(m) ==
    /\ paged.answer = "none"
    /\ paged' = [answer |-> PagerAnswer(m),
                 delivered |-> PagerAnswer(m) = "200" /\ m.body]
    /\ UNCHANGED <<msrpVars, invite, acked, listener, deliveries, watcher>>

-----------------------------------------------------------------------------
ReceiveNext ==
    \/ \E m \in PagerMessages : Page(m)
    \/ Refuses
    \/ Accepts
    \/ Cancelled
    \/ Acknowledged
    \/ ReceiverTerminated
    \/ ReceiverConnects
    \/ ReceiverCannotConnect
    \/ ReceiverStopWaits
    \/ ReceiverExits
    \/ MessageBegins
    \/ MessageCompletes

ReceiveSpec == ReceiveInit /\ [][ReceiveNext]_receiveVars

\* Connecting ends, and a stream that is told to stop does.
ReceiveFairness ==
    /\ WF_receiveVars(ReceiverConnects \/ ReceiverCannotConnect)
    /\ WF_receiveVars(ReceiverStopWaits)
    /\ WF_receiveVars(StreamStops /\ UNCHANGED deliveryVars)

ReceiveFairSpec == ReceiveSpec /\ ReceiveFairness

-----------------------------------------------------------------------------
(* Properties.                                                             *)

\* However often a peer repeats a message or its last chunk, the host gets one
\* message of a session, and none of a session it did not acknowledge.
\* (standalone_messaging.rs: the listener is an FnOnce that moves from the
\* receiver to the writer of the first message.)
DeliveredOnce == deliveries <= 1 /\ (deliveries = 1 => acked)
=============================================================================
