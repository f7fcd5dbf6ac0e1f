----------------------------- MODULE MsrpSession ----------------------------
(***************************************************************************)
(* The media half of a message session: the socket it was given, the task  *)
(* that connects it, the bounded channel through which the stream is fed,  *)
(* and the handle that stops it through the same channel.  The send and    *)
(* receive sessions of standalone_messaging.rs are this state machine; the *)
(* stream itself belongs to the MSRP transport, which is not part of this  *)
(* repository.                                                             *)
(***************************************************************************)
EXTENDS Naturals, Sequences

CONSTANT Capacity   \* of the channel that feeds the stream

ASSUME CapacityAssumption == Capacity \in Nat \ {0}

VARIABLES
    socket,     \* the Option<ClientSocket>: none before the session exists
    stopper,    \* there is a sender that can stop the stream
    stopping,   \* a task waits for room to put the stop into the channel
    queue,      \* the channel
    stream,     \* none, connecting, open, failed or closed
    terminated  \* history: the dialog of the session was terminated

msrpVars == <<socket, stopper, stopping, queue, stream, terminated>>

MsrpTypeOK ==
    /\ socket \in {"none", "held", "taken", "dropped"}
    /\ stopper \in BOOLEAN
    /\ stopping \in BOOLEAN
    /\ queue \in Seq({"chunk", "stop"})
    /\ Len(queue) <= Capacity
    /\ stream \in {"none", "connecting", "open", "failed", "closed"}
    /\ stream # "none" <=> socket = "taken"
    /\ terminated \in BOOLEAN
    /\ terminated => socket \in {"taken", "dropped"}

MsrpInit ==
    /\ socket = "none"
    /\ stopper = FALSE
    /\ stopping = FALSE
    /\ queue = <<>>
    /\ stream = "none"
    /\ terminated = FALSE

\* The session is made, with its socket.
MsrpNew ==
    /\ socket = "none"
    /\ socket' = "held"
    /\ UNCHANGED <<stopper, stopping, queue, stream, terminated>>

\* Faulty variant: the socket is used without being taken.
MsrpStart_KeepsSocket ==
    IF socket = "held"
    THEN /\ stopper' = TRUE
         /\ stream' = "connecting"
         /\ UNCHANGED <<socket, stopping, queue, terminated>>
    ELSE UNCHANGED msrpVars

\* start: the socket can be taken once.
MsrpStart ==
    IF socket = "held"
    THEN /\ socket' = "taken"
         /\ stopper' = TRUE
         /\ stream' = "connecting"
         /\ UNCHANGED <<stopping, queue, terminated>>
    ELSE UNCHANGED msrpVars

\* Faulty variant: the socket of a session that has not started is left.
MsrpStop_KeepsSocket ==
    /\ stopper' = FALSE
    /\ stopping' = (stopping \/ (stopper /\ stream \in {"connecting", "open"}))
    /\ terminated' = TRUE
    /\ UNCHANGED <<socket, queue, stream>>

\* Faulty variant: the sender is dropped, the stream is not told.
MsrpStop_Silent ==
    /\ stopper' = FALSE
    /\ socket' = IF socket = "held" THEN "dropped" ELSE socket
    /\ terminated' = TRUE
    /\ UNCHANGED <<stopping, queue, stream>>

\* stop: a stream that was started is to be told, also before it is open; a
\* socket that was not taken is dropped.
MsrpStop ==
    /\ stopper' = FALSE
    /\ stopping' = (stopping \/ (stopper /\ stream \in {"connecting", "open"}))
    /\ socket' = IF socket = "held" THEN "dropped" ELSE socket
    /\ terminated' = TRUE
    /\ UNCHANGED <<queue, stream>>

\* Faulty variant: the stop does not wait for room.
StopQueued_NoWait ==
    /\ stopping
    /\ queue' = Append(queue, "stop")
    /\ stopping' = FALSE
    /\ UNCHANGED <<socket, stopper, stream, terminated>>

StopQueued ==
    /\ stopping
    /\ Len(queue) < Capacity
    /\ queue' = Append(queue, "stop")
    /\ stopping' = FALSE
    /\ UNCHANGED <<socket, stopper, stream, terminated>>

StreamConnects ==
    /\ stream = "connecting"
    /\ stream' = "open"
    /\ UNCHANGED <<socket, stopper, stopping, queue, terminated>>

\* The stream is gone, and its end of the channel with it: who waits for room
\* is told and gives up.
StreamGone(how) ==
    /\ stream' = how
    /\ queue' = <<>>
    /\ stopping' = FALSE
    /\ UNCHANGED <<socket, stopper, terminated>>

StreamFails == stream = "connecting" /\ StreamGone("failed")

\* The peer or the network ends it.
StreamBreaks == stream = "open" /\ StreamGone("closed")

StreamWrites ==
    /\ stream = "open"
    /\ queue # <<>>
    /\ Head(queue) = "chunk"
    /\ queue' = Tail(queue)
    /\ UNCHANGED <<socket, stopper, stopping, stream, terminated>>

StreamStops ==
    /\ stream = "open"
    /\ queue # <<>>
    /\ Head(queue) = "stop"
    /\ StreamGone("closed")

\* What the dialog sees of it.
MsrpPhase ==
    IF stream \in {"connecting", "open"} THEN stream
    ELSE IF stream = "none" /\ socket # "dropped" THEN "ready"
    ELSE "over"

-----------------------------------------------------------------------------
(* Properties.                                                             *)

\* The session keeps the promise of a media session: a dialog that ends before
\* its session was started (on the receiving side, before its ACK came) opens no
\* stream, and a stream that is open or being connected is closed.
\* (standalone_messaging.rs: start and stop of StandaloneLargeModeSendSession
\* and of StandaloneLargeModeReceiveSession.)
Transport == INSTANCE SessionTransport WITH phase <- MsrpPhase, ended <- terminated

MediaSession == Transport!Spec
=============================================================================
