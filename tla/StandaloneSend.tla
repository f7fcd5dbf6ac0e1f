--------------------------- MODULE StandaloneSend ---------------------------
(***************************************************************************)
(* One message the host sends: which service the engine chooses            *)
(* (RcsEngine::send_message), and the two ways of standalone_messaging.rs. *)
(* In pager mode the message is the body of one SIP MESSAGE; in large mode *)
(* an INVITE opens an MSRP session that carries it.                        *)
(*                                                                         *)
(* In large mode four parties may report a result to the host: the task    *)
(* that waits for the answer, the end of the MSRP stream, the end of the   *)
(* transfer, and once more the task, when it has set the session up.       *)
(***************************************************************************)
EXTENDS MsrpSession

CONSTANTS
    Chunks,     \* the number of chunks the message makes
    Configs,    \* the messaging configurations the engine may have
    Sizes,      \* message lengths
    Refused     \* a status code of a peer or of the socket allocator that refuses

RecipientTypes == {"Contact", "Chatbot", "Group", "ResourceList"}

ASSUME SendAssumption == Chunks \in Nat /\ Refused \in Nat \ {200}

VARIABLES
    route,      \* the service that got the message: none, refused, session, pager, large
    pending,    \* the SIP request has no final answer
    answer,     \* what the transaction's callbacks put into the channel of one
    task,       \* the task that waits for it: none, waiting, starting, ending, done
    chunked,    \* how many chunks were put into the stream's channel
    transfer,   \* the message over MSRP: none, sending, delivered or failed
    results     \* what the host's callback was called with

sendVars == <<route, pending, answer, task, chunked, transfer, results>>
vars == <<msrpVars, sendVars>>

\* 0: the transport failed.  606: an answer that is not a chatbot's.  500: an
\* answer without SDP, or the task's own.  403: the engine's.
Codes == {0, 200, 403, 500, 606, Refused}

NoAnswer == [kind |-> "none", code |-> 0]

Answers == {[kind |-> k, code |-> c] : k \in {"none", "ok", "error"}, c \in Codes}

TypeOK ==
    /\ MsrpTypeOK
    /\ route \in {"none", "refused", "session", "pager", "large"}
    /\ pending \in BOOLEAN
    /\ answer \in Answers
    /\ task \in {"none", "waiting", "starting", "ending", "done"}
    /\ chunked \in 0..Chunks
    /\ transfer \in {"none", "sending", "delivered", "failed"}
    /\ results \in Seq(Codes)

Init ==
    /\ MsrpInit
    /\ route = "none"
    /\ pending = FALSE
    /\ answer = NoAnswer
    /\ task = "none"
    /\ chunked = 0
    /\ transfer = "none"
    /\ results = <<>>

-----------------------------------------------------------------------------
(* The engine's choice.                                                    *)

StandaloneMode(config, size) ==
    IF size > config.maxSize THEN "refused"
    ELSE IF config.switchOver < size THEN "large" ELSE "pager"

\* One-to-one sessions are never chosen: no recipient is taken to support them.
Service(config, recipient) ==
    CASE recipient = "Group" ->
            IF config.groupChat THEN "session" ELSE "refused"
      [] recipient = "Chatbot" ->
            IF config.chatbotTech \in {2, 3} /\ config.standalone THEN "standalone"
                                                                 ELSE "refused"
      [] OTHER ->
            IF config.standalone THEN "standalone" ELSE "refused"

Route(config, recipient, size) ==
    IF Service(config, recipient) = "standalone"
    THEN StandaloneMode(config, size)
    ELSE Service(config, recipient)

-----------------------------------------------------------------------------
(* The result.                                                             *)

\* The host's callback is an FnOnce in an Option: the first reporter takes it.
Report(code) == results' = IF results = <<>> THEN <<code>> ELSE results

-----------------------------------------------------------------------------
SendMessage(config, recipient, size, maintained) ==
    /\ route = "none"
    /\ route' = IF maintained THEN Route(config, recipient, size) ELSE "refused"
    /\ CASE route' = "refused" ->
              Report(403) /\ UNCHANGED <<pending, task>>
         [] route' = "session" ->
              UNCHANGED <<pending, task, results>>
         [] route' = "pager" ->
              pending' = TRUE /\ task' = "waiting" /\ UNCHANGED results
         [] route' = "large" ->
              \/ pending' = TRUE /\ task' = "waiting" /\ UNCHANGED results
              \/ Report(Refused) /\ UNCHANGED <<pending, task>>
    /\ UNCHANGED <<msrpVars, answer, chunked, transfer>>

\* Faulty variant: a lost request is not answered.
Outcomes_NotLost ==
    [pager |-> {[kind |-> "error", code |-> c] : c \in {200, Refused}} \cup {NoAnswer},
     large |-> {[kind |-> "ok", code |-> 200]}
                 \cup {[kind |-> "error", code |-> c] : c \in {500, 606, Refused}}]

\* What the callbacks make of the end of the transaction: a pager message's
\* answer is its result, an INVITE's is a session or an error.
Outcomes ==
    [pager |-> {[kind |-> "error", code |-> c] : c \in {0, 200, Refused}},
     large |-> {[kind |-> "ok", code |-> 200]}
                 \cup {[kind |-> "error", code |-> c] : c \in {0, 500, 606, Refused}}]

TransactionEnds ==
    /\ pending
    /\ pending' = FALSE
    /\ answer' \in Outcomes[route]
    /\ UNCHANGED <<msrpVars, route, task, chunked, transfer, results>>

TakesError ==
    /\ task = "waiting"
    /\ answer.kind = "error"
    /\ Report(answer.code)
    /\ task' = "done"
    /\ UNCHANGED <<msrpVars, route, pending, answer, chunked, transfer>>

\* An answer without an MSRP path, or that makes no dialog, ends the same way
\* as one that is set up.
TakesUnusable ==
    /\ task = "waiting"
    /\ answer.kind = "ok"
    /\ task' = "ending"
    /\ UNCHANGED <<msrpVars, route, pending, answer, chunked, transfer, results>>

\* The dialog and the session exist: from here on the dialog may be terminated.
SetsUp ==
    /\ task = "waiting"
    /\ answer.kind = "ok"
    /\ MsrpNew
    /\ task' = "starting"
    /\ UNCHANGED <<route, pending, answer, chunked, transfer, results>>

\* The ACK is sent and the session started, unless the dialog makes no ACK.
Starts ==
    /\ task = "starting"
    /\ MsrpStart \/ UNCHANGED msrpVars
    /\ task' = "ending"
    /\ UNCHANGED <<route, pending, answer, chunked, transfer, results>>

\* Faulty variant: once set up, the message counts as sent.
Ends_Ok ==
    /\ task = "ending"
    /\ Report(200)
    /\ task' = "done"
    /\ UNCHANGED <<msrpVars, route, pending, answer, chunked, transfer>>

\* Whatever was set up, the task ends with an error.
Ends ==
    /\ task = "ending"
    /\ Report(500)
    /\ task' = "done"
    /\ UNCHANGED <<msrpVars, route, pending, answer, chunked, transfer>>

\* The stream and, right after it, the transfer.
Connects ==
    /\ StreamConnects
    /\ transfer' = "sending"
    /\ UNCHANGED <<route, pending, answer, task, chunked, results>>

CannotConnect ==
    /\ StreamFails
    /\ UNCHANGED sendVars

\* A chunk for a stream that is gone is dropped.
ChunkQueued ==
    /\ transfer # "none"
    /\ chunked < Chunks
    /\ chunked' = chunked + 1
    /\ IF stream = "open" THEN Len(queue) < Capacity /\ queue' = Append(queue, "chunk")
                          ELSE UNCHANGED queue
    /\ UNCHANGED <<socket, stopper, stopping, stream, terminated, route, pending, answer,
                   task, transfer, results>>

\* The peer acknowledges the whole message, or refuses it at any chunk.
TransferEnds ==
    /\ transfer = "sending"
    /\ stream = "open"
    /\ \/ /\ chunked = Chunks
          /\ \A i \in DOMAIN queue : queue[i] # "chunk"
          /\ transfer' = "delivered"
          /\ Report(200)
       \/ /\ transfer' = "failed"
          /\ Report(Refused)
    /\ UNCHANGED <<msrpVars, route, pending, answer, task, chunked>>

Writes == StreamWrites /\ UNCHANGED sendVars

StopWaits == StopQueued /\ UNCHANGED sendVars

\* The end of the stream is reported, whoever ended it.
TransportExits ==
    /\ StreamBreaks \/ StreamStops
    /\ Report(0)
    /\ UNCHANGED <<route, pending, answer, task, chunked, transfer>>

\* A request or response that terminates the dialog.
Terminated ==
    /\ socket # "none"
    /\ MsrpStop
    /\ UNCHANGED sendVars

-----------------------------------------------------------------------------
TaskStep == TakesError \/ TakesUnusable \/ SetsUp \/ Starts \/ Ends

Next ==
    \/ \E config \in Configs, recipient \in RecipientTypes, size \in Sizes,
          maintained \in BOOLEAN : SendMessage(config, recipient, size, maintained)
    \/ TransactionEnds
    \/ TaskStep
    \/ Connects
    \/ CannotConnect
    \/ ChunkQueued
    \/ Writes
    \/ TransferEnds
    \/ StopWaits
    \/ TransportExits
    \/ Terminated

Spec == Init /\ [][Next]_vars

\* Transactions end, tasks run, connecting ends, and a stream writes what it is
\* fed.  Nothing makes a peer acknowledge or a stream end by itself.
Fairness ==
    /\ WF_vars(TransactionEnds)
    /\ WF_vars(TaskStep)
    /\ WF_vars(Connects \/ CannotConnect)
    /\ WF_vars(Writes)
    /\ SF_vars(StopWaits)
    /\ WF_vars(StreamStops /\ TransportExits)

FairSpec == Spec /\ Fairness

-----------------------------------------------------------------------------
(* Properties.                                                             *)

\* However the four reporters of a large message interleave, the host's
\* callback is called once at most: its context is released after the call.
\* (standalone_messaging.rs: the Mutex around the Option of the callback.)
OneResult == Len(results) <= 1

\* The host is told 200 only of a message the peer has acknowledged in full.
\* (standalone_messaging.rs: neither the answer to the INVITE nor the end of
\* the task is a success.)
SuccessIsDelivery ==
    results = <<200>> => IF route = "large" THEN transfer = "delivered"
                                            ELSE answer.code = 200

\* The host is told one result at most, and success only of a delivered message.
\* A failure it may be told of a delivered one: the task reports 500 as soon as
\* it has spawned the media session (standalone_messaging.rs:1040), mostly before
\* that can have delivered anything.
ResultIsTrue == OneResult /\ SuccessIsDelivery

\* Every message the engine does not leave to the session service gets a result.
\* (standalone_messaging.rs: each end of the transaction reaches the task.)
EveryMessageHasResult ==
    (route \in {"refused", "pager", "large"}) ~> (results # <<>>)
=============================================================================
