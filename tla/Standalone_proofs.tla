------------------------- MODULE Standalone_proofs --------------------------
(***************************************************************************)
(* Standalone messages, sent and received, for a message of any number of  *)
(* chunks and a channel of any capacity: the sender's host is called once  *)
(* at most, and told 200 of delivered messages only; the receiver's        *)
(* listener is called once at most; and both sides' media sessions keep    *)
(* the steps of their common promise.                                      *)
(***************************************************************************)
EXTENDS StandaloneSend, StandaloneReceive, SequenceTheorems, TLAPS

\* Where the message is says what its parts can be: a session exists only for
\* an answer that was taken for one, and while the transaction is pending
\* nobody else has anything to report.
Phase ==
    /\ stream \in {"none", "connecting", "failed"} => transfer = "none"
    /\ route = "none" => task = "none" /\ ~pending /\ results = <<>>
    /\ pending \/ task = "waiting" \/ answer # NoAnswer => route \in {"pager", "large"}
    /\ pending => answer = NoAnswer /\ results = <<>>
    /\ answer # NoAnswer => answer \in Outcomes[route]
    /\ socket # "none" \/ task \in {"starting", "ending"} => answer.kind = "ok"

IInv == TypeOK /\ Phase /\ OneResult /\ SuccessIsDelivery

LEMMA NoAnswerIsAnswer == NoAnswer \in Answers
  BY DEF NoAnswer, Answers, Codes

\* No outcome is mistaken for none, and no error for a success in large mode.
LEMMA OutcomeIsAnswer ==
    ASSUME NEW r \in {"pager", "large"}, NEW a \in Outcomes[r]
    PROVE  /\ a \in Answers /\ a # NoAnswer
           /\ r = "large" /\ a.kind = "error" => a.code # 200
           /\ a.kind = "ok" => r = "large"
  BY SendAssumption DEF Outcomes, Answers, Codes, NoAnswer

\* A session is that of a large message whose transaction has ended.
LEMMA SessionIsLarge ==
    ASSUME IInv, answer.kind = "ok"
    PROVE  route = "large" /\ ~pending /\ answer # NoAnswer
  <1>1. answer # NoAnswer
    BY DEF NoAnswer
  <1> QED
    BY <1>1, OutcomeIsAnswer DEF IInv, Phase

LEMMA InitHolds == ASSUME Init PROVE IInv
  <1> USE DEF Init, MsrpInit
  <1>1. TypeOK
    <2>1. /\ <<>> \in Seq({"chunk", "stop"}) /\ Len(<<>>) = 0
          /\ <<>> \in Seq(Codes)
      BY EmptySeq
    <2>2. queue \in Seq({"chunk", "stop"}) /\ Len(queue) <= Capacity
      BY <2>1, CapacityAssumption
    <2>3. MsrpTypeOK
      BY <2>2 DEF MsrpTypeOK
    <2>4. chunked \in 0..Chunks
      BY SendAssumption
    <2> QED
      BY <2>1, <2>3, <2>4, NoAnswerIsAnswer DEF TypeOK
  <1>2. Phase
    BY DEF Phase, NoAnswer
  <1>3. OneResult /\ SuccessIsDelivery
    BY DEF OneResult, SuccessIsDelivery
  <1> QED
    BY <1>1, <1>2, <1>3 DEF IInv

\* The first reporter is the only one.
LEMMA ReportOnce ==
    ASSUME results \in Seq(Codes), OneResult, NEW code \in Codes, Report(code)
    PROVE  /\ results' \in Seq(Codes)
           /\ OneResult'
           /\ results' # <<>>
           /\ results' = <<200>> => results = <<200>> \/ (results = <<>> /\ code = 200)
  BY DEF Report, OneResult

\* The media session keeps its part of the types, whatever it does.
MediaStep ==
    \/ MsrpNew \/ MsrpStart \/ (socket # "none" /\ MsrpStop) \/ StopQueued \/ StreamConnects
    \/ StreamFails \/ StreamBreaks \/ StreamWrites \/ StreamStops \/ UNCHANGED msrpVars

LEMMA MediaTypes == ASSUME MsrpTypeOK, MediaStep PROVE MsrpTypeOK'
  <1> USE DEF msrpVars
  <1>1. CASE MsrpNew \/ MsrpStart \/ StreamConnects \/ UNCHANGED msrpVars
    <2>1. CASE MsrpNew
      BY <2>1 DEF MsrpNew, MsrpTypeOK
    <2>2. CASE MsrpStart
      BY <2>2 DEF MsrpStart, MsrpTypeOK
    <2>3. CASE StreamConnects
      BY <2>3 DEF StreamConnects, MsrpTypeOK
    <2>4. CASE UNCHANGED msrpVars
      BY <2>4 DEF MsrpTypeOK
    <2> QED
      BY <1>1, <2>1, <2>2, <2>3, <2>4
  <1>2. CASE StreamFails \/ StreamBreaks \/ StreamStops
    <2> USE <1>2 DEF StreamFails, StreamBreaks, StreamStops, StreamGone
    <2>1. <<>> \in Seq({"chunk", "stop"}) /\ Len(<<>>) = 0
      BY EmptySeq
    <2>2. queue' \in Seq({"chunk", "stop"}) /\ Len(queue') <= Capacity
      <3>1. queue' = <<>>
        OBVIOUS
      <3> HIDE <1>2
      <3> QED
        BY <2>1, <3>1, CapacityAssumption
    <2>3. stream' \in {"failed", "closed"} /\ socket = "taken"
      BY DEF MsrpTypeOK
    <2> QED
      BY <2>2, <2>3 DEF MsrpTypeOK
  <1>3. CASE StopQueued
    <2> USE <1>3 DEF StopQueued
    <2>1. /\ Append(queue, "stop") \in Seq({"chunk", "stop"})
          /\ Len(Append(queue, "stop")) = Len(queue) + 1
          /\ Len(queue) \in Nat
      BY AppendProperties, LenProperties DEF MsrpTypeOK
    <2>2. queue' \in Seq({"chunk", "stop"}) /\ Len(queue') <= Capacity
      BY <2>1, CapacityAssumption
    <2> QED
      BY <2>2 DEF MsrpTypeOK
  <1>4. CASE StreamWrites
    <2> USE <1>4 DEF StreamWrites
    <2>1. /\ Tail(queue) \in Seq({"chunk", "stop"})
          /\ Len(Tail(queue)) = Len(queue) - 1
          /\ Len(queue) \in Nat
      BY HeadTailProperties, LenProperties DEF MsrpTypeOK
    <2>2. queue' \in Seq({"chunk", "stop"}) /\ Len(queue') <= Capacity
      BY <2>1, CapacityAssumption DEF MsrpTypeOK
    <2> QED
      BY <2>2 DEF MsrpTypeOK
  <1>5. CASE socket # "none" /\ MsrpStop
    <2> USE <1>5 DEF MsrpStop
    <2>1. /\ socket' \in {"taken", "dropped"}
          /\ stream # "none" <=> socket' = "taken"
      BY DEF MsrpTypeOK
    <2>2. stopping' \in BOOLEAN
      BY DEF MsrpTypeOK
    <2> QED
      BY <2>1, <2>2 DEF MsrpTypeOK
  <1> QED
    BY <1>1, <1>2, <1>3, <1>4, <1>5 DEF MediaStep

-----------------------------------------------------------------------------
(* Every action keeps the invariant.                                       *)

\* The engine's choice is the only beginning.
LEMMA SendMessageKeeps ==
    ASSUME IInv, NEW config \in Configs, NEW recipient \in RecipientTypes, NEW size \in Sizes,
           NEW maintained \in BOOLEAN, SendMessage(config, recipient, size, maintained)
    PROVE  IInv'
  <1> USE DEF IInv, SendMessage
  <1>1. route' \in {"refused", "session", "pager", "large"}
    BY DEF Route, Service, StandaloneMode
  <1>2. /\ route = "none" /\ task = "none" /\ ~pending /\ results = <<>>
        /\ answer = NoAnswer
        /\ UNCHANGED <<msrpVars, answer, chunked, transfer>>
    BY DEF Phase
  <1>3. /\ results' = <<>> \/ results' = <<403>> \/ results' = <<Refused>>
        /\ pending' \in BOOLEAN
        /\ task' \in {"none", "waiting"}
        /\ task' = "waiting" \/ pending' => route' \in {"pager", "large"} /\ results' = <<>>
    BY <1>1, <1>2 DEF Report, TypeOK
  <1>4. results' \in Seq(Codes) /\ results' # <<200>> /\ Len(results') <= 1
    <2>1. CASE results' = <<>>
      BY <2>1
    <2>2. CASE results' = <<403>>
      BY <2>2 DEF Codes
    <2>3. CASE results' = <<Refused>>
      BY <2>3, SendAssumption DEF Codes
    <2> QED
      BY <1>3, <2>1, <2>2, <2>3
  <1>5. TypeOK'
    <2>1. MsrpTypeOK'
      BY MediaTypes DEF TypeOK, MediaStep
    <2> QED
      BY <1>1, <1>2, <1>3, <1>4, <2>1 DEF TypeOK
  <1>6. Phase'
    BY <1>1, <1>2, <1>3 DEF Phase, msrpVars, TypeOK, NoAnswer
  <1>7. (OneResult /\ SuccessIsDelivery)'
    BY <1>4 DEF OneResult, SuccessIsDelivery
  <1> QED
    BY <1>5, <1>6, <1>7

\* The transaction ends once, with an outcome of its request.
LEMMA TransactionKeeps == ASSUME IInv, TransactionEnds PROVE IInv'
  <1> USE DEF IInv, TransactionEnds
  <1>1. /\ route \in {"pager", "large"} /\ answer = NoAnswer /\ results = <<>>
        /\ answer' \in Answers /\ answer' # NoAnswer
        /\ UNCHANGED <<msrpVars, route, task, chunked, transfer, results>>
    BY OutcomeIsAnswer DEF Phase
  <1>2. TypeOK'
    BY <1>1, MediaTypes DEF TypeOK, MediaStep
  <1>3. Phase'
    BY <1>1 DEF Phase, msrpVars, NoAnswer
  <1>4. (OneResult /\ SuccessIsDelivery)'
    BY <1>1 DEF OneResult, SuccessIsDelivery
  <1> QED
    BY <1>2, <1>3, <1>4

\* The task reports an error of the transaction as it is.
LEMMA TakesErrorKeeps == ASSUME IInv, TakesError PROVE IInv'
  <1> USE DEF IInv, TakesError
  <1>1. answer # NoAnswer
    BY DEF NoAnswer
  <1>2. /\ route \in {"pager", "large"} /\ answer \in Outcomes[route]
        /\ answer.code \in Codes
        /\ ~pending
    BY <1>1 DEF Phase, TypeOK, Answers
  <1>3. route = "large" => answer.code # 200
    BY <1>2, OutcomeIsAnswer
  <1>4. /\ results' \in Seq(Codes) /\ OneResult'
        /\ results' = <<200>> => results = <<200>> \/ answer.code = 200
    BY <1>2, ReportOnce DEF TypeOK
  <1>5. TypeOK'
    BY <1>4, MediaTypes DEF TypeOK, MediaStep
  <1>6. Phase'
    BY <1>1, <1>2 DEF Phase, msrpVars
  <1>7. SuccessIsDelivery'
    BY <1>2, <1>3, <1>4 DEF SuccessIsDelivery
  <1> QED
    BY <1>4, <1>5, <1>6, <1>7

\* What the task does to a session it sets up.
LEMMA SetUpKeeps == ASSUME IInv, TakesUnusable \/ SetsUp \/ Starts PROVE IInv'
  <1> USE DEF IInv
  <1>1. /\ MediaStep
        /\ task' \in {"starting", "ending"}
        /\ answer.kind = "ok"
        /\ stream' = stream \/ (stream = "none" /\ stream' = "connecting")
        /\ UNCHANGED <<route, pending, answer, chunked, transfer, results>>
    <2>1. CASE TakesUnusable
      BY <2>1 DEF TakesUnusable, MediaStep, msrpVars
    <2>2. CASE SetsUp
      BY <2>2 DEF SetsUp, MediaStep, MsrpNew
    <2>3. CASE Starts
      BY <2>3 DEF Starts, MediaStep, MsrpStart, msrpVars, Phase, TypeOK, MsrpTypeOK
    <2> QED
      BY <2>1, <2>2, <2>3
  <1>2. route = "large" /\ ~pending /\ answer # NoAnswer
    BY <1>1, SessionIsLarge
  <1>3. TypeOK'
    BY <1>1, MediaTypes DEF TypeOK
  <1>4. Phase'
    BY <1>1, <1>2 DEF Phase
  <1>5. (OneResult /\ SuccessIsDelivery)'
    BY <1>1 DEF OneResult, SuccessIsDelivery
  <1> QED
    BY <1>3, <1>4, <1>5

\* The task's own result is an error.
LEMMA EndsKeeps == ASSUME IInv, Ends PROVE IInv'
  <1> USE DEF IInv, Ends
  <1>1. answer.kind = "ok" /\ route = "large" /\ ~pending /\ answer # NoAnswer
    BY SessionIsLarge DEF Phase
  <1>2. /\ results' \in Seq(Codes) /\ OneResult'
        /\ results' = <<200>> => results = <<200>>
    BY ReportOnce DEF TypeOK, Codes
  <1>3. TypeOK'
    BY <1>2, MediaTypes DEF TypeOK, MediaStep
  <1>4. Phase'
    BY <1>1 DEF Phase, msrpVars
  <1>5. SuccessIsDelivery'
    BY <1>2 DEF SuccessIsDelivery
  <1> QED
    BY <1>2, <1>3, <1>4, <1>5

\* What the stream does without a word to the host.
LEMMA QuietKeeps ==
    ASSUME IInv, Connects \/ CannotConnect \/ Writes \/ StopWaits \/ Terminated
    PROVE  IInv'
  <1> USE DEF IInv
  <1>1. /\ MediaStep
        /\ UNCHANGED <<route, pending, answer, task, chunked, results>>
        /\ socket # "none" \/ UNCHANGED <<socket, stream, transfer>>
        /\ stream' \in {"none", "connecting"} => stream' = stream
        /\ stream' = "failed" => stream \in {"connecting", "failed"}
        /\ transfer' = transfer \/ (stream' = "open" /\ transfer = "none" /\ transfer' = "sending")
    <2>1. CASE Connects
      BY <2>1 DEF Connects, MediaStep, StreamConnects, Phase, TypeOK, MsrpTypeOK
    <2>2. CASE CannotConnect
      BY <2>2 DEF CannotConnect, MediaStep, StreamFails, StreamGone, sendVars, TypeOK, MsrpTypeOK
    <2>3. CASE Writes
      BY <2>3 DEF Writes, MediaStep, StreamWrites, sendVars, TypeOK, MsrpTypeOK
    <2>4. CASE StopWaits
      BY <2>4 DEF StopWaits, MediaStep, StopQueued, sendVars
    <2>5. CASE Terminated
      BY <2>5 DEF Terminated, MediaStep, MsrpStop, sendVars
    <2> QED
      BY <2>1, <2>2, <2>3, <2>4, <2>5
  <1>2. socket # "none" =>
            answer.kind = "ok" /\ route = "large" /\ ~pending /\ answer # NoAnswer
    BY SessionIsLarge DEF Phase
  <1>3. TypeOK'
    BY <1>1, MediaTypes DEF TypeOK
  <1>4. Phase'
    <2>1. CASE socket # "none"
      BY <1>1, <1>2, <2>1 DEF Phase
    <2>2. CASE UNCHANGED <<socket, stream, transfer>>
      BY <1>1, <2>2 DEF Phase
    <2> QED
      BY <1>1, <2>1, <2>2
  <1>5. (OneResult /\ SuccessIsDelivery)'
    BY <1>1 DEF OneResult, SuccessIsDelivery
  <1> QED
    BY <1>3, <1>4, <1>5

\* A chunk goes into the channel when there is room, or is dropped.
LEMMA ChunkQueuedKeeps == ASSUME IInv, ChunkQueued PROVE IInv'
  <1> USE DEF IInv, ChunkQueued
  <1>1. queue' \in Seq({"chunk", "stop"}) /\ Len(queue') <= Capacity
    <2>1. /\ Append(queue, "chunk") \in Seq({"chunk", "stop"})
          /\ Len(Append(queue, "chunk")) = Len(queue) + 1
          /\ queue \in Seq({"chunk", "stop"})
          /\ Len(queue) \in Nat /\ Len(queue) <= Capacity
      BY AppendProperties, LenProperties DEF TypeOK, MsrpTypeOK
    <2> QED
      BY <2>1, CapacityAssumption
  <1>2. MsrpTypeOK'
    BY <1>1 DEF TypeOK, MsrpTypeOK
  <1>3. chunked' \in 0..Chunks
    BY SendAssumption DEF TypeOK
  <1>4. TypeOK'
    BY <1>2, <1>3 DEF TypeOK
  <1>5. Phase'
    BY DEF Phase
  <1>6. (OneResult /\ SuccessIsDelivery)'
    BY DEF OneResult, SuccessIsDelivery
  <1> QED
    BY <1>4, <1>5, <1>6

\* The transfer reports 200 when it is delivered, which is for good.
LEMMA TransferKeeps == ASSUME IInv, TransferEnds PROVE IInv'
  <1> USE DEF IInv, TransferEnds
  <1>1. /\ answer.kind = "ok" /\ route = "large" /\ ~pending /\ answer # NoAnswer
    <2>1. socket # "none"
      BY DEF TypeOK, MsrpTypeOK
    <2> QED
      BY <2>1, SessionIsLarge DEF Phase
  <1>2. /\ results' \in Seq(Codes) /\ OneResult'
        /\ results' = <<200>> => results = <<200>> \/ transfer' = "delivered"
    BY ReportOnce, SendAssumption DEF TypeOK, Codes
  <1>3. results = <<200>> => transfer = "delivered"
    BY <1>1 DEF SuccessIsDelivery
  <1>4. TypeOK'
    BY <1>2, MediaTypes DEF TypeOK, MediaStep
  <1>5. Phase'
    BY <1>1 DEF Phase, msrpVars
  <1>6. SuccessIsDelivery'
    BY <1>1, <1>2, <1>3 DEF SuccessIsDelivery
  <1> QED
    BY <1>2, <1>4, <1>5, <1>6

\* The end of the stream is no success.
LEMMA ExitKeeps == ASSUME IInv, TransportExits PROVE IInv'
  <1> USE DEF IInv, TransportExits
  <1>1. /\ stream = "open" /\ stream' = "closed" /\ socket' = socket
        /\ MediaStep
    BY DEF StreamBreaks, StreamStops, StreamGone, MediaStep
  <1>2. /\ answer.kind = "ok" /\ route = "large" /\ ~pending /\ answer # NoAnswer
    <2>1. socket # "none"
      BY <1>1 DEF TypeOK, MsrpTypeOK
    <2> QED
      BY <2>1, SessionIsLarge DEF Phase
  <1>3. /\ results' \in Seq(Codes) /\ OneResult'
        /\ results' = <<200>> => results = <<200>>
    BY ReportOnce DEF TypeOK, Codes
  <1>4. TypeOK'
    BY <1>1, <1>3, MediaTypes DEF TypeOK
  <1>5. Phase'
    BY <1>1, <1>2 DEF Phase
  <1>6. SuccessIsDelivery'
    BY <1>3 DEF SuccessIsDelivery
  <1> QED
    BY <1>3, <1>4, <1>5, <1>6

LEMMA StutterKeeps == ASSUME IInv, UNCHANGED vars PROVE IInv'
  <1> USE DEF IInv, vars, sendVars
  <1>1. TypeOK'
    BY MediaTypes DEF TypeOK, MediaStep
  <1>2. Phase'
    BY DEF Phase, msrpVars
  <1>3. (OneResult /\ SuccessIsDelivery)'
    BY DEF OneResult, SuccessIsDelivery
  <1> QED
    BY <1>1, <1>2, <1>3

LEMMA NextKeeps == ASSUME IInv, [Next]_vars PROVE IInv'
  BY SendMessageKeeps, TransactionKeeps, TakesErrorKeeps, SetUpKeeps, EndsKeeps, QuietKeeps,
     ChunkQueuedKeeps, TransferKeeps, ExitKeeps, StutterKeeps DEF Next, TaskStep

\* Every state of the sender satisfies the inductive invariant.
\* (standalone_messaging.rs, sending.)
THEOREM Invariance == Spec => []IInv
  BY InitHolds, NextKeeps, PTL DEF Spec

\* The channel never holds more than its capacity, only a socket that was
\* taken has a stream, and each part keeps its type, for every capacity.
\* (standalone_messaging.rs: StandaloneLargeModeSendSession.)
THEOREM TypeCorrect == Spec => []TypeOK
  BY Invariance, PTL DEF IInv

\* However the reporters of a message of any number of chunks interleave, the
\* host's callback is called once at most, and told 200 only of a message that
\* the peer has acknowledged.
\* (standalone_messaging.rs: the Mutex around the Option of the callback; the
\* results of the task, the stream and the transfer.)
THEOREM OneTrueResult == Spec => []ResultIsTrue
  BY Invariance, PTL DEF IInv, ResultIsTrue

-----------------------------------------------------------------------------
(* The media session keeps the steps of its promise.                       *)

Promise == Transport!Init /\ [][Transport!Next]_(Transport!vars)

LEMMA MediaPromise ==
    ASSUME MsrpTypeOK, MediaStep
    PROVE  [Transport!Next]_(Transport!vars)
  <1> USE DEF Transport!Next, Transport!vars, MsrpPhase, MsrpTypeOK
  <1>1. CASE MsrpNew
    BY <1>1 DEF MsrpNew
  <1>2. CASE MsrpStart
    BY <1>2 DEF MsrpStart, Transport!Begin, msrpVars
  <1>3. CASE socket # "none" /\ MsrpStop
    BY <1>3 DEF MsrpStop, Transport!End
  <1>4. CASE StopQueued
    BY <1>4 DEF StopQueued
  <1>5. CASE StreamConnects
    BY <1>5 DEF StreamConnects, Transport!Open
  <1>6. CASE StreamFails \/ StreamBreaks \/ StreamStops
    BY <1>6 DEF StreamFails, StreamBreaks, StreamStops, StreamGone, Transport!Over
  <1>7. CASE StreamWrites
    BY <1>7 DEF StreamWrites
  <1>8. CASE UNCHANGED msrpVars
    BY <1>8 DEF msrpVars
  <1> QED
    BY <1>1, <1>2, <1>3, <1>4, <1>5, <1>6, <1>7, <1>8 DEF MediaStep

LEMMA NextPromises == ASSUME IInv, [Next]_vars PROVE [Transport!Next]_(Transport!vars)
  <1>1. CASE ChunkQueued
    BY <1>1 DEF ChunkQueued, Transport!vars, MsrpPhase
  <1>2. CASE ~ChunkQueued
    <2>1. MediaStep
      BY <1>2 DEF Next, TaskStep, SendMessage, TransactionEnds, TakesError, TakesUnusable, SetsUp,
         Starts, Ends, Connects, CannotConnect, Writes, TransferEnds, StopWaits, TransportExits,
         Terminated, MediaStep, vars
    <2> QED
      BY <2>1, MediaPromise DEF IInv, TypeOK
  <1> QED
    BY <1>1, <1>2

\* A stream is begun once, and never for a dialog that has ended; the safety
\* half of MediaSession.
\* (standalone_messaging.rs: start and stop of StandaloneLargeModeSendSession.)
THEOREM Refinement == Spec => Promise
  <1>1. Init => Transport!Init
    BY DEF Init, MsrpInit, Transport!Init, MsrpPhase
  <1>2. IInv /\ [Next]_vars => [Transport!Next]_(Transport!vars)
    BY NextPromises
  <1> QED
    BY <1>1, <1>2, Invariance, PTL DEF Spec, Promise

-----------------------------------------------------------------------------
(* The receiver, whose media session is the same state machine.            *)

\* A stream was acknowledged, and so was whatever reached the listener, which
\* is gone when it has been called.
Listening ==
    /\ socket = "taken" \/ listener # "armed" => acked
    /\ deliveries <= 1
    /\ listener # "used" => deliveries = 0

ReceiveIInv == ReceiveTypeOK /\ Listening

\* What the receiver does to its media session is a step of it.
LEMMA ReceiveMediaStep ==
    ASSUME [ReceiveNext]_(receiveVars)
    PROVE  /\ MediaStep
           /\ socket' = "taken" => socket = "taken" \/ Acknowledged
  <1> USE DEF ReceiveNext, receiveVars, deliveryVars, msrpVars, MediaStep
  <1>1. CASE UNCHANGED msrpVars
    BY <1>1
  <1>2. CASE Accepts
    BY <1>2 DEF Accepts, MsrpNew
  <1>3. CASE Acknowledged
    BY <1>3 DEF Acknowledged, MsrpStart
  <1>4. CASE ReceiverTerminated
    BY <1>4 DEF ReceiverTerminated, MsrpStop
  <1>5. CASE ReceiverConnects \/ ReceiverCannotConnect
    BY <1>5 DEF ReceiverConnects, StreamConnects, ReceiverCannotConnect, StreamFails, StreamGone
  <1>6. CASE ReceiverStopWaits
    BY <1>6 DEF ReceiverStopWaits, StopQueued
  <1>7. CASE ReceiverExits
    BY <1>7 DEF ReceiverExits, StreamBreaks, StreamStops, StreamGone
  <1>8. CASE \/ \E m \in PagerMessages : Page(m)
             \/ Refuses \/ Cancelled
             \/ MessageBegins \/ MessageCompletes
    BY <1>8 DEF Page, Refuses, Cancelled, MessageBegins, MessageCompletes
  <1> QED
    BY <1>1, <1>2, <1>3, <1>4, <1>5, <1>6, <1>7, <1>8

LEMMA ReceiveInitHolds == ASSUME ReceiveInit PROVE ReceiveIInv
  <1> USE DEF ReceiveInit, MsrpInit
  <1>1. MsrpTypeOK
    <2>1. <<>> \in Seq({"chunk", "stop"}) /\ Len(<<>>) = 0
      BY EmptySeq
    <2>2. queue \in Seq({"chunk", "stop"}) /\ Len(queue) <= Capacity
      BY <2>1, CapacityAssumption
    <2> QED
      BY <2>2 DEF MsrpTypeOK
  <1>2. ReceiveTypeOK
    BY <1>1 DEF ReceiveTypeOK, PagerAnswers
  <1> QED
    BY <1>2 DEF ReceiveIInv, Listening

\* The listener is called by the writer that has it, and by nobody after.
LEMMA ReceiveNextKeeps ==
    ASSUME ReceiveIInv, [ReceiveNext]_(receiveVars)
    PROVE  ReceiveIInv'
  <1> USE DEF ReceiveIInv
  <1>1. MsrpTypeOK'
    BY MediaTypes, ReceiveMediaStep DEF ReceiveTypeOK
  <1>2. CASE MessageBegins \/ MessageCompletes
    <2> USE <1>2 DEF MessageBegins, MessageCompletes
    <2>1. acked /\ acked' = acked /\ socket' = socket
      BY DEF ReceiveTypeOK, msrpVars, MsrpTypeOK, Listening
    <2>2. /\ deliveries' \in Nat /\ deliveries' <= 1
          /\ listener' \in {"writing", "used"}
          /\ listener' = "writing" => deliveries' = 0
      BY DEF ReceiveTypeOK, Listening
    <2>3. ReceiveTypeOK'
      BY <1>1, <2>1, <2>2 DEF ReceiveTypeOK
    <2> QED
      BY <2>1, <2>2, <2>3 DEF Listening
  <1>3. CASE ~(MessageBegins \/ MessageCompletes)
    <2> USE <1>3 DEF ReceiveNext, receiveVars, deliveryVars, Refuses, Accepts, Cancelled,
                     Acknowledged, ReceiverTerminated, ReceiverConnects, ReceiverCannotConnect,
                     ReceiverStopWaits, ReceiverExits
    <2>1. UNCHANGED <<listener, deliveries>>
      BY DEF Page
    <2>2. acked' = acked \/ (Acknowledged /\ acked')
      BY DEF Page
    <2>3. /\ invite' \in {"new", "refused", "accepted"}
          /\ watcher' \in {"none", "waiting", "panicked"}
      BY DEF Page, ReceiveTypeOK
    <2>4. acked' \in BOOLEAN
      BY DEF Page, ReceiveTypeOK
    <2>5. paged' \in [answer : PagerAnswers, delivered : BOOLEAN]
      <3>1. ASSUME NEW m \in PagerMessages, Page(m)
            PROVE  paged' \in [answer : PagerAnswers, delivered : BOOLEAN]
        <4>1. /\ PagerAnswer(m) \in PagerAnswers
              /\ (PagerAnswer(m) = "200" /\ m.body) \in BOOLEAN
          BY DEF PagerAnswer, PagerAnswers
        <4> QED
          BY <3>1, <4>1 DEF Page
      <3>2. paged' = paged \/ \E m \in PagerMessages : Page(m)
        OBVIOUS
      <3> QED
        BY <3>1, <3>2 DEF ReceiveTypeOK
    <2>6. Listening'
      BY <2>1, <2>2, ReceiveMediaStep DEF Listening, ReceiveTypeOK
    <2>7. ReceiveTypeOK'
      BY <1>1, <2>1, <2>3, <2>4, <2>5 DEF ReceiveTypeOK
    <2> QED
      BY <2>6, <2>7
  <1> QED
    BY <1>2, <1>3

\* Every state of the receiver satisfies the inductive invariant.
\* (standalone_messaging.rs, receiving.)
THEOREM ReceiveInvariance == ReceiveSpec => []ReceiveIInv
  <1>1. ReceiveInit => ReceiveIInv
    BY ReceiveInitHolds
  <1> QED
    BY <1>1, ReceiveNextKeeps, PTL DEF ReceiveSpec

\* Each part of the receiver keeps its type, for every capacity of the channel.
\* (standalone_messaging.rs: StandaloneLargeModeReceiveSession.)
THEOREM ReceiveTypeCorrect == ReceiveSpec => []ReceiveTypeOK
  BY ReceiveInvariance, PTL DEF ReceiveIInv

\* However often a peer repeats an ACK, a message or its last chunk, the host's
\* listener is called once at most, and for an acknowledged session only.
\* (standalone_messaging.rs: the listener is an FnOnce that moves.)
THEOREM ListenerCalledOnce == ReceiveSpec => []DeliveredOnce
  <1>1. ReceiveIInv => DeliveredOnce
    BY DEF ReceiveIInv, Listening, DeliveredOnce
  <1> QED
    BY <1>1, ReceiveInvariance, PTL

\* The receiver keeps the promise of the sender's session: a stream is begun
\* once, and never for a dialog that has ended; the safety half of MediaSession.
\* (standalone_messaging.rs: start and stop of StandaloneLargeModeReceiveSession.)
THEOREM ReceiveRefinement == ReceiveSpec => Promise
  <1>1. ReceiveInit => Transport!Init
    BY DEF ReceiveInit, MsrpInit, Transport!Init, MsrpPhase
  <1>2. ReceiveIInv /\ [ReceiveNext]_(receiveVars) => [Transport!Next]_(Transport!vars)
    BY MediaPromise, ReceiveMediaStep DEF ReceiveIInv, ReceiveTypeOK
  <1> QED
    BY <1>1, <1>2, ReceiveInvariance, PTL DEF ReceiveSpec, Promise
=============================================================================
