-------------------------- MODULE Conference_proofs --------------------------
(***************************************************************************)
(* For any number of conferences and any room: every INVITE keeps the      *)
(* steps of its promise, and a listener that runs, runs for a conference   *)
(* that was joined.                                                        *)
(***************************************************************************)
EXTENDS Conference, TLAPS

\* The host's word, the ACK and the join of an INVITE come with its stage.
StagePhase ==
    \A c \in Invited :
        /\ stage[c] = "new" => response[c] = "nothing"
        /\ stage[c] \in {"listening", "sent", "answered"} => response[c] = "accepts"
        /\ acked[c] => stage[c] \in {"sent", "answered"}
        /\ joined[c] => acked[c]

\* The creation of a conference that has no dialog yet has not been confirmed.
CreationPhase ==
    \A c \in Created :
        joined[c] <=> creation[c] \in {"confirmed", "started", "some"}

\* The listener of a conference runs only after it was joined.
LoopPhase == \A c \in Conferences : loop[c] = "running" => joined[c]

Told(c, report) == IF report \in ended[c] THEN 1 ELSE 0

\* A report of the end is sent once.
SendingPhase ==
    \A c \in Conferences : sending[c] <= Told(c, "request") + Told(c, "response")

IInv == TypeOK /\ StagePhase /\ CreationPhase /\ LoopPhase /\ SendingPhase

-----------------------------------------------------------------------------
LEMMA Disjoint == \A c \in Created : c \notin Invited
  BY DisjointAssumption

LEMMA InitHolds == Init => IInv
  <1> SUFFICES ASSUME Init PROVE IInv
    OBVIOUS
  <1>1. TypeOK
    BY RoomAssumption DEF Init, TypeOK
  <1>2. StagePhase /\ CreationPhase
    BY DEF Init, StagePhase, CreationPhase, Conferences
  <1>3. LoopPhase /\ SendingPhase
    BY DEF Init, LoopPhase, SendingPhase, Told
  <1> QED
    BY <1>1, <1>2, <1>3 DEF IInv

-----------------------------------------------------------------------------
(* A conference the host creates.                                          *)

LEMMA CreateKeeps ==
    ASSUME IInv, NEW c \in Created, Create(c)
    PROVE  IInv'
  <1>1. TypeOK'
    BY DEF Create, Becomes, invitedVars, eventVars, IInv, TypeOK
  <1>2. StagePhase'
    BY DEF Create, Becomes, invitedVars, eventVars, IInv, TypeOK, StagePhase
  <1>3. CreationPhase'
    BY DEF Create, Becomes, invitedVars, IInv, CreationPhase
  <1>4. LoopPhase'
    BY DEF Create, Becomes, IInv, LoopPhase
  <1>5. SendingPhase'
    BY DEF Create, Becomes, eventVars, IInv, SendingPhase, Told
  <1> QED
    BY <1>1, <1>2, <1>3, <1>4, <1>5 DEF IInv

LEMMA RespondsKeeps ==
    ASSUME IInv, NEW c \in Created, Responds(c)
    PROVE  IInv'
  <1>1. TypeOK'
    BY DEF Responds, Becomes, invitedVars, eventVars, IInv, TypeOK
  <1>2. StagePhase'
    BY DEF Responds, Becomes, invitedVars, eventVars, IInv, TypeOK, StagePhase
  <1>3. CreationPhase'
    BY DEF Responds, Becomes, invitedVars, IInv, CreationPhase
  <1>4. LoopPhase'
    BY DEF Responds, Becomes, IInv, LoopPhase
  <1>5. SendingPhase'
    BY DEF Responds, Becomes, eventVars, IInv, SendingPhase, Told
  <1> QED
    BY <1>1, <1>2, <1>3, <1>4, <1>5 DEF IInv

LEMMA ConfirmsKeeps ==
    ASSUME IInv, NEW c \in Created, Confirms(c)
    PROVE  IInv'
  <1>1. TypeOK'
    BY DEF Confirms, Becomes, invitedVars, eventVars, IInv, TypeOK
  <1>2. StagePhase'
    BY Disjoint DEF Confirms, Becomes, invitedVars, eventVars, IInv, TypeOK, StagePhase
  <1>3. CreationPhase'
    BY Disjoint DEF Confirms, Becomes, invitedVars, Conferences, IInv, TypeOK, CreationPhase
  <1>4. LoopPhase'
    BY DEF Confirms, Becomes, Conferences, IInv, TypeOK, LoopPhase
  <1>5. SendingPhase'
    BY DEF Confirms, Becomes, eventVars, IInv, SendingPhase, Told
  <1> QED
    BY <1>1, <1>2, <1>3, <1>4, <1>5 DEF IInv

LEMMA CannotConfirmKeeps ==
    ASSUME IInv, NEW c \in Created, CannotConfirm(c)
    PROVE  IInv'
  <1>1. TypeOK'
    BY DEF CannotConfirm, Becomes, invitedVars, eventVars, IInv, TypeOK
  <1>2. StagePhase'
    BY DEF CannotConfirm, Becomes, invitedVars, eventVars, IInv, TypeOK, StagePhase
  <1>3. CreationPhase'
    BY DEF CannotConfirm, Becomes, invitedVars, IInv, CreationPhase
  <1>4. LoopPhase'
    BY DEF CannotConfirm, Becomes, IInv, LoopPhase
  <1>5. SendingPhase'
    BY DEF CannotConfirm, Becomes, eventVars, IInv, SendingPhase, Told
  <1> QED
    BY <1>1, <1>2, <1>3, <1>4, <1>5 DEF IInv

LEMMA StartsKeeps ==
    ASSUME IInv, NEW c \in Created, Starts(c)
    PROVE  IInv'
  <1>1. TypeOK'
    BY DEF Starts, Becomes, invitedVars, eventVars, IInv, TypeOK
  <1>2. StagePhase'
    BY DEF Starts, Becomes, invitedVars, eventVars, IInv, TypeOK, StagePhase
  <1>3. CreationPhase'
    BY DEF Starts, Becomes, invitedVars, IInv, CreationPhase
  <1>4. LoopPhase'
    BY DEF Starts, Becomes, IInv, LoopPhase, CreationPhase
  <1>5. SendingPhase'
    BY DEF Starts, Becomes, eventVars, IInv, SendingPhase, Told
  <1> QED
    BY <1>1, <1>2, <1>3, <1>4, <1>5 DEF IInv

LEMMA SucceedsKeeps ==
    ASSUME IInv, NEW c \in Created, Succeeds(c)
    PROVE  IInv'
  <1>1. TypeOK'
    BY DEF Succeeds, Becomes, invitedVars, eventVars, IInv, TypeOK
  <1>2. StagePhase'
    BY DEF Succeeds, Becomes, invitedVars, eventVars, IInv, TypeOK, StagePhase
  <1>3. CreationPhase'
    BY DEF Succeeds, Becomes, invitedVars, IInv, CreationPhase
  <1>4. LoopPhase'
    BY DEF Succeeds, Becomes, IInv, LoopPhase
  <1>5. SendingPhase'
    BY DEF Succeeds, Becomes, eventVars, IInv, SendingPhase, Told
  <1> QED
    BY <1>1, <1>2, <1>3, <1>4, <1>5 DEF IInv

LEMMA FailsKeeps ==
    ASSUME IInv, NEW c \in Created, Fails(c)
    PROVE  IInv'
  <1>1. TypeOK'
    BY DEF Fails, Becomes, invitedVars, eventVars, IInv, TypeOK
  <1>2. StagePhase'
    BY DEF Fails, Becomes, invitedVars, eventVars, IInv, TypeOK, StagePhase
  <1>3. CreationPhase'
    BY DEF Fails, Becomes, invitedVars, IInv, CreationPhase
  <1>4. LoopPhase'
    BY DEF Fails, Becomes, IInv, LoopPhase
  <1>5. SendingPhase'
    BY DEF Fails, Becomes, eventVars, IInv, SendingPhase, Told
  <1> QED
    BY <1>1, <1>2, <1>3, <1>4, <1>5 DEF IInv

-----------------------------------------------------------------------------
(* A conference the host is invited to.                                    *)

LEMMA RefusesKeeps ==
    ASSUME IInv, NEW c \in Invited, Refuses(c)
    PROVE  IInv'
  <1>1. TypeOK'
    BY DEF Refuses, Goes, eventVars, IInv, TypeOK
  <1>2. StagePhase'
    BY DEF Refuses, Goes, eventVars, IInv, TypeOK, StagePhase
  <1>3. CreationPhase'
    BY DEF Refuses, Goes, IInv, CreationPhase
  <1>4. LoopPhase'
    BY DEF Refuses, Goes, IInv, LoopPhase
  <1>5. SendingPhase'
    BY DEF Refuses, Goes, eventVars, IInv, SendingPhase, Told
  <1> QED
    BY <1>1, <1>2, <1>3, <1>4, <1>5 DEF IInv

LEMMA OnlyRingsKeeps ==
    ASSUME IInv, NEW c \in Invited, OnlyRings(c)
    PROVE  IInv'
  <1>1. TypeOK'
    BY DEF OnlyRings, Goes, eventVars, IInv, TypeOK
  <1>2. StagePhase'
    BY DEF OnlyRings, Goes, eventVars, IInv, TypeOK, StagePhase
  <1>3. CreationPhase'
    BY DEF OnlyRings, Goes, IInv, CreationPhase
  <1>4. LoopPhase'
    BY DEF OnlyRings, Goes, IInv, LoopPhase
  <1>5. SendingPhase'
    BY DEF OnlyRings, Goes, eventVars, IInv, SendingPhase, Told
  <1> QED
    BY <1>1, <1>2, <1>3, <1>4, <1>5 DEF IInv

LEMMA AsksKeeps ==
    ASSUME IInv, NEW c \in Invited, Asks(c)
    PROVE  IInv'
  <1>1. TypeOK'
    BY DEF Asks, Goes, eventVars, IInv, TypeOK
  <1>2. StagePhase'
    BY DEF Asks, Goes, eventVars, IInv, TypeOK, StagePhase
  <1>3. CreationPhase'
    BY DEF Asks, Goes, IInv, CreationPhase
  <1>4. LoopPhase'
    BY DEF Asks, Goes, IInv, LoopPhase
  <1>5. SendingPhase'
    BY DEF Asks, Goes, eventVars, IInv, SendingPhase, Told
  <1> QED
    BY <1>1, <1>2, <1>3, <1>4, <1>5 DEF IInv

LEMMA AnswersKeeps ==
    ASSUME IInv, NEW c \in Invited, Answers(c)
    PROVE  IInv'
  <1>1. TypeOK'
    BY DEF Answers, eventVars, IInv, TypeOK
  <1>2. StagePhase'
    BY DEF Answers, eventVars, IInv, TypeOK, StagePhase
  <1>3. CreationPhase'
    BY DEF Answers, IInv, CreationPhase
  <1>4. LoopPhase'
    BY DEF Answers, IInv, LoopPhase
  <1>5. SendingPhase'
    BY DEF Answers, eventVars, IInv, SendingPhase, Told
  <1> QED
    BY <1>1, <1>2, <1>3, <1>4, <1>5 DEF IInv

LEMMA DeclinesKeeps ==
    ASSUME IInv, NEW c \in Invited, Declines(c)
    PROVE  IInv'
  <1>1. TypeOK'
    BY DEF Declines, Goes, eventVars, IInv, TypeOK
  <1>2. StagePhase'
    BY DEF Declines, Goes, eventVars, IInv, TypeOK, StagePhase
  <1>3. CreationPhase'
    BY DEF Declines, Goes, IInv, CreationPhase
  <1>4. LoopPhase'
    BY DEF Declines, Goes, IInv, LoopPhase
  <1>5. SendingPhase'
    BY DEF Declines, Goes, eventVars, IInv, SendingPhase, Told
  <1> QED
    BY <1>1, <1>2, <1>3, <1>4, <1>5 DEF IInv

LEMMA AcceptsKeeps ==
    ASSUME IInv, NEW c \in Invited, Accepts(c)
    PROVE  IInv'
  <1>1. TypeOK'
    BY DEF Accepts, Goes, eventVars, IInv, TypeOK
  <1>2. StagePhase'
    BY DEF Accepts, Goes, eventVars, IInv, TypeOK, StagePhase
  <1>3. CreationPhase'
    BY DEF Accepts, Goes, IInv, CreationPhase
  <1>4. LoopPhase'
    BY DEF Accepts, Goes, IInv, LoopPhase
  <1>5. SendingPhase'
    BY DEF Accepts, Goes, eventVars, IInv, SendingPhase, Told
  <1> QED
    BY <1>1, <1>2, <1>3, <1>4, <1>5 DEF IInv

LEMMA SendsKeeps ==
    ASSUME IInv, NEW c \in Invited, Sends(c)
    PROVE  IInv'
  <1>1. TypeOK'
    BY DEF Sends, Goes, eventVars, IInv, TypeOK
  <1>2. StagePhase'
    BY DEF Sends, Goes, eventVars, IInv, TypeOK, StagePhase
  <1>3. CreationPhase'
    BY DEF Sends, Goes, IInv, CreationPhase
  <1>4. LoopPhase'
    BY DEF Sends, Goes, IInv, LoopPhase
  <1>5. SendingPhase'
    BY DEF Sends, Goes, eventVars, IInv, SendingPhase, Told
  <1> QED
    BY <1>1, <1>2, <1>3, <1>4, <1>5 DEF IInv

LEMMA LetsGoKeeps ==
    ASSUME IInv, NEW c \in Invited, LetsGo(c)
    PROVE  IInv'
  <1>1. TypeOK'
    BY DEF LetsGo, Goes, eventVars, IInv, TypeOK
  <1>2. StagePhase'
    BY DEF LetsGo, Goes, eventVars, IInv, TypeOK, StagePhase
  <1>3. CreationPhase'
    BY DEF LetsGo, Goes, IInv, CreationPhase
  <1>4. LoopPhase'
    BY DEF LetsGo, Goes, IInv, LoopPhase
  <1>5. SendingPhase'
    BY DEF LetsGo, Goes, eventVars, IInv, SendingPhase, Told
  <1> QED
    BY <1>1, <1>2, <1>3, <1>4, <1>5 DEF IInv

LEMMA AcknowledgedKeeps ==
    ASSUME IInv, NEW c \in Invited, Acknowledged(c)
    PROVE  IInv'
  <1>1. TypeOK'
    BY DEF Acknowledged, eventVars, IInv, TypeOK
  <1>2. StagePhase'
    BY DEF Acknowledged, eventVars, IInv, TypeOK, StagePhase
  <1>3. CreationPhase'
    BY DEF Acknowledged, IInv, CreationPhase
  <1>4. LoopPhase'
    BY DEF Acknowledged, IInv, LoopPhase
  <1>5. SendingPhase'
    BY DEF Acknowledged, eventVars, IInv, SendingPhase, Told
  <1> QED
    BY <1>1, <1>2, <1>3, <1>4, <1>5 DEF IInv

LEMMA OnAckKeeps ==
    ASSUME IInv, NEW c \in Invited, OnAck(c)
    PROVE  IInv'
  <1>1. TypeOK'
    BY DEF OnAck, invitedVars, eventVars, IInv, TypeOK
  <1>2. StagePhase'
    BY DEF OnAck, invitedVars, eventVars, IInv, TypeOK, StagePhase
  <1>3. CreationPhase'
    BY Disjoint DEF OnAck, invitedVars, IInv, CreationPhase
  <1>4. LoopPhase'
    BY Disjoint DEF OnAck, IInv, TypeOK, LoopPhase
  <1>5. SendingPhase'
    BY DEF OnAck, eventVars, IInv, TypeOK, SendingPhase, Told
  <1> QED
    BY <1>1, <1>2, <1>3, <1>4, <1>5 DEF IInv
-----------------------------------------------------------------------------
(* The events of a conference.                                             *)

LEMMA EndsKeeps ==
    ASSUME IInv, NEW c \in Conferences, NEW report \in Reports, Ends(c, report)
    PROVE  IInv'
  <1>1. TypeOK'
    BY DEF Ends, invitedVars, Reports, IInv, TypeOK, Told, SendingPhase
  <1>2. StagePhase'
    BY DEF Ends, invitedVars, Reports, IInv, TypeOK, StagePhase
  <1>3. CreationPhase'
    BY DEF Ends, invitedVars, IInv, CreationPhase
  <1>4. LoopPhase'
    BY DEF Ends, IInv, LoopPhase
  <1>5. SendingPhase'
    BY DEF Ends, Reports, IInv, TypeOK, SendingPhase, Told
  <1> QED
    BY <1>1, <1>2, <1>3, <1>4, <1>5 DEF IInv

LEMMA SendsEndKeeps ==
    ASSUME IInv, NEW c \in Conferences, SendsEnd(c)
    PROVE  IInv'
  <1>1. TypeOK'
    BY RoomAssumption DEF SendsEnd, invitedVars, IInv, TypeOK
  <1>2. StagePhase'
    BY Disjoint DEF SendsEnd, invitedVars, IInv, TypeOK, StagePhase
  <1>3. CreationPhase'
    BY DEF SendsEnd, invitedVars, IInv, CreationPhase
  <1>4. LoopPhase'
    BY DEF SendsEnd, IInv, LoopPhase
  <1>5. SendingPhase'
    BY DEF SendsEnd, IInv, TypeOK, SendingPhase, Told
  <1> QED
    BY <1>1, <1>2, <1>3, <1>4, <1>5 DEF IInv

LEMMA HearsKeeps ==
    ASSUME IInv, NEW c \in Conferences, Hears(c)
    PROVE  IInv'
  <1>1. TypeOK'
    BY RoomAssumption DEF Hears, invitedVars, IInv, TypeOK
  <1>2. StagePhase'
    BY Disjoint DEF Hears, invitedVars, IInv, TypeOK, StagePhase
  <1>3. CreationPhase'
    BY DEF Hears, invitedVars, IInv, CreationPhase
  <1>4. LoopPhase'
    BY DEF Hears, IInv, LoopPhase
  <1>5. SendingPhase'
    BY DEF Hears, IInv, SendingPhase, Told
  <1> QED
    BY <1>1, <1>2, <1>3, <1>4, <1>5 DEF IInv

LEMMA StutterKeeps == IInv /\ UNCHANGED vars => IInv'
  BY DEF vars, createdVars, invitedVars, eventVars, IInv, TypeOK, StagePhase, CreationPhase,
         LoopPhase, SendingPhase, Told

LEMMA NextKeeps == ASSUME IInv, [Next]_vars PROVE IInv'
  <1>1. ASSUME NEW c \in Created, CreatedStep(c) PROVE IInv'
    BY <1>1, CreateKeeps, RespondsKeeps, ConfirmsKeeps, CannotConfirmKeeps, StartsKeeps,
       SucceedsKeeps, FailsKeeps
       DEF CreatedStep
  <1>2. ASSUME NEW c \in Invited, InvitedStep(c) PROVE IInv'
    BY <1>2, RefusesKeeps, OnlyRingsKeeps, AsksKeeps, AnswersKeeps, DeclinesKeeps, AcceptsKeeps,
       SendsKeeps, LetsGoKeeps, AcknowledgedKeeps, OnAckKeeps
       DEF InvitedStep
  <1>3. ASSUME NEW c \in Conferences, EventStep(c) PROVE IInv'
    BY <1>3, EndsKeeps, SendsEndKeeps, HearsKeeps DEF EventStep
  <1> QED
    BY <1>1, <1>2, <1>3, StutterKeeps DEF Next

\* Every state of the conferences satisfies the inductive invariant.
\* (conference/mod.rs.)
THEOREM Invariance == Spec => []IInv
  BY InitHolds, NextKeeps, PTL DEF Spec

\* The channel of a conference's events holds no more than its room, two tasks
\* at most wait to send the end, and each part keeps its type.
\* (conference/mod.rs: MultiConferenceV1SessionDialogEventReceiver.)
THEOREM TypeCorrect == Spec => []TypeOK
  BY Invariance, PTL DEF IInv

-----------------------------------------------------------------------------
(* Every INVITE keeps the steps of its promise.                            *)

PromiseSteps == Promise!Init /\ [][Promise!Next]_(Promise!vars)

\* Nothing that the phases are made of changes.
LEMMA SamePhases ==
    ASSUME \A c \in Invited :
                stage[c]' = stage[c] /\ response[c]' = response[c] /\ joined[c]' = joined[c]
    PROVE  UNCHANGED Promise!vars
  <1>1. \A c \in Invited : Phase(c)' = Phase(c)
    BY DEF Phase
  <1> QED
    BY <1>1 DEF Promise!vars

\* What the phases of the other INVITEs are made of.
OthersRest(c) ==
    \A d \in Invited \ {c} :
        stage[d]' = stage[d] /\ response[d]' = response[d] /\ joined[d]' = joined[d]

\* The phase of one INVITE changes.
LEMMA OnePhase ==
    ASSUME NEW c \in Invited, NEW old, NEW new, Phase(c) \in old, Phase(c)' = new, OthersRest(c)
    PROVE  Promise!Becomes(c, old, new)
  <1>1. \A d \in Invited \ {c} : Phase(d)' = Phase(d)
    BY DEF Phase, OthersRest
  <1>2. [d \in Invited |-> Phase(d)]' = [[d \in Invited |-> Phase(d)] EXCEPT ![c] = new]
    BY <1>1
  <1> QED
    BY <1>2 DEF Promise!Becomes

LEMMA InvitedPromises ==
    ASSUME IInv, NEW c \in Invited, InvitedStep(c)
    PROVE  [Promise!Next]_(Promise!vars)
  <1> USE DEF IInv, TypeOK, Goes, Conferences
  <1>1. CASE Refuses(c)
    <2>1. Phase(c) = "new" /\ Phase(c)' = "declined"
      BY <1>1 DEF Refuses, Phase
    <2>2. OthersRest(c)
      BY <1>1 DEF Refuses, OthersRest
    <2>3. Promise!Becomes(c, {"new", "offered", "accepted"}, "declined")
      BY <2>1, <2>2, OnePhase
    <2> QED
      BY <2>3 DEF Promise!Next, Promise!Decline
  <1>2. CASE OnlyRings(c)
    <2>1. Phase(c) = "new" /\ Phase(c)' = "dead"
      BY <1>2 DEF OnlyRings, Phase
    <2>2. OthersRest(c)
      BY <1>2 DEF OnlyRings, OthersRest
    <2>3. Promise!Becomes(c, {"new", "accepted"}, "dead")
      BY <2>1, <2>2, OnePhase
    <2> QED
      BY <2>3 DEF Promise!Next, Promise!Die
  <1>3. CASE Asks(c)
    <2>1. Phase(c) = "new" /\ Phase(c)' = "offered"
      BY <1>3 DEF Asks, Phase, StagePhase
    <2>2. OthersRest(c)
      BY <1>3 DEF Asks, OthersRest
    <2>3. Promise!Becomes(c, {"new"}, "offered")
      BY <2>1, <2>2, OnePhase
    <2> QED
      BY <2>3 DEF Promise!Next, Promise!Offer
  <1>4. CASE Answers(c)
    <2>1. Phase(c) = "offered" /\ Phase(c)' \in {"accepted", "declined"}
      BY <1>4 DEF Answers, Phase
    <2>2. OthersRest(c)
      BY <1>4 DEF Answers, OthersRest
    <2>3. \/ Promise!Becomes(c, {"new", "offered"}, "accepted")
          \/ Promise!Becomes(c, {"new", "offered", "accepted"}, "declined")
      BY <2>1, <2>2, OnePhase
    <2> QED
      BY <2>3 DEF Promise!Next, Promise!Accept, Promise!Decline
  <1>5. CASE Sends(c)
    <2>1. Phase(c) = "accepted" /\ Phase(c)' = "answered"
      BY <1>5 DEF Sends, Phase, StagePhase
    <2>2. OthersRest(c)
      BY <1>5 DEF Sends, OthersRest
    <2>3. Promise!Becomes(c, {"accepted"}, "answered")
      BY <2>1, <2>2, OnePhase
    <2> QED
      BY <2>3 DEF Promise!Next, Promise!Answer
  <1>6. CASE OnAck(c)
    <2>1. Phase(c) = "answered" /\ Phase(c)' = "running"
      BY <1>6 DEF OnAck, Phase, StagePhase, invitedVars
    <2>2. OthersRest(c)
      BY <1>6 DEF OnAck, OthersRest, invitedVars
    <2>3. Promise!Becomes(c, {"answered"}, "running")
      BY <2>1, <2>2, OnePhase
    <2> QED
      BY <2>3 DEF Promise!Next, Promise!Run
  <1>7. CASE Declines(c) \/ Accepts(c) \/ LetsGo(c)
    <2>1. \A d \in Invited : Phase(d)' = Phase(d)
      BY <1>7 DEF Declines, Accepts, LetsGo, Phase
    <2> QED
      BY <2>1 DEF Promise!vars
  <1>8. CASE Acknowledged(c)
    BY <1>8, SamePhases DEF Acknowledged
  <1> QED
    BY <1>1, <1>2, <1>3, <1>4, <1>5, <1>6, <1>7, <1>8 DEF InvitedStep

LEMMA NextPromises == ASSUME IInv, [Next]_vars PROVE [Promise!Next]_(Promise!vars)
  <1>1. ASSUME NEW c \in Created, CreatedStep(c) PROVE UNCHANGED Promise!vars
    <2>1. UNCHANGED invitedVars /\ \A d \in Invited : joined[d]' = joined[d]
      BY <1>1, Disjoint DEF CreatedStep, Create, Responds, Confirms, CannotConfirm, Starts, Succeeds,
         Fails, Becomes, IInv, TypeOK, Conferences
    <2> QED
      BY <2>1, SamePhases DEF invitedVars
  <1>2. ASSUME NEW c \in Conferences, EventStep(c) PROVE UNCHANGED Promise!vars
    BY <1>2, SamePhases DEF EventStep, Ends, SendsEnd, Hears, invitedVars
  <1>3. CASE UNCHANGED vars
    BY <1>3, SamePhases DEF vars, invitedVars
  <1> QED
    BY <1>1, <1>2, <1>3, InvitedPromises DEF Next

\* The host's first word on an INVITE counts, the INVITE is answered once at
\* most and the conference runs only after the ACK: the safety half of
\* EachInvite, for any number of conferences and any room.
\* (conference/mod.rs: MultiConferenceServiceV1Wrapper, on_ack.)
THEOREM Refinement == Spec => PromiseSteps
  <1>1. Init => Promise!Init
    BY DEF Init, Promise!Init, Phase
  <1>2. IInv /\ [Next]_vars => [Promise!Next]_(Promise!vars)
    BY NextPromises
  <1> QED
    BY <1>1, <1>2, Invariance, PTL DEF Spec, PromiseSteps
=============================================================================
