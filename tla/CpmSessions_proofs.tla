------------------------- MODULE CpmSessions_proofs -------------------------
(***************************************************************************)
(* For any number of INVITEs, contacts, messages and connections: the      *)
(* lists hold what they should, and every INVITE keeps the steps of its    *)
(* promise.                                                                *)
(***************************************************************************)
EXTENDS CpmSessions, SequenceTheorems, WellFoundedInduction, TLAPS

\* Where the task of an INVITE is says how far the INVITE got, and a session
\* that is not in the list yet has only been negotiated.
StagePhase ==
    \A i \in Invitations :
        /\ stage[i] = "new" => task[i] = "none"
        /\ task[i] = "waiting" => stage[i] = "ringing"
        /\ task[i] = "busy" => stage[i] \in {"accepting", "confirmed"}
        /\ stage[i] = "confirmed" => media[i] = "negotiated" /\ dialog[i] \in {"live", "early"}

\* The INVITEs in the list are those whose task has not removed them.
IncomingPhase ==
    /\ Once(incoming)
    /\ \A i \in Invitations :
        /\ Listed(incoming, i) <=> task[i] \in {"waiting", "busy", "removing", "dead"}
        /\ task[i] = "dead" => poisoned # {}

\* A message that waits, waits for a session.
WaitingPhase == \A m \in Messages : message[m] = "waiting" => via[m] \in Invitations

IInv == TypeOK /\ StagePhase /\ IncomingPhase /\ ListIsExact /\ WaitingPhase

-----------------------------------------------------------------------------
(* The lists.                                                              *)

\* Appending adds one entry.
LEMMA Appended ==
    ASSUME NEW list \in Seq(Invitations), NEW i \in Invitations
    PROVE  /\ Append(list, i) \in Seq(Invitations)
           /\ \A j : Listed(Append(list, i), j) <=> Listed(list, j) \/ j = i
           /\ Once(list) /\ ~Listed(list, i) => Once(Append(list, i))
  <1>1. /\ Append(list, i) \in Seq(Invitations)
        /\ Len(list) \in Nat
        /\ DOMAIN list = 1..Len(list)
        /\ DOMAIN Append(list, i) = 1..(Len(list) + 1)
        /\ \A n \in 1..Len(list) : Append(list, i)[n] = list[n]
        /\ Append(list, i)[Len(list) + 1] = i
    BY AppendProperties, LenProperties
  <1> QED
    BY <1>1 DEF Listed, Once

\* swap_remove takes out the one entry it finds, and no other.
LEMMA Swapped ==
    ASSUME NEW list \in Seq(Invitations), NEW i \in Invitations
    PROVE  /\ Removed(list, i) \in Seq(Invitations)
           /\ Once(list) =>
                /\ Once(Removed(list, i))
                /\ \A j : Listed(Removed(list, i), j) <=> Listed(list, j) /\ j # i
  <1>1. /\ Len(list) \in Nat
        /\ DOMAIN list = 1..Len(list)
        /\ \A n \in 1..Len(list) : list[n] \in Invitations
    BY LenProperties, ElementOfSeq
  <1>2. CASE ~Listed(list, i)
    BY <1>2 DEF Removed, Listed
  <1>3. CASE Listed(list, i)
    <2> DEFINE short == [n \in 1..(Len(list) - 1) |->
                            IF list[n] = i THEN list[Len(list)] ELSE list[n]]
    <2>1. Removed(list, i) = short
      BY <1>3 DEF Removed
    <2>2. Len(list) \in Nat \ {0} /\ Len(list) - 1 \in Nat
      BY <1>1, <1>3 DEF Listed
    <2>3. \A n \in 1..(Len(list) - 1) : n \in 1..Len(list) /\ n # Len(list)
      BY <2>2
    <2>4. short \in Seq(Invitations)
      <3>1. \A n \in 1..(Len(list) - 1) :
                (IF list[n] = i THEN list[Len(list)] ELSE list[n]) \in Invitations
        <4>1. Len(list) \in 1..Len(list)
          BY <2>2
        <4> QED
          BY <4>1, <1>1, <2>3
      <3>2. short \in [1..(Len(list) - 1) -> Invitations]
        BY <3>1
      <3> QED
        BY <3>2, <2>2, SeqDef
    <2>5. /\ DOMAIN short = 1..(Len(list) - 1)
          /\ \A n \in 1..(Len(list) - 1) :
                short[n] = IF list[n] = i THEN list[Len(list)] ELSE list[n]
      OBVIOUS
    <2>6. Len(list) \in 1..Len(list)
      BY <2>2
    <2> HIDE DEF short
    <2>7. ASSUME Once(list) PROVE Once(short)
      <3> SUFFICES ASSUME NEW n \in 1..(Len(list) - 1), NEW k \in 1..(Len(list) - 1),
                          short[n] = short[k]
                   PROVE  n = k
        BY <2>5 DEF Once
      <3>1. \A m, l \in 1..Len(list) : list[m] = list[l] => m = l
        BY <1>1, <2>7 DEF Once
      <3> QED
        BY <2>3, <2>5, <2>6, <3>1
    <2>8. ASSUME Once(list), NEW j
          PROVE  Listed(short, j) <=> Listed(list, j) /\ j # i
      <3>1. ASSUME Listed(short, j) PROVE Listed(list, j) /\ j # i
        <4>1. PICK n \in 1..(Len(list) - 1) : short[n] = j
          BY <3>1, <2>5 DEF Listed
        <4>2. \A m, l \in 1..Len(list) : list[m] = list[l] => m = l
          BY <1>1, <2>8 DEF Once
        <4>3. CASE list[n] = i
          BY <4>1, <4>2, <4>3, <1>1, <2>3, <2>5, <2>6 DEF Listed
        <4>4. CASE list[n] # i
          BY <4>1, <4>4, <1>1, <2>3, <2>5 DEF Listed
        <4> QED
          BY <4>3, <4>4
      <3>2. ASSUME Listed(list, j), j # i PROVE Listed(short, j)
        <4>1. PICK n \in 1..Len(list) : list[n] = j
          BY <3>2, <1>1 DEF Listed
        <4>2. PICK k \in 1..Len(list) : list[k] = i
          BY <1>3, <1>1 DEF Listed
        <4>3. CASE n = Len(list)
          <5>1. k \in 1..(Len(list) - 1)
            BY <4>1, <4>2, <4>3, <3>2, <2>2
          <5> QED
            BY <5>1, <4>1, <4>2, <4>3, <2>5 DEF Listed
        <4>4. CASE n # Len(list)
          <5>1. n \in 1..(Len(list) - 1)
            BY <4>4, <2>2
          <5> QED
            BY <5>1, <4>1, <3>2, <2>5 DEF Listed
        <4> QED
          BY <4>3, <4>4
      <3> QED
        BY <3>1, <3>2
    <2> QED
      BY <2>1, <2>4, <2>7, <2>8
  <1> QED
    BY <1>2, <1>3

\* A set of natural numbers that is not empty has a least one.
LEMMA Least ==
    ASSUME NEW S, S \subseteq Nat, S # {}
    PROVE  \E n \in S : \A k \in S : n <= k
  <1> DEFINE less == {ss \in Nat \X Nat : ss[1] < ss[2]}
  <1>1. IsWellFoundedOn(less, Nat)
    BY NatLessThanWellFounded DEF OpToRel
  <1> HIDE DEF less
  <1>2. PICK n \in S : \A k \in S : ~(<<k, n>> \in less)
    BY <1>1, WFMin
  <1>3. \A k \in S : ~(k < n)
    BY <1>2 DEF less
  <1> QED
    BY <1>3

\* What the search of a list finds is in it.
LEMMA Found ==
    ASSUME NEW list \in Seq(Invitations), NEW c, First(list, c) # NoSession
    PROVE  First(list, c) \in Invitations /\ Listed(list, First(list, c))
  <1> DEFINE of == {n \in DOMAIN list : From[list[n]] = c}
  <1>1. DOMAIN list = 1..Len(list) /\ Len(list) \in Nat
    BY LenProperties
  <1>2. of # {} /\ of \subseteq Nat
    BY <1>1 DEF First
  <1>3. (CHOOSE n \in of : \A k \in of : n <= k) \in of
    BY <1>2, Least
  <1>4. First(list, c) = list[CHOOSE n \in of : \A k \in of : n <= k]
    BY <1>2 DEF First
  <1> HIDE DEF of
  <1>5. PICK n \in of : First(list, c) = list[n]
    BY <1>3, <1>4
  <1> QED
    BY <1>1, <1>5, ElementOfSeq DEF of, Listed

-----------------------------------------------------------------------------
(* One lemma for each action.                                              *)

LEMMA RefusesKeeps ==
    ASSUME IInv, NEW i \in Invitations, Refuses(i)
    PROVE  IInv'
  <1>1. TypeOK'
    BY DEF Refuses, Stages, sessionVars, messageVars, IInv, TypeOK
  <1>2. StagePhase'
    BY DEF Refuses, Stages, sessionVars, messageVars, IInv, TypeOK, StagePhase
  <1>3. IncomingPhase'
    BY DEF Refuses, Stages, sessionVars, messageVars, IInv, TypeOK, StagePhase, IncomingPhase, Listed, Once
  <1>4. ListIsExact'
    BY DEF Refuses, Stages, sessionVars, messageVars, IInv, TypeOK, StagePhase, ListIsExact, Listed, Once
  <1>5. WaitingPhase'
    BY DEF Refuses, Stages, sessionVars, messageVars, IInv, TypeOK, WaitingPhase
  <1> QED
    BY <1>1, <1>2, <1>3, <1>4, <1>5 DEF IInv

LEMMA RingingFailsKeeps ==
    ASSUME IInv, NEW i \in Invitations, RingingFails(i)
    PROVE  IInv'
  <1>1. TypeOK'
    BY DEF RingingFails, Stages, sessionVars, messageVars, IInv, TypeOK
  <1>2. StagePhase'
    BY DEF RingingFails, Stages, sessionVars, messageVars, IInv, TypeOK, StagePhase
  <1>3. IncomingPhase'
    BY DEF RingingFails, Stages, sessionVars, messageVars, IInv, TypeOK, StagePhase, IncomingPhase, Listed, Once
  <1>4. ListIsExact'
    BY DEF RingingFails, Stages, sessionVars, messageVars, IInv, TypeOK, StagePhase, ListIsExact, Listed, Once
  <1>5. WaitingPhase'
    BY DEF RingingFails, Stages, sessionVars, messageVars, IInv, TypeOK, WaitingPhase
  <1> QED
    BY <1>1, <1>2, <1>3, <1>4, <1>5 DEF IInv

LEMMA AutoAcceptsKeeps ==
    ASSUME IInv, NEW i \in Invitations, AutoAccepts(i)
    PROVE  IInv'
  <1>1. TypeOK'
    BY DEF AutoAccepts, Stages, sessionVars, messageVars, IInv, TypeOK
  <1>2. StagePhase'
    BY DEF AutoAccepts, Stages, sessionVars, messageVars, IInv, TypeOK, StagePhase
  <1>3. IncomingPhase'
    BY DEF AutoAccepts, Stages, sessionVars, messageVars, IInv, TypeOK, StagePhase, IncomingPhase, Listed, Once
  <1>4. ListIsExact'
    BY DEF AutoAccepts, Stages, sessionVars, messageVars, IInv, TypeOK, StagePhase, ListIsExact, Listed, Once
  <1>5. WaitingPhase'
    BY DEF AutoAccepts, Stages, sessionVars, messageVars, IInv, TypeOK, WaitingPhase
  <1> QED
    BY <1>1, <1>2, <1>3, <1>4, <1>5 DEF IInv

LEMMA TaskAcceptsKeeps ==
    ASSUME IInv, NEW i \in Invitations, TaskAccepts(i)
    PROVE  IInv'
  <1>1. TypeOK'
    BY DEF TaskAccepts, TaskTakes, Stages, Tasks, sessionVars, messageVars, IInv, TypeOK
  <1>2. StagePhase'
    BY DEF TaskAccepts, TaskTakes, Stages, Tasks, sessionVars, messageVars, IInv, TypeOK, StagePhase
  <1>3. IncomingPhase'
    BY DEF TaskAccepts, TaskTakes, Stages, Tasks, sessionVars, messageVars, IInv, TypeOK, StagePhase, IncomingPhase, Listed, Once
  <1>4. ListIsExact'
    BY DEF TaskAccepts, TaskTakes, Stages, Tasks, sessionVars, messageVars, IInv, TypeOK, StagePhase, ListIsExact, Listed, Once
  <1>5. WaitingPhase'
    BY DEF TaskAccepts, TaskTakes, Stages, Tasks, sessionVars, messageVars, IInv, TypeOK, WaitingPhase
  <1> QED
    BY <1>1, <1>2, <1>3, <1>4, <1>5 DEF IInv

LEMMA TaskDisposesKeeps ==
    ASSUME IInv, NEW i \in Invitations, TaskDisposes(i)
    PROVE  IInv'
  <1>1. TypeOK'
    BY DEF TaskDisposes, TaskTakes, Stages, Tasks, sessionVars, messageVars, IInv, TypeOK
  <1>2. StagePhase'
    BY DEF TaskDisposes, TaskTakes, Stages, Tasks, sessionVars, messageVars, IInv, TypeOK, StagePhase
  <1>3. IncomingPhase'
    BY DEF TaskDisposes, TaskTakes, Stages, Tasks, sessionVars, messageVars, IInv, TypeOK, StagePhase, IncomingPhase, Listed, Once
  <1>4. ListIsExact'
    BY DEF TaskDisposes, TaskTakes, Stages, Tasks, sessionVars, messageVars, IInv, TypeOK, StagePhase, ListIsExact, Listed, Once
  <1>5. WaitingPhase'
    BY DEF TaskDisposes, TaskTakes, Stages, Tasks, sessionVars, messageVars, IInv, TypeOK, WaitingPhase
  <1> QED
    BY <1>1, <1>2, <1>3, <1>4, <1>5 DEF IInv

LEMMA CannotAcceptKeeps ==
    ASSUME IInv, NEW i \in Invitations, CannotAccept(i)
    PROVE  IInv'
  <1>1. TypeOK'
    BY ConnectionsAssumption DEF CannotAccept, Leaves, Stages, Tasks, sessionVars, messageVars, IInv, TypeOK
  <1>2. StagePhase'
    BY DEF CannotAccept, Leaves, Stages, Tasks, sessionVars, messageVars, IInv, TypeOK, StagePhase
  <1>3. IncomingPhase'
    BY DEF CannotAccept, Leaves, Stages, Tasks, sessionVars, messageVars, IInv, TypeOK, StagePhase, IncomingPhase, Listed, Once
  <1>4. ListIsExact'
    BY DEF CannotAccept, Leaves, Stages, Tasks, sessionVars, messageVars, IInv, TypeOK, StagePhase, ListIsExact, Listed, Once
  <1>5. WaitingPhase'
    BY DEF CannotAccept, Leaves, Stages, Tasks, sessionVars, messageVars, IInv, TypeOK, WaitingPhase
  <1> QED
    BY <1>1, <1>2, <1>3, <1>4, <1>5 DEF IInv

LEMMA ConfirmsKeeps ==
    ASSUME IInv, NEW i \in Invitations, Confirms(i)
    PROVE  IInv'
  <1>1. TypeOK'
    BY ConnectionsAssumption DEF Confirms, Stages, Dialogs, Media, messageVars, IInv, TypeOK
  <1>2. StagePhase'
    BY DEF Confirms, Stages, Dialogs, Media, messageVars, IInv, TypeOK, StagePhase
  <1>3. IncomingPhase'
    BY DEF Confirms, Stages, Dialogs, Media, messageVars, IInv, TypeOK, StagePhase, IncomingPhase, Listed, Once
  <1>4. ListIsExact'
    BY DEF Confirms, Stages, Dialogs, Media, messageVars, IInv, TypeOK, StagePhase, ListIsExact, Listed, Once
  <1>5. WaitingPhase'
    BY DEF Confirms, Stages, Dialogs, Media, messageVars, IInv, TypeOK, WaitingPhase
  <1> QED
    BY <1>1, <1>2, <1>3, <1>4, <1>5 DEF IInv

LEMMA ConnectionChangedKeeps ==
    ASSUME IInv, NEW i \in Invitations, ConnectionChanged(i)
    PROVE  IInv'
  <1>1. TypeOK'
    BY ConnectionsAssumption DEF ConnectionChanged, Leaves, Stages, Tasks, sessionVars, messageVars, IInv, TypeOK
  <1>2. StagePhase'
    BY DEF ConnectionChanged, Leaves, Stages, Tasks, sessionVars, messageVars, IInv, TypeOK, StagePhase
  <1>3. IncomingPhase'
    BY DEF ConnectionChanged, Leaves, Stages, Tasks, sessionVars, messageVars, IInv, TypeOK, StagePhase, IncomingPhase, Listed, Once
  <1>4. ListIsExact'
    BY DEF ConnectionChanged, Leaves, Stages, Tasks, sessionVars, messageVars, IInv, TypeOK, StagePhase, ListIsExact, Listed, Once
  <1>5. WaitingPhase'
    BY DEF ConnectionChanged, Leaves, Stages, Tasks, sessionVars, messageVars, IInv, TypeOK, WaitingPhase
  <1> QED
    BY <1>1, <1>2, <1>3, <1>4, <1>5 DEF IInv

LEMMA NoDialogKeeps ==
    ASSUME IInv, NEW i \in Invitations, NoDialog(i)
    PROVE  IInv'
  <1>1. TypeOK'
    BY ConnectionsAssumption DEF NoDialog, Stages, sessionVars, messageVars, IInv, TypeOK
  <1>2. StagePhase'
    BY DEF NoDialog, Stages, sessionVars, messageVars, IInv, TypeOK, StagePhase
  <1>3. IncomingPhase'
    BY DEF NoDialog, Stages, sessionVars, messageVars, IInv, TypeOK, StagePhase, IncomingPhase, Listed, Once
  <1>4. ListIsExact'
    BY DEF NoDialog, Stages, sessionVars, messageVars, IInv, TypeOK, StagePhase, ListIsExact, Listed, Once
  <1>5. WaitingPhase'
    BY DEF NoDialog, Stages, sessionVars, messageVars, IInv, TypeOK, WaitingPhase
  <1> QED
    BY <1>1, <1>2, <1>3, <1>4, <1>5 DEF IInv

LEMMA AnswerDiesKeeps ==
    ASSUME IInv, NEW i \in Invitations, AnswerDies(i)
    PROVE  IInv'
  <1>1. TypeOK'
    BY DEF AnswerDies, Dies, Leaves, Stages, Tasks, sessionVars, messageVars, IInv, TypeOK
  <1>2. StagePhase'
    BY DEF AnswerDies, Dies, Leaves, Stages, Tasks, sessionVars, messageVars, IInv, TypeOK, StagePhase
  <1>3. IncomingPhase'
    BY DEF AnswerDies, Dies, Leaves, Stages, Tasks, sessionVars, messageVars, IInv, TypeOK, StagePhase, IncomingPhase, Listed, Once
  <1>4. ListIsExact'
    BY DEF AnswerDies, Dies, Leaves, Stages, Tasks, sessionVars, messageVars, IInv, TypeOK, StagePhase, ListIsExact, Listed, Once
  <1>5. WaitingPhase'
    BY DEF AnswerDies, Dies, Leaves, Stages, Tasks, sessionVars, messageVars, IInv, TypeOK, WaitingPhase
  <1> QED
    BY <1>1, <1>2, <1>3, <1>4, <1>5 DEF IInv

LEMMA EndsUnnoticedKeeps ==
    ASSUME IInv, NEW i \in Invitations, EndsUnnoticed(i)
    PROVE  IInv'
  <1>1. TypeOK'
    BY DEF EndsUnnoticed, Dialogs, inviteVars, messageVars, IInv, TypeOK
  <1>2. StagePhase'
    BY DEF EndsUnnoticed, Dialogs, inviteVars, messageVars, IInv, TypeOK, StagePhase
  <1>3. IncomingPhase'
    BY DEF EndsUnnoticed, Dialogs, inviteVars, messageVars, IInv, TypeOK, StagePhase, IncomingPhase, Listed, Once
  <1>4. ListIsExact'
    BY DEF EndsUnnoticed, Dialogs, inviteVars, messageVars, IInv, TypeOK, StagePhase, ListIsExact, Listed, Once
  <1>5. WaitingPhase'
    BY DEF EndsUnnoticed, Dialogs, inviteVars, messageVars, IInv, TypeOK, WaitingPhase
  <1> QED
    BY <1>1, <1>2, <1>3, <1>4, <1>5 DEF IInv

LEMMA AckedKeeps ==
    ASSUME IInv, NEW i \in Invitations, Acked(i)
    PROVE  IInv'
  <1>1. TypeOK'
    BY DEF Acked, MediaBecomes, Media, inviteVars, messageVars, IInv, TypeOK
  <1>2. StagePhase'
    BY DEF Acked, MediaBecomes, Media, inviteVars, messageVars, IInv, TypeOK, StagePhase
  <1>3. IncomingPhase'
    BY DEF Acked, MediaBecomes, Media, inviteVars, messageVars, IInv, TypeOK, StagePhase, IncomingPhase, Listed, Once
  <1>4. ListIsExact'
    BY DEF Acked, MediaBecomes, Media, inviteVars, messageVars, IInv, TypeOK, StagePhase, ListIsExact, Listed, Once
  <1>5. WaitingPhase'
    BY DEF Acked, MediaBecomes, Media, inviteVars, messageVars, IInv, TypeOK, WaitingPhase
  <1> QED
    BY <1>1, <1>2, <1>3, <1>4, <1>5 DEF IInv

LEMMA ConnectsKeeps ==
    ASSUME IInv, NEW i \in Invitations, Connects(i)
    PROVE  IInv'
  <1>1. TypeOK'
    BY DEF Connects, MediaBecomes, Media, inviteVars, messageVars, IInv, TypeOK
  <1>2. StagePhase'
    BY DEF Connects, MediaBecomes, Media, inviteVars, messageVars, IInv, TypeOK, StagePhase
  <1>3. IncomingPhase'
    BY DEF Connects, MediaBecomes, Media, inviteVars, messageVars, IInv, TypeOK, StagePhase, IncomingPhase, Listed, Once
  <1>4. ListIsExact'
    BY DEF Connects, MediaBecomes, Media, inviteVars, messageVars, IInv, TypeOK, StagePhase, ListIsExact, Listed, Once
  <1>5. WaitingPhase'
    BY DEF Connects, MediaBecomes, Media, inviteVars, messageVars, IInv, TypeOK, WaitingPhase
  <1> QED
    BY <1>1, <1>2, <1>3, <1>4, <1>5 DEF IInv

LEMMA StreamEndsKeeps ==
    ASSUME IInv, NEW i \in Invitations, StreamEnds(i)
    PROVE  IInv'
  <1>1. TypeOK'
    BY DEF StreamEnds, MediaBecomes, Media, inviteVars, messageVars, IInv, TypeOK
  <1>2. StagePhase'
    BY DEF StreamEnds, MediaBecomes, Media, inviteVars, messageVars, IInv, TypeOK, StagePhase
  <1>3. IncomingPhase'
    BY DEF StreamEnds, MediaBecomes, Media, inviteVars, messageVars, IInv, TypeOK, StagePhase, IncomingPhase, Listed, Once
  <1>4. ListIsExact'
    BY DEF StreamEnds, MediaBecomes, Media, inviteVars, messageVars, IInv, TypeOK, StagePhase, ListIsExact, Listed, Once
  <1>5. WaitingPhase'
    BY DEF StreamEnds, MediaBecomes, Media, inviteVars, messageVars, IInv, TypeOK, WaitingPhase
  <1> QED
    BY <1>1, <1>2, <1>3, <1>4, <1>5 DEF IInv

LEMMA CannotConnectKeeps ==
    ASSUME IInv, NEW i \in Invitations, CannotConnect(i)
    PROVE  IInv'
  <1>1. TypeOK'
    <2>1. <<>> \in Seq(Messages) /\ Len(<<>>) = 0 /\ 0 <= Room
      BY EmptySeq, RoomAssumption
    <2>2. /\ queue' \in [Invitations -> Seq(Messages)]
          /\ \A j \in Invitations : Len(queue[j])' <= Room
      BY <2>1 DEF CannotConnect, IInv, TypeOK
    <2>3. /\ message' \in [Messages -> Fates]
          /\ via' \in [Messages -> Invitations \cup {NoSession}]
      BY DEF CannotConnect, Fates, IInv, TypeOK
    <2> QED
      BY <2>2, <2>3 DEF CannotConnect, MediaBecomes, Media, inviteVars, IInv, TypeOK
  <1>2. StagePhase'
    BY DEF CannotConnect, MediaBecomes, Media, Fates, inviteVars, messageVars, IInv, TypeOK, StagePhase
  <1>3. IncomingPhase'
    BY DEF CannotConnect, MediaBecomes, Media, Fates, inviteVars, messageVars, IInv, TypeOK, StagePhase, IncomingPhase, Listed, Once
  <1>4. ListIsExact'
    BY DEF CannotConnect, MediaBecomes, Media, Fates, inviteVars, messageVars, IInv, TypeOK, StagePhase, ListIsExact, Listed, Once
  <1>5. WaitingPhase'
    BY DEF CannotConnect, MediaBecomes, Media, Fates, inviteVars, messageVars, IInv, TypeOK, WaitingPhase
  <1> QED
    BY <1>1, <1>2, <1>3, <1>4, <1>5 DEF IInv

LEMMA RegisteredKeeps ==
    ASSUME IInv, Registered
    PROVE  IInv'
  <1>1. TypeOK'
    BY ConnectionsAssumption DEF Registered, inviteVars, sessionVars, messageVars, IInv, TypeOK
  <1>2. StagePhase'
    BY DEF Registered, inviteVars, sessionVars, messageVars, IInv, TypeOK, StagePhase
  <1>3. IncomingPhase'
    BY DEF Registered, inviteVars, sessionVars, messageVars, IInv, TypeOK, StagePhase, IncomingPhase, Listed, Once
  <1>4. ListIsExact'
    BY DEF Registered, inviteVars, sessionVars, messageVars, IInv, TypeOK, StagePhase, ListIsExact, Listed, Once
  <1>5. WaitingPhase'
    BY DEF Registered, inviteVars, sessionVars, messageVars, IInv, TypeOK, WaitingPhase
  <1> QED
    BY <1>1, <1>2, <1>3, <1>4, <1>5 DEF IInv

LEMMA TellsKeeps ==
    ASSUME IInv, NEW i \in Invitations, NEW what \in {"accept", "dispose"}, Tells(i, what)
    PROVE  IInv'
  <1>1. TypeOK'
    BY DEF Tells, sessionVars, messageVars, IInv, TypeOK
  <1>2. StagePhase'
    BY DEF Tells, sessionVars, messageVars, IInv, TypeOK, StagePhase
  <1>3. IncomingPhase'
    BY DEF Tells, sessionVars, messageVars, IInv, TypeOK, StagePhase, IncomingPhase, Listed, Once
  <1>4. ListIsExact'
    BY DEF Tells, sessionVars, messageVars, IInv, TypeOK, StagePhase, ListIsExact, Listed, Once
  <1>5. WaitingPhase'
    BY DEF Tells, sessionVars, messageVars, IInv, TypeOK, WaitingPhase
  <1> QED
    BY <1>1, <1>2, <1>3, <1>4, <1>5 DEF IInv

LEMMA SendFailsKeeps ==
    ASSUME IInv, NEW m \in Messages, NEW c \in Contacts, SendFails(m, c)
    PROVE  IInv'
  <1>1. TypeOK'
    BY DEF SendFails, MessageBecomes, Fates, inviteVars, IInv, TypeOK
  <1>2. StagePhase'
    BY DEF SendFails, MessageBecomes, Fates, inviteVars, IInv, TypeOK, StagePhase
  <1>3. IncomingPhase'
    BY DEF SendFails, MessageBecomes, Fates, inviteVars, IInv, TypeOK, StagePhase, IncomingPhase, Listed, Once
  <1>4. ListIsExact'
    BY DEF SendFails, MessageBecomes, Fates, inviteVars, IInv, TypeOK, StagePhase, ListIsExact, Listed, Once
  <1>5. WaitingPhase'
    BY DEF SendFails, MessageBecomes, Fates, inviteVars, IInv, TypeOK, WaitingPhase
  <1> QED
    BY <1>1, <1>2, <1>3, <1>4, <1>5 DEF IInv

LEMMA OpensKeeps ==
    ASSUME IInv, NEW m \in Messages, NEW c \in Contacts, Opens(m, c)
    PROVE  IInv'
  <1>1. TypeOK'
    BY DEF Opens, MessageBecomes, Fates, inviteVars, IInv, TypeOK
  <1>2. StagePhase'
    BY DEF Opens, MessageBecomes, Fates, inviteVars, IInv, TypeOK, StagePhase
  <1>3. IncomingPhase'
    BY DEF Opens, MessageBecomes, Fates, inviteVars, IInv, TypeOK, StagePhase, IncomingPhase, Listed, Once
  <1>4. ListIsExact'
    BY DEF Opens, MessageBecomes, Fates, inviteVars, IInv, TypeOK, StagePhase, ListIsExact, Listed, Once
  <1>5. WaitingPhase'
    BY DEF Opens, MessageBecomes, Fates, inviteVars, IInv, TypeOK, WaitingPhase
  <1> QED
    BY <1>1, <1>2, <1>3, <1>4, <1>5 DEF IInv

LEMMA SendDiesKeeps ==
    ASSUME IInv, NEW m \in Messages, NEW c \in Contacts, SendDies(m, c)
    PROVE  IInv'
  <1>1. TypeOK'
    BY DEF SendDies, MessageBecomes, Fates, Free, Dies, inviteVars, IInv, TypeOK
  <1>2. StagePhase'
    BY DEF SendDies, MessageBecomes, Fates, Free, Dies, inviteVars, IInv, TypeOK, StagePhase
  <1>3. IncomingPhase'
    BY DEF SendDies, MessageBecomes, Fates, Free, Dies, inviteVars, IInv, TypeOK, StagePhase, IncomingPhase, Listed, Once
  <1>4. ListIsExact'
    BY DEF SendDies, MessageBecomes, Fates, Free, Dies, inviteVars, IInv, TypeOK, StagePhase, ListIsExact, Listed, Once
  <1>5. WaitingPhase'
    BY DEF SendDies, MessageBecomes, Fates, Free, Dies, inviteVars, IInv, TypeOK, WaitingPhase
  <1> QED
    BY <1>1, <1>2, <1>3, <1>4, <1>5 DEF IInv

LEMMA InviteAnsweredKeeps ==
    ASSUME IInv, NEW m \in Messages, InviteRefused(m) \/ InviteAccepted(m)
    PROVE  IInv'
  <1>1. TypeOK'
    BY DEF InviteRefused, InviteAccepted, MessageBecomes, Fates, inviteVars, IInv, TypeOK
  <1>2. StagePhase'
    BY DEF InviteRefused, InviteAccepted, MessageBecomes, Fates, inviteVars, IInv, TypeOK, StagePhase
  <1>3. IncomingPhase'
    BY DEF InviteRefused, InviteAccepted, MessageBecomes, Fates, inviteVars, IInv, TypeOK, StagePhase, IncomingPhase, Listed, Once
  <1>4. ListIsExact'
    BY DEF InviteRefused, InviteAccepted, MessageBecomes, Fates, inviteVars, IInv, TypeOK, StagePhase, ListIsExact, Listed, Once
  <1>5. WaitingPhase'
    BY DEF InviteRefused, InviteAccepted, MessageBecomes, Fates, inviteVars, IInv, TypeOK, WaitingPhase
  <1> QED
    BY <1>1, <1>2, <1>3, <1>4, <1>5 DEF IInv

LEMMA NotQueuedKeeps ==
    ASSUME IInv, NEW m \in Messages, NotQueued(m)
    PROVE  IInv'
  <1>1. TypeOK'
    BY DEF NotQueued, MessageBecomes, Fates, inviteVars, IInv, TypeOK
  <1>2. StagePhase'
    BY DEF NotQueued, MessageBecomes, Fates, inviteVars, IInv, TypeOK, StagePhase
  <1>3. IncomingPhase'
    BY DEF NotQueued, MessageBecomes, Fates, inviteVars, IInv, TypeOK, StagePhase, IncomingPhase, Listed, Once
  <1>4. ListIsExact'
    BY DEF NotQueued, MessageBecomes, Fates, inviteVars, IInv, TypeOK, StagePhase, ListIsExact, Listed, Once
  <1>5. WaitingPhase'
    BY DEF NotQueued, MessageBecomes, Fates, inviteVars, IInv, TypeOK, WaitingPhase
  <1> QED
    BY <1>1, <1>2, <1>3, <1>4, <1>5 DEF IInv

LEMMA RingsKeeps ==
    ASSUME IInv, NEW i \in Invitations, Rings(i)
    PROVE  IInv'
  <1>1. /\ incoming' \in Seq(Invitations)
        /\ \A j : Listed(incoming, j)' <=> Listed(incoming, j) \/ j = i
        /\ Once(incoming)'
    BY Appended DEF Rings, IInv, TypeOK, StagePhase, IncomingPhase
  <1>2. TypeOK'
    BY <1>1, ConnectionsAssumption DEF Rings, Stages, Tasks, sessionVars, messageVars, IInv, TypeOK
  <1>3. StagePhase'
    BY DEF Rings, sessionVars, IInv, TypeOK, StagePhase
  <1>4. IncomingPhase'
    BY <1>1 DEF Rings, IInv, TypeOK, IncomingPhase
  <1>5. ListIsExact'
    BY DEF Rings, sessionVars, IInv, TypeOK, StagePhase, ListIsExact, Listed, Once
  <1>6. WaitingPhase'
    BY DEF Rings, messageVars, IInv, TypeOK, WaitingPhase
  <1> QED
    BY <1>2, <1>3, <1>4, <1>5, <1>6 DEF IInv

LEMMA TaskRemovesKeeps ==
    ASSUME IInv, NEW i \in Invitations, TaskRemoves(i)
    PROVE  IInv'
  <1>1. /\ incoming' \in Seq(Invitations)
        /\ \A j : Listed(incoming, j)' <=> Listed(incoming, j) /\ j # i
        /\ Once(incoming)'
    BY Swapped DEF TaskRemoves, IInv, TypeOK, IncomingPhase
  <1>2. TypeOK'
    BY <1>1 DEF TaskRemoves, Tasks, sessionVars, messageVars, IInv, TypeOK
  <1>3. StagePhase'
    BY DEF TaskRemoves, sessionVars, IInv, TypeOK, StagePhase
  <1>4. IncomingPhase'
    BY <1>1 DEF TaskRemoves, IInv, TypeOK, IncomingPhase
  <1>5. ListIsExact'
    BY DEF TaskRemoves, sessionVars, IInv, TypeOK, ListIsExact, Listed, Once
  <1>6. WaitingPhase'
    BY DEF TaskRemoves, messageVars, IInv, TypeOK, WaitingPhase
  <1> QED
    BY <1>2, <1>3, <1>4, <1>5, <1>6 DEF IInv

LEMMA AnswersKeeps ==
    ASSUME IInv, NEW i \in Invitations, Answers(i)
    PROVE  IInv'
  <1>1. /\ ongoing' \in Seq(Invitations)
        /\ \A j : Listed(ongoing, j)' <=> Listed(ongoing, j) \/ j = i
        /\ Once(ongoing)'
    BY Appended DEF Answers, Free, IInv, TypeOK, ListIsExact
  <1>2. TypeOK'
    BY <1>1 DEF Answers, Leaves, Stages, Tasks, messageVars, IInv, TypeOK
  <1>3. StagePhase'
    BY DEF Answers, Leaves, IInv, TypeOK, StagePhase
  <1>4. IncomingPhase'
    BY DEF Answers, Leaves, IInv, TypeOK, IncomingPhase, Listed, Once
  <1>5. ListIsExact'
    BY <1>1 DEF Answers, Free, IInv, TypeOK, StagePhase, ListIsExact
  <1>6. WaitingPhase'
    BY DEF Answers, messageVars, IInv, TypeOK, WaitingPhase
  <1> QED
    BY <1>2, <1>3, <1>4, <1>5, <1>6 DEF IInv

LEMMA EndsKeeps ==
    ASSUME IInv, NEW i \in Invitations, Ends(i)
    PROVE  IInv'
  <1>1. /\ ongoing' \in Seq(Invitations)
        /\ \A j : Listed(ongoing, j)' <=> Listed(ongoing, j) /\ j # i
        /\ Once(ongoing)'
    BY Swapped DEF Ends, Free, IInv, TypeOK, ListIsExact
  <1>2. TypeOK'
    BY <1>1 DEF Ends, Dialogs, inviteVars, messageVars, IInv, TypeOK
  <1>3. StagePhase'
    BY DEF Ends, inviteVars, IInv, TypeOK, StagePhase
  <1>4. IncomingPhase'
    BY DEF Ends, inviteVars, IInv, TypeOK, IncomingPhase, Listed, Once
  <1>5. ListIsExact'
    BY <1>1 DEF Ends, Free, inviteVars, IInv, TypeOK, StagePhase, ListIsExact
  <1>6. WaitingPhase'
    BY DEF Ends, messageVars, IInv, TypeOK, WaitingPhase
  <1> QED
    BY <1>2, <1>3, <1>4, <1>5, <1>6 DEF IInv

LEMMA EndReportedKeeps ==
    ASSUME IInv, NEW i \in Invitations, EndReported(i)
    PROVE  IInv'
  <1>1. ongoing' \in Seq(Invitations)
    BY Swapped DEF EndReported, IInv, TypeOK
  <1>2. TypeOK'
    BY <1>1 DEF EndReported, MediaBecomes, Media, inviteVars, messageVars, IInv, TypeOK
  <1>3. StagePhase'
    BY DEF EndReported, MediaBecomes, inviteVars, IInv, TypeOK, StagePhase
  <1>4. IncomingPhase'
    BY DEF EndReported, MediaBecomes, inviteVars, IInv, TypeOK, IncomingPhase, Listed, Once
  <1>5. ListIsExact'
    <2>1. CASE Dies("sessions")
      BY <2>1 DEF EndReported, MediaBecomes, Dies, ListIsExact
    <2>2. CASE Free("sessions") /\ ongoing' = Removed(ongoing, i)
      <3>1. /\ \A j : Listed(ongoing, j)' <=> Listed(ongoing, j) /\ j # i
            /\ Once(ongoing)'
        BY <2>2, Swapped DEF Free, IInv, TypeOK, ListIsExact
      <3> QED
        BY <2>2, <3>1 DEF EndReported, MediaBecomes, Free, inviteVars, IInv, TypeOK, ListIsExact
    <2> QED
      BY <2>1, <2>2 DEF EndReported
  <1>6. WaitingPhase'
    BY DEF EndReported, messageVars, IInv, TypeOK, WaitingPhase
  <1> QED
    BY <1>2, <1>3, <1>4, <1>5, <1>6 DEF IInv

LEMMA SendsInSessionKeeps ==
    ASSUME IInv, NEW m \in Messages, NEW c \in Contacts, SendsInSession(m, c)
    PROVE  IInv'
  <1>1. First(ongoing, c) \in Invitations
    BY Found DEF SendsInSession, IInv, TypeOK
  <1>2. TypeOK'
    BY <1>1 DEF SendsInSession, MessageBecomes, Fates, inviteVars, IInv, TypeOK
  <1>3. StagePhase'
    BY DEF SendsInSession, MessageBecomes, inviteVars, IInv, StagePhase
  <1>4. IncomingPhase'
    BY DEF SendsInSession, MessageBecomes, inviteVars, IInv, IncomingPhase, Listed, Once
  <1>5. ListIsExact'
    BY DEF SendsInSession, MessageBecomes, inviteVars, IInv, ListIsExact, Listed, Once
  <1>6. WaitingPhase'
    BY <1>1 DEF SendsInSession, MessageBecomes, IInv, TypeOK, WaitingPhase
  <1> QED
    BY <1>2, <1>3, <1>4, <1>5, <1>6 DEF IInv

LEMMA SendsBeforeAckKeeps ==
    ASSUME IInv, NEW m \in Messages, NEW c \in Contacts, SendsBeforeAck(m, c)
    PROVE  IInv'
  <1>1. First(ongoing, c) \in Invitations /\ stage[First(ongoing, c)] = "answered"
    BY Found DEF SendsBeforeAck, Free, IInv, TypeOK, ListIsExact
  <1>2. TypeOK'
    BY DEF SendsBeforeAck, MessageBecomes, Fates, Media, inviteVars, IInv, TypeOK
  <1>3. StagePhase'
    BY <1>1 DEF SendsBeforeAck, MessageBecomes, inviteVars, IInv, TypeOK, StagePhase
  <1>4. IncomingPhase'
    BY DEF SendsBeforeAck, MessageBecomes, inviteVars, IInv, IncomingPhase, Listed, Once
  <1>5. ListIsExact'
    BY DEF SendsBeforeAck, ListIsExact
  <1>6. WaitingPhase'
    BY DEF SendsBeforeAck, MessageBecomes, IInv, TypeOK, WaitingPhase
  <1> QED
    BY <1>2, <1>3, <1>4, <1>5, <1>6 DEF IInv

LEMMA QueuesKeeps ==
    ASSUME IInv, NEW m \in Messages, Queues(m)
    PROVE  IInv'
  <1>1. via[m] \in Invitations
    BY DEF Queues, IInv, WaitingPhase
  <1>2. /\ Append(queue[via[m]], m) \in Seq(Messages)
        /\ Len(Append(queue[via[m]], m)) <= Room
    BY <1>1, AppendProperties, LenProperties, RoomAssumption DEF Queues, IInv, TypeOK
  <1>3. /\ queue' \in [Invitations -> Seq(Messages)]
        /\ \A j \in Invitations : Len(queue[j])' <= Room
    BY <1>1, <1>2 DEF Queues, IInv, TypeOK
  <1>4. TypeOK'
    BY <1>3 DEF Queues, MessageBecomes, Fates, inviteVars, IInv, TypeOK
  <1>5. StagePhase' /\ WaitingPhase'
    BY DEF Queues, MessageBecomes, inviteVars, IInv, TypeOK, StagePhase, WaitingPhase
  <1>6. IncomingPhase' /\ ListIsExact'
    BY DEF Queues, MessageBecomes, inviteVars, IInv, IncomingPhase, ListIsExact, Listed, Once
  <1> QED
    BY <1>4, <1>5, <1>6 DEF IInv

LEMMA TakesKeeps ==
    ASSUME IInv, NEW i \in Invitations, Takes(i)
    PROVE  IInv'
  <1>1. /\ Tail(queue[i]) \in Seq(Messages)
        /\ Len(Tail(queue[i])) <= Room
    BY HeadTailProperties, LenProperties, RoomAssumption DEF Takes, IInv, TypeOK
  <1>2. /\ queue' \in [Invitations -> Seq(Messages)]
        /\ \A j \in Invitations : Len(queue[j])' <= Room
    BY <1>1 DEF Takes, IInv, TypeOK
  <1>3. TypeOK'
    BY <1>2 DEF Takes, MessageBecomes, Fates, inviteVars, IInv, TypeOK
  <1>4. StagePhase' /\ WaitingPhase'
    BY DEF Takes, MessageBecomes, inviteVars, IInv, TypeOK, StagePhase, WaitingPhase
  <1>5. IncomingPhase' /\ ListIsExact'
    BY DEF Takes, MessageBecomes, inviteVars, IInv, IncomingPhase, ListIsExact, Listed, Once
  <1> QED
    BY <1>3, <1>4, <1>5 DEF IInv

LEMMA CompletesKeeps ==
    ASSUME IInv, NEW m \in Messages, Completes(m)
    PROVE  IInv'
  <1>1. TypeOK'
    BY DEF Completes, MessageBecomes, Fates, inviteVars, IInv, TypeOK
  <1>2. StagePhase' /\ WaitingPhase'
    BY DEF Completes, MessageBecomes, inviteVars, IInv, TypeOK, StagePhase, WaitingPhase
  <1>3. IncomingPhase' /\ ListIsExact'
    BY DEF Completes, MessageBecomes, inviteVars, IInv, IncomingPhase, ListIsExact, Listed, Once
  <1> QED
    BY <1>1, <1>2, <1>3 DEF IInv

LEMMA InitHolds == ASSUME Init PROVE IInv
  <1>1. /\ <<>> \in Seq(Invitations)
        /\ <<>> \in Seq(Messages) /\ Len(<<>>) = 0
        /\ DOMAIN <<>> = {}
    BY EmptySeq
  <1>2. TypeOK
    <2>1. /\ identity \in 0..Connections
          /\ transport \in [Invitations -> 0..Connections]
      BY ConnectionsAssumption DEF Init
    <2>2. /\ queue \in [Invitations -> Seq(Messages)]
          /\ \A i \in Invitations : Len(queue[i]) <= Room
      BY <1>1, RoomAssumption DEF Init
    <2>3. incoming \in Seq(Invitations) /\ ongoing \in Seq(Invitations)
      BY <1>1 DEF Init
    <2>4. /\ via \in [Messages -> Invitations \cup {NoSession}]
          /\ message \in [Messages -> Fates]
      BY DEF Init, Fates
    <2>5. /\ stage \in [Invitations -> Stages]
          /\ task \in [Invitations -> Tasks]
          /\ box \in [Invitations -> SUBSET {"accept", "dispose"}]
          /\ dialog \in [Invitations -> Dialogs]
          /\ media \in [Invitations -> Media]
      BY DEF Init, Stages, Tasks, Dialogs, Media
    <2>6. poisoned \subseteq {"sessions", "identity"} /\ opener \in BOOLEAN
      BY DEF Init
    <2> QED
      BY <2>1, <2>2, <2>3, <2>4, <2>5, <2>6 DEF TypeOK
  <1>3. StagePhase /\ WaitingPhase
    BY DEF Init, StagePhase, WaitingPhase
  <1>4. IncomingPhase /\ ListIsExact
    BY <1>1 DEF Init, IncomingPhase, ListIsExact, Listed, Once
  <1> QED
    BY <1>2, <1>3, <1>4 DEF IInv

LEMMA StutterKeeps == ASSUME IInv, UNCHANGED vars PROVE IInv'
  BY DEF vars, inviteVars, sessionVars, messageVars, IInv, TypeOK, StagePhase, IncomingPhase,
     ListIsExact, WaitingPhase, Listed, Once

LEMMA InviteKeeps ==
    ASSUME IInv, NEW i \in Invitations, InviteStep(i)
    PROVE  IInv'
  BY RefusesKeeps, RingsKeeps, RingingFailsKeeps, AutoAcceptsKeeps, TellsKeeps, TaskAcceptsKeeps,
     TaskDisposesKeeps, CannotAcceptKeeps, ConfirmsKeeps, ConnectionChangedKeeps, NoDialogKeeps,
     AnswersKeeps, AnswerDiesKeeps, TaskRemovesKeeps
     DEF InviteStep, Cancelled

LEMMA SessionKeeps ==
    ASSUME IInv, NEW i \in Invitations, SessionStep(i)
    PROVE  IInv'
  BY EndsKeeps, EndsUnnoticedKeeps, AckedKeeps, ConnectsKeeps, CannotConnectKeeps, StreamEndsKeeps,
     EndReportedKeeps, TakesKeeps
     DEF SessionStep

LEMMA MessageKeeps ==
    ASSUME IInv, NEW m \in Messages, MessageStep(m)
    PROVE  IInv'
  BY SendsInSessionKeeps, SendsBeforeAckKeeps, SendFailsKeeps, OpensKeeps, SendDiesKeeps,
     InviteAnsweredKeeps, QueuesKeeps, NotQueuedKeeps, CompletesKeeps
     DEF MessageStep

LEMMA NextKeeps == ASSUME IInv, [Next]_vars PROVE IInv'
  <1>1. ASSUME NEW c \in Contacts, Accept(c) PROVE IInv'
    <2>1. First(incoming, c) \in Invitations
      BY <1>1, Found DEF Accept, IInv, TypeOK
    <2> QED
      BY <1>1, <2>1, TellsKeeps DEF Accept
  <1> QED
    BY <1>1, RegisteredKeeps, InviteKeeps, SessionKeeps, MessageKeeps, StutterKeeps DEF Next

\* Every state of the sessions satisfies the inductive invariant.
\* (session.rs, session_invitation.rs.)
THEOREM Invariance == Spec => []IInv
  BY InitHolds, NextKeeps, PTL DEF Spec

\* No channel in front of a stream holds more than its room, the lists hold
\* INVITEs, and each part keeps its type.
\* (session.rs: CPMSession, CPMSessionService.)
THEOREM TypeCorrect == Spec => []TypeOK
  BY Invariance, PTL DEF IInv

\* Whatever INVITEs, BYEs, ends of streams and messages come in between, each
\* removal from the list of sessions takes out the session that ended, and the
\* session that was added is in it until then, once.
\* (session.rs: the searches and swap_removes of ongoing_sessions.)
THEOREM SessionsExact == Spec => []ListIsExact
  BY Invariance, PTL DEF IInv

LEMMA PhaseAnswerable == IInv => IncomingAnswerable
  <1> SUFFICES ASSUME IInv PROVE IncomingAnswerable
    OBVIOUS
  <1>1. \A n \in DOMAIN incoming :
            incoming[n] \in Invitations /\ Listed(incoming, incoming[n])
    BY LenProperties, ElementOfSeq DEF IInv, TypeOK, Listed
  <1> QED
    BY <1>1 DEF IInv, StagePhase, IncomingPhase, IncomingAnswerable

\* The host can accept what rings, and the entry of an INVITE that was handled
\* does not stay before that of the next.
\* (session.rs: the swap_removes of ongoing_incoming_invitations.)
THEOREM RingingAnswerable == Spec => []IncomingAnswerable
  BY Invariance, PhaseAnswerable, PTL

-----------------------------------------------------------------------------
(* Every INVITE keeps the steps of its promise.                            *)

PromiseSteps == Promise!Init /\ [][Promise!Next]_(Promise!vars)

\* Nothing that the phases are made of changes.
LEMMA SamePhases ==
    ASSUME opener' = opener, stage' = stage,
           \A i \in Invitations :
                stage[i] = "answered" =>
                    (media[i]' \in {"negotiated", "broken"} <=> media[i] \in {"negotiated", "broken"})
    PROVE  UNCHANGED Promise!vars
  <1>1. \A i \in Invitations : Phase(i)' = Phase(i)
    BY DEF Phase
  <1> QED
    BY <1>1 DEF Promise!vars

\* The phase of one INVITE changes.
LEMMA OnePhase ==
    ASSUME NEW i \in Invitations, NEW old, NEW new,
           opener' = opener, Phase(i) \in old, Phase(i)' = new,
           \A j \in Invitations \ {i} : stage[j]' = stage[j] /\ media[j]' = media[j]
    PROVE  Promise!Becomes(i, old, new)
  <1>1. \A j \in Invitations \ {i} : Phase(j)' = Phase(j)
    BY DEF Phase
  <1>2. [j \in Invitations |-> Phase(j)]' = [[j \in Invitations |-> Phase(j)] EXCEPT ![i] = new]
    BY <1>1
  <1> QED
    BY <1>2 DEF Promise!Becomes

LEMMA InvitePromises ==
    ASSUME IInv, NEW i \in Invitations, InviteStep(i)
    PROVE  [Promise!Next]_(Promise!vars)
  <1> USE DEF IInv, TypeOK, Phase
  <1>1. CASE Refuses(i)
    <2>1. Promise!Becomes(i, {"new", "offered", "accepted"}, "declined")
      BY <1>1, OnePhase DEF Refuses, sessionVars
    <2> QED
      BY <2>1 DEF Promise!Next, Promise!Decline
  <1>2. CASE Rings(i)
    <2>1. Promise!Becomes(i, {"new"}, "offered")
      BY <1>2, OnePhase DEF Rings, sessionVars
    <2> QED
      BY <2>1 DEF Promise!Next, Promise!Offer
  <1>3. CASE RingingFails(i)
    <2>1. Promise!Becomes(i, {"new", "accepted"}, "dead")
      BY <1>3, OnePhase DEF RingingFails, sessionVars
    <2> QED
      BY <2>1 DEF Promise!Next, Promise!Die
  <1>4. CASE AutoAccepts(i)
    <2>1. Promise!Becomes(i, {"new", "offered"}, "accepted")
      BY <1>4, OnePhase DEF AutoAccepts, sessionVars
    <2> QED
      BY <2>1 DEF Promise!Next, Promise!Accept
  <1>5. CASE Cancelled(i)
    BY <1>5, SamePhases DEF Cancelled, Tells, sessionVars
  <1>6. CASE TaskAccepts(i)
    <2>1. Promise!Becomes(i, {"new", "offered"}, "accepted")
      BY <1>6, OnePhase DEF TaskAccepts, TaskTakes, StagePhase, sessionVars
    <2> QED
      BY <2>1 DEF Promise!Next, Promise!Accept
  <1>7. CASE TaskDisposes(i)
    <2>1. Promise!Becomes(i, {"new", "offered", "accepted"}, "declined")
      BY <1>7, OnePhase DEF TaskDisposes, TaskTakes, StagePhase, sessionVars
    <2> QED
      BY <2>1 DEF Promise!Next, Promise!Decline
  <1>8. CASE CannotAccept(i)
    <2>1. Promise!Becomes(i, {"new", "offered", "accepted"}, "declined")
      BY <1>8, OnePhase DEF CannotAccept, sessionVars
    <2> QED
      BY <2>1 DEF Promise!Next, Promise!Decline
  <1>9. CASE Confirms(i)
    <2>1. \A j \in Invitations : Phase(j)' = Phase(j)
      BY <1>9 DEF Confirms
    <2> HIDE DEF Phase
    <2> QED
      BY <1>9, <2>1 DEF Confirms, Promise!vars
  <1>10. CASE ConnectionChanged(i) \/ NoDialog(i) \/ AnswerDies(i)
    <2>1. Promise!Becomes(i, {"new", "accepted"}, "dead")
      BY <1>10, OnePhase DEF ConnectionChanged, NoDialog, AnswerDies, sessionVars
    <2> QED
      BY <2>1 DEF Promise!Next, Promise!Die
  <1>11. CASE Answers(i)
    <2>1. Promise!Becomes(i, {"accepted"}, "answered")
      BY <1>11, OnePhase DEF Answers, StagePhase
    <2> QED
      BY <2>1 DEF Promise!Next, Promise!Answer
  <1>12. CASE TaskRemoves(i)
    BY <1>12, SamePhases DEF TaskRemoves, sessionVars
  <1> QED
    BY <1>1, <1>2, <1>3, <1>4, <1>5, <1>6, <1>7, <1>8, <1>9, <1>10, <1>11, <1>12 DEF InviteStep

LEMMA SessionPromises ==
    ASSUME IInv, NEW i \in Invitations, SessionStep(i)
    PROVE  [Promise!Next]_(Promise!vars)
  <1> USE DEF IInv, TypeOK
  <1>1. CASE Acked(i)
    <2>1. Promise!Becomes(i, {"answered"}, "running")
      BY <1>1, OnePhase DEF Acked, MediaBecomes, inviteVars, Phase
    <2> QED
      BY <2>1 DEF Promise!Next, Promise!Run
  <1>2. CASE Ends(i) \/ EndsUnnoticed(i)
    BY <1>2, SamePhases DEF Ends, EndsUnnoticed, inviteVars
  <1>3. CASE Connects(i) \/ CannotConnect(i) \/ StreamEnds(i) \/ EndReported(i)
    BY <1>3, SamePhases DEF Connects, CannotConnect, StreamEnds, EndReported, MediaBecomes, inviteVars
  <1>4. CASE Takes(i)
    BY <1>4, SamePhases DEF Takes, MessageBecomes, inviteVars
  <1> QED
    BY <1>1, <1>2, <1>3, <1>4 DEF SessionStep

LEMMA MessagePromises ==
    ASSUME IInv, NEW m \in Messages, MessageStep(m)
    PROVE  [Promise!Next]_(Promise!vars)
  <1> USE DEF IInv, TypeOK, MessageBecomes, inviteVars
  <1>1. ASSUME NEW c \in Contacts, SendsBeforeAck(m, c) PROVE UNCHANGED Promise!vars
    BY <1>1, SamePhases DEF SendsBeforeAck
  <1>2. ASSUME NEW c \in Contacts, Opens(m, c) PROVE Promise!Block
    <2>1. \A i \in Invitations : Phase(i)' = Phase(i)
      BY <1>2 DEF Opens, Phase
    <2> QED
      BY <1>2, <2>1 DEF Opens, Free, Promise!Block
  <1>3. ASSUME NEW c \in Contacts, SendsInSession(m, c) \/ SendFails(m, c) \/ SendDies(m, c)
        PROVE  UNCHANGED Promise!vars
    BY <1>3, SamePhases DEF SendsInSession, SendFails, SendDies
  <1>4. CASE InviteRefused(m) \/ InviteAccepted(m) \/ Queues(m) \/ NotQueued(m) \/ Completes(m)
    BY <1>4, SamePhases DEF InviteRefused, InviteAccepted, Queues, NotQueued, Completes
  <1> QED
    BY <1>1, <1>2, <1>3, <1>4 DEF MessageStep, Promise!Next

LEMMA NextPromises == ASSUME IInv, [Next]_vars PROVE [Promise!Next]_(Promise!vars)
  <1>1. CASE Registered \/ UNCHANGED vars
    BY <1>1, SamePhases DEF Registered, vars, inviteVars, sessionVars
  <1>2. ASSUME NEW c \in Contacts, Accept(c) PROVE UNCHANGED Promise!vars
    BY <1>2, SamePhases DEF Accept, Tells, sessionVars
  <1> QED
    BY <1>1, <1>2, InvitePromises, SessionPromises, MessagePromises DEF Next

\* An INVITE is answered once at most, its stream starts only after that, and
\* nothing happens to one that is over: the safety half of EachInvite, for any
\* number of INVITEs, messages and connections.
\* (session.rs, session_invitation.rs.)
THEOREM Refinement == Spec => PromiseSteps
  <1>1. Init => Promise!Init
    BY DEF Init, Promise!Init, Phase
  <1>2. IInv /\ [Next]_vars => [Promise!Next]_(Promise!vars)
    BY NextPromises
  <1> QED
    BY <1>1, <1>2, Invariance, PTL DEF Spec, PromiseSteps
=============================================================================
