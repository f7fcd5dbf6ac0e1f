---------------------- MODULE DeviceConfiguration_proofs --------------------
(***************************************************************************)
(* For any servers, documents and access controls: what the file calls     *)
(* valid of the default server, as it last answered when asked as such, is *)
(* its answer in full, and no other server configures an application that  *)
(* it was not named for.                                                   *)
(***************************************************************************)
EXTENDS DeviceConfiguration, TLAPS

\* The access control of a document of the default server, if it has one.
KnownAccess(d) == d.access = <<>> \/ \E f \in DefaultDocs : f.access = d.access

\* What the default server's documents let a server configure.
AllowedFor(s) ==
    {app \in Apps : \E d \in DefaultDocs : \E i \in DOMAIN d.access :
                        d.access[i].server = s /\ app \in d.access[i].apps}

\* Where a document names a server that was not configured for its version.
Owed(d, history) == {i \in Named(d) : <<d.vers, d.access[i].server>> \notin history}

\* What the file may hold of a server.
Sound(s, e, history) ==
    /\ e \in Entries
    /\ e.doc # None =>
          IF s = Default
          THEN /\ KnownAccess(e.doc)
               /\ e.default /\ e.own =>
                     /\ e.doc.vers = e.vers
                     /\ e.valid => Owed(e.doc, history) = {}
          ELSE e.doc.apps \subseteq AllowedFor(s)

\* A file that can be read is a function of servers.
SoundEntries(f, history) ==
    /\ f = [s \in DOMAIN f |-> f[s]]
    /\ DOMAIN f \subseteq Servers
    /\ \A s \in DOMAIN f : Sound(s, f[s], history)

SoundFile(f, history) == f # None => SoundEntries(f, history)

\* The default server's document that is handled or waits has no server to be
\* configured but those that will be asked and the one that is.
Waits ==
    /\ outer = None /\ document # None =>
          KnownAccess(document) /\ Owed(document, answered) \subseteq rest
    /\ outer # None =>
          /\ rest = {}
          /\ KnownAccess(outer.document)
          /\ outer.rest \subseteq DOMAIN outer.document.access
          /\ \A i \in Owed(outer.document, answered) :
                i \in outer.rest \/ outer.document.access[i].server = server
    /\ document # None => rest \subseteq DOMAIN document.access
    /\ server # Default => allowed \subseteq AllowedFor(server)

\* The default server is asked as such only while nothing valid is held of it.
Asking ==
    at \in {"http", "https", "policyOtp", "cookieOtp", "otp"} /\ outer = None =>
        LET e == EntryOf(Default) IN ~(e # None /\ e.valid /\ e.doc # None)

IInv == TypeOK /\ SoundFile(file, answered) /\ Waits /\ Asking
-----------------------------------------------------------------------------
(* The operators of the file.                                              *)

LEMMA PartIsSound ==
    ASSUME NEW f, NEW history, SoundEntries(f, history), NEW S \in SUBSET DOMAIN f
    PROVE  SoundEntries([s \in S |-> f[s]], history)
  BY DEF SoundEntries

\* What a write that breaks off leaves is sound if the whole would have been.
LEMMA BrokenIsSound ==
    ASSUME NEW f, NEW history, SoundEntries(f, history), NEW g \in Broken(f)
    PROVE  SoundFile(g, history)
  BY PartIsSound DEF Broken, SoundFile

LEMMA PutIsSound ==
    ASSUME NEW history, SoundFile(file, history), NEW s \in Servers, NEW e, Sound(s, e, history)
    PROVE  SoundEntries(Put(s, e), history)
  <1>1. CASE file = None
    BY <1>1 DEF Put, SoundEntries
  <1>2. CASE file # None
    BY <1>2 DEF Put, SoundFile, SoundEntries
  <1> QED
    BY <1>1, <1>2

LEMMA WithoutEntryIsSound ==
    ASSUME NEW history, SoundFile(file, history), file # None, NEW s
    PROVE  SoundEntries(WithoutEntry(s), history)
  <1>1. DOMAIN file \ {s} \in SUBSET DOMAIN file
    OBVIOUS
  <1> QED
    BY <1>1, PartIsSound DEF WithoutEntry, SoundFile

\* Neither the token nor the end of the validity changes what an entry says.
LEMMA LessIsSound ==
    ASSUME NEW s, NEW e, NEW history, Sound(s, e, history),
           NEW t \in {"none", "valid", "expired"}
    PROVE  /\ Sound(s, [e EXCEPT !.token = t], history)
           /\ Sound(s, [e EXCEPT !.valid = FALSE], history)
  BY DEF Sound, Entries

LEMMA EntryChangeIsSound ==
    ASSUME NEW history, SoundFile(file, history), file # None,
           NEW s \in DOMAIN file, NEW e, Sound(s, e, history)
    PROVE  SoundEntries([file EXCEPT ![s] = e], history)
  BY DEF SoundFile, SoundEntries

LEMMA WithoutTokenIsSound ==
    ASSUME NEW history, SoundFile(file, history), file # None, NEW s
    PROVE  SoundEntries(WithoutToken(s), history)
  <1>1. CASE s \in DOMAIN file /\ file[s].default
    <2> DEFINE e == [file[s] EXCEPT !.token = "none"]
    <2>1. Sound(s, e, history)
      BY <1>1, LessIsSound DEF SoundFile, SoundEntries
    <2>2. WithoutToken(s) = [file EXCEPT ![s] = e]
      <3>1. WithoutToken(s) = [file EXCEPT ![s].token = "none"]
        BY <1>1 DEF WithoutToken
      <3> QED
        BY <3>1, Zenon
    <2> HIDE DEF e
    <2>3. SoundEntries([file EXCEPT ![s] = e], history)
      BY <1>1, <2>1, EntryChangeIsSound
    <2> QED
      BY <2>2, <2>3
  <1>2. CASE ~(s \in DOMAIN file /\ file[s].default)
    BY <1>2 DEF WithoutToken, SoundFile
  <1> QED
    BY <1>1, <1>2

\* What was configured stays configured.
LEMMA LaterIsSound ==
    ASSUME NEW f, NEW history, NEW later, history \subseteq later, SoundFile(f, history)
    PROVE  SoundFile(f, later)
  BY DEF SoundFile, SoundEntries, Sound, Owed

\* A document that comes anew is owed its servers again: nothing valid of the
\* default server may be on file then.
LEMMA AnewIsSound ==
    ASSUME NEW history, SoundFile(file, history), NEW later,
           LET e == EntryOf(Default) IN ~(e # None /\ e.valid /\ e.doc # None)
    PROVE  SoundFile(file, later)
  <1> SUFFICES ASSUME file # None, NEW s \in DOMAIN file, s = Default
               PROVE  Sound(s, file[s], later)
    BY DEF SoundFile, SoundEntries, Sound
  <1>1. Sound(s, file[s], history)
    BY DEF SoundFile, SoundEntries
  <1>2. file[s] = None \/ ~file[s].valid \/ file[s].doc = None
    BY DEF EntryOf
  <1> QED
    BY <1>1, <1>2, ConfigurationAssumption DEF Sound

LEMMA SoundType ==
    ASSUME NEW f, NEW history, SoundFile(f, history)
    PROVE  f = None \/ \E S \in SUBSET Servers : f \in [S -> Entries]
  BY DEF SoundFile, SoundEntries, Sound

\* What the file has of a server, if it has something.
LEMMA EntryIsSound ==
    ASSUME NEW history, SoundFile(file, history), NEW s, EntryOf(s) # None
    PROVE  Sound(s, EntryOf(s), history) /\ s \in DOMAIN file /\ file # None
  BY DEF EntryOf, SoundFile, SoundEntries

-----------------------------------------------------------------------------
(* Every action keeps the invariant.                                       *)

Results == {"none", "Ok", "Forbidden", "Retry"}
Requests == [token : BOOLEAN, cellular : BOOLEAN, signed : BOOLEAN]

LEMMA NoRequestIsRequest == NoRequest \in Requests
  BY DEF NoRequest, Requests

LEMMA ElementsAreTyped ==
    ASSUME NEW S, NEW s \in Seq(S), NEW i \in DOMAIN s
    PROVE  s[i] \in S
  OBVIOUS

LEMMA InitHolds == ASSUME Init PROVE IInv
  <1> USE DEF Init
  <1>1. TypeOK
    BY NoRequestIsRequest DEF TypeOK, Stages, Servers, Requests
  <1>2. SoundFile(file, answered)
    BY DEF SoundFile, SoundEntries
  <1>3. Waits /\ Asking
    BY DEF Waits, Asking
  <1> QED
    BY <1>1, <1>2, <1>3 DEF IInv

\* Nothing is left of a start that is over.
LEMMA IdleKeeps ==
    ASSUME Idle, SoundFile(file', answered'), result' \in Results
    PROVE  IInv'
  <1> USE DEF Idle
  <1>1. TypeOK'
    BY SoundType, NoRequestIsRequest DEF TypeOK, Stages, Servers, Requests, Results
  <1>2. Waits' /\ Asking'
    BY DEF Waits, Asking
  <1> QED
    BY <1>1, <1>2 DEF IInv

LEMMA FailKeeps ==
    ASSUME IInv, NEW r \in Results, Fail(r), SoundFile(file', answered)
    PROVE  IInv'
  BY IdleKeeps DEF Fail

\* The same servers are to be asked as before.
LEMMA GoesOnKeeps ==
    ASSUME IInv, SoundFile(file', answered),
           UNCHANGED <<server, allowed, document, rest, outer, answered>>,
           at' \in Stages, at' = "idle" => at = "idle", (at' = "handle") <=> (document # None),
           request' \in Requests, otps' \in 0 .. 2, result' \in Results, Asking'
    PROVE  IInv'
  <1> USE DEF IInv
  <1>1. TypeOK'
    BY SoundType DEF TypeOK, Requests, Results
  <1>2. Waits'
    BY DEF Waits
  <1> QED
    BY <1>1, <1>2

\* A document is handled with all of its servers to be asked.
LEMMA HandleKeeps ==
    ASSUME IInv, NEW d \in Documents, Handle(d), SoundFile(file', answered'),
           outer = None => KnownAccess(d),
           outer # None => answered' = answered,
           result' = result
    PROVE  IInv'
  <1> USE DEF IInv, Handle, AsDefault
  <1>1. d # None
    BY ConfigurationAssumption
  <1>2. d.access \in Seq([server : Servers, idProvider : BOOLEAN, apps : SUBSET Apps])
    BY DEF Documents
  <1>3. Named(d) \subseteq DOMAIN d.access /\ DOMAIN d.access \subseteq Nat
    BY <1>2 DEF Named
  <1>4. TypeOK'
    BY <1>1, <1>3, SoundType, NoRequestIsRequest DEF TypeOK, Stages, Requests
  <1>5. Waits'
    BY <1>1, <1>3 DEF Waits, Owed, TypeOK
  <1>6. Asking'
    BY DEF Asking
  <1> QED
    BY <1>4, <1>5, <1>6

\* A server that is done is owed no more.
LEMMA DoneKeeps ==
    ASSUME IInv, NEW f, Done(f), SoundFile(file', answered)
    PROVE  IInv'
  <1> USE DEF IInv, Done, AsDefault
  <1>1. CASE outer = None
    BY <1>1, IdleKeeps DEF Results
  <1>2. CASE outer # None
    <2> USE <1>2
    <2>1. SoundFile(file', answered')
      BY LaterIsSound
    <2>2. outer \in Waiting /\ outer.document # None
      BY ConfigurationAssumption DEF TypeOK, Waiting
    <2>3. TypeOK'
      BY <2>1, <2>2, SoundType, NoRequestIsRequest
         DEF TypeOK, Stages, Servers, Requests, Waiting
    <2>4. Waits'
      BY <2>2 DEF Waits, Owed
    <2>5. Asking'
      BY DEF Asking
    <2> QED
      BY <2>1, <2>3, <2>4, <2>5
  <1> QED
    BY <1>1, <1>2

LEMMA StartKeeps == ASSUME IInv, Start PROVE IInv'
  <1>1. Asking'
    BY DEF Start, Asking
  <1> QED
    BY <1>1, GoesOnKeeps DEF Start, IInv, TypeOK, Stages, Requests, Results

\* A stored document is one that was received.
LEMMA LoadKeeps == ASSUME IInv, Load PROVE IInv'
  <1> DEFINE e == EntryOf(server)
  <1>1. SoundFile(file', answered)
    BY DEF Load, IInv
  <1>2. CASE Fail("Forbidden")
    BY <1>1, <1>2, FailKeeps DEF Results
  <1>3. CASE e # None /\ e.doc # None /\ Handle(e.doc) /\ UNCHANGED <<file, result, answered>>
    <2>1. e.doc \in Documents /\ (outer = None => KnownAccess(e.doc))
      BY <1>3, EntryIsSound DEF IInv, TypeOK, Sound, Entries
    <2> QED
      BY <1>1, <1>3, <2>1, HandleKeeps
  <1>4. CASE /\ at = "load" /\ at' = "http"
             /\ e # None => ~(e.valid /\ e.doc # None)
             /\ request' = [NoRequest EXCEPT !.token = e # None /\ e.token = "valid"]
             /\ UNCHANGED <<file, server, allowed, document, rest, outer, otps, result, answered>>
    <2>1. Asking'
      BY <1>4 DEF Asking, EntryOf, IInv, TypeOK
    <2>2. request' \in Requests
      BY <1>4 DEF NoRequest, Requests
    <2> QED
      BY <1>1, <1>4, <2>1, <2>2, GoesOnKeeps DEF IInv, TypeOK, Stages, Results
  <1> QED
    BY <1>2, <1>3, <1>4 DEF Load

LEMMA AskKeeps ==
    ASSUME IInv, at \in {"http", "https"}, NEW r \in Requests, Ask(r),
           UNCHANGED <<file, result, answered>>
    PROVE  IInv'
  <1>1. Asking' /\ SoundFile(file', answered)
    BY DEF Ask, Asking, EntryOf, IInv
  <1> QED
    BY <1>1, GoesOnKeeps DEF Ask, IInv, TypeOK, Stages, Results

LEMMA AwaitKeeps ==
    ASSUME IInv, at \in {"https", "policyOtp", "cookieOtp"},
           NEW stage \in {"policyOtp", "cookieOtp", "otp"}, Await(stage),
           UNCHANGED <<file, result, answered>>
    PROVE  IInv'
  <1>1. Asking' /\ SoundFile(file', answered)
    BY DEF Await, Asking, EntryOf, IInv
  <1> QED
    BY <1>1, GoesOnKeeps DEF Await, IInv, TypeOK, Stages, Requests, Results

\* A document comes from the default server only while nothing valid of it is
\* on file, so that the history may begin anew.
LEMMA ReceiveKeeps ==
    ASSUME IInv, at \in {"https", "otp"}, NEW d, Receive(d)
    PROVE  IInv'
  <1> USE DEF IInv, Receive, AsDefault
  <1>1. d \in Documents /\ (outer = None => KnownAccess(d))
    BY ConfigurationAssumption DEF KnownAccess, TypeOK
  <1>2. SoundFile(file', answered')
    <2>1. CASE outer = None
      BY <2>1, AnewIsSound DEF Asking
    <2>2. CASE outer # None
      BY <2>2
    <2> QED
      BY <2>1, <2>2
  <1> QED
    BY <1>1, <1>2, HandleKeeps

LEMMA HttpAnsweredKeeps == ASSUME IInv, HttpAnswered PROVE IInv'
  <1> USE DEF HttpAnswered
  <1>1. SoundFile(file', answered)
    BY DEF IInv
  <1>2. CASE \E r \in {"Forbidden", "Retry"} : Fail(r)
    BY <1>1, <1>2, FailKeeps DEF Results
  <1>3. ASSUME NEW cellular \in BOOLEAN, NEW token \in BOOLEAN,
               Ask([request EXCEPT !.cellular = cellular, !.token = token]),
               UNCHANGED <<result, answered>>
        PROVE  IInv'
    <2>1. [request EXCEPT !.cellular = cellular, !.token = token] \in Requests
      BY DEF IInv, TypeOK, Requests
    <2> QED
      BY <1>3, <2>1, AskKeeps
  <1> QED
    BY <1>2, <1>3

LEMMA HttpsKeeps ==
    ASSUME IInv, HttpsAnswered \/ HttpsChallenged \/ HttpsFailed
    PROVE  IInv'
  <1>1. CASE HttpsAnswered
    BY <1>1, ReceiveKeeps, AwaitKeeps DEF HttpsAnswered
  <1>2. CASE HttpsChallenged
    <2>1. [request EXCEPT !.signed = TRUE] \in Requests
      BY DEF IInv, TypeOK, Requests
    <2> QED
      BY <1>2, <2>1, AskKeeps DEF HttpsChallenged
  <1>3. CASE HttpsFailed
    BY <1>3, FailKeeps DEF HttpsFailed, Results, IInv
  <1> QED
    BY <1>1, <1>2, <1>3

\* A write that fails leaves a part of one of two files that are sound.
LEMMA WriteFailsKeeps ==
    ASSUME IInv, NEW f, SoundEntries(f, answered), WriteFails(f)
    PROVE  IInv'
  <1>1. SoundFile(file', answered)
    BY BrokenIsSound DEF WriteFails, IInv
  <1> QED
    BY <1>1, FailKeeps DEF WriteFails, Results

LEMMA TokenRefusedKeeps == ASSUME IInv, TokenRefused PROVE IInv'
  <1>1. file # None => SoundEntries(WithoutToken(server), answered)
    BY WithoutTokenIsSound DEF IInv
  <1>2. CASE /\ at = "https" /\ file # None
             /\ file' = WithoutToken(server)
             /\ at' = "load" /\ request' = NoRequest
             /\ UNCHANGED <<server, allowed, document, rest, outer, otps, result, answered>>
    <2>1. Asking'
      BY <1>2 DEF Asking
    <2> QED
      BY <1>1, <1>2, <2>1, GoesOnKeeps, NoRequestIsRequest DEF IInv, TypeOK, Stages, Results, SoundFile
  <1>3. CASE file # None /\ WriteFails(WithoutToken(server))
    BY <1>1, <1>3, WriteFailsKeeps
  <1>4. CASE Fail("Retry") /\ UNCHANGED file
    BY <1>4, FailKeeps DEF Results, IInv
  <1> QED
    BY <1>2, <1>3, <1>4 DEF TokenRefused

LEMMA OtpKeeps ==
    ASSUME IInv, InputOtp \/ OtpReceived \/ OtpMissed \/ OtpAnswered
    PROVE  IInv'
  <1>1. CASE InputOtp
    <2>1. Asking' /\ SoundFile(file', answered) /\ otps' \in 0 .. 2
      BY <1>1 DEF InputOtp, Asking, EntryOf, IInv, TypeOK
    <2> QED
      BY <1>1, <2>1, GoesOnKeeps DEF InputOtp, IInv, TypeOK, Requests, Results
  <1>2. CASE OtpReceived
    BY <1>2, AwaitKeeps DEF OtpReceived
  <1>3. CASE OtpMissed
    BY <1>3, AwaitKeeps, FailKeeps DEF OtpMissed, Results, IInv
  <1>4. CASE OtpAnswered
    BY <1>4, ReceiveKeeps, FailKeeps DEF OtpAnswered, Results, IInv
  <1> QED
    BY <1>1, <1>2, <1>3, <1>4

\* The server that is asked next is the only one that is neither configured
\* nor still to be asked; it may configure what the document names it for.
LEMMA AskNextKeeps == ASSUME IInv, AskNext PROVE IInv'
  <1> USE DEF IInv, AskNext
  <1>1. PICK i \in rest :
           /\ server' = document.access[i].server
           /\ allowed' = document.access[i].apps
           /\ outer' = [document |-> document, rest |-> rest \ {i}]
    OBVIOUS
  <1>2. /\ document \in Documents /\ document # None
        /\ i \in DOMAIN document.access
        /\ outer = None
    BY DEF TypeOK, Waits
  <1>3. server' \in Servers /\ allowed' \subseteq Apps
    <2>1. document.access \in Seq([server : Servers, idProvider : BOOLEAN, apps : SUBSET Apps])
      BY <1>2 DEF Documents
    <2>2. document.access[i] \in [server : Servers, idProvider : BOOLEAN, apps : SUBSET Apps]
      BY <1>2, <2>1, ElementsAreTyped
    <2> QED
      BY <1>1, <2>2
  <1>4. outer' \in Waiting /\ outer' # None
    BY <1>1, <1>2, ConfigurationAssumption DEF Waiting, TypeOK
  <1>5. TypeOK'
    BY <1>3, <1>4, SoundType DEF TypeOK, Stages, Servers
  <1>6. Waits'
    <2>1. allowed' \subseteq AllowedFor(server')
      BY <1>1, <1>2, <1>3 DEF Waits, KnownAccess, AllowedFor
    <2> QED
      BY <1>1, <1>2, <1>3, <1>4, <2>1 DEF Waits
  <1>7. Asking'
    BY DEF Asking
  <1> QED
    BY <1>5, <1>6, <1>7

\* What is stored of a document that was handled to its end is sound.
LEMMA ConfiguredIsSound ==
    ASSUME IInv, at = "handle", rest = {}, document.vers # None
    PROVE  SoundEntries(Configured(document), answered)
  <1> USE DEF IInv
  <1> DEFINE old == EntryOf(server)
             kept == IF old = None THEN None ELSE old.doc
             apps == AllowedApps(document) \cup (IF kept = None THEN {} ELSE kept.apps)
             new == [vers |-> None, token |-> FALSE, apps |-> apps, access |-> <<>>]
             doc == Merged(old, document)
             e == [vers |-> document.vers, valid |-> TRUE,
                   token |-> IF document.token THEN "valid" ELSE "none",
                   doc |-> doc, default |-> Marked(old), own |-> AsDefault]
  <1>1. document \in Documents /\ document # None /\ document.vers \in Int /\ server \in Servers
    BY DEF TypeOK, Documents
  <1>2. /\ old # None => old \in Entries
        /\ kept \in Documents \cup {None}
        /\ kept # None => IF server = Default THEN KnownAccess(kept)
                          ELSE kept.apps \subseteq AllowedFor(server)
    BY EntryIsSound DEF Sound, Entries
  <1>3. /\ apps \subseteq Apps
        /\ server # Default => apps \subseteq AllowedFor(server)
    BY <1>1, <1>2 DEF AllowedApps, Documents, TypeOK, Waits
  <1>4. AsDefault =>
           server = Default /\ KnownAccess(document) /\ Owed(document, answered) = {}
    BY <1>1 DEF AsDefault, Waits, TypeOK
  <1>5. new \in Documents /\ new.apps = apps /\ KnownAccess(new)
    <2>1. <<>> \in Seq([server : Servers, idProvider : BOOLEAN, apps : SUBSET Apps])
      OBVIOUS
    <2> QED
      BY <1>3, <2>1 DEF Documents, KnownAccess
  <1> HIDE DEF apps, new
  <1>6. Marked(old) \in BOOLEAN /\ AsDefault \in BOOLEAN
    BY <1>2 DEF Marked, AsDefault, Entries
  <1>7. doc \in Documents \cup {None}
        /\ (doc # None => IF server = Default THEN KnownAccess(doc)
                          ELSE doc.apps \subseteq AllowedFor(server))
        /\ (AsDefault /\ Marked(old) =>
              doc # None /\ doc.vers = document.vers /\ Owed(doc, answered) = {})
    <2>1. CASE AsDefault /\ Marked(old)
      <3>1. doc = [document EXCEPT !.apps = apps]
        BY <2>1 DEF Merged, apps
      <3>2. /\ doc \in Documents /\ doc.vers = document.vers /\ doc.access = document.access
        BY <1>1, <1>3, <3>1 DEF Documents
      <3> HIDE DEF doc
      <3> QED
        BY <1>4, <2>1, <3>2, ConfigurationAssumption DEF KnownAccess, Owed, Named
    <2>2. CASE ~(AsDefault /\ Marked(old)) /\ kept # None
      <3>1. doc = [kept EXCEPT !.apps = apps]
        BY <2>2 DEF Merged, apps
      <3> HIDE DEF kept
      <3>2. doc \in Documents /\ doc.apps = apps /\ doc.access = kept.access
        BY <1>2, <1>3, <2>2, <3>1 DEF Documents
      <3> HIDE DEF doc
      <3> QED
        BY <1>2, <1>3, <2>2, <3>2 DEF KnownAccess
    <2>3. CASE ~(AsDefault /\ Marked(old)) /\ kept = None
      <3>1. doc = None \/ doc = new
        BY <2>3 DEF Merged, apps, new
      <3> HIDE DEF doc, kept
      <3> QED
        BY <1>3, <1>5, <2>3, <3>1
    <2> QED
      BY <2>1, <2>2, <2>3
  <1> HIDE DEF kept, doc
  <1>8. e \in Entries
    BY <1>1, <1>6, <1>7 DEF Entries, Documents
  <1>9. Sound(server, e, answered)
    BY <1>7, <1>8 DEF Sound
  <1>10. Configured(document) = Put(server, e)
    BY DEF Configured, doc
  <1> HIDE DEF e
  <1> QED
    BY <1>1, <1>9, <1>10, PutIsSound

LEMMA SwitchedOffIsSound ==
    ASSUME IInv, at = "handle", document.vers # None, SwitchedOff(document) # None
    PROVE  SoundEntries(SwitchedOff(document), answered)
  <1> USE DEF IInv
  <1>1. CASE file # None
    BY <1>1, WithoutEntryIsSound DEF SwitchedOff
  <1>2. CASE file = None
    <2> DEFINE e == [vers |-> document.vers, valid |-> TRUE, token |-> "none", doc |-> None,
                    default |-> AsDefault, own |-> AsDefault]
    <2>1. document.vers \in Int /\ server \in Servers
      BY DEF TypeOK, Documents
    <2>2. Sound(server, e, answered)
      BY <2>1 DEF Sound, Entries, AsDefault
    <2>3. SwitchedOff(document) = Put(server, e)
      BY <1>2 DEF SwitchedOff
    <2> HIDE DEF e
    <2> QED
      BY <2>1, <2>2, <2>3, PutIsSound
  <1> QED
    BY <1>1, <1>2

LEMMA StoreKeeps ==
    ASSUME IInv, at = "handle", rest = {}, NEW f, SoundEntries(f, answered), Store(f)
    PROVE  IInv'
  <1>1. CASE file' = f /\ Done(f)
    BY <1>1, DoneKeeps DEF SoundFile
  <1>2. CASE WriteFails(f)
    BY <1>2, WriteFailsKeeps
  <1> QED
    BY <1>1, <1>2 DEF Store

LEMMA StoreOwnKeeps == ASSUME IInv, StoreOwn PROVE IInv'
  <1> USE DEF StoreOwn
  <1>1. CASE document.vers # None /\ Store(Configured(document))
    BY <1>1, ConfiguredIsSound, StoreKeeps
  <1>2. CASE /\ document.vers # None
             /\ SwitchedOff(document) # None
             /\ Store(SwitchedOff(document))
    BY <1>2, SwitchedOffIsSound, StoreKeeps
  <1>3. CASE Done(file) /\ UNCHANGED file
    BY <1>3, DoneKeeps DEF IInv
  <1> QED
    BY <1>1, <1>2, <1>3

\* What ceases to be valid is not claimed any more.
LEMMA ExpireKeeps == ASSUME IInv, Expire PROVE IInv'
  <1> USE DEF IInv, Expire, call
  <1>1. PICK s \in DOMAIN file :
           \/ file' = [file EXCEPT ![s].valid = FALSE]
           \/ file' = [file EXCEPT ![s].token = "expired"]
    OBVIOUS
  <1>2. PICK e : /\ file' = [file EXCEPT ![s] = e]
                 /\ \/ e = [file[s] EXCEPT !.valid = FALSE]
                    \/ e = [file[s] EXCEPT !.token = "expired"]
    BY <1>1, Zenon
  <1>3. Sound(s, file[s], answered)
    BY DEF SoundFile, SoundEntries
  <1>4. Sound(s, e, answered)
    <2>1. /\ Sound(s, [file[s] EXCEPT !.valid = FALSE], answered)
          /\ Sound(s, [file[s] EXCEPT !.token = "expired"], answered)
      BY <1>3, LessIsSound
    <2> QED
      BY <1>2, <2>1
  <1>5. SoundFile(file', answered)
    BY <1>2, <1>4, EntryChangeIsSound DEF SoundFile
  <1>6. Asking'
    <2>1. file[s] \in Entries
      BY <1>3 DEF Sound
    <2>2. e.doc = file[s].doc /\ (e.valid => file[s].valid)
      BY <1>2, <2>1 DEF Entries
    <2>3. file[s] # None
      BY <2>1, ConfigurationAssumption
    <2> QED
      BY <1>2, <2>2, <2>3 DEF Asking, EntryOf
  <1> QED
    BY <1>5, <1>6, GoesOnKeeps DEF TypeOK, Requests, Results

LEMMA CrashKeeps == ASSUME IInv, Crash PROVE IInv'
  BY IdleKeeps DEF Crash, IInv, Results

LEMMA StutterKeeps == ASSUME IInv, UNCHANGED vars PROVE IInv'
  <1>1. Asking' /\ SoundFile(file', answered)
    BY DEF Asking, EntryOf, IInv, vars, call
  <1> QED
    BY <1>1, GoesOnKeeps DEF IInv, vars, call, TypeOK, Requests, Results

LEMMA NextKeeps == ASSUME IInv, [Next]_vars PROVE IInv'
  BY StartKeeps, LoadKeeps, HttpAnsweredKeeps, HttpsKeeps, TokenRefusedKeeps, OtpKeeps,
     AskNextKeeps, StoreOwnKeeps, ExpireKeeps, CrashKeeps, StutterKeeps DEF Next, Step

\* Every state of the device's configuration satisfies the inductive invariant.
\* (provisioning/device_configuration.rs, local_provisioning_doc.rs.)
THEOREM Invariance == Spec => []IInv
  BY InitHolds, NextKeeps, PTL DEF Spec

\* A document is handled only in its stage, one waits exactly while another
\* server is asked, and the file maps servers to entries, for any documents.
\* (device_configuration.rs: start_auto_config_for_server and its callers.)
THEOREM TypeCorrect == Spec => []TypeOK
  BY Invariance, PTL DEF IInv

\* However many servers the default server's document names for an application
\* of RCS, itself among them or not, and whatever fails, breaks off or is killed on
\* the way: an entry that it made and wrote last, asked as the default server, and
\* that is valid means that each of them was configured for that document.
\* (device_configuration.rs: handle_config_for_server stores after the
\* recursion, and returns the error of an additional server.)
THEOREM AnswerInFull == Spec => []NamedServersAnswered
  <1>1. IInv => NamedServersAnswered
    <2> SUFFICES ASSUME IInv,
                        EntryOf(Default) # None, EntryOf(Default).valid,
                        EntryOf(Default).doc # None,
                        EntryOf(Default).default, EntryOf(Default).own
                 PROVE  NamedServersAnswered
      BY DEF NamedServersAnswered
    <2>1. Sound(Default, EntryOf(Default), answered)
      BY EntryIsSound DEF IInv
    <2> QED
      BY <2>1 DEF NamedServersAnswered, Sound, Owed
  <1> QED
    BY <1>1, Invariance, PTL

\* No document of an additional server, and no number of them merged, leaves an
\* application on file that no access control names that server for.
\* (device_configuration.rs: "forbidden by access_control".)
THEOREM NoOtherApps == Spec => []AppsWereAllowed
  <1>1. IInv => AppsWereAllowed
    <2> SUFFICES ASSUME IInv, NEW s \in Additional, EntryOf(s) # None, EntryOf(s).doc # None
                 PROVE  EntryOf(s).doc.apps \subseteq AllowedFor(s)
      BY DEF AppsWereAllowed, AllowedFor
    <2>1. Sound(s, EntryOf(s), answered)
      BY EntryIsSound DEF IInv
    <2> QED
      BY <2>1, ConfigurationAssumption DEF Sound
  <1> QED
    BY <1>1, Invariance, PTL
=============================================================================
