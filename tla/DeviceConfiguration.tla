------------------------- MODULE DeviceConfiguration ------------------------
(***************************************************************************)
(* Configuring the device (provisioning/device_configuration.rs) and the   *)
(* file it keeps (provisioning/local_provisioning_doc.rs).                 *)
(*                                                                         *)
(* A start asks the default server, unless what the file holds of it is    *)
(* still valid.  Its document may name additional servers (ACCESS-CONTROL),*)
(* which are asked in turn while the document waits; what they say is      *)
(* stored first, the default server's own document last.  The default      *)
(* server itself may be among them (a DEFAULT element with its name): it is*)
(* then asked once more, as an additional one.  Each server may            *)
(* challenge a request, ask for an OTP that the host has to enter, refuse  *)
(* the token it was sent (511), or say that RCS is off (version 0 or less).*)
(* Writing the file may fail or break off and the program may be killed.   *)
(*                                                                         *)
(* The file maps a server to its entry: entries are found by the server's  *)
(* name, or by their default mark.  Only the default server's may have the *)
(* mark, and has it if the entry was made when that server was asked as the*)
(* default one.                                                            *)
(* The clock is left out: what is stored with a validity may cease to be   *)
(* valid at any time.  One start runs at a time.                           *)
(***************************************************************************)
EXTENDS Integers, Sequences

CONSTANTS
    Default,         \* the default server
    Additional,      \* servers that ACCESS-CONTROL may name
    DefaultDocs,     \* the documents the default server may answer with
    AdditionalDocs,  \* and those any additional one may
    None             \* the Option's None

Servers == {Default} \cup Additional
Rcs == "ap2002"
Ims == "urn:oma:mo:ext-3gpp-ims:1.0"
Apps == {"ap2001", Rcs, Ims}

Documents == [vers : Int \cup {None}, token : BOOLEAN, apps : SUBSET Apps,
              access : Seq([server : Servers, idProvider : BOOLEAN, apps : SUBSET Apps])]
Waiting == [document : Documents, rest : SUBSET Nat]

\* default is the mark; own is history: the default server was asked as such
\* when the entry was last written.
Entries == [vers : Int, valid : BOOLEAN, token : {"none", "valid", "expired"},
            doc : Documents \cup {None}, default : BOOLEAN, own : BOOLEAN]

\* Additional are the names that are not the default server's, and an Option's
\* value is not None.
ASSUME ConfigurationAssumption ==
    /\ Default \notin Additional
    /\ DefaultDocs \cup AdditionalDocs \subseteq Documents
    /\ None \notin Documents \cup Entries \cup Waiting

VARIABLES
    file,     \* the provisioning file: server to entry, or None if it cannot be read
    at,       \* where the start is
    server,   \* that is asked
    allowed,  \* the applications the access control lets it configure
    request,  \* what the request to it carries
    document, \* its document that is handled
    rest,     \* where it names the servers that have to be asked before it is stored
    outer,    \* the default server's document that waits while another is asked
    otps,     \* OTPs the host has entered for the receiver
    result,   \* of the last start
    answered  \* history: <<v, s>>, s was configured for version v of the default's document

call == <<at, server, allowed, request, document, rest, outer, otps>>
vars == <<file, call, result, answered>>

NoRequest == [token |-> FALSE, cellular |-> FALSE, signed |-> FALSE]
Stages == {"idle", "load", "http", "https", "policyOtp", "cookieOtp", "otp", "handle"}

TypeOK ==
    /\ file = None \/ \E S \in SUBSET Servers : file \in [S -> Entries]
    /\ at \in Stages
    /\ server \in Servers
    /\ allowed \subseteq Apps
    /\ request \in [token : BOOLEAN, cellular : BOOLEAN, signed : BOOLEAN]
    /\ document \in Documents \cup {None}
    /\ (at = "handle") <=> (document # None)
    /\ rest \subseteq Nat
    /\ outer \in Waiting \cup {None}
    /\ outer = None => server = Default
    /\ at = "idle" => outer = None
    /\ otps \in 0 .. 2
    /\ result \in {"none", "Ok", "Forbidden", "Retry"}

Init ==
    /\ file = None
    /\ at = "idle" /\ server = Default /\ allowed = Apps /\ request = NoRequest
    /\ document = None /\ rest = {} /\ outer = None /\ otps = 0
    /\ result = "none"
    /\ answered = {}

-----------------------------------------------------------------------------
(* The file.                                                               *)

EntryOf(s) == IF file # None /\ s \in DOMAIN file THEN file[s] ELSE None

Put(s, e) ==
    LET S == IF file = None THEN {s} ELSE DOMAIN file \cup {s}
    IN  [t \in S |-> IF t = s THEN e ELSE file[t]]

WithoutEntry(s) == [t \in DOMAIN file \ {s} |-> file[t]]

\* Only a token of an entry with the default mark is unlinked.
WithoutToken(s) ==
    IF s \in DOMAIN file /\ file[s].default THEN [file EXCEPT ![s].token = "none"] ELSE file

\* A write that breaks off leaves no file, or one that ends in the middle; an
\* entry that is not complete is not read back.  (The entries kept are the
\* first ones; here, any.)
Broken(f) == {None} \cup {[t \in S |-> f[t]] : S \in SUBSET DOMAIN f}

\* Faulty variant: the access control is not looked at.
AllowedApps_All(d) == d.apps

\* The applications of the document that may be stored.
AllowedApps(d) == d.apps \cap allowed

\* The server is the default one, and not one that access control names.
AsDefault == outer = None

\* The mark is given when the entry is made.
Marked(old) == IF old = None THEN AsDefault ELSE old.default

\* What the default server says as such replaces the stored characteristics, if
\* its entry has the mark; else only applications are kept, added to the others.
Merged(old, d) ==
    LET kept == IF old = None THEN None ELSE old.doc
        apps == AllowedApps(d) \cup (IF kept = None THEN {} ELSE kept.apps)
    IN  IF AsDefault /\ Marked(old) THEN [d EXCEPT !.apps = apps]
        ELSE IF kept # None THEN [kept EXCEPT !.apps = apps]
        ELSE IF apps = {} /\ file # None THEN None
        ELSE [vers |-> None, token |-> FALSE, apps |-> apps, access |-> <<>>]

Configured(d) ==
    LET old == EntryOf(server) IN
    Put(server, [vers |-> d.vers, valid |-> TRUE,
                 token |-> IF d.token THEN "valid" ELSE "none",
                 doc |-> Merged(old, d), default |-> Marked(old), own |-> AsDefault])

\* A server that is off for good is remembered only if nothing else is.
SwitchedOff(d) ==
    IF file # None THEN WithoutEntry(server)
    ELSE IF d.vers < 0
    THEN Put(server, [vers |-> d.vers, valid |-> TRUE, token |-> "none", doc |-> None,
                      default |-> AsDefault, own |-> AsDefault])
    ELSE None

\* What was stored does not stay valid.
Expire ==
    /\ file # None
    /\ \E s \in DOMAIN file :
          \/ file[s].valid /\ file' = [file EXCEPT ![s].valid = FALSE]
          \/ file[s].token = "valid" /\ file' = [file EXCEPT ![s].token = "expired"]
    /\ UNCHANGED <<call, result, answered>>

-----------------------------------------------------------------------------
(* Calls and returns.                                                      *)

\* Faulty variant: the document that waits is not dropped.
Idle_KeepsOuter ==
    /\ at' = "idle" /\ server' = Default /\ allowed' = Apps /\ request' = NoRequest
    /\ document' = None /\ rest' = {} /\ outer' = outer /\ otps' = 0

Idle ==
    /\ at' = "idle" /\ server' = Default /\ allowed' = Apps /\ request' = NoRequest
    /\ document' = None /\ rest' = {} /\ outer' = None /\ otps' = 0

\* Faulty variant: an additional server's failure is passed over.
Fail_GoesOn(r) ==
    IF AsDefault THEN Idle /\ result' = r /\ UNCHANGED answered
    ELSE /\ at' = "handle" /\ document' = outer.document /\ rest' = outer.rest
         /\ server' = Default /\ allowed' = Apps /\ request' = NoRequest
         /\ outer' = None /\ otps' = 0
         /\ UNCHANGED <<result, answered>>

\* A failure, also an additional server's, is the result of the start.
Fail(r) == Idle /\ result' = r /\ UNCHANGED answered

\* A write fails before the old file is gone, or after; it may be the kill of
\* the program that breaks it off.
WriteFails(f) ==
    /\ file' \in Broken(f) \cup {file}
    /\ Fail("Retry") \/ Fail("none")

Stored(f) == IF f = None THEN {} ELSE {f[s].doc : s \in DOMAIN f} \ {None}

\* The start has what the host needs if some document configures RCS and one IMS.
Complete(f) == \E d, e \in Stored(f) : Rcs \in d.apps /\ Ims \in e.apps

\* The server is done, the file is f: the default server's document goes on, or
\* the start is over.
Done(f) ==
    IF AsDefault
    THEN /\ Idle
         /\ result' = IF Complete(f) THEN "Ok" ELSE "Forbidden"
         /\ UNCHANGED answered
    ELSE /\ at' = "handle" /\ document' = outer.document /\ rest' = outer.rest
         /\ server' = Default /\ allowed' = Apps /\ request' = NoRequest
         /\ outer' = None /\ otps' = 0
         /\ answered' = answered \cup {<<outer.document.vers, server>>}
         /\ UNCHANGED result

\* Where a document names a server for an application of RCS.  (A server that is
\* named for IMS alone is not asked: its id is compared with a form of it that is
\* encoded for a URI.)
Named(d) == {i \in DOMAIN d.access : d.access[i].apps \cap {"ap2001", Rcs} # {}}

\* Servers that provide identities are asked before the others.
Before(d, i, j) ==
    IF d.access[i].idProvider = d.access[j].idProvider THEN i < j ELSE d.access[i].idProvider

\* handle_config_for_server begins: the document of the default server, asked as
\* such, first has the servers asked that it names.
Handle(d) ==
    /\ at' = "handle" /\ document' = d
    /\ rest' = IF AsDefault THEN Named(d) ELSE {}
    /\ request' = NoRequest /\ otps' = 0
    /\ UNCHANGED <<server, allowed, outer>>

Ask(r) ==
    /\ at' = "https" /\ request' = r
    /\ UNCHANGED <<server, allowed, document, rest, outer, otps>>

Await(stage) ==
    /\ at' = stage /\ otps' = 0
    /\ UNCHANGED <<server, allowed, request, document, rest, outer>>

-----------------------------------------------------------------------------
(* start_auto_config and start_auto_config_for_server.                     *)

Start ==
    /\ at = "idle"
    /\ at' = "load"
    /\ result' = "none"
    /\ UNCHANGED <<file, server, allowed, request, document, rest, outer, otps, answered>>

\* What the file holds of the server decides whether it is asked.
Load ==
    /\ at = "load"
    /\ LET e == EntryOf(server) IN
       \/ /\ e # None /\ e.vers < 0
          /\ Fail("Forbidden")
       \/ /\ e # None /\ e.vers >= 0 /\ e.valid /\ e.doc # None
          /\ Handle(e.doc) /\ UNCHANGED <<result, answered>>
       \/ /\ e # None => e.vers >= 0 /\ ~(e.valid /\ e.doc # None)
          /\ at' = "http"
          /\ request' = [NoRequest EXCEPT !.token = e # None /\ e.token = "valid"]
          /\ UNCHANGED <<server, allowed, document, rest, outer, otps, result, answered>>
    /\ UNCHANGED file

-----------------------------------------------------------------------------
(* The requests.                                                           *)

\* The first request, without TLS: cookies come over the cellular network
\* only; a token that ceased to be valid meanwhile is not used.
HttpAnswered ==
    /\ at = "http"
    /\ \/ /\ \E cellular \in BOOLEAN, token \in BOOLEAN :
                /\ token => request.token
                /\ Ask([request EXCEPT !.cellular = cellular, !.token = token])
          /\ UNCHANGED <<result, answered>>
       \/ Fail("Forbidden")
       \/ Fail("Retry")
    /\ UNCHANGED file

\* 200 with a document; one that the default server gives as such begins its
\* configuration anew.
Receive(d) ==
    /\ d \in IF server = Default THEN DefaultDocs ELSE AdditionalDocs
    /\ Handle(d)
    /\ answered' = IF AsDefault
                   THEN {a \in answered : a[1] # d.vers} ELSE answered
    /\ UNCHANGED <<file, result>>

\* The document, or a wish for an OTP: by a document that is a policy only, or
\* by cookies without a document.
HttpsAnswered ==
    /\ at = "https"
    /\ \/ \E d \in DefaultDocs \cup AdditionalDocs : Receive(d)
       \/ \E stage \in {"policyOtp", "cookieOtp"} :
             Await(stage) /\ UNCHANGED <<file, result, answered>>

\* 401: a request is signed once.
HttpsChallenged ==
    /\ at = "https"
    /\ ~request.signed
    /\ Ask([request EXCEPT !.signed = TRUE])
    /\ UNCHANGED <<file, result, answered>>

\* 403, 503, another status, an answer that cannot be used, or none.
HttpsFailed ==
    /\ at = "https"
    /\ Fail("Retry") \/ (request.cellular /\ Fail("Forbidden"))
    /\ UNCHANGED file

\* 511: the token is unlinked and the server asked again from the beginning.
TokenRefused ==
    /\ at = "https"
    /\ \/ /\ file # None
          /\ file' = WithoutToken(server)
          /\ at' = "load" /\ request' = NoRequest
          /\ UNCHANGED <<server, allowed, document, rest, outer, otps, result, answered>>
       \/ /\ file # None
          /\ WriteFails(WithoutToken(server))
       \/ file = None /\ Fail("Retry") /\ UNCHANGED file

-----------------------------------------------------------------------------
(* The OTP.                                                                *)

\* The host enters one.  Without a receiver it is lost; the channel holds one,
\* and a receiver that missed one gets an error.
InputOtp ==
    /\ at \in {"policyOtp", "cookieOtp"}
    /\ otps < 2
    /\ otps' = otps + 1
    /\ UNCHANGED <<file, at, server, allowed, request, document, rest, outer,
                   result, answered>>

OtpReceived ==
    /\ at \in {"policyOtp", "cookieOtp"}
    /\ otps = 1
    /\ Await("otp")
    /\ UNCHANGED <<file, result, answered>>

\* Faulty variant: the wait has no end of its own.
OtpMissed_Waits ==
    /\ at \in {"policyOtp", "cookieOtp"}
    /\ otps = 2
    /\ Fail("Retry")
    /\ UNCHANGED file

\* The wait is over, by time or by an error.  After a policy the cookies of the
\* same answer are looked at, and may begin another wait.
OtpMissed ==
    /\ at \in {"policyOtp", "cookieOtp"}
    /\ otps # 1
    /\ \/ /\ at = "policyOtp"
          /\ Await("cookieOtp") /\ UNCHANGED <<result, answered>>
       \/ Fail("Retry")
    /\ UNCHANGED file

OtpAnswered ==
    /\ at = "otp"
    /\ \/ \E d \in DefaultDocs \cup AdditionalDocs : Receive(d)
       \/ Fail("Retry") /\ UNCHANGED file

-----------------------------------------------------------------------------
(* handle_config_for_server.                                               *)

AskNext ==
    /\ at = "handle"
    /\ at' = "load"
    /\ \E i \in rest :
          /\ \A j \in rest \ {i} : Before(document, i, j)
          /\ server' = document.access[i].server
          /\ allowed' = document.access[i].apps
          /\ outer' = [document |-> document, rest |-> rest \ {i}]
    /\ document' = None /\ rest' = {}
    /\ UNCHANGED <<file, request, otps, result, answered>>

Store(f) == (file' = f /\ Done(f)) \/ WriteFails(f)

StoreOwn ==
    /\ at = "handle"
    /\ rest = {}
    /\ \/ /\ document.vers # None /\ document.vers > 0
          /\ Store(Configured(document))
       \/ /\ document.vers # None /\ document.vers <= 0
          /\ IF SwitchedOff(document) # None
             THEN Store(SwitchedOff(document))
             ELSE Done(file) /\ UNCHANGED file
       \/ document.vers = None /\ Done(file) /\ UNCHANGED file

\* The program is killed.
Crash ==
    /\ at # "idle"
    /\ Idle
    /\ result' = "none"
    /\ UNCHANGED <<file, answered>>

-----------------------------------------------------------------------------
Step ==
    \/ Load \/ HttpAnswered \/ HttpsAnswered \/ HttpsChallenged \/ HttpsFailed
    \/ TokenRefused \/ OtpReceived \/ OtpMissed \/ OtpAnswered \/ AskNext \/ StoreOwn

Next == Start \/ Step \/ InputOtp \/ Expire \/ Crash

Spec == Init /\ [][Next]_vars

\* Requests end, waits time out, the task runs.
FairSpec == Spec /\ WF_vars(Step)

-----------------------------------------------------------------------------
(* Properties.                                                             *)

\* What the file holds of the default server and calls valid is its answer in
\* full: each server that its document names for an application of RCS was
\* configured after that document came, whatever failed, broke off or was killed
\* in between (device_configuration.rs:904, :946).  A start that finds it valid
\* takes it for the configuration in force.  It says so of an entry that the
\* default server, asked as such, made and wrote last.  An entry that was made or
\* written last when a DEFAULT element had it asked as an additional server
\* (:916, :958, :1113) is valid, whoever else is still to be asked.
NamedServersAnswered ==
    LET e == EntryOf(Default) IN
    (e # None /\ e.valid /\ e.doc # None /\ e.default /\ e.own) =>
        /\ e.doc.vers = e.vers
        /\ \A i \in Named(e.doc) : <<e.vers, e.doc.access[i].server>> \in answered

\* An additional server configures only applications that an access control of
\* the default server names it for (device_configuration.rs:1045, :1093).
AppsWereAllowed ==
    \A s \in Additional : LET e == EntryOf(s) IN
        (e # None /\ e.doc # None) =>
            \A app \in e.doc.apps : \E d \in DefaultDocs : \E i \in DOMAIN d.access :
                d.access[i].server = s /\ app \in d.access[i].apps

\* Every start ends, however many servers, challenges and OTPs it takes, unless
\* a server answers with 511 over and over: only that restarts without a bound
\* (device_configuration.rs:680), a challenge does not (:605).
EveryStartEnds == []<>(at = "idle") \/ []<><<TokenRefused>>_vars
=============================================================================
