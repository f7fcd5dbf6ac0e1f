----------------------------- MODULE FileUpload -----------------------------
(***************************************************************************)
(* Uploading one file over HTTP (ft_http/upload.rs): an empty POST and a   *)
(* POST of the content when the transfer id is new, and otherwise a check  *)
(* of what the server has, a PUT of the rest and a GET of the result.      *)
(*                                                                         *)
(* The host may call again with the same id at any time, also while a call *)
(* runs.  Every request may be challenged, refused or lost, with any part  *)
(* of its body received.  The content server is external: it keeps what it *)
(* gets of a file, may drop an unfinished one, and takes a body that runs  *)
(* to the last byte for the end of the upload.                             *)
(***************************************************************************)
EXTENDS HttpTransfer, Integers, FiniteSets, FiniteSetsExt

CONSTANTS
    MaxDrops,   \* bound: how often the server drops an unfinished upload
    MaxRestarts \* bound: how often the program restarts

ASSUME UploadAssumption ==
    /\ IsFiniteSet(Calls)
    /\ Size \in Nat \ {0}
    /\ MaxDrops \in Nat
    /\ MaxRestarts \in Nat

Bytes == 0 .. Size - 1

VARIABLES
    recorded,   \* the id is in recorded_tids
    rangeEnd,   \* the last byte the server reported, for a PUT
    upload,     \* the upload of the server a PUT goes to
    sent,       \* how many bytes of the body were received
    server,     \* [upload, drops, bytes, whole]: upload 0 is one it does not know
    restarts

callVars == <<step, auth, rangeEnd, upload, sent, result>>
vars == <<recorded, stored, callVars, server, restarts>>

TypeOK ==
    /\ recorded \in BOOLEAN
    /\ stored \in BOOLEAN
    /\ step \in [Calls -> {"idle", "post", "content", "check", "put", "info"}]
    /\ auth \in [Calls -> {"none", "stored", "answer"}]
    /\ rangeEnd \in [Calls -> Bytes]
    /\ upload \in [Calls -> 0 .. MaxDrops + 1]
    /\ sent \in [Calls -> 0 .. Size]
    /\ \A c \in Calls : step[c] = "put" => rangeEnd[c] + sent[c] <= Size
    /\ result \in [Calls -> {"none", "ok", "error"}]
    /\ server \in [upload : 0 .. MaxDrops + 1, drops : 0 .. MaxDrops,
                   bytes : SUBSET Bytes, whole : BOOLEAN]
    /\ restarts \in 0 .. MaxRestarts

Init ==
    /\ recorded = FALSE
    /\ stored = FALSE
    /\ step = [c \in Calls |-> "idle"]
    /\ auth = [c \in Calls |-> "none"]
    /\ rangeEnd = [c \in Calls |-> 0]
    /\ upload = [c \in Calls |-> 0]
    /\ sent = [c \in Calls |-> 0]
    /\ result = [c \in Calls |-> "none"]
    /\ server = [upload |-> 0, drops |-> 0, bytes |-> {}, whole |-> FALSE]
    /\ restarts = 0

-----------------------------------------------------------------------------
(* Requests and results.                                                   *)

Sends(c, request, credentials) ==
    /\ step' = [step EXCEPT ![c] = request]
    /\ auth' = [auth EXCEPT ![c] = credentials]
    /\ sent' = [sent EXCEPT ![c] = 0]

Returns(c, what) ==
    /\ step' = [step EXCEPT ![c] = "idle"]
    /\ result' = [result EXCEPT ![c] = what]
    /\ UNCHANGED <<auth, rangeEnd, upload, sent>>

\* The first byte of a body.
From(c) == IF step[c] = "put" THEN rangeEnd[c] ELSE 0

Sent(c) == From(c) + sent[c] = Size

\* How much the server has without a gap.
Prefix == {i \in Bytes : 0 .. i \subseteq server.bytes}

-----------------------------------------------------------------------------
(* The host's call: known ids are resumed.                                 *)

Call(c) ==
    /\ step[c] = "idle"
    /\ recorded' = TRUE
    /\ IF recorded THEN Sends(c, "check", Preload) ELSE Sends(c, "post", "none")
    /\ result' = [result EXCEPT ![c] = "none"]
    /\ UNCHANGED <<stored, rangeEnd, upload, server, restarts>>

-----------------------------------------------------------------------------
(* A request succeeds.                                                     *)

PostAnswered(c) ==
    /\ step[c] = "post"
    /\ Sends(c, "content", Preload)
    /\ UNCHANGED <<recorded, stored, rangeEnd, upload, result, server, restarts>>

\* A body is received by one upload, if that is still there: a PUT by the one
\* it was made for, a POST by the one of its first byte.
BodyReceived(c) ==
    /\ step[c] \in {"content", "put"}
    /\ ~Sent(c)
    /\ step[c] = "put" \/ sent[c] > 0 => upload[c] = server.upload
    /\ sent' = [sent EXCEPT ![c] = sent[c] + 1]
    /\ upload' = [upload EXCEPT ![c] = server.drops + 1]
    /\ server' = [server EXCEPT !.upload = server.drops + 1,
                                !.bytes = @ \cup {From(c) + sent[c]},
                                !.whole = @ \/ From(c) + sent[c] = Size - 1]
    /\ UNCHANGED <<recorded, stored, step, auth, rangeEnd, result, restarts>>

ContentAnswered(c) ==
    /\ step[c] = "content"
    /\ Sent(c)
    /\ Returns(c, "ok") \/ Returns(c, "error")     \* an answer that cannot be read
    /\ Keeps(c)
    /\ UNCHANGED <<recorded, server, restarts>>

\* Faulty variant: the rest begins one byte too far.
ResumesAt_Late(end) == end + 2

\* Where the rest of the file begins, given the last byte the server has.
ResumesAt(end) == end

\* Nothing is left to PUT of a file the server has in full: that is an error,
\* as is an answer that cannot be read.
CheckAnswered(c) ==
    /\ step[c] = "check"
    /\ server.upload # 0
    /\ Keeps(c)
    /\ \/ /\ Prefix # {}
          /\ Max(Prefix) + 1 < Size
          /\ Sends(c, "put", IF stored' THEN "stored" ELSE "none")
          /\ rangeEnd' = [rangeEnd EXCEPT ![c] = ResumesAt(Max(Prefix))]
          /\ upload' = [upload EXCEPT ![c] = server.upload]
          /\ UNCHANGED result
       \/ Returns(c, "error")
    /\ UNCHANGED <<recorded, server, restarts>>

\* Faulty variant: an id the server does not know is an error.
CheckNotFound_Fails(c) ==
    /\ step[c] = "check"
    /\ server.upload = 0
    /\ Returns(c, "error")
    /\ UNCHANGED <<recorded, stored, server, restarts>>

CheckNotFound(c) ==
    /\ step[c] = "check"
    /\ server.upload = 0
    /\ Sends(c, "post", "none")
    /\ UNCHANGED <<recorded, stored, rangeEnd, upload, result, server, restarts>>

PutAnswered(c) ==
    /\ step[c] = "put"
    /\ Sent(c)
    /\ Keeps(c)
    /\ Sends(c, "info", IF stored' THEN "stored" ELSE "none")
    /\ UNCHANGED <<recorded, rangeEnd, upload, result, server, restarts>>

InfoAnswered(c) ==
    /\ step[c] = "info"
    /\ server.whole
    /\ Returns(c, "ok")
    /\ UNCHANGED <<recorded, stored, server, restarts>>

-----------------------------------------------------------------------------
(* A request is challenged, refused or lost.                               *)

\* A request that had credentials, stored ones included, is not repeated.
Retried(c) ==
    \/ step[c] = "post"
    \/ step[c] \in {"check", "put"} /\ auth[c] = "none"

\* The bootstrapping of an answer may fail.
Challenged(c) ==
    /\ step[c] # "idle"
    /\ sent[c] = 0
    /\ \/ /\ Retried(c)
          /\ stored' \in {stored, TRUE}
          /\ Sends(c, IF step[c] = "post" THEN "content" ELSE step[c], "answer")
          /\ UNCHANGED <<rangeEnd, upload, result>>
       \/ Returns(c, "error") /\ UNCHANGED stored
    /\ UNCHANGED <<recorded, server, restarts>>

\* Another status, no connection, no answer.
Fails(c) ==
    /\ step[c] # "idle"
    /\ Returns(c, "error")
    /\ UNCHANGED <<recorded, stored, server, restarts>>

-----------------------------------------------------------------------------
(* The server drops an upload, the program restarts.                       *)

ServerDrops ==
    /\ server.upload # 0
    /\ ~server.whole
    /\ server.drops < MaxDrops
    /\ server' = [upload |-> 0, drops |-> server.drops + 1, bytes |-> {}, whole |-> FALSE]
    /\ UNCHANGED <<recorded, stored, callVars, restarts>>

\* recorded_tids and the security context are in memory.
Restart ==
    /\ restarts < MaxRestarts
    /\ restarts' = restarts + 1
    /\ recorded' = FALSE
    /\ stored' = FALSE
    /\ step' = [c \in Calls |-> "idle"]
    /\ result' = [c \in Calls |-> "error"]
    /\ UNCHANGED <<auth, rangeEnd, upload, sent, server>>

-----------------------------------------------------------------------------
Accepted(c) ==
    \/ PostAnswered(c)
    \/ ContentAnswered(c)
    \/ CheckAnswered(c)
    \/ CheckNotFound(c)
    \/ PutAnswered(c)
    \/ InfoAnswered(c)

Next ==
    \/ \E c \in Calls :
          \/ Call(c)
          \/ Accepted(c)
          \/ BodyReceived(c)
          \/ Challenged(c)
          \/ Fails(c)
    \/ ServerDrops
    \/ Restart

Spec == Init /\ [][Next]_vars

\* A request ends, if only with a timeout of the HTTP client, and the host calls
\* again.  Requests that are repeated are accepted in the end, and the next byte
\* of the file is received: one that the server has already is not enough.
Persistence ==
    /\ WF_vars(\E c \in Calls : Call(c))
    /\ \A c \in Calls : WF_vars(Accepted(c) \/ Challenged(c) \/ Fails(c))
    /\ SF_vars(\E c \in Calls : PostAnswered(c))
    /\ SF_vars(\E c \in Calls : CheckAnswered(c) /\ step'[c] = "put")
    /\ SF_vars(\E c \in Calls : CheckNotFound(c))
    /\ SF_vars(\E c \in Calls : BodyReceived(c) /\ sent[c] = 0)
    /\ SF_vars(\E c \in Calls : BodyReceived(c) /\ server'.bytes # server.bytes)

PersistentSpec == Spec /\ Persistence

-----------------------------------------------------------------------------
(* Properties.                                                             *)

\* The host is told that a file is uploaded only when the server has every
\* byte of it, whatever was cut, resumed, repeated or uploaded twice.
\* (upload.rs: the PUT begins with the last byte the server has.)
SuccessIsComplete ==
    (\E c \in Calls : result[c] = "ok") => server.bytes = Bytes

\* A file that is uploaded again and again is on the server in the end, also if
\* the server forgets an id that is on record here.
\* (upload.rs: resume_upload_check uploads from the beginning on 404.)
RetryCompletes == <>(server.bytes = Bytes)
=============================================================================
