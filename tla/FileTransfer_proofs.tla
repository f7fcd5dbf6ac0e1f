------------------------- MODULE FileTransfer_proofs ------------------------
(***************************************************************************)
(* Files of any size, any number of calls for one file: an upload that is  *)
(* reported has reached the server in full, and a download that is has     *)
(* reached the disk.                                                       *)
(*                                                                         *)
(* FileUpload and FileDownload have the variables of HttpTransfer in       *)
(* common; no statement is about both.                                     *)
(***************************************************************************)
EXTENDS FileUpload, FileDownload, SequenceTheorems, WellFoundedInduction, TLAPS

-----------------------------------------------------------------------------
(* The upload.                                                             *)

\* Uploads are numbered by the drops before them, so that a call never takes a
\* later one for its own, and a body that was begun has one.
Numbered ==
    /\ server.upload \in {0, server.drops + 1}
    /\ \A c \in Calls : upload[c] <= (IF server.upload = 0 THEN server.drops ELSE server.upload)
    /\ \A c \in Calls : step[c] \in {"content", "put"} /\ upload[c] = 0 =>
        From(c) + sent[c] = 0

\* The first bytes of the file.
First(n) == 0 .. n - 1

\* Of the upload a body goes to, the server has all that comes before.
Behind ==
    \A c \in Calls : step[c] \in {"content", "put"} /\ upload[c] = server.upload =>
        First(From(c) + sent[c]) \subseteq server.bytes

\* A body that was received to its end made the upload whole, and that is what
\* a result says.
Wholeness ==
    /\ server.whole => server.bytes = Bytes
    /\ \A c \in Calls : step[c] \in {"content", "put"} /\ Sent(c) => server.whole
    /\ \A c \in Calls : result[c] = "ok" => server.whole

IInv == TypeOK /\ Numbered /\ Behind /\ Wholeness

USE DEF First

\* A set of bytes of the file has a last one.
LEMMA LastByte ==
    ASSUME NEW S \in SUBSET Bytes, S # {}
    PROVE  Max(S) \in S /\ \A i \in S : i <= Max(S)
  <1> DEFINE Mirror == {Size - i : i \in S}
             less == OpToRel(<, Nat)
  <1>1. Mirror \subseteq Nat /\ Mirror # {}
    <2>1. \A i \in S : Size - i \in Nat
      BY UploadAssumption DEF Bytes
    <2> QED
      BY <2>1
  <1>2. PICK x \in Mirror : \A y \in Mirror : ~(<<y, x>> \in less)
    <2> HIDE DEF Mirror, less
    <2>1. IsWellFoundedOn(less, Nat)
      BY NatLessThanWellFounded DEF less
    <2> QED
      BY <1>1, <2>1, WFMin
  <1>3. \A y \in Mirror : x <= y
    <2> HIDE DEF Mirror
    <2> SUFFICES ASSUME NEW y \in Mirror PROVE ~(y < x)
      BY <1>1
    <2>1. ~(<<y, x>> \in less)
      BY <1>2
    <2>2. x \in Nat /\ y \in Nat
      BY <1>1
    <2> QED
      BY <2>1, <2>2 DEF OpToRel
  <1>4. PICK m \in S : x = Size - m
    OBVIOUS
  <1>5. \A i \in S : m >= i
    BY <1>3, <1>4, UploadAssumption DEF Bytes
  <1> HIDE DEF Mirror, less
  <1>6. Max(S) \in S /\ \A i \in S : Max(S) >= i
    BY <1>4, <1>5 DEF Max
  <1> QED
    BY <1>6 DEF Bytes

LEMMA InitHolds == ASSUME Init PROVE IInv
  <1> USE UploadAssumption DEF Init
  <1>1. TypeOK
    <2>1. server \in [upload : 0 .. MaxDrops + 1, drops : 0 .. MaxDrops,
                      bytes : SUBSET Bytes, whole : BOOLEAN]
      OBVIOUS
    <2>2. /\ rangeEnd \in [Calls -> Bytes]
          /\ upload \in [Calls -> 0 .. MaxDrops + 1]
          /\ sent \in [Calls -> 0 .. Size]
          /\ restarts \in 0 .. MaxRestarts
      BY DEF Bytes
    <2>3. \A c \in Calls : step[c] # "put"
      OBVIOUS
    <2> HIDE UploadAssumption
    <2> QED
      BY <2>1, <2>2, <2>3 DEF TypeOK
  <1>2. Numbered
    BY DEF Numbered
  <1>3. Behind /\ Wholeness
    BY DEF Behind, Wholeness
  <1> QED
    BY <1>1, <1>2, <1>3 DEF IInv

\* What nobody receives a byte in keeps the invariant, if a call that begins a
\* body begins it where the server has all before.
LEMMA QuietKeeps ==
    ASSUME IInv, UNCHANGED server, TypeOK',
           \A c \in Calls :
              /\ upload'[c] = upload[c] \/ upload'[c] = server.upload
              /\ \/ step'[c] \notin {"content", "put"}
                 \/ /\ sent'[c] = 0
                    /\ step'[c] = "content"
                 \/ /\ sent'[c] = 0
                    /\ step'[c] = "put"
                    /\ rangeEnd'[c] + 1 < Size
                    /\ upload'[c] # 0
                    /\ upload'[c] = server.upload =>
                          First(rangeEnd'[c]) \subseteq server.bytes
                 \/ UNCHANGED <<step[c], rangeEnd[c], upload[c], sent[c]>>
              /\ result'[c] = "ok" => result[c] = "ok" \/ server.whole
    PROVE  IInv'
  <1> USE UploadAssumption DEF IInv
  <1>1. Numbered'
    <2>1. ASSUME NEW c \in Calls, step'[c] \in {"content", "put"}, upload'[c] = 0
          PROVE  From(c)' + sent'[c] = 0
      <3>1. CASE UNCHANGED <<step[c], rangeEnd[c], upload[c], sent[c]>>
        BY <2>1, <3>1 DEF Numbered, From
      <3>2. CASE sent'[c] = 0 /\ step'[c] = "content"
        BY <3>2 DEF From
      <3> QED
        BY <2>1, <3>1, <3>2
    <2> QED
      BY <2>1 DEF Numbered, TypeOK
  <1>2. Behind'
    <2> SUFFICES ASSUME NEW c \in Calls, step'[c] \in {"content", "put"},
                        upload'[c] = server.upload
                 PROVE  First(From(c)' + sent'[c]) \subseteq server.bytes
      BY DEF Behind
    <2>1. CASE UNCHANGED <<step[c], rangeEnd[c], upload[c], sent[c]>>
      BY <2>1 DEF Behind, From
    <2>2. CASE sent'[c] = 0 /\ step'[c] = "content"
      BY <2>2 DEF From
    <2>3. CASE /\ sent'[c] = 0
               /\ step'[c] = "put"
               /\ First(rangeEnd'[c]) \subseteq server.bytes
      BY <2>3 DEF From, TypeOK, Bytes
    <2> QED
      BY <2>1, <2>2, <2>3
  <1>3. Wholeness'
    <2>1. ASSUME NEW c \in Calls, step'[c] \in {"content", "put"}, Sent(c)'
          PROVE  server.whole
      <3>1. CASE UNCHANGED <<step[c], rangeEnd[c], upload[c], sent[c]>>
        BY <2>1, <3>1 DEF Wholeness, Sent, From
      <3>2. CASE sent'[c] = 0 /\ step'[c] = "content"
        BY <2>1, <3>2 DEF Sent, From
      <3>3. CASE sent'[c] = 0 /\ step'[c] = "put" /\ rangeEnd'[c] + 1 < Size
        BY <2>1, <3>3 DEF Sent, From, TypeOK, Bytes
      <3> QED
        BY <2>1, <3>1, <3>2, <3>3
    <2> QED
      BY <2>1 DEF Wholeness
  <1> QED
    BY <1>1, <1>2, <1>3

LEMMA StutterKeeps == ASSUME IInv, UNCHANGED vars PROVE IInv'
  <1>1. TypeOK'
    BY DEF IInv, TypeOK, vars, callVars
  <1> QED
    BY <1>1, QuietKeeps DEF vars, callVars

LEMMA CallKeeps == ASSUME IInv, NEW c \in Calls, Call(c) PROVE IInv'
  <1>1. TypeOK'
    BY UploadAssumption DEF IInv, TypeOK, Call, Sends, Preload
  <1> QED
    BY <1>1, QuietKeeps DEF IInv, TypeOK, Call, Sends

LEMMA PostAnsweredKeeps == ASSUME IInv, NEW c \in Calls, PostAnswered(c) PROVE IInv'
  <1>1. TypeOK'
    BY UploadAssumption DEF IInv, TypeOK, PostAnswered, Sends, Preload
  <1> QED
    BY <1>1, QuietKeeps DEF IInv, TypeOK, PostAnswered, Sends

LEMMA ContentAnsweredKeeps == ASSUME IInv, NEW c \in Calls, ContentAnswered(c) PROVE IInv'
  <1>1. TypeOK'
    BY DEF IInv, TypeOK, ContentAnswered, Returns, Keeps
  <1>2. server.whole
    BY DEF IInv, Wholeness, ContentAnswered
  <1> QED
    BY <1>1, <1>2, QuietKeeps DEF IInv, TypeOK, ContentAnswered, Returns

LEMMA CheckAnsweredKeeps == ASSUME IInv, NEW c \in Calls, CheckAnswered(c) PROVE IInv'
  <1> USE UploadAssumption DEF IInv, CheckAnswered
  <1>1. CASE Returns(c, "error")
    <2>1. TypeOK'
      BY <1>1 DEF TypeOK, Returns, Keeps
    <2> QED
      BY <1>1, <2>1, QuietKeeps DEF TypeOK, Returns
  <1>2. CASE /\ Prefix # {} /\ Max(Prefix) + 1 < Size
             /\ Sends(c, "put", IF stored' THEN "stored" ELSE "none")
             /\ rangeEnd' = [rangeEnd EXCEPT ![c] = ResumesAt(Max(Prefix))]
             /\ upload' = [upload EXCEPT ![c] = server.upload]
             /\ UNCHANGED result
    <2>1. Max(Prefix) \in Bytes /\ 0 .. Max(Prefix) \subseteq server.bytes
      BY <1>2, LastByte DEF Prefix
    <2>2. rangeEnd'[c] = Max(Prefix)
      BY <1>2 DEF TypeOK, ResumesAt
    <2>3. First(rangeEnd'[c]) \subseteq server.bytes
      BY <2>1, <2>2 DEF Bytes
    <2>4. TypeOK'
      <3>1. stored' \in BOOLEAN
        BY DEF TypeOK, Keeps
      <3>2. auth' \in [Calls -> {"none", "stored", "answer"}]
        BY <1>2 DEF TypeOK, Sends
      <3>3. /\ rangeEnd' \in [Calls -> Bytes] /\ sent' \in [Calls -> 0 .. Size]
            /\ \A d \in Calls : step'[d] = "put" => rangeEnd'[d] + sent'[d] <= Size
        BY <1>2, <2>1 DEF TypeOK, Sends, ResumesAt, Bytes
      <3> QED
        BY <1>2, <3>1, <3>2, <3>3 DEF TypeOK, Sends
    <2> QED
      BY <1>2, <2>2, <2>3, <2>4, QuietKeeps DEF TypeOK, Sends
  <1> QED
    BY <1>1, <1>2

LEMMA CheckNotFoundKeeps == ASSUME IInv, NEW c \in Calls, CheckNotFound(c) PROVE IInv'
  <1>1. TypeOK'
    BY UploadAssumption DEF IInv, TypeOK, CheckNotFound, Sends
  <1> QED
    BY <1>1, QuietKeeps DEF IInv, TypeOK, CheckNotFound, Sends

LEMMA PutAnsweredKeeps == ASSUME IInv, NEW c \in Calls, PutAnswered(c) PROVE IInv'
  <1>1. TypeOK'
    <2>1. stored' \in BOOLEAN
      BY DEF IInv, TypeOK, PutAnswered, Keeps
    <2>2. auth' \in [Calls -> {"none", "stored", "answer"}]
      BY DEF IInv, TypeOK, PutAnswered, Sends
    <2>3. sent' \in [Calls -> 0 .. Size]
      BY UploadAssumption DEF IInv, TypeOK, PutAnswered, Sends
    <2> QED
      BY <2>1, <2>2, <2>3 DEF IInv, TypeOK, PutAnswered, Sends
  <1> QED
    BY <1>1, QuietKeeps DEF IInv, TypeOK, PutAnswered, Sends

LEMMA InfoAnsweredKeeps == ASSUME IInv, NEW c \in Calls, InfoAnswered(c) PROVE IInv'
  <1>1. TypeOK'
    BY DEF IInv, TypeOK, InfoAnswered, Returns
  <1> QED
    BY <1>1, QuietKeeps DEF IInv, TypeOK, InfoAnswered, Returns

\* A request that is repeated begins its body anew, at the same place.
LEMMA ChallengedKeeps == ASSUME IInv, NEW c \in Calls, Challenged(c) PROVE IInv'
  <1> USE UploadAssumption DEF IInv, Challenged, Retried
  <1>1. TypeOK'
    <2>1. CASE Returns(c, "error") /\ UNCHANGED stored
      BY <2>1 DEF TypeOK, Returns
    <2>2. CASE /\ Retried(c) /\ stored' \in {stored, TRUE}
               /\ Sends(c, IF step[c] = "post" THEN "content" ELSE step[c], "answer")
               /\ UNCHANGED <<rangeEnd, upload, result>>
      BY <2>2 DEF TypeOK, Sends, Bytes
    <2> QED
      BY <2>1, <2>2
  <1>2. CASE Returns(c, "error")
    BY <1>1, <1>2, QuietKeeps DEF TypeOK, Returns
  <1>3. CASE /\ Retried(c)
             /\ Sends(c, IF step[c] = "post" THEN "content" ELSE step[c], "answer")
             /\ UNCHANGED <<rangeEnd, upload, result>>
    BY <1>1, <1>3, QuietKeeps DEF TypeOK, Sends
  <1> QED
    BY <1>2, <1>3

LEMMA FailsKeeps == ASSUME IInv, NEW c \in Calls, Fails(c) PROVE IInv'
  <1>1. TypeOK'
    BY DEF IInv, TypeOK, Fails, Returns
  <1> QED
    BY <1>1, QuietKeeps DEF IInv, TypeOK, Fails, Returns

LEMMA RestartKeeps == ASSUME IInv, Restart PROVE IInv'
  <1>1. TypeOK'
    <2>1. restarts' \in 0 .. MaxRestarts
      BY UploadAssumption DEF IInv, TypeOK, Restart
    <2> QED
      BY <2>1 DEF IInv, TypeOK, Restart
  <1> QED
    BY <1>1, QuietKeeps DEF IInv, TypeOK, Restart

\* The next byte of a body goes to the upload that has all before it, or is
\* the first one of an upload.
LEMMA BodyReceivedKeeps == ASSUME IInv, NEW c \in Calls, BodyReceived(c) PROVE IInv'
  <1> USE UploadAssumption DEF IInv, BodyReceived
  <1> DEFINE byte == From(c) + sent[c]
  <1>1. /\ byte \in Bytes
        /\ sent[c] \in 0 .. Size /\ sent[c] + 1 \in 0 .. Size
        /\ step[c] = "put" => rangeEnd[c] + sent[c] + 1 <= Size
    BY DEF From, Sent, TypeOK, Bytes
  <1>2. First(byte) \subseteq server.bytes
    <2>1. /\ step[c] \in {"content", "put"}
          /\ step[c] = "put" \/ sent[c] > 0 => upload[c] = server.upload
      OBVIOUS
    <2>2. CASE upload[c] = server.upload
      BY <2>2 DEF Behind
    <2>3. CASE step[c] = "content" /\ sent[c] = 0
      BY <2>3 DEF From
    <2>4. upload[c] = server.upload \/ (step[c] = "content" /\ sent[c] = 0)
      BY <1>1, <2>1
    <2> QED
      BY <2>2, <2>3, <2>4
  <1>3. /\ server'.upload = server.drops + 1
        /\ server'.drops = server.drops
        /\ server'.bytes = server.bytes \cup {byte}
        /\ server'.whole = (server.whole \/ byte = Size - 1)
        /\ server.drops + 1 \in 0 .. MaxDrops + 1
    BY DEF TypeOK
  <1>4. /\ upload'[c] = server.drops + 1 /\ sent'[c] = sent[c] + 1
        /\ \A d \in Calls \ {c} : upload'[d] = upload[d] /\ sent'[d] = sent[d]
    BY DEF TypeOK
  <1>5. TypeOK'
    <2>1. server' \in [upload : 0 .. MaxDrops + 1, drops : 0 .. MaxDrops,
                       bytes : SUBSET Bytes, whole : BOOLEAN]
      BY <1>1, <1>3 DEF TypeOK
    <2>2. upload' \in [Calls -> 0 .. MaxDrops + 1] /\ sent' \in [Calls -> 0 .. Size]
      BY <1>1, <1>3 DEF TypeOK
    <2>3. \A d \in Calls : step'[d] = "put" => rangeEnd'[d] + sent'[d] <= Size
      BY <1>1, <1>4 DEF TypeOK, Bytes
    <2> QED
      BY <2>1, <2>2, <2>3 DEF TypeOK
  <1>6. Numbered'
    <2>1. \A d \in Calls : upload[d] \in Nat /\ upload[d] <= server.drops + 1
      BY DEF Numbered, TypeOK
    <2>2. server'.upload # 0
      BY <1>3 DEF TypeOK
    <2>3. \A d \in Calls : upload'[d] <= server'.upload
      BY <1>3, <1>4, <2>1 DEF TypeOK
    <2>4. ASSUME NEW d \in Calls, step[d] \in {"content", "put"}, upload'[d] = 0
          PROVE  From(d) + sent'[d] = 0
      <3>1. d # c
        BY <1>3, <1>4, <2>2, <2>4
      <3> QED
        BY <1>4, <2>4, <3>1 DEF Numbered
    <2> HIDE DEF byte
    <2> QED
      BY <1>3, <2>2, <2>3, <2>4 DEF Numbered, From
  <1>7. Behind'
    <2> SUFFICES ASSUME NEW d \in Calls, step[d] \in {"content", "put"},
                        upload'[d] = server.drops + 1
                 PROVE  First(From(d) + sent'[d]) \subseteq server.bytes \cup {byte}
      BY <1>3 DEF Behind, From
    <2>1. CASE d = c
      <3>1. From(d) + sent'[d] = byte + 1
        BY <1>1, <1>4, <2>1 DEF From, TypeOK, Bytes
      <3>2. byte \in Nat
        BY <1>1 DEF Bytes
      <3> HIDE DEF byte, BodyReceived, IInv
      <3> QED
        BY <1>2, <3>1, <3>2
    <2>2. CASE d # c
      <3>1. upload[d] = server.upload
        BY <1>3, <1>4, <2>2 DEF Numbered, TypeOK
      <3> QED
        BY <1>4, <2>2, <3>1 DEF Behind
    <2> QED
      BY <2>1, <2>2
  <1>8. Wholeness'
    <2>1. server'.whole => server'.bytes = Bytes
      <3>1. CASE server.whole
        BY <1>1, <1>3, <3>1 DEF Wholeness
      <3>2. CASE byte = Size - 1
        BY <1>2, <1>3, <3>2 DEF Bytes, TypeOK
      <3> QED
        BY <1>3, <3>1, <3>2
    <2>2. ASSUME NEW d \in Calls, step[d] \in {"content", "put"}, Sent(d)'
          PROVE  server'.whole
      <3>1. CASE d = c
        <4>1. byte = Size - 1
          BY <1>1, <1>4, <2>2, <3>1 DEF Sent, From, TypeOK, Bytes
        <4> QED
          BY <1>3, <4>1, Zenon
      <3>2. CASE d # c
        <4>1. Sent(d)
          BY <1>4, <2>2, <3>2 DEF Sent, From
        <4>2. server.whole
          BY <2>2, <4>1 DEF Wholeness
        <4> QED
          BY <1>3, <4>2, Zenon
      <3> QED
        BY <3>1, <3>2
    <2> QED
      BY <1>3, <2>1, <2>2 DEF Wholeness
  <1> QED
    BY <1>5, <1>6, <1>7, <1>8

\* The uploads that calls still send to are none that will come.
LEMMA ServerDropsKeeps == ASSUME IInv, ServerDrops PROVE IInv'
  <1> USE UploadAssumption DEF IInv, ServerDrops, callVars
  <1>1. /\ server'.upload = 0 /\ server'.drops = server.drops + 1
        /\ server'.bytes = {} /\ ~server'.whole
        /\ server'.drops \in 0 .. MaxDrops
    BY DEF TypeOK
  <1>2. TypeOK'
    BY <1>1 DEF TypeOK
  <1>3. Numbered'
    <2>1. \A c \in Calls : upload[c] <= server.drops + 1
      BY DEF Numbered, TypeOK
    <2>2. \A c \in Calls : step[c] \in {"content", "put"} /\ upload[c] = 0 =>
             From(c) + sent[c] = 0
      BY DEF Numbered
    <2> QED
      BY <1>1, <2>1, <2>2 DEF Numbered, From
  <1>4. Behind'
    <2> SUFFICES ASSUME NEW c \in Calls, step[c] \in {"content", "put"}, upload[c] = 0
                 PROVE  First(From(c) + sent[c]) \subseteq {}
      BY <1>1 DEF Behind, From
    <2>1. From(c) + sent[c] = 0
      BY DEF Numbered
    <2> QED
      BY <2>1
  <1>5. Wholeness'
    BY <1>1 DEF Wholeness, Sent, From
  <1> QED
    BY <1>2, <1>3, <1>4, <1>5

LEMMA NextKeeps == ASSUME IInv, [Next]_vars PROVE IInv'
  BY CallKeeps, PostAnsweredKeeps, ContentAnsweredKeeps, CheckAnsweredKeeps, CheckNotFoundKeeps,
     PutAnsweredKeeps, InfoAnsweredKeeps, BodyReceivedKeeps, ChallengedKeeps, FailsKeeps,
     ServerDropsKeeps, RestartKeeps, StutterKeeps DEF Next, Accepted

\* Every state of an upload satisfies the inductive invariant.
\* (ft_http/upload.rs.)
THEOREM UploadInvariance == Spec => []IInv
  BY InitHolds, NextKeeps, PTL DEF Spec

\* No body runs beyond the end of the file, wherever a PUT resumes, and each
\* part keeps its type, for any number of calls and a file of any size.
\* (upload.rs: resume_upload_file.)
THEOREM UploadTypeCorrect == Spec => []TypeOK
  BY UploadInvariance, PTL DEF IInv

\* However many calls upload the file beside each other, and however often the
\* server drops it or the program restarts, success is only reported of a file
\* that is on the server in full.
\* (upload.rs: upload_file, resume_upload_check, resume_upload_get_info.)
THEOREM UploadIsComplete == Spec => []SuccessIsComplete
  <1>1. IInv => SuccessIsComplete
    BY DEF IInv, Wholeness, SuccessIsComplete
  <1> QED
    BY <1>1, UploadInvariance, PTL

-----------------------------------------------------------------------------
(* The download.                                                           *)

USE DownloadAssumption

\* The resource is at its place on disk up to a position.
RightTo(d, n) == \A i \in 1 .. n : i \in DOMAIN d /\ d[i] = Right

\* Only a call that starts at the beginning copies, and it is never behind what
\* is right; neither is what a result says of a resource of known size.
Copied ==
    \A c \in Calls :
        /\ step[c] = "asked" => copied[c] = 0
        /\ step[c] = "copying" => start[c] = 0 /\ RightTo(disk, copied[c])
        /\ result[c] = "ok" /\ total[c] => RightTo(disk, Size)

DownloadIInv == DownloadTypeOK /\ Copied /\ NothingMisplaced

LEMMA DownloadInitHolds ==
    ASSUME DownloadInit
    PROVE  DownloadIInv
  <1> USE DEF DownloadAssumption, DownloadInit, Old, Right, Misplaced
  <1>1. PICK n \in Nat : disk = [i \in 1 .. n |-> Old]
    OBVIOUS
  <1>2. disk \in Seq({Old, Right, Misplaced})
    BY <1>1
  <1>3. DownloadTypeOK
    <2>1. copied \in [Calls -> 0 .. Size] /\ start \in [Calls -> Nat]
      OBVIOUS
    <2>2. \A c \in Calls : step[c] # "copying"
      OBVIOUS
    <2> QED
      BY <1>2, <2>1, <2>2, Zenon DEF DownloadTypeOK
  <1>4. Copied
    BY DEF Copied
  <1>5. NothingMisplaced
    BY <1>1 DEF NothingMisplaced
  <1> QED
    BY <1>3, <1>4, <1>5 DEF DownloadIInv

\* A step that leaves the disk alone keeps the invariant, if it neither begins
\* to copy elsewhere nor takes for whole what is not.
LEMMA DiskLeftAlone ==
    ASSUME DownloadIInv, UNCHANGED disk, DownloadTypeOK',
           \A c \in Calls :
              /\ step'[c] = "asked" => copied'[c] = 0
              /\ step'[c] = "copying" =>
                    /\ start'[c] = 0 /\ copied'[c] = copied[c]
                    /\ step[c] \in {"asked", "copying"}
              /\ result'[c] = "ok" /\ total'[c] =>
                    (result[c] = "ok" /\ total[c]) \/ (step[c] = "copying" /\ copied[c] = Size)
    PROVE  DownloadIInv'
  <1> USE DEF DownloadIInv
  <1>1. Copied'
    BY DEF Copied, RightTo
  <1>2. NothingMisplaced'
    BY DEF NothingMisplaced
  <1> QED
    BY <1>1, <1>2

LEMMA DownloadStutterKeeps == ASSUME DownloadIInv, UNCHANGED downloadVars PROVE DownloadIInv'
  <1>1. DownloadTypeOK'
    BY DEF DownloadIInv, DownloadTypeOK, downloadVars, requestVars
  <1> QED
    BY <1>1, DiskLeftAlone DEF DownloadIInv, Copied, downloadVars, requestVars

LEMMA DownloadCallKeeps ==
    ASSUME DownloadIInv, NEW c \in Calls, Downloads(c)
    PROVE  DownloadIInv'
  <1> USE DEF DownloadAssumption, DownloadIInv, Downloads, Preload
  <1>1. Len(disk) \in Nat
    BY DEF DownloadTypeOK
  <1>2. start' \in [Calls -> Nat] /\ copied' \in [Calls -> 0 .. Size]
    BY <1>1 DEF DownloadTypeOK
  <1>3. DownloadTypeOK'
    BY <1>2 DEF DownloadTypeOK
  <1> QED
    BY <1>3, DiskLeftAlone DEF Copied, DownloadTypeOK

\* What ends a request or a copy, and is not taken for a success.
LEMMA DownloadFailsKeeps ==
    ASSUME DownloadIInv, NEW c \in Calls, UNCHANGED disk, stored' \in BOOLEAN,
           NEW what \in {"inconsistent", "error"}, DownloadReturns(c, what)
    PROVE  DownloadIInv'
  <1> USE DEF DownloadIInv, DownloadReturns
  <1>1. DownloadTypeOK'
    BY DEF DownloadTypeOK
  <1> QED
    BY <1>1, DiskLeftAlone DEF Copied, DownloadTypeOK

LEMMA DownloadChallengedKeeps ==
    ASSUME DownloadIInv, NEW c \in Calls, DownloadChallenged(c)
    PROVE  DownloadIInv'
  <1> USE DEF DownloadChallenged
  <1>1. CASE DownloadReturns(c, "error") /\ UNCHANGED stored
    BY <1>1, DownloadFailsKeeps DEF DownloadIInv, DownloadTypeOK
  <1>2. CASE /\ auth' = [auth EXCEPT ![c] = "answer"]
             /\ stored' \in {stored, TRUE}
             /\ UNCHANGED <<step, start, total, copied, result>>
    <2>1. DownloadTypeOK'
      BY <1>2 DEF DownloadIInv, DownloadTypeOK
    <2> QED
      BY <1>2, <2>1, DiskLeftAlone DEF DownloadIInv, Copied
  <1> QED
    BY <1>1, <1>2

\* A call copies only if the file it opened is where it starts.
LEMMA OpensKeeps ==
    ASSUME DownloadIInv, NEW c \in Calls, Opens(c)
    PROVE  DownloadIInv'
  <1> USE DEF Opens
  <1>1. stored' \in BOOLEAN
    BY DEF DownloadIInv, DownloadTypeOK, Keeps
  <1>2. CASE \E what \in {"inconsistent", "error"} : DownloadReturns(c, what)
    BY <1>1, <1>2, DownloadFailsKeeps
  <1>3. CASE /\ Position(start[c]) = start[c]
             /\ step' = [step EXCEPT ![c] = "copying"]
             /\ UNCHANGED <<auth, start, total, copied, result>>
    <2>1. start[c] = 0 /\ copied[c] = 0
      BY <1>3 DEF DownloadIInv, Copied, Position
    <2>2. Len(disk) \in Nat
      BY DEF DownloadIInv, DownloadTypeOK
    <2>3. DownloadTypeOK'
      BY <1>1, <1>3, <2>1, <2>2 DEF DownloadIInv, DownloadTypeOK
    <2> QED
      BY <1>3, <2>1, <2>3, DiskLeftAlone DEF DownloadIInv, Copied, DownloadTypeOK
  <1> QED
    BY <1>2, <1>3

LEMMA EndsKeeps ==
    ASSUME DownloadIInv, NEW c \in Calls, Ends(c)
    PROVE  DownloadIInv'
  <1> USE DEF Ends
  <1>1. CASE ~Verified(c)
    BY <1>1, DownloadFailsKeeps DEF DownloadIInv, DownloadTypeOK
  <1>2. CASE Verified(c)
    <2>1. total[c] => copied[c] = Size
      BY <1>2 DEF DownloadIInv, Copied, Verified, DownloadTypeOK
    <2>2. DownloadTypeOK'
      BY <1>2 DEF DownloadIInv, DownloadTypeOK, DownloadReturns
    <2> QED
      BY <1>2, <2>1, <2>2, DiskLeftAlone
         DEF DownloadIInv, Copied, DownloadTypeOK, DownloadReturns
  <1> QED
    BY <1>1, <1>2

\* The byte that is written is right, and what was right stays so.
LEMMA CopiesKeeps ==
    ASSUME DownloadIInv, NEW c \in Calls, Copies(c)
    PROVE  DownloadIInv'
  <1> USE DEF DownloadAssumption, DownloadIInv, Copies, Old, Right, Misplaced
  <1> DEFINE Bytes3 == {Old, Right, Misplaced}
  <1>1. /\ start[c] = 0 /\ RightTo(disk, copied[c])
        /\ copied[c] \in 0 .. Size /\ copied[c] <= Len(disk)
        /\ disk \in Seq(Bytes3) /\ Len(disk) \in Nat
    BY DEF Copied, DownloadTypeOK
  <1>2. disk' = IF copied[c] + 1 <= Len(disk)
                THEN [disk EXCEPT ![copied[c] + 1] = Right]
                ELSE Append(disk, Right)
    BY <1>1 DEF ReplaceAt
  <1>3. /\ disk' \in Seq(Bytes3)
        /\ DOMAIN disk \subseteq DOMAIN disk' /\ Len(disk) <= Len(disk')
        /\ copied[c] + 1 \in DOMAIN disk' /\ disk'[copied[c] + 1] = Right
        /\ copied[c] + 1 <= Len(disk')
        /\ \A i \in DOMAIN disk' : i # copied[c] + 1 => i \in DOMAIN disk /\ disk'[i] = disk[i]
    <2>1. CASE copied[c] + 1 <= Len(disk)
      BY <1>1, <1>2, <2>1
    <2>2. CASE ~(copied[c] + 1 <= Len(disk))
      BY <1>1, <1>2, <2>2, AppendProperties
    <2> QED
      BY <2>1, <2>2
  <1>4. \A i \in DOMAIN disk : disk[i] = Right => disk'[i] = Right
    BY <1>3
  <1>5. DownloadTypeOK'
    <2>1. copied' \in [Calls -> 0 .. Size]
      BY <1>1 DEF DownloadTypeOK
    <2>2. \A d \in Calls : step'[d] = "copying" => copied'[d] <= Len(disk')
      BY <1>1, <1>3 DEF DownloadTypeOK
    <2> QED
      BY <1>3, <2>1, <2>2 DEF DownloadTypeOK
  <1>6. Copied'
    <2>1. \A n : RightTo(disk, n) => RightTo(disk', n)
      BY <1>3, <1>4 DEF RightTo
    <2>2. RightTo(disk', copied[c] + 1)
      BY <1>1, <1>3, <1>4 DEF RightTo
    <2> QED
      BY <2>1, <2>2 DEF Copied, DownloadTypeOK
  <1>7. NothingMisplaced'
    BY <1>3 DEF NothingMisplaced
  <1> QED
    BY <1>5, <1>6, <1>7

LEMMA DownloadNextKeeps ==
    ASSUME DownloadIInv, [DownloadNext]_(downloadVars)
    PROVE  DownloadIInv'
  <1>1. ASSUME NEW c \in Calls, DownloadFails(c) \/ Breaks(c)
        PROVE  DownloadIInv'
    BY <1>1, DownloadFailsKeeps
       DEF DownloadFails, Breaks, DownloadIInv, DownloadTypeOK
  <1> QED
    BY <1>1, DownloadStutterKeeps, DownloadCallKeeps, DownloadChallengedKeeps, OpensKeeps,
       EndsKeeps, CopiesKeeps DEF DownloadNext

\* Every state of a download satisfies the inductive invariant.
\* (ft_http/download.rs.)
THEOREM DownloadInvariance == DownloadSpec => []DownloadIInv
  <1>1. DownloadInit => DownloadIInv
    BY DownloadInitHolds
  <1> QED
    BY <1>1, DownloadNextKeeps, PTL DEF DownloadSpec

\* However many calls download to the same path beside each other, and whatever
\* was there before, success of a download of known size leaves the whole
\* resource at the beginning of the file.
\* (download.rs: start + i == total.)
THEOREM DownloadIsWhole == DownloadSpec => []OkIsWhole
  <1>1. DownloadIInv => OkIsWhole
    BY DEF DownloadIInv, Copied, RightTo, OkIsWhole
  <1> QED
    BY <1>1, DownloadInvariance, PTL

\* No byte is written to another place than its own, also if a server answers
\* the request for a part with the whole.
\* (download.rs: the position of the file is compared with start.)
THEOREM DownloadIsInPlace == DownloadSpec => []NothingMisplaced
  BY DownloadInvariance, PTL DEF DownloadIInv

\* Each part keeps its type, and no call has copied more than the file has.
\* (download.rs.)
THEOREM DownloadTypeCorrect == DownloadSpec => []DownloadTypeOK
  BY DownloadInvariance, PTL DEF DownloadIInv
=============================================================================
