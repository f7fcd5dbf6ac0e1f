---------------------------- MODULE FileDownload ----------------------------
(***************************************************************************)
(* Downloading one file over HTTP to one path (ft_http/download.rs).  The  *)
(* host may call again after an error, from the beginning or from where    *)
(* the file on disk ends, and it may have two calls running.  The server   *)
(* may challenge or refuse a request, or answer it with the whole resource *)
(* (200), also if a part was asked for, or with the part (206); the body   *)
(* may break off or end early.                                             *)
(*                                                                         *)
(* A byte on disk is what it was before (old), a byte of the resource at   *)
(* its place (right), or one at another place (misplaced).                 *)
(***************************************************************************)
EXTENDS HttpTransfer, Naturals, Sequences, SequencesExt

CONSTANT
    OldFiles    \* the lengths a file of another content may have at the path

ASSUME DownloadAssumption ==
    /\ Size \in Nat \ {0}
    /\ OldFiles \subseteq Nat

Old == "old"
Right == "right"
Misplaced == "misplaced"

VARIABLES
    disk,       \* the file at the path; the empty sequence if there is none
    start,      \* the byte it starts with
    total,      \* it knows the size
    copied      \* how much of the body was written

requestVars == <<step, auth, start, total, copied, result>>
downloadVars == <<disk, stored, requestVars>>

DownloadTypeOK ==
    /\ disk \in Seq({Old, Right, Misplaced})
    /\ stored \in BOOLEAN
    /\ step \in [Calls -> {"idle", "asked", "copying"}]
    /\ auth \in [Calls -> {"none", "stored", "answer"}]
    /\ start \in [Calls -> Nat]
    /\ total \in [Calls -> BOOLEAN]
    /\ copied \in [Calls -> 0 .. Size]
    /\ result \in [Calls -> {"none", "ok", "inconsistent", "error"}]
    /\ \A c \in Calls : step[c] = "copying" => copied[c] <= Len(disk)

DownloadInit ==
    /\ disk \in {[i \in 1 .. n |-> Old] : n \in OldFiles \cup {0}}
    /\ stored = FALSE
    /\ step = [c \in Calls |-> "idle"]
    /\ auth = [c \in Calls |-> "none"]
    /\ start = [c \in Calls |-> 0]
    /\ total = [c \in Calls |-> FALSE]
    /\ copied = [c \in Calls |-> 0]
    /\ result = [c \in Calls |-> "none"]

-----------------------------------------------------------------------------
DownloadReturns(c, what) ==
    /\ step' = [step EXCEPT ![c] = "idle"]
    /\ result' = [result EXCEPT ![c] = what]
    /\ UNCHANGED <<auth, start, total, copied>>

\* The host starts at the beginning or after what it has.
Downloads(c) ==
    /\ step[c] = "idle"
    /\ step' = [step EXCEPT ![c] = "asked"]
    /\ auth' = [auth EXCEPT ![c] = Preload]
    /\ \E s \in {0, Len(disk)} : start' = [start EXCEPT ![c] = s]
    /\ \E t \in BOOLEAN : total' = [total EXCEPT ![c] = t]
    /\ copied' = [copied EXCEPT ![c] = 0]
    /\ result' = [result EXCEPT ![c] = "none"]
    /\ UNCHANGED <<disk, stored>>

\* 401 is answered once, and only by a request without stored credentials.
DownloadChallenged(c) ==
    /\ step[c] = "asked"
    /\ \/ /\ auth[c] = "none"
          /\ auth' = [auth EXCEPT ![c] = "answer"]
          /\ stored' \in {stored, TRUE}
          /\ UNCHANGED <<step, start, total, copied, result>>
       \/ DownloadReturns(c, "error") /\ UNCHANGED stored
    /\ UNCHANGED disk

\* Another status, 206 among them, no connection, no answer.
DownloadFails(c) ==
    /\ step[c] = "asked"
    /\ DownloadReturns(c, "error")
    /\ UNCHANGED <<disk, stored>>

\* Faulty variant: the position is that of the next write.
Position_End(s) == IF s > 0 THEN Len(disk) ELSE 0

\* Where a file is that was just opened, for writing or for appending.
Position(s) == 0

\* Faulty variant: a file that is opened for writing is emptied.
Opens_Truncates(c) ==
    /\ step[c] = "asked"
    /\ start[c] = 0
    /\ Keeps(c)
    /\ step' = [step EXCEPT ![c] = "copying"]
    /\ disk' = <<>>
    /\ UNCHANGED <<auth, start, total, copied, result>>

\* 200: the file is opened, which may fail, and has to be where the call starts.
Opens(c) ==
    /\ step[c] = "asked"
    /\ Keeps(c)
    /\ \/ /\ Position(start[c]) = start[c]
          /\ step' = [step EXCEPT ![c] = "copying"]
          /\ UNCHANGED <<auth, start, total, copied, result>>
       \/ Position(start[c]) # start[c] /\ DownloadReturns(c, "inconsistent")
       \/ DownloadReturns(c, "error")
    /\ UNCHANGED disk

\* The next byte of the body is written: behind the file if it was opened for
\* appending, over what is there otherwise.
Copies(c) ==
    /\ step[c] = "copying"
    /\ copied[c] < Size
    /\ copied' = [copied EXCEPT ![c] = @ + 1]
    /\ LET at == IF start[c] > 0 THEN Len(disk) + 1 ELSE copied[c] + 1
           mark == IF at = copied[c] + 1 THEN Right ELSE Misplaced
       IN  disk' = IF at <= Len(disk) THEN ReplaceAt(disk, at, mark) ELSE Append(disk, mark)
    /\ UNCHANGED <<stored, step, auth, start, total, result>>

\* Faulty variant: what was copied is not compared.
Verified_Any(c) == TRUE

\* A download of unknown size is taken for complete.
Verified(c) == total[c] => start[c] + copied[c] = Size

\* The body ends, perhaps early.
Ends(c) ==
    /\ step[c] = "copying"
    /\ DownloadReturns(c, IF Verified(c) THEN "ok" ELSE "error")
    /\ UNCHANGED <<disk, stored>>

\* Reading or writing fails.
Breaks(c) ==
    /\ step[c] = "copying"
    /\ DownloadReturns(c, "error")
    /\ UNCHANGED <<disk, stored>>

-----------------------------------------------------------------------------
DownloadNext ==
    \E c \in Calls :
       \/ Downloads(c)
       \/ DownloadChallenged(c)
       \/ DownloadFails(c)
       \/ Opens(c)
       \/ Copies(c)
       \/ Ends(c)
       \/ Breaks(c)

DownloadSpec == DownloadInit /\ [][DownloadNext]_downloadVars

-----------------------------------------------------------------------------
(* Properties.                                                             *)

\* A download of known size that succeeds leaves the whole resource at the
\* beginning of the file, also next to another call for the same path.
\* (download.rs: start + i == total.)
OkIsWhole ==
    \A c \in Calls : result[c] = "ok" /\ total[c] =>
        \A i \in 1 .. Size : i \in DOMAIN disk /\ disk[i] = Right

\* No byte is ever written to the wrong place, although a server may answer
\* a request for a part with the whole.
\* (download.rs: the position of the file is compared with start.)
NothingMisplaced == \A i \in DOMAIN disk : disk[i] # Misplaced
=============================================================================
