-------------------------- MODULE OtaUpdateProofs ----------------------------
(***************************************************************************)
(* The update over the air, for an image of any length, any number of      *)
(* clients and retries: the busy word is given back, it tells of a         *)
(* finished download only when there is one, and with a file server that   *)
(* honours ranges only a whole firmware is switched to.                    *)
(***************************************************************************)
EXTENDS OtaUpdate, TLAPS

(* A server that answers a request for the rest of a file with that rest.    *)
HonoursRanges == Replies \subseteq {"partial"}

(* A device that is off does nothing. *)
Off == ~on => progress = Idle /\ job = NoJob /\ \A a \in Actors : pc[a] = "idle"

(* What has been received of an upload. *)
FileCounted ==
  /\ file.kind = "web" => file.n = Len
  /\ pc[Http] \notin {"receive", "verify", "abort", "switch", "answer"} => total = 0
  /\ pc[Http] = "receive" => total < file.n
  /\ pc[Http] \in {"verify", "switch", "answer"} => total = file.n

(* Where a download stands whose length has been told: the answers have      *)
(* brought its chunks one after the other, and it is not asked for more once *)
(* it is complete. (One whose length has not been told never completes.)     *)
Resumes ==
  /\ job.len \in {0, Len}
  /\ job.at = "resolve" => job.first
  /\ job.first => job.begin = 0 /\ job.len = 0 /\ ~job.kept /\ job.at # "body"
  /\ job.len = Len =>
       /\ job.at = "body" =>
            /\ job.begin + job.left = Len /\ ~job.kept /\ job.status = "ok"
            /\ job.left > 0 => job.source = job.begin + 1
       /\ job.at \in {"connect", "reply", "retry"} => job.begin < Len /\ ~job.kept
       /\ job.at = "check" => job.begin = Len \/ (job.begin < Len /\ ~job.kept)
  /\ job.at \in {"switch", "restart"} => job.len = Len /\ job.begin = Len

(* One writer at a time, unless an upload and a download have overlapped.    *)
OneWriter == ~shared => ~(Uploading /\ Downloading)

(* What the one writer has left in the partition. *)
Written ==
  ~shared =>
    /\ job.at \notin {"none", "resolve", "delete"} /\ (job.first \/ job.len = Len) =>
         \A i \in Chunks : part[i] = IF i <= job.begin THEN "net" ELSE "erased"
    /\ pc[Http] \in {"receive", "verify", "switch", "answer"} =>
         \A i \in Chunks : i <= total => part[i] = file.kind
    /\ pc[Http] \in {"switch", "answer"} => file.kind = "web"

(* A device that has switched is about to restart. *)
Switched ==
  on /\ booted = "passive" =>
    shared \/ doubled \/ unanswered \/ pc[Http] = "answer" \/ job.at = "restart"

(* The word says done from the last chunk on. *)
DoneWhenComplete ==
  on /\ progress = Done /\ ~doubled =>
    \/ job.at \in {"switch", "restart"}
    \/ Complete /\ (job.at = "check" \/ (job.at = "body" /\ job.left = 0))

IInv ==
  /\ TypeOK /\ Off
  /\ FileCounted /\ Resumes
  /\ OneWriter /\ Written /\ Switched
  /\ DoneWhenComplete

-----------------------------------------------------------------------------
(* What a step does to the places, and to the thread's context. *)

Places == {"idle", "admitted", "start", "create", "failed", "upload", "erase", "receive",
           "verify", "abort", "switch", "answer"}
Stages == {"none", "resolve", "connect", "reply", "body", "check", "retry", "switch", "restart",
           "delete"}

(* The web server's thread is one of those that may start an update.         *)
LEMMA HttpIsActor == Http \in Actors
  BY DEF Actors

(* A client goes on, and no other does.                                      *)
LEMMA GoesOn ==
  ASSUME TypeOK, NEW a \in Actors, NEW from, NEW to \in Places, Goes(a, from, to)
  PROVE  /\ on /\ pc[a] = from /\ pc' \in [Actors -> Places] /\ pc'[a] = to
         /\ \A b \in Actors \ {a} : pc'[b] = pc[b]
  BY DEF TypeOK, Goes, Places

(* What the thread keeps when it only moves on.                              *)
KeepsJob ==
  /\ job'.begin = job.begin /\ job'.len = job.len /\ job'.first = job.first
  /\ job'.status = job.status /\ job'.n = job.n /\ job'.source = job.source
  /\ job'.kept = job.kept /\ job'.left = job.left

(* The thread moves on.                                                      *)
LEMMA MovesOn ==
  ASSUME TypeOK, NEW from, NEW to \in Stages, Moves(from, to)
  PROVE  on /\ job.at = from /\ job' \in Job /\ job'.at = to /\ KeepsJob
  BY DEF TypeOK, Moves, Job, KeepsJob, Stages

(* A context of its own starts from nothing.                                 *)
LEMMA NoJobIsJob ==
  /\ NoJob \in Job /\ [NoJob EXCEPT !.at = "resolve"] \in Job
  /\ [NoJob EXCEPT !.at = "resolve"].at = "resolve"
  /\ [NoJob EXCEPT !.at = "resolve"].first
  /\ [NoJob EXCEPT !.at = "resolve"].begin = 0
  /\ [NoJob EXCEPT !.at = "resolve"].len = 0
  /\ ~[NoJob EXCEPT !.at = "resolve"].kept
  <1>1. /\ 0 \in 0 .. MaxPos /\ 0 \in 0 .. Len /\ 0 \in 0 .. MAX_RETRY
        /\ 0 \in Nat /\ 0 \in Int
    BY OtaAssumption
  <1>2. NoJob \in Job
    BY <1>1 DEF NoJob, Job
  <1>3. \A j \in Job :
          LET new == [j EXCEPT !.at = "resolve"]
          IN /\ new \in Job /\ new.at = "resolve" /\ new.first = j.first
             /\ new.begin = j.begin /\ new.len = j.len /\ new.kept = j.kept
    BY DEF Job
  <1>4. NoJob.first = TRUE /\ NoJob.begin = 0 /\ NoJob.len = 0 /\ NoJob.kept = FALSE
    BY DEF NoJob
  <1>q. QED
    BY <1>2, <1>3, <1>4

-----------------------------------------------------------------------------
(* The clients. *)

Starts == {"idle", "admitted", "start", "create", "failed"}

(* Where the web server is, after a step of some client that starts an       *)
(* update: as before, or it was that client.                                 *)
LEMMA StartMoves ==
  ASSUME TypeOK, NEW a \in Actors, NEW from \in Starts, NEW to \in Starts, Goes(a, from, to)
  PROVE  /\ on /\ pc[a] = from /\ pc' \in [Actors -> Places]
         /\ pc'[Http] = pc[Http] \/ (pc[Http] \in Starts /\ pc'[Http] \in Starts)
         /\ \A p \in Places \ Starts : (pc'[Http] = p) <=> (pc[Http] = p)
         /\ Uploading' <=> Uploading
  <1>1. /\ on /\ pc[a] = from /\ pc' \in [Actors -> Places] /\ pc'[a] = to
        /\ \A b \in Actors \ {a} : pc'[b] = pc[b]
    BY GoesOn DEF Starts, Places
  <1>2. pc'[Http] = pc[Http] \/ (pc[Http] \in Starts /\ pc'[Http] \in Starts)
    BY <1>1, HttpIsActor
  <1>q. QED
    BY <1>1, <1>2 DEF Starts, Places, Uploading

(* A client's step that starts no thread.                                    *)
LEMMA ClientInv ==
  ASSUME IInv, NEW a \in Actors, NEW from \in Starts, NEW to \in Starts, Goes(a, from, to),
         progress' \in {progress, Busy, Idle}, doubled' \in BOOLEAN, doubled => doubled',
         UNCHANGED <<part, file, total, job, booted, on, shared, unanswered>>
  PROVE  IInv'
  <1>1. /\ on /\ pc' \in [Actors -> Places]
        /\ \A p \in Places \ Starts : (pc'[Http] = p) <=> (pc[Http] = p)
        /\ Uploading' <=> Uploading
    BY StartMoves DEF IInv
  <1>2. TypeOK'
    BY <1>1 DEF IInv, TypeOK, Places, Idle, Busy, Done
  <1>3. Off' /\ Resumes' /\ OneWriter' /\ FileCounted'
    BY <1>1 DEF IInv, Off, Resumes, OneWriter, Downloading, FileCounted, Places, Starts
  <1>4. Written' /\ Switched'
    BY <1>1 DEF IInv, Written, Switched, Places, Starts
  <1>5. DoneWhenComplete'
    BY DEF IInv, DoneWhenComplete, Complete, Done, Busy, Idle
  <1>q. QED
    BY <1>2, <1>3, <1>4, <1>5 DEF IInv

(* A thread is created; beside another's context that is doubled.            *)
LEMMA StartCreateInv ==
  ASSUME IInv, NEW a \in Actors, StartCreate(a)
  PROVE  IInv'
  <1>1. /\ Goes(a, "create", "idle")
        /\ job' = [NoJob EXCEPT !.at = "resolve"]
        /\ doubled' = (doubled \/ job.at # "none")
        /\ shared' = (shared \/ Uploading)
        /\ UNCHANGED <<progress, part, file, total, booted, on, unanswered>>
    BY DEF StartCreate
  <1>2. /\ on /\ pc' \in [Actors -> Places]
        /\ \A p \in Places \ Starts : (pc'[Http] = p) <=> (pc[Http] = p)
        /\ Uploading' <=> Uploading
    BY <1>1, StartMoves DEF IInv, Starts
  <1>3. /\ job' \in Job /\ job'.at = "resolve" /\ job'.first /\ job'.begin = 0
        /\ job'.len = 0 /\ ~job'.kept
    BY <1>1, NoJobIsJob
  <1>4. TypeOK'
    <2>1. shared' \in BOOLEAN /\ doubled' \in BOOLEAN
      BY <1>1 DEF IInv, TypeOK, Uploading
    <2>q. QED
      BY <1>1, <1>2, <1>3, <2>1 DEF IInv, TypeOK, Places
  <1>5. Off' /\ FileCounted'
    BY <1>1, <1>2 DEF IInv, Off, FileCounted, Places, Starts
  <1>6. Resumes'
    BY <1>3, OtaAssumption DEF Resumes
  <1>7. OneWriter' /\ Written'
    BY <1>1, <1>2, <1>3 DEF IInv, OneWriter, Written, Places, Starts
  <1>8. Switched'
    BY <1>1, <1>2, <1>3 DEF IInv, Switched, Places, Starts
  <1>9. DoneWhenComplete'
    BY <1>1, <1>3 DEF IInv, DoneWhenComplete
  <1>q. QED
    BY <1>4, <1>5, <1>6, <1>7, <1>8, <1>9 DEF IInv

(* A client that starts a download, or is refused.                           *)
LEMMA UserOtaStartInv ==
  ASSUME IInv, NEW a \in Actors, UserOtaStart(a)
  PROVE  IInv'
  <1>1. doubled \in BOOLEAN
    BY DEF IInv, TypeOK
  <1>2. CASE Admit(a)
    BY <1>1, <1>2, ClientInv DEF Admit, Starts
  <1>3. CASE StartProgress(a)
    BY <1>1, <1>3, ClientInv DEF StartProgress, Starts
  <1>4. CASE StartTest(a)
    <2> DEFINE to == IF job.at # "none" THEN "failed" ELSE "create"
    <2>1. to \in Starts /\ Goes(a, "start", to)
      BY <1>4 DEF StartTest, Starts
    <2> HIDE DEF to
    <2>q. QED
      BY <1>1, <1>4, <2>1, ClientInv DEF StartTest, Starts
  <1>5. CASE StartCreate(a)
    BY <1>5, StartCreateInv
  <1>6. CASE StartCreateFails(a)
    <2>1. doubled' \in BOOLEAN /\ (doubled => doubled')
      BY <1>1, <1>6 DEF StartCreateFails
    <2>q. QED
      BY <1>6, <2>1, ClientInv DEF StartCreateFails, Starts
  <1>7. CASE StartFailed(a)
    BY <1>1, <1>7, ClientInv DEF StartFailed, Starts
  <1>q. QED
    BY <1>2, <1>3, <1>4, <1>5, <1>6, <1>7 DEF UserOtaStart

-----------------------------------------------------------------------------
(* The upload. *)

(* What a step of the upload leaves: the thread's context, and the word is   *)
(* not set to done.                                                          *)
LEMMA UploadFrame ==
  ASSUME IInv, on, progress' \in {progress, Busy, Idle}, UNCHANGED <<job, on, doubled>>
  PROVE  Off' /\ Resumes' /\ DoneWhenComplete'
  BY DEF IInv, Off, Resumes, DoneWhenComplete, Complete, Done, Busy, Idle

(* A file is announced.                                                      *)
LEMMA UploadAdmitInv ==
  ASSUME IInv, UploadAdmit
  PROVE  IInv'
  <1>1. /\ Goes(Http, "idle", "upload")
        /\ file' \in File /\ (file'.kind = "web" => file'.n = Len)
        /\ UNCHANGED <<progress, part, total, job, booted, on, shared, doubled, unanswered>>
    BY DEF UploadAdmit
  <1>2. on /\ pc[Http] = "idle" /\ pc' \in [Actors -> Places] /\ pc'[Http] = "upload"
    BY <1>1, HttpIsActor, GoesOn DEF IInv, Places
  <1>3. TypeOK'
    BY <1>1, <1>2 DEF IInv, TypeOK, Places
  <1>4. FileCounted' /\ OneWriter' /\ Written' /\ Switched'
    BY <1>1, <1>2 DEF IInv, FileCounted, OneWriter, Uploading, Written, Switched
  <1>q. QED
    BY <1>1, <1>2, <1>3, <1>4, UploadFrame DEF IInv

(* The word is taken; a download that runs is noticed by the history only.   *)
LEMMA UploadBeginInv ==
  ASSUME IInv, UploadBegin
  PROVE  IInv'
  <1>1. /\ Goes(Http, "upload", "erase")
        /\ progress' = Busy
        /\ shared' = (shared \/ Downloading)
        /\ UNCHANGED <<part, file, total, job, booted, on, doubled, unanswered>>
    BY DEF UploadBegin
  <1>2. on /\ pc[Http] = "upload" /\ pc' \in [Actors -> Places] /\ pc'[Http] = "erase"
    BY <1>1, HttpIsActor, GoesOn DEF IInv, Places
  <1>3. TypeOK'
    <2>1. shared' \in BOOLEAN
      BY <1>1 DEF IInv, TypeOK, Downloading
    <2>q. QED
      BY <1>1, <1>2, <2>1 DEF IInv, TypeOK, Places
  <1>4. FileCounted' /\ OneWriter'
    BY <1>1, <1>2 DEF IInv, FileCounted, OneWriter, Downloading
  <1>5. Written' /\ Switched'
    BY <1>1, <1>2 DEF IInv, Written, Switched
  <1>q. QED
    BY <1>1, <1>2, <1>3, <1>4, <1>5, UploadFrame DEF IInv

(* No memory for the buffer.                                                 *)
LEMMA UploadNoMemoryInv ==
  ASSUME IInv, UploadNoMemory
  PROVE  IInv'
  <1>1. /\ Goes(Http, "upload", "idle")
        /\ progress' = Idle
        /\ file' = NoFile
        /\ UNCHANGED <<part, total, job, booted, on, shared, doubled, unanswered>>
    BY DEF UploadNoMemory
  <1>2. on /\ pc[Http] = "upload" /\ pc' \in [Actors -> Places] /\ pc'[Http] = "idle"
    BY <1>1, HttpIsActor, GoesOn DEF IInv, Places
  <1>3. file' \in File /\ file'.kind = "bad"
    BY <1>1, OtaAssumption DEF File, NoFile
  <1>4. TypeOK'
    BY <1>1, <1>2, <1>3 DEF IInv, TypeOK, Places
  <1>5. FileCounted' /\ OneWriter' /\ Written' /\ Switched'
    BY <1>1, <1>2, <1>3 DEF IInv, FileCounted, OneWriter, Uploading, Written, Switched
  <1>q. QED
    BY <1>1, <1>2, <1>4, <1>5, UploadFrame DEF IInv

(* The first sector is erased: it is this upload's alone.                    *)
LEMMA UploadEraseInv ==
  ASSUME IInv, UploadErase
  PROVE  IInv'
  <1>1. /\ Goes(Http, "erase", "receive")
        /\ part' = [part EXCEPT ![1] = "erased"]
        /\ UNCHANGED <<progress, file, total, job, booted, on, shared, doubled, unanswered>>
    BY DEF UploadErase
  <1>2. on /\ pc[Http] = "erase" /\ pc' \in [Actors -> Places] /\ pc'[Http] = "receive"
    BY <1>1, HttpIsActor, GoesOn DEF IInv, Places
  <1>3. TypeOK'
    BY <1>1, <1>2 DEF IInv, TypeOK, Places
  <1>4. total = 0 /\ file.n >= 1
    BY <1>2, OtaAssumption DEF IInv, FileCounted, TypeOK, File
  <1>5. FileCounted'
    BY <1>1, <1>2, <1>4, OtaAssumption DEF IInv, FileCounted, TypeOK, File
  <1>6. OneWriter' /\ (~shared => job.at = "none")
    BY <1>1, <1>2 DEF IInv, OneWriter, Uploading, Downloading
  <1>7. Written'
    BY <1>1, <1>2, <1>4, <1>6 DEF Written, Chunks
  <1>8. Switched'
    BY <1>1, <1>2 DEF IInv, Switched
  <1>q. QED
    BY <1>1, <1>2, <1>3, <1>5, <1>6, <1>7, <1>8, UploadFrame DEF IInv

(* A chunk comes behind those that are there.                                *)
LEMMA UploadReceiveInv ==
  ASSUME IInv, UploadReceive
  PROVE  IInv'
  <1> DEFINE to == IF total + 1 = file.n THEN "verify" ELSE "receive"
  <1>1. /\ total < Len /\ Goes(Http, "receive", to)
        /\ total' = total + 1
        /\ part' = [part EXCEPT ![total + 1] = file.kind]
        /\ progress' = Busy
        /\ UNCHANGED <<file, job, booted, on, shared, doubled, unanswered>>
    BY DEF UploadReceive
  <1>2. /\ on /\ pc[Http] = "receive" /\ pc' \in [Actors -> Places]
        /\ pc'[Http] = IF total + 1 = file.n THEN "verify" ELSE "receive"
    <2>1. to \in Places
      BY DEF Places
    <2>q. QED
      BY <1>1, <2>1, HttpIsActor, GoesOn DEF IInv
  <1>3. /\ total \in Nat /\ total + 1 \in Chunks /\ file \in File /\ file.n \in Nat
        /\ file.kind \in {"web", "bad"} /\ part \in [Chunks -> {"erased", "web", "net", "bad"}]
    BY <1>1, OtaAssumption DEF IInv, TypeOK, File, Chunks
  <1>4. TypeOK'
    <2>1. part' \in [Chunks -> {"erased", "web", "net", "bad"}]
      BY <1>1, <1>3
    <2>2. total' \in 0 .. Len
      BY <1>1, <1>3, OtaAssumption DEF Chunks
    <2>q. QED
      BY <1>1, <1>2, <2>1, <2>2 DEF IInv, TypeOK, Places
  <1>5. FileCounted'
    <2>1. total < file.n
      BY <1>2 DEF IInv, FileCounted
    <2>q. QED
      BY <1>1, <1>2, <1>3, <2>1 DEF IInv, FileCounted
  <1>6. OneWriter' /\ (~shared => job.at = "none")
    BY <1>1, <1>2 DEF IInv, OneWriter, Uploading, Downloading
  <1>7. Written'
    <2>1. ASSUME ~shared, NEW i \in Chunks, i <= total + 1
          PROVE  part'[i] = file.kind
      <3>1. CASE i = total + 1
        BY <1>1, <1>3, <3>1
      <3>2. CASE i # total + 1
        <4>1. i <= total
          BY <1>3, <2>1, <3>2 DEF Chunks
        <4>2. part[i] = file.kind
          BY <1>2, <2>1, <4>1 DEF IInv, Written
        <4>q. QED
          BY <1>1, <1>3, <3>2, <4>2
      <3>q. QED
        BY <3>1, <3>2
    <2>q. QED
      BY <1>1, <1>2, <1>6, <2>1 DEF Written
  <1>8. Switched'
    BY <1>1, <1>2 DEF IInv, Switched
  <1>q. QED
    BY <1>1, <1>2, <1>4, <1>5, <1>6, <1>7, <1>8, UploadFrame DEF IInv

(* The upload breaks off, or is found to be no firmware: what is switched to *)
(* has a firmware's header, and so has come from a firmware.                 *)
LEMMA UploadMovesInv ==
  ASSUME IInv, UploadBreaks \/ UploadVerify
  PROVE  IInv'
  <1>1. UNCHANGED <<progress, part, file, total, job, booted, on, shared, doubled, unanswered>>
    BY DEF UploadBreaks, UploadVerify
  <1>2. /\ on /\ pc' \in [Actors -> Places] /\ pc[Http] \in {"erase", "receive", "verify"}
        /\ pc'[Http] \in {"abort", "switch"}
        /\ pc'[Http] = "switch" => pc[Http] = "verify" /\ OtaImageHeaderValid
    <2>1. CASE UploadBreaks
      <3>1. Goes(Http, "receive", "abort") \/ Goes(Http, "erase", "abort")
        BY <2>1 DEF UploadBreaks
      <3>q. QED
        BY <3>1, HttpIsActor, GoesOn DEF IInv, Places
    <2>2. CASE UploadVerify
      <3> DEFINE to == IF OtaImageHeaderValid THEN "switch" ELSE "abort"
      <3>1. to \in Places /\ Goes(Http, "verify", to)
        BY <2>2 DEF UploadVerify, Places
      <3>2. on /\ pc[Http] = "verify" /\ pc' \in [Actors -> Places] /\ pc'[Http] = to
        BY <3>1, HttpIsActor, GoesOn DEF IInv
      <3>q. QED
        BY <3>2
    <2>q. QED
      BY <2>1, <2>2
  <1>3. TypeOK'
    BY <1>1, <1>2 DEF IInv, TypeOK, Places
  <1>4. FileCounted' /\ OneWriter'
    BY <1>1, <1>2 DEF IInv, FileCounted, OneWriter, Uploading, Downloading
  <1>5. Written'
    <2>1. ASSUME ~shared, pc'[Http] = "switch" PROVE file.kind = "web"
      <3>1. pc[Http] = "verify" /\ part[1] \in {"web", "net"}
        BY <1>2, <2>1 DEF OtaImageHeaderValid
      <3>2. total = file.n /\ file.n \in Nat /\ file.n >= 1 /\ file.kind \in {"web", "bad"}
        BY <3>1, OtaAssumption DEF IInv, FileCounted, TypeOK, File
      <3>3. 1 \in Chunks /\ 1 <= total
        BY <3>2, OtaAssumption DEF Chunks
      <3>4. part[1] = file.kind
        BY <2>1, <3>1, <3>3 DEF IInv, Written
      <3>q. QED
        BY <3>1, <3>2, <3>4
    <2>2. ~shared => job.at = "none"
      BY <1>2 DEF IInv, OneWriter, Uploading, Downloading
    <2>q. QED
      BY <1>1, <1>2, <2>1, <2>2 DEF IInv, Written
  <1>6. Switched'
    BY <1>1, <1>2 DEF IInv, Switched
  <1>q. QED
    BY <1>1, <1>2, <1>3, <1>4, <1>5, <1>6, UploadFrame DEF IInv

(* The partition is erased, and the word given back.                         *)
LEMMA UploadAbortInv ==
  ASSUME IInv, UploadAbort
  PROVE  IInv'
  <1>1. /\ Goes(Http, "abort", "idle")
        /\ part' = [i \in Chunks |-> "erased"]
        /\ progress' = Idle
        /\ file' = NoFile /\ total' = 0
        /\ UNCHANGED <<job, booted, on, shared, doubled, unanswered>>
    BY DEF UploadAbort
  <1>2. on /\ pc[Http] = "abort" /\ pc' \in [Actors -> Places] /\ pc'[Http] = "idle"
    BY <1>1, HttpIsActor, GoesOn DEF IInv, Places
  <1>3. file' \in File /\ file'.kind = "bad"
    BY <1>1, OtaAssumption DEF File, NoFile
  <1>4. TypeOK'
    BY <1>1, <1>2, <1>3, OtaAssumption DEF IInv, TypeOK, Places
  <1>5. FileCounted'
    BY <1>1, <1>2, <1>3 DEF FileCounted
  <1>6. OneWriter' /\ (~shared => job.at = "none")
    BY <1>1, <1>2 DEF IInv, OneWriter, Uploading, Downloading
  <1>7. Written' /\ Switched'
    BY <1>1, <1>2, <1>6 DEF IInv, Written, Switched
  <1>q. QED
    BY <1>1, <1>2, <1>4, <1>5, <1>6, <1>7, UploadFrame DEF IInv

(* The image is switched to; the answer cannot be sent.                      *)
LEMMA UploadSwitchInv ==
  ASSUME IInv, UploadSwitch \/ UploadAnswerFails
  PROVE  IInv'
  <1>1. CASE UploadSwitch
    <2>1. /\ Goes(Http, "switch", "answer") /\ booted' = "passive"
          /\ UNCHANGED <<progress, part, file, total, job, on, shared, doubled, unanswered>>
      BY <1>1 DEF UploadSwitch, SwitchToNewFirmware
    <2>2. on /\ pc[Http] = "switch" /\ pc' \in [Actors -> Places] /\ pc'[Http] = "answer"
      BY <2>1, HttpIsActor, GoesOn DEF IInv, Places
    <2>3. TypeOK'
      BY <2>1, <2>2 DEF IInv, TypeOK, Places
    <2>4. FileCounted' /\ OneWriter' /\ Written' /\ Switched'
      BY <2>1, <2>2 DEF IInv, FileCounted, OneWriter, Uploading, Downloading, Written, Switched
    <2>q. QED
      BY <2>1, <2>2, <2>3, <2>4, UploadFrame DEF IInv
  <1>2. CASE UploadAnswerFails
    <2>1. /\ Goes(Http, "answer", "idle")
          /\ file' = NoFile /\ total' = 0 /\ unanswered' = TRUE
          /\ UNCHANGED <<progress, part, job, booted, on, shared, doubled>>
      BY <1>2 DEF UploadAnswerFails
    <2>2. on /\ pc[Http] = "answer" /\ pc' \in [Actors -> Places] /\ pc'[Http] = "idle"
      BY <2>1, HttpIsActor, GoesOn DEF IInv, Places
    <2>3. file' \in File /\ file'.kind = "bad"
      BY <2>1, OtaAssumption DEF File, NoFile
    <2>4. TypeOK'
      BY <2>1, <2>2, <2>3, OtaAssumption DEF IInv, TypeOK, Places
    <2>5. FileCounted' /\ OneWriter' /\ Written' /\ Switched'
      BY <2>1, <2>2, <2>3 DEF IInv, FileCounted, OneWriter, Uploading, Downloading, Written,
                              Switched
    <2>q. QED
      BY <2>1, <2>2, <2>4, <2>5, UploadFrame DEF IInv
  <1>q. QED
    BY <1>1, <1>2

(* Every step of the upload but the restart at its end.                      *)
LEMMA UploadInv ==
  ASSUME IInv, HttpSetOTAFile, ~UploadAnswer
  PROVE  IInv'
  BY UploadAdmitInv, UploadBeginInv, UploadNoMemoryInv, UploadEraseInv, UploadReceiveInv,
     UploadMovesInv, UploadAbortInv, UploadSwitchInv DEF HttpSetOTAFile

-----------------------------------------------------------------------------
(* The download. *)

(* What a step of the thread leaves while the device runs on: the clients.   *)
LEMMA ThreadFrame ==
  ASSUME IInv, on, job.at # "none",
         UNCHANGED <<pc, file, total, on, shared, doubled, unanswered>>
  PROVE  /\ Off' /\ FileCounted' /\ OneWriter'
         /\ ~shared => ~Uploading
  BY DEF IInv, Off, FileCounted, OneWriter, Uploading, Downloading

(* The thread goes on with its job, without writing or switching.            *)
LEMMA MovesInv ==
  ASSUME IInv, on, job.at \notin {"none", "resolve", "delete", "restart"},
         job' \in Job, job'.at \notin {"none", "resolve", "restart"},
         job'.begin = job.begin, job'.first => job.first,
         job'.len = Len => job.len = Len \/ job.first,
         progress' \in {progress, Done}, Resumes', DoneWhenComplete',
         UNCHANGED <<part, pc, file, total, booted, on, shared, doubled, unanswered>>
  PROVE  IInv'
  <1>1. TypeOK'
    BY DEF IInv, TypeOK, Idle, Busy, Done
  <1>2. Off' /\ FileCounted' /\ OneWriter'
    BY ThreadFrame
  <1>3. Written'
    BY DEF IInv, Written
  <1>4. Switched'
    BY DEF IInv, Switched
  <1>q. QED
    BY <1>1, <1>2, <1>3, <1>4 DEF IInv

(* A download that fails gives the word back.                                *)
LEMMA FailInv ==
  ASSUME IInv, NEW from \in {"resolve", "check", "retry"}, Fail(from)
  PROVE  IInv'
  <1>1. /\ Moves(from, "delete") /\ progress' = Idle
        /\ UNCHANGED <<part, pc, file, total, booted, on, shared, doubled, unanswered>>
    BY DEF Fail
  <1>2. on /\ job.at = from /\ job' \in Job /\ job'.at = "delete" /\ KeepsJob
    BY <1>1, MovesOn DEF IInv, Stages
  <1>3. TypeOK'
    BY <1>1, <1>2 DEF IInv, TypeOK
  <1>4. Off' /\ FileCounted' /\ OneWriter'
    BY <1>1, <1>2, ThreadFrame
  <1>5. Resumes'
    BY <1>2 DEF IInv, Resumes, KeepsJob
  <1>6. Written' /\ Switched' /\ DoneWhenComplete'
    BY <1>1, <1>2 DEF IInv, Written, Switched, DoneWhenComplete, Idle, Done
  <1>q. QED
    BY <1>3, <1>4, <1>5, <1>6 DEF IInv

(* The thread starts with an empty partition.                                *)
LEMMA ResolveInv ==
  ASSUME IInv, Resolve
  PROVE  IInv'
  <1>1. /\ Moves("resolve", "connect") /\ part' = [i \in Chunks |-> "erased"]
        /\ UNCHANGED <<progress, pc, file, total, booted, on, shared, doubled, unanswered>>
    BY DEF Resolve
  <1>2. on /\ job.at = "resolve" /\ job' \in Job /\ job'.at = "connect" /\ KeepsJob
    BY <1>1, MovesOn DEF IInv, Stages
  <1>3. TypeOK'
    BY <1>1, <1>2 DEF IInv, TypeOK
  <1>4. Off' /\ FileCounted' /\ OneWriter' /\ (~shared => ~Uploading)
    BY <1>1, <1>2, ThreadFrame
  <1>5. job.first /\ job.begin = 0 /\ job.len = 0 /\ ~job.kept
    BY <1>2 DEF IInv, Resumes
  <1>6. Resumes'
    BY <1>2, <1>5, OtaAssumption DEF Resumes, KeepsJob
  <1>7. Written'
    BY <1>1, <1>2, <1>4, <1>5, OtaAssumption DEF Written, KeepsJob, Uploading, Chunks
  <1>8. Switched' /\ DoneWhenComplete'
    BY <1>1, <1>2 DEF IInv, Switched, DoneWhenComplete
  <1>q. QED
    BY <1>3, <1>4, <1>6, <1>7, <1>8 DEF IInv

(* A connection is made or not, a job is found incomplete, a retry begins:   *)
(* no more is received.                                                      *)
LEMMA WaitInv ==
  ASSUME IInv, Connect \/ CheckIncomplete \/ Retry
  PROVE  IInv'
  <1>1. UNCHANGED <<progress, part, pc, file, total, booted, on, shared, doubled, unanswered>>
    BY DEF Connect, CheckIncomplete, Retry
  <1>2. /\ on /\ job' \in Job /\ KeepsJob
        /\ job.at \in {"connect", "check", "retry"} /\ job'.at \in {"connect", "reply", "retry"}
        /\ job.at = "check" => ~Complete
    <2>1. CASE Connect
      BY <2>1, MovesOn DEF IInv, Connect, Stages
    <2>2. CASE CheckIncomplete
      BY <2>2, MovesOn DEF IInv, CheckIncomplete, Stages
    <2>3. CASE Retry
      <3>1. /\ on /\ job.at = "retry" /\ (job.moved \/ job.stall + 1 < MAX_RETRY)
            /\ job' = [job EXCEPT !.at = "connect", !.moved = FALSE,
                                  !.stall = IF job.moved THEN 0 ELSE job.stall + 1]
        BY <2>3 DEF Retry
      <3>2. (IF job.moved THEN 0 ELSE job.stall + 1) \in 0 .. MAX_RETRY
        BY <3>1, OtaAssumption DEF IInv, TypeOK, Job
      <3>q. QED
        <4> DEFINE new == IF job.moved THEN 0 ELSE job.stall + 1
        <4>1. job' = [job EXCEPT !.at = "connect", !.moved = FALSE, !.stall = new]
          BY <3>1
        <4> HIDE DEF new
        <4>2. job' \in Job /\ job'.at = "connect" /\ KeepsJob
          BY <3>2, <4>1 DEF IInv, TypeOK, Job, KeepsJob, new
        <4>3. on /\ job.at = "retry"
          BY <3>1
        <4>q. QED
          BY <4>2, <4>3
    <2>q. QED
      BY <2>1, <2>2, <2>3
  <1>3. Resumes'
    BY <1>2, OtaAssumption DEF IInv, Resumes, KeepsJob, Complete
  <1>4. DoneWhenComplete'
    BY <1>1, <1>2 DEF IInv, DoneWhenComplete
  <1>q. QED
    BY <1>1, <1>2, <1>3, <1>4, MovesInv DEF KeepsJob

(* A body that is to come.                                                   *)
LEMMA ParsedIs ==
  ASSUME TypeOK, NEW st \in {"none", "ok", "error"}, NEW n \in Nat, NEW s \in Int,
         job.first => n \in 0 .. Len, job' = Parsed(st, n, s)
  PROVE  /\ job' \in Job /\ job'.at = "body" /\ ~job'.first
         /\ job'.len = IF job.first THEN n ELSE job.len
         /\ job'.status = st /\ job'.source = s /\ job'.left = n
         /\ job'.begin = job.begin /\ job'.kept = job.kept
  BY DEF TypeOK, Job, Parsed

(* What an answer brings a download whose length is told: what is missing.   *)
LEMMA ReplyInv ==
  ASSUME HonoursRanges, IInv, Reply
  PROVE  IInv'
  <1>1. /\ on /\ job.at = "reply"
        /\ UNCHANGED <<progress, part, pc, file, total, booted, on, shared, doubled,
                       unanswered>>
    BY DEF Reply
  <1>2. job.begin \in Nat /\ job.n \in Nat /\ job.status \in {"none", "ok", "error"}
    BY OtaAssumption DEF IInv, TypeOK, Job
  <1>3. job.first => job.begin = 0 /\ job.len = 0 /\ ~job.kept
    BY DEF IInv, Resumes
  <1>4. /\ job' \in Job /\ job'.at = "body" /\ ~job'.first /\ job'.begin = job.begin
        /\ job'.len = Len => job.len = Len \/ job.first
        /\ Resumes'
    <2>1. CASE job.kept /\ job' = Parsed(job.status, job.n, -1)
      <3>1. /\ job' \in Job /\ job'.at = "body" /\ ~job'.first
            /\ job'.len = job.len /\ job'.begin = job.begin
        <4>1. ~job.first /\ -1 \in Int
          BY <1>3, <2>1
        <4>q. QED
          BY <1>2, <2>1, <4>1, ParsedIs DEF IInv
      <3>2. job.len # Len
        BY <1>1, <2>1 DEF IInv, Resumes
      <3>q. QED
        BY <3>1, <3>2 DEF IInv, Resumes
    <2>2. CASE ~job.kept /\ job.begin = 0 /\ job' = Parsed("ok", Len, 1)
      <3>1. /\ job' \in Job /\ job'.at = "body" /\ ~job'.first
            /\ job'.len = IF job.first THEN Len ELSE job.len
            /\ job'.status = "ok" /\ job'.source = 1 /\ job'.left = Len
            /\ job'.begin = job.begin /\ job'.kept = job.kept
        BY <2>2, ParsedIs, OtaAssumption DEF IInv
      <3>q. QED
        BY <2>2, <3>1, OtaAssumption DEF IInv, Resumes
    <2>3. CASE ~job.kept /\ job.begin \in 1 .. Len - 1
               /\ job' = Parsed("ok", Len - job.begin, job.begin + 1)
      <3>1. Len - job.begin \in Nat /\ job.begin + 1 \in Int /\ ~job.first
        BY <1>2, <1>3, <2>3, OtaAssumption
      <3>2. /\ job' \in Job /\ job'.at = "body" /\ ~job'.first
            /\ job'.len = job.len
            /\ job'.status = "ok" /\ job'.source = job.begin + 1
            /\ job'.left = Len - job.begin
            /\ job'.begin = job.begin /\ job'.kept = job.kept
        BY <2>3, <3>1, ParsedIs DEF IInv
      <3>3. job.begin + (Len - job.begin) = Len
        BY <1>2, OtaAssumption
      <3>q. QED
        BY <2>3, <3>2, <3>3 DEF IInv, Resumes
    <2>4. CASE ~job.kept /\ job.begin > 0 /\ job.begin >= Len /\ job' = Parsed("error", 2, -1)
      <3>1. ~job.first
        BY <1>3, <2>4
      <3>2. /\ job' \in Job /\ job'.at = "body" /\ ~job'.first
            /\ job'.len = job.len /\ job'.begin = job.begin
        BY <2>4, <3>1, ParsedIs DEF IInv
      <3>3. job.len # Len
        BY <1>1, <1>2, <2>4, OtaAssumption DEF IInv, Resumes
      <3>q. QED
        BY <3>2, <3>3 DEF IInv, Resumes
    <2>q. QED
      BY <2>1, <2>2, <2>3, <2>4 DEF Reply, HonoursRanges
  <1>5. DoneWhenComplete'
    BY <1>1 DEF IInv, DoneWhenComplete
  <1>q. QED
    BY <1>1, <1>4, <1>5, MovesInv

(* Nothing comes, or the body ends or breaks off.                            *)
LEMMA BodyInv ==
  ASSUME IInv, NoReply \/ BodyEnds \/ BodyBreaks
  PROVE  IInv'
  <1>1. UNCHANGED <<progress, part, pc, file, total, booted, on, shared, doubled, unanswered>>
    BY DEF NoReply, BodyEnds, BodyBreaks
  <1>2. job \in Job
    BY DEF IInv, TypeOK
  <1>3. CASE NoReply
    <2>1. PICK told \in BOOLEAN :
            job' = [job EXCEPT !.at = "check", !.first = job.first /\ ~told]
      BY <1>3 DEF NoReply
    <2>2. /\ on /\ job.at = "reply" /\ job' \in Job /\ job'.at = "check"
          /\ job'.first => job.first /\ job'.len = job.len
          /\ job'.len = job.len /\ job'.begin = job.begin /\ job'.kept = job.kept
      BY <1>2, <1>3, <2>1 DEF NoReply, Job
    <2>3. Resumes'
      BY <2>2 DEF IInv, Resumes
    <2>4. DoneWhenComplete'
      BY <1>1, <2>2 DEF IInv, DoneWhenComplete
    <2>q. QED
      BY <1>1, <2>2, <2>3, <2>4, MovesInv
  <1>4. CASE BodyEnds
    <2>1. /\ on /\ job.at = "body" /\ job.left = 0 /\ job' \in Job /\ job'.at = "check"
          /\ job'.first = job.first /\ job'.len = job.len /\ job'.begin = job.begin
      <3>1. /\ on /\ job.at = "body" /\ job.left = 0
            /\ job' = [job EXCEPT !.at = "check", !.kept = TRUE, !.source = 0]
        BY <1>4 DEF BodyEnds
      <3>2. /\ job' \in Job /\ job'.at = "check"
            /\ job'.first = job.first /\ job'.len = job.len /\ job'.begin = job.begin
        <4>1. 0 \in Int
          OBVIOUS
        <4>q. QED
          BY <1>2, <3>1, <4>1 DEF Job
      <3>q. QED
        BY <3>1, <3>2
    <2>2. Resumes'
      BY <1>2, <2>1 DEF IInv, Resumes, Job
    <2>3. DoneWhenComplete'
      BY <1>1, <2>1 DEF IInv, DoneWhenComplete, Complete
    <2>q. QED
      BY <1>1, <2>1, <2>2, <2>3, MovesInv
  <1>5. CASE BodyBreaks
    <2>1. /\ on /\ job.at = "body" /\ job.left > 0 /\ job' \in Job /\ job'.at = "retry"
          /\ job'.first = job.first /\ job'.len = job.len /\ job'.begin = job.begin
          /\ ~job'.kept
      <3>1. /\ on /\ job.at = "body" /\ job.left > 0
            /\ job' = [job EXCEPT !.at = "retry", !.kept = FALSE, !.source = 0, !.left = 0,
                                  !.n = 0]
        BY <1>5 DEF BodyBreaks
      <3>2. /\ job' \in Job /\ job'.at = "retry" /\ ~job'.kept
            /\ job'.first = job.first /\ job'.len = job.len /\ job'.begin = job.begin
        <4>1. 0 \in Int /\ 0 \in Nat
          OBVIOUS
        <4>q. QED
          BY <1>2, <3>1, <4>1 DEF Job
      <3>q. QED
        BY <3>1, <3>2
    <2>2. Resumes'
      BY <1>2, <2>1, OtaAssumption DEF IInv, Resumes, Job
    <2>3. DoneWhenComplete'
      BY <1>1, <1>2, <2>1 DEF IInv, DoneWhenComplete, Job
    <2>q. QED
      BY <1>1, <2>1, <2>2, <2>3, MovesInv
  <1>q. QED
    BY <1>3, <1>4, <1>5

(* A chunk is written behind those that are there.                           *)
LEMMA ReceivedDataInv ==
  ASSUME IInv, ReceivedData
  PROVE  IInv'
  <1> DEFINE next == job.begin + 1
             origin == IF job.source = next THEN "net" ELSE "bad"
  <1>1. /\ on /\ job.at = "body" /\ job.left > 0
        /\ part' = [k \in Chunks |-> IF k # next THEN part[k]
                                     ELSE IF part[k] = "erased" THEN origin ELSE "bad"]
        /\ job' = [job EXCEPT !.begin = Min(next, MaxPos), !.left = job.left - 1, !.moved = TRUE,
                              !.source = IF job.source > 0 THEN job.source + 1 ELSE job.source]
        /\ progress' = IF job.len > 0 /\ next >= job.len THEN Done ELSE Busy
        /\ UNCHANGED <<pc, file, total, booted, on, shared, doubled, unanswered>>
    BY DEF ReceivedData
  <1>2. /\ job \in Job /\ job.begin \in 0 .. MaxPos /\ job.left \in Nat /\ job.source \in Int
        /\ part \in [Chunks -> {"erased", "web", "net", "bad"}] /\ MaxPos \in Nat
    BY OtaAssumption DEF IInv, TypeOK, Job
  <1>3. next \in Nat /\ Min(next, MaxPos) \in 0 .. MaxPos /\ job.left - 1 \in Nat
    BY <1>1, <1>2 DEF Min
  <1>4. /\ job' \in Job /\ job'.at = "body" /\ job'.begin = Min(next, MaxPos)
        /\ job'.left = job.left - 1 /\ job'.len = job.len /\ job'.first = job.first
        /\ job'.status = job.status /\ job'.kept = job.kept
        /\ job'.source = IF job.source > 0 THEN job.source + 1 ELSE job.source
    <2> DEFINE behind == IF job.source > 0 THEN job.source + 1 ELSE job.source
               count  == Min(next, MaxPos)
               rest   == job.left - 1
    <2>1. behind \in Int /\ count \in 0 .. MaxPos /\ rest \in Nat
      BY <1>2, <1>3
    <2>2. job' = [job EXCEPT !.begin = count, !.left = rest, !.moved = TRUE, !.source = behind]
      BY <1>1
    <2> HIDE DEF behind, count, rest
    <2>3. /\ job' \in Job /\ job'.at = job.at /\ job'.begin = count
          /\ job'.left = rest /\ job'.len = job.len /\ job'.first = job.first
          /\ job'.status = job.status /\ job'.kept = job.kept /\ job'.source = behind
      BY <1>2, <2>1, <2>2 DEF Job
    <2>q. QED
      BY <1>1, <2>3 DEF behind, count, rest
  <1>5. part' \in [Chunks -> {"erased", "web", "net", "bad"}]
    BY <1>1, <1>2
  <1>6. TypeOK'
    BY <1>1, <1>4, <1>5 DEF IInv, TypeOK, Done, Busy
  <1>7. Off' /\ FileCounted' /\ OneWriter' /\ (~shared => ~Uploading)
    BY <1>1, ThreadFrame
  <1>8. ~job.first
    BY <1>1 DEF IInv, Resumes
  <1>9. ASSUME job.len = Len
        PROVE  /\ job.begin + job.left = Len /\ ~job.kept /\ job.status = "ok"
               /\ job.source = next /\ next \in Chunks /\ job'.begin = next
    <2>1. /\ job.begin + job.left = Len /\ ~job.kept /\ job.status = "ok"
          /\ job.source = next
      BY <1>1, <1>9 DEF IInv, Resumes
    <2>2. next <= Len /\ next >= 1
      BY <1>1, <1>2, <2>1
    <2>q. QED
      BY <1>3, <1>4, <2>1, <2>2, OtaAssumption DEF Chunks, Min
  <1>10. Resumes'
    <2>1. job.len \in {0, Len}
      BY DEF IInv, Resumes
    <2>2. ASSUME job.len = Len
          PROVE  /\ job'.begin + job'.left = Len /\ job'.source = job'.begin + 1
      BY <1>2, <1>3, <1>4, <1>9, <2>2
    <2>q. QED
      BY <1>4, <1>8, <1>9, <2>1, <2>2 DEF Resumes
  <1>11. Written'
    <2>1. ASSUME ~shared, job.len = Len, NEW i \in Chunks
          PROVE  part'[i] = IF i <= job'.begin THEN "net" ELSE "erased"
      <3>1. \A k \in Chunks : part[k] = IF k <= job.begin THEN "net" ELSE "erased"
        BY <1>1, <2>1 DEF IInv, Written
      <3>2. job'.begin = next /\ origin = "net" /\ part[next] = "erased"
        BY <1>2, <1>9, <2>1, <3>1
      <3>3. i <= next <=> (i <= job.begin \/ i = next)
        BY <1>2 DEF Chunks
      <3>q. QED
        BY <1>1, <1>2, <3>1, <3>2, <3>3
    <2>q. QED
      BY <1>1, <1>4, <1>7, <1>8, <2>1 DEF Written, Uploading
  <1>12. Switched'
    BY <1>1, <1>4 DEF IInv, Switched
  <1>13. DoneWhenComplete'
    <2>1. ASSUME progress' = Done
          PROVE  Complete' /\ job'.left = 0
      <3>1. job.len > 0 /\ next >= job.len
        BY <1>1, <2>1 DEF Done, Busy
      <3>2. job.len = Len
        BY <3>1 DEF IInv, Resumes
      <3>q. QED
        BY <1>2, <1>3, <1>4, <1>9, <3>1, <3>2, OtaAssumption DEF Complete, Chunks
    <2>q. QED
      BY <1>4, <2>1 DEF DoneWhenComplete
  <1>q. QED
    BY <1>6, <1>7, <1>10, <1>11, <1>12, <1>13 DEF IInv

(* A complete image is accepted; it is switched to.                          *)
LEMMA AcceptInv ==
  ASSUME IInv, CheckSucceeds \/ Switch \/ Delete
  PROVE  IInv'
  <1>1. CASE CheckSucceeds
    <2>1. /\ Moves("check", "switch") /\ progress' = Done /\ Complete
          /\ UNCHANGED <<part, pc, file, total, booted, on, shared, doubled, unanswered>>
      BY <1>1 DEF CheckSucceeds
    <2>2. on /\ job.at = "check" /\ job' \in Job /\ job'.at = "switch" /\ KeepsJob
      BY <2>1, MovesOn DEF IInv, Stages
    <2>3. Resumes'
      BY <2>1, <2>2 DEF IInv, Resumes, KeepsJob, Complete
    <2>4. DoneWhenComplete'
      BY <2>2 DEF DoneWhenComplete
    <2>q. QED
      BY <2>1, <2>2, <2>3, <2>4, MovesInv DEF KeepsJob
  <1>2. CASE Switch
    <2>1. /\ Moves("switch", "restart") /\ booted' = "passive"
          /\ UNCHANGED <<progress, part, pc, file, total, on, shared, doubled, unanswered>>
      BY <1>2 DEF Switch, SwitchToNewFirmware
    <2>2. on /\ job.at = "switch" /\ job' \in Job /\ job'.at = "restart" /\ KeepsJob
      BY <2>1, MovesOn DEF IInv, Stages
    <2>3. TypeOK'
      BY <2>1, <2>2 DEF IInv, TypeOK
    <2>4. Off' /\ FileCounted' /\ OneWriter'
      BY <2>1, <2>2, ThreadFrame
    <2>5. Resumes' /\ Switched' /\ DoneWhenComplete'
      BY <2>2 DEF IInv, Resumes, KeepsJob, Switched, DoneWhenComplete
    <2>6. Written'
      BY <2>1, <2>2 DEF IInv, Written, KeepsJob
    <2>q. QED
      BY <2>3, <2>4, <2>5, <2>6 DEF IInv
  <1>3. CASE Delete
    <2>1. /\ on /\ job.at = "delete" /\ job' = NoJob
          /\ UNCHANGED <<progress, part, pc, file, total, booted, on, shared, doubled,
                         unanswered>>
      BY <1>3 DEF Delete
    <2>2. job' \in Job /\ job'.at = "none"
      BY <2>1, NoJobIsJob DEF NoJob
    <2>3. TypeOK'
      BY <2>1, <2>2 DEF IInv, TypeOK
    <2>4. Off' /\ FileCounted' /\ OneWriter'
      BY <2>1, ThreadFrame
    <2>5. Resumes'
      BY <2>1, OtaAssumption DEF NoJob, Resumes
    <2>6. Written' /\ Switched' /\ DoneWhenComplete'
      BY <2>1, <2>2 DEF IInv, Written, Switched, DoneWhenComplete
    <2>q. QED
      BY <2>3, <2>4, <2>5, <2>6 DEF IInv
  <1>q. QED
    BY <1>1, <1>2, <1>3

(* Every step of the thread but the restart at its end.                      *)
LEMMA ThreadInv ==
  ASSUME HonoursRanges, IInv, OtaServerThread, ~SoftwareReset
  PROVE  IInv'
  <1>1. CASE Fail("resolve") \/ CheckFails \/ GiveUp
    BY <1>1, FailInv DEF CheckFails, GiveUp
  <1>2. CASE Resolve \/ Connect \/ Reply \/ NoReply \/ ReceivedData \/ BodyEnds \/ BodyBreaks
    BY <1>2, ResolveInv, WaitInv, ReplyInv, BodyInv, ReceivedDataInv
  <1>3. CASE CheckIncomplete \/ CheckSucceeds \/ Retry \/ Switch \/ Delete
    BY <1>3, WaitInv, AcceptInv
  <1>q. QED
    BY <1>1, <1>2, <1>3 DEF OtaServerThread

-----------------------------------------------------------------------------
(* Stops and starts. *)

(* Nothing but the flash survives a stop.                                    *)
LEMMA StopInv ==
  ASSUME IInv, Stop
  PROVE  IInv'
  <1>1. /\ on' = FALSE /\ progress' = Idle /\ pc' = [a \in Actors |-> "idle"]
        /\ file' = NoFile /\ total' = 0 /\ job' = NoJob
        /\ shared' = FALSE /\ doubled' = FALSE /\ unanswered' = FALSE
        /\ UNCHANGED <<part, booted>>
    BY DEF Stop
  <1>2. /\ job' \in Job /\ job'.at = "none" /\ job'.first /\ job'.begin = 0 /\ job'.len = 0
        /\ ~job'.kept
    BY <1>1, NoJobIsJob DEF NoJob
  <1>3. file' \in File /\ file'.kind = "bad" /\ pc'[Http] = "idle"
    BY <1>1, HttpIsActor, OtaAssumption DEF File, NoFile
  <1>4. TypeOK'
    <2>1. total' \in 0 .. Len
      BY <1>1, OtaAssumption
    <2>2. part' \in [Chunks -> {"erased", "web", "net", "bad"}]
      BY <1>1 DEF IInv, TypeOK
    <2>3. pc' \in [Actors -> {"idle"}]
      BY <1>1
    <2>4. pc' \in [Actors -> Places]
      BY <2>3 DEF Places
    <2>q. QED
      BY <1>1, <1>2, <1>3, <2>1, <2>2, <2>4 DEF IInv, TypeOK, Idle, Places
  <1>5. Off' /\ FileCounted'
    BY <1>1, <1>3 DEF Off, FileCounted
  <1>6. Resumes'
    BY <1>2, OtaAssumption DEF Resumes
  <1>7. OneWriter' /\ Written' /\ Switched' /\ DoneWhenComplete'
    BY <1>1, <1>2, <1>3 DEF OneWriter, Downloading, Written, Switched, DoneWhenComplete
  <1>q. QED
    BY <1>4, <1>5, <1>6, <1>7 DEF IInv

(* At a start nobody is at work.                                             *)
LEMMA PowerOnInv ==
  ASSUME IInv, PowerOn
  PROVE  IInv'
  <1>1. /\ on' = TRUE /\ ~on /\ booted' = "running"
        /\ part' = IF booted = "passive" THEN [i \in Chunks |-> "bad"] ELSE part
        /\ UNCHANGED <<progress, pc, file, total, job, shared, doubled, unanswered>>
    BY DEF PowerOn
  <1>2. progress = Idle /\ job.at = "none" /\ pc[Http] = "idle"
    BY <1>1, HttpIsActor DEF IInv, Off, NoJob
  <1>3. TypeOK'
    <2>1. part' \in [Chunks -> {"erased", "web", "net", "bad"}]
      BY <1>1 DEF IInv, TypeOK
    <2>q. QED
      BY <1>1, <2>1 DEF IInv, TypeOK
  <1>4. Off' /\ FileCounted' /\ Resumes' /\ OneWriter'
    BY <1>1 DEF IInv, Off, FileCounted, Resumes, OneWriter, Uploading, Downloading
  <1>5. Written' /\ Switched' /\ DoneWhenComplete'
    BY <1>1, <1>2 DEF Written, Switched, DoneWhenComplete, Idle, Done
  <1>q. QED
    BY <1>3, <1>4, <1>5 DEF IInv

(* Every step keeps the invariant.                                           *)
LEMMA StepInv ==
  ASSUME HonoursRanges, IInv, [Next]_vars
  PROVE  IInv'
  <1>1. CASE \E a \in Actors : UserOtaStart(a)
    BY <1>1, UserOtaStartInv
  <1>2. CASE Stop
    BY <1>2, StopInv
  <1>3. CASE HttpSetOTAFile
    BY <1>2, <1>3, UploadInv DEF UploadAnswer
  <1>4. CASE OtaServerThread
    BY <1>2, <1>4, ThreadInv DEF SoftwareReset
  <1>5. CASE PowerOn
    BY <1>5, PowerOnInv
  <1>6. CASE UNCHANGED vars
    BY <1>6 DEF vars, IInv, TypeOK, Off, FileCounted, Resumes, OneWriter, Uploading,
                Downloading, Written, Switched, DoneWhenComplete, Complete
  <1>q. QED
    BY <1>1, <1>2, <1>3, <1>4, <1>5, <1>6 DEF Next, PowerCut

(* At first nobody is at work.                                               *)
LEMMA InitInv == Init => IInv
  <1> SUFFICES ASSUME Init PROVE IInv
    OBVIOUS
  <1>1. /\ on = TRUE /\ progress = Idle /\ pc = [a \in Actors |-> "idle"]
        /\ file = NoFile /\ total = 0 /\ job = NoJob /\ booted = "running"
        /\ shared = FALSE /\ doubled = FALSE /\ unanswered = FALSE
        /\ part = [i \in Chunks |-> "bad"]
    BY DEF Init
  <1>2. /\ job \in Job /\ job.at = "none" /\ job.first /\ job.begin = 0 /\ job.len = 0
        /\ ~job.kept
    BY <1>1, NoJobIsJob DEF NoJob
  <1>3. file \in File /\ file.kind = "bad" /\ pc[Http] = "idle"
    BY <1>1, HttpIsActor, OtaAssumption DEF File, NoFile
  <1>4. TypeOK
    <2>1. total \in 0 .. Len
      BY <1>1, OtaAssumption
    <2>2. part \in [Chunks -> {"erased", "web", "net", "bad"}]
      BY <1>1
    <2>3. pc \in [Actors -> {"idle"}]
      BY <1>1
    <2>4. pc \in [Actors -> Places]
      BY <2>3 DEF Places
    <2>q. QED
      BY <1>1, <1>2, <1>3, <2>1, <2>2, <2>4 DEF TypeOK, Idle, Places
  <1>5. Off /\ FileCounted
    BY <1>1, <1>3 DEF Off, FileCounted
  <1>6. Resumes
    BY <1>2, OtaAssumption DEF Resumes
  <1>7. OneWriter /\ Written /\ Switched /\ DoneWhenComplete
    BY <1>1, <1>2, <1>3 DEF OneWriter, Downloading, Written, Switched, DoneWhenComplete, Idle,
                            Done
  <1>q. QED
    BY <1>4, <1>5, <1>6, <1>7 DEF IInv

-----------------------------------------------------------------------------
(* The busy word. *)

(* The places are known, and where the thread is. *)
Placed == pc \in [Actors -> Places] /\ "at" \in DOMAIN job

EntryInv == Placed /\ (~on => progress = Idle) /\ EntryNotStuck

(* Who is busy, after a step of some client: every other is where it was.    *)
LEMMA EntryGoesOn ==
  ASSUME Placed, NEW a \in Actors, NEW from, NEW to \in Places, Goes(a, from, to)
  PROVE  /\ on /\ pc[a] = from /\ pc' \in [Actors -> Places] /\ pc'[a] = to
         /\ \A b \in Actors \ {a} : pc'[b] = pc[b]
  BY DEF Placed, Goes

(* A client that starts a download gives the word back, or its thread has    *)
(* it.                                                                       *)
LEMMA EntryUserOtaStart ==
  ASSUME EntryInv, NEW a \in Actors, UserOtaStart(a)
  PROVE  EntryInv'
  <1>1. Placed /\ EntryNotStuck
    BY DEF EntryInv
  <1>2. CASE Admit(a)
    <2>1. /\ Goes(a, "idle", "admitted") /\ progress # Busy
          /\ UNCHANGED <<progress, job, on>>
      BY <1>2 DEF Admit
    <2>2. on /\ pc' \in [Actors -> Places]
      BY <1>1, <2>1, EntryGoesOn DEF Places
    <2>q. QED
      BY <1>1, <2>1, <2>2 DEF EntryInv, Placed, EntryNotStuck
  <1>3. CASE StartProgress(a)
    <2>1. Goes(a, "admitted", "start") /\ UNCHANGED <<job, on>>
      BY <1>3 DEF StartProgress
    <2>2. on /\ pc' \in [Actors -> Places] /\ pc'[a] = "start"
      BY <1>1, <2>1, EntryGoesOn DEF Places
    <2>q. QED
      BY <1>1, <2>1, <2>2 DEF EntryInv, Placed, EntryNotStuck, Starting
  <1>4. CASE StartTest(a) \/ StartCreateFails(a)
    <2>1. PICK from \in {"start", "create"}, to \in {"failed", "create"} : Goes(a, from, to)
      <3>1. CASE StartTest(a) /\ job.at # "none"
        <4>1. Goes(a, "start", "failed")
          BY <3>1 DEF StartTest
        <4>q. QED
          BY <4>1
      <3>2. CASE StartTest(a) /\ job.at = "none"
        <4>1. Goes(a, "start", "create")
          BY <3>2 DEF StartTest
        <4>q. QED
          BY <4>1
      <3>3. CASE StartCreateFails(a)
        BY <3>3 DEF StartCreateFails
      <3>q. QED
        BY <1>4, <3>1, <3>2, <3>3
    <2>2. on /\ pc' \in [Actors -> Places] /\ pc'[a] \in {"failed", "create"}
      BY <1>1, <2>1, EntryGoesOn DEF Places
    <2>3. UNCHANGED <<job, on>>
      BY <1>4 DEF StartTest, StartCreateFails
    <2>q. QED
      BY <1>1, <2>2, <2>3 DEF EntryInv, Placed, EntryNotStuck, Starting
  <1>5. CASE StartCreate(a)
    <2>1. /\ Goes(a, "create", "idle") /\ job' = [NoJob EXCEPT !.at = "resolve"] /\ on' = on
      BY <1>5 DEF StartCreate
    <2>2. on /\ pc' \in [Actors -> Places]
      BY <1>1, <2>1, EntryGoesOn DEF Places
    <2>3. "at" \in DOMAIN job' /\ job'.at = "resolve"
      BY <2>1 DEF NoJob
    <2>q. QED
      BY <2>1, <2>2, <2>3 DEF EntryInv, Placed, EntryNotStuck, Working, Downloading
  <1>6. CASE StartFailed(a)
    <2>1. Goes(a, "failed", "idle") /\ progress' = Idle /\ UNCHANGED <<job, on>>
      BY <1>6 DEF StartFailed
    <2>2. on /\ pc' \in [Actors -> Places]
      BY <1>1, <2>1, EntryGoesOn DEF Places
    <2>q. QED
      BY <1>1, <2>1, <2>2 DEF EntryInv, Placed, EntryNotStuck, Idle, Busy
  <1>q. QED
    BY <1>2, <1>3, <1>4, <1>5, <1>6 DEF UserOtaStart

(* An upload gives the word back, except after an answer that cannot be sent. *)
LEMMA EntryUpload ==
  ASSUME EntryInv, HttpSetOTAFile, ~UploadAnswer
  PROVE  EntryInv'
  <1>1. Placed /\ EntryNotStuck
    BY DEF EntryInv
  <1>2. UNCHANGED <<job, on>>
    BY DEF HttpSetOTAFile, UploadAdmit, UploadBegin, UploadNoMemory, UploadErase,
           UploadReceive, UploadBreaks, UploadVerify, UploadAbort, UploadSwitch,
           UploadAnswerFails
  <1>3. PICK from \in Places, to \in Places :
          /\ Goes(Http, from, to)
          /\ \/ progress # Busy /\ progress' = progress
             \/ progress' = Idle
             \/ to \in {"erase", "receive", "verify", "abort", "switch", "answer"}
             \/ unanswered'
    <2>1. CASE UploadAdmit
      BY <2>1 DEF UploadAdmit, Places
    <2>2. CASE UploadBegin \/ UploadNoMemory \/ UploadErase
      BY <2>2 DEF UploadBegin, UploadNoMemory, UploadErase, Places
    <2>3. CASE UploadReceive
      BY <2>3 DEF UploadReceive, Places
    <2>4. CASE UploadBreaks \/ UploadAbort \/ UploadSwitch \/ UploadAnswerFails
      BY <2>4 DEF UploadBreaks, UploadAbort, UploadSwitch, UploadAnswerFails, Places
    <2>5. CASE UploadVerify
      BY <2>5 DEF UploadVerify, Places
    <2>q. QED
      BY <2>1, <2>2, <2>3, <2>4, <2>5 DEF HttpSetOTAFile
  <1>4. on /\ pc' \in [Actors -> Places] /\ pc'[Http] = to
    BY <1>1, <1>3, HttpIsActor, EntryGoesOn
  <1>q. QED
    BY <1>1, <1>2, <1>3, <1>4
    DEF EntryInv, Placed, EntryNotStuck, Working, Uploading, Idle, Busy

(* The thread gives the word back before its context goes.                   *)
LEMMA EntryThread ==
  ASSUME EntryInv, OtaServerThread, ~SoftwareReset
  PROVE  EntryInv'
  <1>1. Placed /\ EntryNotStuck
    BY DEF EntryInv
  <1>2. on /\ UNCHANGED <<pc, on, doubled, unanswered>>
    BY DEF OtaServerThread, Fail, Moves, Resolve, Connect, Reply, NoReply, ReceivedData,
           BodyEnds, BodyBreaks, CheckIncomplete, CheckFails, CheckSucceeds, Retry, GiveUp,
           Switch, Delete
  <1>3. CASE \E from \in {"resolve", "check", "retry"} : Fail(from)
    <2>1. \E from : Moves(from, "delete") /\ progress' = Idle
      BY <1>3 DEF Fail
    <2>2. "at" \in DOMAIN job'
      BY <1>1, <2>1 DEF Placed, Moves
    <2>q. QED
      BY <1>1, <1>2, <2>1, <2>2 DEF EntryInv, Placed, EntryNotStuck, Idle, Busy
  <1>4. CASE Delete
    <2>1. job.at = "delete" /\ job' = NoJob /\ progress' = progress
      BY <1>4 DEF Delete
    <2>2. "at" \in DOMAIN job'
      BY <2>1 DEF NoJob
    <2>q. QED
      BY <1>1, <1>2, <2>1, <2>2
      DEF EntryInv, Placed, EntryNotStuck, Working, Starting, Uploading
  <1>5. ASSUME "at" \in DOMAIN job', job'.at \notin {"none", "delete"}
        PROVE  EntryInv'
    BY <1>1, <1>2, <1>5 DEF EntryInv, Placed, EntryNotStuck, Working, Downloading
  <1>6. CASE \E from, to : to \notin {"none", "delete"} /\ Moves(from, to)
    BY <1>1, <1>5, <1>6 DEF Moves, Placed
  <1>7. CASE Reply
    BY <1>1, <1>5, <1>7 DEF Reply, Parsed, Placed
  <1>8. CASE NoReply \/ BodyEnds \/ BodyBreaks \/ Retry
    BY <1>1, <1>5, <1>8 DEF NoReply, BodyEnds, BodyBreaks, Retry, Placed
  <1>9. CASE ReceivedData
    BY <1>1, <1>5, <1>9 DEF ReceivedData, Placed
  <1>10. CASE Resolve \/ Connect \/ CheckIncomplete \/ CheckSucceeds \/ Switch
    BY <1>6, <1>10 DEF Resolve, Connect, CheckIncomplete, CheckSucceeds, Switch
  <1>11. CASE Fail("resolve") \/ CheckFails \/ GiveUp
    BY <1>3, <1>11 DEF CheckFails, GiveUp
  <1>q. QED
    BY <1>4, <1>7, <1>8, <1>9, <1>10, <1>11 DEF OtaServerThread

(* After a stop nobody is busy.                                              *)
LEMMA EntryStop ==
  ASSUME Stop
  PROVE  EntryInv'
  <1>1. on' = FALSE /\ progress' = Idle /\ pc' = [a \in Actors |-> "idle"] /\ job' = NoJob
    BY DEF Stop
  <1>2. pc' \in [Actors -> Places] /\ "at" \in DOMAIN job'
    BY <1>1 DEF Places, NoJob
  <1>q. QED
    BY <1>1, <1>2 DEF EntryInv, Placed, EntryNotStuck

(* Every step keeps the word with somebody.                                  *)
LEMMA EntryStep ==
  ASSUME EntryInv, [Next]_vars
  PROVE  EntryInv'
  <1>1. CASE \E a \in Actors : UserOtaStart(a)
    BY <1>1, EntryUserOtaStart
  <1>2. CASE Stop
    BY <1>2, EntryStop
  <1>3. CASE HttpSetOTAFile
    BY <1>2, <1>3, EntryUpload DEF UploadAnswer
  <1>4. CASE OtaServerThread
    BY <1>2, <1>4, EntryThread DEF SoftwareReset
  <1>5. CASE PowerOn
    BY <1>5 DEF PowerOn, EntryInv, Placed, EntryNotStuck, Idle, Busy
  <1>6. CASE UNCHANGED vars
    BY <1>6 DEF vars, EntryInv, Placed, EntryNotStuck, Working, Starting, Uploading,
                Downloading
  <1>q. QED
    BY <1>1, <1>2, <1>3, <1>4, <1>5, <1>6 DEF Next, PowerCut

(* Nobody keeps the busy word who is not busy, whatever the server answers.  *)
THEOREM WordIsGivenBack == Spec => []EntryNotStuck
  <1>1. Init => EntryInv
    <2> SUFFICES ASSUME Init PROVE EntryInv
      OBVIOUS
    <2>1. on = TRUE /\ progress = Idle /\ pc = [a \in Actors |-> "idle"] /\ job = NoJob
      BY DEF Init
    <2>2. pc \in [Actors -> Places] /\ "at" \in DOMAIN job
      BY <2>1 DEF Places, NoJob
    <2>q. QED
      BY <2>1, <2>2 DEF EntryInv, Placed, EntryNotStuck, Idle, Busy
  <1>2. EntryInv /\ [Next]_vars => EntryInv'
    BY EntryStep
  <1>3. EntryInv => EntryNotStuck
    BY DEF EntryInv
  <1>q. QED
    BY <1>1, <1>2, <1>3, PTL DEF Spec

-----------------------------------------------------------------------------
(* The invariant holds always, with a server that honours ranges.            *)
LEMMA Invariance ==
  ASSUME HonoursRanges
  PROVE  Spec => []IInv
  <1>1. IInv /\ [Next]_vars => IInv'
    BY StepInv
  <1>q. QED
    BY InitInv, <1>1, PTL DEF Spec

(* What the next start runs is a whole image of one sender, whatever broke   *)
(* off, was retried, or was started meanwhile, for a file server that        *)
(* answers a request for the rest of a file with that rest. With one that    *)
(* does not it is not so.                                                    *)
THEOREM WholeFirmwareOnly ==
  ASSUME HonoursRanges
  PROVE  Spec => []OnlyWholeFirmware
  <1>1. ASSUME IInv PROVE OnlyWholeFirmware
    <2> SUFFICES ASSUME on, booted = "passive", ~shared, ~doubled, ~unanswered
                 PROVE  Intact
      BY DEF OnlyWholeFirmware
    <2>1. CASE pc[Http] = "answer"
      <3>1. file.kind = "web" /\ total = Len
        BY <1>1, <2>1 DEF IInv, Written, FileCounted
      <3>2. \A i \in Chunks : part[i] = "web"
        BY <1>1, <2>1, <3>1 DEF IInv, Written, Chunks
      <3>q. QED
        BY <3>2 DEF Intact
    <2>2. CASE job.at = "restart"
      <3>1. job.len = Len /\ job.begin = Len
        BY <1>1, <2>2 DEF IInv, Resumes
      <3>2. \A i \in Chunks : part[i] = "net"
        BY <1>1, <2>2, <3>1 DEF IInv, Written, Chunks
      <3>q. QED
        BY <3>2 DEF Intact
    <2>q. QED
      BY <1>1, <2>1, <2>2 DEF IInv, Switched
  <1>q. QED
    BY <1>1, Invariance, PTL

(* The web page is told of a finished download only when there is one.       *)
THEOREM DoneMeansDone ==
  ASSUME HonoursRanges
  PROVE  Spec => []DoneIsDone
  <1>1. IInv => DoneIsDone
    BY DEF IInv, DoneWhenComplete, DoneIsDone
  <1>q. QED
    BY <1>1, Invariance, PTL
=============================================================================
