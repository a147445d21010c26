----------------------------- MODULE OtaUpdate ------------------------------
(***************************************************************************)
(* The update of the TC1 firmware over the air: an image reaches the       *)
(* passive partition either as an upload to the web server or through the  *)
(* OTA thread, which downloads it from a server and resumes where a broken *)
(* connection left it; then the partition is made the active one and the   *)
(* device restarts. Web page, MQTT and the console may each start a        *)
(* download. One word, ota_progress, keeps them apart; it has no lock.     *)
(*                                                                         *)
(* An image is Len chunks, the partition has room for just as many. What   *)
(* a chunk of the partition holds is the origin of the bytes written there:*)
(* the uploaded or the downloaded firmware, another file, or bytes that    *)
(* belong elsewhere. ota_progress is -2 (idle), 0 to 99 (busy) or 100 and  *)
(* more (done); the watchdog of the web server and the web page only tell  *)
(* these apart.                                                            *)
(***************************************************************************)
EXTENDS Integers, FiniteSets

CONSTANTS
  Http,        \* the thread of the web server
  Others,      \* the threads of the other clients: MQTT, console
  Len,         \* chunks of the image
  MaxPos,      \* bound on what a job counts as received
  MAX_RETRY,   \* OTA_SERVER_MAX_RETRY
  Replies      \* how the file server may answer a request for the rest of a file

Actors == {Http} \cup Others
Chunks == 1 .. Len

ASSUME OtaAssumption ==
  /\ Http \notin Others
  /\ Len \in Nat \ {0}
  /\ MaxPos \in Nat /\ MaxPos > Len
  /\ MAX_RETRY \in Nat \ {0}
  /\ Replies \subseteq {"partial", "whole", "error"}

VARIABLES
  progress,    \* ota_progress
  part,        \* the passive partition, MICO_PARTITION_OTA_TEMP
  pc,          \* where each client is
  file, total, \* the uploaded file and how much of it has come
  job,         \* the OTA thread and its context
  booted,      \* the partition the next start runs
  on,          \* the device runs
  shared,      \* history: an upload and a download have overlapped since the start
  doubled,     \* history: a start has created or freed a context beside another's
  unanswered   \* history: the answer after a switch could not be sent

vars == <<progress, part, pc, file, total, job, booted, on, shared, doubled, unanswered>>

File == [kind : {"web", "bad"}, n : 1 .. Len + 1]
NoFile == [kind |-> "bad", n |-> 1]

(* begin, len: download_begin_pos and download_len; first: ota_control is    *)
(* OTA_CONTROL_START; status, n: of the header last parsed; kept: it is      *)
(* still in the buffer; left: what of the body is to come; moved: something  *)
(* has come since the last connection; stall: stall_retry.                   *)
Job ==
  [at : {"none", "resolve", "connect", "reply", "body", "check", "retry", "switch", "restart",
         "delete"},
   begin : 0 .. MaxPos, len : 0 .. Len, first : BOOLEAN, status : {"none", "ok", "error"},
   n : Nat, source : Int, kept : BOOLEAN, left : Nat, moved : BOOLEAN,
   stall : 0 .. MAX_RETRY]

NoJob ==
  [at |-> "none", begin |-> 0, len |-> 0, first |-> TRUE, status |-> "none", n |-> 0,
   source |-> 0, kept |-> FALSE, left |-> 0, moved |-> FALSE, stall |-> 0]

Idle == "idle"
Busy == "busy"
Done == "done"

TypeOK ==
  /\ progress \in {Idle, Busy, Done}
  /\ part \in [Chunks -> {"erased", "web", "net", "bad"}]
  /\ pc \in [Actors -> {"idle", "admitted", "start", "create", "failed", "upload", "erase",
                        "receive", "verify", "abort", "switch", "answer"}]
  /\ file \in File /\ total \in 0 .. Len
  /\ job \in Job
  /\ booted \in {"running", "passive"}
  /\ on \in BOOLEAN
  /\ shared \in BOOLEAN /\ doubled \in BOOLEAN /\ unanswered \in BOOLEAN

Init ==
  /\ progress = Idle
  /\ part = [i \in Chunks |-> "bad"]
  /\ pc = [a \in Actors |-> "idle"]
  /\ file = NoFile /\ total = 0
  /\ job = NoJob
  /\ booted = "running"
  /\ on = TRUE
  /\ shared = FALSE /\ doubled = FALSE /\ unanswered = FALSE

-----------------------------------------------------------------------------
(* The device goes off or restarts: only the flash keeps what it holds.      *)
Stop ==
  /\ on /\ on' = FALSE
  /\ progress' = Idle
  /\ pc' = [a \in Actors |-> "idle"]
  /\ file' = NoFile /\ total' = 0
  /\ job' = NoJob
  /\ shared' = FALSE /\ doubled' = FALSE /\ unanswered' = FALSE
  /\ UNCHANGED <<part, booted>>

Goes(a, from, to) == on /\ pc[a] = from /\ pc' = [pc EXCEPT ![a] = to]
Moves(from, to) == on /\ job.at = from /\ job' = [job EXCEPT !.at = to]

Uploading == pc[Http] \in {"erase", "receive", "verify", "abort", "switch", "answer"}
Downloading == job.at # "none"

Intact == \E o \in {"web", "net"} : \A i \in Chunks : part[i] = o

(* OtaImageHeaderValid looks at the first bytes only. *)
OtaImageHeaderValid == part[1] \in {"web", "net"}

(* mico_ota_switch_to_new_fw; until the start the partition can still be     *)
(* written.                                                                  *)
SwitchToNewFirmware == booted' = "passive"

-----------------------------------------------------------------------------
(* OtaStart on the web page, "ota" by MQTT or on the console: nothing if the *)
(* word says busy, else UserOtaStart.                                        *)
Admit(a) ==
  /\ Goes(a, "idle", "admitted")
  /\ progress # Busy
  /\ UNCHANGED <<progress, part, file, total, job, booted, on, shared, doubled, unanswered>>

StartProgress(a) ==
  /\ Goes(a, "admitted", "start")
  /\ progress' = Busy
  /\ UNCHANGED <<part, file, total, job, booted, on, shared, doubled, unanswered>>

(* ota_server_start: kGeneralErr when there is a context. *)
StartTest(a) ==
  /\ Goes(a, "start", IF job.at # "none" THEN "failed" ELSE "create")
  /\ UNCHANGED <<progress, part, file, total, job, booted, on, shared, doubled, unanswered>>

StartCreate(a) ==
  /\ Goes(a, "create", "idle")
  /\ job' = [NoJob EXCEPT !.at = "resolve"]
  /\ doubled' = (doubled \/ job.at # "none")
  /\ shared' = (shared \/ Uploading)
  /\ UNCHANGED <<progress, part, file, total, booted, on, unanswered>>

(* No memory, no thread, or a URL that does not parse: the context is freed  *)
(* again, which may be that of another start.                                *)
StartCreateFails(a) ==
  /\ Goes(a, "create", "failed")
  /\ doubled' = (doubled \/ job.at # "none")
  /\ UNCHANGED <<progress, part, file, total, job, booted, on, shared, unanswered>>

(* Mutated: no callback comes for a start that failed. *)
StartFailedKeepsWord(a) ==
  /\ Goes(a, "failed", "idle")
  /\ UNCHANGED <<progress, part, file, total, job, booted, on, shared, doubled, unanswered>>

StartFailed(a) ==
  /\ Goes(a, "failed", "idle")
  /\ progress' = Idle
  /\ UNCHANGED <<part, file, total, job, booted, on, shared, doubled, unanswered>>

UserOtaStart(a) ==
  \/ Admit(a) \/ StartProgress(a) \/ StartTest(a) \/ StartCreate(a) \/ StartCreateFails(a)
  \/ StartFailed(a)

-----------------------------------------------------------------------------
(* HttpSetOTAFile. *)

UploadAdmit ==
  /\ Goes(Http, "idle", "upload")
  /\ progress # Busy
  /\ file' \in File /\ (file'.kind = "web" => file'.n = Len)
  /\ UNCHANGED <<progress, part, total, job, booted, on, shared, doubled, unanswered>>

(* With no memory for the buffer it ends at once. *)
UploadBegin ==
  /\ Goes(Http, "upload", "erase")
  /\ progress' = Busy
  /\ shared' = (shared \/ Downloading)
  /\ UNCHANGED <<part, file, total, job, booted, on, doubled, unanswered>>

UploadNoMemory ==
  /\ Goes(Http, "upload", "idle")
  /\ progress' = Idle
  /\ file' = NoFile
  /\ UNCHANGED <<part, total, job, booted, on, shared, doubled, unanswered>>

UploadErase ==
  /\ Goes(Http, "erase", "receive")
  /\ part' = [part EXCEPT ![1] = "erased"]
  /\ UNCHANGED <<progress, file, total, job, booted, on, shared, doubled, unanswered>>

(* A chunk comes; the partition is erased as far as it reaches, and it is    *)
(* written. The last one of the announced size ends the loop.                *)
UploadReceive ==
  /\ total < Len
  /\ Goes(Http, "receive", IF total + 1 = file.n THEN "verify" ELSE "receive")
  /\ total' = total + 1
  /\ part' = [part EXCEPT ![total'] = file.kind]
  /\ progress' = Busy
  /\ UNCHANGED <<file, job, booted, on, shared, doubled, unanswered>>

(* The file is too large, the flash refuses three times, or nothing comes    *)
(* twelve times.                                                             *)
UploadBreaks ==
  /\ Goes(Http, "receive", "abort") \/ Goes(Http, "erase", "abort")
  /\ UNCHANGED <<progress, part, file, total, job, booted, on, shared, doubled, unanswered>>

(* Mutated: the header is not looked at. *)
UploadVerifySizeOnly ==
  /\ Goes(Http, "verify", "switch")
  /\ UNCHANGED <<progress, part, file, total, job, booted, on, shared, doubled, unanswered>>

UploadVerify ==
  /\ Goes(Http, "verify", IF OtaImageHeaderValid THEN "switch" ELSE "abort")
  /\ UNCHANGED <<progress, part, file, total, job, booted, on, shared, doubled, unanswered>>

(* ota_failed: the partition is erased and the word set back. *)
UploadAbort ==
  /\ Goes(Http, "abort", "idle")
  /\ part' = [i \in Chunks |-> "erased"]
  /\ progress' = Idle
  /\ file' = NoFile /\ total' = 0
  /\ UNCHANGED <<job, booted, on, shared, doubled, unanswered>>

UploadSwitch ==
  /\ Goes(Http, "switch", "answer")
  /\ SwitchToNewFirmware
  /\ UNCHANGED <<progress, part, file, total, job, on, shared, doubled, unanswered>>

(* The answer is sent and the device restarts; when it cannot be sent, the   *)
(* handler just returns.                                                     *)
UploadAnswer == pc[Http] = "answer" /\ Stop

UploadAnswerFails ==
  /\ Goes(Http, "answer", "idle")
  /\ file' = NoFile /\ total' = 0
  /\ unanswered' = TRUE
  /\ UNCHANGED <<progress, part, job, booted, on, shared, doubled>>

HttpSetOTAFile ==
  \/ UploadAdmit \/ UploadBegin \/ UploadNoMemory \/ UploadErase \/ UploadReceive
  \/ UploadBreaks \/ UploadVerify \/ UploadAbort \/ UploadSwitch \/ UploadAnswer
  \/ UploadAnswerFails

-----------------------------------------------------------------------------
(* ota_server_thread. *)

(* Mutated: a download that is given up leaves the word as it is. *)
FailSilent(from) ==
  /\ Moves(from, "delete")
  /\ UNCHANGED <<progress, part, pc, file, total, booted, on, shared, doubled, unanswered>>

Fail(from) ==
  /\ Moves(from, "delete")
  /\ progress' = Idle
  /\ UNCHANGED <<part, pc, file, total, booted, on, shared, doubled, unanswered>>

Resolve ==
  /\ Moves("resolve", "connect")
  /\ part' = [i \in Chunks |-> "erased"]
  /\ UNCHANGED <<progress, pc, file, total, booted, on, shared, doubled, unanswered>>

Connect ==
  /\ Moves("connect", "reply") \/ Moves("connect", "retry")
  /\ UNCHANGED <<progress, part, pc, file, total, booted, on, shared, doubled, unanswered>>

(* A header is parsed: a body of n chunks that starts at chunk s of the      *)
(* image, or is no part of it (s = -1). The first header tells the length.   *)
Parsed(status, n, s) ==
  [job EXCEPT !.at = "body", !.first = FALSE, !.len = IF job.first THEN n ELSE @,
              !.status = status, !.n = n, !.left = n, !.source = s]

(* A request without a range is answered with the file. One with a range is  *)
(* answered with that range, with the whole file as if no range had been     *)
(* asked for, or with an error page. After a body that was read to its end   *)
(* the buffer still holds the old header, which is parsed again: the new one *)
(* is then taken for data.                                                   *)
Reply ==
  /\ on /\ job.at = "reply"
  /\ \/ /\ job.kept
        /\ job' = Parsed(job.status, job.n, -1)
     \/ /\ ~job.kept /\ (job.begin = 0 \/ "whole" \in Replies)
        /\ job' = Parsed("ok", Len, 1)
     \/ /\ ~job.kept /\ job.begin \in 1 .. Len - 1 /\ "partial" \in Replies
        /\ job' = Parsed("ok", Len - job.begin, job.begin + 1)
     \/ /\ ~job.kept /\ job.begin > 0
        /\ "error" \in Replies \/ (job.begin >= Len /\ "partial" \in Replies)
        /\ job' = Parsed("error", 2, -1)
  /\ UNCHANGED <<progress, part, pc, file, total, booted, on, shared, doubled, unanswered>>

(* Nothing comes, or the connection ends within the header; in the first     *)
(* case the length is still to be told.                                      *)
NoReply ==
  /\ on /\ job.at = "reply"
  /\ \E told \in BOOLEAN :
       job' = [job EXCEPT !.at = "check", !.first = @ /\ ~told]
  /\ UNCHANGED <<progress, part, pc, file, total, booted, on, shared, doubled, unanswered>>

Min(x, y) == IF x <= y THEN x ELSE y

(* onReceivedData: flash that is not erased is spoilt by writing; what lies  *)
(* behind the partition is not written. The length may not be known.         *)
ReceivedData ==
  /\ on /\ job.at = "body" /\ job.left > 0
  /\ LET i == job.begin + 1
         origin == IF job.source = i THEN "net" ELSE "bad"
     IN  /\ part' = [k \in Chunks |->
                       IF k # i THEN part[k]
                       ELSE IF part[k] = "erased" THEN origin ELSE "bad"]
         /\ job' = [job EXCEPT !.begin = Min(i, MaxPos), !.left = @ - 1, !.moved = TRUE,
                               !.source = IF @ > 0 THEN @ + 1 ELSE @]
         /\ progress' = IF job.len > 0 /\ i >= job.len THEN Done ELSE Busy
  /\ UNCHANGED <<pc, file, total, booted, on, shared, doubled, unanswered>>

BodyEnds ==
  /\ on /\ job.at = "body" /\ job.left = 0
  /\ job' = [job EXCEPT !.at = "check", !.kept = TRUE, !.source = 0]
  /\ UNCHANGED <<progress, part, pc, file, total, booted, on, shared, doubled, unanswered>>

BodyBreaks ==
  /\ on /\ job.at = "body" /\ job.left > 0
  /\ job' = [job EXCEPT !.at = "retry", !.kept = FALSE, !.source = 0, !.left = 0, !.n = 0]
  /\ UNCHANGED <<progress, part, pc, file, total, booted, on, shared, doubled, unanswered>>

Complete == job.len > 0 /\ job.len = job.begin

CheckIncomplete ==
  /\ ~Complete
  /\ Moves("check", "retry")
  /\ UNCHANGED <<progress, part, pc, file, total, booted, on, shared, doubled, unanswered>>

CheckFails ==
  /\ Complete
  /\ job.status # "ok" \/ ~OtaImageHeaderValid
  /\ Fail("check")

(* OTA_SUCCE, then a second in which the message is sent. *)
CheckSucceeds ==
  /\ Complete
  /\ job.status = "ok" /\ OtaImageHeaderValid
  /\ Moves("check", "switch")
  /\ progress' = Done
  /\ UNCHANGED <<part, pc, file, total, booted, on, shared, doubled, unanswered>>

Retry ==
  /\ on /\ job.at = "retry"
  /\ job.moved \/ job.stall + 1 < MAX_RETRY
  /\ job' = [job EXCEPT !.at = "connect", !.moved = FALSE,
                        !.stall = IF job.moved THEN 0 ELSE @ + 1]
  /\ UNCHANGED <<progress, part, pc, file, total, booted, on, shared, doubled, unanswered>>

GiveUp ==
  /\ ~job.moved /\ job.stall + 1 >= MAX_RETRY
  /\ Fail("retry")

Switch ==
  /\ Moves("switch", "restart")
  /\ SwitchToNewFirmware
  /\ UNCHANGED <<progress, part, pc, file, total, on, shared, doubled, unanswered>>

SoftwareReset == job.at = "restart" /\ Stop

Delete ==
  /\ on /\ job.at = "delete"
  /\ job' = NoJob
  /\ UNCHANGED <<progress, part, pc, file, total, booted, on, shared, doubled, unanswered>>

OtaServerThread ==
  \/ Resolve \/ Fail("resolve") \/ Connect \/ Reply \/ NoReply \/ ReceivedData \/ BodyEnds
  \/ BodyBreaks \/ CheckIncomplete \/ CheckFails \/ CheckSucceeds \/ Retry \/ GiveUp
  \/ Switch \/ SoftwareReset \/ Delete

-----------------------------------------------------------------------------
PowerCut == Stop

(* A firmware that was switched to starts, if it is one; what was running is *)
(* passive now.                                                              *)
PowerOn ==
  /\ ~on /\ on' = TRUE
  /\ booted = "passive" => Intact
  /\ part' = IF booted = "passive" THEN [i \in Chunks |-> "bad"] ELSE part
  /\ booted' = "running"
  /\ UNCHANGED <<progress, pc, file, total, job, shared, doubled, unanswered>>

Next ==
  \/ \E a \in Actors : UserOtaStart(a)
  \/ HttpSetOTAFile
  \/ OtaServerThread
  \/ PowerCut
  \/ PowerOn

Spec == Init /\ [][Next]_vars

-----------------------------------------------------------------------------
(* What the comment in HttpSetOTAFile and the check in ota_server_thread     *)
(* promise: a firmware is switched to only when it has been received         *)
(* completely. What the next start runs is the firmware that was running or  *)
(* one image as its sender has it, whatever broke off, was retried or was    *)
(* started meanwhile. (That two never write the partition at a time is not   *)
(* so, and after a switch whose answer cannot be sent the device goes on and *)
(* may be sent another image; see the hazards.)                              *)
OnlyWholeFirmware ==
  on /\ booted = "passive" => Intact \/ shared \/ doubled \/ unanswered

(* The word does not stay busy when nobody is busy any more: it would keep   *)
(* every later update and the watchdog of the web server out for good.       *)
Working == Uploading \/ (Downloading /\ job.at # "delete")
Starting == \E a \in Actors : pc[a] \in {"start", "create", "failed"}
EntryNotStuck == on /\ progress = Busy => Working \/ Starting \/ doubled \/ unanswered

(* The web page is told of a finished download only when there is one: the   *)
(* device checks it, or is about to restart with it.                         *)
DoneIsDone ==
  on /\ progress = Done /\ ~doubled =>
    \/ job.at \in {"check", "switch", "restart"}
    \/ job.at = "body" /\ job.left = 0
=============================================================================
