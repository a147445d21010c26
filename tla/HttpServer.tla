----------------------------- MODULE HttpServer ------------------------------
(***************************************************************************)
(* The life of the web server's thread in the TC1 firmware: httpd_start    *)
(* and httpd_stop, the thread's loop as far as it may end or get stuck,    *)
(* the watchdog that probes it and restarts it, and the button's function  *)
(* that restarts it too. A firmware upload is a request the thread is busy *)
(* with; while ota_progress says so the watchdog keeps off, also after an   *)
(* upload that succeeded, until the device has rebooted.                   *)
(*                                                                         *)
(* Which client is served is left out: a request is served or it is not.   *)
(* When both restart the server at a time they delete a thread twice, or   *)
(* each other's: what follows is undefined and the model stops (overlap).  *)
(*                                                                         *)
(* The names of the specification begin with Httpd, so that it can stand   *)
(* beside that of WifiLink in one module.                                  *)
(***************************************************************************)
EXTENDS Integers

CONSTANTS
  MaxFaults,       \* bound: stuck requests; sockets, selects, thread creations that fail
  MaxKeys          \* bound: restarts asked for with the button, and downloads

ASSUME HttpAssumption == MaxFaults \in Nat /\ MaxKeys \in Nat

Restarters == {"watchdog", "key"}

VARIABLES
  is_http_init,    \* httpd_init has been called
  httpd_state,     \* INACTIVE, INIT_DONE, RUNNING, SUSPENDED
  httpd_stop_req,
  listening,       \* http_sockfd is open
  thread,          \* where the thread of httpd_main_thread is
  ota,             \* ota_progress is in 0 .. 99
  download,        \* ... because of a download
  rebooting,       \* a reboot has been asked for: it comes half a second later
  pc,              \* where each restarter is
  fail,            \* the watchdog's count of failed probes
  faults, keys,    \* faults, and button presses and downloads, so far
  abandoned,       \* history: a thread was deleted in the middle of an upload
  unanswered,      \* history: an upload succeeded, and its answer could not be sent
  missed,          \* history: the thread ended by a fault while asked to stop
  overlap          \* history: two restarts at a time

httpd_vars == <<is_http_init, httpd_state, httpd_stop_req, listening, thread, ota, download,
                rebooting, pc, fail, faults, keys, abandoned, unanswered, missed, overlap>>
server == <<is_http_init, httpd_state, httpd_stop_req, listening, thread>>
bounds == <<faults, keys>>
httpd_histories == <<abandoned, unanswered, missed, overlap>>
updates == <<ota, download, rebooting>>

HttpdTypeOK ==
  /\ is_http_init \in BOOLEAN
  /\ httpd_state \in {"INACTIVE", "INIT_DONE", "RUNNING", "SUSPENDED"}
  /\ httpd_stop_req \in BOOLEAN /\ listening \in BOOLEAN
  /\ thread \in {"none", "setup", "select", "serve", "stuck", "upload", "refuse",
                "answer", "suspended"}
  /\ ota \in BOOLEAN /\ download \in BOOLEAN /\ rebooting \in BOOLEAN
  /\ pc \in [Restarters -> {"idle", "probe", "stop", "connect", "wait", "delete", "close",
                            "start", "create", "created"}]
  /\ fail \in 0 .. 1
  /\ faults \in 0 .. MaxFaults /\ keys \in 0 .. MaxKeys
  /\ abandoned \in BOOLEAN /\ unanswered \in BOOLEAN
  /\ missed \in BOOLEAN /\ overlap \in BOOLEAN

(* The boot is about to start the server, in the watchdog's place. *)
HttpdInit ==
  /\ is_http_init = FALSE /\ httpd_state = "INACTIVE" /\ httpd_stop_req = FALSE
  /\ listening = FALSE /\ thread = "none"
  /\ ota = FALSE /\ download = FALSE /\ rebooting = FALSE
  /\ pc = [r \in Restarters |-> IF r = "watchdog" THEN "start" ELSE "idle"]
  /\ fail = 0 /\ faults = 0 /\ keys = 0
  /\ abandoned = FALSE /\ unanswered = FALSE /\ missed = FALSE /\ overlap = FALSE

Fault == faults < MaxFaults /\ faults' = faults + 1

Restarting(r) == pc[r] \notin {"idle", "probe"}
Goes(r, from, to) ==
  /\ ~overlap
  /\ pc[r] = from /\ pc' = [pc EXCEPT ![r] = to]
  /\ overlap' = (\A q \in Restarters : IF q = r THEN to \notin {"idle", "probe"} ELSE Restarting(q))

-----------------------------------------------------------------------------
(* The thread: httpd_main. *)

Runs == ~overlap /\ UNCHANGED <<is_http_init, download, pc, fail, keys, overlap>>

(* httpd_suspend_thread. *)
Suspend ==
  /\ listening' = FALSE
  /\ httpd_state' = "SUSPENDED"
  /\ thread' = "suspended"

Setup ==
  /\ Runs /\ thread = "setup"
  /\ listening' = TRUE
  /\ thread' = "select"
  /\ UNCHANGED <<httpd_state, httpd_stop_req, ota, faults, rebooting, abandoned,
                 unanswered, missed>>

SetupFails ==
  /\ Runs /\ thread = "setup" /\ Fault
  /\ Suspend
  /\ missed' = (missed \/ httpd_stop_req)
  /\ UNCHANGED <<httpd_stop_req, ota, rebooting, abandoned, unanswered>>

(* httpd_select, once a second at least: the request to stop comes first. *)
ObeyStop ==
  /\ Runs /\ thread = "select" /\ httpd_stop_req
  /\ httpd_stop_req' = FALSE
  /\ Suspend
  /\ UNCHANGED <<ota, faults, rebooting, abandoned,
                 unanswered, missed>>

TakeRequest ==
  /\ Runs /\ thread = "select" /\ ~httpd_stop_req
  /\ thread' = "serve"
  /\ UNCHANGED <<httpd_state, httpd_stop_req, listening, ota, faults, rebooting, abandoned,
                 unanswered, missed>>

(* A failed select suspends the thread before it looks at the request.       *)
SelectFails ==
  /\ Runs /\ thread = "select" /\ Fault
  /\ Suspend
  /\ missed' = (missed \/ httpd_stop_req)
  /\ UNCHANGED <<httpd_stop_req, ota, rebooting, abandoned, unanswered>>

Served ==
  /\ Runs /\ thread \in {"serve", "refuse"}
  /\ thread' = "select"
  /\ UNCHANGED <<httpd_state, httpd_stop_req, listening, ota, faults, rebooting, abandoned,
                 unanswered, missed>>

(* A send to a peer that has stopped reading. *)
GetStuck ==
  /\ Runs /\ thread \in {"serve", "refuse"} /\ Fault
  /\ thread' = "stuck"
  /\ UNCHANGED <<httpd_state, httpd_stop_req, listening, ota, rebooting, abandoned,
                 unanswered, missed>>

BeginUpload ==
  /\ Runs /\ thread = "serve" /\ ~ota
  /\ thread' = "upload" /\ ota' = TRUE
  /\ UNCHANGED <<httpd_state, httpd_stop_req, listening, faults, rebooting, abandoned,
                 unanswered, missed>>

(* Mutated: a broken upload leaves the word busy. *)
EndUploadBusy ==
  /\ Runs /\ thread = "upload"
  /\ thread' = "refuse"
  /\ UNCHANGED <<httpd_state, httpd_stop_req, listening, ota, faults, rebooting, abandoned,
                 unanswered, missed>>

(* An upload ends with an error, which is still to be answered. *)
EndUpload ==
  /\ Runs /\ thread = "upload"
  /\ thread' = "refuse" /\ ota' = FALSE
  /\ UNCHANGED <<httpd_state, httpd_stop_req, listening, faults, rebooting, abandoned,
                 unanswered, missed>>

(* ... or with the switch to the new firmware. *)
SwitchFirmware ==
  /\ Runs /\ thread = "upload"
  /\ thread' = "answer"
  /\ UNCHANGED <<httpd_state, httpd_stop_req, listening, ota, faults, rebooting, abandoned,
                 unanswered, missed>>

(* The client is told, and the reboot is asked for. *)
AnswerUpload ==
  /\ Runs /\ thread = "answer"
  /\ thread' = "select" /\ rebooting' = TRUE
  /\ UNCHANGED <<httpd_state, httpd_stop_req, listening, ota, faults, abandoned, unanswered,
                 missed>>

(* The client has gone: send_http jumps over the reboot, or never returns.   *)
(* Nothing takes the busy word back.                                         *)
FailToAnswer ==
  /\ Runs /\ thread = "answer" /\ Fault
  /\ thread' \in {"select", "stuck"}
  /\ unanswered' = TRUE
  /\ UNCHANGED <<httpd_state, httpd_stop_req, listening, ota, rebooting, abandoned, missed>>

-----------------------------------------------------------------------------
(* httpd_stop and httpd_start, called by r. *)

(* httpd_thread_cleanup, by the state. *)
Stop(r) ==
  /\ IF httpd_state = "RUNNING"
     THEN httpd_stop_req' = TRUE /\ Goes(r, "stop", "connect")
     ELSE /\ UNCHANGED httpd_stop_req
          /\ Goes(r, "stop", IF httpd_state = "SUSPENDED" THEN "delete" ELSE "start")
  /\ UNCHANGED <<is_http_init, httpd_state, listening, thread, updates, fail, bounds,
                 abandoned, unanswered, missed>>

(* tcp_local_connect wakes the thread. *)
Connect(r) ==
  /\ listening /\ Goes(r, "connect", "wait")
  /\ UNCHANGED <<server, updates, fail, bounds, abandoned, unanswered, missed>>

(* Mutated: the request is left behind. *)
ConnectFailsForgetful(r) ==
  /\ Goes(r, "connect", "delete")
  /\ IF listening THEN Fault ELSE UNCHANGED faults
  /\ UNCHANGED <<server, updates, fail, keys, abandoned, unanswered, missed>>

(* Nobody listens, or no socket is left: the request is withdrawn. *)
ConnectFails(r) ==
  /\ Goes(r, "connect", "delete")
  /\ IF listening THEN Fault ELSE UNCHANGED faults
  /\ httpd_stop_req' = FALSE
  /\ UNCHANGED <<is_http_init, httpd_state, listening, thread, updates, fail, keys,
                 abandoned, unanswered, missed>>

SeeSuspended(r) ==
  /\ httpd_state = "SUSPENDED" /\ Goes(r, "wait", "delete")
  /\ UNCHANGED <<server, updates, fail, bounds, abandoned, unanswered, missed>>

(* Mutated: a thread that does not stop is left alone. *)
GiveUpWaitingAndLeave(r) ==
  /\ httpd_state # "SUSPENDED" /\ thread # "select" /\ Goes(r, "wait", "start")
  /\ httpd_stop_req' = FALSE
  /\ UNCHANGED <<is_http_init, httpd_state, listening, thread, updates, fail, bounds,
                 abandoned, unanswered, missed>>

(* After 20 s, in which a thread at its select would have obeyed. *)
GiveUpWaiting(r) ==
  /\ httpd_state # "SUSPENDED" /\ thread # "select" /\ Goes(r, "wait", "delete")
  /\ httpd_stop_req' = FALSE
  /\ UNCHANGED <<is_http_init, httpd_state, listening, thread, updates, fail, bounds,
                 abandoned, unanswered, missed>>

(* mico_rtos_delete_thread, wherever the thread is. *)
Delete(r) ==
  /\ Goes(r, "delete", "close")
  /\ thread' = "none"
  /\ abandoned' = (abandoned \/ thread \in {"upload", "answer"})
  /\ UNCHANGED <<is_http_init, httpd_state, httpd_stop_req, listening, updates, fail,
                 bounds, unanswered, missed>>

CloseSockets(r) ==
  /\ Goes(r, "close", "start")
  /\ listening' = FALSE
  /\ httpd_state' = "INIT_DONE"
  /\ UNCHANGED <<is_http_init, httpd_stop_req, thread, updates, fail, bounds, abandoned,
                 unanswered, missed>>

(* _AppHttpdStart a second later: httpd_init, the first time only. *)
Start(r) ==
  /\ Goes(r, "start", "create")
  /\ is_http_init' = TRUE
  /\ httpd_state' = IF is_http_init THEN httpd_state ELSE "INIT_DONE"
  /\ UNCHANGED <<httpd_stop_req, listening, thread, updates, fail, bounds, abandoned,
                 unanswered, missed>>

(* httpd_start. Any state but INIT_DONE counts as already started. *)
AlreadyStarted(r) ==
  /\ httpd_state # "INIT_DONE" /\ Goes(r, "create", "idle")
  /\ UNCHANGED <<server, updates, fail, bounds, abandoned, unanswered, missed>>

CreateThread(r) ==
  /\ httpd_state = "INIT_DONE" /\ Goes(r, "create", "created")
  /\ thread' = "setup"
  /\ UNCHANGED <<is_http_init, httpd_state, httpd_stop_req, listening, updates, fail,
                 bounds, abandoned, unanswered, missed>>

(* httpd_shutdown: there is nothing to clean up, and the state is INACTIVE. *)
CreateFails(r) ==
  /\ Fault
  /\ httpd_state = "INIT_DONE" /\ Goes(r, "create", "idle")
  /\ httpd_state' = "INACTIVE"
  /\ UNCHANGED <<is_http_init, httpd_stop_req, listening, thread, updates, fail, keys,
                 abandoned, unanswered, missed>>

(* The state is written when the thread may already run, or be suspended. *)
WriteRunning(r) ==
  /\ Goes(r, "created", "idle")
  /\ httpd_state' = "RUNNING"
  /\ UNCHANGED <<is_http_init, httpd_stop_req, listening, thread, updates, fail, bounds,
                 abandoned, unanswered, missed>>

Restart(r) ==
  \/ Stop(r) \/ Connect(r) \/ ConnectFails(r) \/ SeeSuspended(r) \/ GiveUpWaiting(r)
  \/ Delete(r) \/ CloseSockets(r) \/ Start(r) \/ AlreadyStarted(r) \/ CreateThread(r)
  \/ CreateFails(r) \/ WriteRunning(r)

-----------------------------------------------------------------------------
(* Who restarts. *)

(* HttpdWatchdogThread, every 30 s. *)
KeepOff ==
  /\ ~overlap /\ pc["watchdog"] = "idle" /\ ota
  /\ fail' = 0
  /\ UNCHANGED <<server, updates, pc, bounds, httpd_histories>>

BeginProbe ==
  /\ ~ota /\ Goes("watchdog", "idle", "probe")
  /\ UNCHANGED <<server, updates, fail, bounds, abandoned, unanswered, missed>>

ProbeAnswered ==
  /\ thread \in {"select", "serve", "refuse"} /\ Goes("watchdog", "probe", "idle")
  /\ fail' = 0
  /\ UNCHANGED <<server, updates, bounds, abandoned, unanswered, missed>>

(* No answer for 8 s: the second time in a row, the server is restarted. *)
ProbeFails ==
  /\ thread # "select"
  /\ IF fail = 1 THEN fail' = 0 /\ Goes("watchdog", "probe", "stop")
     ELSE fail' = fail + 1 /\ Goes("watchdog", "probe", "idle")
  /\ UNCHANGED <<server, updates, bounds, abandoned, unanswered, missed>>

(* REBOOT_HTTP. *)
PressRestart ==
  /\ keys < MaxKeys /\ keys' = keys + 1
  /\ Goes("key", "idle", "stop")
  /\ UNCHANGED <<server, updates, fail, faults, abandoned, unanswered, missed>>

(* A download, in the thread of its own that module OtaUpdate is about. *)
BeginDownload ==
  /\ ~overlap /\ ~ota
  /\ keys < MaxKeys /\ keys' = keys + 1
  /\ ota' = TRUE /\ download' = TRUE
  /\ UNCHANGED <<server, rebooting, pc, fail, faults, httpd_histories>>

(* It has failed, or the device is to reboot into what it has brought. *)
EndDownload ==
  /\ ~overlap /\ download
  /\ ota' = FALSE /\ download' = FALSE
  /\ rebooting' \in {rebooting, TRUE}
  /\ UNCHANGED <<server, pc, fail, bounds, httpd_histories>>

(* MicoSystemReboot, half a second after it has been asked for, wherever the *)
(* threads are: all of this is memory.                                       *)
Reboot ==
  /\ ~overlap /\ rebooting
  /\ is_http_init' = FALSE /\ httpd_state' = "INACTIVE" /\ httpd_stop_req' = FALSE
  /\ listening' = FALSE /\ thread' = "none"
  /\ ota' = FALSE /\ download' = FALSE /\ rebooting' = FALSE
  /\ pc' = [r \in Restarters |-> IF r = "watchdog" THEN "start" ELSE "idle"]
  /\ fail' = 0 /\ UNCHANGED bounds
  /\ abandoned' = FALSE /\ unanswered' = FALSE /\ missed' = FALSE /\ overlap' = FALSE

Thread ==
  \/ Setup \/ SetupFails \/ ObeyStop \/ TakeRequest \/ SelectFails \/ Served \/ GetStuck
  \/ BeginUpload \/ EndUpload \/ SwitchFirmware \/ AnswerUpload \/ FailToAnswer

Watchdog == KeepOff \/ BeginProbe \/ ProbeAnswered \/ ProbeFails

HttpdNext ==
  \/ Thread
  \/ \E r \in Restarters : Restart(r)
  \/ Watchdog
  \/ PressRestart
  \/ BeginDownload \/ EndDownload
  \/ Reboot

(* The threads get to run, a request that is not stuck is answered, an      *)
(* upload comes to an end and is answered or not, and a reboot asked for     *)
(* comes; requests, faults, button presses and updates may come or not, and  *)
(* a download may never end. A new thread is at its select long before the   *)
(* watchdog has probed twice, 30 s apart: strong fairness for Setup.         *)
HttpdFairness ==
  /\ SF_httpd_vars(Setup) /\ WF_httpd_vars(ObeyStop) /\ WF_httpd_vars(Served)
  /\ WF_httpd_vars(EndUpload \/ SwitchFirmware)
  /\ WF_httpd_vars(AnswerUpload \/ FailToAnswer)
  /\ WF_httpd_vars(Watchdog) /\ WF_httpd_vars(Reboot)
  /\ \A r \in Restarters : WF_httpd_vars(Restart(r))

HttpdSpec == HttpdInit /\ [][HttpdNext]_httpd_vars
HttpdFairSpec == HttpdSpec /\ HttpdFairness

-----------------------------------------------------------------------------
(* Properties. *)

(* A request to stop does not outlive the call that made it, or the next     *)
(* thread would suspend itself at once; but for a thread that ended by a     *)
(* fault while it was being asked.                                           *)
NoStopLeftBehind ==
  httpd_stop_req => missed \/ overlap \/ \E r \in Restarters : pc[r] \in {"connect", "wait"}

(* The busy word, which keeps the watchdog and every other update off,       *)
(* belongs to an upload or a download under way, or to the reboot that       *)
(* follows it, as long as no thread was deleted in the middle of an upload   *)
(* and no upload succeeded without being answered.                           *)
BusyWordIsOwned ==
  ota => download \/ thread \in {"upload", "answer"} \/ rebooting \/ abandoned \/ unanswered

(* Whatever has stopped or blocked the web server, the watchdog brings it    *)
(* back, unless an abandoned or unanswered upload keeps the watchdog off for *)
(* good, a download does that never ends, the two restarters have met, or    *)
(* the thread could not be created.                                          *)
ServerComesBack ==
  []<>(\/ thread = "select"
       \/ abandoned \/ unanswered \/ download \/ overlap
       \/ httpd_state = "INACTIVE")
=============================================================================
