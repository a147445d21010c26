# Verification of the TC1 firmware

TLA+ models of the firmware of the Phicomm TC1 smart power strip (`src/TC1/`), checked with TLC
on small instances, with every safety property of every component that the passing runs check also
proved with TLAPS, for every value of the constants. What is left to the model checker alone is
liveness.

The program runs on a MiCO SDK (`src/mico-os/`): an RTOS with application threads of equal
priority, a flash with a parameter area in two copies, lwIP sockets. Its own code is about
7 000 lines of C. The parts of the SDK the repository has changed and the firmware relies on
(parameter storage, the OTA download thread, the HTTP server's thread) are modelled too.

    module         models                                          proofs
    TimedTask      the timed-task engine                           TimedTaskProofs
    MqttClient     the MQTT client thread and its send queue       MqttClientProofs
    NightMode      night mode on top of the task list              NightModeProofs
    ParaStorage    saving of parameters, two partitions            ParaStorageProofs
    AtomicStore    what users of the storage rely on               (abstract; ParaStorage implements it)
    OtaUpdate      firmware update by upload and download          OtaUpdateProofs
    Panel          relays, LED, reports and saves without a lock   PanelProofs
    Button         the timing of the button's presses
    WifiLink       station, access point, offline countdown, scan  NetworkProofs
    HttpServer     the web server's thread, watchdog, restarts     NetworkProofs, second part
    Energy         pulse counter, daily record, readings           EnergyProofs
    Migration      the migration of the task array
    MC*.tla, *.cfg instances for TLC

## 1. The system: components, state, interaction

**Timed tasks** (`timed_task/timed_task.c`). State: an array of 64 slots in the saved
configuration; a linked list through the slots in use in order of due time; its length.
Operations: add, delete, clear all / loops / scheduled tasks (web server), execution of the head
once a second (`ProcessTask`, main loop), rebuilding of the list at boot with the migration of
older encodings. All under `TaskLock`. Hard: packed encodings, calendar arithmetic in UTC for
Beijing days, loops with windows, an uninitialised clock (1970) until the first NTP answer, power
cuts between execution and the two saves. Correct when list and array agree, every due task is
handled, none is lost or repeated at once, flash equals memory after every handler, and a socket
a loop has switched on is switched off again.

**Night mode** (`main.c:247-348`, `app_httpd.c:1224-1270`, `user_rtc.c`). State: the setting, the
LED flag, two daily tasks marked as night tasks. `NightModeReapply` removes and recreates them; it
runs in the web server's thread and in the RTC thread, removes under `TaskLock` and claims slots
without it. Hard: two rebuildings at a time, a night that begins or ends while the device is off
or has no clock, a full task list. Correct when the night tasks are those of the setting and the
LED is off at night.

**MQTT client** (`mqtt_server/user_mqtt_client.c`). State: the client thread, `isconnect`,
`mqtt_thread_should_exit`, `mqtt_thread_running`, a bounded queue of heap blocks, an event
descriptor on it, `init_mutex`. Senders are the main loop, web server, button timer, telnet, OTA
thread and the client itself. `UserMqttInit` ends the old client and creates queue and thread
anew. Hard: senders test the queue and use it later while it may be destroyed; a full queue makes
senders pop; exit requests reach the client wherever it waits; the wait for its end times out.
Correct when there is never a second client, nobody touches a destroyed queue or freed block, no
block leaks, and the exit request is obeyed.

**Parameter storage** (`mico_system_para_storage.c`). State: two flash partitions, each with two
halves (system, user) and a CRC16; the configuration in memory, which any thread changes at any
time; two mutexes. Operations: save (snapshot, erase, three writes, read back, backup copy), read
and repair at boot. Hard: power cut or refused flash operation after each step, changes during a
save, two savers, a checksum that happens to be 0. Correct when the two partitions together are
one atomic value.

**OTA update** (`ota_server/user_ota.c`, `ota_server.c`, `app_httpd.c:354-534`). State:
`ota_progress`, a plain word that keeps uploads and downloads apart; `ota_server_context`; the
passive partition; the boot switch. Starts come from web page, MQTT and console. Hard: no lock
around the word or the context; resuming after broken connections; servers that answer a range
otherwise; a second client during the restart. Correct when only a whole image is switched to,
the word does not stay busy, and a download ends.

**Relays, LED and reports** (`user_gpio.c`, `mqtt_server/user_mqtt_client.c`). State: six outputs,
six status bytes, the LED and its flag, the child lock (saved and in force), what has been published
for each. Button,
web page, MQTT worker, telnet, timed tasks and the MQTT client drive all of it, access by access,
without a lock. Hard: any two of them at a time, a connection lost between two reports, a power cut
before the save. Correct when, once everybody is done, relay, LED, Home Assistant and flash agree
with the configuration.

**Button** (`user_gpio.c:365-500`). State: a timer of 100 ms with its count, the number of clicks.
Hard: a press shorter than the period. Correct when what counts as a long press was held as long.

**Wi-Fi** (`user_wifi.c`). State: the status, two timers, the start of the countdown, the access
point, the last link state in flash, a queue of one scan result. Notifications of the driver, timer
callbacks, web requests and the clock fall between one another's steps. Correct when the offline
action is taken after the whole delay without a network and only then, MQTT follows the link, the
device stays reachable, and the web page gets the newest scan.

**Web server** (`http_server/httpd.c` of the SDK, `app_httpd.c:1276-1420`). State: one thread, its
state word, a request to stop, the listening socket; a watchdog that probes it, a key that restarts
it. Hard: the thread may block in a send, fail at any socket call, or be deleted wherever it is;
watchdog and uploads share `ota_progress`. Correct when a server that stopped comes back, no request
to stop hits the next thread, and the busy word has an owner.

**Energy meter** (`user_power.c`, `main.c:70-125`). State: a counter of pulses that is not saved, its
value at the last two days' ends, which is; a ring of power readings. Hard: power cuts, the unset
clock, a record interrupted before its save, unsigned differences. Correct when no pulse is recorded
twice and what is reported is what was counted.

**Migration** (`main.c:160-245`) projects the saved configuration of an older layout, in place.

**Web server handlers** (`app_httpd.c`) call all of the above from one thread: a request is one
call. **Main** (`main.c`): boot order, factory defaults, `AppContextUpdate` (save under a mutex),
main loop. **Clock** (`user_rtc.c`): NTP with retries; its thread runs `NightModeReapply`. **Telnet
console**, **web log**, **web page**: front ends; their requests are inputs of the models.

Interaction in one picture:

    web page ──HTTP──> httpd thread ──┐                          ┌─> relays, LED
    telnet ───────────> console thread├─ TaskLock ─> task list ──┤
    broker <──MQTT────> client thread ┤                 ^        └─> AppContextUpdate ─> ParaStorage
    key, Wi-Fi ───────> timer threads ┘     main loop ──┘ (1 s)
    NTP ──────────────> RTC thread ── NightModeReapply ─> task list
    file server ──────> OTA thread ── ota_progress ─ httpd, MQTT, console, watchdog
    watchdog, key ────> httpd_stop / httpd_start ─> httpd thread
    meter ────────────> pulse interrupt ─> counter, ring ─> main loop (1 min), reports

The hazards of each part, at the lines where they bite and with the properties that would catch
them, are listed in `PROJECT.json`.

## 2. TimedTask

`agenda` is the array `timed_tasks`, the list `task_top` (a sequence of slot numbers) and
`task_count`; `flash` the last saved image of the array and the outputs; `out` sockets, LED and
child lock; `now` the clock; `phase`/`boot_i` where the boot is; `owner[k]` is a history variable:
the loop that last switched socket k on. The packed words `weekday` and `loop_end` are records;
every place that packs or unpacks them (`Encoded`, `Migrated`) is modelled by what it does.

One action per handler, with the save at its end: `HttpAddTask`, `HttpDelTask`, `HttpClearTasks`,
`HttpClearLoopTasks`, `HttpClearScheduledTasks`, `ProcessTask`, `RebuildTaskList` (one slot per
step), `PowerCut`, `PowerOn`, `Tick`, `SntpSync`. Because every handler holds `TaskLock`, only a
power cut can tear one: `PowerCutDuringTask` is the cut between the two saves of `ProcessTask`.

Properties: `AgendaOK` (order, no duplicate, list = slots in use), `FlashCurrent` (a power cut
neither loses nor resurrects a task), `LoopStillScheduled` (a socket a loop switched on still has
its loop), `NoImmediateRefire`, `RescheduledToFirstMatch` (against a reference definition of the
next matching moment), `NoTaskLost` (what may leave the list, and why), and the liveness property
`DueTaskRuns`.

Run `timed_tasks` (2 slots, 1 socket, a day of 3 minutes, clock 0..7, 9 requests covering every
branch of the decoding, an older flash image; 275 965 states, safety and liveness together). Two
slots are the least that make order, head removal and a full list different things; a loop and a
daily task compete for the head in them. Eight moments of a three-minute day let a day wrap and
windows open and close. A time of day that is met only beyond the clock's bound on some days is
covered by masks of several days.

Fairness: `MainLoopFair` is the weak fairness of `ProcessTask`: the main loop polls once a second
for ever (`main.c:487-503`). `DueTaskRuns` has the premise that clients stop adding tasks, since
one that adds an overdue task every second keeps the head for itself.

## 3. MqttClient

A step is what lies between two accesses to shared flags or the queue. `tpc[t]` is where client
thread t is in `MqttClientThread`, `spc[s]` a sender in `UserMqttSendTopic`, `ipc[i]` a caller of
`UserMqttInit`; `heap` the allocated blocks, `hand[t]` `p_send_msg`, `running`, `should_exit`,
`isconnect`, `queue_exists`, `init_mutex` as in the code; `announced` counts the state messages the
client sends after connecting. Callers: the web server saving MQTT settings, the timer
that finds the station up; the key that opens the access point only asks the client to exit.

One scheduling assumption, `NoSendUnderWay`: publishing and closing the connection are network
operations during which every thread of the same priority gets its turn, so a sender does not stay
inside the few instructions of `UserMqttSendTopic` over one. Without it a sender stopped for
seconds between test and push could meet a destroyed queue. The queue is assumed longer than there
are senders (10 against 6).

Run `mqtt_client` (one sending thread besides the client, 2 callers, 2 thread identities, queue of
4, 5 blocks; 164 288 states): `OneClient`, `QueueOutlivesUsers`, `MemoryOwned`,
`SeenMessageIsThere`, `ExitObeyed`. Two identities suffice for a second client to exist; a sender and
the client are the least that fill, empty and refill a queue, and all of the safety properties are
proved for any number of senders (section 13). Fairness: every client thread step and a sender
already inside the send; nothing is assumed of broker, network or users. `ExitObeyed` presupposes
that the other threads stop sending at some time, since a queue refilled as fast as it is drained
keeps the client in its inner loop.

## 4. NightMode

The list is the set `listed` of hooked slots; `slots`, `config`, `led`, `flash` as in the code;
`minute` is true time, `clock_set`/`rtc_init` what the device knows of it, `due` the slots whose
time has passed. `pc[a]`, `my[a]` step `NightModeReapply` through its locks for `a` = web server
and RTC thread; elsewhere a handler is one step with its save. The main loop polls once a second,
so `Tick` does not let a due task wait over a minute. History: `alone`, `clean`, `made_up`,
`manual`, `corrupt`. `corrupt` says that two threads have claimed one slot since the boot: that is
reachable (`CreateNightModeTask` calls `NewTask` outside `TaskLock`), and from there the set is no
picture of the C list any more, so nothing is claimed until the next boot.

A client's tasks are of two kinds: an LED task for Wednesdays (`Wednesdays`: its minute and what it
does, -1 inverting the flag), and any other (`client`). A boot takes the first for a night task of
an older firmware when its minute is the start or the end of the saved setting
(`timed_task.c:46-53`): `PowerOn` makes it `converted`, in memory only, and from then it is a night
task like any other, run every day, and removed by the next rebuilding. So `NightTasksCurrent` says
of the night tasks that the rebuilding has made that they are those of the setting, each once; of
the converted ones, that they lie at a minute of the setting, and that there is none after a
rebuilding since the boot that nothing interfered with.

Run `night_mode` (2 slots, a day of 3 minutes, a night within the day and one across midnight, a
Wednesday task at a minute of both; 1 158 454 states): `NightTasksCurrent`, `NoSlotLost`,
`LampDarkAtNight`. Two slots make a client's task crowd out one night task, and make two rebuildings
compete; three minutes give a moment before, in and after each night; all three are proved for any
number of both (section 13). Safety only: no fairness. Not modelled: a client that asks for the
firmware's own mask of night tasks, 383, which no page sends.

## 5. ParaStorage and AtomicStore

A half of the configuration is represented by the number of the change that gave it its content; a
checksum by the pair it was computed from (collisions are not modelled, except that `ZeroSums`
names values whose CRC is 0, which the code treats as absent). `Boot` and the callers each walk
through `internal_update_config` or the repair: `Erase`, `WriteHalf`, `WriteSum`, `ReadBack`, each
of which the flash may refuse and after each of which the power may fail. An erased or half-written
half is BAD. `degraded` is history: the flash has refused the last backup.

`AtomicStore` is what `AppContextUpdate`'s callers rely on: one saved value, replaced at once by one
the memory has held since the last save, brought back by every restart. `ImplementsAtomicStore` is
the refinement, with `saved` = the value a restart would choose now. Only after a refused backup
may a value be lost (`Lose`), because the next save erases the main copy first.

Run `para_storage` (2 callers, 3 changes; 556 100 states): `AckedSurvives`, `BackupAgrees`,
`ImplementsAtomicStore`. Two savers make the mutex and the skipped save matter; three changes let
an older snapshot meet a newer one twice. All three are proved for any number of both (section 13).
No fairness.

## 6. OtaUpdate

An image is `Len` chunks; `part[i]` says whose bytes chunk i of the passive partition holds (erased,
the uploaded firmware, the downloaded one, or anything else). `progress` is `ota_progress` (idle,
busy, done: all its readers tell apart); `pc[a]` a client in `UserOtaStart` or in `HttpSetOTAFile`;
`job` the thread with its context and HTTP header buffer; `booted` the partition the next start
runs, which the switch selects and which can still be written until then. Starting is several steps,
since word and context are tested and set without a lock. Connections fail or break off anywhere; a
server answers a resumed request with the rest, the whole file or an error page (`Replies`). A
header buffer that was not emptied is parsed again, as in `SocketReadHTTPHeader`. History: `shared`
(upload and download overlapped), `doubled` (two contexts), `unanswered` (switched, but the answer
could not be sent, so no restart): all three are reachable and the properties except them, see the
hazards. `OnlyWholeFirmware` speaks of the partition for as long as it is selected, not only of the
moment of the switch.

Run `ota_update` (2 chunks, upload, MQTT, two retries, a server that honours ranges; about 1.9
million states): `OnlyWholeFirmware`, `EntryNotStuck`, `DoneIsDone`. Two chunks are the least that
can be interrupted in between and mixed from two sources; a file of one chunk too many and a foreign
one are among the uploads; positions are counted up to one past the length. Safety only: no
fairness. Run `ota_error_page` is the same with three chunks and a server that may answer with an
error page (section 12). Not modelled: MD5 (no start passes one), HTTPS, chunked answers, pause and
stop (never called), a flash write refused during a download (its result is ignored, a hazard), a
header that is cut off and leaves its beginning in the buffer. The uploads and downloads may stop
for good with the power off and a broken image, so deadlock is not checked here.

## 7. Panel and Button

In `Panel` a command is the sequence of its accesses to shared state, `todo[a]` what is left of
it, `my[a]` the caller's locals; `relay`, `led`, `config`, `childLockEnabled` and `flash` are the
outputs, the configuration, the child lock in force and the saved image, `shown` the state last
published for each topic. Seven actors take their accesses in any order: button timer, web server,
MQTT worker, console, main loop, RTC thread and MQTT client. `UserRelaySet` is four accesses (output,
status, test of the LED, LED); `SocketCommand`, `SetSocketStatus`, `TotalCommand`, `ToggleAll`,
`LedCommand`, `ToggleLed`, `MakeUp`, `LockCommand`, `ToggleLock` put the handlers together from it,
from reports and from saves, in the order of the code, which differs with the caller. The web page,
MQTT and the console set the LED by the flag as it then is (`SetLed`); a key and a task go by what
they have just written to it themselves (`TestRelays`, `user_gpio.c:292-304`,
`timed_task.c:310-313`). The child lock is written twice by each of its commands, `child_lock`, which
is saved (`WriteLock`), and `childLockEnabled`, which is in force (`ForceLock`). The client's
connecting, losing the connection and exit report and blink.

The web page's handlers take any number (`PanelAssumption`). A status is a `char`, signed in this
build (`-fsigned-char`); for one that is neither -1, 0 nor 1 `UserRelaySet` leaves the relay alone
and writes the status all the same, and a boot does likewise (`Booted`, `Reboot`).

Without a lock nothing about relay, LED and reports is always true, so the properties say exactly
which interleavings do harm and that there are no others. History: `crossed[i]` (two threads inside
`UserRelaySet` for socket i at a time, or the last was given a number it does not know), `lamp_off`
(the LED was last set by a value computed before somebody else changed what it depends on, the flag
included, by a boot that looks at the flag alone, or was left inverted by a client that exited),
`split` (the child lock in force was last written after somebody else's write of `child_lock`, or
with a number that no `char` holds), `OLDER` in `shown` (two reports of a topic queued in the other
order), `unsaved` (a total switch of web page or MQTT, which is the one command without a save).

Run `panel` (2 sockets, 2 threads at work at a time, beside the client's connections and power cuts;
806 265 states): `RelayAgrees`, `LampAgrees`, `ReportsAgree`, `SavedWhenQuiet`. It has three scenarios,
of which each behaviour uses one. Sockets: the web page sets one socket on and one to 2, and all off
by the total switch; a key turns one off. Settings: the web page turns the LED off and the child lock
to 256; a key turns the LED on, toggles the child lock or turns a socket off. Automation: MQTT
switches all on, a task turns the LED off, the night mode makes up for turning it on. Two threads are
what every race here needs; two sockets make a command over all of them different from one over a
single one. The proofs are for any set of commands at once. The send queue is taken to be long
enough: a report that is lost to a full queue is not said again, which is listed as a hazard without
a property. Left out are the blinking of the LED while Wi-Fi connects (`user_wifi.c:199-217`) and
after some keys (`StartLedBlink`), which ends with the LED dark whatever its state was; and a total
switch whose body is no number, which reads an uninitialised variable (`app_httpd.c:1181`): any
number is among the commands.

`Button` is the timing alone: `Press`, `Release`, `CountPeriod` and `EndPress` (the 100 ms timer
with the button down and up), `ClickEndTimeoutHandler`. `held` is history. Run `button_stale_press`
ends in a counterexample (section 12). `BUTTON_LONG_PRESS_TIME` is the code's 10, presses last up to
60 periods, which reaches the six seconds that open the configuration hotspot.

## 8. WifiLink

`link`, `router`, `events` are the driver (external): it tries until told to stop and notifies in
order. `StationUp`, `GotIp`, `StationDown` are the callbacks, each one step. The timer thread's
callbacks are several steps (`tpc`): `StartMqtt`, `LedStop` and, for the countdown, `Expire` to
`OpenAp` or `OfflineReboot`, since they read `wifi_offline_start_s` twice and the LED timer is
stopped after the client has been started. `BeginConnect`/`EndConnect` are `WifiConnect` before
`micoWlanStart` and its last line. `reserved` is the link state that the reserved flash sectors keep;
the boot opens the access point when it says DOWN. `elapsed` counts what the wall clock says of a
countdown, `downFor` true seconds; `SetTime` is the first synchronisation.

Run `wifi_link` (a delay of at most 1 s, one outage, two requests; 273 178 states):
`OfflineActionDue` (not before its time), `CountdownEnds`, `StaysReachable` (an access point after
leaving the network), `MqttFollowsLink`, `ApClosedWhenUp`, `ScanIsLatest`. History: `raced`,
`jumped`, `overwritten` name the races that do harm, all reachable. A delay of one second separates
"not yet" from "now"; one outage and two requests give every pair of them in any order, at each step
of the timer thread. Fairness: driver, timer thread, time and the end of `WifiConnect`; user and
router do as they like. The device may have nothing left to do, so deadlock is not checked.

## 9. HttpServer

`thread` is where `httpd_main` is, `pc[r]` where a restarter (watchdog, button) is in `httpd_stop`
and `httpd_start`: request, connect, wait, delete, close, create, write the state. A thread may
fail at its sockets, get stuck in a send, or be in an upload. `ota` is `ota_progress` in 0..99.
`Start` and its successors stand in the watchdog's place at boot too. An upload ends with an error,
which gives the word back and is answered, or with the switch of the firmware; then the client is
answered and a reboot asked for, which comes half a second later (`Reboot`) and until which the word
stays busy. When the client has gone by then, `send_http` jumps over the reboot, or never returns
(`FailToAnswer`, `app_httpd.c:528`): the device runs on with the word busy.

Run `http_server` (3 faults, 2 button presses or downloads; 25 288 states): `NoStopLeftBehind`,
`BusyWordIsOwned`, `ServerComesBack`. Three faults allow the server to fail while it is brought
back from the second failure. History: `abandoned` (deleted during an upload: `ota_progress` stays
busy and keeps the watchdog off), `unanswered` (switched, but the answer could not be sent: likewise),
`missed` (ended by a fault while asked to stop), `overlap` (two restarts at once, after which nothing
is claimed; the model stops). Fairness: the threads run, requests and uploads end, a reboot asked for
comes; strong fairness of `Setup` because two probes are 30 s apart and a new thread gets from its
creation to its select long before. Nothing is assumed of a download, which may never end
(section 12); it keeps the watchdog off, and `ServerComesBack` excepts it. That the event which
carries out the reboot can be queued is assumed. A stopped model is why deadlock is not checked.

## 10. Energy

`Pulse` is `PowerIrqHandler` with `SetPowerRecord`; `Check`, `Record`, `RecordCount`, `Save` are
`recordDailyPCount` once a minute. Its two assignments and the save are steps of their own, because
a report, another thread's save or a power cut may come in between. `GetPowerRecord`, `CopyReading`,
`EndCopy` are the web page's copy of the ring, whose loop reads the running number anew for each
reading (`user_power.c:25-28`), with pulses in between. Counters have `Word` values and wrap;
`ConsumptionToday` and `ConsumptionYesterday` are the two differences of `UserMqttHassPower` with the
types C gives them, of which one is unsigned. The clock starts on day 1 and the first synchronisation
may find any day, that one included. History: `since`, `booked`, `span` count what should have been
recorded.

Run `energy_meter` (5 values, ring of 2, 5 pulses, 3 readings to a boot, 2 days,
1 midnight, 2 power cuts; 956 962 states): `ReportsAreCounted`, `BookedOnce`, `ReadingsInOrder`, and
`MidnightRecorded` under weak fairness of the minute check. Five pulses wrap the counter, three
readings wrap the ring while it is copied, two power cuts let a boot resume what another has. Excepted,
because the code does otherwise: a record made between a boot and the first pulse sets the total to 0
(`lost`); a wrapped counter (`wrapped`); the consumption of yesterday while the record is moved on, in
memory or in a flash saved just then (`torn`). `ReadingsInOrder` says what an interrupted copy is: each
value is the reading asked for, or one made since the copy began that has overwritten it, with further
readings at the end. `MidnightRecorded` counts the midnights of the set clock on whose day a check was
made: one between the first synchronisation and the next check may lead to the day the unset clock
had. The first three are proved for every width of the counters and length of the ring (section 13).
Not modelled: `HttpGetPowerInfo` puts the running number into its answer by reading it once more
(`app_httpd.c:638`), so a reading made after the copy is skipped by the page.

## 11. Migration

`user_config_migrate` word by word: the old array has six words an element, the new one seven, in
the same memory. Run `config_migration` (3 slots) ends in a counterexample (section 12).

## 12. What the code does otherwise than it says

Three runs end in a counterexample, each about one sentence of the repository:

- `ota_error_page`: part of an error page, received when a download was resumed, ends up in an image
  that is switched to (`ota_server.c:316`, against `fix-report-v4.1.34.md:40`).
- `button_stale_press`: a tap shorter than 100 ms after a long press is taken for a second long
  press of the same length, because only an expiry that finds the button down resets the count
  (`user_gpio.c:477`, against `src/README.md:85-86`).
- `config_migration`: the second of two tasks in neighbouring slots is overwritten before it is
  read, and a task beyond the number of tasks is dropped (`main.c:198`, against `fix2.md:272` and
  `main.c:166`).

What a reading of the code settles, or the histories of the models show, without a run of its own:

- Timed tasks: a client's Wednesday LED task at the minute of the night mode is taken for a night
  task of an older firmware at boot, made daily, and removed by the next rebuilding of the night
  mode (`timed_task.c:49-53`; the comment above it expects the minutes of a client's task to
  differ).
- MQTT: `UserMqttInit` withdraws the exit request after 7 s, when the client may be past its last
  look at it; then no client is left until the next call (`user_mqtt_client.c:153`). The wait is
  spent in the timer thread when the Wi-Fi timer makes the call.
- MQTT discovery timer: `registerMqttEvents` checks `mqtt_timer_ready` and may start the timer after
  the leaving client has cleared it and stopped the timer (`user_mqtt_client.c:263`, against
  `:426`). A link lost and found again under a connection that survives ends an announcement for
  good (`:81-84`). A full send queue drops the oldest report, which nothing repeats.
- Night mode: power fails in the night and comes back by day; the rebuilding after the first
  synchronisation drops the overdue end task, and the LED stays off (`main.c:343`, against the
  comment at `main.c:314-318`).
- OTA: a server that ignores ranges, as `src/ota_server/server.py` does, makes a download that was
  interrupted once run for ever, and so does a header that cannot be read (`ota_server.c:304-309`,
  `:365`). When the second connection breaks off just where as many bytes have come as the file has,
  and the third brings no answer, the mixture counts as complete and is switched to, for the break
  leaves out the comparison of lengths (`ota_server.c:317`) and the missing answer does not
  (`:301`): `OnlyWholeFirmware` fails with `Replies = {"whole"}`.
- Relays and LED: a status that is neither -1, 0 nor 1, for which no handler of the web page checks,
  is kept, reported and saved while the relay stays as it was (`user_gpio.c:161-170`, `:180-195`);
  the child lock in force and the saved one can differ for good (`user_gpio.c:310-311`); a key or a
  task that switches the LED on may light it after somebody else has cleared its flag
  (`user_gpio.c:296`, `timed_task.c:312`); the boot lights the LED when no relay is on
  (`main.c:480`); a client that is told to exit blinks once and leaves the LED inverted
  (`user_mqtt_client.c:415-416`).
- Web server: when the answer to an upload that succeeded cannot be sent, there is no reboot, every
  later update is refused and the watchdog stays off until a power cut (`app_httpd.c:528`); when the
  thread cannot be created the state becomes INACTIVE while `is_http_init` stays true, and the
  server is never started again (`app_httpd.c:1344-1345`); a select that fails while a stop is
  requested leaves the request to the next thread; a failed bind leaks its socket
  (`httpd.c:211-217`).
- Wi-Fi: a report between the two reads of `wifi_offline_start_s` makes the difference the time of
  day, and the action is taken at once (`user_wifi.c:86`); the first synchronisation ends a
  countdown early; `CONNECTING` and `FAIL` are never assigned.
- Energy: before the first pulse after a boot the consumption of today is a huge number; a first
  synchronisation after the first check counts as midnight; between `main.c:126` and `:128` the
  consumption of yesterday reads 0, and a save of another thread followed by a power cut keeps it
  so; a page copied while a reading comes in has newer readings among its oldest
  (`user_power.c:25-28`).

## 13. What is proved

Everything here holds for every value of the constants allowed by the assumption of the module,
so for 64 slots, six sockets, days of 1440 minutes, any number of senders. Two theorems have a
hypothesis of their own, which their component's paragraph gives. There is one module of proofs to a
component, but for the Wi-Fi link and the web server, which share one.

`TimedTaskProofs`, under `ConstantsAssumption`:

- `Typing`: `Spec => []TypeOK`.
- `ListAgreesWithSlots`: `Spec => []AgendaOK`.
- `HandledTaskMovesOn`: `Spec => NoImmediateRefire`.
- `TasksStay`: `Spec => NoTaskLost`.
- `WeeklyTaskIsNextMatch`: `Spec => RescheduledToFirstMatch`.
- `FlashKeepsUp`: `Spec => []FlashCurrent`.
- `LoopStaysScheduled`: `Spec => []LoopStillScheduled`.

The inductive invariant is `Inv == TypeOK /\ AgendaOK`. `AgendaOK` alone is not inductive: an
insertion stays sorted only if due times are numbers and the slot it takes is not listed, which
comes from "listed = in use" and the types. The lemmas of its first part do the work: `rank`
numbers the kept elements of a list (`RankGrows`, `RankOnto`), so that removal (`WithoutByRank`,
`RemovedSound`) keeps order; `InsertionPlace` and `InsertAtElements` give the same for insertion
(`AddTaskSound`); `DelFirstTaskSound` and `RequeueFirstTaskSound` treat the head. `InvStep` has one
step per action. `MatchIsLater` (the next match lies in the future) yields `NoImmediateRefire`;
`TasksStay` follows from `Inv` and the case of `ProcessTask` that dropped the head.

`MatchIsFirst` is the calendar: `FindNextMatchTime` looks for the first day among today and the
thirteen to come that is in the mask and whose moment is still ahead, counted in local days of a UTC
clock; up to it no other moment has the task's time of day and a day of the mask. The search runs
twice when a task is put back, without and with today; `DelFirstRedates` shows that the second
result stands.

The flash needs more, because what a boot finds there may be older than what it makes of it.
`SaveInv` adds three parts. `Saved`: once powered, each slot holds the task the flash holds, up to
what the boot re-encodes and re-dates, and literally so where `RebuildTaskList` has not been yet.
`Modern`: what has been hooked in has no encoding of an older firmware. `Owned`: a loop that left a
socket on is in the flash as a loop of that socket, powered or not, which carries
`LoopStillScheduled` over a power cut. `MatchKeepsTimeOfDay` shows that re-dating at boot
(`RebuiltSame`) keeps the time of day a task is named by. One lemma per kind of save follows.

`MqttClientProofs`, for any number of senders, callers, thread identities and blocks:

- `MqttInvariance`: `Spec => []TypeOK`, with the invariant below.
- `SingleClient`: `Spec => []OneClient`.
- `QueueIsSafe`: `Spec => []QueueOutlivesUsers`.

Neither of the last two is inductive. `LifeInv` adds: whoever is inside `UserMqttInit` holds
`init_mutex` (`Holding`); past the wait no client runs (`Rebuilding`); a live client means `running`
(`AliveRuns`), which means a queue (`RunsOnQueue`); `isconnect` means a live client that is not yet
closing (`ConnectedAlive`); a sender in the middle of a send means `running` (`SendingRuns`).
`ThreadEffect` says which flags a client step may change, so that the fourteen client actions are
treated at once.

Two more rest on that invariant:

- `NoLeak`: `Spec => []MemoryOwned`. `MemInv` adds `Cleared`: from the client's last drain to the
  destruction of the queue it is empty. That needs `OneClient` and that no sender is inside a
  send then; every other step moves one block from one owner to another, so each action is a lemma
  about disjointness.
- `SeenMessageStays`: `Spec => SeenMessageIsThere`. `RoomInv` bounds the senders that are about to
  pop: a message the client has seen can be gone only after more pops than there are senders, and
  `|Producers| + 1 < QUEUE_SIZE` is assumed. It uses the cardinality theorems of the library.

`ParaStorageProofs`, for any number of callers and changes, and any set of values whose checksum is
0:

- `Typing`: `Spec => []TypeOK`.
- `AcknowledgedSurvives`: `Spec => []AckedSurvives`.
- `CopiesAgree`: `Spec => []BackupAgrees`.
- `StorageIsAtomic`: `Spec => ImplementsAtomicStore`, the refinement.

None is inductive, since a save destroys one copy before it writes it. `IInv` says why that does no
harm: one actor writes at a time, and the boot before any other (`OneWriter`); nothing is newer than
the memory while the program runs, or than the last change (`MemoryNewest`, `CountNewest`); a half
that has been copied into the snapshot is no older than what the caller asked for, what was
acknowledged and what a restart would find (`SnapshotFresh`); the backup is never newer than the main
copy, and is the same unless a save has got past the main copy or the flash has refused the backup
(`BackupFollows`); and what each phase has written so far (`Progress`), in particular that the backup
is touched only under a main copy that holds the whole snapshot and fits. One lemma per flash
operation shows that the operation keeps all nine parts and is a step of `AtomicStore` or none
(`Simulated`): the step that completes the main copy is its `Save`.

`NightModeProofs`, for any number of slots, length of the day and set of nights:

- `SlotsAreKept`: `Spec => []NoSlotLost`.
- `TasksFollowSetting`: `Spec => []NightTasksCurrent`.
- `LampIsDarkAtNight`: `Spec => []LampDarkAtNight`.

`IInv` adds `ClaimsApart`: a slot that is claimed and not hooked in is not in the list and belongs to
one actor. That `NewTask` finds a free slot when there is one (`FirstFreeIsFree`) needs that a set of
numbers has a least element, which the library's theorem on well-founded relations gives.

What the night tasks are is inductive only with how far a rebuilding has come. `NightInv` adds:
night tasks are in use, listed and saved as they are, so that a power cut brings the same ones back,
but for a conversion, which is not saved and which the next boot makes again (`NightKept`); a thread
that nobody has disturbed in `NightModeReapply` still goes by the present setting, has left no night
task of the old one behind and claims a slot that is no night task's (`Undisturbed`, for each of its
eight places); when everybody rests and the last rebuilding was undisturbed, the tasks agree with
the setting, those apart that a boot has converted (`Agree`). For the LED, once a rebuilding since
the boot was undisturbed: no task is a converted one, a night task is due in its own minute only,
and between the two the LED is off unless one of them is due (`Dark`). `TickNight` shows that a
minute leads into the night only where the start task comes due, within a day and across midnight.

`EnergyProofs`, for every width of the counters:

- `NothingBookedTwice`: `Spec => []BookedOnce`.
- `ReportsAreRight`: `Spec => []ReportsAreCounted`.
- `PageGetsReadings`: `Spec => []ReadingsInOrder`, for every length of the ring.

`IInv` relates the counter to what was counted: once a pulse has come it is the last record and the
pulses since (`CountGoesOn`); a record is the sum of all shares recorded, the last on top of the one
before, in memory and in flash, unless the first of its two assignments is all that has been written
(`Booked`, `Sums`).

The ring needs one fact, `Ring`: each of the last readings lies at its number modulo the length.
`PlaceIsOwn` shows that a new reading overwrites none of those it must keep: two numbers that differ
by less than the length never have the same remainder. `Copied` says of a copy under way that every
value in it is the reading of its number or one made since that took its place, and that it began at
a number still in the ring (`FirstReadingIsThere`); a reading that comes in between leaves it so
(`PulseKeepsRing`).

`OtaUpdateProofs`, for an image of any length, any number of clients and retries:

- `WordIsGivenBack`: `Spec => []EntryNotStuck`, whatever the file server answers.
- `WholeFirmwareOnly`: `HonoursRanges` implies `Spec => []OnlyWholeFirmware`.
- `DoneMeansDone`: `HonoursRanges` implies `Spec => []DoneIsDone`.

`HonoursRanges` says of the file server, which is not part of the firmware, that it answers a
request for the rest of a file with that rest (or refuses a range beyond the end). It cannot be
dropped: run `ota_error_page` violates the property with a server that may answer with an error
page, and so does one that sends the whole file again (section 12). It is what run `ota_update`
assumes. `EntryInv` is nearly inductive on its own: whoever takes the word hands it on to the next
place of its program. `IInv` has to say what is in the partition: the download has brought its
chunks one after the other, the connection that is open continues where they end, and no header is
left in the buffer before the last chunk (`Resumes`); of one whose length was never told nothing is
claimed but that it never completes. What the one writer has written is either the first chunks of
the download over erased flash or those of the upload (`Written`), as long as there is one writer
(`OneWriter`), and whoever has switched is about to restart (`Switched`).

`PanelProofs`, for any number of sockets and any set of commands that the handlers can be given, with
any numbers where no handler checks them (`PanelAssumption`), toggles included, all seven threads at
work at a time:

- `RelaysAgree`: `Spec => []RelayAgrees`.
- `LampIsRight`: `Spec => []LampAgrees`.
- `HomeAssistantIsRight`: `Spec => []ReportsAgree`.
- `QuietIsSaved`: `Spec => []SavedWhenQuiet`.
- `Typing`: `Spec => []TypeOK`.

The properties speak of the moment when everybody is done, so the invariant has to speak of what is
left to do. Two facts about programs are kept by taking the first step off: `Linked`, what a step
leaves in the locals is used by the step right behind it (a relay by its status, a reading by its
sending, a test by the LED); and `Paid`, a step that changes something is followed, in its own
program, by the steps that set the LED, report the change and save it (`Owes` lists them). Both are
proved of every command (`Piece`, `TwoPieces` and `PieceForAll` put them together, the last for a
command over all sockets) and so hold of whatever is left of one (`TailRest`). With them each part
of `IInv` is about single steps: a relay that differs from its status has that status still to come
(`Agreed`), and whoever drives it alone will write just that (`Driven`); the LED is right or will be
set (`Shining`), by a value that is right or known to be out of date (`Computed`); what is shown is
right, or a reading of it is still to come, or a right one is being sent (`Reported`); the flash is
current or a save is to come (`Kept`). `Hands` is about what a thread goes by that has written it
itself: the LED's flag between its writing and the LED (`Trusting`), the child lock between its two
variables (`Locked`), each right or known to be out of date. The steps of other threads then need no
argument about where in their programs they are.

The Wi-Fi link, in the first part of `NetworkProofs`, for every delay and any number of outages,
requests and scans:

- `ApIsClosed`: `Spec => []ApClosedWhenUp`.
- `OfflineActionIsDue`: `Spec => OfflineActionDue`.
- `NewestScanIsTaken`: `Spec => []ScanIsLatest`.

What the device believes lags behind the driver by the notifications on their way, so `IInv` is
about that queue: losses and recoveries alternate in it, a link that is up has its notification
behind every loss still to be told, and a running countdown means that no loss comes before a
recovery (`Told`). Then a countdown counts no more than the time since the link was lost
(`Counted`), and what the timer thread has decided in one step still holds in the next (`Decided`),
but for the histories the properties name.

The web server, in the second part of `NetworkProofs`, for any number of faults, presses and
downloads:

- `NoRequestOutlives`: `HttpdSpec => []NoStopLeftBehind`.
- `BusyWordHasOwner`: `HttpdSpec => []BusyWordIsOwned`.

`ServerInv` adds to both: until `overlap` one restarter is at rest (`OneRestarter`); a request to
stop is made to a thread that counts as running, and whoever made it still waits (`StopIsAsked`);
there is a thread only while the state is RUNNING or SUSPENDED or about to be written
(`ThreadIsKnown`); the sockets are closed after the thread has been deleted (`DeletedFirst`); before
`httpd_init` there is no thread and nobody waits for one (`InitFirst`). The steps of the thread are
one lemma, those of a restarter another, the rest a third.

Only model-checked: the seven liveness properties `DueTaskRuns`, `ExitObeyed`, `CountdownEnds`,
`MqttFollowsLink`, `StaysReachable`, `ServerComesBack` and `MidnightRecorded`, since liveness under
fairness is outside the prover's reach. `Button` and `Migration` are refuted, not proved.

## 14. Not modelled, and the plan

Left out for good: web page, web log, OTA file servers, the SDK beyond the calls used, wording and
layout of messages, the HTTP parser and its table of clients, the telnet connection,
`HttpSetWifiStatic` (which saves an address for the next connection), the unpacking of key
functions, MD5, HTTPS and chunked answers of a download (no start asks for them), the boot table,
the exchange with the NTP server.

Still worth modelling: the discovery timer and the decoding of MQTT commands, with `Panel` on top of
the queue of `MqttClient` so that a burst longer than the queue meets a report; the factory reset
against `ProcessTask`; names and key functions.

Theorems planned: what the liveness properties rest on as step properties (that a step of the
draining client takes a message off, that a countdown comes closer to its end), and the type
invariants of `NightMode`, `Energy` and `WifiLink` in full, of which the proofs so far use the parts
they need.
