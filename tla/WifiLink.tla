------------------------------ MODULE WifiLink -------------------------------
(***************************************************************************)
(* The Wi-Fi link of the TC1 firmware: the notifications of the driver,    *)
(* the 100 ms timer that starts the MQTT client, the countdown to the      *)
(* offline action, the access point, and the hand-over of scan results.    *)
(*                                                                         *)
(* A notification's callback is one step of the driver's thread; a timer's *)
(* callback is several steps of the timer thread, so that notifications    *)
(* and web requests fall between them. The driver (external) keeps trying  *)
(* to reach the router until it is told to stop, notifies in order, and    *)
(* notifies a station that is closed on purpose as well.                   *)
(***************************************************************************)
EXTENDS Naturals, Sequences

CONSTANTS
  MaxDelay,       \* bound: the longest delay, in seconds
  MaxOutages,     \* bound: times the router comes or goes
  MaxCommands     \* bound: what the user asks for: settings, networks, scans, power cuts

ASSUME WifiAssumption ==
  MaxDelay \in Nat \ {0} /\ MaxOutages \in Nat /\ MaxCommands \in Nat

VARIABLES
  static_ip,             \* user_config->ip_mode = 1
  router,                \* the router is there
  link,                  \* the station: "off", "trying" or "up"
  events,                \* notifications on their way
  reserved,              \* the last link state, in flash: "UP" or "DOWN"
  wifi_status,
  ap,                    \* the access point is open
  wifi_led_timer,        \* the timer runs
  wifi_offline_timer,
  start_s,               \* wifi_offline_start_s is not 0
  elapsed,               \* seconds from it to now, up to the bound
  wifi_offline_delay, wifi_offline_action,
  tpc,                   \* where the timer thread is
  connecting,            \* WifiConnect is between micoWlanStart and its last line
  mqtt,                  \* the MQTT client has been started
  synced,                \* the clock has been set
  scan, wifi_scan_queue, \* results completed; the callback's and the queue's
  downFor,               \* true seconds since the last DOWN, up to the bound
  outages, commands,
  raced,                 \* history: a report or a setting came between two steps of a timer
  jumped,                \* history: the clock was set during a countdown
  overwritten            \* history: WifiConnect's last line undid a callback's report

vars == <<static_ip, router, link, events, reserved, wifi_status, ap, wifi_led_timer,
          wifi_offline_timer, start_s, elapsed, wifi_offline_delay, wifi_offline_action, tpc,
          connecting, mqtt, synced, scan, wifi_scan_queue, downFor, outages, commands, raced,
          jumped, overwritten>>
countdown == <<wifi_offline_timer, start_s, elapsed>>
settings == <<static_ip, wifi_offline_delay, wifi_offline_action>>
scans == <<scan, wifi_scan_queue>>
histories == <<raced, jumped, overwritten>>
drive == <<router, link, downFor, outages>>

Enough == MaxDelay          \* seconds that are enough for every delay

TypeOK ==
  /\ static_ip \in BOOLEAN /\ router \in BOOLEAN
  /\ link \in {"off", "trying", "up"}
  /\ events \in Seq({"UP", "IP", "DOWN"})
  /\ reserved \in {"UP", "DOWN"}
  /\ wifi_status \in {"NOCONNECT", "CONNECTED"}
  /\ ap \in BOOLEAN /\ wifi_led_timer \in BOOLEAN
  /\ wifi_offline_timer \in BOOLEAN /\ start_s \in BOOLEAN /\ elapsed \in 0 .. Enough
  /\ wifi_offline_delay \in 0 .. MaxDelay /\ wifi_offline_action \in {"ap", "reboot"}
  /\ tpc \in {"idle", "ledStop", "begin", "disarm", "compare", "fire"}
  /\ connecting \in BOOLEAN /\ mqtt \in BOOLEAN
  /\ synced \in BOOLEAN
  /\ scan.count \in 0 .. MaxCommands /\ scan.held \in 0 .. MaxCommands
  /\ wifi_scan_queue \in 0 .. MaxCommands
  /\ downFor \in 0 .. Enough
  /\ outages \in 0 .. MaxOutages /\ commands \in 0 .. MaxCommands
  /\ raced \in BOOLEAN /\ jumped \in BOOLEAN /\ overwritten \in BOOLEAN

(* With no delay the action is not read. *)
Choices == {<<0, "ap">>, <<MaxDelay, "ap">>, <<MaxDelay, "reboot">>}

(* main: WifiInit starts the LED timer; then the network, or the access      *)
(* point when the station was down the last time the device knew.            *)
Boot ==
  /\ wifi_led_timer' = TRUE /\ wifi_offline_timer' = FALSE
  /\ start_s' = FALSE /\ elapsed' = 0
  /\ wifi_status' = "NOCONNECT" /\ tpc' = "idle"
  /\ mqtt' = FALSE /\ synced' = FALSE /\ events' = <<>>
  /\ scan' = [scan EXCEPT !.held = 0] /\ wifi_scan_queue' = 0
  /\ link' = IF reserved = "UP" THEN "trying" ELSE "off"
  /\ connecting' = (reserved = "UP")
  /\ ap' = (reserved # "UP")

Init ==
  /\ static_ip \in BOOLEAN /\ router = TRUE
  /\ reserved \in {"UP", "DOWN"}
  /\ link = IF reserved = "UP" THEN "trying" ELSE "off"
  /\ connecting = (reserved = "UP") /\ ap = (reserved # "UP")
  /\ events = <<>> /\ wifi_status = "NOCONNECT"
  /\ wifi_led_timer = TRUE /\ wifi_offline_timer = FALSE /\ start_s = FALSE /\ elapsed = 0
  /\ \E c \in Choices : wifi_offline_delay = c[1] /\ wifi_offline_action = c[2]
  /\ tpc = "idle" /\ mqtt = FALSE /\ synced = FALSE
  /\ scan = [count |-> 0, held |-> 0] /\ wifi_scan_queue = 0
  /\ downFor = 0 /\ outages = 0 /\ commands = 0
  /\ raced = FALSE /\ jumped = FALSE /\ overwritten = FALSE

Races == raced' = (raced \/ tpc # "idle") /\ UNCHANGED <<jumped, overwritten>>

-----------------------------------------------------------------------------
(* The router and the driver. *)

RouterChanges ==
  /\ outages < MaxOutages /\ outages' = outages + 1
  /\ router' = ~router
  /\ IF link = "up"
     THEN link' = "trying" /\ events' = Append(events, "DOWN")
     ELSE UNCHANGED <<link, events>>
  /\ UNCHANGED <<downFor, reserved, wifi_status, ap, wifi_led_timer, countdown, settings, tpc,
                 connecting, mqtt, synced, scans, commands, histories>>

LinkUp ==
  /\ link = "trying" /\ router
  /\ link' = "up"
  /\ events' = events \o (IF static_ip THEN <<"UP">> ELSE <<"UP", "IP">>)
  /\ UNCHANGED <<router, reserved, wifi_status, ap, wifi_led_timer, countdown, settings, tpc,
                 connecting, mqtt, synced, scans, downFor, outages, commands, histories>>

(* A station that is closed, or that is to join another network. *)
Leave(to) ==
  /\ link' = to
  /\ events' = IF link = "up" THEN Append(events, "DOWN") ELSE events
  /\ UNCHANGED downFor

-----------------------------------------------------------------------------
(* The notifications: WifiStatusCallback and WifiGetIpCallback. *)

Deliver(e) == events # <<>> /\ Head(events) = e /\ events' = Tail(events)
CallbackKeeps ==
  UNCHANGED <<router, link, outages, settings, tpc, connecting, mqtt, synced, scans, commands>>

(* Mutated: the timer is stopped, its start is kept. *)
StationUpHalf ==
  /\ Deliver("UP") /\ Races /\ UNCHANGED downFor
  /\ wifi_offline_timer' = FALSE
  /\ reserved' = "UP"
  /\ ap' = FALSE
  /\ wifi_status' = IF static_ip THEN "CONNECTED" ELSE wifi_status
  /\ UNCHANGED <<wifi_led_timer, start_s, elapsed>>
  /\ CallbackKeeps

(* Mutated: the countdown is not cancelled. *)
StationUpCounting ==
  /\ Deliver("UP") /\ Races /\ UNCHANGED downFor
  /\ reserved' = "UP"
  /\ ap' = FALSE
  /\ wifi_status' = IF static_ip THEN "CONNECTED" ELSE wifi_status
  /\ UNCHANGED <<wifi_led_timer, countdown>>
  /\ CallbackKeeps

(* Mutated: a static address is left to DHCP. *)
StationUpNoStatic ==
  /\ Deliver("UP") /\ Races /\ UNCHANGED downFor
  /\ wifi_offline_timer' = FALSE /\ start_s' = FALSE
  /\ reserved' = "UP"
  /\ ap' = FALSE
  /\ UNCHANGED <<wifi_status, wifi_led_timer, elapsed>>
  /\ CallbackKeeps

StationUp ==
  /\ Deliver("UP") /\ Races /\ UNCHANGED downFor
  /\ wifi_offline_timer' = FALSE /\ start_s' = FALSE
  /\ reserved' = "UP"
  /\ ap' = FALSE
  /\ wifi_status' = IF static_ip THEN "CONNECTED" ELSE wifi_status
  /\ UNCHANGED <<wifi_led_timer, elapsed>>
  /\ CallbackKeeps

GotIp ==
  /\ Deliver("IP") /\ UNCHANGED downFor
  /\ wifi_status' = "CONNECTED"
  /\ UNCHANGED <<reserved, ap, wifi_led_timer, countdown, histories>>
  /\ CallbackKeeps

(* Mutated: the access point is opened for the reboot action only. *)
StationDownNoAp ==
  /\ Deliver("DOWN") /\ Races /\ downFor' = 0
  /\ reserved' = "DOWN"
  /\ wifi_status' = "NOCONNECT"
  /\ wifi_led_timer' = TRUE
  /\ IF wifi_offline_delay > 0
     THEN start_s' = TRUE /\ elapsed' = 0 /\ wifi_offline_timer' = TRUE
     ELSE UNCHANGED countdown
  /\ UNCHANGED ap
  /\ CallbackKeeps

StationDown ==
  /\ Deliver("DOWN") /\ Races /\ downFor' = 0
  /\ reserved' = "DOWN"
  /\ wifi_status' = "NOCONNECT"
  /\ wifi_led_timer' = TRUE
  /\ IF wifi_offline_delay > 0
     THEN start_s' = TRUE /\ elapsed' = 0 /\ wifi_offline_timer' = TRUE /\ UNCHANGED ap
     ELSE ap' = TRUE /\ UNCHANGED countdown
  /\ CallbackKeeps

-----------------------------------------------------------------------------
(* The timer thread. *)

TimerKeeps == UNCHANGED <<drive, settings, connecting, scans, commands, histories>>

(* WifiLedTimerCallback: an address has been got. *)
StartMqtt ==
  /\ tpc = "idle" /\ wifi_led_timer /\ wifi_status = "CONNECTED"
  /\ mqtt' = TRUE
  /\ tpc' = "ledStop"
  /\ UNCHANGED <<events, reserved, wifi_status, ap, wifi_led_timer, countdown, synced>>
  /\ TimerKeeps

LedStop ==
  /\ tpc = "ledStop"
  /\ wifi_led_timer' = FALSE
  /\ tpc' = "idle"
  /\ UNCHANGED <<events, reserved, wifi_status, ap, countdown, mqtt, synced>>
  /\ TimerKeeps

(* WifiOfflineTimerHandler, once a second. *)
Moves(from, to) ==
  /\ tpc = from /\ tpc' = to
  /\ UNCHANGED <<events, reserved, wifi_status, wifi_led_timer, mqtt, synced>>
  /\ TimerKeeps

Expire == wifi_offline_timer /\ Moves("idle", "begin") /\ UNCHANGED <<ap, countdown>>

(* A start of 0: there is nothing to wait for. *)
NothingToWaitFor == ~start_s /\ Moves("begin", "disarm") /\ UNCHANGED <<ap, countdown>>
Disarm ==
  /\ Moves("disarm", "idle")
  /\ wifi_offline_timer' = FALSE
  /\ UNCHANGED <<ap, start_s, elapsed>>

Waiting == start_s /\ Moves("begin", "compare") /\ UNCHANGED <<ap, countdown>>

(* The start is read again: when it is 0 by now, the difference is the time  *)
(* of day.                                                                   *)
Difference == IF start_s THEN elapsed ELSE Enough

TooEarly ==
  /\ Difference < wifi_offline_delay
  /\ Moves("compare", "idle")
  /\ UNCHANGED <<ap, countdown>>

(* Mutated: one second short. *)
TimeIsUpEarly ==
  /\ Difference + 1 >= wifi_offline_delay
  /\ Moves("compare", "fire")
  /\ wifi_offline_timer' = FALSE /\ start_s' = FALSE
  /\ UNCHANGED <<ap, elapsed>>

TimeIsUp ==
  /\ Difference >= wifi_offline_delay
  /\ Moves("compare", "fire")
  /\ wifi_offline_timer' = FALSE /\ start_s' = FALSE
  /\ UNCHANGED <<ap, elapsed>>

OpenAp ==
  /\ wifi_offline_action = "ap"
  /\ Moves("fire", "idle")
  /\ ap' = TRUE
  /\ UNCHANGED countdown

OfflineReboot ==
  /\ tpc = "fire" /\ wifi_offline_action = "reboot"
  /\ Boot
  /\ UNCHANGED <<router, reserved, settings, downFor, outages, commands, histories>>

Timers ==
  \/ StartMqtt \/ LedStop
  \/ Expire \/ NothingToWaitFor \/ Disarm \/ Waiting \/ TooEarly \/ TimeIsUp \/ OpenAp
  \/ OfflineReboot

-----------------------------------------------------------------------------
(* The user: web page, telnet, button, timed task, plug. *)

Command == commands < MaxCommands /\ commands' = commands + 1

(* HttpSetWifiOffline. *)
SetWifiOffline ==
  /\ Command /\ Races
  /\ \E c \in Choices : wifi_offline_delay' = c[1] /\ wifi_offline_action' = c[2]
  /\ UNCHANGED <<drive, static_ip, events, reserved, wifi_status, ap, wifi_led_timer,
                 countdown, tpc, connecting, mqtt, synced, scans>>

(* WifiConnect, up to micoWlanStart. *)
BeginConnect ==
  /\ Command /\ ~connecting
  /\ connecting' = TRUE
  /\ Leave("trying")
  /\ UNCHANGED <<router, reserved, wifi_status, ap, wifi_led_timer, countdown, settings, tpc,
                 mqtt, synced, scans, outages, histories>>

(* The last line of WifiConnect, after the configuration is saved. *)
EndConnect ==
  /\ connecting /\ connecting' = FALSE
  /\ wifi_status' = "NOCONNECT"
  /\ overwritten' = (overwritten \/ (wifi_status = "CONNECTED" /\ link = "up"))
  /\ UNCHANGED <<drive, events, reserved, ap, wifi_led_timer, countdown, settings, tpc, mqtt,
                 synced, scans, commands, raced, jumped>>

(* CONFIG_WIFI: the MQTT client is stopped, the station too. *)
ConfigWifi ==
  /\ Command /\ mqtt' = FALSE
  /\ Leave("off")
  /\ ap' = TRUE
  /\ UNCHANGED <<router, reserved, wifi_status, wifi_led_timer, countdown, settings, tpc,
                 connecting, synced, scans, outages, histories>>

(* ApConfig: the same, and the MQTT client goes on. *)
ApConfig ==
  /\ Command
  /\ Leave("off")
  /\ ap' = TRUE
  /\ UNCHANGED <<router, reserved, wifi_status, wifi_led_timer, countdown, settings, tpc,
                 connecting, mqtt, synced, scans, outages, histories>>

PowerCut ==
  /\ Command
  /\ Boot
  /\ UNCHANGED <<router, reserved, settings, downFor, outages, histories>>

-----------------------------------------------------------------------------
(* Time, and the clock thread that sets it. *)

Tick ==
  /\ downFor' = IF downFor < Enough THEN downFor + 1 ELSE downFor
  /\ elapsed' = IF start_s /\ elapsed < Enough THEN elapsed + 1 ELSE elapsed
  /\ UNCHANGED <<router, link, events, reserved, wifi_status, ap, wifi_led_timer,
                 wifi_offline_timer, start_s, settings, tpc, connecting, mqtt, synced, scans,
                 outages, commands, histories>>

(* The answer to a question asked while the link was up may be taken when it *)
(* is down again. The first one leaves 1970: every difference is large.      *)
SetTime ==
  /\ ~synced /\ synced' = TRUE
  /\ link = "up" \/ start_s
  /\ IF start_s THEN elapsed' = Enough /\ jumped' = TRUE
                ELSE UNCHANGED <<elapsed, jumped>>
  /\ UNCHANGED <<drive, events, reserved, wifi_status, ap, wifi_led_timer, wifi_offline_timer,
                 start_s, settings, tpc, connecting, mqtt, scans, commands, raced, overwritten>>

-----------------------------------------------------------------------------
(* Scans: WifiScanCallback hands a result to the web server by a queue of    *)
(* one; results are numbered in their order, 0 is none.                      *)

ScanKeeps ==
  UNCHANGED <<drive, events, reserved, wifi_status, ap, wifi_led_timer, countdown, settings,
              tpc, connecting, mqtt, synced, histories>>

(* HttpSetWifiScan, and the driver's answer. *)
ScanDone ==
  /\ Command /\ scan.held = 0
  /\ scan' = [count |-> scan.count + 1, held |-> scan.count + 1]
  /\ UNCHANGED wifi_scan_queue
  /\ ScanKeeps

(* A result nobody has taken is discarded, *)
DiscardStale ==
  /\ scan.held # 0 /\ wifi_scan_queue # 0
  /\ wifi_scan_queue' = 0
  /\ UNCHANGED <<scan, commands>>
  /\ ScanKeeps

(* Mutated: the new result is dropped when the queue is full. *)
PushResultOrDrop ==
  /\ scan.held # 0
  /\ wifi_scan_queue' = IF wifi_scan_queue = 0 THEN scan.held ELSE wifi_scan_queue
  /\ scan' = [scan EXCEPT !.held = 0]
  /\ UNCHANGED commands
  /\ ScanKeeps

(* and the new one is pushed. *)
PushResult ==
  /\ scan.held # 0 /\ wifi_scan_queue = 0
  /\ wifi_scan_queue' = scan.held
  /\ scan' = [scan EXCEPT !.held = 0]
  /\ UNCHANGED commands
  /\ ScanKeeps

(* WifiScanResultTake. *)
TakeResult ==
  /\ wifi_scan_queue # 0
  /\ wifi_scan_queue' = 0
  /\ UNCHANGED <<scan, commands>>
  /\ ScanKeeps

Scan == ScanDone \/ DiscardStale \/ PushResult \/ TakeResult

-----------------------------------------------------------------------------
Next ==
  \/ RouterChanges \/ LinkUp
  \/ StationUp \/ GotIp \/ StationDown
  \/ Timers
  \/ SetWifiOffline \/ BeginConnect \/ EndConnect \/ ConfigWifi \/ ApConfig \/ PowerCut
  \/ Tick \/ SetTime
  \/ Scan

(* The driver retries and notifies, the timer thread runs, time passes and   *)
(* WifiConnect ends; the user and the router do as they like.                *)
Fairness ==
  /\ WF_vars(LinkUp)
  /\ WF_vars(StationUp \/ GotIp \/ StationDown)
  /\ WF_vars(StartMqtt \/ LedStop) /\ WF_vars(Timers)
  /\ WF_vars(EndConnect) /\ WF_vars(Tick)

Spec == Init /\ [][Next]_vars
FairSpec == Spec /\ Fairness

-----------------------------------------------------------------------------
(* Properties. *)

Fires == OpenAp \/ OfflineReboot

Due == reserved = "DOWN" /\ downFor >= wifi_offline_delay

(* The offline action is taken only when the station was reported down the   *)
(* whole delay ago and not up since, unless something came between two steps *)
(* of the countdown or the clock was set while it ran.                       *)
OfflineActionDue == [][Fires => raced \/ jumped \/ Due]_vars

(* The access point is closed when the station has come up.                  *)
ApClosedWhenUp == (link = "up" /\ events = <<>>) => ~ap \/ raced

(* A countdown comes to an end.                                              *)
CountdownEnds == []<>(~start_s \/ raced)

(* With the station up for good the MQTT client is started, but for the      *)
(* report that WifiConnect's last line undoes and for a DOWN that finds the  *)
(* LED timer running when it is about to be stopped.                         *)
MqttFollowsLink == []<>(link # "up" \/ mqtt \/ overwritten \/ raced)

(* A device that has left its network does not stay without an access point. *)
StaysReachable == []<>(link # "off" \/ ap \/ raced)

(* What the web server can take is the newest result that was pushed.        *)
ScanIsLatest ==
  wifi_scan_queue # 0 => wifi_scan_queue = scan.count - (IF scan.held = 0 THEN 0 ELSE 1)
=============================================================================
