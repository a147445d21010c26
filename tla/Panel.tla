-------------------------------- MODULE Panel --------------------------------
(***************************************************************************)
(* The relays, their LED and what is said of them, in the TC1 firmware.    *)
(* The button (timer thread), the web server, the worker that decodes MQTT *)
(* commands, the telnet console, the main loop (timed tasks) and the MQTT  *)
(* client itself all drive the same relays, status bytes and LED, report   *)
(* them to Home Assistant and save them, and no lock is held meanwhile.    *)
(*                                                                         *)
(* A command is the sequence of its accesses to shared state (todo), and   *)
(* the threads take them in any order. Reports are published in the order  *)
(* in which they are queued, and the queue does not overflow: module       *)
(* MqttClient is about the queue itself.                                   *)
(* The total switch is reported, as a socket is, under a number.           *)
(***************************************************************************)
EXTENDS Integers, Sequences, FiniteSets

CONSTANTS
  SOCKET_NUM,  \* number of sockets (6)
  Scenarios,   \* bound: sets of commands [by, op, x, on, each], of which one is used
  MaxBusy,     \* bound: threads at work at a time
  UNSAID,      \* nothing published since the client connected
  OLDER        \* a state queued after a newer one

Sockets == 0 .. SOCKET_NUM - 1
TOTAL   == SOCKET_NUM          \* topic total_socket
LED     == SOCKET_NUM + 1      \* topic led
LOCK    == SOCKET_NUM + 2      \* topic childLock
Topics  == 0 .. SOCKET_NUM + 2
Bit     == {0, 1}
Byte    == -128 .. 127         \* a char of the firmware, which is signed
TOGGLE  == -1                  \* Relay_TOGGLE
Known   == Bit \cup {TOGGLE}   \* what UserRelaySet drives a relay for

Commands == UNION Scenarios
Actors == {"key", "web", "mqtt", "telnet", "task", "rtc", "client"}

(* The web page's handlers take any number; MQTT and the console only 0 and  *)
(* 1, a task -1 as well.                                                     *)
ASSUME PanelAssumption ==
  /\ SOCKET_NUM \in Nat \ {0} /\ MaxBusy \in Nat \ {0}
  /\ {UNSAID, OLDER} \cap Int = {} /\ UNSAID # OLDER
  /\ \A c \in Commands :
       /\ c.by \in Actors \ {"client"}
       /\ \/ c.op = "socket" /\ c.x \in Sockets /\ c.on \in Known
          \/ c.op = "sockets" /\ c.each \in [Sockets -> Int]
          \/ c.op \in {"total", "led", "lock"} /\ c.on \in Int
          \/ c.op \in {"toggle", "toggle_led", "toggle_lock"}
          \/ c.op = "night" /\ c.on \in Bit

VARIABLES
  given,      \* the commands that are used
  relay,      \* the outputs
  config,     \* user_config: socket_status, power_led_enabled, child_lock
  childLockEnabled,  \* the child lock in force
  led,        \* the LED
  flash,      \* the saved user_config
  shown,      \* the last state published for each topic, in this connection
  isconnect,  \* the client is connected
  todo,       \* what is left of the command each thread carries out
  my,         \* its locals
  unsaved,    \* history: a total switch of the web or MQTT since the last save
  crossed,    \* history: two UserRelaySet of a socket at a time, or the last got
              \* a value it does not know
  split,      \* history: the lock in force was last written after another's write
              \* of child_lock, or with a number that child_lock cannot hold
  lamp_off    \* history: the LED was last set by something out of date, or left inverted

lock == <<childLockEnabled, split>>
vars == <<given, relay, config, lock, led, flash, shown, isconnect, todo, my,
          unsaved, crossed, lamp_off>>

(* on: the argument of UserRelaySet; lit: what UserLedSet will be called with; *)
(* stale: somebody has changed what lit was computed from, or the LED, or has  *)
(* written child_lock; val: the state read for a report; older: the same topic *)
(* was reported since.                                                         *)
NoLocals == [on |-> 0, lit |-> 0, stale |-> FALSE, val |-> 0, older |-> FALSE]

Config == [status : [Sockets -> Byte], enabled : Int, lock : Byte]
Step(do, x, on) == [do |-> do, x |-> x, on |-> on]

TypeOK ==
  /\ given \in Scenarios
  /\ relay \in [Sockets -> Bit]
  /\ config \in Config /\ flash \in Config
  /\ childLockEnabled \in Int
  /\ led \in Bit
  /\ shown \in [Topics -> Int \cup {UNSAID, OLDER}]
  /\ isconnect \in BOOLEAN /\ unsaved \in BOOLEAN /\ lamp_off \in BOOLEAN
  /\ split \in BOOLEAN
  /\ DOMAIN todo = Actors
  /\ my \in [Actors -> [on : Byte, lit : Bit, stale : BOOLEAN, val : Int,
                        older : BOOLEAN]]
  /\ crossed \in [Sockets -> BOOLEAN]

RelayOut == \E i \in Sockets : config.status[i] # 0
ToBit(b) == IF b THEN 1 ELSE 0
Lit == ToBit(RelayOut /\ config.enabled # 0)
Flipped(x) == IF x = 0 THEN 1 ELSE 0
Char(n) == ((n + 128) % 256) - 128
(* What UserRelaySet makes of a status that is s, given on. *)
NewStatus(s, on) == IF on < 0 THEN Flipped(s) ELSE on

Nothing == [t \in Topics |-> UNSAID]

(* The value UserMqttSend...State reads for a topic. *)
State(t) == CASE t \in Sockets -> config.status[t]
              [] t = TOTAL -> ToBit(RelayOut)
              [] t = LED   -> config.enabled
              [] t = LOCK  -> childLockEnabled

Init ==
  /\ given \in Scenarios
  /\ config = [status |-> [i \in Sockets |-> 1], enabled |-> 1, lock |-> 0]
  /\ childLockEnabled = config.lock /\ split = FALSE
  /\ relay = config.status
  /\ led = 1
  /\ flash = config
  /\ shown = Nothing
  /\ isconnect = FALSE
  /\ todo = [a \in Actors |-> <<>>]
  /\ my = [a \in Actors |-> NoLocals]
  /\ unsaved = FALSE /\ lamp_off = FALSE
  /\ crossed = [i \in Sockets |-> FALSE]

-----------------------------------------------------------------------------
(* The programs. *)

(* The same steps for every socket, one socket after the other: f[0], f[1]   *)
(* and so on, which are equally long.                                        *)
ForAll(f) ==
  LET w == Len(f[0])
  IN  [k \in 1 .. SOCKET_NUM * w |-> f[(k - 1) \div w][1 + ((k - 1) % w)]]

SetLed == <<Step("test", 0, 0), Step("lamp", 0, 0)>>
(* Mutated: the LED is set before the relay is. *)
UserRelaySetLedFirst(i, on) == SetLed \o <<Step("relay", i, on), Step("status", i, on)>>
(* Output, status, LED: four accesses with nothing to hold others off. *)
UserRelaySet(i, on) == <<Step("relay", i, on), Step("status", i, on)>> \o SetLed
UserRelaySetAll(on) == ForAll([i \in Sockets |-> UserRelaySet(i, on)])
Report(t) == <<Step("read", t, 0), Step("send", t, 0)>>
ReportEach == ForAll([i \in Sockets |-> Report(i)])
(* UserRelaySet with the status byte that is there when it is called. *)
CarryOut(i) == <<Step("stored", i, 0), Step("status", i, 0)>> \o SetLed
CarryOutEach == ForAll([i \in Sockets |-> CarryOut(i) \o Report(i)])
AssignEach(v) == ForAll([i \in Sockets |-> <<Step("assign", i, Char(v[i]))>>])
Save == <<Step("save", 0, 0)>>

(* Mutated: saved before the relay is set. *)
SocketCommandSavedFirst(i, on) == Save \o UserRelaySet(i, on) \o Report(i) \o Report(TOTAL)

(* One socket: the key, MQTT, the console and the tasks alike. *)
SocketCommand(i, on) == UserRelaySet(i, on) \o Report(i) \o Report(TOTAL) \o Save

(* Mutated: what has its status already is not carried out. *)
SetSocketStatusUnapplied(v) == AssignEach(v) \o ReportEach \o Report(TOTAL) \o Save

(* SetSocketStatus: all status bytes first, then each of them is carried out. *)
SetSocketStatus(v) == AssignEach(v) \o CarryOutEach \o Report(TOTAL) \o Save

(* All sockets. Neither the web page nor MQTT saves what it has switched. *)
TotalCommand(by, on) ==
  UserRelaySetAll(Char(on))
  \o (IF by = "mqtt" THEN CarryOutEach ELSE ReportEach)
  \o Report(TOTAL)
  \o (IF by \in {"mqtt", "web"} THEN <<Step("unsaved", 0, 0)>> ELSE Save)

(* SWITCH_ALL_SOCKETS: off when anything is on; saved before it is reported. *)
ToggleAll ==
  UserRelaySetAll(Flipped(ToBit(RelayOut))) \o Save \o ReportEach \o Report(TOTAL)

(* The flag, then the LED: the web page, MQTT and the console go by the flag *)
(* as it then is, a key and a task by what they have set it to themselves.   *)
LedCommand(by, on) ==
  <<Step("enable", 0, on)>>
  \o (CASE by \in {"web", "mqtt", "telnet"} -> SetLed
        [] by = "key" /\ on = 0 -> <<Step("lamp", 0, 0)>>
        [] OTHER -> <<Step("out", 0, on), Step("lamp", 0, 0)>>)
  \o Report(LED) \o Save

ToggleLed == <<Step("flip", 0, 0)>> \o SetLed \o Report(LED) \o Save

(* NightModeReapply makes up for an event of the night as a key would; the   *)
(* removal of the old tasks then saves it.                                   *)
MakeUp(on) == LedCommand("key", on)

(* child_lock and childLockEnabled are written one after the other. *)
LockCommand(by, on) ==
  <<Step("lock", 0, on), Step("force", 0, on)>>
  \o (IF by \in {"key", "web"} THEN Save \o Report(LOCK) ELSE Report(LOCK) \o Save)

ToggleLock == <<Step("fliplock", 0, 0), Step("reforce", 0, 0)>> \o Save \o Report(LOCK)

Program(c) ==
  CASE c.op = "socket"  -> SocketCommand(c.x, c.on)
    [] c.op = "sockets" -> SetSocketStatus(c.each)
    [] c.op = "total"   -> TotalCommand(c.by, c.on)
    [] c.op = "toggle"  -> ToggleAll
    [] c.op = "led"     -> LedCommand(c.by, c.on)
    [] c.op = "lock"    -> LockCommand(c.by, c.on)
    [] c.op = "night"   -> MakeUp(c.on)
    [] c.op = "toggle_led"  -> ToggleLed
    [] c.op = "toggle_lock" -> ToggleLock

(* Mutated: the states are queued before isconnect is set. *)
ConnectedLate ==
  SetLed \o ReportEach \o Report(LED) \o Report(TOTAL) \o Report(LOCK)
  \o <<Step("connected", 0, 0)>>

(* The LED is set to its state, then everything is reported. *)
Connected ==
  SetLed \o <<Step("connected", 0, 0)>>
  \o ReportEach \o Report(LED) \o Report(TOTAL) \o Report(LOCK)

(* A lost connection, and every attempt to restore it, blinks the LED. *)
Reconnect == <<Step("blink", 0, 0), Step("blinked", 0, 0)>>

-----------------------------------------------------------------------------
(* The steps. *)

Idle(a) == todo[a] = <<>>
At(a, do) == ~Idle(a) /\ Head(todo[a]).do = do
Arg(a) == Head(todo[a])
Room == Cardinality({a \in Actors : ~Idle(a)}) < MaxBusy
Done(a) == todo' = [todo EXCEPT ![a] = Tail(@)]

(* a has driven relay i and is about to write its status. *)
Setting(a, i) == At(a, "status") /\ Arg(a).x = i
Blinking(a) == At(a, "blinked")
(* a has computed what it will set the LED to. *)
Lighting(a) == At(a, "lamp") \/ Blinking(a)
(* What the threads of a set go by is out of date. *)
OutdatedFor(others, locals) ==
  [b \in Actors |-> IF b \in others THEN [locals[b] EXCEPT !.stale = TRUE] ELSE locals[b]]
Outdated(a, locals) == OutdatedFor({b \in Actors \ {a} : Lighting(b)}, locals)
OthersSet(a, i) == \E b \in Actors \ {a} : Setting(b, i)

(* A command is given to a thread that waits for one. The child lock stops   *)
(* the keys, all but those that are for it.                                  *)
Give(c) ==
  /\ Idle(c.by) /\ Room
  /\ c.by = "key" => childLockEnabled = 0 \/ c.op \in {"lock", "toggle_lock"}
  /\ todo' = [todo EXCEPT ![c.by] = Program(c)]
  /\ UNCHANGED <<given, relay, config, lock, led, flash, shown, isconnect,
                 my, unsaved, crossed, lamp_off>>

(* UserRelaySet drives the output: for -1 by the status, for a number that is *)
(* none of the three not at all.                                             *)
DriveRelay(a) ==
  /\ At(a, "relay") \/ At(a, "stored")
  /\ LET i  == Arg(a).x
         on == IF At(a, "stored") THEN config.status[i] ELSE Arg(a).on
     IN  /\ relay' = [relay EXCEPT ![i] =
                         IF on \in Known THEN NewStatus(config.status[i], on) ELSE @]
         /\ my' = [my EXCEPT ![a].on = on]
         /\ crossed' = [crossed EXCEPT ![i] = OthersSet(a, i) \/ on \notin Known]
  /\ Done(a)
  /\ UNCHANGED <<given, config, lock, led, flash, shown, isconnect, unsaved,
                 lamp_off>>

(* ... and then writes the status. *)
WriteStatus(a) ==
  /\ At(a, "status")
  /\ config' = [config EXCEPT !.status[Arg(a).x] = NewStatus(@, my[a].on)]
  /\ my' = Outdated(a, [my EXCEPT ![a].on = 0])
  /\ Done(a)
  /\ UNCHANGED <<given, relay, lock, led, flash, shown, isconnect, unsaved,
                 crossed, lamp_off>>

(* SetSocketStatus writes a status whose relay follows later. *)
AssignStatus(a) ==
  /\ At(a, "assign")
  /\ LET i == Arg(a).x IN
       /\ config' = [config EXCEPT !.status[i] = Arg(a).on]
       /\ crossed' = [crossed EXCEPT ![i] = @ \/ OthersSet(a, i)]
  /\ my' = Outdated(a, my)
  /\ Done(a)
  /\ UNCHANGED <<given, relay, lock, led, flash, shown, isconnect, unsaved,
                 lamp_off>>

(* power_led_enabled, on which those count too that have just set it. *)
WriteEnabled(a) ==
  /\ At(a, "enable") \/ At(a, "flip")
  /\ config' = [config EXCEPT !.enabled = IF At(a, "flip") THEN Flipped(@) ELSE Arg(a).on]
  /\ my' = OutdatedFor({b \in Actors \ {a} : Lighting(b) \/ At(b, "out")}, my)
  /\ Done(a)
  /\ UNCHANGED <<given, relay, lock, led, flash, shown, isconnect, unsaved,
                 crossed, lamp_off>>

(* child_lock, which is saved ... *)
WriteLock(a) ==
  /\ At(a, "lock") \/ At(a, "fliplock")
  /\ config' = [config EXCEPT !.lock = IF At(a, "fliplock") THEN Flipped(@)
                                       ELSE Char(Arg(a).on)]
  /\ my' = OutdatedFor({b \in Actors \ {a} : At(b, "force")}, my)
  /\ Done(a)
  /\ UNCHANGED <<given, relay, lock, led, flash, shown, isconnect, unsaved,
                 crossed, lamp_off>>

(* ... and childLockEnabled, which is in force. A key that toggles reads the *)
(* first again.                                                              *)
ForceLock(a) ==
  /\ At(a, "force") \/ At(a, "reforce")
  /\ IF At(a, "reforce")
       THEN childLockEnabled' = config.lock /\ split' = FALSE
       ELSE /\ childLockEnabled' = Arg(a).on
            /\ split' = (my[a].stale \/ Char(Arg(a).on) # Arg(a).on)
  /\ my' = [my EXCEPT ![a].stale = FALSE]
  /\ Done(a)
  /\ UNCHANGED <<given, relay, config, led, flash, shown, isconnect,
                 unsaved, crossed, lamp_off>>

(* RelayOut() && power_led_enabled *)
TestLed(a) ==
  /\ At(a, "test")
  /\ my' = [my EXCEPT ![a].lit = Lit]
  /\ Done(a)
  /\ UNCHANGED <<given, relay, config, lock, led, flash, shown, isconnect,
                 unsaved, crossed, lamp_off>>

(* RelayOut() and what the thread has itself set the flag to. *)
TestRelays(a) ==
  /\ At(a, "out")
  /\ my' = [my EXCEPT ![a].lit = ToBit(RelayOut /\ Arg(a).on # 0)]
  /\ Done(a)
  /\ UNCHANGED <<given, relay, config, lock, led, flash, shown, isconnect,
                 unsaved, crossed, lamp_off>>

UserLedSet(a) ==
  /\ At(a, "lamp")
  /\ led' = my[a].lit
  /\ lamp_off' = my[a].stale
  /\ my' = Outdated(a, [my EXCEPT ![a].lit = 0, ![a].stale = FALSE])
  /\ Done(a)
  /\ UNCHANGED <<given, relay, config, lock, flash, shown, isconnect,
                 unsaved, crossed>>

ReadState(a) ==
  /\ At(a, "read")
  /\ my' = [my EXCEPT ![a].val = State(Arg(a).x)]
  /\ Done(a)
  /\ UNCHANGED <<given, relay, config, lock, led, flash, shown, isconnect,
                 unsaved, crossed, lamp_off>>

(* UserMqttSendTopic: nothing while there is no connection. *)
SendState(a) ==
  /\ At(a, "send")
  /\ LET t == Arg(a).x IN
       /\ shown' = IF ~isconnect THEN shown
                   ELSE [shown EXCEPT ![t] = IF my[a].older THEN OLDER ELSE my[a].val]
       /\ my' = [b \in Actors |->
                   IF b = a THEN [my[a] EXCEPT !.val = 0, !.older = FALSE]
                   ELSE IF isconnect /\ At(b, "send") /\ Arg(b).x = t
                        THEN [my[b] EXCEPT !.older = TRUE]
                   ELSE my[b]]
  /\ Done(a)
  /\ UNCHANGED <<given, relay, config, lock, led, flash, isconnect, unsaved,
                 crossed, lamp_off>>

(* What a start makes of a saved configuration: UserRelaySet of each status. *)
Booted(saved) == [saved EXCEPT !.status = [i \in Sockets |-> NewStatus(@[i], @[i])]]

AppContextUpdate(a) ==
  /\ At(a, "save")
  /\ flash' = config
  /\ unsaved' = FALSE
  /\ Done(a)
  /\ UNCHANGED <<given, relay, config, lock, led, shown, isconnect, my,
                 crossed, lamp_off>>

(* (history) The command ends without saving. *)
LeaveUnsaved(a) ==
  /\ At(a, "unsaved")
  /\ unsaved' = (config # Booted(flash))
  /\ Done(a)
  /\ UNCHANGED <<given, relay, config, lock, led, flash, shown, isconnect,
                 my, crossed, lamp_off>>

-----------------------------------------------------------------------------
(* The MQTT client. *)

Connect ==
  /\ Idle("client") /\ ~isconnect /\ Room
  /\ todo' = [todo EXCEPT !["client"] = Connected]
  /\ UNCHANGED <<given, relay, config, lock, led, flash, shown, isconnect,
                 my, unsaved, crossed, lamp_off>>

IsConnected ==
  /\ At("client", "connected")
  /\ isconnect' = TRUE
  /\ Done("client")
  /\ UNCHANGED <<given, relay, config, lock, led, flash, shown, my, unsaved,
                 crossed, lamp_off>>

(* The connection is lost, or could not be made. *)
Disconnect ==
  /\ Idle("client") /\ Room
  /\ isconnect' = FALSE /\ shown' = Nothing
  /\ todo' = [todo EXCEPT !["client"] = Reconnect]
  /\ UNCHANGED <<given, relay, config, lock, led, flash, my, unsaved,
                 crossed, lamp_off>>

(* UserLedSet(-1), twice with 100 ms in between. *)
Blink ==
  /\ At("client", "blink")
  /\ led' = Flipped(led)
  /\ my' = Outdated("client", [my EXCEPT !["client"].stale = lamp_off])
  /\ Done("client")
  /\ UNCHANGED <<given, relay, config, lock, flash, shown, isconnect,
                 unsaved, crossed, lamp_off>>

BlinkBack ==
  /\ Blinking("client")
  /\ led' = Flipped(led)
  /\ lamp_off' = my["client"].stale
  /\ my' = Outdated("client", [my EXCEPT !["client"].stale = FALSE])
  /\ Done("client")
  /\ UNCHANGED <<given, relay, config, lock, flash, shown, isconnect,
                 unsaved, crossed>>

(* The client is told to exit: it blinks once only and leaves the LED inverted. *)
Exit ==
  /\ Idle("client") /\ Room
  /\ isconnect' = FALSE /\ shown' = Nothing
  /\ led' = Flipped(led)
  /\ lamp_off' = TRUE
  /\ my' = Outdated("client", my)
  /\ UNCHANGED <<given, relay, config, lock, flash, todo, unsaved, crossed>>

(* The power fails and returns: the boot drives the relays from the saved    *)
(* statuses, leaves one alone whose status it does not know, and sets the LED*)
(* by power_led_enabled alone, inverting it when that is -1.                 *)
Reboot ==
  /\ config' = Booted(flash)
  /\ childLockEnabled' = flash.lock /\ split' = FALSE
  /\ relay' \in [Sockets -> Bit]
  /\ \A i \in Sockets : flash.status[i] \in Known => relay'[i] = config'.status[i]
  /\ crossed' = [i \in Sockets |-> flash.status[i] \notin Known]
  /\ led' \in (IF Char(flash.enabled) = -1 THEN Bit ELSE {ToBit(Char(flash.enabled) # 0)})
  /\ lamp_off' = (/\ flash.enabled # 0
                  /\ \/ \A i \in Sockets : config'.status[i] = 0
                     \/ Char(flash.enabled) \in {-1, 0})
  /\ isconnect' = FALSE
  /\ todo' = [a \in Actors |-> <<>>]
  /\ my' = [a \in Actors |-> NoLocals]
  /\ unsaved' = FALSE
  /\ shown' = Nothing
  /\ UNCHANGED <<given, flash>>

Access(a) ==
  \/ DriveRelay(a) \/ WriteStatus(a) \/ AssignStatus(a) \/ WriteEnabled(a)
  \/ WriteLock(a) \/ ForceLock(a) \/ TestLed(a) \/ TestRelays(a) \/ UserLedSet(a)
  \/ ReadState(a) \/ SendState(a) \/ AppContextUpdate(a) \/ LeaveUnsaved(a)

Next ==
  \/ \E c \in given : Give(c)
  \/ \E a \in Actors : Access(a)
  \/ Connect \/ IsConnected \/ Disconnect \/ Blink \/ BlinkBack \/ Exit
  \/ Reboot

Spec == Init /\ [][Next]_vars

-----------------------------------------------------------------------------
(* Properties. *)

Quiet == \A a \in Actors : Idle(a)

(* A socket's relay is on when its status is not 0 once nobody is at work on *)
(* it, unless two threads were inside UserRelaySet for it at the same time or*)
(* the last was given a number that is neither on, off nor toggle: the lack  *)
(* of a lock can do harm in no other way, whatever the commands.             *)
RelayAgrees ==
  \A i \in Sockets :
    crossed[i] \/ relay[i] = ToBit(config.status[i] # 0)
      \/ \E a \in Actors : \E n \in DOMAIN todo[a] :
           todo[a][n].do = "status" /\ todo[a][n].x = i

(* The LED shows whether a relay is on and the LED enabled once every        *)
(* command has ended, unless the last to set it went by what was out of date.*)
LampAgrees == Quiet /\ ~lamp_off => led = Lit

(* Home Assistant shows every state as it is once every command has ended    *)
(* and the client is connected, also after losing connections and power,     *)
(* unless two reports of one topic were queued in the other order.           *)
ReportsAgree ==
  Quiet /\ isconnect => \A t \in Topics : shown[t] \in {State(t), OLDER}

(* What is in force survives a power cut once every command has ended,       *)
(* whichever of them saved last, but for a total switch that was not saved   *)
(* and a child lock that two have written at a time.                         *)
SavedWhenQuiet ==
  Quiet /\ ~unsaved =>
    /\ config = Booted(flash)
    /\ split \/ childLockEnabled = flash.lock
=============================================================================
