----------------------------- MODULE NightMode ------------------------------
(***************************************************************************)
(* Night mode of the TC1 firmware: two daily tasks switch the LED off at   *)
(* the start of the night and on again at its end, and NightModeReapply    *)
(* rebuilds them when the web page changes the setting and when the clock  *)
(* is first set after a boot. The web server and the RTC thread both run   *)
(* it, the main loop executes the tasks, and the power may fail. A boot    *)
(* takes a client's weekly LED task for a night task when its weekday mask *)
(* and its minute are those an older firmware's night task would have.     *)
(*                                                                         *)
(* The task list is module TimedTask's; here it is the set of the slots    *)
(* that are hooked in, and what matters is which slots are claimed, by     *)
(* whom, and what the night tasks among them say. A day has Minutes.       *)
(*                                                                         *)
(* A change and the AppContextUpdate after it are one step: memory is lost *)
(* when the power fails, so failing between them is failing before both.   *)
(***************************************************************************)
EXTENDS Integers, FiniteSets

CONSTANTS
  MAX_TASK_NUM,  \* number of slots
  MINUTES,       \* minutes of a day
  Nights,        \* the [start, end] a client may ask for
  Wednesdays     \* the [at, on] of the LED tasks a client may add for Wednesdays

ASSUME NightAssumption ==
  /\ MAX_TASK_NUM \in Nat \ {0}
  /\ MINUTES \in Nat \ {0}
  /\ Nights # {}
  /\ Nights \subseteq [start : 0 .. MINUTES - 1, end : 0 .. MINUTES - 1]
  /\ \A n \in Nights : n.start # n.end
  /\ Wednesdays \subseteq [at : 0 .. MINUTES - 1, on : {-1, 0, 1}]

Slots   == 0 .. MAX_TASK_NUM - 1
Minutes == 0 .. MINUTES - 1
Actors  == {"http", "rtc"}      \* the threads that run NightModeReapply
Night   == [start : Minutes, end : Minutes]

VARIABLES
  slots,      \* user_config->timed_tasks
  listed,     \* the slots hooked into the list
  config,     \* night_mode_enabled, _start and _end
  led,        \* MQTT_LED_ENABLED: a task may set it to -1, which counts as on
  flash,      \* the saved [slots, config, led]
  minute,     \* the true time of day
  clock_set,  \* time(NULL) is the true time, not counted from 1970
  rtc_init,   \* rtc_init = 1
  due,        \* the slots with a due time that has passed in true time
  running,    \* the power is on
  pc, my,     \* where each actor is in NightModeReapply, and its locals
  alone,      \* history: nothing else has happened since the actor entered it
  clean,      \* history: one that ran alone has applied the present setting
  made_up,    \* history: so it did since the boot, with rtc_init = 1
  manual,     \* history: the LED was last switched by a client
  corrupt     \* history: two threads have claimed one slot since the boot

vars == <<slots, listed, config, led, flash, minute, clock_set, rtc_init, due, running,
          pc, my, alone, clean, made_up, manual, corrupt>>
time == <<minute, clock_set, rtc_init>>

(* kind: an LED task of the mask NIGHT_DAILY_WEEKDAY is "night", and, as a   *)
(* history, "converted" when a boot has made it from "wednesday", an LED     *)
(* task of a client with the mask 8. dated: by a clock that was set. A free  *)
(* slot is Blank: what it still holds is only seen when the power fails      *)
(* between NewTask and the filling, after another thread's save, and is a    *)
(* task nobody asked for in any case.                                        *)
Task == [on_use : BOOLEAN, kind : {"client", "wednesday", "converted", "night"},
         at : Minutes, on : {-1, 0, 1}, dated : BOOLEAN]
Blank == [on_use |-> FALSE, kind |-> "client", at |-> 0, on |-> 0, dated |-> TRUE]
Config == [enabled : BOOLEAN, night : Night]
Saved == [slots : [Slots -> Task], config : Config, led : {-1, 0, 1}]

TypeOK ==
  /\ slots \in [Slots -> Task]
  /\ listed \in SUBSET Slots
  /\ config \in Config
  /\ led \in {-1, 0, 1}
  /\ flash \in Saved
  /\ minute \in Minutes
  /\ clock_set \in BOOLEAN /\ rtc_init \in BOOLEAN
  /\ due \in SUBSET Slots
  /\ running \in BOOLEAN
  /\ pc \in [Actors -> {"idle", "sync", "synced", "begin", "remove", "enabled?",
                        "find1", "claim1", "hook1", "find2", "claim2", "hook2"}]
  /\ my \in [Actors -> [night : Night, slot : Slots, made_up : BOOLEAN]]
  /\ alone \in [Actors -> BOOLEAN]
  /\ clean \in BOOLEAN /\ made_up \in BOOLEAN /\ manual \in BOOLEAN /\ corrupt \in BOOLEAN

NoLocals == [night |-> [start |-> 0, end |-> 0], slot |-> 0, made_up |-> FALSE]

AppContextUpdate == flash' = [slots |-> slots', config |-> config', led |-> led']

InNight(n, m) ==
  \/ n.start <= n.end /\ m >= n.start /\ m < n.end
  \/ n.start > n.end /\ (m >= n.start \/ m < n.end)

FreeSlots == {s \in Slots : ~slots[s].on_use}
IsNight(s) == slots[s].kind \in {"night", "converted"}

FirstFree == CHOOSE s \in FreeSlots : \A u \in FreeSlots : s <= u

Reapplying(a) == pc[a] \notin {"idle", "sync", "synced"}
Quiet == running /\ \A a \in Actors : ~Reapplying(a) /\ pc[a] # "synced"

Init ==
  /\ \E n \in Nights : config = [enabled |-> FALSE, night |-> n]
  /\ slots = [s \in Slots |-> Blank]
  /\ listed = {}
  /\ led = 1
  /\ flash = [slots |-> slots, config |-> config, led |-> led]
  /\ minute = 0
  /\ clock_set = FALSE /\ rtc_init = FALSE
  /\ due = {}
  /\ running = TRUE
  /\ pc = [a \in Actors |-> IF a = "rtc" THEN "sync" ELSE "idle"]
  /\ my = [a \in Actors |-> NoLocals]
  /\ alone = [a \in Actors |-> FALSE]
  /\ clean = TRUE /\ made_up = FALSE /\ manual = FALSE /\ corrupt = FALSE

(* A step of somebody else: no actor in who's place is alone any more. *)
Disturbed(who) == [a \in Actors |-> alone[a] /\ a = who]

-----------------------------------------------------------------------------
(* NightModeReapply, in thread a. *)

Goes(a, from, to) == running /\ pc[a] = from /\ pc' = [pc EXCEPT ![a] = to]

(* The locals end with the call; the end of one that was alone leaves its    *)
(* mark.                                                                     *)
GoesOn(a, from, to, slot) ==
  /\ Goes(a, from, to)
  /\ my' = [my EXCEPT ![a] = IF to = "idle" THEN NoLocals ELSE [my[a] EXCEPT !.slot = slot]]
  /\ alone' = [Disturbed(a) EXCEPT ![a] = @ /\ to # "idle"]
  /\ clean' = IF to = "idle" THEN alone[a] ELSE clean
  /\ made_up' = IF to = "idle" THEN alone[a] /\ my[a].made_up ELSE made_up

(* The web page's setting, clamped and saved before it is applied. *)
HttpSetNightMode ==
  /\ Goes("http", "idle", "begin")
  /\ \E e \in BOOLEAN, n \in Nights : config' = [enabled |-> e, night |-> n]
  /\ alone' = Disturbed("http")
  /\ clean' = FALSE /\ made_up' = FALSE
  /\ UNCHANGED <<slots, listed, led, time, due, running, my, manual, corrupt>>
  /\ AppContextUpdate

(* RtcThread: UserSntpGetTime, then rtc_init = 1 and the rebuilding. *)
RtcSync ==
  /\ Goes("rtc", "sync", "synced")
  /\ clock_set' = TRUE
  /\ alone' = Disturbed("rtc")
  /\ UNCHANGED <<slots, listed, config, led, flash, minute, rtc_init, due, running, my,
                 clean, made_up, manual, corrupt>>

RtcInit ==
  /\ Goes("rtc", "synced", IF config.enabled THEN "begin" ELSE "idle")
  /\ rtc_init' = TRUE
  /\ alone' = Disturbed("rtc")
  /\ UNCHANGED <<slots, listed, config, led, flash, minute, clock_set, due, running, my,
                 clean, made_up, manual, corrupt>>

(* Every ten minutes it synchronises again; rtc_init = 2 when that fails. *)
RtcResync ==
  /\ running /\ pc["rtc"] = "idle" /\ clock_set
  /\ rtc_init' \in BOOLEAN
  /\ alone' = Disturbed("rtc")
  /\ UNCHANGED <<slots, listed, config, led, flash, minute, clock_set, due, running, pc, my,
                 clean, made_up, manual, corrupt>>

(* Mutated: a night that has begun is not made up for. *)
BeginBlind(a) ==
  /\ Goes(a, "begin", "remove")
  /\ my' = [my EXCEPT ![a].night = config.night, ![a].made_up = rtc_init]
  /\ alone' = [b \in Actors |-> b = a /\ ~\E o \in Actors \ {a} : Reapplying(o)]
  /\ UNCHANGED <<slots, listed, config, led, flash, time, due, running, clean, made_up, manual,
                 corrupt>>

(* An event of the night that has already passed is made up for. *)
Begin(a) ==
  /\ Goes(a, "begin", "remove")
  /\ my' = [my EXCEPT ![a].night = config.night, ![a].made_up = rtc_init]
  /\ IF rtc_init /\ InNight(config.night, minute)
       THEN led' = (IF config.enabled THEN 0 ELSE 1) /\ manual' = FALSE
       ELSE UNCHANGED <<led, manual>>
  /\ alone' = [b \in Actors |-> b = a /\ ~\E o \in Actors \ {a} : Reapplying(o)]
  /\ UNCHANGED <<slots, listed, config, flash, time, due, running, clean, made_up, corrupt>>

(* Mutated: the slots are unhooked but not released. *)
RemoveNightModeTasksLeaking(a) ==
  /\ GoesOn(a, "remove", "enabled?", 0)
  /\ LET N == {s \in listed : IsNight(s)}
     IN  listed' = listed \ N /\ due' = due \ N
  /\ UNCHANGED <<slots, config, led, time, running, manual, corrupt>>
  /\ AppContextUpdate

(* Mutated: the removal is not saved. *)
RemoveNightModeTasksUnsaved(a) ==
  /\ GoesOn(a, "remove", "enabled?", 0)
  /\ LET N == {s \in listed : IsNight(s)}
     IN  /\ slots' = [s \in Slots |-> IF s \in N THEN Blank ELSE slots[s]]
         /\ listed' = listed \ N
         /\ due' = due \ N
  /\ UNCHANGED <<config, led, flash, time, running, manual, corrupt>>

RemoveNightModeTasks(a) ==
  /\ GoesOn(a, "remove", "enabled?", 0)
  /\ LET N == {s \in listed : IsNight(s)}
     IN  /\ slots' = [s \in Slots |-> IF s \in N THEN Blank ELSE slots[s]]
         /\ listed' = listed \ N
         /\ due' = due \ N
  /\ UNCHANGED <<config, led, time, running, manual, corrupt>>
  /\ AppContextUpdate

IsEnabled(a) ==
  /\ GoesOn(a, "enabled?", IF config.enabled THEN "find1" ELSE "idle", 0)
  /\ UNCHANGED <<slots, listed, config, led, flash, time, due, running, manual, corrupt>>

(* CreateNightModeTask calls NewTask without TaskLock, so another thread may *)
(* claim the slot that NewTask has found before NewTask does.                *)
Find(a, from, to, skip) ==
  /\ GoesOn(a, from, IF FreeSlots = {} THEN skip ELSE to,
            IF FreeSlots = {} THEN 0 ELSE FirstFree)
  /\ UNCHANGED <<slots, listed, config, led, flash, time, due, running, manual, corrupt>>

Claim(a, from, to) ==
  /\ GoesOn(a, from, to, my[a].slot)
  /\ slots' = [slots EXCEPT ![my[a].slot].on_use = TRUE]
  /\ corrupt' = (corrupt \/ slots[my[a].slot].on_use)
  /\ UNCHANGED <<listed, config, led, flash, time, due, running, manual>>

(* A task dated by a clock that counts from 1970 is overdue when it is set. *)
Hook(a, from, to, at, on) ==
  /\ GoesOn(a, from, to, 0)
  /\ slots' = [slots EXCEPT ![my[a].slot] =
                 [on_use |-> TRUE, kind |-> "night", at |-> at, on |-> on, dated |-> clock_set]]
  /\ listed' = listed \cup {my[a].slot}
  /\ due' = IF clock_set THEN due \ {my[a].slot} ELSE due \cup {my[a].slot}
  /\ UNCHANGED <<config, led, time, running, manual, corrupt>>
  /\ AppContextUpdate

CreateNightModeTasks(a) ==
  \/ Find(a, "find1", "claim1", "find2")
  \/ Claim(a, "claim1", "hook1")
  \/ Hook(a, "hook1", "find2", my[a].night.start, 0)
  \/ Find(a, "find2", "claim2", "idle")
  \/ Claim(a, "claim2", "hook2")
  \/ Hook(a, "hook2", "idle", my[a].night.end, 1)

NightModeReapply(a) ==
  Begin(a) \/ RemoveNightModeTasks(a) \/ IsEnabled(a) \/ CreateNightModeTasks(a)

-----------------------------------------------------------------------------
(* The other handlers of the web server, which serves one request at a time. *)

HttpAddTask ==
  /\ running /\ pc["http"] = "idle"
  /\ FreeSlots # {}
  /\ \E t \in {Blank} \cup {[Blank EXCEPT !.kind = "wednesday", !.at = w.at, !.on = w.on] :
                             w \in Wednesdays} :
       slots' = [slots EXCEPT ![FirstFree] = [t EXCEPT !.on_use = TRUE]]
  /\ listed' = listed \cup {FirstFree}
  /\ alone' = Disturbed("http")
  /\ UNCHANGED <<config, led, time, due, running, pc, my, clean, made_up, manual, corrupt>>
  /\ AppContextUpdate

HttpDelTask ==
  /\ running /\ pc["http"] = "idle"
  /\ \E s \in listed :
       /\ slots' = [slots EXCEPT ![s] = Blank]
       /\ listed' = listed \ {s}
       /\ due' = due \ {s}
  /\ alone' = Disturbed("http")
  /\ UNCHANGED <<config, led, time, running, pc, my, clean, made_up, manual, corrupt>>
  /\ AppContextUpdate

(* A client switches the LED, on the web page, by MQTT or by a task that the *)
(* main loop executes.                                                       *)
LedSetEnabled ==
  /\ running
  /\ led' \in {-1, 0, 1}
  /\ manual' = TRUE
  /\ alone' = Disturbed("client")
  /\ UNCHANGED <<slots, listed, config, time, due, running, pc, my, clean, made_up, corrupt>>
  /\ AppContextUpdate

-----------------------------------------------------------------------------
(* The main loop executes a night task that is due by its clock and dates it *)
(* for the next day. A task dated in 1970 is due whenever that clock says so.*)
ProcessNightTask(s) ==
  /\ running
  /\ s \in listed /\ IsNight(s)
  /\ IF clock_set THEN s \in due ELSE ~slots[s].dated
  /\ led' = slots[s].on
  /\ slots' = [slots EXCEPT ![s].dated = clock_set]
  /\ due' = IF clock_set THEN due \ {s} ELSE due
  /\ manual' = FALSE
  /\ alone' = Disturbed("main")
  /\ UNCHANGED <<listed, config, time, running, pc, my, clean, made_up, corrupt>>
  /\ AppContextUpdate

(* It looks once a second, so what is due does not wait out its minute. A    *)
(* minute that ends while a thread is on its way into NightModeReapply may as *)
(* well end before. A converted task waits for its Wednesday the first time. *)
Tick ==
  /\ ~(running /\ clock_set /\ due \cap listed # {})
  /\ \A a \in Actors : pc[a] \notin {"synced", "begin"}
  /\ minute' = (minute + 1) % MINUTES
  /\ LET N == {s \in Slots : slots[s].on_use /\ IsNight(s) /\ slots[s].at = minute'}
     IN  \E waiting \in SUBSET {s \in N : slots[s].kind = "converted"} :
           due' = due \cup (N \ waiting)
  /\ alone' = Disturbed("time")
  /\ UNCHANGED <<slots, listed, config, led, flash, clock_set, rtc_init, running, pc, my,
                 clean, made_up, manual, corrupt>>

PowerCut ==
  /\ running
  /\ running' = FALSE
  /\ pc' = [a \in Actors |-> "idle"] /\ my' = [a \in Actors |-> NoLocals]
  /\ slots' = flash.slots /\ config' = flash.config /\ led' = flash.led
  /\ listed' = {}
  /\ due' = {s \in due : slots'[s].on_use}
  /\ rtc_init' = FALSE
  /\ alone' = Disturbed("power")
  /\ clean' = (clean /\ \A a \in Actors : ~Reapplying(a))
  /\ made_up' = FALSE
  /\ manual' = (manual \/ \E a \in Actors : Reapplying(a))   \* led' is the saved one
  /\ corrupt' = FALSE
  /\ UNCHANGED <<flash, minute, clock_set>>

(* An older firmware's night tasks had the mask of Wednesdays; so may a      *)
(* client's task at a minute of the setting.                                 *)
Converted(t) ==
  IF t.kind = "wednesday" /\ t.at \in {config.night.start, config.night.end}
  THEN [t EXCEPT !.kind = "converted"] ELSE t

(* RebuildTaskList converts and hooks in every slot in use. A warm restart   *)
(* may keep the clock: overdue tasks are then dated anew. It saves nothing.  *)
PowerOn ==
  /\ ~running
  /\ running' = TRUE
  /\ listed' = {s \in Slots : slots[s].on_use}
  /\ clock_set' \in {FALSE, clock_set}
  /\ slots' = [s \in Slots |-> Converted([slots[s] EXCEPT !.dated = @ \/ clock_set'])]
  /\ LET new == {s \in Slots : slots[s].kind = "wednesday" /\ slots'[s].kind = "converted"}
     IN  \E late \in SUBSET new : due' = IF clock_set' THEN {} ELSE due \cup late
  /\ pc' = [pc EXCEPT !["rtc"] = "sync"]
  /\ UNCHANGED <<config, led, flash, minute, rtc_init, my, alone, clean, made_up, manual,
                 corrupt>>

Next ==
  \/ HttpSetNightMode
  \/ RtcSync
  \/ RtcInit
  \/ RtcResync
  \/ \E a \in Actors : NightModeReapply(a)
  \/ HttpAddTask
  \/ HttpDelTask
  \/ LedSetEnabled
  \/ \E s \in Slots : ProcessNightTask(s)
  \/ Tick
  \/ PowerCut
  \/ PowerOn

Spec == Init /\ [][Next]_vars

-----------------------------------------------------------------------------
(* After a NightModeReapply that nothing interfered with, the night tasks in *)
(* the list are those of the setting, each at most once, and none when the   *)
(* night mode is off: whatever an earlier one that was interrupted by a power*)
(* cut or overlapped by another had left there, and across later power cuts. *)
(* A boot may add clients' tasks, at a minute of the setting only; the next  *)
(* NightModeReapply that nothing interferes with leaves none of them.        *)
NightTasks == {s \in listed : IsNight(s)}
ConvertedTasks == {s \in listed : slots[s].kind = "converted"}

NightTasksCurrent ==
  Quiet /\ clean /\ ~corrupt =>
    LET own == NightTasks \ ConvertedTasks
    IN /\ own # {} => config.enabled
       /\ \A s \in own :
            <<slots[s].at, slots[s].on>> \in {<<config.night.start, 0>>, <<config.night.end, 1>>}
       /\ \A s, u \in own : slots[s].on = slots[u].on => s = u
       /\ \A s \in ConvertedTasks : slots[s].at \in {config.night.start, config.night.end}
       /\ made_up => ConvertedTasks = {}

(* No slot gets lost: a slot in use is in the list, where a client can see   *)
(* and delete it, or a thread is about to hook it in.                        *)
NoSlotLost ==
  running /\ ~corrupt =>
    {s \in Slots : slots[s].on_use} =
      listed \cup {my[a].slot : a \in {b \in Actors : pc[b] \in {"hook1", "hook2"}}}

(* The LED is off throughout the night once the setting is in force and both *)
(* tasks are there, unless a client switched it on: whether the night began  *)
(* before the setting was made, before the boot, or with the start task.     *)
Settled ==
  /\ Quiet /\ made_up /\ ~corrupt /\ ~manual
  /\ config.enabled
  /\ Cardinality(NightTasks) = 2
  /\ due \cap listed = {}

LampDarkAtNight == Settled /\ InNight(config.night, minute) => led = 0
=============================================================================
