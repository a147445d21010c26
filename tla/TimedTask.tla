----------------------------- MODULE TimedTask -----------------------------
(***************************************************************************)
(* The timed-task engine of the TC1 firmware: the fixed array of task      *)
(* slots, the list of pending tasks kept in order of due time, the web     *)
(* handlers that add, delete and clear tasks, the main loop that executes  *)
(* the task at the head, and what is left of all that after a power cut.   *)
(*                                                                         *)
(* Every handler runs under TaskLock, so each is one step; the only place  *)
(* a step can be torn is a power cut between its two flash writes          *)
(* (PowerCutDuringTask). Times are in an abstract unit: DAY of them make a *)
(* day and MINUTE of them a minute.                                        *)
(***************************************************************************)
EXTENDS Integers, Sequences, FiniteSets, SequencesExt

CONSTANTS
  MAX_TASK_NUM,   \* number of slots (64 in the firmware)
  SOCKET_NUM,     \* number of sockets (6 in the firmware)
  DAY,            \* day_sec
  MINUTE,         \* 60 seconds
  TZ,             \* 28800 seconds: Beijing time is the epoch time plus TZ
  LOOP_MASK_MINUTES, \* largest loop duration or interval, in minutes
  PRS_MIN,        \* the due times a web request may ask for
  PRS_MAX,
  MaxTime,        \* bound on the clock
  Requests,       \* the decoded requests clients send to POST /task
  LegacyTasks,    \* task arrays a previous firmware may have left in flash
  NIGHT_START,    \* user_config->night_mode_start and _end, in minutes
  NIGHT_END

Slots   == 0 .. MAX_TASK_NUM - 1
Sockets == 1 .. SOCKET_NUM
Minutes == 0 .. DAY \div MINUTE - 1
WeekDays == 0 .. 6                                \* Sunday is bit 0

(* Operation codes of main.h. *)
SWITCH_ALL_SOCKETS == 0
SWITCH_LED_ENABLE == 7
REBOOT_SYSTEM == 8
CONFIG_WIFI == 9
RESET_SYSTEM == 10
SWITCH_CHILD_LOCK_ENABLE == 11
Operations == 0 .. 13
SystemOperations == {REBOOT_SYSTEM, CONFIG_WIFI, RESET_SYSTEM}

(***************************************************************************)
(* struct TimedTask. The packed integers weekday and loop_end are kept     *)
(* unpacked: kind tells the encoding of weekday (a set of days, a loop     *)
(* with its flag in bit 31, or a loop of an older firmware with its flag   *)
(* in bit 7), mark is bit 8 of a set of days, start is the start minute    *)
(* plus one (0: not encoded).                                              *)
(***************************************************************************)
Task ==
  [on_use : BOOLEAN, prs_time : Nat, operation : Operations, on : {-1, 0, 1},
   kind : {"timed", "loop", "oldloop"},
   days : SUBSET WeekDays, mark : BOOLEAN,
   duration : Nat, interval : Nat, start : Nat,
   end : Nat, daily : BOOLEAN, start_on : BOOLEAN, dow : SUBSET WeekDays]

(* What a free slot holds is never read: whoever claims it fills every field. *)
FreeTask ==
  [on_use |-> FALSE, prs_time |-> 0, operation |-> 0, on |-> 0, kind |-> "timed",
   days |-> {}, mark |-> FALSE, duration |-> 0, interval |-> 0, start |-> 0,
   end |-> 0, daily |-> FALSE, start_on |-> FALSE, dow |-> {}]

Request ==
  [fields : Nat, prs_time : Int, operation : Int, on : Int,
   days : SUBSET WeekDays, mark : BOOLEAN, duration : Nat, interval : Nat,
   end : Nat, start : Int, rep : BOOLEAN, dow : SUBSET WeekDays]

IsLoop(t) == t.kind = "loop"
IsOnce(t) == t.kind = "timed" /\ t.days = {} /\ ~t.mark    \* weekday = 0

ASSUME ConstantsAssumption ==
  /\ MAX_TASK_NUM \in Nat \ {0}
  /\ SOCKET_NUM \in 1 .. 6
  /\ MINUTE \in Nat \ {0}
  /\ DAY \in Nat \ {0}
  /\ DAY % MINUTE = 0
  /\ TZ \in Nat
  /\ LOOP_MASK_MINUTES \in Nat \ {0}
  /\ PRS_MIN \in Nat /\ PRS_MAX \in Nat
  /\ MaxTime \in Nat
  /\ NIGHT_START \in Nat /\ NIGHT_END \in Nat

ASSUME InputsAssumption ==
  /\ \A r \in Requests :
       /\ DOMAIN r = DOMAIN [fields |-> 0, prs_time |-> 0, operation |-> 0, on |-> 0,
                             days |-> {}, mark |-> FALSE, duration |-> 0, interval |-> 0,
                             end |-> 0, start |-> 0, rep |-> FALSE, dow |-> {}]
       /\ r \in Request
  /\ LegacyTasks \subseteq [Slots -> Task]
  /\ \A a \in LegacyTasks : \A s \in Slots : ~a[s].on_use => a[s] = FreeTask

VARIABLES
  agenda,   \* [timed_tasks, task_top, task_count] of user_config; task_top is
            \* the chain of next pointers as a sequence of slots
  out,      \* [socket_status, led, child_lock] of user_config
  flash,    \* the saved user_config: [timed_tasks, out]
  now,      \* time(NULL)
  phase,    \* "off", "boot" (in RebuildTaskList) or "run" (the main loop)
  boot_i,   \* RebuildTaskList's loop index
  owner     \* history: the loop task that left a socket on, or NoTask

vars == <<agenda, out, flash, now, phase, boot_i, owner>>

Agenda ==
  [timed_tasks : [Slots -> Task], task_top : Seq(Slots), task_count : Int]

NoTask == -1
Listed(a) == {a.task_top[i] : i \in 1 .. Len(a.task_top)}

Output ==
  [socket_status : [Sockets -> {0, 1}], led : {-1, 0, 1}, child_lock : {-1, 0, 1}]

TypeOK ==
  /\ agenda \in Agenda
  /\ out \in Output
  /\ flash \in [timed_tasks : [Slots -> Task], out : Output]
  /\ now \in Nat
  /\ phase \in {"off", "boot", "run"}
  /\ boot_i \in 0 .. MAX_TASK_NUM
  /\ owner \in [Sockets -> Slots \cup {NoTask}]

-----------------------------------------------------------------------------
(* Calendar arithmetic, in Beijing time. 1970-01-01 was a Thursday. *)

TimeOfDay(t) == (t + TZ) % DAY
WeekDay(t)   == ((t + TZ) \div DAY + 4) % 7

Least(S) == CHOOSE x \in S : \A y \in S : x <= y

(* Mutated: the week day is that of the UTC day. *)
FindNextMatchTimeUTC(mask, from, hhmm, include_today) ==
  LET bj      == from + TZ
      base    == bj - (bj % DAY)
      Cand(d) == base + d * DAY + hhmm
      D == {d \in 0 .. 13 : /\ (from \div DAY + 4 + d) % 7 \in mask
                            /\ Cand(d) > bj
                            /\ include_today \/ d > 0}
  IN  IF D = {} THEN from + 7 * DAY ELSE Cand(Least(D)) - TZ

FindNextMatchTime(mask, from, hhmm, include_today) ==
  LET bj      == from + TZ
      base    == bj - (bj % DAY)
      Cand(d) == base + d * DAY + hhmm
      D == {d \in 0 .. 13 : /\ (bj \div DAY + 4 + d) % 7 \in mask
                            /\ Cand(d) > bj
                            /\ include_today \/ d > 0}
  IN  IF D = {} THEN from + 7 * DAY ELSE Cand(Least(D)) - TZ

-----------------------------------------------------------------------------
(* The list of pending tasks. *)

Due(a, i) == a.timed_tasks[a.task_top[i]].prs_time

(* Mutated: never hooked in before the head. *)
InsertionIndexBehindFirst(a, s) ==
  LET n == Len(a.task_top)
      p == a.timed_tasks[s].prs_time
  IN  IF n = 0 THEN 1
      ELSE 1 + Least({i \in 1 .. n :
                        i = n \/ (p >= Due(a, i) /\ p < Due(a, i + 1))})

(* The index at which a walk from the head hooks in slot s. *)
InsertionIndex(a, s) ==
  LET n == Len(a.task_top)
      p == a.timed_tasks[s].prs_time
  IN  IF n = 0 \/ p <= Due(a, 1) THEN 1
      ELSE 1 + Least({i \in 1 .. n :
                        i = n \/ (p >= Due(a, i) /\ p < Due(a, i + 1))})

AddTaskSingle(a, s) ==
  [timed_tasks |-> a.timed_tasks,
   task_top    |-> InsertAt(a.task_top, InsertionIndex(a, s), s),
   task_count  |-> a.task_count + 1]

AddTaskWeek(a, s, t) ==
  AddTaskSingle(
    [a EXCEPT !.timed_tasks[s].prs_time =
       FindNextMatchTime(a.timed_tasks[s].days, t, TimeOfDay(@), TRUE)], s)

AddTask(a, s, t) ==
  IF IsLoop(a.timed_tasks[s]) \/ IsOnce(a.timed_tasks[s])
    THEN AddTaskSingle(a, s)
    ELSE AddTaskWeek(a, s, t)

Unhooked(a) ==
  [timed_tasks |-> a.timed_tasks, task_top |-> Tail(a.task_top),
   task_count  |-> a.task_count - 1]

DelFirstTask(a, t) ==
  LET s == Head(a.task_top)
      p == a.timed_tasks[s]
  IN  IF IsLoop(p) \/ IsOnce(p)
        THEN [Unhooked(a) EXCEPT !.timed_tasks[s] = FreeTask]
        ELSE AddTask([Unhooked(a) EXCEPT !.timed_tasks[s].prs_time =
                        FindNextMatchTime(p.days, t, TimeOfDay(p.prs_time), FALSE)],
                     s, t)

(* Mutated: what an earlier version did, release the slot and claim one again. *)
RequeueIntoNewSlot(a, next, on, t) ==
  LET s == Head(a.task_top)
      b == [Unhooked(a) EXCEPT !.timed_tasks[s] = FreeTask]
      f == Least({i \in Slots : ~b.timed_tasks[i].on_use})
  IN  AddTask([b EXCEPT !.timed_tasks[f] =
                 [a.timed_tasks[s] EXCEPT !.prs_time = next, !.on = on]], f, t)

(* A loop task is moved in place: it keeps its slot. *)
RequeueFirstTask(a, next, on, t) ==
  LET s == Head(a.task_top)
  IN  AddTask([Unhooked(a) EXCEPT !.timed_tasks[s] =
                 [@ EXCEPT !.prs_time = next, !.on = on]], s, t)

(* The sequence q without the elements of S, in the same order. Same value  *)
(* as SelectSeq, defined without recursion.                                 *)
Without(q, S) ==
  LET K == {i \in 1 .. Len(q) : q[i] \notin S}
  IN  [k \in 1 .. Cardinality(K) |->
         q[CHOOSE i \in K : Cardinality({j \in K : j <= i}) = k]]

(* Unlinking every slot of S and releasing it. *)
Removed(a, S) ==
  [timed_tasks |-> [s \in Slots |-> IF s \in S THEN FreeTask ELSE a.timed_tasks[s]],
   task_top    |-> Without(a.task_top, S),
   task_count  |-> a.task_count - Cardinality(S)]

-----------------------------------------------------------------------------
(* What a task does to the outputs. *)

UserRelaySet(o, k, on) ==
  [o EXCEPT !.socket_status[k] = IF on >= 0 THEN on ELSE 1 - @]

UserRelaySetAll(o, on) ==
  [o EXCEPT !.socket_status =
     [k \in Sockets |-> IF on >= 0 THEN on ELSE 1 - @[k]]]

Executed(o, op, on) ==
  CASE op \in Sockets                -> UserRelaySet(o, op, on)
    [] op = SWITCH_ALL_SOCKETS       -> UserRelaySetAll(o, on)
    [] op = SWITCH_LED_ENABLE        -> [o EXCEPT !.led = on]
    [] op = SWITCH_CHILD_LOCK_ENABLE -> [o EXCEPT !.child_lock = on]
    [] OTHER                         -> o

(* A loop that runs out of its window switches its sockets off. *)
SwitchedOff(o, op) ==
  IF op \in Sockets \cup {SWITCH_ALL_SOCKETS} THEN Executed(o, op, 0) ELSE o

Covers(op, k) == op \in {k, SWITCH_ALL_SOCKETS}

(* AppContextUpdate: the whole user_config goes to flash. *)
Image(a, o) == [timed_tasks |-> a.timed_tasks, out |-> o]

FactoryOut == [socket_status |-> [k \in Sockets |-> 1], led |-> 1, child_lock |-> 0]
EmptyAgenda ==
  [timed_tasks |-> [s \in Slots |-> FreeTask], task_top |-> <<>>, task_count |-> 0]

-----------------------------------------------------------------------------
(* Web handlers. *)

Encoded(r) ==
  LET loop == r.fields >= 6 /\ r.duration > 0
      Cap(m) == IF m > LOOP_MASK_MINUTES THEN LOOP_MASK_MINUTES ELSE m
      start  == IF r.fields >= 8 /\ r.start \in Minutes THEN r.start
                ELSE TimeOfDay(r.prs_time) \div MINUTE
      common == [FreeTask EXCEPT !.on_use = TRUE, !.prs_time = r.prs_time,
                                 !.operation = r.operation, !.on = r.on]
  IN  IF loop
        THEN [common EXCEPT !.kind = "loop", !.duration = Cap(r.duration),
                            !.interval = Cap(r.interval), !.start = start + 1,
                            !.end = r.end, !.daily = r.rep, !.start_on = (r.on = 1),
                            !.dow = r.dow]
        ELSE [common EXCEPT !.days = r.days, !.mark = r.mark]

(* Mutated: the switch value is not looked at. *)
ValidAnySwitchValue(r) ==
  /\ r.fields >= 4
  /\ r.prs_time >= PRS_MIN /\ r.prs_time <= PRS_MAX
  /\ r.operation \in Operations

Valid(r) ==
  /\ r.fields >= 4
  /\ r.prs_time >= PRS_MIN /\ r.prs_time <= PRS_MAX
  /\ r.operation \in Operations
  /\ r.on \in {-1, 0, 1}

FreeSlots(a) == {s \in Slots : ~a.timed_tasks[s].on_use}

(* Mutated: the task is not saved. *)
HttpAddTaskUnsaved(r) ==
  /\ phase = "run"
  /\ FreeSlots(agenda) # {}
  /\ Valid(r)
  /\ LET s == Least(FreeSlots(agenda))
     IN  agenda' = AddTask([agenda EXCEPT !.timed_tasks[s] = Encoded(r)], s, now)
  /\ UNCHANGED <<out, flash, now, phase, boot_i, owner>>

(* A rejected request claims a slot and releases it: nothing is left of it. *)
HttpAddTask(r) ==
  /\ phase = "run"
  /\ FreeSlots(agenda) # {}
  /\ Valid(r)
  /\ LET s == Least(FreeSlots(agenda))
     IN  agenda' = AddTask([agenda EXCEPT !.timed_tasks[s] = Encoded(r)], s, now)
  /\ flash' = Image(agenda', out)
  /\ UNCHANGED <<out, now, phase, boot_i, owner>>

(* After a removal, no loop is left that owns a socket. *)
Disowned(own, S) == [k \in Sockets |-> IF own[k] \in S THEN NoTask ELSE own[k]]

Release(S) ==
  /\ agenda' = Removed(agenda, S)
  /\ owner' = Disowned(owner, S)
  /\ flash' = Image(agenda', out)
  /\ UNCHANGED <<out, now, phase, boot_i>>

HttpDelTask(s) ==
  /\ phase = "run"
  /\ s \in Listed(agenda)
  /\ Release({s})

HttpClearTasks ==
  /\ phase = "run"
  /\ Release(Listed(agenda))

HttpClearLoopTasks ==
  /\ phase = "run"
  /\ Release({s \in Listed(agenda) : IsLoop(agenda.timed_tasks[s])})

HttpClearScheduledTasks ==
  /\ phase = "run"
  /\ Release({s \in Listed(agenda) : ~IsLoop(agenda.timed_tasks[s])})

-----------------------------------------------------------------------------
(* ProcessTask, called by the main loop once a second when the head is due. *)

TopSlot == Head(agenda.task_top)
Top     == agenda.timed_tasks[TopSlot]

TopIsDue ==
  /\ phase = "run"
  /\ agenda.task_top # <<>>
  /\ now >= Top.prs_time

(* The part of a day the loop task t may run in; end = 0 means always. *)
StartMinute(t) ==
  IF t.start > 0 THEN t.start - 1 ELSE t.prs_time % (DAY \div MINUTE)

InWindow(t, minute) ==
  \/ t.end = 0
  \/ /\ StartMinute(t) <= t.end
     /\ minute >= StartMinute(t) /\ minute < t.end
  \/ /\ StartMinute(t) > t.end
     /\ minute >= StartMinute(t) \/ minute < t.end

(* The sockets a step of loop task s leaves on are s's; any other task's are *)
(* nobody's.                                                                 *)
OwnerAfter(op, who) ==
  owner' = [k \in Sockets |->
              IF Covers(op, k)
                THEN IF out'.socket_status[k] = 1 THEN who ELSE NoTask
                ELSE owner[k]]

ProcessTimed ==
  /\ TopIsDue
  /\ ~IsLoop(Top)
  /\ Top.operation \notin SystemOperations
  /\ out' = Executed(out, Top.operation, Top.on)
  /\ agenda' = DelFirstTask(agenda, now)
  /\ flash' = Image(agenda', out')
  /\ OwnerAfter(Top.operation, NoTask)
  /\ UNCHANGED <<now, phase, boot_i>>

LoopDue == TopIsDue /\ IsLoop(Top) /\ Top.operation \notin SystemOperations
TopInWindow == InWindow(Top, TimeOfDay(now) \div MINUTE)

(* Mutated: no delay is as good as any. *)
LoopDelayUnclamped(t) ==
  (IF t.on = 0 THEN t.interval ELSE t.duration) * MINUTE

(* Mutated: both halves of the period wait for the interval. *)
LoopDelayIntervalOnly(t) == t.interval * MINUTE

LoopDelay(t) ==
  LET m == IF t.on = 0 THEN t.interval ELSE t.duration
  IN  (IF m > 0 THEN m ELSE 1) * MINUTE

ProcessLoopInWindow ==
  /\ LoopDue
  /\ TopInWindow
  /\ out' = Executed(out, Top.operation, Top.on)
  /\ agenda' = RequeueFirstTask(agenda, now + LoopDelay(Top),
                                IF Top.on >= 0 THEN 1 - Top.on ELSE Top.on, now)
  /\ flash' = Image(agenda', out')
  /\ OwnerAfter(Top.operation, TopSlot)
  /\ UNCHANGED <<now, phase, boot_i>>

Repeats(t) == t.daily \/ t.dow # {}

ProcessLoopRearm ==
  /\ LoopDue
  /\ ~TopInWindow
  /\ Repeats(Top)
  /\ out' = SwitchedOff(Executed(out, Top.operation, Top.on), Top.operation)
  /\ LET mask == IF Top.dow # {} THEN Top.dow ELSE WeekDays
         next == FindNextMatchTime(mask, now, StartMinute(Top) * MINUTE, TRUE)
         on   == IF Top.on = -1 THEN -1 ELSE IF Top.start_on THEN 1 ELSE 0
     IN  agenda' = RequeueFirstTask(agenda, next, on, now)
  /\ flash' = Image(agenda', out')
  /\ OwnerAfter(Top.operation, TopSlot)
  /\ UNCHANGED <<now, phase, boot_i>>

(* Mutated: a loop whose window is over switches once more. *)
ProcessLoopEndLeftOn ==
  /\ LoopDue
  /\ ~TopInWindow
  /\ ~Repeats(Top)
  /\ out' = Executed(out, Top.operation, Top.on)
  /\ agenda' = DelFirstTask(agenda, now)
  /\ flash' = Image(agenda', out')
  /\ OwnerAfter(Top.operation, TopSlot)
  /\ UNCHANGED <<now, phase, boot_i>>

ProcessLoopEnd ==
  /\ LoopDue
  /\ ~TopInWindow
  /\ ~Repeats(Top)
  /\ out' = SwitchedOff(Executed(out, Top.operation, Top.on), Top.operation)
  /\ agenda' = DelFirstTask(agenda, now)
  /\ flash' = Image(agenda', out')
  /\ OwnerAfter(Top.operation, TopSlot)
  /\ UNCHANGED <<now, phase, boot_i>>

ProcessReboot ==
  /\ TopIsDue
  /\ Top.operation = REBOOT_SYSTEM
  /\ agenda' = DelFirstTask(agenda, now)
  /\ flash' = Image(agenda', out)
  /\ phase' = "off"
  /\ UNCHANGED <<out, now, boot_i, owner>>

ProcessConfigWifi ==
  /\ TopIsDue
  /\ Top.operation = CONFIG_WIFI
  /\ agenda' = DelFirstTask(agenda, now)
  /\ flash' = Image(agenda', out)
  /\ UNCHANGED <<out, now, phase, boot_i, owner>>

ProcessReset ==
  /\ TopIsDue
  /\ Top.operation = RESET_SYSTEM
  /\ agenda' = EmptyAgenda
  /\ out' = FactoryOut
  /\ flash' = Image(agenda', out')
  /\ owner' = [k \in Sockets |-> NoTask]
  /\ phase' = "off"
  /\ UNCHANGED <<now, boot_i>>

ProcessTask ==
  \/ ProcessTimed
  \/ ProcessLoopInWindow
  \/ ProcessLoopRearm
  \/ ProcessLoopEnd
  \/ ProcessReboot
  \/ ProcessConfigWifi
  \/ ProcessReset

-----------------------------------------------------------------------------
(* Power, boot and the clock. *)

PowerCut ==
  /\ phase # "off"
  /\ phase' = "off"
  /\ UNCHANGED <<agenda, out, flash, now, boot_i, owner>>

(* The power fails after ProcessTask's first AppContextUpdate: the outputs   *)
(* are saved, the task is still there as it was.                             *)
PowerCutDuringTask ==
  /\ TopIsDue
  /\ Top.operation \notin SystemOperations
  /\ out' = Executed(out, Top.operation, Top.on)
  /\ flash' = Image(agenda, out')
  /\ OwnerAfter(Top.operation, IF IsLoop(Top) THEN TopSlot ELSE NoTask)
  /\ phase' = "off"
  /\ UNCHANGED <<agenda, now, boot_i>>

(* The clock starts from 1970 after a power loss; a warm restart may keep it. *)
PowerOn ==
  /\ phase = "off"
  /\ phase' = "boot"
  /\ boot_i' = 0
  /\ agenda' = [timed_tasks |-> flash.timed_tasks, task_top |-> <<>>, task_count |-> 0]
  /\ out' = flash.out
  /\ now' \in {0, now}
  /\ UNCHANGED <<flash, owner>>

(* One round of RebuildTaskList's loop: encodings of older firmwares are     *)
(* brought up to date, then the task is hooked in.                           *)
Migrated(t) ==
  LET minute == TimeOfDay(t.prs_time) \div MINUTE
  IN  IF /\ t.kind = "timed" /\ t.days = {3} /\ ~t.mark
         /\ t.operation = SWITCH_LED_ENABLE
         /\ minute \in {NIGHT_START, NIGHT_END}
        THEN [t EXCEPT !.days = WeekDays, !.mark = TRUE]
      ELSE IF t.kind = "oldloop"
        THEN [t EXCEPT !.kind = "loop",
                       !.duration = IF @ < 1 THEN 1 ELSE @,
                       !.days = {}]
      ELSE t

Rebuilt(a, s, t) ==
  LET b == [a EXCEPT !.timed_tasks[s] = Migrated(@)]
  IN  IF ~IsOnce(b.timed_tasks[s]) /\ b.timed_tasks[s].prs_time <= t
        THEN AddTask(b, s, t)
        ELSE AddTaskSingle(b, s)

RebuildTaskList ==
  /\ phase = "boot"
  /\ boot_i < MAX_TASK_NUM
  /\ boot_i' = boot_i + 1
  /\ agenda' = IF agenda.timed_tasks[boot_i].on_use
                 THEN Rebuilt(agenda, boot_i, now) ELSE agenda
  /\ phase' = IF boot_i' = MAX_TASK_NUM THEN "run" ELSE "boot"
  /\ UNCHANGED <<out, flash, now, owner>>

Tick ==
  /\ phase = "run"
  /\ now < MaxTime
  /\ now' = now + 1
  /\ UNCHANGED <<agenda, out, flash, phase, boot_i, owner>>

(* UserSntpGetTime sets the clock, forwards or backwards. *)
SntpSync ==
  /\ phase = "run"
  /\ now' \in PRS_MIN .. MaxTime
  /\ UNCHANGED <<agenda, out, flash, phase, boot_i, owner>>

-----------------------------------------------------------------------------
Init ==
  /\ phase = "off"
  /\ now = 0
  /\ boot_i = 0
  /\ out = FactoryOut
  /\ agenda = EmptyAgenda
  /\ \E a \in LegacyTasks \cup {EmptyAgenda.timed_tasks} :
       flash = [timed_tasks |-> a, out |-> FactoryOut]
  /\ owner = [k \in Sockets |-> NoTask]

Next ==
  \/ \E r \in Requests : HttpAddTask(r)
  \/ \E s \in Slots : HttpDelTask(s)
  \/ HttpClearTasks
  \/ HttpClearLoopTasks
  \/ HttpClearScheduledTasks
  \/ ProcessTask
  \/ PowerCut
  \/ PowerCutDuringTask
  \/ PowerOn
  \/ RebuildTaskList
  \/ Tick
  \/ SntpSync

(* The main loop runs forever, once a second; nothing else is promised.     *)
(* ProcessTask is enabled exactly when the head is due, so this is its weak *)
(* fairness.                                                                *)
MainLoopFair == []<>~TopIsDue \/ []<><<ProcessTask>>_vars

Spec == Init /\ [][Next]_vars /\ MainLoopFair

-----------------------------------------------------------------------------
(* The list is in order of due time, names no slot twice, counts itself     *)
(* right, and holds every slot in use (of those RebuildTaskList has reached *)
(* at boot): the main loop looks at the head only, deletion and the slot    *)
(* search look at the array only, so the two views have to agree.           *)
Reached(s) == phase = "run" \/ s < boot_i

InOrder(a) ==
  \A i, j \in 1 .. Len(a.task_top) :
    i < j => a.task_top[i] # a.task_top[j] /\ Due(a, i) <= Due(a, j)

AgendaOK ==
  phase # "off" =>
    /\ InOrder(agenda)
    /\ Listed(agenda) = {s \in Slots : agenda.timed_tasks[s].on_use /\ Reached(s)}
    /\ agenda.task_count = Len(agenda.task_top)

(* A power cut at any moment costs no task the web page was told about and  *)
(* brings back none it deleted: flash holds the tasks of the array, up to   *)
(* the re-encoding and re-dating RebuildTaskList does at boot.              *)
SameTask(t, u) ==
  /\ t.on_use = u.on_use
  /\ t.operation = u.operation /\ t.on = u.on
  /\ Migrated(t).kind = Migrated(u).kind
  /\ Migrated(t).days = Migrated(u).days
  /\ IF IsLoop(Migrated(t)) \/ IsOnce(t)
       THEN t.prs_time = u.prs_time
       ELSE TimeOfDay(t.prs_time) = TimeOfDay(u.prs_time) \/ t.days = {}

FlashCurrent ==
  phase = "run" =>
    /\ flash.out = out
    /\ \A s \in Slots : SameTask(flash.timed_tasks[s], agenda.timed_tasks[s])

(* A socket that a loop task switched on still has that loop scheduled, so  *)
(* it is not left on for good when the loop's window closes, when the loop  *)
(* expires, or across a power cut.                                          *)
LoopStillScheduled ==
  \A k \in Sockets :
    phase = "run" /\ owner[k] # NoTask =>
      /\ owner[k] \in Listed(agenda)
      /\ IsLoop(agenda.timed_tasks[owner[k]])
      /\ Covers(agenda.timed_tasks[owner[k]].operation, k)

(* The main loop never leaves the task it handled due: it would handle it   *)
(* again every second and the tasks behind it would wait for ever.          *)
NoImmediateRefire ==
  [][ProcessTask /\ phase' = "run" =>
       \/ ~agenda'.timed_tasks[TopSlot].on_use
       \/ agenda'.timed_tasks[TopSlot].prs_time > now]_vars

(* A weekly task the main loop handled is due again at the first moment     *)
(* after now that has its time of day and one of its week days: the day     *)
(* arithmetic neither skips a matching day nor leaves the Beijing calendar. *)
FirstMatch(u, mask, hhmm) ==
  /\ u > now
  /\ \A v \in now + 1 .. u :
       (TimeOfDay(v) = hhmm /\ WeekDay(v) \in mask) <=> v = u

RescheduledToFirstMatch ==
  [][ProcessTask /\ phase' = "run" /\ Top.kind = "timed" /\ Top.days # {} =>
       FirstMatch(agenda'.timed_tasks[TopSlot].prs_time, Top.days,
                  TimeOfDay(Top.prs_time))]_vars

(* A task leaves the list only when a client removes it, when it was a      *)
(* one-shot task that has just run, or when it was a loop whose window is   *)
(* over for good; a moved task keeps its slot, which is its name on the web *)
(* page.                                                                    *)
RemovedByClient ==
  \/ \E s \in Slots : HttpDelTask(s)
  \/ HttpClearTasks \/ HttpClearLoopTasks \/ HttpClearScheduledTasks

NoTaskLost ==
  [][\A s \in Listed(agenda) \ Listed(agenda') :
       \/ phase' # "run" \/ phase # "run"
       \/ RemovedByClient
       \/ s = TopSlot /\ now >= Top.prs_time
            /\ \/ IsOnce(Top)
               \/ Top.operation \in SystemOperations /\ IsLoop(Top)
               \/ IsLoop(Top) /\ ~TopInWindow /\ ~Repeats(Top)]_vars

(* Every task that comes due is handled, whatever else is due: the list is  *)
(* worked off. It takes clients that stop adding tasks at some time: one    *)
(* that adds a task dated in the past every second keeps the others waiting *)
(* for as long as it does so.                                               *)
IsDue(s) ==
  /\ phase = "run"
  /\ s \in Listed(agenda)
  /\ agenda.timed_tasks[s].prs_time <= now

NoMoreRequests == <>[][\A r \in Requests : ~HttpAddTask(r)]_vars

DueTaskRuns == NoMoreRequests => \A s \in Slots : (IsDue(s) ~> ~IsDue(s))
=============================================================================
