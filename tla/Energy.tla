------------------------------- MODULE Energy --------------------------------
(***************************************************************************)
(* The energy meter of the TC1 firmware: the interrupt that counts the     *)
(* pulses and keeps the ring of power readings, the daily record of the    *)
(* count, what is reported from it, the copy of the ring that the web      *)
(* page's request makes while the interrupt goes on, power cuts, and the   *)
(* clock that starts in 1970 and jumps when it is set.                     *)
(*                                                                         *)
(* Counts are unsigned words of Word values (2^32 in the code); a day is   *)
(* its tm_mday, the month has MaxDay of them, and a clock that is not set  *)
(* starts on the first. A reading is abstracted to its number in the order *)
(* they are made; number 0 is the word of a place not written yet.         *)
(***************************************************************************)
EXTENDS Integers, Sequences

CONSTANTS
  Word,          \* values of a counter
  PW_NUM,        \* length of the ring
  MaxReadings,   \* bound: readings since the boot
  MaxDay,        \* days of a month
  MaxPulses, MaxMidnights, MaxCuts   \* bounds

ASSUME EnergyAssumption ==
  /\ Word \in Nat /\ Word > 1
  /\ PW_NUM \in Nat \ {0} /\ MaxReadings \in Nat
  /\ MaxPulses \in Nat /\ MaxMidnights \in Nat /\ MaxCuts \in Nat
  /\ MaxDay \in Nat /\ MaxMidnights < MaxDay

VARIABLES
  p_count,             \* the running count, in memory
  user_config,         \* p_count_1_day_ago and p_count_2_days_ago, in memory
  flash,               \* the same, as last saved
  last_check_day,      \* 0: none since the boot
  day, synced,         \* the day the clock shows, and whether it has been set
  recording,           \* recordDailyPCount: idle, between its two writes, before its save
  power_record,        \* the ring
  page,                \* GetPowerRecord's loop: the number it is at, what it has copied;
                       \* history: the last reading when it began
  pulses, midnights, cuts, \* pulses, midnights and power cuts so far
  since,               \* history: pulses since the boot or the last record
  booked,              \* history: pulses recorded so far, in memory and in flash
  span,                \* history: pulses of the last record, in memory and in flash
  torn,                \* history: a record of which only the first half is written
  due,                 \* history: the day of the last check is over
  wrapped,             \* history: p_count has passed its last value
  lost                 \* history: a record before the first pulse since the boot

counts == <<p_count, user_config, flash, since, booked, span, torn, wrapped, lost>>
vars == <<counts, last_check_day, day, synced, recording, power_record, page, pulses, midnights,
          cuts, due>>

Count == 0 .. Word - 1
Days == 1 .. MaxDay
Pair(S) == [memory : S, flash : S]

TypeOK ==
  /\ p_count \in Count
  /\ user_config \in [p_count_1_day_ago : Count, p_count_2_days_ago : Count]
  /\ flash \in [p_count_1_day_ago : Count, p_count_2_days_ago : Count]
  /\ last_check_day \in {0} \cup Days
  /\ day \in Days /\ synced \in BOOLEAN
  /\ recording \in {"idle", "booking", "saving"}
  /\ power_record.idx \in 1 .. MaxReadings
  /\ power_record.powers \in [0 .. PW_NUM - 1 -> 0 .. MaxReadings]
  /\ page \in [next : 0 .. MaxReadings + 1, newest : 0 .. MaxReadings,
              got : Seq(0 .. MaxReadings)]
  /\ pulses \in 0 .. MaxPulses /\ midnights \in 0 .. MaxMidnights /\ cuts \in 0 .. MaxCuts
  /\ since \in 0 .. MaxPulses
  /\ booked \in Pair(0 .. MaxPulses) /\ span \in Pair(0 .. MaxPulses)
  /\ torn \in Pair(BOOLEAN)
  /\ due \in BOOLEAN /\ wrapped \in BOOLEAN /\ lost \in BOOLEAN

NoReadings == [idx |-> 1, powers |-> [i \in 0 .. PW_NUM - 1 |-> IF i = 1 % PW_NUM THEN 1 ELSE 0]]
NoPage == [next |-> 0, newest |-> 0, got |-> <<>>]

Init ==
  /\ p_count = 0
  /\ user_config = [p_count_1_day_ago |-> 0, p_count_2_days_ago |-> 0]
  /\ flash = user_config
  /\ last_check_day = 0 /\ day = 1 /\ synced = FALSE /\ recording = "idle"
  /\ power_record = NoReadings /\ page = NoPage
  /\ pulses = 0 /\ midnights = 0 /\ cuts = 0 /\ since = 0
  /\ booked = [memory |-> 0, flash |-> 0] /\ span = [memory |-> 0, flash |-> 0]
  /\ torn = [memory |-> FALSE, flash |-> FALSE]
  /\ due = FALSE /\ wrapped = FALSE /\ lost = FALSE

-----------------------------------------------------------------------------
(* PowerIrqHandler. *)

(* SetPowerRecord, n times. *)
SetPowerRecord(pr, n) ==
  [idx |-> pr.idx + n,
   powers |-> [i \in 0 .. PW_NUM - 1 |->
                 IF \E k \in pr.idx + 1 .. pr.idx + n : k % PW_NUM = i
                 THEN CHOOSE k \in pr.idx + 1 .. pr.idx + n :
                        k % PW_NUM = i /\ pr.idx + n - k < PW_NUM
                 ELSE pr.powers[i]]]

(* Mutated: the count goes on from the day before. *)
ResumedFromTwoDays == IF p_count = 0 THEN user_config.p_count_2_days_ago ELSE p_count

(* Mutated: the count starts from 0 after a boot. *)
ResumedFromZero == p_count

(* The first pulse since the boot goes on from the last record. *)
Resumed == IF p_count = 0 THEN user_config.p_count_1_day_ago ELSE p_count

(* A pulse within the second of the one before makes no reading; one in a    *)
(* later second makes one for the second that ended and one for each that    *)
(* passed without a pulse.                                                   *)
Pulse ==
  /\ pulses < MaxPulses /\ pulses' = pulses + 1
  /\ p_count' = (Resumed + 1) % Word
  /\ wrapped' = (wrapped \/ Resumed + 1 = Word)
  /\ since' = since + 1
  /\ \E n \in 0 .. 2 :
       /\ power_record.idx + n <= MaxReadings
       /\ power_record' = SetPowerRecord(power_record, n)
  /\ UNCHANGED <<user_config, flash, last_check_day, day, synced, recording, page, midnights,
                 cuts, booked, span, torn, due, lost>>

-----------------------------------------------------------------------------
(* GetPowerRecord, for a request of the web page: page.newest is not 0 while *)
(* it is under way. The interrupt may come between any two of its reads.     *)

(* Mutated: the number that is overwritten next counts as still there. *)
FirstReadingOff(last, idx) ==
  LET asked == IF idx < last - PW_NUM THEN 0 ELSE idx
      from  == IF asked > 0 THEN asked ELSE last - PW_NUM + 1
  IN IF from < 0 THEN 0 ELSE from

(* The number asked for, or the oldest one still there. *)
FirstReading(last, idx) ==
  LET asked == IF idx <= last - PW_NUM THEN 0 ELSE idx
      from  == IF asked > 0 THEN asked ELSE last - PW_NUM + 1
  IN IF from < 0 THEN 0 ELSE from

(* A request for a number that has not been made yet is answered at once. *)
GetPowerRecord ==
  /\ page.newest = 0
  /\ \E idx \in 0 .. power_record.idx :
       page' = [next |-> FirstReading(power_record.idx, idx), newest |-> power_record.idx,
                got |-> <<>>]
  /\ UNCHANGED <<counts, last_check_day, day, synced, recording, power_record, pulses,
                 midnights, cuts, due>>

CopyReading ==
  /\ page.newest # 0 /\ page.next <= power_record.idx
  /\ page' = [page EXCEPT !.next = @ + 1,
                          !.got = Append(@, power_record.powers[page.next % PW_NUM])]
  /\ UNCHANGED <<counts, last_check_day, day, synced, recording, power_record, pulses,
                 midnights, cuts, due>>

EndCopy ==
  /\ page.newest # 0 /\ page.next > power_record.idx
  /\ page' = NoPage
  /\ UNCHANGED <<counts, last_check_day, day, synced, recording, power_record, pulses,
                 midnights, cuts, due>>

-----------------------------------------------------------------------------
(* recordDailyPCount, once a minute. *)

(* Mutated: the day is remembered before it is compared. *)
CheckAnyDay ==
  /\ recording = "idle"
  /\ last_check_day' = day
  /\ UNCHANGED <<counts, day, synced, recording, power_record, page, pulses, midnights, cuts,
                 due>>

Check ==
  /\ recording = "idle"
  /\ last_check_day \in {0, day}
  /\ last_check_day' = day
  /\ UNCHANGED <<counts, day, synced, recording, power_record, page, pulses, midnights, cuts,
                 due>>

(* Another day than at the last check: the clock was set, or midnight        *)
(* passed. The record of the day before is moved on, unless it is 0.         *)
Record ==
  /\ recording = "idle" /\ last_check_day \notin {0, day}
  /\ recording' = "booking" /\ last_check_day' = day /\ due' = FALSE
  /\ IF user_config.p_count_1_day_ago # 0
     THEN /\ user_config' = [user_config EXCEPT !.p_count_2_days_ago = user_config.p_count_1_day_ago]
          /\ torn' = [torn EXCEPT !.memory = TRUE]
     ELSE UNCHANGED <<user_config, torn>>
  /\ UNCHANGED <<p_count, flash, day, synced, power_record, page, pulses, midnights, cuts,
                 since, booked, span, wrapped, lost>>

(* Then the count is recorded. *)
RecordCount ==
  /\ recording = "booking" /\ recording' = "saving"
  /\ user_config' = [user_config EXCEPT !.p_count_1_day_ago = p_count]
  /\ torn' = [torn EXCEPT !.memory = FALSE]
  /\ since' = 0
  /\ booked' = [booked EXCEPT !.memory = @ + since]
  /\ span' = [span EXCEPT !.memory = since]
  /\ lost' = (lost \/ p_count = 0)
  /\ UNCHANGED <<p_count, flash, last_check_day, day, synced, power_record, page, pulses,
                 midnights, cuts, due, wrapped>>

(* The whole configuration goes to flash. *)
AppContextUpdate ==
  /\ flash' = user_config
  /\ booked' = [booked EXCEPT !.flash = booked.memory]
  /\ span' = [span EXCEPT !.flash = span.memory]
  /\ torn' = [torn EXCEPT !.flash = torn.memory]
  /\ UNCHANGED <<p_count, user_config, last_check_day, day, synced, power_record, page, pulses,
                 midnights, cuts, since, due, wrapped, lost>>

Save == recording = "saving" /\ recording' = "idle" /\ AppContextUpdate

(* A handler of another thread saves its own change, at any moment. *)
SaveOfOthers == AppContextUpdate /\ UNCHANGED recording

-----------------------------------------------------------------------------
(* What UserMqttHassPower reports. p_count is unsigned, and so is the first  *)
(* difference: its test for less than 0 is never true. The two records are   *)
(* ints: the second test is real.                                            *)
Signed(n) == IF 2 * n >= Word THEN n - Word ELSE n

ConsumptionToday == (p_count - user_config.p_count_1_day_ago) % Word
ConsumptionYesterday ==
  LET d == Signed((user_config.p_count_1_day_ago - user_config.p_count_2_days_ago) % Word)
  IN IF d < 0 THEN 0 ELSE d

-----------------------------------------------------------------------------
(* Time and power. *)

(* Fewer than a month's days pass between two checks. *)
Midnight ==
  /\ midnights < MaxMidnights /\ midnights' = midnights + 1
  /\ day' = (day % MaxDay) + 1
  /\ due' = (due \/ (synced /\ last_check_day = day))
  /\ UNCHANGED <<counts, last_check_day, synced, recording, power_record, page, pulses, cuts>>

(* The first answer of a time server, on any day. *)
Sync ==
  /\ ~synced /\ synced' = TRUE
  /\ day' \in Days
  /\ UNCHANGED <<counts, last_check_day, recording, power_record, page, pulses, midnights, cuts,
                 due>>

PowerCut ==
  /\ cuts < MaxCuts /\ cuts' = cuts + 1
  /\ p_count' = 0 /\ user_config' = flash
  /\ last_check_day' = 0 /\ day' = 1 /\ synced' = FALSE /\ recording' = "idle"
  /\ power_record' = NoReadings /\ page' = NoPage
  /\ since' = 0 /\ due' = FALSE
  /\ booked' = [booked EXCEPT !.memory = booked.flash]
  /\ span' = [span EXCEPT !.memory = span.flash]
  /\ torn' = [torn EXCEPT !.memory = torn.flash]
  /\ UNCHANGED <<flash, pulses, midnights, wrapped, lost>>

Next ==
  \/ Pulse
  \/ GetPowerRecord \/ CopyReading \/ EndCopy
  \/ Check \/ Record \/ RecordCount \/ Save \/ SaveOfOthers
  \/ Midnight \/ Sync \/ PowerCut

Spec == Init /\ [][Next]_vars
FairSpec == Spec /\ WF_vars(Check \/ Record \/ RecordCount \/ Save)

-----------------------------------------------------------------------------
(* Properties. *)

(* What is reported as consumed today is what was counted since the last     *)
(* record or the boot, from the first pulse after a boot on (before it, the  *)
(* unsigned difference is whatever the record is below 0); what is reported  *)
(* for yesterday is what the last record has added, unless it was made       *)
(* before the first pulse since a boot, exceeds an int, or is being moved on *)
(* by another one, in memory or (saved by another thread just then) in the   *)
(* flash of the last boot.                                                   *)
ReportsAreCounted ==
  wrapped \/
    /\ p_count # 0 => ConsumptionToday = since % Word
    /\ lost \/ torn.memory \/ 2 * span.memory >= Word \/ ConsumptionYesterday = span.memory

(* The record in memory and the one in flash are the sum of all that was     *)
(* recorded: no pulse is recorded twice over boots, records, interrupted     *)
(* saves and saves by others, unless a record was made before the first      *)
(* pulse since a boot.                                                       *)
BookedOnce ==
  lost \/ wrapped \/
    /\ user_config.p_count_1_day_ago = booked.memory
    /\ flash.p_count_1_day_ago = booked.flash

(* A day of the set clock on which a check was made is recorded after it     *)
(* ends. (A midnight between the first synchronisation and the next check    *)
(* may lead to the very day the clock showed before it was set.)             *)
MidnightRecorded == []<>~due

(* What the web page gets for a number is the reading of that number as long *)
(* as that is in the ring; and else that reading, or one made since the copy *)
(* began that took its place. So a copy without an interrupt is in order     *)
(* from the first to the last, and one with an interrupt may hold newer      *)
(* readings among its oldest ones, and further ones at its end.              *)
ReadingsInOrder ==
  page.newest # 0 =>
    /\ page.newest <= power_record.idx /\ page.next <= power_record.idx + 1
    /\ page.newest - (page.next - Len(page.got)) < PW_NUM
    /\ \A i \in 1 .. Len(page.got) :
         LET number == page.next - Len(page.got) + i - 1
         IN \/ page.got[i] = number
            \/ /\ number <= power_record.idx - PW_NUM
               /\ page.got[i] \in page.newest + 1 .. power_record.idx
               /\ page.got[i] % PW_NUM = number % PW_NUM
=============================================================================
