----------------------------- MODULE EnergyProofs ----------------------------
(***************************************************************************)
(* What the energy meter records and reports is what it has counted, for   *)
(* every width of its counters, every number of pulses, midnights and      *)
(* power cuts.                                                             *)
(***************************************************************************)
EXTENDS Energy, TLAPS

Records == [p_count_1_day_ago : Count, p_count_2_days_ago : Count]

CountersTyped ==
  /\ p_count \in Count /\ user_config \in Records /\ flash \in Records
  /\ since \in Nat /\ booked \in Pair(Nat) /\ span \in Pair(Nat) /\ torn \in Pair(BOOLEAN)
  /\ wrapped \in BOOLEAN /\ lost \in BOOLEAN

(* The count goes on from the record once a pulse has come. *)
CountGoesOn ==
  IF p_count = 0 THEN since = 0 ELSE p_count = user_config.p_count_1_day_ago + since

(* A record is the sum of what was recorded, the last share of it on top of  *)
(* the record before, unless that is being moved on.                         *)
Sums(record, total, last, half) ==
  /\ record.p_count_1_day_ago = total
  /\ IF half THEN record.p_count_1_day_ago = record.p_count_2_days_ago
     ELSE record.p_count_1_day_ago = record.p_count_2_days_ago + last

(* Between its two writes a record has moved the one before on, or found     *)
(* nothing to move.                                                          *)
Moved == recording = "booking" => torn.memory \/ user_config.p_count_1_day_ago = 0

Booked ==
  /\ Sums(user_config, booked.memory, span.memory, torn.memory)
  /\ Sums(flash, booked.flash, span.flash, torn.flash)
  /\ Moved

IInv ==
  /\ CountersTyped
  /\ wrapped \/ CountGoesOn
  /\ lost \/ wrapped \/ Booked

-----------------------------------------------------------------------------
(* A count below Word is its own remainder, and every remainder is a count.  *)
LEMMA SmallMod ==
  ASSUME NEW n \in Count
  PROVE  n % Word = n
  BY EnergyAssumption DEF Count

(* A counter of the width holds a count. *)
LEMMA ModIsCount ==
  ASSUME NEW n \in Int
  PROVE  n % Word \in Count
  BY EnergyAssumption DEF Count

(* 0 is a count. *)
LEMMA ZeroIsCount == 0 \in Count
  BY EnergyAssumption DEF Count

(* The first pulse after a boot goes on from the record, as long as the      *)
(* count does not pass its last value.                                       *)
LEMMA PulseInv ==
  ASSUME IInv, Pulse
  PROVE  IInv'
  <1>1. /\ p_count' = (Resumed + 1) % Word
        /\ wrapped' = (wrapped \/ Resumed + 1 = Word)
        /\ since' = since + 1
        /\ UNCHANGED <<user_config, flash, booked, span, torn, recording, lost>>
    BY DEF Pulse
  <1>2. CountersTyped
    BY DEF IInv
  <1>3. Resumed \in Count
    BY <1>2 DEF Resumed, CountersTyped, Records
  <1>4. CountersTyped'
    <2>1. p_count' \in Count
      BY <1>1, <1>3, ModIsCount DEF Count
    <2>2. since' \in Nat /\ wrapped' \in BOOLEAN
      BY <1>1, <1>2 DEF CountersTyped
    <2>q. QED
      BY <1>1, <1>2, <2>1, <2>2 DEF CountersTyped
  <1>5. ASSUME ~wrapped' PROVE CountGoesOn'
    <2>1. CountGoesOn /\ Resumed + 1 # Word
      BY <1>1, <1>5 DEF IInv
    <2>2. Resumed + 1 \in Count /\ p_count' = Resumed + 1
      <3>1. Resumed + 1 \in Count
        BY <1>3, <2>1, EnergyAssumption DEF Count
      <3>q. QED
        BY <1>1, <3>1, SmallMod
    <2>3. Resumed = user_config.p_count_1_day_ago + since
      BY <1>2, <2>1 DEF CountGoesOn, Resumed, CountersTyped, Records, Count
    <2>4. p_count' # 0 /\ p_count' = user_config.p_count_1_day_ago + since'
      BY <1>1, <1>2, <1>3, <2>2, <2>3 DEF Count, CountersTyped, Records
    <2>q. QED
      BY <1>1, <2>4 DEF CountGoesOn
  <1>6. lost' \/ wrapped' \/ Booked'
    BY <1>1 DEF IInv, Booked, Moved
  <1>q. QED
    BY <1>4, <1>5, <1>6 DEF IInv

(* A record first moves the one before on: its sum stays what it is.         *)
LEMMA RecordInv ==
  ASSUME IInv, Record
  PROVE  IInv'
  <1> DEFINE one == user_config.p_count_1_day_ago
  <1>1. /\ recording' = "booking"
        /\ UNCHANGED <<p_count, flash, since, booked, span, wrapped, lost>>
        /\ one = 0 => UNCHANGED <<user_config, torn>>
        /\ one # 0 => /\ user_config' = [user_config EXCEPT !.p_count_2_days_ago = one]
                     /\ torn' = [torn EXCEPT !.memory = TRUE]
    BY DEF Record
  <1>2. /\ user_config \in Records /\ one \in Count /\ torn \in Pair(BOOLEAN)
    BY DEF IInv, CountersTyped, Records
  <1>3. /\ user_config' \in Records /\ torn' \in Pair(BOOLEAN)
        /\ user_config'.p_count_1_day_ago = one /\ torn'.flash = torn.flash
        /\ IF one # 0 THEN torn'.memory /\ user_config'.p_count_2_days_ago = one
           ELSE torn'.memory = torn.memory
                /\ user_config'.p_count_2_days_ago = user_config.p_count_2_days_ago
    BY <1>1, <1>2 DEF Records, Pair
  <1>4. CountersTyped'
    BY <1>1, <1>3 DEF IInv, CountersTyped
  <1>5. CountGoesOn => CountGoesOn'
    BY <1>1, <1>3 DEF CountGoesOn
  <1> HIDE DEF one
  <1>6. ASSUME Booked PROVE Booked'
    <2>1. one = booked.memory /\ Sums(flash', booked'.flash, span'.flash, torn'.flash)
      BY <1>1, <1>3, <1>6 DEF Booked, Sums, one
    <2>2. Sums(user_config', booked'.memory, span'.memory, torn'.memory)
      <3>1. CASE one # 0
        BY <1>1, <1>3, <2>1, <3>1 DEF Sums
      <3>2. CASE one = 0
        <4>1. UNCHANGED <<user_config, torn, booked, span>>
          BY <1>1, <3>2
        <4>q. QED
          BY <1>6, <4>1 DEF Booked
      <3>q. QED
        BY <3>1, <3>2
    <2>3. Moved'
      BY <1>1, <1>3 DEF Moved
    <2>q. QED
      BY <2>1, <2>2, <2>3 DEF Booked
  <1>q. QED
    BY <1>1, <1>4, <1>5, <1>6 DEF IInv

(* Then it books what has come since the last one. Before the first pulse    *)
(* since the boot it would book less than nothing: it is lost.               *)
LEMMA RecordCountInv ==
  ASSUME IInv, RecordCount
  PROVE  IInv'
  <1> DEFINE one == user_config.p_count_1_day_ago
             two == user_config.p_count_2_days_ago
  <1>1. /\ recording = "booking" /\ recording' = "saving"
        /\ user_config' = [user_config EXCEPT !.p_count_1_day_ago = p_count]
        /\ torn' = [torn EXCEPT !.memory = FALSE]
        /\ since' = 0
        /\ booked' = [booked EXCEPT !.memory = booked.memory + since]
        /\ span' = [span EXCEPT !.memory = since]
        /\ lost' = (lost \/ p_count = 0)
        /\ UNCHANGED <<p_count, flash, wrapped>>
    BY DEF RecordCount
  <1>2. /\ CountersTyped /\ user_config \in Records /\ one \in Count /\ two \in Count
        /\ since \in Nat /\ p_count \in Count
        /\ booked.memory \in Nat /\ span.memory \in Nat
    BY DEF IInv, CountersTyped, Records, Pair
  <1>3. /\ booked'.memory = booked.memory + since /\ booked'.flash = booked.flash
        /\ span'.memory = since /\ span'.flash = span.flash
        /\ torn'.memory = FALSE /\ torn'.flash = torn.flash
        /\ booked' \in Pair(Nat) /\ span' \in Pair(Nat) /\ torn' \in Pair(BOOLEAN)
    <2>1. /\ booked \in Pair(Nat) /\ span \in Pair(Nat) /\ torn \in Pair(BOOLEAN)
          /\ booked.memory + since \in Nat
      BY <1>2 DEF CountersTyped
    <2>2. /\ booked'.memory = booked.memory + since /\ booked'.flash = booked.flash
          /\ span'.memory = since /\ span'.flash = span.flash
          /\ torn'.memory = FALSE /\ torn'.flash = torn.flash
      BY <1>1, <2>1 DEF Pair
    <2>3. booked' \in Pair(Nat) /\ span' \in Pair(Nat)
      BY <1>1, <1>2, <2>1 DEF Pair
    <2>4. torn' \in Pair(BOOLEAN)
      BY <1>1, <2>1 DEF Pair
    <2>q. QED
      BY <2>2, <2>3, <2>4
  <1>4. /\ user_config' \in Records
        /\ user_config'.p_count_1_day_ago = p_count /\ user_config'.p_count_2_days_ago = two
    BY <1>1, <1>2 DEF Records
  <1>5. CountersTyped'
    <2>1. lost' \in BOOLEAN
      BY <1>1, <1>2 DEF CountersTyped
    <2>q. QED
      BY <1>1, <1>2, <1>3, <1>4, <2>1 DEF CountersTyped
  <1>6. CountGoesOn => CountGoesOn'
    BY <1>1, <1>2, <1>4 DEF Count, CountGoesOn
  <1>7. ASSUME ~lost', ~wrapped' PROVE Booked'
    <2>1. CountGoesOn /\ Booked /\ p_count # 0
      BY <1>1, <1>7 DEF IInv
    <2>2. p_count = one + since /\ one = booked.memory /\ (torn.memory \/ one = 0)
      BY <1>1, <2>1 DEF Booked, CountGoesOn, Sums, Moved
    <2>3. one = two
      <3>1. CASE torn.memory
        BY <2>1, <3>1 DEF Booked, Sums
      <3>2. CASE ~torn.memory
        <4>1. one = 0 /\ one = two + span.memory
          BY <2>1, <2>2, <3>2 DEF Booked, Sums
        <4> HIDE DEF one, two
        <4>q. QED
          BY <1>2, <4>1 DEF Count
      <3>q. QED
        BY <3>1, <3>2
    <2>4. Sums(user_config', booked'.memory, span'.memory, torn'.memory)
      <3> HIDE DEF one, two
      <3>q. QED
        BY <1>3, <1>4, <2>2, <2>3 DEF Sums
    <2>5. Sums(flash', booked'.flash, span'.flash, torn'.flash)
      BY <1>1, <1>3, <2>1 DEF Booked
    <2>q. QED
      BY <1>1, <2>4, <2>5 DEF Booked, Moved
  <1>q. QED
    BY <1>1, <1>5, <1>6, <1>7 DEF IInv

(* A save, by any thread, copies the record as it is.                        *)
LEMMA SaveInv ==
  ASSUME IInv, AppContextUpdate, recording' # "booking" \/ UNCHANGED recording
  PROVE  IInv'
  <1>1. /\ flash' = user_config
        /\ booked' = [booked EXCEPT !.flash = booked.memory]
        /\ span' = [span EXCEPT !.flash = span.memory]
        /\ torn' = [torn EXCEPT !.flash = torn.memory]
        /\ UNCHANGED <<p_count, user_config, since, wrapped, lost>>
    BY DEF AppContextUpdate
  <1>2. /\ booked'.memory = booked.memory /\ booked'.flash = booked.memory
        /\ span'.memory = span.memory /\ span'.flash = span.memory
        /\ torn'.memory = torn.memory /\ torn'.flash = torn.memory
        /\ booked' \in Pair(Nat) /\ span' \in Pair(Nat) /\ torn' \in Pair(BOOLEAN)
    BY <1>1 DEF IInv, CountersTyped, Pair
  <1>3. CountersTyped'
    BY <1>1, <1>2 DEF IInv, CountersTyped
  <1>4. (CountGoesOn => CountGoesOn') /\ (Booked => Booked')
    BY <1>1, <1>2 DEF Booked, CountGoesOn, Moved
  <1>q. QED
    BY <1>1, <1>3, <1>4 DEF IInv

(* A power cut falls back to the flash and forgets what came since.          *)
LEMMA PowerCutInv ==
  ASSUME IInv, PowerCut
  PROVE  IInv'
  <1>1. /\ p_count' = 0 /\ user_config' = flash /\ since' = 0 /\ recording' = "idle"
        /\ booked' = [booked EXCEPT !.memory = booked.flash]
        /\ span' = [span EXCEPT !.memory = span.flash]
        /\ torn' = [torn EXCEPT !.memory = torn.flash]
        /\ UNCHANGED <<flash, wrapped, lost>>
    BY DEF PowerCut
  <1>2. /\ booked'.memory = booked.flash /\ booked'.flash = booked.flash
        /\ span'.memory = span.flash /\ span'.flash = span.flash
        /\ torn'.memory = torn.flash /\ torn'.flash = torn.flash
        /\ booked' \in Pair(Nat) /\ span' \in Pair(Nat) /\ torn' \in Pair(BOOLEAN)
    BY <1>1 DEF IInv, CountersTyped, Pair
  <1>3. CountersTyped'
    BY <1>1, <1>2, ZeroIsCount DEF IInv, CountersTyped
  <1>4. (CountGoesOn => CountGoesOn') /\ (Booked => Booked')
    BY <1>1, <1>2 DEF Booked, CountGoesOn, Moved
  <1>q. QED
    BY <1>1, <1>3, <1>4 DEF IInv

(* The clock, the check for another day and the web page touch no count.     *)
LEMMA OtherStepsInv ==
  ASSUME IInv,
         \/ Check \/ Midnight \/ Sync
         \/ GetPowerRecord \/ CopyReading \/ EndCopy \/ UNCHANGED vars
  PROVE  IInv'
  <1>1. UNCHANGED counts /\ UNCHANGED recording
    BY DEF Check, Midnight, Sync, GetPowerRecord, CopyReading, EndCopy, vars
  <1>q. QED
    BY <1>1 DEF IInv, counts, CountersTyped, Booked, CountGoesOn, Moved

(* The counters start at 0. *)
LEMMA InitInv == Init => IInv
  <1> SUFFICES ASSUME Init PROVE IInv
    OBVIOUS
  <1>1. /\ p_count = 0 /\ since = 0 /\ wrapped = FALSE /\ lost = FALSE /\ recording = "idle"
        /\ torn = [memory |-> FALSE, flash |-> FALSE]
        /\ user_config = [p_count_1_day_ago |-> 0, p_count_2_days_ago |-> 0]
        /\ flash = user_config
        /\ booked = [memory |-> 0, flash |-> 0] /\ span = [memory |-> 0, flash |-> 0]
    BY DEF Init
  <1>2. CountersTyped
    BY <1>1, ZeroIsCount DEF CountersTyped, Records, Pair
  <1>3. CountGoesOn /\ Booked
    BY <1>1 DEF Booked, CountGoesOn, Sums, Moved
  <1>q. QED
    BY <1>2, <1>3 DEF IInv

(* Every step keeps the invariant. *)
LEMMA StepInv == IInv /\ [Next]_vars => IInv'
  <1>1. ASSUME IInv, Save \/ SaveOfOthers PROVE IInv'
    BY <1>1, SaveInv DEF Save, SaveOfOthers
  <1>q. QED
    BY <1>1, PulseInv, RecordInv, RecordCountInv, PowerCutInv, OtherStepsInv DEF Next

(* The invariant holds always. *)
LEMMA Invariance == Spec => []IInv
  BY InitInv, StepInv, PTL DEF Spec

-----------------------------------------------------------------------------
(* The records in memory and in flash are the sum of what was recorded: no   *)
(* pulse is recorded twice, whatever the power does.                         *)
THEOREM NothingBookedTwice == Spec => []BookedOnce
  <1>1. IInv => BookedOnce
    BY DEF IInv, BookedOnce, Booked, Sums
  <1>q. QED
    BY Invariance, <1>1, PTL

(* What is reported for today and for yesterday is what was counted.         *)
THEOREM ReportsAreRight == Spec => []ReportsAreCounted
  <1>1. ASSUME IInv, ~wrapped, p_count # 0
        PROVE  ConsumptionToday = since % Word
    <2>1. p_count = user_config.p_count_1_day_ago + since
      BY <1>1 DEF IInv, CountGoesOn
    <2>2. p_count - user_config.p_count_1_day_ago = since
      BY <1>1, <2>1 DEF IInv, CountersTyped, Records, Count
    <2>q. QED
      BY <2>2 DEF ConsumptionToday
  <1>2. ASSUME IInv, ~wrapped, ~lost, ~torn.memory, ~(2 * span.memory >= Word)
        PROVE  ConsumptionYesterday = span.memory
    <2> DEFINE one == user_config.p_count_1_day_ago
               two == user_config.p_count_2_days_ago
               n   == span.memory
    <2>1. one = two + n
      BY <1>2 DEF IInv, Booked, Sums
    <2>2. one \in Count /\ two \in Count /\ n \in Nat
      BY <1>2 DEF IInv, CountersTyped, Records, Pair
    <2>3. n \in Count /\ one - two = n
      BY <2>1, <2>2, EnergyAssumption DEF Count
    <2> HIDE DEF one, two, n
    <2>4. (one - two) % Word = n
      BY <2>3, SmallMod
    <2>5. Signed(n) = n
      BY <1>2 DEF Signed, n
    <2>q. QED
      BY <2>2, <2>4, <2>5 DEF ConsumptionYesterday, one, two, n
  <1>3. IInv => ReportsAreCounted
    BY <1>1, <1>2 DEF ReportsAreCounted
  <1>q. QED
    BY Invariance, <1>3, PTL

-----------------------------------------------------------------------------
(* The ring. Of the readings so far, each of the last PW_NUM is at its       *)
(* number's place.                                                           *)
Ring(pr) ==
  /\ pr.idx \in Nat \ {0}
  /\ pr.powers \in [0 .. PW_NUM - 1 -> Nat]
  /\ \A k \in 0 .. pr.idx : pr.idx - k < PW_NUM => pr.powers[k % PW_NUM] = k

(* A number has one remainder: P * q + r with r below P leaves r.            *)
LEMMA RemainderIsUnique ==
  ASSUME NEW P \in Nat \ {0}, NEW q \in Int, NEW r \in 0 .. P - 1
  PROVE  (P * q + r) % P = r
  <1> DEFINE n == P * q + r
             x == n \div P
             t == n % P
  <1>1. n \in Int /\ P * q \in Int
    OBVIOUS
  <1>2. n = P * x + t /\ x \in Int /\ t \in 0 .. P - 1
    <2> HIDE DEF n
    <2>q. QED
      BY <1>1
  <1>3. P * (q - x) = t - r
    <2>1. P * q + r = P * x + t
      BY <1>2
    <2> HIDE DEF x, t, n
    <2>2. P * (q - x) = P * q - P * x /\ P * x \in Int
      BY <1>2
    <2>q. QED
      BY <2>1, <2>2, <1>1, <1>2
  <1> HIDE DEF x, t, n
  <1>4. q = x
    <2>1. CASE q - x >= 1
      <3>1. P * (q - x) >= P
        BY <2>1, <1>2
      <3>q. QED
        BY <3>1, <1>2, <1>3
    <2>2. CASE x - q >= 1
      <3>1. P * (x - q) >= P /\ P * (q - x) = -(P * (x - q))
        BY <2>2, <1>2
      <3>q. QED
        BY <3>1, <1>2, <1>3
    <2>q. QED
      BY <2>1, <2>2, <1>2
  <1>5. t = r
    BY <1>2, <1>3, <1>4
  <1>q. QED
    BY <1>5 DEF t, n

(* Whole rounds lead to the same place.                                      *)
LEMMA RoundsDoNotCount ==
  ASSUME NEW P \in Nat \ {0}, NEW j \in Int, NEW q \in Int
  PROVE  (j + P * q) % P = j % P
  <1> DEFINE x == j \div P
             r == j % P
  <1>1. j = P * x + r /\ x \in Int /\ r \in 0 .. P - 1
    OBVIOUS
  <1> HIDE DEF x, r
  <1>2. j + P * q = P * (x + q) + r
    <2>1. P * (x + q) = P * x + P * q /\ P * x \in Int /\ P * q \in Int
      BY <1>1
    <2>q. QED
      BY <2>1, <1>1
  <1>3. (P * (x + q) + r) % P = r
    BY <1>1, RemainderIsUnique
  <1>q. QED
    BY <1>2, <1>3 DEF r

(* Two numbers that lie in the same stretch.                                 *)
LEMMA NotFarApart ==
  ASSUME NEW j \in Int, NEW k \in Int, NEW t \in Int, NEW p \in Int,
         j <= t, k <= t, t - j < p, t - k < p
  PROVE  j - k < p /\ k - j < p
  OBVIOUS

(* Two readings less than a ring apart are not at the same place.            *)
LEMMA PlaceIsOwn ==
  ASSUME NEW j \in Nat, NEW k \in Nat, j % PW_NUM = k % PW_NUM,
         j - k < PW_NUM, k - j < PW_NUM
  PROVE  j = k
  <1> DEFINE P == PW_NUM
  <1>1. P \in Nat /\ P > 0
    BY EnergyAssumption
  <1>2. j - k < P /\ k - j < P /\ j % P = k % P
    OBVIOUS
  <1> HIDE DEF P
  <1>3. j = P * (j \div P) + (j % P) /\ k = P * (k \div P) + (k % P)
    BY <1>1
  <1>4. PICK x \in Int : x = j \div P
    BY <1>1
  <1>5. PICK y \in Int : y = k \div P
    BY <1>1
  <1>6. j - k = P * (x - y)
    <2>1. j % P \in Int /\ j = P * x + (j % P) /\ k = P * y + (j % P)
      BY <1>1, <1>2, <1>3, <1>4, <1>5
    <2>2. P * (x - y) = P * x - P * y
      BY <1>1
    <2>3. P * x \in Int /\ P * y \in Int
      BY <1>1
    <2>q. QED
      BY <2>1, <2>2, <2>3
  <1>7. x = y
    <2>1. CASE x - y >= 1
      <3>1. P * (x - y) >= P
        BY <2>1, <1>1
      <3>q. QED
        BY <3>1, <1>6, <1>2, <1>1
    <2>2. CASE y - x >= 1
      <3>1. P * (y - x) >= P /\ P * (x - y) = -(P * (y - x))
        BY <2>2, <1>1
      <3>q. QED
        BY <3>1, <1>6, <1>2, <1>1
    <2>q. QED
      BY <2>1, <2>2
  <1>q. QED
    BY <1>1, <1>6, <1>7

(* Every reading has a place in the ring.                                    *)
LEMMA PlaceInRing ==
  ASSUME NEW k \in Nat
  PROVE  k % PW_NUM \in 0 .. PW_NUM - 1
  BY EnergyAssumption

(* The place of a number holds one of the last PW_NUM numbers.               *)
LEMMA NewestAtPlace ==
  ASSUME NEW last \in Nat, NEW j \in 0 .. last
  PROVE  \E k \in j .. last : k % PW_NUM = j % PW_NUM /\ last - k < PW_NUM
  <1> DEFINE P == PW_NUM
             d == last - j
             q == d \div P
             k == last - (d % P)
  <1>1. P \in Nat \ {0} /\ j \in Nat /\ j <= last
    BY EnergyAssumption
  <1>2. d \in Nat
    BY <1>1
  <1> HIDE DEF d, P
  <1>3. d = P * q + (d % P) /\ q \in Nat /\ d % P \in 0 .. P - 1
    BY <1>1, <1>2
  <1> HIDE DEF q
  <1>4. P * q \in Nat
    BY <1>1, <1>3
  <1>5. k = j + P * q
    BY <1>1, <1>2, <1>3, <1>4 DEF d
  <1>6. j <= k /\ k <= last /\ last - k < P /\ k \in Int
    BY <1>1, <1>3, <1>4, <1>5
  <1>7. (j + P * q) % P = j % P
    <2>1. P \in Nat \ {0} /\ j \in Int /\ q \in Int
      BY <1>1, <1>3
    <2>q. QED
      BY <2>1, RoundsDoNotCount
  <1> HIDE DEF k
  <1>8. k % P = j % P /\ k \in j .. last
    BY <1>1, <1>5, <1>6, <1>7
  <1>q. QED
    BY <1>6, <1>8 DEF P

(* n further readings overwrite the n oldest places, or all of them.         *)
LEMMA SetPowerRecordKeepsRing ==
  ASSUME NEW pr, Ring(pr), NEW n \in Nat
  PROVE  Ring(SetPowerRecord(pr, n))
  <1> DEFINE new    == SetPowerRecord(pr, n)
             fresh  == pr.idx + 1 .. pr.idx + n
             at(i)  == CHOOSE k \in fresh : k % PW_NUM = i /\ pr.idx + n - k < PW_NUM
             hit(i) == \E k \in fresh : k % PW_NUM = i
  <1>1. /\ new.idx = pr.idx + n
        /\ new.powers = [i \in 0 .. PW_NUM - 1 |-> IF hit(i) THEN at(i) ELSE pr.powers[i]]
    BY DEF SetPowerRecord
  <1>2. pr.idx \in Nat \ {0} /\ pr.powers \in [0 .. PW_NUM - 1 -> Nat]
    BY DEF Ring
  <1>3. ASSUME NEW i \in 0 .. PW_NUM - 1, hit(i)
        PROVE  \E k \in fresh : k % PW_NUM = i /\ pr.idx + n - k < PW_NUM
    <2>1. PICK j \in fresh : j % PW_NUM = i
      BY <1>3
    <2>2. PICK last \in Nat : last = pr.idx + n
      BY <1>2
    <2>3. j \in 0 .. last
      BY <1>2, <2>2
    <2>4. PICK k \in j .. last : k % PW_NUM = j % PW_NUM /\ last - k < PW_NUM
      BY <2>3, NewestAtPlace
    <2>5. k \in fresh
      BY <1>2, <2>2, <2>4
    <2>6. pr.idx + n - k < PW_NUM
      <3>1. k \in Int /\ last = pr.idx + n
        BY <2>2, <2>4
      <3>2. pr.idx + n - k = last - k
        BY <1>2, <3>1
      <3>q. QED
        BY <2>4, <3>2
    <2>q. QED
      BY <2>1, <2>4, <2>5, <2>6
  <1>4. ASSUME NEW i \in 0 .. PW_NUM - 1, hit(i)
        PROVE  at(i) \in fresh /\ at(i) % PW_NUM = i /\ pr.idx + n - at(i) < PW_NUM
    BY <1>3, <1>4
  <1> HIDE DEF at
  <1>5. new.powers \in [0 .. PW_NUM - 1 -> Nat]
    <2>1. ASSUME NEW i \in 0 .. PW_NUM - 1
          PROVE  (IF hit(i) THEN at(i) ELSE pr.powers[i]) \in Nat
      <3>1. CASE hit(i)
        BY <3>1, <1>4, <1>2
      <3>2. CASE ~hit(i)
        BY <3>2, <1>2
      <3>q. QED
        BY <3>1, <3>2
    <2>q. QED
      BY <1>1, <2>1
  <1>6. ASSUME NEW k \in 0 .. new.idx, new.idx - k < PW_NUM
        PROVE  new.powers[k % PW_NUM] = k
    <2>1. k \in Nat /\ k % PW_NUM \in 0 .. PW_NUM - 1
      BY PlaceInRing
    <2>2. CASE hit(k % PW_NUM)
      <3>1. PICK m \in fresh : /\ m % PW_NUM = k % PW_NUM /\ pr.idx + n - m < PW_NUM
                               /\ new.powers[k % PW_NUM] = m
        BY <1>1, <1>4, <2>1, <2>2
      <3>2. PICK last \in Int : last = pr.idx + n
        BY <1>2
      <3>3. /\ PW_NUM \in Int /\ m \in Nat /\ m <= last /\ k <= last
            /\ last - k < PW_NUM /\ last - m < PW_NUM
        <4>1. PW_NUM \in Int /\ m \in Nat /\ m <= last /\ k <= last
          BY <1>1, <1>2, <2>1, <3>1, <3>2, EnergyAssumption
        <4>2. last - m < PW_NUM
          <5>1. pr.idx \in Int /\ n \in Int /\ m \in Int
            BY <1>2, <4>1
          <5>2. pr.idx + n - m = last - m
            BY <3>2, <5>1
          <5>3. pr.idx + n - m < PW_NUM
            BY <3>1
          <5>q. QED
            BY <5>2, <5>3
        <4>3. new.idx = last
          BY <1>1, <3>2
        <4> HIDE DEF new
        <4>4. last - k < PW_NUM
          BY <4>3, <1>6
        <4>q. QED
          BY <4>1, <4>2, <4>4
      <3>4. m - k < PW_NUM /\ k - m < PW_NUM
        BY <2>1, <3>2, <3>3, NotFarApart
      <3>q. QED
        BY <2>1, <3>1, <3>3, <3>4, PlaceIsOwn
    <2>3. CASE ~hit(k % PW_NUM)
      <3>1. k \notin fresh
        BY <2>3
      <3>2. k \in 0 .. pr.idx /\ pr.idx - k < PW_NUM
        BY <1>1, <1>2, <1>6, <3>1, EnergyAssumption
      <3>3. pr.powers[k % PW_NUM] = k
        BY <3>2 DEF Ring
      <3>q. QED
        BY <1>1, <2>1, <2>3, <3>3
    <2>q. QED
      BY <2>2, <2>3
  <1>7. new.idx \in Nat \ {0}
    BY <1>1, <1>2
  <1>8. Ring(new)
    <2> HIDE DEF new
    <2>q. QED
      BY <1>5, <1>6, <1>7 DEF Ring
  <1>q. QED
    BY <1>8

(* The first reading is the only one after a boot, next to an unwritten      *)
(* place.                                                                    *)
LEMMA NoReadingsIsRing == Ring(NoReadings)
  <1>1. 1 % PW_NUM \in 0 .. PW_NUM - 1 /\ 0 % PW_NUM \in 0 .. PW_NUM - 1
    BY PlaceInRing
  <1>2. /\ NoReadings.idx = 1
        /\ NoReadings.powers
             = [i \in 0 .. PW_NUM - 1 |-> IF i = 1 % PW_NUM THEN 1 ELSE 0]
    BY DEF NoReadings
  <1>3. ASSUME NEW k \in 0 .. 1, 1 - k < PW_NUM
        PROVE  NoReadings.powers[k % PW_NUM] = k
    <2>1. CASE k = 1
      BY <1>1, <1>2, <2>1
    <2>2. CASE k = 0
      <3>1. PW_NUM > 1
        BY <1>3, <2>2, EnergyAssumption
      <3>2. 0 % PW_NUM = 0 /\ 1 % PW_NUM = 1
        BY <3>1, EnergyAssumption
      <3>q. QED
        BY <1>1, <1>2, <2>2, <3>2
    <2>q. QED
      BY <2>1, <2>2
  <1>q. QED
    BY <1>1, <1>2, <1>3 DEF Ring

-----------------------------------------------------------------------------
(* The copy of a request. *)

(* The number that the i-th value copied is for. *)
Number(i) == page.next - Len(page.got) + i - 1

(* A value is the reading of its number, or one made since the copy began    *)
(* that has taken its place.                                                 *)
RightOrNewer(v, number, idx) ==
  \/ v = number
  \/ /\ number <= idx - PW_NUM
     /\ v \in page.newest + 1 .. idx
     /\ v % PW_NUM = number % PW_NUM

Copied ==
  page.newest # 0 =>
    /\ page.newest <= power_record.idx /\ page.next <= power_record.idx + 1
    /\ Len(page.got) <= page.next
    /\ page.newest - (page.next - Len(page.got)) < PW_NUM
    /\ \A i \in 1 .. Len(page.got) : RightOrNewer(page.got[i], Number(i), power_record.idx)

Pages == [next : Nat, newest : Nat, got : Seq(Nat)]

RingInv == Ring(power_record) /\ page \in Pages /\ Copied

(* A request starts at a number that is still in the ring.                   *)
LEMMA FirstReadingIsThere ==
  ASSUME NEW last \in Nat \ {0}, NEW idx \in 0 .. last
  PROVE  /\ FirstReading(last, idx) \in 0 .. last
         /\ last - FirstReading(last, idx) < PW_NUM
  <1> DEFINE asked == IF idx <= last - PW_NUM THEN 0 ELSE idx
             from  == IF asked > 0 THEN asked ELSE last - PW_NUM + 1
             first == IF from < 0 THEN 0 ELSE from
  <1>1. PW_NUM \in Nat /\ PW_NUM > 0
    BY EnergyAssumption
  <1>2. first \in 0 .. last /\ last - first < PW_NUM
    BY <1>1
  <1>3. first = FirstReading(last, idx)
    BY DEF FirstReading
  <1> HIDE DEF first
  <1>q. QED
    BY <1>2, <1>3

(* The word that the ring holds at a number's place: the reading of the      *)
(* number, or the one that has overwritten it.                               *)
LEMMA PlaceHolds ==
  ASSUME NEW pr, Ring(pr), NEW j \in 0 .. pr.idx
  PROVE  /\ pr.powers[j % PW_NUM] \in j .. pr.idx
         /\ pr.powers[j % PW_NUM] % PW_NUM = j % PW_NUM
         /\ pr.powers[j % PW_NUM] = j \/ j <= pr.idx - PW_NUM
         /\ pr.powers[j % PW_NUM] = j \/ pr.powers[j % PW_NUM] >= j + PW_NUM
  <1>1. PICK last \in Nat : last = pr.idx
    BY DEF Ring
  <1>2. PICK k \in j .. last : k % PW_NUM = j % PW_NUM /\ last - k < PW_NUM
    BY <1>1, NewestAtPlace
  <1>3. k \in 0 .. last /\ k \in Nat /\ j \in Nat
    BY <1>1, <1>2
  <1>4. pr.powers[j % PW_NUM] = k
    BY <1>1, <1>2, <1>3 DEF Ring
  <1>5. k - j < PW_NUM => k = j
    <2>1. ASSUME k - j < PW_NUM PROVE k = j
      <3>1. j - k < PW_NUM
        BY <1>2, <1>3, EnergyAssumption
      <3>q. QED
        BY <1>2, <1>3, <2>1, <3>1, PlaceIsOwn
    <2>q. QED
      BY <2>1
  <1>6. k = j \/ k >= j + PW_NUM
    BY <1>3, <1>5, EnergyAssumption
  <1>7. k = j \/ j <= last - PW_NUM
    BY <1>2, <1>3, <1>6, EnergyAssumption
  <1>q. QED
    BY <1>1, <1>2, <1>4, <1>6, <1>7

(* A request begins with nothing copied.                                     *)
LEMMA BeginKeepsRing ==
  ASSUME RingInv, GetPowerRecord
  PROVE  RingInv'
  <1>1. PICK idx \in 0 .. power_record.idx :
          page' = [next |-> FirstReading(power_record.idx, idx),
                   newest |-> power_record.idx, got |-> <<>>]
    BY DEF GetPowerRecord
  <1>2. power_record' = power_record /\ power_record.idx \in Nat \ {0}
    BY DEF GetPowerRecord, RingInv, Ring
  <1>3. PICK first \in 0 .. power_record.idx :
          /\ power_record.idx - first < PW_NUM
          /\ page' = [next |-> first, newest |-> power_record.idx, got |-> <<>>]
    BY <1>1, <1>2, FirstReadingIsThere
  <1>4. /\ page'.newest = power_record.idx /\ page'.next = first /\ page'.got = <<>>
        /\ Len(page'.got) = 0
    BY <1>3
  <1>5. Copied'
    BY <1>2, <1>3, <1>4 DEF Copied
  <1>6. page' \in Pages
    BY <1>2, <1>3 DEF Pages
  <1>q. QED
    BY <1>2, <1>5, <1>6 DEF RingInv

(* What has overwritten a place since is newer than what was there when the  *)
(* copy began.                                                               *)
LEMMA BeyondNewest ==
  ASSUME NEW newest \in Nat, NEW next \in Nat, NEW n \in Nat, NEW v \in Int,
         newest - (next - n) < PW_NUM, v >= next + PW_NUM
  PROVE  v > newest
  BY EnergyAssumption

(* The next value copied is the reading of its number, or one that came      *)
(* after the copy had begun.                                                 *)
LEMMA CopyKeepsRing ==
  ASSUME RingInv, CopyReading
  PROVE  RingInv'
  <1> DEFINE v == power_record.powers[page.next % PW_NUM]
             n == Len(page.got)
  <1>1. /\ page.newest # 0 /\ page.next <= power_record.idx
        /\ page' = [page EXCEPT !.next = page.next + 1, !.got = Append(page.got, v)]
        /\ power_record' = power_record
    BY DEF CopyReading
  <1>2. /\ page.newest \in Nat /\ page.next \in Nat /\ page.got \in Seq(Nat)
        /\ page.newest <= power_record.idx
        /\ n <= page.next /\ page.newest - (page.next - n) < PW_NUM
        /\ power_record.idx \in Nat /\ n \in Nat
        /\ \A i \in 1 .. n : RightOrNewer(page.got[i], Number(i), power_record.idx)
    BY <1>1 DEF RingInv, Copied, Ring, Pages
  <1>3. /\ v \in page.next .. power_record.idx /\ v % PW_NUM = page.next % PW_NUM
        /\ v = page.next \/ page.next <= power_record.idx - PW_NUM
        /\ v = page.next \/ v >= page.next + PW_NUM
    <2>1. page.next \in 0 .. power_record.idx
      BY <1>1, <1>2
    <2>q. QED
      BY <2>1, PlaceHolds DEF RingInv
  <1> HIDE DEF v
  <1>4. RightOrNewer(v, page.next, power_record.idx)
    <2>1. v = page.next \/ v \in page.newest + 1 .. power_record.idx
      <3>1. CASE v >= page.next + PW_NUM
        <4>1. /\ page.newest \in Nat /\ page.next \in Nat /\ n \in Nat /\ v \in Int
              /\ page.newest - (page.next - n) < PW_NUM /\ v >= page.next + PW_NUM
          BY <1>2, <1>3, <3>1
        <4>2. v > page.newest
          <5> HIDE DEF n
          <5>q. QED
            BY <4>1, BeyondNewest
        <4>q. QED
          BY <1>2, <1>3, <4>2
      <3>q. QED
        BY <1>3, <3>1
    <2>q. QED
      BY <1>3, <2>1 DEF RightOrNewer
  <1>5. v \in Nat
    BY <1>2, <1>3
  <1>6. /\ page'.newest = page.newest /\ page'.next = page.next + 1
        /\ page'.got = Append(page.got, v)
    BY <1>1 DEF RingInv, Pages
  <1>7. /\ page'.got \in Seq(Nat) /\ Len(page'.got) = n + 1
        /\ \A i \in 1 .. n : page'.got[i] = page.got[i]
        /\ page'.got[n + 1] = v
    BY <1>2, <1>5, <1>6
  <1>8. ASSUME NEW i \in 1 .. n + 1
        PROVE  RightOrNewer(page.got[i], Number(i), power_record.idx)'
    <2>1. Number(i)' = page.next - n + i - 1
      <3>1. Number(i)' = page'.next - Len(page'.got) + i - 1
        BY DEF Number
      <3>q. QED
        BY <1>2, <1>6, <1>7, <3>1
    <2>2. CASE i \in 1 .. n
      <3>1. Number(i)' = Number(i) /\ page'.got[i] = page.got[i]
        BY <1>7, <2>1, <2>2 DEF Number, n
      <3>q. QED
        BY <1>1, <1>2, <1>6, <2>2, <3>1 DEF RightOrNewer
    <2>3. CASE i = n + 1
      <3>1. Number(i)' = page.next /\ page'.got[i] = v
        BY <1>2, <1>7, <2>1, <2>3
      <3>q. QED
        BY <1>1, <1>4, <1>6, <3>1 DEF RightOrNewer
    <2>4. i \in 1 .. n \/ i = n + 1
      <3> HIDE DEF n
      <3>q. QED
        BY <1>2
    <2>q. QED
      BY <2>2, <2>3, <2>4
  <1>9. Copied'
    BY <1>1, <1>2, <1>6, <1>7, <1>8 DEF Copied
  <1>10. page' \in Pages
    <2>1. page.next + 1 \in Nat /\ Append(page.got, v) \in Seq(Nat)
      BY <1>2, <1>5
    <2>q. QED
      BY <1>1, <2>1 DEF RingInv, Pages
  <1>q. QED
    BY <1>1, <1>9, <1>10 DEF RingInv

(* The interrupt makes the ring go on under the copy.                        *)
LEMMA PulseKeepsRing ==
  ASSUME RingInv, Pulse
  PROVE  RingInv'
  <1>1. PICK n \in 0 .. 2 : power_record' = SetPowerRecord(power_record, n)
    BY DEF Pulse
  <1>2. page' = page /\ n \in Nat
    BY DEF Pulse
  <1>3. Ring(power_record')
    BY <1>1, <1>2, SetPowerRecordKeepsRing DEF RingInv
  <1>4. power_record'.idx = power_record.idx + n /\ power_record.idx \in Nat
    BY <1>1 DEF SetPowerRecord, RingInv, Ring
  <1>5. ASSUME NEW i \in 1 .. Len(page.got),
               RightOrNewer(page.got[i], Number(i), power_record.idx)
        PROVE  RightOrNewer(page.got[i], Number(i), power_record'.idx)
    <2>1. /\ Len(page.got) \in Nat /\ Number(i) \in Int /\ page.newest \in Nat
          /\ page.got[i] \in Nat
      BY DEF RingInv, Pages, Number
    <2>q. QED
      BY <1>2, <1>4, <1>5, <2>1, EnergyAssumption DEF RightOrNewer
  <1>6. Copied'
    <2> SUFFICES ASSUME page.newest # 0 PROVE Copied'
      BY <1>2 DEF Copied
    <2>1. /\ page.newest <= power_record.idx /\ page.next <= power_record.idx + 1
          /\ Len(page.got) <= page.next
          /\ page.newest - (page.next - Len(page.got)) < PW_NUM
          /\ \A i \in 1 .. Len(page.got) :
               RightOrNewer(page.got[i], Number(i), power_record.idx)
      BY DEF RingInv, Copied
    <2>2. page.newest <= power_record'.idx /\ page.next <= power_record'.idx + 1
      BY <1>2, <1>4, <2>1 DEF RingInv, Pages
    <2>3. \A i \in 1 .. Len(page.got) : RightOrNewer(page.got[i], Number(i), power_record.idx)'
      BY <1>2, <1>5, <2>1 DEF RightOrNewer, Number
    <2>q. QED
      BY <1>2, <2>1, <2>2, <2>3 DEF Copied
  <1>q. QED
    BY <1>2, <1>3, <1>6 DEF RingInv

(* No page is being answered after a boot or the end of a copy.              *)
LEMMA NoPageIsCopied ==
  /\ NoPage \in Pages
  /\ page = NoPage => Copied
  /\ page' = NoPage => Copied'
  BY DEF NoPage, Pages, Copied

(* Every step keeps the ring and what the copies have got from it.           *)
LEMMA RingStep == RingInv /\ [Next]_vars => RingInv'
  <1> SUFFICES ASSUME RingInv, [Next]_vars PROVE RingInv'
    OBVIOUS
  <1>1. CASE PowerCut
    <2>1. power_record' = NoReadings /\ page' = NoPage
      BY <1>1 DEF PowerCut
    <2>q. QED
      BY <2>1, NoReadingsIsRing, NoPageIsCopied DEF RingInv
  <1>2. CASE EndCopy
    <2>1. power_record' = power_record /\ page' = NoPage
      BY <1>2 DEF EndCopy
    <2>q. QED
      BY <2>1, NoPageIsCopied DEF RingInv
  <1>3. CASE ~(PowerCut \/ EndCopy \/ Pulse \/ GetPowerRecord \/ CopyReading)
    <2>1. UNCHANGED <<power_record, page>>
      BY <1>3 DEF Next, vars, Check, Record, RecordCount, Save, SaveOfOthers, AppContextUpdate,
                  Midnight, Sync
    <2>q. QED
      BY <2>1 DEF RingInv, Copied, RightOrNewer, Number
  <1>q. QED
    BY <1>1, <1>2, <1>3, PulseKeepsRing, BeginKeepsRing, CopyKeepsRing

(* The web page gets consecutive readings, except that one overwritten while *)
(* the copy was under way is a newer one: from a ring of any length, with    *)
(* any number of interrupts.                                                 *)
THEOREM PageGetsReadings == Spec => []ReadingsInOrder
  <1>1. Init => RingInv
    BY NoReadingsIsRing, NoPageIsCopied DEF Init, RingInv
  <1>2. RingInv => ReadingsInOrder
    <2> SUFFICES ASSUME Copied PROVE ReadingsInOrder
      BY DEF RingInv
    <2>q. QED
      BY DEF Copied, ReadingsInOrder, RightOrNewer, Number
  <1>q. QED
    BY <1>1, <1>2, RingStep, PTL DEF Spec
=============================================================================
