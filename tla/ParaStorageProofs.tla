-------------------------- MODULE ParaStorageProofs --------------------------
(***************************************************************************)
(* That a save that was acknowledged survives, that the two copies agree   *)
(* when no save is under way, and that the storage implements AtomicStore: *)
(* for every number of callers and of changes, whichever values have the   *)
(* checksum 0.                                                             *)
(***************************************************************************)
EXTENDS ParaStorage, TLAPS

Main == {"erase1", "sys1", "user1", "crc1"}
Backup == {"erase2", "sys2", "user2", "crc2"}

Writing(a) == pc[a] \in Steps \ {"lock"}
On == pc[Boot] \notin {Off, "read"}
Sealed(v) == [data |-> v, crc |-> v]

(* One actor writes at a time, and the boot before anybody else. *)
OneWriter ==
  /\ \A a, b \in Actors : Writing(a) /\ Writing(b) => a = b
  /\ pc[Boot] \in {Off, "read", "idle"} \cup Main \cup Backup
  /\ ~Running => \A a \in Callers : pc[a] \in {Off, "idle"}
  /\ \A a \in Callers : pc[a] # "read"

(* Locals are those of a call under way. *)
Locals ==
  /\ need[Boot] = Factory
  /\ ~On => \A a \in Actors : snapshot[a] = Factory /\ need[a] = Factory

(* Nothing is newer than the memory while the program runs, ... *)
MemoryNewest ==
  On => /\ AtMost(acked, ram) /\ AtMost(BootValue, ram)
        /\ \A a \in Actors : AtMost(need[a], ram) /\ AtMost(snapshot[a], ram)

(* ... and nothing is newer than the last change. *)
CountNewest ==
  /\ \A h \in Halves : ram[h] <= count
  /\ MainFits => \A h \in Halves : part[P1].data[h] <= count
  /\ BackupFits => \A h \in Halves : part[P2].data[h] <= count

(* The backup is never newer than the main copy, and is the same unless a    *)
(* save has got past the main copy or the flash has refused the backup.      *)
BackupFollows ==
  /\ MainFits /\ BackupFits => AtMost(part[P2].data, part[P1].data)
  /\ Running /\ ~degraded /\ MainFits /\ (\A a \in Callers : pc[a] \notin {"check"} \cup Backup)
       => part[P2] = part[P1]

(* A half that has been copied is no older than what the caller asked for,   *)
(* than what was acknowledged, and than what a restart would find.           *)
Fresh(a, h) ==
  need[a][h] <= snapshot[a][h] /\ acked[h] <= snapshot[a][h] /\ BootValue[h] <= snapshot[a][h]
SnapshotFresh ==
  \A a \in Actors :
    /\ pc[a] \in {"copy user", "check"} \cup Main \cup Backup => Fresh(a, "sys")
    /\ pc[a] \in {"check"} \cup Main \cup Backup => Fresh(a, "user")

(* What a writer has put into partition p so far. *)
Begun(p, a, first, second, third) ==
  /\ pc[a] \in {first, second, third} => part[p].crc = Nothing
  /\ pc[a] \in {second, third} => part[p].data["sys"] = snapshot[a]["sys"]
  /\ pc[a] = third => part[p].data["user"] = snapshot[a]["user"]

Progress ==
  /\ \A a \in Actors :
       /\ Begun(P1, a, "sys1", "user1", "crc1")
       /\ Begun(P2, a, "sys2", "user2", "crc2")
       /\ pc[a] \in {"check"} \cup Backup => part[P1] = Sealed(snapshot[a])
       /\ pc[a] \in Backup => snapshot[a] \notin ZeroSums
  /\ pc[Boot] \in Main =>
       ~MainFits /\ part[P2] = Sealed(snapshot[Boot]) /\ snapshot[Boot] \notin ZeroSums

(* A step of the store as its users see it, or none.                         *)
Simulated == [Store!Next]_Store!vars

IInv ==
  /\ TypeOK
  /\ OneWriter
  /\ Locals
  /\ MemoryNewest
  /\ CountNewest
  /\ BackupFollows
  /\ SnapshotFresh
  /\ Progress
  /\ AckedSurvives

(* A half is at most itself. *)
LEMMA SelfBounded == \A v \in Value, h \in Halves : v[h] <= v[h]
  BY DEF Value

(* What a restart would find: the main copy, the backup or the defaults, in this order; ... *)
LEMMA BootValueCases ==
  /\ BootValue \in Value
  /\ MainFits => BootValue = part[P1].data
  /\ ~MainFits /\ BackupFits => BootValue = part[P2].data
  /\ ~MainFits /\ ~BackupFits => BootValue = Factory
  BY DEF BootValue, MainFits, BackupFits, Valid, Value, Factory, Halves

(* ... and the same after the step. *)
LEMMA BootValueCasesNext ==
  /\ BootValue' \in Value
  /\ MainFits' => BootValue' = part'[P1].data
  /\ ~MainFits' /\ BackupFits' => BootValue' = part'[P2].data
  /\ ~MainFits' /\ ~BackupFits' => BootValue' = Factory
  BY DEF BootValue, MainFits, BackupFits, Valid, Value, Factory, Halves

(* A partition whose checksum is erased does not fit. *)
LEMMA Unsealed ==
  /\ part[P1].crc = Nothing => ~MainFits
  /\ part[P2].crc = Nothing => ~BackupFits
  /\ part'[P1].crc = Nothing => ~MainFits'
  /\ part'[P2].crc = Nothing => ~BackupFits'
  BY DEF MainFits, BackupFits, Valid, Value, Nothing, Halves, BAD

(* A partition that is written with its checksum fits, unless that sum is 0. *)
LEMMA SealedFits ==
  ASSUME NEW v \in Value
  PROVE  /\ part[P1] = Sealed(v) => (MainFits <=> v \notin ZeroSums)
         /\ part[P2] = Sealed(v) => (BackupFits <=> v \notin ZeroSums)
         /\ part'[P1] = Sealed(v) => (MainFits' <=> v \notin ZeroSums)
         /\ part'[P2] = Sealed(v) => (BackupFits' <=> v \notin ZeroSums)
  BY DEF MainFits, BackupFits, Valid, Sealed

(* A partition that a step leaves alone fits as before. *)
LEMMA SameFits ==
  /\ part'[P1] = part[P1] => (MainFits' <=> MainFits)
  /\ part'[P2] = part[P2] => (BackupFits' <=> BackupFits)
  BY DEF MainFits, BackupFits, Valid

(* A backup like a main copy that fits, fits. *)
LEMMA SameValid == MainFits /\ part[P2] = part[P1] => BackupFits
  BY DEF MainFits, BackupFits, Valid

(* A partition that fits holds a configuration and its checksum. *)
LEMMA FitsValue ==
  /\ MainFits => part[P1].data \in Value /\ part[P1].crc = part[P1].data /\ part[P1].data \notin ZeroSums
  /\ BackupFits => part[P2].data \in Value /\ part[P2].crc = part[P2].data /\ part[P2].data \notin ZeroSums
  BY DEF MainFits, BackupFits, Valid

-----------------------------------------------------------------------------
(* The steps of AtomicStore, seen from here. *)

(* A step that leaves the memory and what a restart would find: none, or the refused backup. *)
LEMMA KeepsValue ==
  ASSUME ram' = ram, BootValue' = BootValue, On' <=> On,
         degraded \in BOOLEAN, degraded' \in BOOLEAN
  PROVE  Simulated
  <1>1. CASE degraded' = degraded
    BY <1>1 DEF Simulated, On, Store!vars
  <1>2. CASE degraded' = TRUE
    BY <1>2 DEF Simulated, On, Store!Next, Store!BackupFails
  <1>3. CASE degraded' = FALSE
    BY <1>3 DEF Simulated, On, Store!Next, Store!BackupTaken
  <1>q. QED
    BY <1>1, <1>2, <1>3

(* A step after which a restart would find newer halves: a save. *)
LEMMA Saves ==
  ASSUME ram' = ram, On, On', degraded' = degraded, BootValue' \in Value,
         \A h \in Halves : BootValue[h] <= BootValue'[h] /\ BootValue'[h] <= ram[h]
  PROVE  Simulated
  BY DEF Simulated, On, Value, Store!Value, Store!AtMost, Store!Next, Store!Save

(* A step after which it would find older ones, the backup being refused: a loss. *)
LEMMA Loses ==
  ASSUME ram' = ram, On, On', degraded, degraded', BootValue' \in Value,
         \A h \in Halves : BootValue'[h] <= BootValue[h]
  PROVE  Simulated
  BY DEF Simulated, On, Value, Store!Value, Store!AtMost, Store!Next, Store!Lose

(* A change of one half of the memory. *)
LEMMA Changes ==
  ASSUME NEW h \in Halves, On, On', degraded' = degraded, BootValue' = BootValue,
     ram' \in Value,
         ram'[h] > ram[h], \A g \in Halves \ {h} : ram'[g] = ram[g]
  PROVE  Simulated
  BY DEF Simulated, On, Value, Store!Value, Store!Next, Store!Change

(* A start that reads what was found. *)
LEMMA Restarts ==
  ASSUME ~On, On', degraded' = degraded, BootValue' = BootValue, ram' = BootValue
  PROVE  Simulated
  BY DEF Simulated, On, Store!Next, Store!PowerOn

(* A power cut. *)
LEMMA Stops ==
  ASSUME ~On', degraded' = degraded, BootValue' = BootValue, ram' = ram
  PROVE  Simulated
  <1>1. CASE On
    BY <1>1 DEF Simulated, On, Store!Next, Store!PowerCut
  <1>2. CASE ~On
    BY <1>2 DEF Simulated, On, Store!vars
  <1>q. QED
    BY <1>1, <1>2

(* The firmware changes the configuration. *)
LEMMA ChangeInv ==
  ASSUME IInv, NEW h \in Halves, Change(h)
  PROVE  IInv' /\ Simulated
  <1> USE StorageAssumption
  <1>t. /\ pc \in [Actors -> Steps \cup {"idle", "read", Off}]
        /\ acked \in Value /\ ram \in Value
        /\ snapshot \in [Actors -> Value] /\ need \in [Actors -> Value]
        /\ count \in Nat /\ degraded \in BOOLEAN
        /\ part \in [Parts -> [data : [Halves -> Cell], crc : [Halves -> Cell]]]
        /\ BootValue \in Value /\ BootValue' \in Value
    BY BootValueCases, BootValueCasesNext DEF IInv, TypeOK
  <1>d. part' = part
    BY DEF Change
  <1>h. BootValue' = BootValue /\ (MainFits' <=> MainFits) /\ (BackupFits' <=> BackupFits)
    BY <1>d DEF BootValue, MainFits, BackupFits, Valid
  <1>a. /\ pc' = pc /\ snapshot' = snapshot /\ need' = need /\ acked' = acked
        /\ degraded' = degraded /\ count' = count + 1 /\ ram' = [ram EXCEPT ![h] = count + 1]
    BY DEF Change
  <1>k. On /\ On'
    BY <1>a DEF Change, Running, On, Off
  <1>m. /\ \A g \in Halves : acked[g] <= ram[g] /\ BootValue[g] <= ram[g] /\ ram[g] <= count
        /\ \A b \in Actors, g \in Halves : need[b][g] <= ram[g] /\ snapshot[b][g] <= ram[g]
    BY <1>k DEF IInv, MemoryNewest, CountNewest, AtMost
  <1>b. count' \in Nat /\ ram' \in Value /\ \A g \in Halves : ram[g] <= ram'[g] /\ ram'[g] <= count'
    BY <1>t, <1>a, <1>m DEF Value
  <1>c. /\ \A g \in Halves : acked[g] <= ram'[g] /\ BootValue[g] <= ram'[g]
        /\ \A c \in Actors, g \in Halves : need[c][g] <= ram'[g] /\ snapshot[c][g] <= ram'[g]
    BY <1>t, <1>b, <1>m DEF Value
  <1>e. count <= count'
    BY <1>t, <1>a
  <1>z. ram'[h] > ram[h] /\ \A g \in Halves \ {h} : ram'[g] = ram[g]
    <2>1. ram[h] <= count /\ ram[h] \in Nat
      BY <1>t, <1>m DEF Value
    <2>q. QED
      BY <1>t, <1>a, <2>1 DEF Value
  <1>1. TypeOK'
    BY <1>t, <1>a, <1>b, <1>d DEF TypeOK
  <1>2. OneWriter'
    BY <1>a DEF IInv, OneWriter, Writing, Running
  <1>3. Locals'
    BY <1>a DEF IInv, Locals, On
  <1>4. MemoryNewest'
    BY <1>a, <1>c, <1>h DEF MemoryNewest, AtMost
  <1>5. CountNewest'
    BY <1>t, <1>a, <1>b, <1>d, <1>e, <1>h, FitsValue DEF IInv, CountNewest, Value
  <1>6. BackupFollows'
    BY <1>a, <1>d, <1>h DEF IInv, BackupFollows, Running, AtMost
  <1>7. SnapshotFresh'
    BY <1>a, <1>h, ZenonT(60) DEF IInv, SnapshotFresh, Fresh
  <1>8. Progress'
    BY <1>a, <1>d, <1>h DEF IInv, Progress, Begun
  <1>9. AckedSurvives'
    BY <1>a, <1>h DEF IInv, AckedSurvives, AtMost
  <1>10. Simulated
    BY <1>t, <1>a, <1>b, <1>h, <1>k, <1>z, Changes
  <1>q. QED
    BY <1>1, <1>2, <1>3, <1>4, <1>5, <1>6, <1>7, <1>8, <1>9, <1>10 DEF IInv

(* A caller asks for a save. *)
LEMMA CallInv ==
  ASSUME IInv, NEW a \in Callers, Call(a)
  PROVE  IInv' /\ Simulated
  <1> USE StorageAssumption
  <1>0. a \in Actors
    BY DEF Actors
  <1>t. /\ pc \in [Actors -> Steps \cup {"idle", "read", Off}]
        /\ acked \in Value /\ ram \in Value
        /\ snapshot \in [Actors -> Value] /\ need \in [Actors -> Value]
        /\ count \in Nat /\ degraded \in BOOLEAN
        /\ part \in [Parts -> [data : [Halves -> Cell], crc : [Halves -> Cell]]]
        /\ snapshot[a] \in Value /\ need[a] \in Value
        /\ BootValue \in Value /\ BootValue' \in Value
    BY <1>0, BootValueCases, BootValueCasesNext DEF IInv, TypeOK
  <1>a. /\ pc[a] = "idle" /\ pc' = [pc EXCEPT ![a] = "lock"]
        /\ pc'[a] = "lock" /\ \A b \in Actors \ {a} : pc'[b] = pc[b]
    BY <1>0, <1>t DEF Call, Goes
  <1>b. a # Boot /\ pc[Boot] = "idle" /\ pc'[Boot] = "idle"
    BY <1>0, <1>a DEF IInv, OneWriter, Steps, Running, Actors, Off, Call
  <1>k. On /\ On'
    BY <1>b DEF On, Off
  <1>c. snapshot' = snapshot /\ need' = [need EXCEPT ![a] = ram] /\ ram' = ram /\ count' = count
    BY DEF Call, Goes
  <1>d. acked' = acked /\ degraded' = degraded /\ part' = part
    BY DEF Call, Goes
  <1>h. BootValue' = BootValue /\ (MainFits' <=> MainFits) /\ (BackupFits' <=> BackupFits)
    BY <1>d DEF BootValue, MainFits, BackupFits, Valid
  <1>m. /\ \A h \in Halves : acked[h] <= ram[h] /\ BootValue[h] <= ram[h] /\ ram[h] <= count
        /\ \A b \in Actors, h \in Halves : need[b][h] <= ram[h] /\ snapshot[b][h] <= ram[h]
    BY <1>k DEF IInv, MemoryNewest, CountNewest, AtMost
  <1>1. TypeOK'
    BY <1>0, <1>t, <1>a, <1>c, <1>d, ZenonT(60) DEF Value, Factory, Steps, TypeOK
  <1>2. OneWriter'
    BY <1>0, <1>t, <1>a, <1>b, ZenonT(60)
       DEF IInv, OneWriter, Writing, Running, Main, Backup, Steps, Actors, Off
  <1>3. Locals'
    BY <1>0, <1>t, <1>b, <1>c, <1>k DEF IInv, Locals, Actors
  <1>4. MemoryNewest'
    BY <1>0, <1>t, <1>c, <1>d, <1>h, <1>m DEF MemoryNewest, AtMost, Value, Factory, Halves
  <1>5. CountNewest'
    BY <1>c, <1>d, <1>h DEF IInv, CountNewest
  <1>6. BackupFollows'
    BY <1>0, <1>a, <1>b, <1>d, <1>h
       DEF IInv, BackupFollows, Running, Main, Backup, AtMost, Actors
  <1>7. SnapshotFresh'
    BY <1>0, <1>t, <1>a, <1>b, <1>c, <1>d, <1>h, <1>m, ZenonT(60)
       DEF IInv, SnapshotFresh, Fresh, Main, Backup, Steps, Value, Halves, Factory, Actors
  <1>8. Progress'
    BY <1>0, <1>t, <1>a, <1>b, <1>c, <1>d, <1>h, ZenonT(60)
       DEF IInv, Progress, Begun, Main, Backup, Steps, Actors, Off
  <1>9. AckedSurvives'
    BY <1>d, <1>h DEF IInv, AckedSurvives, AtMost
  <1>10. Simulated
    BY <1>t, <1>c, <1>d, <1>h, <1>k, KeepsValue
  <1>q. QED
    BY <1>1, <1>2, <1>3, <1>4, <1>5, <1>6, <1>7, <1>8, <1>9, <1>10 DEF IInv

(* It takes the mutex, which nobody holds. *)
LEMMA LockInv ==
  ASSUME IInv, NEW a \in Callers, Lock(a)
  PROVE  IInv' /\ Simulated
  <1> USE StorageAssumption
  <1>0. a \in Actors
    BY DEF Actors
  <1>t. /\ pc \in [Actors -> Steps \cup {"idle", "read", Off}]
        /\ acked \in Value /\ ram \in Value
        /\ snapshot \in [Actors -> Value] /\ need \in [Actors -> Value]
        /\ count \in Nat /\ degraded \in BOOLEAN
        /\ part \in [Parts -> [data : [Halves -> Cell], crc : [Halves -> Cell]]]
        /\ snapshot[a] \in Value /\ need[a] \in Value
        /\ BootValue \in Value /\ BootValue' \in Value
    BY <1>0, BootValueCases, BootValueCasesNext DEF IInv, TypeOK
  <1>a. /\ pc[a] = "lock" /\ pc' = [pc EXCEPT ![a] = "copy sys"]
        /\ pc'[a] = "copy sys" /\ \A b \in Actors \ {a} : pc'[b] = pc[b]
    BY <1>0, <1>t DEF Lock, Goes
  <1>b. /\ \A b \in Actors : pc[b] \notin Steps \ {"lock"}
        /\ a # Boot /\ pc[Boot] = "idle" /\ pc'[Boot] = "idle"
    BY <1>0, <1>a, ZenonT(60) DEF IInv, OneWriter, Locked, Lock, Steps, Running, Actors, Off
  <1>k. On /\ On'
    BY <1>b DEF On, Off
  <1>c. snapshot' = snapshot /\ need' = need /\ ram' = ram /\ count' = count
    BY DEF Lock, Goes
  <1>d. acked' = acked /\ degraded' = degraded /\ part' = part
    BY DEF Lock, Goes
  <1>h. BootValue' = BootValue /\ (MainFits' <=> MainFits) /\ (BackupFits' <=> BackupFits)
    BY <1>d DEF BootValue, MainFits, BackupFits, Valid
  <1>m. /\ \A h \in Halves : acked[h] <= ram[h] /\ BootValue[h] <= ram[h] /\ ram[h] <= count
        /\ \A b \in Actors, h \in Halves : need[b][h] <= ram[h] /\ snapshot[b][h] <= ram[h]
    BY <1>k DEF IInv, MemoryNewest, CountNewest, AtMost
  <1>1. TypeOK'
    BY <1>0, <1>t, <1>a, <1>c, <1>d, ZenonT(60) DEF Value, Factory, Steps, TypeOK
  <1>2. OneWriter'
    BY <1>0, <1>t, <1>a, <1>b, ZenonT(60)
       DEF IInv, OneWriter, Writing, Running, Main, Backup, Steps, Actors, Off
  <1>3. Locals'
    BY <1>0, <1>t, <1>b, <1>c, <1>k DEF IInv, Locals, Actors
  <1>4. MemoryNewest'
    BY <1>0, <1>t, <1>c, <1>d, <1>h, <1>m DEF MemoryNewest, AtMost, Value, Factory, Halves
  <1>5. CountNewest'
    BY <1>c, <1>d, <1>h DEF IInv, CountNewest
  <1>6. BackupFollows'
    BY <1>0, <1>a, <1>b, <1>d, <1>h
       DEF IInv, BackupFollows, Running, Main, Backup, AtMost, Actors
  <1>7. SnapshotFresh'
    BY <1>0, <1>t, <1>a, <1>b, <1>c, <1>d, <1>h, <1>m, ZenonT(60)
       DEF IInv, SnapshotFresh, Fresh, Main, Backup, Steps, Value, Halves, Factory, Actors
  <1>8. Progress'
    BY <1>0, <1>t, <1>a, <1>b, <1>c, <1>d, <1>h, ZenonT(60)
       DEF IInv, Progress, Begun, Main, Backup, Steps, Actors, Off
  <1>9. AckedSurvives'
    BY <1>d, <1>h DEF IInv, AckedSurvives, AtMost
  <1>10. Simulated
    BY <1>t, <1>c, <1>d, <1>h, <1>k, KeepsValue
  <1>q. QED
    BY <1>1, <1>2, <1>3, <1>4, <1>5, <1>6, <1>7, <1>8, <1>9, <1>10 DEF IInv

(* No memory for the snapshot. *)
LEMMA SkipSaveInv ==
  ASSUME IInv, NEW a \in Callers, SkipSave(a)
  PROVE  IInv' /\ Simulated
  <1> USE StorageAssumption
  <1>0. a \in Actors
    BY DEF Actors
  <1>t. /\ pc \in [Actors -> Steps \cup {"idle", "read", Off}]
        /\ acked \in Value /\ ram \in Value
        /\ snapshot \in [Actors -> Value] /\ need \in [Actors -> Value]
        /\ count \in Nat /\ degraded \in BOOLEAN
        /\ part \in [Parts -> [data : [Halves -> Cell], crc : [Halves -> Cell]]]
        /\ snapshot[a] \in Value /\ need[a] \in Value
        /\ BootValue \in Value /\ BootValue' \in Value
    BY <1>0, BootValueCases, BootValueCasesNext DEF IInv, TypeOK
  <1>a. /\ pc[a] = "copy sys" /\ pc' = [pc EXCEPT ![a] = "idle"]
        /\ pc'[a] = "idle" /\ \A b \in Actors \ {a} : pc'[b] = pc[b]
    BY <1>0, <1>t DEF SkipSave, Goes
  <1>b. /\ \A b \in Actors \ {a} : pc[b] \notin Steps \ {"lock"}
        /\ a # Boot /\ pc[Boot] = "idle" /\ pc'[Boot] = "idle"
    BY <1>0, <1>a, ZenonT(60) DEF IInv, OneWriter, Writing, Steps, Running, Actors, Off
  <1>k. On /\ On'
    BY <1>b DEF On, Off
  <1>c. /\ ram' = ram /\ count' = count /\ snapshot' = [snapshot EXCEPT ![a] = Factory]
        /\ need' = [need EXCEPT ![a] = Factory]
    BY DEF SkipSave, Goes
  <1>d. acked' = acked /\ degraded' = degraded /\ part' = part
    BY DEF SkipSave, Goes
  <1>h. BootValue' = BootValue /\ (MainFits' <=> MainFits) /\ (BackupFits' <=> BackupFits)
    BY <1>d DEF BootValue, MainFits, BackupFits, Valid
  <1>m. /\ \A h \in Halves : acked[h] <= ram[h] /\ BootValue[h] <= ram[h] /\ ram[h] <= count
        /\ \A b \in Actors, h \in Halves : need[b][h] <= ram[h] /\ snapshot[b][h] <= ram[h]
    BY <1>k DEF IInv, MemoryNewest, CountNewest, AtMost
  <1>1. TypeOK'
    BY <1>0, <1>t, <1>a, <1>c, <1>d, ZenonT(60) DEF Value, Factory, Steps, TypeOK
  <1>2. OneWriter'
    BY <1>0, <1>t, <1>a, <1>b, ZenonT(60)
       DEF IInv, OneWriter, Writing, Running, Main, Backup, Steps, Actors, Off
  <1>3. Locals'
    BY <1>0, <1>t, <1>b, <1>c, <1>k DEF IInv, Locals, Actors
  <1>4. MemoryNewest'
    BY <1>0, <1>t, <1>c, <1>d, <1>h, <1>m DEF MemoryNewest, AtMost, Value, Factory, Halves
  <1>5. CountNewest'
    BY <1>c, <1>d, <1>h DEF IInv, CountNewest
  <1>6. BackupFollows'
    BY <1>0, <1>a, <1>b, <1>d, <1>h
       DEF IInv, BackupFollows, Running, Main, Backup, AtMost, Actors
  <1>7. SnapshotFresh'
    BY <1>0, <1>t, <1>a, <1>b, <1>c, <1>d, <1>h, <1>m, ZenonT(60)
       DEF IInv, SnapshotFresh, Fresh, Main, Backup, Steps, Value, Halves, Factory, Actors
  <1>8. Progress'
    BY <1>0, <1>t, <1>a, <1>b, <1>c, <1>d, <1>h, ZenonT(60)
       DEF IInv, Progress, Begun, Main, Backup, Steps, Actors, Off
  <1>9. AckedSurvives'
    BY <1>d, <1>h DEF IInv, AckedSurvives, AtMost
  <1>10. Simulated
    BY <1>t, <1>c, <1>d, <1>h, <1>k, KeepsValue
  <1>q. QED
    BY <1>1, <1>2, <1>3, <1>4, <1>5, <1>6, <1>7, <1>8, <1>9, <1>10 DEF IInv

(* The snapshot is taken: the system's half, ... *)
LEMMA CopySysInv ==
  ASSUME IInv, NEW a \in Callers, Copy(a, "copy sys", "sys", "copy user")
  PROVE  IInv' /\ Simulated
  <1> USE StorageAssumption
  <1>0. a \in Actors
    BY DEF Actors
  <1>t. /\ pc \in [Actors -> Steps \cup {"idle", "read", Off}]
        /\ acked \in Value /\ ram \in Value
        /\ snapshot \in [Actors -> Value] /\ need \in [Actors -> Value]
        /\ count \in Nat /\ degraded \in BOOLEAN
        /\ part \in [Parts -> [data : [Halves -> Cell], crc : [Halves -> Cell]]]
        /\ snapshot[a] \in Value /\ need[a] \in Value
        /\ BootValue \in Value /\ BootValue' \in Value
    BY <1>0, BootValueCases, BootValueCasesNext DEF IInv, TypeOK
  <1>a. /\ pc[a] = "copy sys" /\ pc' = [pc EXCEPT ![a] = "copy user"]
        /\ pc'[a] = "copy user" /\ \A b \in Actors \ {a} : pc'[b] = pc[b]
    BY <1>0, <1>t DEF Copy, Goes
  <1>b. /\ \A b \in Actors \ {a} : pc[b] \notin Steps \ {"lock"}
        /\ a # Boot /\ pc[Boot] = "idle" /\ pc'[Boot] = "idle"
    BY <1>0, <1>a, ZenonT(60) DEF IInv, OneWriter, Writing, Steps, Running, Actors, Off
  <1>k. On /\ On'
    BY <1>b DEF On, Off
  <1>c. snapshot' = [snapshot EXCEPT ![a]["sys"] = ram["sys"]] /\ need' = need /\ ram' = ram /\ count' = count
    BY DEF Copy, Goes
  <1>d. acked' = acked /\ degraded' = degraded /\ part' = part
    BY DEF Copy, Goes
  <1>h. BootValue' = BootValue /\ (MainFits' <=> MainFits) /\ (BackupFits' <=> BackupFits)
    BY <1>d DEF BootValue, MainFits, BackupFits, Valid
  <1>m. /\ \A h \in Halves : acked[h] <= ram[h] /\ BootValue[h] <= ram[h] /\ ram[h] <= count
        /\ \A b \in Actors, h \in Halves : need[b][h] <= ram[h] /\ snapshot[b][h] <= ram[h]
    BY <1>k DEF IInv, MemoryNewest, CountNewest, AtMost
  <1>e. /\ snapshot' \in [Actors -> Value] /\ snapshot'[a]["sys"] = ram["sys"]
        /\ \A g \in Halves \ {"sys"} : snapshot'[a][g] = snapshot[a][g]
        /\ \A b \in Actors \ {a} : snapshot'[b] = snapshot[b]
    <2>1. snapshot[a] \in [Halves -> Nat] /\ ram["sys"] \in Nat /\ "sys" \in Halves
      BY <1>t DEF Value, Halves
    <2>2. snapshot' = [snapshot EXCEPT ![a] = [snapshot[a] EXCEPT !["sys"] = ram["sys"]]]
      BY <1>c
    <2> DEFINE copied == [snapshot[a] EXCEPT !["sys"] = ram["sys"]]
    <2>3. /\ copied \in Value /\ copied["sys"] = ram["sys"]
          /\ \A g \in Halves \ {"sys"} : copied[g] = snapshot[a][g]
      BY <2>1 DEF Value
    <2>4. snapshot' = [snapshot EXCEPT ![a] = copied]
      BY <2>2
    <2> HIDE DEF copied
    <2>5. snapshot' \in [Actors -> Value] /\ snapshot'[a] = copied
      BY <1>0, <1>t, <2>3, <2>4
    <2>6. \A b \in Actors \ {a} : snapshot'[b] = snapshot[b]
      BY <1>t, <2>4
    <2>q. QED
      BY <2>3, <2>5, <2>6
  <1>f. \A b \in Actors, g \in Halves : snapshot'[b][g] <= ram[g]
    <2>1. \A g \in Halves : ram[g] <= ram[g]
      BY <1>t, SelfBounded
    <2>2. \A b \in Actors \ {a}, g \in Halves : snapshot'[b][g] <= ram[g]
      BY <1>e, <1>m
    <2>3. \A g \in Halves \ {"sys"} : snapshot'[a][g] <= ram[g]
      BY <1>0, <1>e, <1>m
    <2>4. snapshot'[a]["sys"] <= ram["sys"]
      BY <1>e, <2>1 DEF Halves
    <2>q. QED
      BY <2>2, <2>3, <2>4
  <1>1. TypeOK'
    BY <1>e, <1>0, <1>t, <1>a, <1>c, <1>d, ZenonT(60) DEF Value, Factory, Steps, TypeOK
  <1>2. OneWriter'
    BY <1>0, <1>t, <1>a, <1>b, ZenonT(60)
       DEF IInv, OneWriter, Writing, Running, Main, Backup, Steps, Actors, Off
  <1>3. Locals'
    BY <1>0, <1>t, <1>b, <1>c, <1>k DEF IInv, Locals, Actors
  <1>4. MemoryNewest'
    BY <1>e, <1>f, <1>0, <1>t, <1>c, <1>d, <1>h, <1>m
       DEF MemoryNewest, AtMost, Value, Factory, Halves
  <1>5. CountNewest'
    BY <1>c, <1>d, <1>h DEF IInv, CountNewest
  <1>6. BackupFollows'
    BY <1>0, <1>a, <1>b, <1>d, <1>h
       DEF IInv, BackupFollows, Running, Main, Backup, AtMost, Actors
  <1>7. SnapshotFresh'
    BY <1>e, <1>0, <1>t, <1>a, <1>b, <1>c, <1>d, <1>h, <1>m, ZenonT(60)
       DEF IInv, SnapshotFresh, Fresh, Main, Backup, Steps, Value, Halves, Factory, Actors
  <1>8. Progress'
    BY <1>e, <1>0, <1>t, <1>a, <1>b, <1>c, <1>d, <1>h, ZenonT(60)
       DEF IInv, Progress, Begun, Main, Backup, Steps, Actors, Off
  <1>9. AckedSurvives'
    BY <1>d, <1>h DEF IInv, AckedSurvives, AtMost
  <1>10. Simulated
    BY <1>t, <1>c, <1>d, <1>h, <1>k, KeepsValue
  <1>q. QED
    BY <1>1, <1>2, <1>3, <1>4, <1>5, <1>6, <1>7, <1>8, <1>9, <1>10 DEF IInv

(* ... and the user's. *)
LEMMA CopyUserInv ==
  ASSUME IInv, NEW a \in Callers, Copy(a, "copy user", "user", "erase1")
  PROVE  IInv' /\ Simulated
  <1> USE StorageAssumption
  <1>0. a \in Actors
    BY DEF Actors
  <1>t. /\ pc \in [Actors -> Steps \cup {"idle", "read", Off}]
        /\ acked \in Value /\ ram \in Value
        /\ snapshot \in [Actors -> Value] /\ need \in [Actors -> Value]
        /\ count \in Nat /\ degraded \in BOOLEAN
        /\ part \in [Parts -> [data : [Halves -> Cell], crc : [Halves -> Cell]]]
        /\ snapshot[a] \in Value /\ need[a] \in Value
        /\ BootValue \in Value /\ BootValue' \in Value
    BY <1>0, BootValueCases, BootValueCasesNext DEF IInv, TypeOK
  <1>a. /\ pc[a] = "copy user" /\ pc' = [pc EXCEPT ![a] = "erase1"]
        /\ pc'[a] = "erase1" /\ \A b \in Actors \ {a} : pc'[b] = pc[b]
    BY <1>0, <1>t DEF Copy, Goes
  <1>b. /\ \A b \in Actors \ {a} : pc[b] \notin Steps \ {"lock"}
        /\ a # Boot /\ pc[Boot] = "idle" /\ pc'[Boot] = "idle"
    BY <1>0, <1>a, ZenonT(60) DEF IInv, OneWriter, Writing, Steps, Running, Actors, Off
  <1>k. On /\ On'
    BY <1>b DEF On, Off
  <1>c. snapshot' = [snapshot EXCEPT ![a]["user"] = ram["user"]] /\ need' = need /\ ram' = ram /\ count' = count
    BY DEF Copy, Goes
  <1>d. acked' = acked /\ degraded' = degraded /\ part' = part
    BY DEF Copy, Goes
  <1>h. BootValue' = BootValue /\ (MainFits' <=> MainFits) /\ (BackupFits' <=> BackupFits)
    BY <1>d DEF BootValue, MainFits, BackupFits, Valid
  <1>m. /\ \A h \in Halves : acked[h] <= ram[h] /\ BootValue[h] <= ram[h] /\ ram[h] <= count
        /\ \A b \in Actors, h \in Halves : need[b][h] <= ram[h] /\ snapshot[b][h] <= ram[h]
    BY <1>k DEF IInv, MemoryNewest, CountNewest, AtMost
  <1>e. /\ snapshot' \in [Actors -> Value] /\ snapshot'[a]["user"] = ram["user"]
        /\ \A g \in Halves \ {"user"} : snapshot'[a][g] = snapshot[a][g]
        /\ \A b \in Actors \ {a} : snapshot'[b] = snapshot[b]
    <2>1. snapshot[a] \in [Halves -> Nat] /\ ram["user"] \in Nat /\ "user" \in Halves
      BY <1>t DEF Value, Halves
    <2>2. snapshot' = [snapshot EXCEPT ![a] = [snapshot[a] EXCEPT !["user"] = ram["user"]]]
      BY <1>c
    <2> DEFINE copied == [snapshot[a] EXCEPT !["user"] = ram["user"]]
    <2>3. /\ copied \in Value /\ copied["user"] = ram["user"]
          /\ \A g \in Halves \ {"user"} : copied[g] = snapshot[a][g]
      BY <2>1 DEF Value
    <2>4. snapshot' = [snapshot EXCEPT ![a] = copied]
      BY <2>2
    <2> HIDE DEF copied
    <2>5. snapshot' \in [Actors -> Value] /\ snapshot'[a] = copied
      BY <1>0, <1>t, <2>3, <2>4
    <2>6. \A b \in Actors \ {a} : snapshot'[b] = snapshot[b]
      BY <1>t, <2>4
    <2>q. QED
      BY <2>3, <2>5, <2>6
  <1>f. \A b \in Actors, g \in Halves : snapshot'[b][g] <= ram[g]
    <2>1. \A g \in Halves : ram[g] <= ram[g]
      BY <1>t, SelfBounded
    <2>2. \A b \in Actors \ {a}, g \in Halves : snapshot'[b][g] <= ram[g]
      BY <1>e, <1>m
    <2>3. \A g \in Halves \ {"user"} : snapshot'[a][g] <= ram[g]
      BY <1>0, <1>e, <1>m
    <2>4. snapshot'[a]["user"] <= ram["user"]
      BY <1>e, <2>1 DEF Halves
    <2>q. QED
      BY <2>2, <2>3, <2>4
  <1>1. TypeOK'
    BY <1>e, <1>0, <1>t, <1>a, <1>c, <1>d, ZenonT(60) DEF Value, Factory, Steps, TypeOK
  <1>2. OneWriter'
    BY <1>0, <1>t, <1>a, <1>b, ZenonT(60)
       DEF IInv, OneWriter, Writing, Running, Main, Backup, Steps, Actors, Off
  <1>3. Locals'
    BY <1>0, <1>t, <1>b, <1>c, <1>k DEF IInv, Locals, Actors
  <1>4. MemoryNewest'
    BY <1>e, <1>f, <1>0, <1>t, <1>c, <1>d, <1>h, <1>m
       DEF MemoryNewest, AtMost, Value, Factory, Halves
  <1>5. CountNewest'
    BY <1>c, <1>d, <1>h DEF IInv, CountNewest
  <1>6. BackupFollows'
    BY <1>0, <1>a, <1>b, <1>d, <1>h
       DEF IInv, BackupFollows, Running, Main, Backup, AtMost, Actors
  <1>7. SnapshotFresh'
    BY <1>e, <1>0, <1>t, <1>a, <1>b, <1>c, <1>d, <1>h, <1>m, ZenonT(60)
       DEF IInv, SnapshotFresh, Fresh, Main, Backup, Steps, Value, Halves, Factory, Actors
  <1>8. Progress'
    BY <1>e, <1>0, <1>t, <1>a, <1>b, <1>c, <1>d, <1>h, ZenonT(60)
       DEF IInv, Progress, Begun, Main, Backup, Steps, Actors, Off
  <1>9. AckedSurvives'
    BY <1>d, <1>h DEF IInv, AckedSurvives, AtMost
  <1>10. Simulated
    BY <1>t, <1>c, <1>d, <1>h, <1>k, KeepsValue
  <1>q. QED
    BY <1>1, <1>2, <1>3, <1>4, <1>5, <1>6, <1>7, <1>8, <1>9, <1>10 DEF IInv

(* The main copy is erased: the backup is the same, or the flash has refused it. *)
LEMMA EraseMainInv ==
  ASSUME IInv, NEW a \in Actors, Erase(a, "erase1", P1, "sys1")
  PROVE  IInv' /\ Simulated
  <1> USE StorageAssumption
  <1>0. a \in Actors
    BY DEF Actors
  <1>t. /\ pc \in [Actors -> Steps \cup {"idle", "read", Off}]
        /\ acked \in Value /\ ram \in Value
        /\ snapshot \in [Actors -> Value] /\ need \in [Actors -> Value]
        /\ count \in Nat /\ degraded \in BOOLEAN
        /\ part \in [Parts -> [data : [Halves -> Cell], crc : [Halves -> Cell]]]
        /\ snapshot[a] \in Value /\ need[a] \in Value
        /\ BootValue \in Value /\ BootValue' \in Value
    BY <1>0, BootValueCases, BootValueCasesNext DEF IInv, TypeOK
  <1>a. /\ pc[a] = "erase1" /\ pc' = [pc EXCEPT ![a] = "sys1"]
        /\ pc'[a] = "sys1" /\ \A b \in Actors \ {a} : pc'[b] = pc[b]
    BY <1>0, <1>t DEF Erase, Proceeds, Goes
  <1>b. /\ \A b \in Actors \ {a} : pc[b] \notin Steps \ {"lock"}
        /\ a # Boot => pc[Boot] = "idle" /\ pc'[Boot] = "idle"
    BY <1>0, <1>a, ZenonT(60) DEF IInv, OneWriter, Writing, Steps, Running, Actors, Off
  <1>k. On /\ On'
    BY <1>0, <1>a, <1>b DEF On, Off, Actors
  <1>c. snapshot' = snapshot /\ need' = need /\ ram' = ram /\ count' = count
    BY DEF Erase, Proceeds, Goes
  <1>d. acked' = acked /\ degraded' = degraded
    BY <1>t DEF Erase, Proceeds, Goes, P1, P2
  <1>f. /\ part' \in [Parts -> [data : [Halves -> Cell], crc : [Halves -> Cell]]]
        /\ part'[P2] = part[P2] /\ part'[P1].crc = Nothing
    <2>1. Erased \in [data : [Halves -> Cell], crc : [Halves -> Cell]] /\ Erased.crc = Nothing
      BY DEF Erased, Nothing, Cell
    <2>2. part' = [part EXCEPT ![P1] = Erased]
      BY DEF Erase, Proceeds, Goes
    <2>q. QED
      BY <1>t, <2>1, <2>2 DEF Parts, P1, P2
  <1>g. /\ pc[a] \in Backup => part[P1] = Sealed(snapshot[a]) /\ snapshot[a] \notin ZeroSums
        /\ pc[a] \in {"sys1", "user1", "crc1"} => part[P1].crc = Nothing
        /\ pc[a] \in {"sys2", "user2", "crc2"} => part[P2].crc = Nothing
        /\ pc[a] \in {"user1", "crc1"} => part[P1].data["sys"] = snapshot[a]["sys"]
        /\ pc[a] \in {"user2", "crc2"} => part[P2].data["sys"] = snapshot[a]["sys"]
        /\ a = Boot /\ pc[a] \in Main =>
             ~MainFits /\ part[P2] = Sealed(snapshot[a]) /\ snapshot[a] \notin ZeroSums
    BY <1>0 DEF IInv, Progress, Begun
  <1>h. ~MainFits' /\ (BackupFits' <=> BackupFits)
    BY <1>t, <1>a, <1>d, <1>f, <1>g, Unsealed, SealedFits, SameFits DEF Main, Backup
  <1>m. /\ \A h \in Halves : acked[h] <= ram[h] /\ BootValue[h] <= ram[h] /\ ram[h] <= count
        /\ \A b \in Actors, h \in Halves : need[b][h] <= ram[h] /\ snapshot[b][h] <= ram[h]
    BY <1>k DEF IInv, MemoryNewest, CountNewest, AtMost
  <1>w. \A h \in Halves :
          need[a][h] <= snapshot[a][h] /\ acked[h] <= snapshot[a][h] /\ BootValue[h] <= snapshot[a][h]
    BY <1>0, <1>a DEF IInv, SnapshotFresh, Fresh, Main, Backup, Halves
  <1>s. Sealed(snapshot[a]).data = snapshot[a] /\ Sealed(snapshot[a]).crc = snapshot[a]
    BY DEF Sealed
  <1>j. (degraded \/ BootValue' = BootValue) /\ \A h \in Halves : BootValue'[h] <= BootValue[h]
    <2>1. CASE MainFits /\ BackupFits
      <3>1. AtMost(part[P2].data, part[P1].data) /\ (degraded \/ a = Boot \/ part[P2] = part[P1])
        BY <2>1, <1>0, <1>a, <1>b DEF IInv, BackupFollows, Running, Main, Backup, Steps, Actors
      <3>q. QED
        BY <2>1, <3>1, <1>f, <1>g, <1>a, <1>h, BootValueCases, BootValueCasesNext
           DEF AtMost, Main
    <2>2. CASE MainFits /\ ~BackupFits
      <3>1. degraded \/ a = Boot \/ part[P2] = part[P1]
        BY <2>2, <1>0, <1>a, <1>b DEF IInv, BackupFollows, Running, Main, Backup, Steps, Actors
      <3>2. degraded
        BY <2>2, <3>1, <1>a, <1>g, SameValid DEF Main
      <3>q. QED
        BY <2>2, <3>2, <1>t, <1>h, BootValueCasesNext DEF Factory, Value
    <2>3. CASE ~MainFits
      BY <2>3, <1>t, <1>f, <1>h, BootValueCases, BootValueCasesNext DEF Value
    <2>q. QED
      BY <2>1, <2>2, <2>3
  <1>n. \A h \in Halves : snapshot[a][h] <= count /\ BootValue'[h] <= snapshot[a][h]
    BY <1>0, <1>t, <1>j, <1>m, <1>w DEF Value
  <1>1. TypeOK'
    BY <1>0, <1>t, <1>a, <1>c, <1>d, <1>f, ZenonT(60) DEF Value, Factory, Steps, TypeOK, Join
  <1>2. OneWriter'
    BY <1>0, <1>t, <1>a, <1>b, ZenonT(60)
       DEF IInv, OneWriter, Writing, Running, Main, Backup, Steps, Actors, Off
  <1>3. Locals'
    BY <1>0, <1>t, <1>c, <1>k DEF IInv, Locals, Actors
  <1>4. MemoryNewest'
    BY <1>0, <1>t, <1>c, <1>d, <1>j, <1>m, <1>w
       DEF MemoryNewest, AtMost, Value, Factory, Join, Halves
  <1>5. CountNewest'
    BY <1>n, <1>t, <1>c, <1>f, <1>h, <1>m, <1>s DEF IInv, CountNewest, Value
  <1>6. BackupFollows'
    BY <1>0, <1>t, <1>a, <1>b, <1>d, <1>f, <1>g, <1>h, <1>s, <1>w, BootValueCases, FitsValue
       DEF IInv, BackupFollows, Running, Main, Backup, AtMost, Actors, Value
  <1>7. SnapshotFresh'
    BY <1>0, <1>t, <1>a, <1>b, <1>c, <1>d, <1>n, <1>w, ZenonT(60)
       DEF SnapshotFresh, Fresh, Main, Backup, Steps, Value, Halves, Join, Locals, Factory
  <1>8. Progress'
    BY <1>0, <1>t, <1>a, <1>b, <1>c, <1>f, <1>g, <1>h, ZenonT(60)
       DEF Progress, Begun, Main, Backup, Steps, Actors, Halves
  <1>9. AckedSurvives'
    BY <1>0, <1>t, <1>a, <1>d, <1>f, <1>h, <1>j, <1>s, <1>w, BootValueCases
       DEF IInv, AckedSurvives, AtMost, Value, Join, Main, Backup
  <1>10. Simulated
    BY <1>t, <1>c, <1>d, <1>j, <1>k, KeepsValue, Loses
  <1>q. QED
    BY <1>1, <1>2, <1>3, <1>4, <1>5, <1>6, <1>7, <1>8, <1>9, <1>10 DEF IInv

(* The main copy is written: the system's half, ... *)
LEMMA MainSysInv ==
  ASSUME IInv, NEW a \in Actors, WriteHalf(a, "sys1", P1, "sys", "user1")
  PROVE  IInv' /\ Simulated
  <1> USE StorageAssumption
  <1>0. a \in Actors
    BY DEF Actors
  <1>t. /\ pc \in [Actors -> Steps \cup {"idle", "read", Off}]
        /\ acked \in Value /\ ram \in Value
        /\ snapshot \in [Actors -> Value] /\ need \in [Actors -> Value]
        /\ count \in Nat /\ degraded \in BOOLEAN
        /\ part \in [Parts -> [data : [Halves -> Cell], crc : [Halves -> Cell]]]
        /\ snapshot[a] \in Value /\ need[a] \in Value
        /\ BootValue \in Value /\ BootValue' \in Value
    BY <1>0, BootValueCases, BootValueCasesNext DEF IInv, TypeOK
  <1>a. /\ pc[a] = "sys1" /\ pc' = [pc EXCEPT ![a] = "user1"]
        /\ pc'[a] = "user1" /\ \A b \in Actors \ {a} : pc'[b] = pc[b]
    BY <1>0, <1>t DEF WriteHalf, Proceeds, Goes
  <1>b. /\ \A b \in Actors \ {a} : pc[b] \notin Steps \ {"lock"}
        /\ a # Boot => pc[Boot] = "idle" /\ pc'[Boot] = "idle"
    BY <1>0, <1>a, ZenonT(60) DEF IInv, OneWriter, Writing, Steps, Running, Actors, Off
  <1>k. On /\ On'
    BY <1>0, <1>a, <1>b DEF On, Off, Actors
  <1>c. snapshot' = snapshot /\ need' = need /\ ram' = ram /\ count' = count
    BY DEF WriteHalf, Proceeds, Goes
  <1>d. acked' = acked /\ degraded' = degraded
    BY <1>t DEF WriteHalf, Proceeds, Goes, P1, P2
  <1>f. /\ part' \in [Parts -> [data : [Halves -> Cell], crc : [Halves -> Cell]]]
        /\ part'[P2] = part[P2] /\ part'[P1].crc = part[P1].crc
        /\ part'[P1].data = [part[P1].data EXCEPT !["sys"] = snapshot[a]["sys"]]
        /\ part'[P1].data["sys"] = snapshot[a]["sys"]
        /\ \A h \in Halves \ {"sys"} : part'[P1].data[h] = part[P1].data[h]
    <2> DEFINE New == [part[P1] EXCEPT !.data = [part[P1].data EXCEPT !["sys"] = snapshot[a]["sys"]]]
    <2>1. part' = [part EXCEPT ![P1] = New]
      BY DEF WriteHalf, Proceeds, Goes
    <2>2. /\ part[P1].data \in [Halves -> Cell] /\ part[P1].crc \in [Halves -> Cell]
          /\ part[P1] = [data |-> part[P1].data, crc |-> part[P1].crc]
      BY <1>t DEF Parts
    <2>3. snapshot[a]["sys"] \in Cell
      BY <1>t DEF Value, Halves, Cell
    <2>4. /\ New.crc = part[P1].crc /\ New.data = [part[P1].data EXCEPT !["sys"] = snapshot[a]["sys"]]
          /\ New = [data |-> New.data, crc |-> New.crc]
      BY <2>2
    <2>5. New.data \in [Halves -> Cell]
      BY <2>2, <2>3, <2>4
    <2> HIDE DEF New
    <2>6. part'[P1] = New /\ part'[P2] = part[P2]
      BY <1>t, <2>1 DEF Parts, P1, P2
    <2>7. part' \in [Parts -> [data : [Halves -> Cell], crc : [Halves -> Cell]]]
      BY <1>t, <2>1, <2>2, <2>4, <2>5
    <2>8. /\ New.data["sys"] = snapshot[a]["sys"]
          /\ \A h \in Halves \ {"sys"} : New.data[h] = part[P1].data[h]
      BY <2>2, <2>4 DEF Halves
    <2>q. QED
      BY <2>2, <2>4, <2>6, <2>7, <2>8
  <1>g. /\ pc[a] \in Backup => part[P1] = Sealed(snapshot[a]) /\ snapshot[a] \notin ZeroSums
        /\ pc[a] \in {"sys1", "user1", "crc1"} => part[P1].crc = Nothing
        /\ pc[a] \in {"sys2", "user2", "crc2"} => part[P2].crc = Nothing
        /\ pc[a] \in {"user1", "crc1"} => part[P1].data["sys"] = snapshot[a]["sys"]
        /\ pc[a] \in {"user2", "crc2"} => part[P2].data["sys"] = snapshot[a]["sys"]
        /\ a = Boot /\ pc[a] \in Main =>
             ~MainFits /\ part[P2] = Sealed(snapshot[a]) /\ snapshot[a] \notin ZeroSums
    BY <1>0 DEF IInv, Progress, Begun
  <1>h. ~MainFits /\ ~MainFits' /\ (BackupFits' <=> BackupFits)
    BY <1>t, <1>a, <1>d, <1>f, <1>g, Unsealed, SealedFits, SameFits DEF Main, Backup
  <1>m. /\ \A h \in Halves : acked[h] <= ram[h] /\ BootValue[h] <= ram[h] /\ ram[h] <= count
        /\ \A b \in Actors, h \in Halves : need[b][h] <= ram[h] /\ snapshot[b][h] <= ram[h]
    BY <1>k DEF IInv, MemoryNewest, CountNewest, AtMost
  <1>w. \A h \in Halves :
          need[a][h] <= snapshot[a][h] /\ acked[h] <= snapshot[a][h] /\ BootValue[h] <= snapshot[a][h]
    BY <1>0, <1>a DEF IInv, SnapshotFresh, Fresh, Main, Backup, Halves
  <1>s. Sealed(snapshot[a]).data = snapshot[a] /\ Sealed(snapshot[a]).crc = snapshot[a]
    BY DEF Sealed
  <1>j. BootValue' = BootValue
    BY <1>t, <1>a, <1>f, <1>g, <1>h, <1>s, FitsValue, BootValueCases, BootValueCasesNext
       DEF Main, Backup
  <1>n. \A h \in Halves : snapshot[a][h] <= count /\ BootValue'[h] <= snapshot[a][h]
    BY <1>0, <1>t, <1>j, <1>m, <1>w DEF Value
  <1>1. TypeOK'
    BY <1>0, <1>t, <1>a, <1>c, <1>d, <1>f, ZenonT(60) DEF Value, Factory, Steps, TypeOK, Join
  <1>2. OneWriter'
    BY <1>0, <1>t, <1>a, <1>b, ZenonT(60)
       DEF IInv, OneWriter, Writing, Running, Main, Backup, Steps, Actors, Off
  <1>3. Locals'
    BY <1>0, <1>t, <1>c, <1>k DEF IInv, Locals, Actors
  <1>4. MemoryNewest'
    BY <1>0, <1>t, <1>c, <1>d, <1>j, <1>m, <1>w
       DEF MemoryNewest, AtMost, Value, Factory, Join, Halves
  <1>5. CountNewest'
    BY <1>n, <1>t, <1>c, <1>f, <1>h, <1>m, <1>s DEF IInv, CountNewest, Value
  <1>6. BackupFollows'
    BY <1>0, <1>t, <1>a, <1>b, <1>d, <1>f, <1>g, <1>h, <1>s, <1>w, BootValueCases, FitsValue
       DEF IInv, BackupFollows, Running, Main, Backup, AtMost, Actors, Value
  <1>7. SnapshotFresh'
    BY <1>0, <1>t, <1>a, <1>b, <1>c, <1>d, <1>n, <1>w, ZenonT(60)
       DEF SnapshotFresh, Fresh, Main, Backup, Steps, Value, Halves, Join, Locals, Factory
  <1>8. Progress'
    BY <1>0, <1>t, <1>a, <1>b, <1>c, <1>f, <1>g, <1>h, ZenonT(60)
       DEF Progress, Begun, Main, Backup, Steps, Actors, Halves
  <1>9. AckedSurvives'
    BY <1>0, <1>t, <1>a, <1>d, <1>f, <1>h, <1>j, <1>s, <1>w, BootValueCases
       DEF IInv, AckedSurvives, AtMost, Value, Join, Main, Backup
  <1>10. Simulated
    BY <1>t, <1>c, <1>d, <1>j, <1>k, KeepsValue
  <1>q. QED
    BY <1>1, <1>2, <1>3, <1>4, <1>5, <1>6, <1>7, <1>8, <1>9, <1>10 DEF IInv

(* ... the user's, ... *)
LEMMA MainUserInv ==
  ASSUME IInv, NEW a \in Actors, WriteHalf(a, "user1", P1, "user", "crc1")
  PROVE  IInv' /\ Simulated
  <1> USE StorageAssumption
  <1>0. a \in Actors
    BY DEF Actors
  <1>t. /\ pc \in [Actors -> Steps \cup {"idle", "read", Off}]
        /\ acked \in Value /\ ram \in Value
        /\ snapshot \in [Actors -> Value] /\ need \in [Actors -> Value]
        /\ count \in Nat /\ degraded \in BOOLEAN
        /\ part \in [Parts -> [data : [Halves -> Cell], crc : [Halves -> Cell]]]
        /\ snapshot[a] \in Value /\ need[a] \in Value
        /\ BootValue \in Value /\ BootValue' \in Value
    BY <1>0, BootValueCases, BootValueCasesNext DEF IInv, TypeOK
  <1>a. /\ pc[a] = "user1" /\ pc' = [pc EXCEPT ![a] = "crc1"]
        /\ pc'[a] = "crc1" /\ \A b \in Actors \ {a} : pc'[b] = pc[b]
    BY <1>0, <1>t DEF WriteHalf, Proceeds, Goes
  <1>b. /\ \A b \in Actors \ {a} : pc[b] \notin Steps \ {"lock"}
        /\ a # Boot => pc[Boot] = "idle" /\ pc'[Boot] = "idle"
    BY <1>0, <1>a, ZenonT(60) DEF IInv, OneWriter, Writing, Steps, Running, Actors, Off
  <1>k. On /\ On'
    BY <1>0, <1>a, <1>b DEF On, Off, Actors
  <1>c. snapshot' = snapshot /\ need' = need /\ ram' = ram /\ count' = count
    BY DEF WriteHalf, Proceeds, Goes
  <1>d. acked' = acked /\ degraded' = degraded
    BY <1>t DEF WriteHalf, Proceeds, Goes, P1, P2
  <1>f. /\ part' \in [Parts -> [data : [Halves -> Cell], crc : [Halves -> Cell]]]
        /\ part'[P2] = part[P2] /\ part'[P1].crc = part[P1].crc
        /\ part'[P1].data = [part[P1].data EXCEPT !["user"] = snapshot[a]["user"]]
        /\ part'[P1].data["user"] = snapshot[a]["user"]
        /\ \A h \in Halves \ {"user"} : part'[P1].data[h] = part[P1].data[h]
    <2> DEFINE New == [part[P1] EXCEPT !.data = [part[P1].data EXCEPT !["user"] = snapshot[a]["user"]]]
    <2>1. part' = [part EXCEPT ![P1] = New]
      BY DEF WriteHalf, Proceeds, Goes
    <2>2. /\ part[P1].data \in [Halves -> Cell] /\ part[P1].crc \in [Halves -> Cell]
          /\ part[P1] = [data |-> part[P1].data, crc |-> part[P1].crc]
      BY <1>t DEF Parts
    <2>3. snapshot[a]["user"] \in Cell
      BY <1>t DEF Value, Halves, Cell
    <2>4. /\ New.crc = part[P1].crc /\ New.data = [part[P1].data EXCEPT !["user"] = snapshot[a]["user"]]
          /\ New = [data |-> New.data, crc |-> New.crc]
      BY <2>2
    <2>5. New.data \in [Halves -> Cell]
      BY <2>2, <2>3, <2>4
    <2> HIDE DEF New
    <2>6. part'[P1] = New /\ part'[P2] = part[P2]
      BY <1>t, <2>1 DEF Parts, P1, P2
    <2>7. part' \in [Parts -> [data : [Halves -> Cell], crc : [Halves -> Cell]]]
      BY <1>t, <2>1, <2>2, <2>4, <2>5
    <2>8. /\ New.data["user"] = snapshot[a]["user"]
          /\ \A h \in Halves \ {"user"} : New.data[h] = part[P1].data[h]
      BY <2>2, <2>4 DEF Halves
    <2>q. QED
      BY <2>2, <2>4, <2>6, <2>7, <2>8
  <1>g. /\ pc[a] \in Backup => part[P1] = Sealed(snapshot[a]) /\ snapshot[a] \notin ZeroSums
        /\ pc[a] \in {"sys1", "user1", "crc1"} => part[P1].crc = Nothing
        /\ pc[a] \in {"sys2", "user2", "crc2"} => part[P2].crc = Nothing
        /\ pc[a] \in {"user1", "crc1"} => part[P1].data["sys"] = snapshot[a]["sys"]
        /\ pc[a] \in {"user2", "crc2"} => part[P2].data["sys"] = snapshot[a]["sys"]
        /\ a = Boot /\ pc[a] \in Main =>
             ~MainFits /\ part[P2] = Sealed(snapshot[a]) /\ snapshot[a] \notin ZeroSums
    BY <1>0 DEF IInv, Progress, Begun
  <1>h. ~MainFits /\ ~MainFits' /\ (BackupFits' <=> BackupFits)
    BY <1>t, <1>a, <1>d, <1>f, <1>g, Unsealed, SealedFits, SameFits DEF Main, Backup
  <1>m. /\ \A h \in Halves : acked[h] <= ram[h] /\ BootValue[h] <= ram[h] /\ ram[h] <= count
        /\ \A b \in Actors, h \in Halves : need[b][h] <= ram[h] /\ snapshot[b][h] <= ram[h]
    BY <1>k DEF IInv, MemoryNewest, CountNewest, AtMost
  <1>w. \A h \in Halves :
          need[a][h] <= snapshot[a][h] /\ acked[h] <= snapshot[a][h] /\ BootValue[h] <= snapshot[a][h]
    BY <1>0, <1>a DEF IInv, SnapshotFresh, Fresh, Main, Backup, Halves
  <1>s. Sealed(snapshot[a]).data = snapshot[a] /\ Sealed(snapshot[a]).crc = snapshot[a]
    BY DEF Sealed
  <1>j. BootValue' = BootValue
    BY <1>t, <1>a, <1>f, <1>g, <1>h, <1>s, FitsValue, BootValueCases, BootValueCasesNext
       DEF Main, Backup
  <1>n. \A h \in Halves : snapshot[a][h] <= count /\ BootValue'[h] <= snapshot[a][h]
    BY <1>0, <1>t, <1>j, <1>m, <1>w DEF Value
  <1>1. TypeOK'
    BY <1>0, <1>t, <1>a, <1>c, <1>d, <1>f, ZenonT(60) DEF Value, Factory, Steps, TypeOK, Join
  <1>2. OneWriter'
    BY <1>0, <1>t, <1>a, <1>b, ZenonT(60)
       DEF IInv, OneWriter, Writing, Running, Main, Backup, Steps, Actors, Off
  <1>3. Locals'
    BY <1>0, <1>t, <1>c, <1>k DEF IInv, Locals, Actors
  <1>4. MemoryNewest'
    BY <1>0, <1>t, <1>c, <1>d, <1>j, <1>m, <1>w
       DEF MemoryNewest, AtMost, Value, Factory, Join, Halves
  <1>5. CountNewest'
    BY <1>n, <1>t, <1>c, <1>f, <1>h, <1>m, <1>s DEF IInv, CountNewest, Value
  <1>6. BackupFollows'
    BY <1>0, <1>t, <1>a, <1>b, <1>d, <1>f, <1>g, <1>h, <1>s, <1>w, BootValueCases, FitsValue
       DEF IInv, BackupFollows, Running, Main, Backup, AtMost, Actors, Value
  <1>7. SnapshotFresh'
    BY <1>0, <1>t, <1>a, <1>b, <1>c, <1>d, <1>n, <1>w, ZenonT(60)
       DEF SnapshotFresh, Fresh, Main, Backup, Steps, Value, Halves, Join, Locals, Factory
  <1>8. Progress'
    BY <1>0, <1>t, <1>a, <1>b, <1>c, <1>f, <1>g, <1>h, ZenonT(60)
       DEF Progress, Begun, Main, Backup, Steps, Actors, Halves
  <1>9. AckedSurvives'
    BY <1>0, <1>t, <1>a, <1>d, <1>f, <1>h, <1>j, <1>s, <1>w, BootValueCases
       DEF IInv, AckedSurvives, AtMost, Value, Join, Main, Backup
  <1>10. Simulated
    BY <1>t, <1>c, <1>d, <1>j, <1>k, KeepsValue
  <1>q. QED
    BY <1>1, <1>2, <1>3, <1>4, <1>5, <1>6, <1>7, <1>8, <1>9, <1>10 DEF IInv

(* ... and the checksum, by a caller, ... *)
LEMMA SumMainInv ==
  ASSUME IInv, NEW a \in Callers, WriteSum(a, "crc1", P1, "check")
  PROVE  IInv' /\ Simulated
  <1> USE StorageAssumption
  <1>0. a \in Actors
    BY DEF Actors
  <1>t. /\ pc \in [Actors -> Steps \cup {"idle", "read", Off}]
        /\ acked \in Value /\ ram \in Value
        /\ snapshot \in [Actors -> Value] /\ need \in [Actors -> Value]
        /\ count \in Nat /\ degraded \in BOOLEAN
        /\ part \in [Parts -> [data : [Halves -> Cell], crc : [Halves -> Cell]]]
        /\ snapshot[a] \in Value /\ need[a] \in Value
        /\ BootValue \in Value /\ BootValue' \in Value
    BY <1>0, BootValueCases, BootValueCasesNext DEF IInv, TypeOK
  <1>a. /\ pc[a] = "crc1" /\ pc' = [pc EXCEPT ![a] = "check"]
        /\ pc'[a] = "check" /\ \A b \in Actors \ {a} : pc'[b] = pc[b]
    BY <1>0, <1>t DEF WriteSum, Proceeds, Goes
  <1>b. /\ \A b \in Actors \ {a} : pc[b] \notin Steps \ {"lock"}
        /\ a # Boot => pc[Boot] = "idle" /\ pc'[Boot] = "idle"
    BY <1>0, <1>a, ZenonT(60) DEF IInv, OneWriter, Writing, Steps, Running, Actors, Off
  <1>k. On /\ On'
    BY <1>0, <1>a, <1>b DEF On, Off, Actors
  <1>c. snapshot' = snapshot /\ need' = need /\ ram' = ram /\ count' = count
    BY DEF WriteSum, Proceeds, Goes
  <1>d. acked' = acked /\ degraded' = degraded
    BY <1>t DEF WriteSum, Proceeds, Goes, P1, P2
  <1>f. /\ part' \in [Parts -> [data : [Halves -> Cell], crc : [Halves -> Cell]]]
        /\ part'[P2] = part[P2] /\ part[P1].data = snapshot[a]
        /\ part'[P1] = Sealed(snapshot[a])
    <2> DEFINE New == [part[P1] EXCEPT !.crc = snapshot[a]]
    <2>1. part' = [part EXCEPT ![P1] = New]
      BY DEF WriteSum, Proceeds, Goes
    <2>2. /\ part[P1].data \in [Halves -> Cell] /\ part[P1].crc \in [Halves -> Cell]
          /\ part[P1] = [data |-> part[P1].data, crc |-> part[P1].crc]
      BY <1>t DEF Parts
    <2>3. snapshot[a] \in [Halves -> Cell] /\ snapshot[a] \in [Halves -> Nat]
      BY <1>t DEF Value, Cell
    <2>4. part[P1].data["sys"] = snapshot[a]["sys"] /\ part[P1].data["user"] = snapshot[a]["user"]
      BY <1>0, <1>a DEF IInv, Progress, Begun
    <2>5. part[P1].data = snapshot[a]
      BY <2>2, <2>3, <2>4 DEF Halves
    <2>6. New = Sealed(snapshot[a]) /\ New \in [data : [Halves -> Cell], crc : [Halves -> Cell]]
      BY <2>2, <2>3, <2>5 DEF Sealed
    <2>q. QED
      BY <1>t, <2>1, <2>5, <2>6 DEF Parts, P1, P2
  <1>g. /\ pc[a] \in Backup => part[P1] = Sealed(snapshot[a]) /\ snapshot[a] \notin ZeroSums
        /\ pc[a] \in {"sys1", "user1", "crc1"} => part[P1].crc = Nothing
        /\ pc[a] \in {"sys2", "user2", "crc2"} => part[P2].crc = Nothing
        /\ pc[a] \in {"user1", "crc1"} => part[P1].data["sys"] = snapshot[a]["sys"]
        /\ pc[a] \in {"user2", "crc2"} => part[P2].data["sys"] = snapshot[a]["sys"]
        /\ a = Boot /\ pc[a] \in Main =>
             ~MainFits /\ part[P2] = Sealed(snapshot[a]) /\ snapshot[a] \notin ZeroSums
    BY <1>0 DEF IInv, Progress, Begun
  <1>h. ~MainFits /\ (MainFits' <=> snapshot[a] \notin ZeroSums) /\ (BackupFits' <=> BackupFits)
    BY <1>t, <1>a, <1>d, <1>f, <1>g, Unsealed, SealedFits, SameFits DEF Main, Backup
  <1>m. /\ \A h \in Halves : acked[h] <= ram[h] /\ BootValue[h] <= ram[h] /\ ram[h] <= count
        /\ \A b \in Actors, h \in Halves : need[b][h] <= ram[h] /\ snapshot[b][h] <= ram[h]
    BY <1>k DEF IInv, MemoryNewest, CountNewest, AtMost
  <1>w. \A h \in Halves :
          need[a][h] <= snapshot[a][h] /\ acked[h] <= snapshot[a][h] /\ BootValue[h] <= snapshot[a][h]
    BY <1>0, <1>a DEF IInv, SnapshotFresh, Fresh, Main, Backup, Halves
  <1>s. Sealed(snapshot[a]).data = snapshot[a] /\ Sealed(snapshot[a]).crc = snapshot[a]
    BY DEF Sealed
  <1>j. BootValue' = BootValue \/ BootValue' = snapshot[a]
    BY <1>t, <1>a, <1>f, <1>g, <1>h, <1>s, FitsValue, BootValueCases, BootValueCasesNext
       DEF Main, Backup
  <1>n. \A h \in Halves : snapshot[a][h] <= count /\ BootValue'[h] <= snapshot[a][h]
    BY <1>0, <1>t, <1>j, <1>m, <1>w DEF Value
  <1>1. TypeOK'
    BY <1>0, <1>t, <1>a, <1>c, <1>d, <1>f, ZenonT(60) DEF Value, Factory, Steps, TypeOK, Join
  <1>2. OneWriter'
    BY <1>0, <1>t, <1>a, <1>b, ZenonT(60)
       DEF IInv, OneWriter, Writing, Running, Main, Backup, Steps, Actors, Off
  <1>3. Locals'
    BY <1>0, <1>t, <1>c, <1>k DEF IInv, Locals, Actors
  <1>4. MemoryNewest'
    BY <1>0, <1>t, <1>c, <1>d, <1>j, <1>m, <1>w
       DEF MemoryNewest, AtMost, Value, Factory, Join, Halves
  <1>5. CountNewest'
    BY <1>n, <1>t, <1>c, <1>f, <1>h, <1>m, <1>s DEF IInv, CountNewest, Value
  <1>6. BackupFollows'
    BY <1>0, <1>t, <1>a, <1>b, <1>d, <1>f, <1>g, <1>h, <1>s, <1>w, BootValueCases, FitsValue
       DEF IInv, BackupFollows, Running, Main, Backup, AtMost, Actors, Value
  <1>7. SnapshotFresh'
    BY <1>0, <1>t, <1>a, <1>b, <1>c, <1>d, <1>n, <1>w, ZenonT(60)
       DEF SnapshotFresh, Fresh, Main, Backup, Steps, Value, Halves, Join, Locals, Factory
  <1>8. Progress'
    BY <1>0, <1>t, <1>a, <1>b, <1>c, <1>f, <1>g, <1>h, ZenonT(60)
       DEF Progress, Begun, Main, Backup, Steps, Actors, Halves
  <1>9. AckedSurvives'
    BY <1>0, <1>t, <1>a, <1>d, <1>f, <1>h, <1>j, <1>s, <1>w, BootValueCases
       DEF IInv, AckedSurvives, AtMost, Value, Join, Main, Backup
  <1>10. Simulated
    BY <1>0, <1>t, <1>c, <1>d, <1>j, <1>k, <1>m, <1>w, KeepsValue, Saves
  <1>q. QED
    BY <1>1, <1>2, <1>3, <1>4, <1>5, <1>6, <1>7, <1>8, <1>9, <1>10 DEF IInv

(* ... and by the boot, which is then done. *)
LEMMA SumMainBootInv ==
  ASSUME IInv, NEW a, a = Boot, WriteSum(a, "crc1", P1, "idle")
  PROVE  IInv' /\ Simulated
  <1> USE StorageAssumption
  <1>0. a \in Actors
    BY DEF Actors
  <1>t. /\ pc \in [Actors -> Steps \cup {"idle", "read", Off}]
        /\ acked \in Value /\ ram \in Value
        /\ snapshot \in [Actors -> Value] /\ need \in [Actors -> Value]
        /\ count \in Nat /\ degraded \in BOOLEAN
        /\ part \in [Parts -> [data : [Halves -> Cell], crc : [Halves -> Cell]]]
        /\ snapshot[a] \in Value /\ need[a] \in Value
        /\ BootValue \in Value /\ BootValue' \in Value
    BY <1>0, BootValueCases, BootValueCasesNext DEF IInv, TypeOK
  <1>a. /\ pc[a] = "crc1" /\ pc' = [pc EXCEPT ![a] = "idle"]
        /\ pc'[a] = "idle" /\ \A b \in Actors \ {a} : pc'[b] = pc[b]
    BY <1>0, <1>t DEF WriteSum, Proceeds, Goes
  <1>b. /\ \A b \in Actors \ {a} : pc[b] \notin Steps \ {"lock"}
        /\ a # Boot => pc[Boot] = "idle" /\ pc'[Boot] = "idle"
    BY <1>0, <1>a, ZenonT(60) DEF IInv, OneWriter, Writing, Steps, Running, Actors, Off
  <1>k. On /\ On'
    BY <1>0, <1>a, <1>b DEF On, Off, Actors
  <1>c. /\ ram' = ram /\ count' = count /\ snapshot' = [snapshot EXCEPT ![a] = Factory]
       /\ need' = [need EXCEPT ![a] = Factory]
    BY DEF WriteSum, Proceeds, Goes
  <1>d. acked' = acked /\ degraded' = degraded
    BY <1>t DEF WriteSum, Proceeds, Goes, P1, P2
  <1>f. /\ part' \in [Parts -> [data : [Halves -> Cell], crc : [Halves -> Cell]]]
        /\ part'[P2] = part[P2] /\ part[P1].data = snapshot[a]
        /\ part'[P1] = Sealed(snapshot[a])
    <2> DEFINE New == [part[P1] EXCEPT !.crc = snapshot[a]]
    <2>1. part' = [part EXCEPT ![P1] = New]
      BY DEF WriteSum, Proceeds, Goes
    <2>2. /\ part[P1].data \in [Halves -> Cell] /\ part[P1].crc \in [Halves -> Cell]
          /\ part[P1] = [data |-> part[P1].data, crc |-> part[P1].crc]
      BY <1>t DEF Parts
    <2>3. snapshot[a] \in [Halves -> Cell] /\ snapshot[a] \in [Halves -> Nat]
      BY <1>t DEF Value, Cell
    <2>4. part[P1].data["sys"] = snapshot[a]["sys"] /\ part[P1].data["user"] = snapshot[a]["user"]
      BY <1>0, <1>a DEF IInv, Progress, Begun
    <2>5. part[P1].data = snapshot[a]
      BY <2>2, <2>3, <2>4 DEF Halves
    <2>6. New = Sealed(snapshot[a]) /\ New \in [data : [Halves -> Cell], crc : [Halves -> Cell]]
      BY <2>2, <2>3, <2>5 DEF Sealed
    <2>q. QED
      BY <1>t, <2>1, <2>5, <2>6 DEF Parts, P1, P2
  <1>g. /\ pc[a] \in Backup => part[P1] = Sealed(snapshot[a]) /\ snapshot[a] \notin ZeroSums
        /\ pc[a] \in {"sys1", "user1", "crc1"} => part[P1].crc = Nothing
        /\ pc[a] \in {"sys2", "user2", "crc2"} => part[P2].crc = Nothing
        /\ pc[a] \in {"user1", "crc1"} => part[P1].data["sys"] = snapshot[a]["sys"]
        /\ pc[a] \in {"user2", "crc2"} => part[P2].data["sys"] = snapshot[a]["sys"]
        /\ a = Boot /\ pc[a] \in Main =>
             ~MainFits /\ part[P2] = Sealed(snapshot[a]) /\ snapshot[a] \notin ZeroSums
    BY <1>0 DEF IInv, Progress, Begun
  <1>h. ~MainFits /\ MainFits' /\ BackupFits' /\ BackupFits
    BY <1>t, <1>a, <1>d, <1>f, <1>g, Unsealed, SealedFits, SameFits DEF Main, Backup
  <1>m. /\ \A h \in Halves : acked[h] <= ram[h] /\ BootValue[h] <= ram[h] /\ ram[h] <= count
        /\ \A b \in Actors, h \in Halves : need[b][h] <= ram[h] /\ snapshot[b][h] <= ram[h]
    BY <1>k DEF IInv, MemoryNewest, CountNewest, AtMost
  <1>w. \A h \in Halves :
          need[a][h] <= snapshot[a][h] /\ acked[h] <= snapshot[a][h] /\ BootValue[h] <= snapshot[a][h]
    BY <1>0, <1>a DEF IInv, SnapshotFresh, Fresh, Main, Backup, Halves
  <1>s. Sealed(snapshot[a]).data = snapshot[a] /\ Sealed(snapshot[a]).crc = snapshot[a]
    BY DEF Sealed
  <1>j. BootValue' = BootValue
    BY <1>t, <1>a, <1>f, <1>g, <1>h, <1>s, FitsValue, BootValueCases, BootValueCasesNext
       DEF Main, Backup
  <1>n. \A h \in Halves : snapshot[a][h] <= count /\ BootValue'[h] <= snapshot[a][h]
    BY <1>0, <1>t, <1>j, <1>m, <1>w DEF Value
  <1>1. TypeOK'
    BY <1>0, <1>t, <1>a, <1>c, <1>d, <1>f, ZenonT(60) DEF Value, Factory, Steps, TypeOK, Join
  <1>2. OneWriter'
    BY <1>0, <1>t, <1>a, <1>b, ZenonT(60)
       DEF IInv, OneWriter, Writing, Running, Main, Backup, Steps, Actors, Off
  <1>3. Locals'
    BY <1>0, <1>t, <1>c, <1>k DEF IInv, Locals, Actors
  <1>4. MemoryNewest'
    BY <1>0, <1>t, <1>c, <1>d, <1>j, <1>m, <1>w
       DEF MemoryNewest, AtMost, Value, Factory, Join, Halves
  <1>5. CountNewest'
    BY <1>n, <1>t, <1>c, <1>f, <1>h, <1>m, <1>s DEF IInv, CountNewest, Value
  <1>6. BackupFollows'
    BY <1>0, <1>t, <1>a, <1>b, <1>d, <1>f, <1>g, <1>h, <1>s, <1>w, BootValueCases, FitsValue
       DEF IInv, BackupFollows, Running, Main, Backup, AtMost, Actors, Value
  <1>7. SnapshotFresh'
    BY <1>0, <1>t, <1>a, <1>b, <1>c, <1>d, <1>n, <1>w, ZenonT(60)
       DEF SnapshotFresh, Fresh, Main, Backup, Steps, Value, Halves, Join, Locals, Factory
  <1>8. Progress'
    BY <1>0, <1>t, <1>a, <1>b, <1>c, <1>f, <1>g, <1>h, ZenonT(60)
       DEF Progress, Begun, Main, Backup, Steps, Actors, Halves
  <1>9. AckedSurvives'
    BY <1>0, <1>t, <1>a, <1>d, <1>f, <1>h, <1>j, <1>s, <1>w, BootValueCases
       DEF IInv, AckedSurvives, AtMost, Value, Join, Main, Backup
  <1>10. Simulated
    BY <1>t, <1>c, <1>d, <1>j, <1>k, KeepsValue
  <1>q. QED
    BY <1>1, <1>2, <1>3, <1>4, <1>5, <1>6, <1>7, <1>8, <1>9, <1>10 DEF IInv

(* The checksum read back is 0: the save ends and the backup is kept, ... *)
LEMMA ReadBackKeptInv ==
  ASSUME IInv, NEW a \in Callers, ReadBack(a), part[P1].crc \in ZeroSums
  PROVE  IInv' /\ Simulated
  <1> USE StorageAssumption
  <1>0. a \in Actors
    BY DEF Actors
  <1>t. /\ pc \in [Actors -> Steps \cup {"idle", "read", Off}]
        /\ acked \in Value /\ ram \in Value
        /\ snapshot \in [Actors -> Value] /\ need \in [Actors -> Value]
        /\ count \in Nat /\ degraded \in BOOLEAN
        /\ part \in [Parts -> [data : [Halves -> Cell], crc : [Halves -> Cell]]]
        /\ snapshot[a] \in Value /\ need[a] \in Value
        /\ BootValue \in Value /\ BootValue' \in Value
    BY <1>0, BootValueCases, BootValueCasesNext DEF IInv, TypeOK
  <1>a. /\ pc[a] = "check" /\ pc' = [pc EXCEPT ![a] = "idle"]
        /\ pc'[a] = "idle" /\ \A b \in Actors \ {a} : pc'[b] = pc[b]
    BY <1>0, <1>t DEF ReadBack, Proceeds, Goes
  <1>b. /\ \A b \in Actors \ {a} : pc[b] \notin Steps \ {"lock"}
        /\ a # Boot /\ pc[Boot] = "idle" /\ pc'[Boot] = "idle"
    BY <1>0, <1>a, ZenonT(60) DEF IInv, OneWriter, Writing, Steps, Running, Actors, Off
  <1>k. On /\ On'
    BY <1>b DEF On, Off
  <1>c. /\ ram' = ram /\ count' = count /\ snapshot' = [snapshot EXCEPT ![a] = Factory]
        /\ need' = [need EXCEPT ![a] = Factory]
    BY DEF ReadBack, Proceeds, Goes
  <1>d. acked' = acked /\ degraded' = degraded /\ part' = part
    BY DEF ReadBack, Proceeds, Goes
  <1>h. BootValue' = BootValue /\ (MainFits' <=> MainFits) /\ (BackupFits' <=> BackupFits)
    BY <1>d DEF BootValue, MainFits, BackupFits, Valid
  <1>m. /\ \A h \in Halves : acked[h] <= ram[h] /\ BootValue[h] <= ram[h] /\ ram[h] <= count
        /\ \A b \in Actors, h \in Halves : need[b][h] <= ram[h] /\ snapshot[b][h] <= ram[h]
    BY <1>k DEF IInv, MemoryNewest, CountNewest, AtMost
  <1>x. ~MainFits
    <2>1. part[P1] = Sealed(snapshot[a]) /\ snapshot[a] \in ZeroSums
      BY <1>0, <1>a DEF IInv, Progress, ReadBack, Sealed
    <2>q. QED
      BY <1>t, <2>1, SealedFits
  <1>1. TypeOK'
    BY <1>0, <1>t, <1>a, <1>c, <1>d, ZenonT(60) DEF Value, Factory, Steps, TypeOK
  <1>2. OneWriter'
    BY <1>0, <1>t, <1>a, <1>b, ZenonT(60)
       DEF IInv, OneWriter, Writing, Running, Main, Backup, Steps, Actors, Off
  <1>3. Locals'
    BY <1>0, <1>t, <1>b, <1>c, <1>k DEF IInv, Locals, Actors
  <1>4. MemoryNewest'
    BY <1>0, <1>t, <1>c, <1>d, <1>h, <1>m DEF MemoryNewest, AtMost, Value, Factory, Halves
  <1>5. CountNewest'
    BY <1>c, <1>d, <1>h DEF IInv, CountNewest
  <1>6. BackupFollows'
    BY <1>0, <1>a, <1>b, <1>d, <1>h, <1>x
       DEF IInv, BackupFollows, Running, Main, Backup, AtMost, Actors
  <1>7. SnapshotFresh'
    BY <1>0, <1>t, <1>a, <1>b, <1>c, <1>d, <1>h, <1>m, ZenonT(60)
       DEF IInv, SnapshotFresh, Fresh, Main, Backup, Steps, Value, Halves, Factory, Actors
  <1>8. Progress'
    BY <1>0, <1>t, <1>a, <1>b, <1>c, <1>d, <1>h, <1>x, ZenonT(60)
       DEF IInv, Progress, Begun, Main, Backup, Steps, Actors, Off
  <1>9. AckedSurvives'
    BY <1>d, <1>h DEF IInv, AckedSurvives, AtMost
  <1>10. Simulated
    BY <1>t, <1>c, <1>d, <1>h, <1>k, KeepsValue
  <1>q. QED
    BY <1>1, <1>2, <1>3, <1>4, <1>5, <1>6, <1>7, <1>8, <1>9, <1>10 DEF IInv

(* ... or it is not, and the backup's turn comes. *)
LEMMA ReadBackGoesOnInv ==
  ASSUME IInv, NEW a \in Callers, ReadBack(a), part[P1].crc \notin ZeroSums
  PROVE  IInv' /\ Simulated
  <1> USE StorageAssumption
  <1>0. a \in Actors
    BY DEF Actors
  <1>t. /\ pc \in [Actors -> Steps \cup {"idle", "read", Off}]
        /\ acked \in Value /\ ram \in Value
        /\ snapshot \in [Actors -> Value] /\ need \in [Actors -> Value]
        /\ count \in Nat /\ degraded \in BOOLEAN
        /\ part \in [Parts -> [data : [Halves -> Cell], crc : [Halves -> Cell]]]
        /\ snapshot[a] \in Value /\ need[a] \in Value
        /\ BootValue \in Value /\ BootValue' \in Value
    BY <1>0, BootValueCases, BootValueCasesNext DEF IInv, TypeOK
  <1>a. /\ pc[a] = "check" /\ pc' = [pc EXCEPT ![a] = "erase2"]
        /\ pc'[a] = "erase2" /\ \A b \in Actors \ {a} : pc'[b] = pc[b]
    BY <1>0, <1>t DEF ReadBack, Proceeds, Goes
  <1>b. /\ \A b \in Actors \ {a} : pc[b] \notin Steps \ {"lock"}
        /\ a # Boot /\ pc[Boot] = "idle" /\ pc'[Boot] = "idle"
    BY <1>0, <1>a, ZenonT(60) DEF IInv, OneWriter, Writing, Steps, Running, Actors, Off
  <1>k. On /\ On'
    BY <1>b DEF On, Off
  <1>c. snapshot' = snapshot /\ need' = need /\ ram' = ram /\ count' = count
    BY DEF ReadBack, Proceeds, Goes
  <1>d. acked' = acked /\ degraded' = degraded /\ part' = part
    BY DEF ReadBack, Proceeds, Goes
  <1>h. BootValue' = BootValue /\ (MainFits' <=> MainFits) /\ (BackupFits' <=> BackupFits)
    BY <1>d DEF BootValue, MainFits, BackupFits, Valid
  <1>m. /\ \A h \in Halves : acked[h] <= ram[h] /\ BootValue[h] <= ram[h] /\ ram[h] <= count
        /\ \A b \in Actors, h \in Halves : need[b][h] <= ram[h] /\ snapshot[b][h] <= ram[h]
    BY <1>k DEF IInv, MemoryNewest, CountNewest, AtMost
  <1>x. snapshot[a] \notin ZeroSums
    <2>1. part[P1] = Sealed(snapshot[a])
      BY <1>0, <1>a DEF IInv, Progress
    <2>2. part[P1].crc \notin ZeroSums
      OBVIOUS
    <2>q. QED
      BY <2>1, <2>2 DEF Sealed
  <1>1. TypeOK'
    BY <1>0, <1>t, <1>a, <1>c, <1>d, ZenonT(60) DEF Value, Factory, Steps, TypeOK
  <1>2. OneWriter'
    BY <1>0, <1>t, <1>a, <1>b, ZenonT(60)
       DEF IInv, OneWriter, Writing, Running, Main, Backup, Steps, Actors, Off
  <1>3. Locals'
    BY <1>0, <1>t, <1>b, <1>c, <1>k DEF IInv, Locals, Actors
  <1>4. MemoryNewest'
    BY <1>0, <1>t, <1>c, <1>d, <1>h, <1>m DEF MemoryNewest, AtMost, Value, Factory, Halves
  <1>5. CountNewest'
    BY <1>c, <1>d, <1>h DEF IInv, CountNewest
  <1>6. BackupFollows'
    BY <1>0, <1>a, <1>b, <1>d, <1>h, <1>x
       DEF IInv, BackupFollows, Running, Main, Backup, AtMost, Actors
  <1>7. SnapshotFresh'
    BY <1>0, <1>t, <1>a, <1>b, <1>c, <1>d, <1>h, <1>m, ZenonT(60)
       DEF IInv, SnapshotFresh, Fresh, Main, Backup, Steps, Value, Halves, Factory, Actors
  <1>8. Progress'
    BY <1>0, <1>t, <1>a, <1>b, <1>c, <1>d, <1>h, <1>x, ZenonT(60)
       DEF IInv, Progress, Begun, Main, Backup, Steps, Actors, Off
  <1>9. AckedSurvives'
    BY <1>d, <1>h DEF IInv, AckedSurvives, AtMost
  <1>10. Simulated
    BY <1>t, <1>c, <1>d, <1>h, <1>k, KeepsValue
  <1>q. QED
    BY <1>1, <1>2, <1>3, <1>4, <1>5, <1>6, <1>7, <1>8, <1>9, <1>10 DEF IInv

(* The backup is erased: the main copy is as new as what was acknowledged. *)
LEMMA EraseBackupInv ==
  ASSUME IInv, NEW a \in Actors, Erase(a, "erase2", P2, "sys2")
  PROVE  IInv' /\ Simulated
  <1> USE StorageAssumption
  <1>0. a \in Actors
    BY DEF Actors
  <1>t. /\ pc \in [Actors -> Steps \cup {"idle", "read", Off}]
        /\ acked \in Value /\ ram \in Value
        /\ snapshot \in [Actors -> Value] /\ need \in [Actors -> Value]
        /\ count \in Nat /\ degraded \in BOOLEAN
        /\ part \in [Parts -> [data : [Halves -> Cell], crc : [Halves -> Cell]]]
        /\ snapshot[a] \in Value /\ need[a] \in Value
        /\ BootValue \in Value /\ BootValue' \in Value
    BY <1>0, BootValueCases, BootValueCasesNext DEF IInv, TypeOK
  <1>a. /\ pc[a] = "erase2" /\ pc' = [pc EXCEPT ![a] = "sys2"]
        /\ pc'[a] = "sys2" /\ \A b \in Actors \ {a} : pc'[b] = pc[b]
    BY <1>0, <1>t DEF Erase, Proceeds, Goes
  <1>b. /\ \A b \in Actors \ {a} : pc[b] \notin Steps \ {"lock"}
        /\ a # Boot => pc[Boot] = "idle" /\ pc'[Boot] = "idle"
    BY <1>0, <1>a, ZenonT(60) DEF IInv, OneWriter, Writing, Steps, Running, Actors, Off
  <1>k. On /\ On'
    BY <1>0, <1>a, <1>b DEF On, Off, Actors
  <1>c. snapshot' = snapshot /\ need' = need /\ ram' = ram /\ count' = count
    BY DEF Erase, Proceeds, Goes
  <1>d. acked' = acked /\ degraded' = degraded
    BY <1>t DEF Erase, Proceeds, Goes, P1, P2
  <1>f. /\ part' \in [Parts -> [data : [Halves -> Cell], crc : [Halves -> Cell]]]
        /\ part'[P1] = part[P1] /\ part'[P2].crc = Nothing
    <2>1. Erased \in [data : [Halves -> Cell], crc : [Halves -> Cell]] /\ Erased.crc = Nothing
      BY DEF Erased, Nothing, Cell
    <2>2. part' = [part EXCEPT ![P2] = Erased]
      BY DEF Erase, Proceeds, Goes
    <2>q. QED
      BY <1>t, <2>1, <2>2 DEF Parts, P1, P2
  <1>g. /\ pc[a] \in Backup => part[P1] = Sealed(snapshot[a]) /\ snapshot[a] \notin ZeroSums
        /\ pc[a] \in {"sys1", "user1", "crc1"} => part[P1].crc = Nothing
        /\ pc[a] \in {"sys2", "user2", "crc2"} => part[P2].crc = Nothing
        /\ pc[a] \in {"user1", "crc1"} => part[P1].data["sys"] = snapshot[a]["sys"]
        /\ pc[a] \in {"user2", "crc2"} => part[P2].data["sys"] = snapshot[a]["sys"]
        /\ a = Boot /\ pc[a] \in Main =>
             ~MainFits /\ part[P2] = Sealed(snapshot[a]) /\ snapshot[a] \notin ZeroSums
    BY <1>0 DEF IInv, Progress, Begun
  <1>h. MainFits /\ MainFits' /\ ~BackupFits'
    BY <1>t, <1>a, <1>d, <1>f, <1>g, Unsealed, SealedFits, SameFits DEF Main, Backup
  <1>m. /\ \A h \in Halves : acked[h] <= ram[h] /\ BootValue[h] <= ram[h] /\ ram[h] <= count
        /\ \A b \in Actors, h \in Halves : need[b][h] <= ram[h] /\ snapshot[b][h] <= ram[h]
    BY <1>k DEF IInv, MemoryNewest, CountNewest, AtMost
  <1>w. \A h \in Halves :
          need[a][h] <= snapshot[a][h] /\ acked[h] <= snapshot[a][h] /\ BootValue[h] <= snapshot[a][h]
    BY <1>0, <1>a DEF IInv, SnapshotFresh, Fresh, Main, Backup, Halves
  <1>s. Sealed(snapshot[a]).data = snapshot[a] /\ Sealed(snapshot[a]).crc = snapshot[a]
    BY DEF Sealed
  <1>j. BootValue' = BootValue
    BY <1>t, <1>a, <1>f, <1>g, <1>h, <1>s, FitsValue, BootValueCases, BootValueCasesNext
       DEF Main, Backup
  <1>n. \A h \in Halves : snapshot[a][h] <= count /\ BootValue'[h] <= snapshot[a][h]
    BY <1>0, <1>t, <1>j, <1>m, <1>w DEF Value
  <1>1. TypeOK'
    BY <1>0, <1>t, <1>a, <1>c, <1>d, <1>f, ZenonT(60) DEF Value, Factory, Steps, TypeOK, Join
  <1>2. OneWriter'
    BY <1>0, <1>t, <1>a, <1>b, ZenonT(60)
       DEF IInv, OneWriter, Writing, Running, Main, Backup, Steps, Actors, Off
  <1>3. Locals'
    BY <1>0, <1>t, <1>c, <1>k DEF IInv, Locals, Actors
  <1>4. MemoryNewest'
    BY <1>0, <1>t, <1>c, <1>d, <1>j, <1>m, <1>w
       DEF MemoryNewest, AtMost, Value, Factory, Join, Halves
  <1>5. CountNewest'
    BY <1>n, <1>t, <1>c, <1>f, <1>h, <1>m, <1>s DEF IInv, CountNewest, Value
  <1>6. BackupFollows'
    BY <1>0, <1>t, <1>a, <1>b, <1>d, <1>f, <1>g, <1>h, <1>s, <1>w, BootValueCases, FitsValue
       DEF IInv, BackupFollows, Running, Main, Backup, AtMost, Actors, Value
  <1>7. SnapshotFresh'
    BY <1>0, <1>t, <1>a, <1>b, <1>c, <1>d, <1>n, <1>w, ZenonT(60)
       DEF SnapshotFresh, Fresh, Main, Backup, Steps, Value, Halves, Join, Locals, Factory
  <1>8. Progress'
    BY <1>0, <1>t, <1>a, <1>b, <1>c, <1>f, <1>g, <1>h, ZenonT(60)
       DEF Progress, Begun, Main, Backup, Steps, Actors, Halves
  <1>9. AckedSurvives'
    BY <1>0, <1>t, <1>a, <1>d, <1>f, <1>h, <1>j, <1>s, <1>w, BootValueCases
       DEF IInv, AckedSurvives, AtMost, Value, Join, Main, Backup
  <1>10. Simulated
    BY <1>t, <1>c, <1>d, <1>j, <1>k, KeepsValue
  <1>q. QED
    BY <1>1, <1>2, <1>3, <1>4, <1>5, <1>6, <1>7, <1>8, <1>9, <1>10 DEF IInv

(* The backup is written: the system's half, ... *)
LEMMA BackupSysInv ==
  ASSUME IInv, NEW a \in Actors, WriteHalf(a, "sys2", P2, "sys", "user2")
  PROVE  IInv' /\ Simulated
  <1> USE StorageAssumption
  <1>0. a \in Actors
    BY DEF Actors
  <1>t. /\ pc \in [Actors -> Steps \cup {"idle", "read", Off}]
        /\ acked \in Value /\ ram \in Value
        /\ snapshot \in [Actors -> Value] /\ need \in [Actors -> Value]
        /\ count \in Nat /\ degraded \in BOOLEAN
        /\ part \in [Parts -> [data : [Halves -> Cell], crc : [Halves -> Cell]]]
        /\ snapshot[a] \in Value /\ need[a] \in Value
        /\ BootValue \in Value /\ BootValue' \in Value
    BY <1>0, BootValueCases, BootValueCasesNext DEF IInv, TypeOK
  <1>a. /\ pc[a] = "sys2" /\ pc' = [pc EXCEPT ![a] = "user2"]
        /\ pc'[a] = "user2" /\ \A b \in Actors \ {a} : pc'[b] = pc[b]
    BY <1>0, <1>t DEF WriteHalf, Proceeds, Goes
  <1>b. /\ \A b \in Actors \ {a} : pc[b] \notin Steps \ {"lock"}
        /\ a # Boot => pc[Boot] = "idle" /\ pc'[Boot] = "idle"
    BY <1>0, <1>a, ZenonT(60) DEF IInv, OneWriter, Writing, Steps, Running, Actors, Off
  <1>k. On /\ On'
    BY <1>0, <1>a, <1>b DEF On, Off, Actors
  <1>c. snapshot' = snapshot /\ need' = need /\ ram' = ram /\ count' = count
    BY DEF WriteHalf, Proceeds, Goes
  <1>d. acked' = acked /\ degraded' = degraded
    BY <1>t DEF WriteHalf, Proceeds, Goes, P1, P2
  <1>f. /\ part' \in [Parts -> [data : [Halves -> Cell], crc : [Halves -> Cell]]]
        /\ part'[P1] = part[P1] /\ part'[P2].crc = part[P2].crc
        /\ part'[P2].data = [part[P2].data EXCEPT !["sys"] = snapshot[a]["sys"]]
        /\ part'[P2].data["sys"] = snapshot[a]["sys"]
        /\ \A h \in Halves \ {"sys"} : part'[P2].data[h] = part[P2].data[h]
    <2> DEFINE New == [part[P2] EXCEPT !.data = [part[P2].data EXCEPT !["sys"] = snapshot[a]["sys"]]]
    <2>1. part' = [part EXCEPT ![P2] = New]
      BY DEF WriteHalf, Proceeds, Goes
    <2>2. /\ part[P2].data \in [Halves -> Cell] /\ part[P2].crc \in [Halves -> Cell]
          /\ part[P2] = [data |-> part[P2].data, crc |-> part[P2].crc]
      BY <1>t DEF Parts
    <2>3. snapshot[a]["sys"] \in Cell
      BY <1>t DEF Value, Halves, Cell
    <2>4. /\ New.crc = part[P2].crc /\ New.data = [part[P2].data EXCEPT !["sys"] = snapshot[a]["sys"]]
          /\ New = [data |-> New.data, crc |-> New.crc]
      BY <2>2
    <2>5. New.data \in [Halves -> Cell]
      BY <2>2, <2>3, <2>4
    <2> HIDE DEF New
    <2>6. part'[P2] = New /\ part'[P1] = part[P1]
      BY <1>t, <2>1 DEF Parts, P1, P2
    <2>7. part' \in [Parts -> [data : [Halves -> Cell], crc : [Halves -> Cell]]]
      BY <1>t, <2>1, <2>2, <2>4, <2>5
    <2>8. /\ New.data["sys"] = snapshot[a]["sys"]
          /\ \A h \in Halves \ {"sys"} : New.data[h] = part[P2].data[h]
      BY <2>2, <2>4 DEF Halves
    <2>q. QED
      BY <2>2, <2>4, <2>6, <2>7, <2>8
  <1>g. /\ pc[a] \in Backup => part[P1] = Sealed(snapshot[a]) /\ snapshot[a] \notin ZeroSums
        /\ pc[a] \in {"sys1", "user1", "crc1"} => part[P1].crc = Nothing
        /\ pc[a] \in {"sys2", "user2", "crc2"} => part[P2].crc = Nothing
        /\ pc[a] \in {"user1", "crc1"} => part[P1].data["sys"] = snapshot[a]["sys"]
        /\ pc[a] \in {"user2", "crc2"} => part[P2].data["sys"] = snapshot[a]["sys"]
        /\ a = Boot /\ pc[a] \in Main =>
             ~MainFits /\ part[P2] = Sealed(snapshot[a]) /\ snapshot[a] \notin ZeroSums
    BY <1>0 DEF IInv, Progress, Begun
  <1>h. MainFits /\ MainFits' /\ ~BackupFits /\ ~BackupFits'
    BY <1>t, <1>a, <1>d, <1>f, <1>g, Unsealed, SealedFits, SameFits DEF Main, Backup
  <1>m. /\ \A h \in Halves : acked[h] <= ram[h] /\ BootValue[h] <= ram[h] /\ ram[h] <= count
        /\ \A b \in Actors, h \in Halves : need[b][h] <= ram[h] /\ snapshot[b][h] <= ram[h]
    BY <1>k DEF IInv, MemoryNewest, CountNewest, AtMost
  <1>w. \A h \in Halves :
          need[a][h] <= snapshot[a][h] /\ acked[h] <= snapshot[a][h] /\ BootValue[h] <= snapshot[a][h]
    BY <1>0, <1>a DEF IInv, SnapshotFresh, Fresh, Main, Backup, Halves
  <1>s. Sealed(snapshot[a]).data = snapshot[a] /\ Sealed(snapshot[a]).crc = snapshot[a]
    BY DEF Sealed
  <1>j. BootValue' = BootValue
    BY <1>t, <1>a, <1>f, <1>g, <1>h, <1>s, FitsValue, BootValueCases, BootValueCasesNext
       DEF Main, Backup
  <1>n. \A h \in Halves : snapshot[a][h] <= count /\ BootValue'[h] <= snapshot[a][h]
    BY <1>0, <1>t, <1>j, <1>m, <1>w DEF Value
  <1>1. TypeOK'
    BY <1>0, <1>t, <1>a, <1>c, <1>d, <1>f, ZenonT(60) DEF Value, Factory, Steps, TypeOK, Join
  <1>2. OneWriter'
    BY <1>0, <1>t, <1>a, <1>b, ZenonT(60)
       DEF IInv, OneWriter, Writing, Running, Main, Backup, Steps, Actors, Off
  <1>3. Locals'
    BY <1>0, <1>t, <1>c, <1>k DEF IInv, Locals, Actors
  <1>4. MemoryNewest'
    BY <1>0, <1>t, <1>c, <1>d, <1>j, <1>m, <1>w
       DEF MemoryNewest, AtMost, Value, Factory, Join, Halves
  <1>5. CountNewest'
    BY <1>n, <1>t, <1>c, <1>f, <1>h, <1>m, <1>s DEF IInv, CountNewest, Value
  <1>6. BackupFollows'
    BY <1>0, <1>t, <1>a, <1>b, <1>d, <1>f, <1>g, <1>h, <1>s, <1>w, BootValueCases, FitsValue
       DEF IInv, BackupFollows, Running, Main, Backup, AtMost, Actors, Value
  <1>7. SnapshotFresh'
    BY <1>0, <1>t, <1>a, <1>b, <1>c, <1>d, <1>n, <1>w, ZenonT(60)
       DEF SnapshotFresh, Fresh, Main, Backup, Steps, Value, Halves, Join, Locals, Factory
  <1>8. Progress'
    BY <1>0, <1>t, <1>a, <1>b, <1>c, <1>f, <1>g, <1>h, ZenonT(60)
       DEF Progress, Begun, Main, Backup, Steps, Actors, Halves
  <1>9. AckedSurvives'
    BY <1>0, <1>t, <1>a, <1>d, <1>f, <1>h, <1>j, <1>s, <1>w, BootValueCases
       DEF IInv, AckedSurvives, AtMost, Value, Join, Main, Backup
  <1>10. Simulated
    BY <1>t, <1>c, <1>d, <1>j, <1>k, KeepsValue
  <1>q. QED
    BY <1>1, <1>2, <1>3, <1>4, <1>5, <1>6, <1>7, <1>8, <1>9, <1>10 DEF IInv

(* ... the user's, ... *)
LEMMA BackupUserInv ==
  ASSUME IInv, NEW a \in Actors, WriteHalf(a, "user2", P2, "user", "crc2")
  PROVE  IInv' /\ Simulated
  <1> USE StorageAssumption
  <1>0. a \in Actors
    BY DEF Actors
  <1>t. /\ pc \in [Actors -> Steps \cup {"idle", "read", Off}]
        /\ acked \in Value /\ ram \in Value
        /\ snapshot \in [Actors -> Value] /\ need \in [Actors -> Value]
        /\ count \in Nat /\ degraded \in BOOLEAN
        /\ part \in [Parts -> [data : [Halves -> Cell], crc : [Halves -> Cell]]]
        /\ snapshot[a] \in Value /\ need[a] \in Value
        /\ BootValue \in Value /\ BootValue' \in Value
    BY <1>0, BootValueCases, BootValueCasesNext DEF IInv, TypeOK
  <1>a. /\ pc[a] = "user2" /\ pc' = [pc EXCEPT ![a] = "crc2"]
        /\ pc'[a] = "crc2" /\ \A b \in Actors \ {a} : pc'[b] = pc[b]
    BY <1>0, <1>t DEF WriteHalf, Proceeds, Goes
  <1>b. /\ \A b \in Actors \ {a} : pc[b] \notin Steps \ {"lock"}
        /\ a # Boot => pc[Boot] = "idle" /\ pc'[Boot] = "idle"
    BY <1>0, <1>a, ZenonT(60) DEF IInv, OneWriter, Writing, Steps, Running, Actors, Off
  <1>k. On /\ On'
    BY <1>0, <1>a, <1>b DEF On, Off, Actors
  <1>c. snapshot' = snapshot /\ need' = need /\ ram' = ram /\ count' = count
    BY DEF WriteHalf, Proceeds, Goes
  <1>d. acked' = acked /\ degraded' = degraded
    BY <1>t DEF WriteHalf, Proceeds, Goes, P1, P2
  <1>f. /\ part' \in [Parts -> [data : [Halves -> Cell], crc : [Halves -> Cell]]]
        /\ part'[P1] = part[P1] /\ part'[P2].crc = part[P2].crc
        /\ part'[P2].data = [part[P2].data EXCEPT !["user"] = snapshot[a]["user"]]
        /\ part'[P2].data["user"] = snapshot[a]["user"]
        /\ \A h \in Halves \ {"user"} : part'[P2].data[h] = part[P2].data[h]
    <2> DEFINE New == [part[P2] EXCEPT !.data = [part[P2].data EXCEPT !["user"] = snapshot[a]["user"]]]
    <2>1. part' = [part EXCEPT ![P2] = New]
      BY DEF WriteHalf, Proceeds, Goes
    <2>2. /\ part[P2].data \in [Halves -> Cell] /\ part[P2].crc \in [Halves -> Cell]
          /\ part[P2] = [data |-> part[P2].data, crc |-> part[P2].crc]
      BY <1>t DEF Parts
    <2>3. snapshot[a]["user"] \in Cell
      BY <1>t DEF Value, Halves, Cell
    <2>4. /\ New.crc = part[P2].crc /\ New.data = [part[P2].data EXCEPT !["user"] = snapshot[a]["user"]]
          /\ New = [data |-> New.data, crc |-> New.crc]
      BY <2>2
    <2>5. New.data \in [Halves -> Cell]
      BY <2>2, <2>3, <2>4
    <2> HIDE DEF New
    <2>6. part'[P2] = New /\ part'[P1] = part[P1]
      BY <1>t, <2>1 DEF Parts, P1, P2
    <2>7. part' \in [Parts -> [data : [Halves -> Cell], crc : [Halves -> Cell]]]
      BY <1>t, <2>1, <2>2, <2>4, <2>5
    <2>8. /\ New.data["user"] = snapshot[a]["user"]
          /\ \A h \in Halves \ {"user"} : New.data[h] = part[P2].data[h]
      BY <2>2, <2>4 DEF Halves
    <2>q. QED
      BY <2>2, <2>4, <2>6, <2>7, <2>8
  <1>g. /\ pc[a] \in Backup => part[P1] = Sealed(snapshot[a]) /\ snapshot[a] \notin ZeroSums
        /\ pc[a] \in {"sys1", "user1", "crc1"} => part[P1].crc = Nothing
        /\ pc[a] \in {"sys2", "user2", "crc2"} => part[P2].crc = Nothing
        /\ pc[a] \in {"user1", "crc1"} => part[P1].data["sys"] = snapshot[a]["sys"]
        /\ pc[a] \in {"user2", "crc2"} => part[P2].data["sys"] = snapshot[a]["sys"]
        /\ a = Boot /\ pc[a] \in Main =>
             ~MainFits /\ part[P2] = Sealed(snapshot[a]) /\ snapshot[a] \notin ZeroSums
    BY <1>0 DEF IInv, Progress, Begun
  <1>h. MainFits /\ MainFits' /\ ~BackupFits /\ ~BackupFits'
    BY <1>t, <1>a, <1>d, <1>f, <1>g, Unsealed, SealedFits, SameFits DEF Main, Backup
  <1>m. /\ \A h \in Halves : acked[h] <= ram[h] /\ BootValue[h] <= ram[h] /\ ram[h] <= count
        /\ \A b \in Actors, h \in Halves : need[b][h] <= ram[h] /\ snapshot[b][h] <= ram[h]
    BY <1>k DEF IInv, MemoryNewest, CountNewest, AtMost
  <1>w. \A h \in Halves :
          need[a][h] <= snapshot[a][h] /\ acked[h] <= snapshot[a][h] /\ BootValue[h] <= snapshot[a][h]
    BY <1>0, <1>a DEF IInv, SnapshotFresh, Fresh, Main, Backup, Halves
  <1>s. Sealed(snapshot[a]).data = snapshot[a] /\ Sealed(snapshot[a]).crc = snapshot[a]
    BY DEF Sealed
  <1>j. BootValue' = BootValue
    BY <1>t, <1>a, <1>f, <1>g, <1>h, <1>s, FitsValue, BootValueCases, BootValueCasesNext
       DEF Main, Backup
  <1>n. \A h \in Halves : snapshot[a][h] <= count /\ BootValue'[h] <= snapshot[a][h]
    BY <1>0, <1>t, <1>j, <1>m, <1>w DEF Value
  <1>1. TypeOK'
    BY <1>0, <1>t, <1>a, <1>c, <1>d, <1>f, ZenonT(60) DEF Value, Factory, Steps, TypeOK, Join
  <1>2. OneWriter'
    BY <1>0, <1>t, <1>a, <1>b, ZenonT(60)
       DEF IInv, OneWriter, Writing, Running, Main, Backup, Steps, Actors, Off
  <1>3. Locals'
    BY <1>0, <1>t, <1>c, <1>k DEF IInv, Locals, Actors
  <1>4. MemoryNewest'
    BY <1>0, <1>t, <1>c, <1>d, <1>j, <1>m, <1>w
       DEF MemoryNewest, AtMost, Value, Factory, Join, Halves
  <1>5. CountNewest'
    BY <1>n, <1>t, <1>c, <1>f, <1>h, <1>m, <1>s DEF IInv, CountNewest, Value
  <1>6. BackupFollows'
    BY <1>0, <1>t, <1>a, <1>b, <1>d, <1>f, <1>g, <1>h, <1>s, <1>w, BootValueCases, FitsValue
       DEF IInv, BackupFollows, Running, Main, Backup, AtMost, Actors, Value
  <1>7. SnapshotFresh'
    BY <1>0, <1>t, <1>a, <1>b, <1>c, <1>d, <1>n, <1>w, ZenonT(60)
       DEF SnapshotFresh, Fresh, Main, Backup, Steps, Value, Halves, Join, Locals, Factory
  <1>8. Progress'
    BY <1>0, <1>t, <1>a, <1>b, <1>c, <1>f, <1>g, <1>h, ZenonT(60)
       DEF Progress, Begun, Main, Backup, Steps, Actors, Halves
  <1>9. AckedSurvives'
    BY <1>0, <1>t, <1>a, <1>d, <1>f, <1>h, <1>j, <1>s, <1>w, BootValueCases
       DEF IInv, AckedSurvives, AtMost, Value, Join, Main, Backup
  <1>10. Simulated
    BY <1>t, <1>c, <1>d, <1>j, <1>k, KeepsValue
  <1>q. QED
    BY <1>1, <1>2, <1>3, <1>4, <1>5, <1>6, <1>7, <1>8, <1>9, <1>10 DEF IInv

(* ... and the checksum: the save is acknowledged. *)
LEMMA SumBackupInv ==
  ASSUME IInv, NEW a \in Actors, WriteSum(a, "crc2", P2, "idle")
  PROVE  IInv' /\ Simulated
  <1> USE StorageAssumption
  <1>0. a \in Actors
    BY DEF Actors
  <1>t. /\ pc \in [Actors -> Steps \cup {"idle", "read", Off}]
        /\ acked \in Value /\ ram \in Value
        /\ snapshot \in [Actors -> Value] /\ need \in [Actors -> Value]
        /\ count \in Nat /\ degraded \in BOOLEAN
        /\ part \in [Parts -> [data : [Halves -> Cell], crc : [Halves -> Cell]]]
        /\ snapshot[a] \in Value /\ need[a] \in Value
        /\ BootValue \in Value /\ BootValue' \in Value
    BY <1>0, BootValueCases, BootValueCasesNext DEF IInv, TypeOK
  <1>a. /\ pc[a] = "crc2" /\ pc' = [pc EXCEPT ![a] = "idle"]
        /\ pc'[a] = "idle" /\ \A b \in Actors \ {a} : pc'[b] = pc[b]
    BY <1>0, <1>t DEF WriteSum, Proceeds, Goes
  <1>b. /\ \A b \in Actors \ {a} : pc[b] \notin Steps \ {"lock"}
        /\ a # Boot => pc[Boot] = "idle" /\ pc'[Boot] = "idle"
    BY <1>0, <1>a, ZenonT(60) DEF IInv, OneWriter, Writing, Steps, Running, Actors, Off
  <1>k. On /\ On'
    BY <1>0, <1>a, <1>b DEF On, Off, Actors
  <1>c. /\ ram' = ram /\ count' = count /\ snapshot' = [snapshot EXCEPT ![a] = Factory]
       /\ need' = [need EXCEPT ![a] = Factory]
    BY DEF WriteSum, Proceeds, Goes
  <1>d. ~degraded' /\ acked' = (IF a # Boot THEN Join(acked, need[a]) ELSE acked)
    <2>1. P1 # P2
      BY DEF P1, P2
    <2>2. degraded' = (degraded /\ P2 = P1)
      BY DEF WriteSum
    <2>3. acked' = IF a # Boot /\ P2 = P2 THEN Join(acked, need[a]) ELSE acked
      BY DEF WriteSum
    <2>q. QED
      BY <2>1, <2>2, <2>3
  <1>f. /\ part' \in [Parts -> [data : [Halves -> Cell], crc : [Halves -> Cell]]]
        /\ part'[P1] = part[P1] /\ part[P2].data = snapshot[a]
        /\ part'[P2] = Sealed(snapshot[a])
    <2> DEFINE New == [part[P2] EXCEPT !.crc = snapshot[a]]
    <2>1. part' = [part EXCEPT ![P2] = New]
      BY DEF WriteSum, Proceeds, Goes
    <2>2. /\ part[P2].data \in [Halves -> Cell] /\ part[P2].crc \in [Halves -> Cell]
          /\ part[P2] = [data |-> part[P2].data, crc |-> part[P2].crc]
      BY <1>t DEF Parts
    <2>3. snapshot[a] \in [Halves -> Cell] /\ snapshot[a] \in [Halves -> Nat]
      BY <1>t DEF Value, Cell
    <2>4. part[P2].data["sys"] = snapshot[a]["sys"] /\ part[P2].data["user"] = snapshot[a]["user"]
      BY <1>0, <1>a DEF IInv, Progress, Begun
    <2>5. part[P2].data = snapshot[a]
      BY <2>2, <2>3, <2>4 DEF Halves
    <2>6. New = Sealed(snapshot[a]) /\ New \in [data : [Halves -> Cell], crc : [Halves -> Cell]]
      BY <2>2, <2>3, <2>5 DEF Sealed
    <2>q. QED
      BY <1>t, <2>1, <2>5, <2>6 DEF Parts, P1, P2
  <1>g. /\ pc[a] \in Backup => part[P1] = Sealed(snapshot[a]) /\ snapshot[a] \notin ZeroSums
        /\ pc[a] \in {"sys1", "user1", "crc1"} => part[P1].crc = Nothing
        /\ pc[a] \in {"sys2", "user2", "crc2"} => part[P2].crc = Nothing
        /\ pc[a] \in {"user1", "crc1"} => part[P1].data["sys"] = snapshot[a]["sys"]
        /\ pc[a] \in {"user2", "crc2"} => part[P2].data["sys"] = snapshot[a]["sys"]
        /\ a = Boot /\ pc[a] \in Main =>
             ~MainFits /\ part[P2] = Sealed(snapshot[a]) /\ snapshot[a] \notin ZeroSums
    BY <1>0 DEF IInv, Progress, Begun
  <1>h. MainFits /\ MainFits' /\ BackupFits' /\ ~BackupFits
    BY <1>t, <1>a, <1>d, <1>f, <1>g, Unsealed, SealedFits, SameFits DEF Main, Backup
  <1>m. /\ \A h \in Halves : acked[h] <= ram[h] /\ BootValue[h] <= ram[h] /\ ram[h] <= count
        /\ \A b \in Actors, h \in Halves : need[b][h] <= ram[h] /\ snapshot[b][h] <= ram[h]
    BY <1>k DEF IInv, MemoryNewest, CountNewest, AtMost
  <1>w. \A h \in Halves :
          need[a][h] <= snapshot[a][h] /\ acked[h] <= snapshot[a][h] /\ BootValue[h] <= snapshot[a][h]
    BY <1>0, <1>a DEF IInv, SnapshotFresh, Fresh, Main, Backup, Halves
  <1>s. Sealed(snapshot[a]).data = snapshot[a] /\ Sealed(snapshot[a]).crc = snapshot[a]
    BY DEF Sealed
  <1>j. BootValue' = BootValue
    BY <1>t, <1>a, <1>f, <1>g, <1>h, <1>s, FitsValue, BootValueCases, BootValueCasesNext
       DEF Main, Backup
  <1>z. /\ acked' \in Value /\ degraded' = FALSE
        /\ \A h \in Halves : acked'[h] <= snapshot[a][h]
    BY <1>0, <1>t, <1>d, <1>w DEF Join, Value
  <1>n. \A h \in Halves : snapshot[a][h] <= count /\ BootValue'[h] <= snapshot[a][h]
    BY <1>0, <1>t, <1>j, <1>m, <1>w DEF Value
  <1>1. TypeOK'
    BY <1>0, <1>t, <1>a, <1>c, <1>d, <1>f, <1>z, ZenonT(60)
       DEF Value, Factory, Steps, TypeOK, Join
  <1>2. OneWriter'
    BY <1>0, <1>t, <1>a, <1>b, ZenonT(60)
       DEF IInv, OneWriter, Writing, Running, Main, Backup, Steps, Actors, Off
  <1>3. Locals'
    BY <1>0, <1>t, <1>c, <1>k DEF IInv, Locals, Actors
  <1>4. MemoryNewest'
    BY <1>0, <1>t, <1>c, <1>d, <1>j, <1>m, <1>w
       DEF MemoryNewest, AtMost, Value, Factory, Join, Halves
  <1>5. CountNewest'
    BY <1>n, <1>t, <1>c, <1>f, <1>h, <1>m, <1>s DEF IInv, CountNewest, Value
  <1>6. BackupFollows'
    BY <1>0, <1>t, <1>a, <1>b, <1>d, <1>f, <1>g, <1>h, <1>s, <1>w, BootValueCases, FitsValue
       DEF IInv, BackupFollows, Running, Main, Backup, AtMost, Actors, Value
  <1>7. SnapshotFresh'
    BY <1>0, <1>t, <1>a, <1>b, <1>c, <1>d, <1>n, <1>w, ZenonT(60)
       DEF SnapshotFresh, Fresh, Main, Backup, Steps, Value, Halves, Join, Locals, Factory
  <1>8. Progress'
    BY <1>0, <1>t, <1>a, <1>b, <1>c, <1>f, <1>g, <1>h, ZenonT(60)
       DEF Progress, Begun, Main, Backup, Steps, Actors, Halves
  <1>9. AckedSurvives'
    BY <1>z, <1>g, <1>0, <1>t, <1>a, <1>d, <1>f, <1>h, <1>j, <1>s, <1>w, BootValueCases
       DEF IInv, AckedSurvives, AtMost, Value, Join, Main, Backup
  <1>10. Simulated
    BY <1>t, <1>c, <1>j, <1>k, <1>z, KeepsValue
  <1>q. QED
    BY <1>1, <1>2, <1>3, <1>4, <1>5, <1>6, <1>7, <1>8, <1>9, <1>10 DEF IInv

(* The flash refuses an operation on the main copy, ... *)
LEMMA MainFailsInv ==
  ASSUME IInv, NEW a \in Actors, pc[a] \in Main, FlashFails(a)
  PROVE  IInv' /\ Simulated
  <1> USE StorageAssumption
  <1>0. a \in Actors
    OBVIOUS
  <1>t. /\ pc \in [Actors -> Steps \cup {"idle", "read", Off}]
        /\ acked \in Value /\ ram \in Value
        /\ snapshot \in [Actors -> Value] /\ need \in [Actors -> Value]
        /\ count \in Nat /\ degraded \in BOOLEAN
        /\ part \in [Parts -> [data : [Halves -> Cell], crc : [Halves -> Cell]]]
        /\ snapshot[a] \in Value /\ need[a] \in Value
        /\ BootValue \in Value /\ BootValue' \in Value
    BY <1>0, BootValueCases, BootValueCasesNext DEF IInv, TypeOK
  <1>a. /\ pc' = [pc EXCEPT ![a] = "idle"]
        /\ pc'[a] = "idle" /\ \A b \in Actors \ {a} : pc'[b] = pc[b]
    BY <1>0, <1>t DEF FlashFails, Proceeds, Goes
  <1>b. /\ \A b \in Actors \ {a} : pc[b] \notin Steps \ {"lock"}
        /\ a # Boot => pc[Boot] = "idle" /\ pc'[Boot] = "idle"
    BY <1>0, <1>a, ZenonT(60) DEF IInv, OneWriter, Writing, Steps, Running, Actors, Off, Main
  <1>k. On /\ On'
    BY <1>0, <1>a, <1>b DEF On, Off, Actors, Main
  <1>c. /\ ram' = ram /\ count' = count /\ snapshot' = [snapshot EXCEPT ![a] = Factory]
       /\ need' = [need EXCEPT ![a] = Factory]
    BY DEF FlashFails, Proceeds
  <1>e. Target(pc[a]) = P1
    BY DEF Target, Main
  <1>d. acked' = acked /\ degraded' = degraded
    <2>1. P1 # P2
      BY DEF P1, P2
    <2>q. QED
      BY <1>t, <1>e, <2>1 DEF FlashFails
  <1>f. /\ part' \in [Parts -> [data : [Halves -> Cell], crc : [Halves -> Cell]]]
        /\ part'[P2] = part[P2]
        /\ part'[P1] = part[P1] \/ part'[P1].crc = Nothing
    <2>1. Erased \in [data : [Halves -> Cell], crc : [Halves -> Cell]] /\ Erased.crc = Nothing
      BY DEF Erased, Nothing, Cell
    <2>2. part' = part \/ part' = [part EXCEPT ![P1] = Erased]
      BY <1>e DEF FlashFails
    <2>q. QED
      BY <1>t, <2>1, <2>2 DEF Parts, P1, P2
  <1>g. /\ pc[a] \in Backup => part[P1] = Sealed(snapshot[a]) /\ snapshot[a] \notin ZeroSums
        /\ pc[a] \in {"sys1", "user1", "crc1"} => part[P1].crc = Nothing
        /\ a = Boot /\ pc[a] \in Main =>
             ~MainFits /\ part[P2] = Sealed(snapshot[a]) /\ snapshot[a] \notin ZeroSums
    BY <1>0 DEF IInv, Progress, Begun
  <1>m. /\ \A h \in Halves : acked[h] <= ram[h] /\ BootValue[h] <= ram[h] /\ ram[h] <= count
        /\ \A b \in Actors, h \in Halves : need[b][h] <= ram[h] /\ snapshot[b][h] <= ram[h]
    BY <1>k DEF IInv, MemoryNewest, CountNewest, AtMost
  <1>h. /\ BackupFits' <=> BackupFits
        /\ ~MainFits' \/ ((MainFits' <=> MainFits) /\ part'[P1] = part[P1])
    BY <1>f, Unsealed, SameFits
  <1>j. /\ degraded \/ BootValue' = BootValue
        /\ \A h \in Halves : BootValue'[h] <= BootValue[h]
    <2>1. CASE MainFits' \/ ~MainFits
      BY <2>1, <1>t, <1>f, <1>h, SelfBounded, BootValueCases, BootValueCasesNext
    <2>2. CASE MainFits /\ ~MainFits'
      <3>1. pc[a] = "erase1" /\ a # Boot
        BY <2>2, <1>g, Unsealed DEF Main
      <3>2. degraded \/ part[P2] = part[P1]
        BY <2>2, <3>1, <1>0, <1>b DEF IInv, BackupFollows, Running, Main, Backup, Steps, Actors
      <3>3. CASE BackupFits
        <4>1. AtMost(part[P2].data, part[P1].data)
          BY <2>2, <3>3 DEF IInv, BackupFollows
        <4>q. QED
          BY <2>2, <3>2, <3>3, <4>1, <1>f, <1>h, SelfBounded, BootValueCases,
             BootValueCasesNext
             DEF AtMost
      <3>4. CASE ~BackupFits
        <4>1. degraded
          BY <2>2, <3>2, <3>4, SameValid
        <4>q. QED
          BY <2>2, <3>4, <4>1, <1>t, <1>h, BootValueCasesNext DEF Factory, Value
      <3>q. QED
        BY <3>3, <3>4
    <2>q. QED
      BY <2>1, <2>2
  <1>n. \A h \in Halves : BootValue'[h] <= ram[h] /\ BootValue'[h] <= count
    BY <1>t, <1>j, <1>m DEF Value
  <1>1. TypeOK'
    BY <1>0, <1>t, <1>a, <1>c, <1>d, <1>f, ZenonT(60) DEF Value, Factory, Steps, TypeOK
  <1>2. OneWriter'
    BY <1>0, <1>t, <1>a, <1>b, ZenonT(60)
       DEF IInv, OneWriter, Writing, Running, Main, Backup, Steps, Actors, Off
  <1>3. Locals'
    BY <1>0, <1>t, <1>c, <1>k DEF IInv, Locals, Actors
  <1>4. MemoryNewest'
    BY <1>0, <1>t, <1>c, <1>d, <1>m, <1>n DEF MemoryNewest, AtMost, Value, Factory
  <1>5. CountNewest'
    BY <1>c, <1>f, <1>h, <1>m DEF IInv, CountNewest
  <1>6. BackupFollows'
    BY <1>0, <1>a, <1>b, <1>d, <1>f, <1>g, <1>h
       DEF IInv, BackupFollows, Running, Main, Backup, AtMost, Actors, Steps
  <1>7. SnapshotFresh'
    BY <1>0, <1>a, <1>b, ZenonT(60) DEF SnapshotFresh, Main, Backup, Steps
  <1>8. Progress'
    BY <1>0, <1>a, <1>b, ZenonT(60) DEF Progress, Begun, Main, Backup, Steps, Actors
  <1>9. AckedSurvives'
    BY <1>d, <1>j DEF IInv, AckedSurvives, AtMost
  <1>10. Simulated
    BY <1>t, <1>c, <1>d, <1>j, <1>k, KeepsValue, Loses
  <1>q. QED
    BY <1>1, <1>2, <1>3, <1>4, <1>5, <1>6, <1>7, <1>8, <1>9, <1>10 DEF IInv

(* ... or on the backup. *)
LEMMA BackupFailsInv ==
  ASSUME IInv, NEW a \in Actors, pc[a] \in Backup, FlashFails(a)
  PROVE  IInv' /\ Simulated
  <1> USE StorageAssumption
  <1>0. a \in Actors
    OBVIOUS
  <1>t. /\ pc \in [Actors -> Steps \cup {"idle", "read", Off}]
        /\ acked \in Value /\ ram \in Value
        /\ snapshot \in [Actors -> Value] /\ need \in [Actors -> Value]
        /\ count \in Nat /\ degraded \in BOOLEAN
        /\ part \in [Parts -> [data : [Halves -> Cell], crc : [Halves -> Cell]]]
        /\ snapshot[a] \in Value /\ need[a] \in Value
        /\ BootValue \in Value /\ BootValue' \in Value
    BY <1>0, BootValueCases, BootValueCasesNext DEF IInv, TypeOK
  <1>a. /\ pc' = [pc EXCEPT ![a] = "idle"]
        /\ pc'[a] = "idle" /\ \A b \in Actors \ {a} : pc'[b] = pc[b]
    BY <1>0, <1>t DEF FlashFails, Proceeds, Goes
  <1>b. /\ \A b \in Actors \ {a} : pc[b] \notin Steps \ {"lock"}
        /\ a # Boot => pc[Boot] = "idle" /\ pc'[Boot] = "idle"
    BY <1>0, <1>a, ZenonT(60) DEF IInv, OneWriter, Writing, Steps, Running, Actors, Off, Backup
  <1>k. On /\ On'
    BY <1>0, <1>a, <1>b DEF On, Off, Actors, Backup
  <1>c. /\ ram' = ram /\ count' = count /\ snapshot' = [snapshot EXCEPT ![a] = Factory]
       /\ need' = [need EXCEPT ![a] = Factory]
    BY DEF FlashFails, Proceeds
  <1>e. Target(pc[a]) = P2
    BY DEF Target, Backup
  <1>d. acked' = acked /\ degraded' = TRUE
    <2>1. P1 # P2
      BY DEF P1, P2
    <2>q. QED
      BY <1>t, <1>e, <2>1 DEF FlashFails
  <1>f. /\ part' \in [Parts -> [data : [Halves -> Cell], crc : [Halves -> Cell]]]
        /\ part'[P1] = part[P1]
        /\ part'[P2] = part[P2] \/ part'[P2].crc = Nothing
    <2>1. Erased \in [data : [Halves -> Cell], crc : [Halves -> Cell]] /\ Erased.crc = Nothing
      BY DEF Erased, Nothing, Cell
    <2>2. part' = part \/ part' = [part EXCEPT ![P2] = Erased]
      BY <1>e DEF FlashFails
    <2>q. QED
      BY <1>t, <2>1, <2>2 DEF Parts, P1, P2
  <1>g. /\ pc[a] \in Backup => part[P1] = Sealed(snapshot[a]) /\ snapshot[a] \notin ZeroSums
        /\ pc[a] \in {"sys1", "user1", "crc1"} => part[P1].crc = Nothing
        /\ a = Boot /\ pc[a] \in Main =>
             ~MainFits /\ part[P2] = Sealed(snapshot[a]) /\ snapshot[a] \notin ZeroSums
    BY <1>0 DEF IInv, Progress, Begun
  <1>m. /\ \A h \in Halves : acked[h] <= ram[h] /\ BootValue[h] <= ram[h] /\ ram[h] <= count
        /\ \A b \in Actors, h \in Halves : need[b][h] <= ram[h] /\ snapshot[b][h] <= ram[h]
    BY <1>k DEF IInv, MemoryNewest, CountNewest, AtMost
  <1>h. MainFits /\ MainFits' /\ (~BackupFits' \/ ((BackupFits' <=> BackupFits) /\ part'[P2] = part[P2]))
    BY <1>t, <1>f, <1>g, Unsealed, SameFits, SealedFits
  <1>j. BootValue' = BootValue
    BY <1>f, <1>h, BootValueCases, BootValueCasesNext
  <1>n. \A h \in Halves : BootValue'[h] <= ram[h] /\ BootValue'[h] <= count
    BY <1>t, <1>j, <1>m DEF Value
  <1>1. TypeOK'
    BY <1>0, <1>t, <1>a, <1>c, <1>d, <1>f, ZenonT(60) DEF Value, Factory, Steps, TypeOK
  <1>2. OneWriter'
    BY <1>0, <1>t, <1>a, <1>b, ZenonT(60)
       DEF IInv, OneWriter, Writing, Running, Main, Backup, Steps, Actors, Off
  <1>3. Locals'
    BY <1>0, <1>t, <1>c, <1>k DEF IInv, Locals, Actors
  <1>4. MemoryNewest'
    BY <1>0, <1>t, <1>c, <1>d, <1>m, <1>n DEF MemoryNewest, AtMost, Value, Factory
  <1>5. CountNewest'
    BY <1>c, <1>f, <1>h, <1>m DEF IInv, CountNewest
  <1>6. BackupFollows'
    BY <1>0, <1>a, <1>b, <1>d, <1>f, <1>g, <1>h
       DEF IInv, BackupFollows, Running, Main, Backup, AtMost, Actors, Steps
  <1>7. SnapshotFresh'
    BY <1>0, <1>a, <1>b, ZenonT(60) DEF SnapshotFresh, Main, Backup, Steps
  <1>8. Progress'
    BY <1>0, <1>a, <1>b, ZenonT(60) DEF Progress, Begun, Main, Backup, Steps, Actors
  <1>9. AckedSurvives'
    BY <1>d, <1>j DEF IInv, AckedSurvives, AtMost
  <1>10. Simulated
    BY <1>t, <1>c, <1>d, <1>j, <1>k, KeepsValue
  <1>q. QED
    BY <1>1, <1>2, <1>3, <1>4, <1>5, <1>6, <1>7, <1>8, <1>9, <1>10 DEF IInv

(* The power comes back. *)
LEMMA PowerOnInv ==
  ASSUME IInv, PowerOn
  PROVE  IInv' /\ Simulated
  <1> USE StorageAssumption
  <1>t. /\ pc \in [Actors -> Steps \cup {"idle", "read", Off}]
        /\ acked \in Value /\ ram \in Value
        /\ snapshot \in [Actors -> Value] /\ need \in [Actors -> Value]
        /\ count \in Nat /\ degraded \in BOOLEAN
        /\ part \in [Parts -> [data : [Halves -> Cell], crc : [Halves -> Cell]]]
        /\ BootValue \in Value /\ BootValue' \in Value
    BY BootValueCases, BootValueCasesNext DEF IInv, TypeOK
  <1>d. part' = part
    BY DEF PowerOn
  <1>h. BootValue' = BootValue /\ (MainFits' <=> MainFits) /\ (BackupFits' <=> BackupFits)
    BY <1>d DEF BootValue, MainFits, BackupFits, Valid
  <1>a. /\ snapshot' = snapshot /\ need' = need /\ acked' = acked /\ degraded' = degraded
        /\ count' = count /\ ram' = ram
        /\ pc[Boot] = Off /\ pc' = [pc EXCEPT ![Boot] = "read"]
    BY DEF PowerOn, Goes
  <1>b. pc'[Boot] = "read" /\ \A b \in Callers : pc'[b] = pc[b] /\ pc[b] \in {Off, "idle"}
    BY <1>t, <1>a DEF IInv, OneWriter, Running, Off, Actors
  <1>k. ~On /\ ~On'
    BY <1>a, <1>b DEF On, Off
  <1>1. TypeOK'
    BY <1>t, <1>a, <1>d, ZenonT(60) DEF TypeOK
  <1>2. OneWriter'
    BY <1>b, ZenonT(60) DEF OneWriter, Writing, Running, Actors, Steps, Off
  <1>3. Locals'
    BY <1>a, <1>k DEF IInv, Locals
  <1>4. MemoryNewest'
    BY <1>k DEF MemoryNewest
  <1>5. CountNewest'
    BY <1>a, <1>d, <1>h DEF IInv, CountNewest
  <1>6. BackupFollows'
    BY <1>b, <1>d, <1>h DEF IInv, BackupFollows, Running, AtMost
  <1>7. SnapshotFresh'
    BY <1>b, ZenonT(60) DEF SnapshotFresh, Main, Backup, Actors, Off
  <1>8. Progress'
    BY <1>b DEF Progress, Begun, Main, Backup, Actors, Off
  <1>9. AckedSurvives'
    BY <1>a, <1>h DEF IInv, AckedSurvives, AtMost
  <1>10. Simulated
    BY <1>t, <1>a, <1>h, <1>k, KeepsValue
  <1>q. QED
    BY <1>1, <1>2, <1>3, <1>4, <1>5, <1>6, <1>7, <1>8, <1>9, <1>10 DEF IInv

(* The start reads the newest copy that fits and goes to repair the other. *)
LEMMA ReadInv ==
  ASSUME IInv, ReadConfiguration
  PROVE  IInv' /\ Simulated
  <1> USE StorageAssumption
  <1>t. /\ pc \in [Actors -> Steps \cup {"idle", "read", Off}]
        /\ acked \in Value /\ ram \in Value
        /\ snapshot \in [Actors -> Value] /\ need \in [Actors -> Value]
        /\ count \in Nat /\ degraded \in BOOLEAN
        /\ part \in [Parts -> [data : [Halves -> Cell], crc : [Halves -> Cell]]]
        /\ BootValue \in Value /\ BootValue' \in Value
    BY BootValueCases, BootValueCasesNext DEF IInv, TypeOK
  <1>d. part' = part
    BY DEF ReadConfiguration
  <1>h. BootValue' = BootValue /\ (MainFits' <=> MainFits) /\ (BackupFits' <=> BackupFits)
    BY <1>d DEF BootValue, MainFits, BackupFits, Valid
  <1>a. /\ pc[Boot] = "read" /\ ram' = BootValue /\ snapshot' = [snapshot EXCEPT ![Boot] = BootValue]
        /\ acked' = Meet(acked, BootValue) /\ count' = count /\ need' = need /\ degraded' = degraded
    BY DEF ReadConfiguration
  <1>b. /\ pc' \in [Actors -> {"idle", "erase1", "erase2"}]
        /\ \A b \in Callers : pc'[b] = "idle"
        /\ pc'[Boot] = "erase1" <=> ~MainFits /\ BackupFits
        /\ pc'[Boot] = "erase2" <=> MainFits /\ ~(BackupFits /\ part[P2].crc = part[P1].crc)
    BY DEF ReadConfiguration, Actors
  <1>c. /\ Boot \in Actors /\ acked' \in Value
        /\ \A h \in Halves : acked'[h] <= acked[h] /\ acked'[h] <= BootValue[h]
    BY <1>t, <1>a DEF Actors, Meet, Value
  <1>e. /\ snapshot' \in [Actors -> Value] /\ snapshot'[Boot] = BootValue
        /\ \A b \in Actors \ {Boot} : snapshot'[b] = Factory
        /\ \A b \in Actors : need'[b] = Factory
    <2>1. \A b \in Actors : snapshot[b] = Factory /\ need[b] = Factory
      BY <1>a DEF IInv, Locals, On
    <2>q. QED
      BY <1>t, <1>a, <1>c, <2>1
  <1>f. \A h \in Halves : Factory[h] = 0 /\ BootValue[h] \in Nat
    BY <1>t DEF Factory, Value
  <1>g. \A h \in Halves : BootValue[h] <= count
    <2>1. CASE MainFits
      BY <2>1, BootValueCases DEF IInv, CountNewest
    <2>2. CASE ~MainFits /\ BackupFits
      BY <2>2, BootValueCases DEF IInv, CountNewest
    <2>3. CASE ~MainFits /\ ~BackupFits
      BY <2>3, <1>t, <1>f, BootValueCases
    <2>q. QED
      BY <2>1, <2>2, <2>3
  <1>j. \A h \in Halves : /\ need'[Boot][h] <= snapshot'[Boot][h]
                         /\ acked'[h] <= snapshot'[Boot][h] /\ BootValue'[h] <= snapshot'[Boot][h]
    BY <1>c, <1>e, <1>f, <1>h
  <1>i. /\ MainFits => part[P1] = Sealed(BootValue) /\ BootValue \notin ZeroSums
        /\ ~MainFits /\ BackupFits => part[P2] = Sealed(BootValue) /\ BootValue \notin ZeroSums
        /\ MainFits /\ BackupFits /\ part[P2].crc = part[P1].crc => part[P2] = part[P1]
    <2>1. \A p \in Parts : part[p] = [data |-> part[p].data, crc |-> part[p].crc]
      BY <1>t
    <2>q. QED
      BY <2>1, FitsValue, BootValueCases DEF Sealed, Parts
  <1>k. ~On /\ On'
    BY <1>a, <1>b, <1>c DEF On, Off
  <1>1. TypeOK'
    BY <1>t, <1>a, <1>b, <1>c, <1>d, <1>e, ZenonT(60) DEF TypeOK, Steps
  <1>2. OneWriter'
    BY <1>b, ZenonT(60) DEF OneWriter, Writing, Running, Actors, Steps, Main, Backup, Off
  <1>3. Locals'
    BY <1>a, <1>b, <1>c, <1>e DEF Locals, On, Off
  <1>4. MemoryNewest'
    BY <1>t, <1>a, <1>c, <1>e, <1>f, <1>h DEF MemoryNewest, AtMost
  <1>5. CountNewest'
    BY <1>a, <1>d, <1>g, <1>h DEF IInv, CountNewest
  <1>6. BackupFollows'
    BY <1>b, <1>c, <1>d, <1>h, <1>i DEF IInv, BackupFollows, Running, AtMost
  <1>7. SnapshotFresh'
    BY <1>b, <1>j, ZenonT(60) DEF SnapshotFresh, Fresh, Halves, Main, Backup, Actors
  <1>8. Progress'
    BY <1>b, <1>d, <1>e, <1>h, <1>i DEF Progress, Begun, Main, Backup, Actors
  <1>9. AckedSurvives'
    BY <1>c, <1>h DEF AckedSurvives, AtMost
  <1>10. Simulated
    BY <1>a, <1>h, <1>k, Restarts
  <1>q. QED
    BY <1>1, <1>2, <1>3, <1>4, <1>5, <1>6, <1>7, <1>8, <1>9, <1>10 DEF IInv

(* The power fails between any two operations. *)
LEMMA PowerCutInv ==
  ASSUME IInv, PowerCut
  PROVE  IInv' /\ Simulated
  <1> USE StorageAssumption
  <1>t. /\ pc \in [Actors -> Steps \cup {"idle", "read", Off}]
        /\ acked \in Value /\ ram \in Value
        /\ snapshot \in [Actors -> Value] /\ need \in [Actors -> Value]
        /\ count \in Nat /\ degraded \in BOOLEAN
        /\ part \in [Parts -> [data : [Halves -> Cell], crc : [Halves -> Cell]]]
        /\ BootValue \in Value /\ BootValue' \in Value
    BY BootValueCases, BootValueCasesNext DEF IInv, TypeOK
  <1>d. part' = part
    BY DEF PowerCut
  <1>h. BootValue' = BootValue /\ (MainFits' <=> MainFits) /\ (BackupFits' <=> BackupFits)
    BY <1>d DEF BootValue, MainFits, BackupFits, Valid
  <1>a. /\ acked' = acked /\ degraded' = degraded /\ count' = count /\ ram' = ram
        /\ pc' = [b \in Actors |-> Off] /\ snapshot' = [b \in Actors |-> Factory]
        /\ need' = [b \in Actors |-> Factory]
    BY DEF PowerCut
  <1>b. Boot \in Actors /\ \A b \in Actors : pc'[b] = Off
    BY <1>a DEF Actors
  <1>c. Factory \in Value
    BY DEF Factory, Value
  <1>k. ~On'
    BY <1>b DEF On
  <1>1. TypeOK'
    BY <1>t, <1>a, <1>c, <1>d DEF TypeOK
  <1>2. OneWriter'
    BY <1>b, ZenonT(60) DEF OneWriter, Writing, Running, Actors, Steps, Off
  <1>3. Locals'
    BY <1>a, <1>b DEF Locals
  <1>4. MemoryNewest'
    BY <1>k DEF MemoryNewest
  <1>5. CountNewest'
    BY <1>a, <1>d, <1>h DEF IInv, CountNewest
  <1>6. BackupFollows'
    BY <1>b, <1>d, <1>h DEF IInv, BackupFollows, Running, Off, AtMost
  <1>7. SnapshotFresh'
    BY <1>b, ZenonT(60) DEF SnapshotFresh, Main, Backup, Off
  <1>8. Progress'
    BY <1>b DEF Progress, Begun, Main, Backup, Off
  <1>9. AckedSurvives'
    BY <1>a, <1>h DEF IInv, AckedSurvives, AtMost
  <1>10. Simulated
    BY <1>a, <1>h, <1>k, Stops
  <1>q. QED
    BY <1>1, <1>2, <1>3, <1>4, <1>5, <1>6, <1>7, <1>8, <1>9, <1>10 DEF IInv

-----------------------------------------------------------------------------
(* An empty flash. *)
LEMMA InitInv == Init => IInv /\ Store!Init
  <1> SUFFICES ASSUME Init PROVE IInv /\ Store!Init
    OBVIOUS
  <1>1. ~MainFits /\ ~BackupFits
    BY
       DEF Init, MainFits, BackupFits, Valid, Erased, Nothing, Parts, P1, P2, Value,
           Halves, BAD
  <1>2. BootValue = Factory /\ Factory \in Value
    BY <1>1, BootValueCases
  <1>3. \A a \in Actors : pc[a] = Off /\ snapshot[a] = Factory /\ need[a] = Factory
    BY DEF Init
  <1>4. Boot \in Actors /\ ~On
    BY <1>3 DEF Actors, On
  <1>5. part \in [Parts -> [data : [Halves -> Cell], crc : [Halves -> Cell]]]
    BY DEF Init, Erased, Nothing, Cell
  <1>6. TypeOK
    BY <1>2, <1>5 DEF Init, TypeOK
  <1>7. OneWriter
    BY <1>3, <1>4, ZenonT(60) DEF OneWriter, Writing, Running, Steps, Off, Actors
  <1>8. Locals /\ MemoryNewest
    BY <1>3, <1>4 DEF Locals, MemoryNewest
  <1>9. CountNewest
    BY <1>1 DEF CountNewest, Init, Factory
  <1>10. BackupFollows
    BY <1>1 DEF BackupFollows
  <1>11. SnapshotFresh /\ Progress
    BY <1>3, <1>4 DEF SnapshotFresh, Progress, Begun, Main, Backup, Off
  <1>12. AckedSurvives
    BY <1>2, SelfBounded DEF AckedSurvives, AtMost, Init
  <1>13. Store!Init
    BY <1>2, <1>4 DEF Init, Store!Init, Store!Factory, Factory, On
  <1>q. QED
    BY <1>6, <1>7, <1>8, <1>9, <1>10, <1>11, <1>12, <1>13 DEF IInv

(* Every step of a save, ... *)
LEMMA UpdateInv ==
  ASSUME IInv, NEW a \in Callers, Update(a)
  PROVE  IInv' /\ Simulated
  <1>0. a \in Actors
    BY DEF Actors
  <1>1. CASE FlashFails(a)
    <2>1. pc[a] \in Main \/ pc[a] \in Backup
      BY <1>1 DEF FlashFails, FlashStep, Main, Backup
    <2>q. QED
      BY <1>0, <1>1, <2>1, MainFailsInv, BackupFailsInv
  <1>2. CASE ReadBack(a)
    BY <1>2, ReadBackKeptInv, ReadBackGoesOnInv
  <1>q. QED
    BY <1>0, <1>1, <1>2, CallInv, LockInv, SkipSaveInv, CopySysInv, CopyUserInv,
       EraseMainInv, MainSysInv, MainUserInv, SumMainInv, EraseBackupInv, BackupSysInv,
       BackupUserInv, SumBackupInv
       DEF Update

(* ... and of a repair. *)
LEMMA RepairInv ==
  ASSUME IInv, Repair
  PROVE  IInv' /\ Simulated
  <1>0. Boot \in Actors
    BY DEF Actors
  <1>1. CASE FlashFails(Boot)
    <2>1. pc[Boot] \in Main \/ pc[Boot] \in Backup
      BY <1>1 DEF FlashFails, FlashStep, Main, Backup
    <2>q. QED
      BY <1>0, <1>1, <2>1, MainFailsInv, BackupFailsInv
  <1>q. QED
    BY <1>0, <1>1, EraseMainInv, MainSysInv, MainUserInv, SumMainBootInv, EraseBackupInv,
       BackupSysInv, BackupUserInv, SumBackupInv
       DEF Repair

(* Every step keeps the invariant, and is a step of the atomic store or none. *)
LEMMA StepInv == IInv /\ [Next]_vars => IInv' /\ Simulated
  <1> SUFFICES ASSUME IInv, [Next]_vars PROVE IInv' /\ Simulated
    OBVIOUS
  <1>1. CASE Next
    BY <1>1, ChangeInv, UpdateInv, PowerOnInv, ReadInv, RepairInv, PowerCutInv DEF Next
  <1>2. CASE UNCHANGED vars
    <2>1. UNCHANGED <<ram, part, pc, snapshot, count, need, acked, degraded>>
      BY <1>2 DEF vars
    <2>2. BootValue' = BootValue /\ (MainFits' <=> MainFits) /\ (BackupFits' <=> BackupFits)
      BY <2>1 DEF BootValue, MainFits, BackupFits, Valid
    <2>3. IInv'
      BY <2>1, <2>2
         DEF IInv, TypeOK, OneWriter, Writing, Running, Locals, On, MemoryNewest,
             CountNewest, BackupFollows, SnapshotFresh, Fresh, Progress, Begun,
             AckedSurvives, AtMost
    <2>4. degraded \in BOOLEAN /\ (On' <=> On)
      BY <2>1 DEF IInv, TypeOK, On
    <2>q. QED
      BY <2>1, <2>2, <2>3, <2>4, KeepsValue
  <1>q. QED
    BY <1>1, <1>2

(* The invariant holds always. *)
LEMMA Invariance == Spec => []IInv
  BY InitInv, StepInv, PTL DEF Spec

(* Every variable of the storage keeps its type.                             *)
THEOREM Typing == Spec => []TypeOK
  <1>1. IInv => TypeOK
    BY DEF IInv
  <1>q. QED
    BY Invariance, <1>1, PTL

(* What a save that returned kNoErr covered survives power cuts, failed and  *)
(* skipped saves and repairs, as long as the flash takes the backup.         *)
THEOREM AcknowledgedSurvives == Spec => []AckedSurvives
  <1>1. IInv => AckedSurvives
    BY DEF IInv
  <1>q. QED
    BY Invariance, <1>1, PTL

(* The copies agree whenever no save is under way and the last backup was    *)
(* taken, so that the next save may destroy the main copy.                   *)
THEOREM CopiesAgree == Spec => []BackupAgrees
  <1>1. IInv => BackupAgrees
    BY ZenonT(60) DEF IInv, BackupFollows, BackupAgrees, MainFits, Locked, Steps, Backup
  <1>q. QED
    BY Invariance, <1>1, PTL

(* The storage with its two partitions, its snapshots and its repairs is an  *)
(* atomic store to those who use it.                                         *)
THEOREM StorageIsAtomic == Spec => ImplementsAtomicStore
  <1>1. IInv /\ [Next]_vars => [Store!Next]_Store!vars
    BY StepInv DEF Simulated
  <1>q. QED
    BY Invariance, InitInv, <1>1, PTL DEF Spec, ImplementsAtomicStore, Store!Spec
=============================================================================
