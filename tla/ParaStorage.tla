---------------------------- MODULE ParaStorage -----------------------------
(***************************************************************************)
(* The storage of the parameters (mico_system_para_storage.c as changed in *)
(* this repository): a save takes a snapshot of the configuration under a  *)
(* mutex and writes it with its checksum to two flash partitions, one      *)
(* after the other; the start reads both, takes the one whose checksum     *)
(* fits and repairs the other. The power may fail and the flash may refuse *)
(* between any two operations.                                             *)
(*                                                                         *)
(* The configuration has two halves, the system's and the user's, that are *)
(* written one after the other; a half is the number of the change that    *)
(* gave it its content, and a checksum is the pair it was computed from.   *)
(* An erased, half-written or unreadable cell is BAD: nothing fits it.     *)
(***************************************************************************)
EXTENDS Integers, FiniteSets

CONSTANTS
  Callers,      \* threads that save the configuration
  ZeroSums,     \* the values whose 16-bit checksum happens to be 0
  MaxChanges    \* bound on the changes of the configuration

Halves == {"sys", "user"}
P1 == 1
P2 == 2
Parts == {P1, P2}
Boot == "boot"                   \* the thread that runs mico_system_context_init
Actors == Callers \cup {Boot}

Value == [Halves -> Nat]
Factory == [h \in Halves |-> 0]
BAD == -1
Nothing == [h \in Halves |-> BAD]
Erased == [data |-> Nothing, crc |-> Nothing]
Cell == Nat \cup {BAD}

ASSUME StorageAssumption ==
  /\ Boot \notin Callers
  /\ ZeroSums \subseteq Value
  /\ MaxChanges \in Nat

VARIABLES
  ram,        \* flashContentInRam and user_config_data
  part,       \* the two partitions: [data, crc]
  pc,         \* where each actor is
  snapshot,   \* the snapshot each caller has taken
  count,      \* number of changes so far
  need,       \* history: what the memory held when each caller began
  acked,      \* history: the newest halves a finished save has covered
  degraded    \* history: the flash has refused the last backup

vars == <<ram, part, pc, snapshot, count, need, acked, degraded>>

Steps == {"lock", "copy sys", "copy user", "erase1", "sys1", "user1", "crc1", "check",
          "erase2", "sys2", "user2", "crc2"}
Off == "off"

TypeOK ==
  /\ ram \in Value
  /\ part \in [Parts -> [data : [Halves -> Cell], crc : [Halves -> Cell]]]
  /\ pc \in [Actors -> Steps \cup {"idle", "read", Off}]
  /\ snapshot \in [Actors -> Value]
  /\ count \in Nat
  /\ need \in [Actors -> Value]
  /\ acked \in Value
  /\ degraded \in BOOLEAN

(* CRC16 over a partition's data; a sum of 0 never counts as a match. *)
Valid(p) == p.data \in Value /\ p.crc = p.data /\ p.data \notin ZeroSums

(* The configuration MICOReadConfiguration would find now. *)
BootValue ==
  IF Valid(part[P1]) THEN part[P1].data
  ELSE IF Valid(part[P2]) THEN part[P2].data
  ELSE Factory

AtMost(v, w) == \A h \in Halves : v[h] <= w[h]
Join(v, w) == [h \in Halves |-> IF v[h] <= w[h] THEN w[h] ELSE v[h]]
Meet(v, w) == [h \in Halves |-> IF v[h] <= w[h] THEN v[h] ELSE w[h]]

Running == pc[Boot] = "idle"
Locked == \E a \in Callers : pc[a] \in Steps \ {"lock"}

Goes(a, from, to) == pc[a] = from /\ pc' = [pc EXCEPT ![a] = to]

Init ==
  /\ ram = Factory
  /\ part = [p \in Parts |-> Erased]
  /\ pc = [a \in Actors |-> Off]
  /\ snapshot = [a \in Actors |-> Factory]
  /\ count = 0
  /\ need = [a \in Actors |-> Factory]
  /\ acked = Factory
  /\ degraded = FALSE

-----------------------------------------------------------------------------
(* The firmware changes the configuration at any time, under no lock that    *)
(* the storage knows of.                                                     *)
Change(h) ==
  /\ Running
  /\ count < MaxChanges
  /\ count' = count + 1
  /\ ram' = [ram EXCEPT ![h] = count']
  /\ UNCHANGED <<part, pc, snapshot, need, acked, degraded>>

(* internal_update_config. *)
Call(a) ==
  /\ Running
  /\ Goes(a, "idle", "lock")
  /\ need' = [need EXCEPT ![a] = ram]
  /\ UNCHANGED <<ram, part, snapshot, count, acked, degraded>>

Lock(a) ==
  /\ ~Locked
  /\ Goes(a, "lock", "copy sys")
  /\ UNCHANGED <<ram, part, snapshot, count, need, acked, degraded>>

(* No memory for the snapshot: this save is skipped. *)
SkipSave(a) ==
  /\ Goes(a, "copy sys", "idle")
  /\ snapshot' = [snapshot EXCEPT ![a] = Factory]
  /\ need' = [need EXCEPT ![a] = Factory]
  /\ UNCHANGED <<ram, part, count, acked, degraded>>

Copy(a, at, h, next) ==
  /\ Goes(a, at, next)
  /\ snapshot' = [snapshot EXCEPT ![a][h] = ram[h]]
  /\ UNCHANGED <<ram, part, count, need, acked, degraded>>

(* The last operation of a's writing hands over to next; a call that ends    *)
(* forgets its locals.                                                       *)
Proceeds(a, at, next) ==
  /\ Goes(a, at, next)
  /\ snapshot' = IF next = "idle" THEN [snapshot EXCEPT ![a] = Factory] ELSE snapshot
  /\ need' = IF next = "idle" THEN [need EXCEPT ![a] = Factory] ELSE need
  /\ UNCHANGED <<ram, count>>

Erase(a, at, p, next) ==
  /\ Proceeds(a, at, next)
  /\ part' = [part EXCEPT ![p] = Erased]
  /\ UNCHANGED <<acked, degraded>>

(* Mutated: what an earlier version did, which wrote from the memory in use. *)
WriteHalfFromMemory(a, at, p, h, next) ==
  /\ Proceeds(a, at, next)
  /\ part' = [part EXCEPT ![p].data[h] = ram[h]]
  /\ UNCHANGED <<acked, degraded>>

WriteHalf(a, at, p, h, next) ==
  /\ Proceeds(a, at, next)
  /\ part' = [part EXCEPT ![p].data[h] = snapshot[a][h]]
  /\ UNCHANGED <<acked, degraded>>

WriteSum(a, at, p, next) ==
  /\ Proceeds(a, at, next)
  /\ part' = [part EXCEPT ![p].crc = snapshot[a]]
  /\ degraded' = (degraded /\ p = P1)
  /\ acked' = IF a # Boot /\ p = P2 THEN Join(acked, need[a]) ELSE acked

(* Mutated: the sum read back is not looked at. *)
ReadBackIgnored(a) ==
  /\ Goes(a, "check", "erase2")
  /\ UNCHANGED <<ram, part, snapshot, count, need, acked, degraded>>

(* The sum is read back; a sum of 0 is an error and the backup is kept. *)
ReadBack(a) ==
  /\ Proceeds(a, "check", IF part[P1].crc \in ZeroSums THEN "idle" ELSE "erase2")
  /\ UNCHANGED <<part, acked, degraded>>

(* A flash operation fails: the call ends with an error. *)
FlashStep == {"erase1", "sys1", "user1", "crc1", "erase2", "sys2", "user2", "crc2"}
Target(at) == IF at \in {"erase1", "sys1", "user1", "crc1"} THEN P1 ELSE P2

FlashFails(a) ==
  /\ pc[a] \in FlashStep
  /\ Proceeds(a, pc[a], "idle")
  /\ \/ UNCHANGED part
     \/ part' = [part EXCEPT ![Target(pc[a])] = Erased]
  /\ degraded' = (degraded \/ Target(pc[a]) = P2)
  /\ UNCHANGED acked

Update(a) ==
  \/ Call(a)
  \/ Lock(a)
  \/ SkipSave(a)
  \/ Copy(a, "copy sys", "sys", "copy user")
  \/ Copy(a, "copy user", "user", "erase1")
  \/ Erase(a, "erase1", P1, "sys1")
  \/ WriteHalf(a, "sys1", P1, "sys", "user1")
  \/ WriteHalf(a, "user1", P1, "user", "crc1")
  \/ WriteSum(a, "crc1", P1, "check")
  \/ ReadBack(a)
  \/ Erase(a, "erase2", P2, "sys2")
  \/ WriteHalf(a, "sys2", P2, "sys", "user2")
  \/ WriteHalf(a, "user2", P2, "user", "crc2")
  \/ WriteSum(a, "crc2", P2, "idle")
  \/ FlashFails(a)

-----------------------------------------------------------------------------
PowerOn ==
  /\ Goes(Boot, Off, "read")
  /\ UNCHANGED <<ram, part, snapshot, count, need, acked, degraded>>

MainFits == Valid(part[P1])
BackupFits == Valid(part[P2])

(* Mutated: a backup that fits is never compared with the main copy. *)
ReadConfigurationNoBackup ==
  /\ pc[Boot] = "read"
  /\ ram' = BootValue
  /\ snapshot' = [snapshot EXCEPT ![Boot] = BootValue]
  /\ acked' = Meet(acked, BootValue)
  /\ pc' = [a \in Actors |->
              IF a # Boot THEN "idle"
              ELSE IF ~MainFits /\ BackupFits THEN "erase1"
              ELSE IF MainFits /\ ~BackupFits THEN "erase2"
              ELSE "idle"]
  /\ UNCHANGED <<part, count, need, degraded>>

(* MICOReadConfiguration. It repairs from what it has just read. *)
ReadConfiguration ==
  /\ pc[Boot] = "read"
  /\ ram' = BootValue
  /\ snapshot' = [snapshot EXCEPT ![Boot] = BootValue]
  /\ acked' = Meet(acked, BootValue)
  /\ pc' = [a \in Actors |->
              IF a # Boot THEN "idle"
              ELSE IF ~MainFits /\ BackupFits THEN "erase1"
              ELSE IF MainFits /\ ~(BackupFits /\ part[P2].crc = part[P1].crc) THEN "erase2"
              ELSE "idle"]
  /\ UNCHANGED <<part, count, need, degraded>>

Repair ==
  \/ Erase(Boot, "erase1", P1, "sys1")
  \/ WriteHalf(Boot, "sys1", P1, "sys", "user1")
  \/ WriteHalf(Boot, "user1", P1, "user", "crc1")
  \/ WriteSum(Boot, "crc1", P1, "idle")
  \/ Erase(Boot, "erase2", P2, "sys2")
  \/ WriteHalf(Boot, "sys2", P2, "sys", "user2")
  \/ WriteHalf(Boot, "user2", P2, "user", "crc2")
  \/ WriteSum(Boot, "crc2", P2, "idle")
  \/ FlashFails(Boot)

PowerCut ==
  /\ pc[Boot] # Off
  /\ pc' = [a \in Actors |-> Off]
  /\ snapshot' = [a \in Actors |-> Factory]
  /\ need' = [a \in Actors |-> Factory]
  /\ UNCHANGED <<ram, part, count, acked, degraded>>

Next ==
  \/ \E h \in Halves : Change(h)
  \/ \E a \in Callers : Update(a)
  \/ PowerOn
  \/ ReadConfiguration
  \/ Repair
  \/ PowerCut

Spec == Init /\ [][Next]_vars

-----------------------------------------------------------------------------
(* What a save that returned kNoErr covered survives every later power cut,  *)
(* every later save that is skipped or fails, and every repair, unless the   *)
(* flash has refused the backup since: the firmware never falls back to an   *)
(* older configuration or to the factory defaults.                           *)
AckedSurvives == ~degraded => AtMost(acked, BootValue)

(* A save destroys the main copy only while the backup holds the same: the   *)
(* two agree whenever no save is under way, also after a start that found    *)
(* them different. (Without a main copy the backup alone counts.)            *)
BackupAgrees ==
  Running /\ ~Locked /\ ~degraded /\ Valid(part[P1]) => part[P2] = part[P1]

(* To its users the storage is an atomic store: see AtomicStore.             *)
Store ==
  INSTANCE AtomicStore WITH
    saved <- BootValue,
    sound <- ~degraded,
    on <- pc[Boot] \notin {Off, "read"}

ImplementsAtomicStore == Store!Spec
=============================================================================
