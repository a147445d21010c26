---------------------------- MODULE AtomicStore -----------------------------
(***************************************************************************)
(* What the users of AppContextUpdate rely on: the configuration in memory *)
(* is saved as one value. Each half of the saved value is one the memory   *)
(* has held since the last save, and a restart brings the saved value back *)
(* whatever was under way. Only after the flash has failed to take the     *)
(* backup, and until it takes it again, may a saved value be lost.         *)
(*                                                                         *)
(* A half of the configuration is represented by the number of the change  *)
(* that gave it its present content, 0 for the factory defaults.           *)
(***************************************************************************)
EXTENDS Naturals

CONSTANT Halves    \* the parts of the configuration that change separately

VARIABLES
  ram,      \* the configuration in memory
  saved,    \* the configuration a restart brings back
  sound,    \* the flash has taken the last backup
  on        \* the program runs

vars == <<ram, saved, sound, on>>

Value == [Halves -> Nat]
Factory == [h \in Halves |-> 0]
AtMost(v, w) == \A h \in Halves : v[h] <= w[h]

Init ==
  /\ ram = Factory /\ saved = Factory
  /\ sound = TRUE
  /\ on = FALSE

Change ==
  /\ on
  /\ ram' \in Value
  /\ \E h \in Halves : ram'[h] > ram[h] /\ \A g \in Halves \ {h} : ram'[g] = ram[g]
  /\ UNCHANGED <<saved, sound, on>>

Save ==
  /\ on
  /\ saved' \in Value /\ AtMost(saved, saved') /\ AtMost(saved', ram)
  /\ UNCHANGED <<ram, sound, on>>

BackupFails == sound' = FALSE /\ UNCHANGED <<ram, saved, on>>
BackupTaken == sound' = TRUE /\ UNCHANGED <<ram, saved, on>>

Lose ==
  /\ ~sound
  /\ saved' \in Value /\ AtMost(saved', saved)
  /\ UNCHANGED <<ram, sound, on>>

PowerCut == on /\ on' = FALSE /\ UNCHANGED <<ram, saved, sound>>
PowerOn == ~on /\ on' = TRUE /\ ram' = saved /\ UNCHANGED <<saved, sound>>

Next == Change \/ Save \/ BackupFails \/ BackupTaken \/ Lose \/ PowerCut \/ PowerOn

Spec == Init /\ [][Next]_vars
=============================================================================
