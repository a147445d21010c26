------------------------------ MODULE Migration ------------------------------
(***************************************************************************)
(* user_config_migrate of the TC1 firmware, for a configuration of layout  *)
(* 10 or 11: the array of timed tasks, six words each, is projected in     *)
(* place, field by field, to the array of the present layout, seven words  *)
(* each. All that lies before the array has the same place in both.        *)
(*                                                                         *)
(* memory is the words of the array, one pointer or number each; a word of *)
(* the old array is abstracted to the field and slot that it belongs to.   *)
(***************************************************************************)
EXTENDS Naturals, FiniteSets

CONSTANT MAX_TASK_NUM

VARIABLES
  memory,
  old_version,
  used,        \* the slots with a task in the old configuration
  i, field,    \* where the loop is
  version      \* user_config->version, written last

vars == <<memory, old_version, used, i, field, version>>

Slots == 0 .. MAX_TASK_NUM - 1
Empty == [slot |-> MAX_TASK_NUM, field |-> 0]

(* Fields 1 to 5 are on_use, prs_time, operation, on and weekday in both;    *)
(* next is the sixth of TimedTask_v10_t, the seventh of TimedTask after      *)
(* loop_end.                                                                 *)
Copied == 1 .. 5
OldWord(k, f) == 6 * k + f - 1
NewWord(k, f) == 7 * k + f - 1

Words == 0 .. 7 * MAX_TASK_NUM - 1
Word(k, f) == [slot |-> k, field |-> f]
OldMemory(S) ==
  [w \in Words |-> IF w \div 6 \in S THEN Word(w \div 6, (w % 6) + 1) ELSE Empty]

(* NewTask takes the first free slot, DelTask leaves a hole.                 *)
Init ==
  /\ old_version \in {10, 11}
  /\ used \in SUBSET Slots
  /\ memory = OldMemory(used)
  /\ i = 0 /\ field = 1
  /\ version = old_version

task_count == Cardinality(used)
Looping == version = old_version /\ i < task_count /\ i < MAX_TASK_NUM

CopyField ==
  /\ Looping /\ field \in Copied
  /\ memory' = [memory EXCEPT ![NewWord(i, field)] = memory[OldWord(i, field)]]
  /\ field' = field + 1
  /\ UNCHANGED <<old_version, used, i, version>>

(* loop_end = 0 and next = NULL. *)
ClearRest ==
  /\ Looping /\ field \notin Copied
  /\ memory' = [memory EXCEPT ![NewWord(i, 6)] = Empty, ![NewWord(i, 7)] = Empty]
  /\ i' = i + 1 /\ field' = 1
  /\ UNCHANGED <<old_version, used, version>>

(* The version is written and the configuration saved. *)
Finish ==
  /\ version = old_version /\ ~Looping
  /\ version' = 12
  /\ UNCHANGED <<memory, old_version, used, i, field>>

Next == CopyField \/ ClearRest \/ Finish
Spec == Init /\ [][Next]_vars

-----------------------------------------------------------------------------
(* fix2.md:272 and main.c:166: a configuration of an older layout is         *)
(* projected field by field and kept. Of two tasks in neighbouring slots the *)
(* second is overwritten by the first before it is read, and a task in a     *)
(* slot beyond the number of tasks is not copied at all.                     *)
TasksKept ==
  version = 12 =>
    \A k \in Slots, f \in Copied :
      memory[NewWord(k, f)] = IF k \in used THEN Word(k, f) ELSE Empty
=============================================================================
