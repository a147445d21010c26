--------------------------- MODULE NightModeProofs ---------------------------
(***************************************************************************)
(* For every number of slots, every day and every setting a client may ask *)
(* for: no slot of the task array gets lost, although the night mode       *)
(* claims its slots outside TaskLock, in two threads; the night tasks are  *)
(* those of the setting after a NightModeReapply that nothing interfered   *)
(* with; and they keep the LED dark throughout the night.                  *)
(***************************************************************************)
EXTENDS NightMode, FiniteSetTheorems, NaturalsInduction, WellFoundedInduction, TLAPS

Hooks == {"hook1", "hook2"}
Hooking(a) == pc[a] \in Hooks
InUse == {s \in Slots : slots[s].on_use}

Points == {"idle", "sync", "synced", "begin", "remove", "enabled?",
           "find1", "claim1", "hook1", "find2", "claim2", "hook2"}

(* What the proof needs of the types: slots and listed name slots, and an   *)
(* actor's slot is one.                                                     *)
SlotsTyped ==
  /\ slots \in [Slots -> Task]
  /\ flash.slots \in [Slots -> Task]
  /\ listed \subseteq Slots
  /\ pc \in [Actors -> Points]
  /\ my \in [Actors -> [night : Night, slot : Slots, made_up : BOOLEAN]]
  /\ config.night \in Night /\ clock_set \in BOOLEAN /\ rtc_init \in BOOLEAN
  /\ flash.config.night \in Night
  /\ running \in BOOLEAN /\ corrupt \in BOOLEAN
  /\ minute \in Minutes

(* A slot that is claimed and not yet hooked in belongs to one actor alone. *)
ClaimsApart ==
  running /\ ~corrupt =>
    \A a \in Actors : Hooking(a) =>
      /\ my[a].slot \notin listed
      /\ \A b \in Actors : Hooking(b) /\ my[b].slot = my[a].slot => a = b

(* Without power nobody is under way. *)
NobodyWhenOff == ~running => ~corrupt /\ \A a \in Actors : pc[a] = "idle"

IInv ==
  /\ SlotsTyped
  /\ ClaimsApart
  /\ NobodyWhenOff
  /\ NoSlotLost

-----------------------------------------------------------------------------
(* A set of numbers that is not empty has a least element. *)
LEMMA LeastExists ==
  ASSUME NEW D \in SUBSET Nat, D # {}
  PROVE  \E x \in D : \A y \in D : x <= y
  <1>1. PICK x \in D : \A y \in D : <<y, x>> \notin OpToRel(<, Nat)
    BY WFMin, NatLessThanWellFounded
  <1>2. \A y \in D : y \in Nat
    OBVIOUS
  <1>3. \A y \in D : y < x => <<y, x>> \in OpToRel(<, Nat)
    BY <1>2, Zenon DEF OpToRel
  <1>4. \A y \in D : ~(y < x)
    BY <1>1, <1>3, Zenon
  <1>q. QED
    BY <1>2, <1>4

(* NewTask finds a free slot when there is one. *)
LEMMA FirstFreeIsFree == FreeSlots # {} => FirstFree \in FreeSlots
  <1>1. FreeSlots \in SUBSET Nat
    BY NightAssumption DEF FreeSlots, Slots
  <1>q. QED
    BY <1>1, LeastExists DEF FirstFree

(* The slot of an actor that holds none is one all the same. *)
LEMMA SlotZero == 0 \in Slots
  BY NightAssumption DEF Slots

(* The record of an actor that begins is typed. *)
LEMMA LocalsTyped == NoLocals \in [night : Night, slot : Slots, made_up : BOOLEAN] /\ NoLocals.slot = 0
  BY SlotZero, NightAssumption DEF NoLocals, Night, Minutes

(* A step of NightModeReapply moves one actor. *)
LEMMA GoesOnMoves ==
  ASSUME SlotsTyped, NEW a \in Actors, NEW from, NEW to \in Points, NEW slot \in Slots,
         GoesOn(a, from, to, slot)
  PROVE  /\ running /\ pc[a] = from /\ pc'[a] = to
         /\ pc' \in [Actors -> Points]
         /\ my' \in [Actors -> [night : Night, slot : Slots, made_up : BOOLEAN]]
         /\ to # "idle" => my'[a].slot = slot
         /\ \A b \in Actors \ {a} : pc'[b] = pc[b] /\ my'[b] = my[b]
  <1>1. running /\ pc[a] = from /\ pc' = [pc EXCEPT ![a] = to]
    BY DEF GoesOn, Goes
  <1> DEFINE new == IF to = "idle" THEN NoLocals ELSE [my[a] EXCEPT !.slot = slot]
  <1>2. my' = [my EXCEPT ![a] = new]
    BY DEF GoesOn
  <1>3. my[a] \in [night : Night, slot : Slots, made_up : BOOLEAN]
    BY DEF SlotsTyped
  <1>4. /\ new \in [night : Night, slot : Slots, made_up : BOOLEAN]
        /\ to # "idle" => new.slot = slot
    BY <1>3, LocalsTyped
  <1> HIDE DEF new
  <1>5. my'[a] = new /\ my' \in [Actors -> [night : Night, slot : Slots, made_up : BOOLEAN]]
    BY <1>2, <1>4 DEF SlotsTyped
  <1>q. QED
    BY <1>1, <1>2, <1>4, <1>5 DEF SlotsTyped

(* A step that claims no slot, releases none and hooks in none.             *)
LEMMA SlotsAlone ==
  ASSUME IInv, SlotsTyped', running' = running, corrupt' = corrupt, listed' = listed,
         \A s \in Slots : slots'[s].on_use = slots[s].on_use,
         \A a \in Actors : Hooking(a)' <=> Hooking(a),
         \A a \in Actors : Hooking(a) => my'[a].slot = my[a].slot,
         running \/ pc' = pc
  PROVE  IInv'
  <1>1. NoSlotLost'
    BY DEF IInv, NoSlotLost, Hooking, Hooks
  <1>2. ClaimsApart'
    BY DEF IInv, ClaimsApart
  <1>3. NobodyWhenOff'
    BY DEF IInv, NobodyWhenOff
  <1>q. QED
    BY <1>1, <1>2, <1>3 DEF IInv

-----------------------------------------------------------------------------
(* The steps of NightModeReapply. *)

(* Begin changes locals, never the slot. *)
LEMMA BeginInv ==
  ASSUME IInv, NEW a \in Actors, Begin(a)
  PROVE  IInv'
  <1>1. /\ running /\ pc[a] = "begin" /\ pc' = [pc EXCEPT ![a] = "remove"]
        /\ my' = [my EXCEPT ![a].night = config.night, ![a].made_up = rtc_init]
        /\ UNCHANGED <<slots, listed, config, flash, time, running, corrupt>>
    BY DEF Begin, Goes
  <1>2. my[a] \in [night : Night, slot : Slots, made_up : BOOLEAN] /\ SlotsTyped
    BY DEF IInv, SlotsTyped
  <1> DEFINE new == [[my[a] EXCEPT !.night = config.night] EXCEPT !.made_up = rtc_init]
  <1>3. new \in [night : Night, slot : Slots, made_up : BOOLEAN] /\ new.slot = my[a].slot
    BY <1>2 DEF SlotsTyped
  <1>4. my' = [my EXCEPT ![a] = new]
    BY <1>1, <1>2 DEF SlotsTyped
  <1> HIDE DEF new
  <1>5. /\ my' \in [Actors -> [night : Night, slot : Slots, made_up : BOOLEAN]]
        /\ \A b \in Actors : my'[b].slot = my[b].slot
    BY <1>2, <1>3, <1>4 DEF SlotsTyped
  <1>6. /\ pc' \in [Actors -> Points]
        /\ \A b \in Actors : Hooking(b)' <=> Hooking(b)
    BY <1>1, <1>2 DEF SlotsTyped, Points, Hooking, Hooks
  <1>7. SlotsTyped'
    BY <1>1, <1>2, <1>5, <1>6 DEF SlotsTyped, time
  <1>q. QED
    BY <1>1, <1>5, <1>6, <1>7, SlotsAlone

(* The test of the setting, and the search for a free slot. *)
LEMMA LookInv ==
  ASSUME IInv, NEW a \in Actors, NEW from, NEW to \in Points, NEW slot \in Slots,
         GoesOn(a, from, to, slot), from \notin Hooks, to \notin Hooks,
         UNCHANGED <<slots, listed, config, flash, time, running, corrupt>>
  PROVE  IInv'
  <1>1. SlotsTyped
    BY DEF IInv
  <1>2. /\ running /\ pc[a] = from /\ pc'[a] = to
        /\ pc' \in [Actors -> Points]
        /\ my' \in [Actors -> [night : Night, slot : Slots, made_up : BOOLEAN]]
        /\ \A b \in Actors \ {a} : pc'[b] = pc[b] /\ my'[b] = my[b]
    BY <1>1, GoesOnMoves
  <1>3. SlotsTyped'
    BY <1>1, <1>2 DEF SlotsTyped, time
  <1>4. \A b \in Actors : (Hooking(b)' <=> Hooking(b)) /\ (Hooking(b) => my'[b].slot = my[b].slot)
    BY <1>2 DEF Hooking
  <1>q. QED
    BY <1>2, <1>3, <1>4, SlotsAlone

(* What Image is to TimedTask: the saved state has the type of the present. *)
LEMMA SavedTyped ==
  ASSUME AppContextUpdate, slots' \in [Slots -> Task], config'.night \in Night
  PROVE  flash'.slots \in [Slots -> Task] /\ flash'.config.night \in Night
  BY DEF AppContextUpdate

(* A slot of the factory defaults is not in use. *)
LEMMA BlankTyped == Blank \in Task /\ ~Blank.on_use
  BY NightAssumption DEF Blank, Task, Minutes

(* The night tasks in the list are released and unhooked together. *)
LEMMA RemoveInv ==
  ASSUME IInv, NEW a \in Actors, RemoveNightModeTasks(a)
  PROVE  IInv'
  <1> DEFINE N == {s \in listed : IsNight(s)}
  <1>1. SlotsTyped
    BY DEF IInv
  <1>2. /\ running /\ pc[a] = "remove" /\ pc'[a] = "enabled?"
        /\ pc' \in [Actors -> Points]
        /\ my' \in [Actors -> [night : Night, slot : Slots, made_up : BOOLEAN]]
        /\ \A b \in Actors \ {a} : pc'[b] = pc[b] /\ my'[b] = my[b]
    BY <1>1, GoesOnMoves, SlotZero DEF RemoveNightModeTasks, Points
  <1>3. /\ slots' = [s \in Slots |-> IF s \in N THEN Blank ELSE slots[s]]
        /\ listed' = listed \ N
        /\ UNCHANGED <<config, time, running, corrupt>> /\ AppContextUpdate
    BY DEF RemoveNightModeTasks
  <1> HIDE DEF N
  <1>4. /\ slots' \in [Slots -> Task]
        /\ \A s \in Slots : slots'[s].on_use <=> slots[s].on_use /\ s \notin N
    BY <1>1, <1>3, BlankTyped DEF SlotsTyped, Task
  <1>5. SlotsTyped'
    BY <1>1, <1>2, <1>3, <1>4, SavedTyped DEF SlotsTyped, time
  <1>6. \A b \in Actors : (Hooking(b)' <=> Hooking(b)) /\ (Hooking(b) => my'[b].slot = my[b].slot)
    BY <1>2 DEF Hooking, Hooks
  <1>7. N \subseteq listed
    BY DEF N
  <1>8. ClaimsApart'
    BY <1>2, <1>3, <1>6 DEF IInv, ClaimsApart
  <1>9. NoSlotLost'
    <2> SUFFICES ASSUME running', ~corrupt'
                 PROVE  \A s \in Slots :
                          slots'[s].on_use <=>
                            s \in listed' \/ \E b \in Actors : Hooking(b)' /\ my'[b].slot = s
      BY <1>5 DEF NoSlotLost, Hooking, Hooks, SlotsTyped
    <2> TAKE s \in Slots
    <2>1. slots[s].on_use <=> s \in listed \/ \E b \in Actors : Hooking(b) /\ my[b].slot = s
      BY <1>3 DEF IInv, NoSlotLost, Hooking, Hooks
    <2>2. s \in N => \A b \in Actors : Hooking(b) => my[b].slot # s
      BY <1>3, <1>7 DEF IInv, ClaimsApart
    <2>q. QED
      BY <1>3, <1>4, <1>6, <1>7, <2>1, <2>2
  <1>10. NobodyWhenOff'
    BY <1>2, <1>3 DEF NobodyWhenOff
  <1>q. QED
    BY <1>5, <1>8, <1>9, <1>10 DEF IInv

(* A claim: of a free slot, or of one another has claimed since it was found. *)
LEMMA ClaimInv ==
  ASSUME IInv, NEW a \in Actors, NEW from, NEW to \in Hooks, from \notin Hooks, Claim(a,
     from, to)
  PROVE  IInv'
  <1> DEFINE mine == my[a].slot
  <1>1. SlotsTyped /\ mine \in Slots /\ to \in Points /\ to # "idle"
    BY DEF IInv, SlotsTyped, Hooks, Points
  <1>2. /\ running /\ pc[a] = from /\ pc'[a] = to
        /\ pc' \in [Actors -> Points]
        /\ my' \in [Actors -> [night : Night, slot : Slots, made_up : BOOLEAN]]
        /\ my'[a].slot = mine
        /\ \A b \in Actors \ {a} : pc'[b] = pc[b] /\ my'[b] = my[b]
    BY <1>1, GoesOnMoves DEF Claim
  <1>3. /\ slots' = [slots EXCEPT ![mine].on_use = TRUE]
        /\ corrupt' = (corrupt \/ slots[mine].on_use)
        /\ UNCHANGED <<listed, config, flash, time, running>>
    BY DEF Claim
  <1> HIDE DEF mine
  <1>4. /\ slots' \in [Slots -> Task] /\ slots'[mine].on_use
        /\ \A s \in Slots \ {mine} : slots'[s] = slots[s]
    <2>1. slots[mine] \in Task
      BY <1>1 DEF SlotsTyped
    <2>2. [slots[mine] EXCEPT !.on_use = TRUE] \in Task /\ [slots[mine] EXCEPT !.on_use = TRUE].on_use
      BY <2>1 DEF Task
    <2>q. QED
      BY <1>1, <1>3, <2>2 DEF SlotsTyped
  <1>5. SlotsTyped'
    <2>1. corrupt' \in BOOLEAN
      BY <1>1, <1>3 DEF SlotsTyped, Task
    <2>q. QED
      BY <1>1, <1>2, <1>3, <1>4, <2>1 DEF SlotsTyped, time
  <1>6. /\ Hooking(a)' /\ ~Hooking(a)
        /\ \A b \in Actors \ {a} : (Hooking(b)' <=> Hooking(b)) /\ my'[b].slot = my[b].slot
    BY <1>2 DEF Hooking
  <1>7. ~corrupt' => /\ ~corrupt /\ mine \notin listed
                     /\ \A b \in Actors : Hooking(b) => my[b].slot # mine
    <2> SUFFICES ASSUME ~corrupt' PROVE /\ ~corrupt /\ mine \notin listed
                                        /\ \A b \in Actors : Hooking(b) => my[b].slot # mine
      OBVIOUS
    <2>1. ~corrupt /\ ~slots[mine].on_use
      BY <1>3
    <2>q. QED
      BY <1>1, <1>2, <2>1 DEF IInv, NoSlotLost, Hooking, Hooks
  <1>8. ClaimsApart'
    <2> SUFFICES ASSUME ~corrupt', NEW b \in Actors, Hooking(b)'
                 PROVE  /\ my'[b].slot \notin listed'
                        /\ \A c \in Actors : Hooking(c)' /\ my'[c].slot = my'[b].slot => b = c
      BY DEF ClaimsApart
    <2>1. CASE b = a
      BY <1>2, <1>3, <1>6, <1>7, <2>1
    <2>2. CASE b # a
      <3>1. Hooking(b) /\ my'[b].slot = my[b].slot /\ my[b].slot # mine
        BY <1>6, <1>7, <2>2
      <3>2. /\ my[b].slot \notin listed
            /\ \A c \in Actors : Hooking(c) /\ my[c].slot = my[b].slot => b = c
        BY <1>2, <1>7, <3>1 DEF IInv, ClaimsApart
      <3>q. QED
        BY <1>2, <1>3, <1>6, <3>1, <3>2
    <2>q. QED
      BY <2>1, <2>2
  <1>9. NoSlotLost'
    <2> SUFFICES ASSUME ~corrupt'
                 PROVE  \A s \in Slots :
                          slots'[s].on_use <=>
                            s \in listed' \/ \E b \in Actors : Hooking(b)' /\ my'[b].slot = s
      BY <1>5 DEF NoSlotLost, Hooking, Hooks, SlotsTyped
    <2> TAKE s \in Slots
    <2>1. slots[s].on_use <=> s \in listed \/ \E b \in Actors : Hooking(b) /\ my[b].slot = s
      BY <1>2, <1>7 DEF IInv, NoSlotLost, Hooking, Hooks
    <2>2. CASE s = mine
      BY <1>2, <1>4, <1>6, <2>2
    <2>3. CASE s # mine
      BY <1>2, <1>3, <1>4, <1>6, <2>1, <2>3
    <2>q. QED
      BY <2>2, <2>3
  <1>10. NobodyWhenOff'
    BY <1>2, <1>3 DEF NobodyWhenOff
  <1>q. QED
    BY <1>5, <1>8, <1>9, <1>10 DEF IInv

(* A claimed slot is filled and hooked in. *)
LEMMA HookInv ==
  ASSUME IInv, NEW a \in Actors, NEW from \in Hooks, NEW to \in Points \ Hooks,
         NEW at \in Minutes, NEW on \in {0, 1}, Hook(a, from, to, at, on)
  PROVE  IInv'
  <1> DEFINE mine == my[a].slot
             task == [on_use |-> TRUE, kind |-> "night", at |-> at, on |-> on,
                      dated |-> clock_set]
  <1>1. SlotsTyped /\ mine \in Slots /\ to \in Points
    BY DEF IInv, SlotsTyped
  <1>2. /\ running /\ pc[a] = from /\ pc'[a] = to
        /\ pc' \in [Actors -> Points]
        /\ my' \in [Actors -> [night : Night, slot : Slots, made_up : BOOLEAN]]
        /\ \A b \in Actors \ {a} : pc'[b] = pc[b] /\ my'[b] = my[b]
    <2>1. GoesOn(a, from, to, 0)
      BY DEF Hook
    <2>q. QED
      BY <1>1, <2>1, GoesOnMoves, SlotZero
  <1>3. /\ slots' = [slots EXCEPT ![mine] = task]
        /\ listed' = listed \cup {mine}
        /\ UNCHANGED <<config, time, running, corrupt>> /\ AppContextUpdate
    BY DEF Hook
  <1>4. task \in Task /\ task.on_use
    BY <1>1 DEF Task, SlotsTyped
  <1> HIDE DEF mine, task
  <1>5. /\ slots' \in [Slots -> Task] /\ slots'[mine].on_use
        /\ \A s \in Slots \ {mine} : slots'[s] = slots[s]
    BY <1>1, <1>3, <1>4 DEF SlotsTyped
  <1>6. SlotsTyped'
    <2>1. flash'.slots \in [Slots -> Task] /\ flash'.config.night \in Night
      BY <1>1, <1>3, <1>5, SavedTyped DEF SlotsTyped
    <2>q. QED
      BY <1>1, <1>2, <1>3, <1>5, <2>1 DEF SlotsTyped, time
  <1>7. /\ Hooking(a) /\ ~Hooking(a)'
        /\ \A b \in Actors \ {a} : (Hooking(b)' <=> Hooking(b)) /\ my'[b].slot = my[b].slot
    BY <1>2 DEF Hooking
  <1>8. ClaimsApart'
    <2> SUFFICES ASSUME ~corrupt', NEW b \in Actors, Hooking(b)'
                 PROVE  /\ my'[b].slot \notin listed'
                        /\ \A c \in Actors : Hooking(c)' /\ my'[c].slot = my'[b].slot => b = c
      BY DEF ClaimsApart
    <2>1. b # a /\ Hooking(b) /\ my'[b].slot = my[b].slot
      BY <1>7
    <2>2. /\ my[b].slot \notin listed
          /\ \A c \in Actors : Hooking(c) /\ my[c].slot = my[b].slot => b = c
      BY <1>2, <1>3, <2>1 DEF IInv, ClaimsApart
    <2>3. my[b].slot # mine
      BY <1>7, <2>1, <2>2 DEF mine
    <2>q. QED
      BY <1>2, <1>3, <1>7, <2>1, <2>2, <2>3
  <1>9. NoSlotLost'
    <2> SUFFICES ASSUME ~corrupt'
                 PROVE  \A s \in Slots :
                          slots'[s].on_use <=>
                            s \in listed' \/ \E b \in Actors : Hooking(b)' /\ my'[b].slot = s
      BY <1>6 DEF NoSlotLost, Hooking, Hooks, SlotsTyped
    <2> TAKE s \in Slots
    <2>1. slots[s].on_use <=> s \in listed \/ \E b \in Actors : Hooking(b) /\ my[b].slot = s
      BY <1>2, <1>3 DEF IInv, NoSlotLost, Hooking, Hooks
    <2>2. CASE s = mine
      BY <1>3, <1>5, <2>2
    <2>3. CASE s # mine
      BY <1>3, <1>5, <1>7, <2>1, <2>3 DEF mine
    <2>q. QED
      BY <2>2, <2>3
  <1>10. NobodyWhenOff'
    BY <1>2, <1>3 DEF NobodyWhenOff
  <1>q. QED
    BY <1>6, <1>8, <1>9, <1>10 DEF IInv

(* Every step of NightModeReapply. *)
LEMMA ReapplyInv ==
  ASSUME IInv, NEW a \in Actors, NightModeReapply(a)
  PROVE  IInv'
  <1>1. SlotsTyped
    BY DEF IInv
  <1>2. /\ my[a].night.start \in Minutes /\ my[a].night.end \in Minutes /\ my[a].slot \in Slots
    BY <1>1 DEF SlotsTyped, Night
  <1>3. CASE IsEnabled(a)
    <2> DEFINE to == IF config.enabled THEN "find1" ELSE "idle"
    <2>1. to \in Points /\ to \notin Hooks /\ "enabled?" \notin Hooks
      BY DEF Points, Hooks
    <2>2. /\ GoesOn(a, "enabled?", to, 0)
          /\ UNCHANGED <<slots, listed, config, flash, time, running, corrupt>>
      BY <1>3 DEF IsEnabled
    <2> HIDE DEF to
    <2>q. QED
      BY <2>1, <2>2, SlotZero, LookInv
  <1>4. ASSUME NEW from \in Points \ Hooks, NEW to \in Points \ Hooks,
               NEW skip \in Points \ Hooks, Find(a, from, to, skip)
        PROVE  IInv'
    <2> DEFINE next == IF FreeSlots = {} THEN skip ELSE to
               slot == IF FreeSlots = {} THEN 0 ELSE FirstFree
    <2>1. next \in Points /\ next \notin Hooks
      OBVIOUS
    <2>2. slot \in Slots
      BY SlotZero, FirstFreeIsFree DEF FreeSlots
    <2>3. /\ GoesOn(a, from, next, slot)
          /\ UNCHANGED <<slots, listed, config, flash, time, running, corrupt>>
      BY <1>4 DEF Find
    <2> HIDE DEF next, slot
    <2>q. QED
      BY <2>1, <2>2, <2>3, LookInv
  <1>5. /\ {"find1", "claim1", "find2", "claim2", "idle"} \subseteq Points \ Hooks
        /\ {"hook1", "hook2"} = Hooks
    BY DEF Points, Hooks
  <1>6. CASE Find(a, "find1", "claim1", "find2")
    BY <1>4, <1>5, <1>6
  <1>7. CASE Find(a, "find2", "claim2", "idle")
    BY <1>4, <1>5, <1>7
  <1>8. CASE Claim(a, "claim1", "hook1")
    BY <1>5, <1>8, ClaimInv
  <1>9. CASE Claim(a, "claim2", "hook2")
    BY <1>5, <1>9, ClaimInv
  <1>10. CASE Hook(a, "hook1", "find2", my[a].night.start, 0)
    BY <1>2, <1>5, <1>10, HookInv
  <1>11. CASE Hook(a, "hook2", "idle", my[a].night.end, 1)
    BY <1>2, <1>5, <1>11, HookInv
  <1>q. QED
    BY <1>3, <1>6, <1>7, <1>8, <1>9, <1>10, <1>11, BeginInv, RemoveInv
       DEF NightModeReapply, CreateNightModeTasks

-----------------------------------------------------------------------------
(* The other steps. *)

(* A client's task is one, and none of the night. *)
LEMMA AddsTask ==
  ASSUME HttpAddTask
  PROVE  \E task \in Task :
           /\ task.on_use /\ task.kind \in {"client", "wednesday"}
           /\ slots' = [slots EXCEPT ![FirstFree] = task]
  <1>1. PICK t \in {Blank} \cup {[Blank EXCEPT !.kind = "wednesday", !.at = w.at, !.on = w.on] :
                                  w \in Wednesdays} :
          slots' = [slots EXCEPT ![FirstFree] = [t EXCEPT !.on_use = TRUE]]
    BY DEF HttpAddTask
  <1>2. t \in Task /\ t.kind \in {"client", "wednesday"}
    <2>1. CASE t = Blank
      BY <2>1, BlankTyped DEF Blank
    <2>2. ASSUME NEW w \in Wednesdays,
                 t = [Blank EXCEPT !.kind = "wednesday", !.at = w.at, !.on = w.on]
          PROVE  t \in Task /\ t.kind \in {"client", "wednesday"}
      <3>1. w.at \in Minutes /\ w.on \in {-1, 0, 1}
        BY NightAssumption DEF Minutes
      <3>2. t = [on_use |-> FALSE, kind |-> "wednesday", at |-> w.at, on |-> w.on,
                 dated |-> TRUE]
        BY <2>2 DEF Blank
      <3>q. QED
        BY <3>1, <3>2 DEF Task
    <2>q. QED
      BY <2>1, <2>2
  <1> DEFINE task == [t EXCEPT !.on_use = TRUE]
  <1>3. task \in Task /\ task.on_use /\ task.kind = t.kind
    BY <1>2 DEF Task
  <1>4. slots' = [slots EXCEPT ![FirstFree] = task]
    BY <1>1
  <1> HIDE DEF task
  <1>q. QED
    BY <1>2, <1>3, <1>4

(* The web page adds a task. *)
LEMMA AddInv ==
  ASSUME IInv, HttpAddTask
  PROVE  IInv'
  <1> DEFINE f == FirstFree
  <1>1. SlotsTyped /\ f \in Slots /\ ~slots[f].on_use /\ running
    BY FirstFreeIsFree DEF IInv, HttpAddTask, FreeSlots
  <1>2. PICK task \in Task :
          /\ task.on_use /\ task.kind \in {"client", "wednesday"}
          /\ slots' = [slots EXCEPT ![f] = task]
    BY AddsTask
  <1>3. /\ listed' = listed \cup {f}
        /\ UNCHANGED <<config, time, running, corrupt, pc, my>> /\ AppContextUpdate
    BY DEF HttpAddTask
  <1> HIDE DEF f
  <1>4. /\ slots' \in [Slots -> Task] /\ slots'[f].on_use
        /\ \A s \in Slots \ {f} : slots'[s] = slots[s]
    BY <1>1, <1>2 DEF SlotsTyped
  <1>5. SlotsTyped'
    <2>1. flash'.slots \in [Slots -> Task] /\ flash'.config.night \in Night
      BY <1>1, <1>3, <1>4, SavedTyped DEF SlotsTyped
    <2>q. QED
      BY <1>1, <1>3, <1>4, <2>1 DEF SlotsTyped, time
  <1>6. ~corrupt => \A b \in Actors : Hooking(b) => my[b].slot # f
    BY <1>1 DEF IInv, NoSlotLost, Hooking, Hooks
  <1>7. \A b \in Actors : Hooking(b)' <=> Hooking(b)
    BY <1>3 DEF Hooking
  <1>8. ClaimsApart'
    BY <1>3, <1>6, <1>7 DEF IInv, ClaimsApart
  <1>9. NoSlotLost'
    <2> SUFFICES ASSUME ~corrupt'
                 PROVE  \A s \in Slots :
                          slots'[s].on_use <=>
                            s \in listed' \/ \E b \in Actors : Hooking(b)' /\ my'[b].slot = s
      BY <1>5 DEF NoSlotLost, Hooking, Hooks, SlotsTyped
    <2> TAKE s \in Slots
    <2>1. slots[s].on_use <=> s \in listed \/ \E b \in Actors : Hooking(b) /\ my[b].slot = s
      BY <1>1, <1>3 DEF IInv, NoSlotLost, Hooking, Hooks
    <2>q. QED
      BY <1>3, <1>4, <1>7, <2>1
  <1>10. NobodyWhenOff'
    BY <1>1, <1>3 DEF NobodyWhenOff
  <1>q. QED
    BY <1>5, <1>8, <1>9, <1>10 DEF IInv

(* The web page deletes a task: it is released and unhooked together. *)
LEMMA DelInv ==
  ASSUME IInv, HttpDelTask
  PROVE  IInv'
  <1>1. PICK d \in listed : /\ slots' = [slots EXCEPT ![d] = Blank]
                            /\ listed' = listed \ {d}
    BY DEF HttpDelTask
  <1>2. /\ SlotsTyped /\ d \in Slots /\ running
        /\ UNCHANGED <<config, time, running, corrupt, pc, my>> /\ AppContextUpdate
    BY DEF IInv, HttpDelTask, SlotsTyped
  <1>3. /\ slots' \in [Slots -> Task] /\ ~slots'[d].on_use
        /\ \A s \in Slots \ {d} : slots'[s] = slots[s]
    BY <1>1, <1>2, BlankTyped DEF SlotsTyped
  <1>4. SlotsTyped'
    <2>1. flash'.slots \in [Slots -> Task] /\ flash'.config.night \in Night
      BY <1>2, <1>3, SavedTyped DEF SlotsTyped
    <2>q. QED
      BY <1>1, <1>2, <1>3, <2>1 DEF SlotsTyped, time
  <1>5. \A b \in Actors : Hooking(b)' <=> Hooking(b)
    BY <1>2 DEF Hooking
  <1>6. ClaimsApart'
    BY <1>1, <1>2, <1>5 DEF IInv, ClaimsApart
  <1>7. NoSlotLost'
    <2> SUFFICES ASSUME ~corrupt'
                 PROVE  \A s \in Slots :
                          slots'[s].on_use <=>
                            s \in listed' \/ \E b \in Actors : Hooking(b)' /\ my'[b].slot = s
      BY <1>4 DEF NoSlotLost, Hooking, Hooks, SlotsTyped
    <2> TAKE s \in Slots
    <2>1. slots[s].on_use <=> s \in listed \/ \E b \in Actors : Hooking(b) /\ my[b].slot = s
      BY <1>2 DEF IInv, NoSlotLost, Hooking, Hooks
    <2>2. \A b \in Actors : Hooking(b) => my[b].slot # d
      BY <1>2 DEF IInv, ClaimsApart
    <2>q. QED
      BY <1>1, <1>2, <1>3, <1>5, <2>1, <2>2
  <1>8. NobodyWhenOff'
    BY <1>2 DEF NobodyWhenOff
  <1>q. QED
    BY <1>4, <1>6, <1>7, <1>8 DEF IInv

(* The steps that leave the slots and the claims alone. *)
LEMMA SettingInv ==
  ASSUME IInv, HttpSetNightMode \/ RtcSync \/ RtcInit \/ RtcResync \/ LedSetEnabled
  PROVE  IInv'
  <1>1. SlotsTyped
    BY DEF IInv
  <1>2. /\ running /\ UNCHANGED <<slots, listed, running, my, corrupt, minute>>
    BY DEF HttpSetNightMode, RtcSync, RtcInit, RtcResync, LedSetEnabled, Goes, time
  <1>3. clock_set' \in BOOLEAN /\ rtc_init' \in BOOLEAN
    BY <1>1 DEF SlotsTyped, HttpSetNightMode, RtcSync, RtcInit, RtcResync, LedSetEnabled, time
  <1>4. config'.night \in Night
    <2>1. CASE HttpSetNightMode
      <3>1. PICK n \in Nights, e \in BOOLEAN : config' = [enabled |-> e, night |-> n]
        BY <2>1 DEF HttpSetNightMode
      <3>2. n \in Night
        BY <3>1, NightAssumption DEF Night, Minutes
      <3>q. QED
        BY <3>1, <3>2
    <2>2. CASE config' = config
      BY <1>1, <2>2 DEF SlotsTyped
    <2>q. QED
      BY <2>1, <2>2 DEF RtcSync, RtcInit, RtcResync, LedSetEnabled
  <1>5. flash'.slots \in [Slots -> Task] /\ flash'.config.night \in Night
    <2>1. CASE AppContextUpdate
      BY <1>1, <1>2, <1>4, <2>1, SavedTyped DEF SlotsTyped
    <2>2. CASE flash' = flash
      BY <1>1, <2>2 DEF SlotsTyped
    <2>q. QED
      BY <2>1, <2>2 DEF HttpSetNightMode, RtcSync, RtcInit, RtcResync, LedSetEnabled
  <1>6. /\ pc' \in [Actors -> Points]
        /\ \A a \in Actors : Hooking(a)' <=> Hooking(a)
    <2>1. ASSUME NEW a \in Actors, NEW from \in Points \ Hooks, NEW to \in Points \ Hooks,
                 Goes(a, from, to)
          PROVE  /\ pc' \in [Actors -> Points]
                 /\ \A b \in Actors : Hooking(b)' <=> Hooking(b)
      <3>1. pc[a] = from /\ pc' = [pc EXCEPT ![a] = to]
        BY <2>1 DEF Goes
      <3>q. QED
        BY <1>1, <3>1 DEF SlotsTyped, Hooking
    <2>2. {"idle", "begin", "sync", "synced"} \subseteq Points \ Hooks
      BY DEF Points, Hooks
    <2>3. "http" \in Actors /\ "rtc" \in Actors
      BY DEF Actors
    <2>4. CASE HttpSetNightMode
      BY <2>1, <2>2, <2>3, <2>4 DEF HttpSetNightMode
    <2>5. CASE RtcSync
      BY <2>1, <2>2, <2>3, <2>5 DEF RtcSync
    <2>6. CASE RtcInit
      BY <2>1, <2>2, <2>3, <2>6 DEF RtcInit
    <2>7. CASE pc' = pc
      BY <1>1, <2>7 DEF SlotsTyped, Hooking
    <2>q. QED
      BY <2>4, <2>5, <2>6, <2>7 DEF RtcResync, LedSetEnabled
  <1>7. SlotsTyped'
    BY <1>1, <1>2, <1>3, <1>4, <1>5, <1>6 DEF SlotsTyped
  <1>q. QED
    BY <1>2, <1>6, <1>7, SlotsAlone

(* The main loop executes a night task: it dates it and keeps its slot. *)
LEMMA ProcessInv ==
  ASSUME IInv, NEW s \in Slots, ProcessNightTask(s)
  PROVE  IInv'
  <1>1. SlotsTyped
    BY DEF IInv
  <1>2. /\ running /\ slots' = [slots EXCEPT ![s].dated = clock_set]
        /\ UNCHANGED <<listed, config, time, running, pc, my, corrupt>> /\ AppContextUpdate
    BY DEF ProcessNightTask
  <1> DEFINE task == [slots[s] EXCEPT !.dated = clock_set]
  <1>3. task \in Task /\ task.on_use = slots[s].on_use
    <2>1. slots[s] \in Task /\ clock_set \in BOOLEAN
      BY <1>1 DEF SlotsTyped
    <2>2. \A t \in Task, d \in BOOLEAN :
            LET new == [t EXCEPT !.dated = d] IN new \in Task /\ new.on_use = t.on_use
      BY DEF Task
    <2>q. QED
      BY <2>1, <2>2
  <1>4. slots' = [slots EXCEPT ![s] = task]
    BY <1>2
  <1> HIDE DEF task
  <1>5. slots' \in [Slots -> Task] /\ \A r \in Slots : slots'[r].on_use = slots[r].on_use
    BY <1>1, <1>3, <1>4 DEF SlotsTyped
  <1>6. SlotsTyped'
    <2>1. flash'.slots \in [Slots -> Task] /\ flash'.config.night \in Night
      BY <1>1, <1>2, <1>5, SavedTyped DEF SlotsTyped
    <2>q. QED
      BY <1>1, <1>2, <1>5, <2>1 DEF SlotsTyped, time
  <1>7. \A a \in Actors : Hooking(a)' <=> Hooking(a)
    BY <1>2 DEF Hooking
  <1>q. QED
    BY <1>2, <1>5, <1>6, <1>7, SlotsAlone

(* The clock. *)
LEMMA TickInv ==
  ASSUME IInv, Tick
  PROVE  IInv'
  <1>1. UNCHANGED <<slots, listed, config, flash, clock_set, rtc_init, running, pc, my, corrupt>>
    BY DEF Tick
  <1>2. minute' \in Minutes
    <2>1. minute' = (minute + 1) % MINUTES /\ minute \in Nat
      BY DEF IInv, SlotsTyped, Minutes, Tick
    <2>q. QED
      BY <2>1, NightAssumption DEF Minutes
  <1>3. SlotsTyped'
    BY <1>1, <1>2 DEF IInv, SlotsTyped
  <1>4. \A a \in Actors : Hooking(a)' <=> Hooking(a)
    BY <1>1 DEF Hooking
  <1>q. QED
    BY <1>1, <1>3, <1>4, SlotsAlone

(* A power cut ends every claim that is not saved. *)
LEMMA PowerCutInv ==
  ASSUME IInv, PowerCut
  PROVE  IInv'
  <1>1. /\ running' = FALSE /\ corrupt' = FALSE /\ listed' = {}
        /\ pc' = [a \in Actors |-> "idle"] /\ my' = [a \in Actors |-> NoLocals]
        /\ slots' = flash.slots /\ config' = flash.config /\ rtc_init' = FALSE
        /\ UNCHANGED <<flash, minute, clock_set>>
    BY DEF PowerCut
  <1>2. pc' \in [Actors -> Points] /\ \A a \in Actors : pc'[a] = "idle"
    BY <1>1 DEF Points
  <1>3. my' \in [Actors -> [night : Night, slot : Slots, made_up : BOOLEAN]]
    BY <1>1, LocalsTyped
  <1>4. SlotsTyped'
    BY <1>1, <1>2, <1>3 DEF IInv, SlotsTyped
  <1>5. NoSlotLost' /\ ClaimsApart' /\ NobodyWhenOff'
    BY <1>1, <1>2 DEF NoSlotLost, ClaimsApart, NobodyWhenOff
  <1>q. QED
    BY <1>4, <1>5 DEF IInv

(* RebuildTaskList dates the tasks, and converts those of a Wednesday at a   *)
(* minute of the setting; it does nothing else to them.                      *)
LEMMA Rebuilds ==
  ASSUME SlotsTyped, clock_set' \in BOOLEAN, PowerOn
  PROVE  /\ slots' \in [Slots -> Task]
         /\ \A s \in Slots :
              /\ slots'[s].on_use = slots[s].on_use
              /\ slots'[s].at = slots[s].at /\ slots'[s].on = slots[s].on
              /\ \/ slots'[s].kind = slots[s].kind
                 \/ /\ slots[s].kind = "wednesday" /\ slots'[s].kind = "converted"
                    /\ slots[s].at \in {config.night.start, config.night.end}
  <1>1. slots' = [s \in Slots |-> Converted([slots[s] EXCEPT !.dated = @ \/ clock_set'])]
    BY DEF PowerOn
  <1>2. ASSUME NEW s \in Slots
        PROVE  /\ slots'[s] \in Task
               /\ slots'[s].on_use = slots[s].on_use
               /\ slots'[s].at = slots[s].at /\ slots'[s].on = slots[s].on
               /\ \/ slots'[s].kind = slots[s].kind
                  \/ /\ slots[s].kind = "wednesday" /\ slots'[s].kind = "converted"
                     /\ slots[s].at \in {config.night.start, config.night.end}
    <2> DEFINE t == [slots[s] EXCEPT !.dated = @ \/ clock_set']
               c == [t EXCEPT !.kind = "converted"]
    <2>1. slots[s] \in Task
      BY DEF SlotsTyped
    <2>2. /\ t \in Task /\ t.on_use = slots[s].on_use /\ t.kind = slots[s].kind
          /\ t.at = slots[s].at /\ t.on = slots[s].on
      BY <2>1 DEF Task
    <2>3. slots'[s] = IF t.kind = "wednesday" /\ t.at \in {config.night.start, config.night.end}
                      THEN c ELSE t
      BY <1>1 DEF Converted
    <2> HIDE DEF t
    <2>4. /\ c \in Task /\ c.on_use = t.on_use /\ c.kind = "converted"
          /\ c.at = t.at /\ c.on = t.on
      BY <2>2 DEF Task
    <2> HIDE DEF c
    <2>q. QED
      BY <2>2, <2>3, <2>4
  <1>3. slots' \in [Slots -> Task]
    <2> DEFINE E(s) == Converted([slots[s] EXCEPT !.dated = @ \/ clock_set'])
    <2>1. \A s \in Slots : slots'[s] \in Task
      BY <1>2
    <2>2. slots' = [s \in Slots |-> E(s)]
      BY <1>1
    <2> HIDE DEF E
    <2>q. QED
      BY <2>1, <2>2
  <1>q. QED
    BY <1>2, <1>3

(* RebuildTaskList hooks in every slot that is saved as in use. *)
LEMMA PowerOnInv ==
  ASSUME IInv, PowerOn
  PROVE  IInv'
  <1>1. /\ ~running /\ running' = TRUE
        /\ listed' = {s \in Slots : slots[s].on_use} /\ clock_set' \in {FALSE, clock_set}
        /\ pc' = [pc EXCEPT !["rtc"] = "sync"]
        /\ UNCHANGED <<config, flash, minute, rtc_init, my, corrupt>>
    BY DEF PowerOn
  <1>2. SlotsTyped /\ ~corrupt /\ \A a \in Actors : pc[a] = "idle"
    BY <1>1 DEF IInv, NobodyWhenOff
  <1>3. clock_set' \in BOOLEAN
    BY <1>1, <1>2 DEF SlotsTyped
  <1>4. slots' \in [Slots -> Task] /\ \A s \in Slots : slots'[s].on_use = slots[s].on_use
    BY <1>2, <1>3, Rebuilds
  <1>5. pc' \in [Actors -> Points] /\ \A a \in Actors : ~Hooking(a)'
    BY <1>1, <1>2 DEF SlotsTyped, Points, Hooking, Hooks
  <1>6. SlotsTyped'
    BY <1>1, <1>2, <1>3, <1>4, <1>5 DEF SlotsTyped
  <1>7. ClaimsApart'
    BY <1>5 DEF ClaimsApart
  <1>8. NoSlotLost'
    BY <1>1, <1>4, <1>5 DEF NoSlotLost, Hooking, Hooks
  <1>9. NobodyWhenOff'
    BY <1>1 DEF NobodyWhenOff
  <1>q. QED
    BY <1>6, <1>7, <1>8, <1>9 DEF IInv

-----------------------------------------------------------------------------
(* All slots are free. *)
LEMMA InitInv == Init => IInv
  <1> SUFFICES ASSUME Init PROVE IInv
    OBVIOUS
  <1>1. /\ slots = [s \in Slots |-> Blank] /\ listed = {}
        /\ flash = [slots |-> slots, config |-> config, led |-> led]
        /\ clock_set = FALSE /\ rtc_init = FALSE /\ running = TRUE /\ corrupt = FALSE
        /\ minute = 0
        /\ pc = [a \in Actors |-> IF a = "rtc" THEN "sync" ELSE "idle"]
        /\ my = [a \in Actors |-> NoLocals]
    BY DEF Init
  <1>2. config.night \in Night /\ flash.config.night \in Night
    BY <1>1, NightAssumption DEF Init, Night, Minutes
  <1>3. slots \in [Slots -> Task] /\ flash.slots \in [Slots -> Task]
        /\ \A s \in Slots : ~slots[s].on_use
    BY <1>1, BlankTyped
  <1>4. pc \in [Actors -> Points] /\ \A a \in Actors : ~Hooking(a)
    BY <1>1 DEF Points, Hooking, Hooks
  <1>5. my \in [Actors -> [night : Night, slot : Slots, made_up : BOOLEAN]]
    BY <1>1, LocalsTyped
  <1>6. SlotsTyped
    <2>1. 0 \in Minutes
      BY NightAssumption DEF Minutes
    <2>q. QED
      BY <1>1, <1>2, <1>3, <1>4, <1>5, <2>1 DEF SlotsTyped
  <1>7. ClaimsApart /\ NoSlotLost /\ NobodyWhenOff
    BY <1>1, <1>3, <1>4 DEF ClaimsApart, NoSlotLost, NobodyWhenOff, Hooking, Hooks
  <1>q. QED
    BY <1>6, <1>7 DEF IInv

(* Every step keeps the invariant. *)
LEMMA StepInv == IInv /\ [Next]_vars => IInv'
  <1> SUFFICES ASSUME IInv, [Next]_vars PROVE IInv'
    OBVIOUS
  <1>1. CASE Next
    BY <1>1, SettingInv, ReapplyInv, AddInv, DelInv, ProcessInv, TickInv, PowerCutInv,
       PowerOnInv
       DEF Next
  <1>2. CASE UNCHANGED vars
    <2>1. UNCHANGED <<slots, listed, config, flash, minute, clock_set, rtc_init, running, pc, my,
                      corrupt>>
      BY <1>2 DEF vars
    <2>2. SlotsTyped' /\ \A a \in Actors : Hooking(a)' <=> Hooking(a)
      BY <2>1 DEF IInv, SlotsTyped, Hooking
    <2>q. QED
      BY <2>1, <2>2, SlotsAlone
  <1>q. QED
    BY <1>1, <1>2

(* The invariant holds always. *)
LEMMA Invariance == Spec => []IInv
  BY InitInv, StepInv, PTL DEF Spec

(* Every slot in use is in the list, or about to be hooked in by the thread  *)
(* that claimed it: as long as no two threads have claimed one and the same. *)
THEOREM SlotsAreKept == Spec => []NoSlotLost
  <1>1. IInv => NoSlotLost
    BY DEF IInv
  <1>q. QED
    BY Invariance, <1>1, PTL

-----------------------------------------------------------------------------
(* The tasks of the night and the LED. *)

NightSlots == {s \in Slots : IsNight(s)}
OwnSlots == {s \in Slots : slots[s].kind = "night"}
Foreign == {s \in Slots : slots[s].kind = "converted"}
Resting == \A a \in Actors : ~Reapplying(a)

(* A night task, and one that may become one, is in use and saved as it is,  *)
(* but for a conversion that is not saved; a night task is in the list.      *)
NightKept ==
  /\ \A s \in Slots :
       IF slots[s].kind = "client" THEN flash.slots[s].kind = "client"
       ELSE /\ slots[s].on_use /\ flash.slots[s].on_use
            /\ flash.slots[s].at = slots[s].at /\ flash.slots[s].on = slots[s].on
            /\ \/ flash.slots[s].kind = slots[s].kind
               \/ slots[s].kind = "converted" /\ flash.slots[s].kind = "wednesday"
  /\ flash.config = config
  /\ running => NightSlots \subseteq listed

(* The night tasks are those of the setting, wherever the power is cut, but  *)
(* for a client's at a minute of the setting.                                *)
Agree ==
  /\ OwnSlots # {} => config.enabled
  /\ \A s \in OwnSlots :
       \/ slots[s].at = config.night.start /\ slots[s].on = 0
       \/ slots[s].at = config.night.end /\ slots[s].on = 1
  /\ \A s, u \in OwnSlots : slots[s].on = slots[u].on => s = u
  /\ \A s \in Foreign : slots[s].at \in {config.night.start, config.night.end}

AllDone == due \cap NightSlots = {}

(* How far a thread has come that nobody has disturbed in NightModeReapply:  *)
(* it still goes by the present setting, has found no night task after the   *)
(* removal but its own, and its slot is no night task's before it hooks it   *)
(* in. What it made up for at first still is so.                             *)
Undisturbed(a) ==
  /\ pc[a] \in {"remove", "enabled?", "find1", "claim1", "hook1", "find2", "claim2", "hook2"}
  /\ \A b \in Actors \ {a} : ~Reapplying(b)
  /\ my[a].night = config.night
  /\ pc[a] \in {"enabled?", "find1", "claim1", "hook1"} => NightSlots = {}
  /\ pc[a] # "remove" => Foreign = {}
  /\ pc[a] \notin {"remove", "enabled?"} => config.enabled
  /\ pc[a] \in {"find2", "claim2", "hook2"} =>
       /\ \A s \in NightSlots : slots[s].at = config.night.start /\ slots[s].on = 0
       /\ \A s, u \in NightSlots : s = u
  /\ pc[a] \in {"claim1", "hook1", "claim2", "hook2"} => ~IsNight(my[a].slot)
  /\ my[a].made_up =>
       /\ clock_set
       /\ config.enabled /\ InNight(config.night, minute) => led = 0
       /\ pc[a] # "remove" => AllDone

Alone == \A a \in Actors : alone[a] => Undisturbed(a)

(* The clock is set before rtc_init. *)
Clocked ==
  /\ pc["rtc"] = "synced" => clock_set
  /\ rtc_init => clock_set /\ running

BothThere == \E s, u \in NightSlots : slots[s].on = 0 /\ slots[u].on = 1

(* What is due is due now, nothing but a task that is due is amiss, and no   *)
(* client's task has become a night task.                                    *)
Dark ==
  /\ Foreign = {}
  /\ \A s \in due \cap NightSlots : slots[s].at = minute
  /\ ~manual /\ BothThere /\ AllDone /\ InNight(config.night, minute) => led = 0

NightInv ==
  /\ alone \in [Actors -> BOOLEAN] /\ clean \in BOOLEAN /\ made_up \in BOOLEAN
  /\ manual \in BOOLEAN
  /\ NightKept
  /\ Alone
  /\ clean /\ Resting => Agree
  /\ Clocked
  /\ made_up => running /\ clean /\ clock_set
  /\ made_up /\ Resting => Dark

-----------------------------------------------------------------------------
(* What the steps have in common. *)

(* The night tasks that are there are as they were. *)
AsBefore ==
  /\ config' = config
  /\ NightSlots' \subseteq NightSlots
  /\ \A s \in NightSlots' : /\ slots'[s].at = slots[s].at /\ slots'[s].on = slots[s].on
                            /\ slots'[s].kind = slots[s].kind

(* With none added and none changed the tasks still agree with the setting. *)
LEMMA AgreeKeeps ==
  ASSUME AsBefore
  PROVE  (Agree => Agree') /\ (BothThere' => BothThere) /\ Foreign' \subseteq Foreign
  <1>1. OwnSlots' \subseteq NightSlots' /\ Foreign' \subseteq NightSlots'
    BY DEF OwnSlots, Foreign, NightSlots, IsNight
  <1>2. OwnSlots' \subseteq OwnSlots /\ Foreign' \subseteq Foreign
    BY <1>1 DEF AsBefore, OwnSlots, Foreign
  <1>q. QED
    BY <1>1, <1>2 DEF AsBefore, Agree, BothThere

(* The night tasks are those of the setting and those of the clients. *)
LEMMA OwnAndForeign == NightSlots = OwnSlots \cup Foreign
  BY DEF NightSlots, OwnSlots, Foreign, IsNight

(* What is saved at once is kept. *)
LEMMA SavedKept ==
  ASSUME AppContextUpdate,
         \A s \in Slots : slots'[s].kind # "client" => slots'[s].on_use,
         running' => NightSlots' \subseteq listed'
  PROVE  NightKept'
  BY DEF AppContextUpdate, NightKept, NightSlots, IsNight

(* Only a claim or nothing has happened to the slots.                        *)
LEMMA UnsavedKept ==
  ASSUME NightKept, UNCHANGED <<flash, listed, config, running>>,
         \A s \in Slots : /\ slots'[s].kind = slots[s].kind /\ slots'[s].at = slots[s].at
                          /\ slots'[s].on = slots[s].on
                          /\ slots[s].on_use => slots'[s].on_use
  PROVE  NightKept' /\ AsBefore /\ NightSlots' = NightSlots /\ Foreign' = Foreign
  <1>1. NightSlots' = NightSlots /\ Foreign' = Foreign
    BY DEF NightSlots, IsNight, Foreign
  <1>2. \A s \in NightSlots : s \in Slots
    BY DEF NightSlots
  <1>q. QED
    BY <1>1, <1>2 DEF NightKept, AsBefore, IsNight

(* A thread that is alone is within NightModeReapply. *)
LEMMA AloneWithin ==
  ASSUME IInv, NightInv, NEW a \in Actors, ~Reapplying(a) \/ pc[a] = "begin" \/ ~running
  PROVE  ~alone[a]
  BY DEF IInv, NobodyWhenOff, NightInv, Alone, Undisturbed, Reapplying

(* A step of somebody who is not in NightModeReapply. *)
LEMMA OtherInv ==
  ASSUME IInv, NightInv,
         NightKept', AsBefore, Clocked', made_up /\ Resting => Dark',
         alone' \in [Actors -> BOOLEAN], \A a \in Actors : ~alone'[a],
         manual' \in BOOLEAN, UNCHANGED <<clean, made_up, running>>, Resting' => Resting,
         clock_set => clock_set'
  PROVE  NightInv'
  <1>1. Agree => Agree'
    BY AgreeKeeps
  <1>2. Alone'
    BY DEF Alone
  <1>3. (made_up => running /\ clean /\ clock_set)'
    BY DEF NightInv
  <1>4. (clean /\ Resting => Agree)' /\ (made_up /\ Resting => Dark)'
    BY <1>1 DEF NightInv
  <1>q. QED
    BY <1>2, <1>3, <1>4 DEF NightInv

(* A step of one who is in NightModeReapply and stays there. *)
LEMMA WithinInv ==
  ASSUME IInv, NightInv, NEW a \in Actors, Reapplying(a)', NightKept',
         alone' \in [Actors -> BOOLEAN], \A b \in Actors \ {a} : ~alone'[b],
         alone'[a] => Undisturbed(a)', Clocked', manual' \in BOOLEAN,
         UNCHANGED <<clean, made_up, running, clock_set>>
  PROVE  NightInv'
  <1>1. Alone'
    BY DEF Alone
  <1>2. ~Resting'
    BY DEF Resting
  <1>q. QED
    BY <1>1, <1>2 DEF NightInv

(* What GoesOn says of the histories. *)
LEMMA GoesOnAlone ==
  ASSUME IInv, NightInv, NEW a \in Actors, NEW from, NEW to \in Points, NEW slot \in Slots,
         GoesOn(a, from, to, slot)
  PROVE  /\ alone' \in [Actors -> BOOLEAN]
         /\ \A b \in Actors \ {a} : ~alone'[b]
         /\ alone'[a] <=> alone[a] /\ to # "idle"
         /\ to # "idle" => clean' = clean /\ made_up' = made_up
         /\ to = "idle" => clean' = alone[a] /\ made_up' = (alone[a] /\ my[a].made_up)
         /\ to # "idle" => my'[a].night = my[a].night /\ my'[a].made_up = my[a].made_up
                           /\ my'[a].slot = slot
  <1>1. /\ alone' = [Disturbed(a) EXCEPT ![a] = Disturbed(a)[a] /\ to # "idle"]
        /\ clean' = IF to = "idle" THEN alone[a] ELSE clean
        /\ made_up' = IF to = "idle" THEN alone[a] /\ my[a].made_up ELSE made_up
        /\ my' = [my EXCEPT ![a] = IF to = "idle" THEN NoLocals
                                   ELSE [my[a] EXCEPT !.slot = slot]]
    BY DEF GoesOn
  <1>2. alone \in [Actors -> BOOLEAN] /\ my[a] \in [night : Night, slot : Slots, made_up : BOOLEAN]
    BY DEF IInv, SlotsTyped, NightInv
  <1>3. Disturbed(a) = [b \in Actors |-> alone[b] /\ b = a]
    BY DEF Disturbed
  <1>4. /\ alone' \in [Actors -> BOOLEAN]
        /\ \A b \in Actors \ {a} : ~alone'[b]
        /\ alone'[a] <=> alone[a] /\ to # "idle"
    BY <1>1, <1>2, <1>3
  <1>5. ASSUME to # "idle"
        PROVE  /\ my'[a].night = my[a].night /\ my'[a].made_up = my[a].made_up
               /\ my'[a].slot = slot
    <2>1. my' = [my EXCEPT ![a] = [my[a] EXCEPT !.slot = slot]]
      BY <1>1, <1>5
    <2>q. QED
      BY <1>2, <2>1 DEF IInv, SlotsTyped
  <1>q. QED
    BY <1>1, <1>4, <1>5

(* The end of NightModeReapply: what one who was alone leaves.               *)
LEMMA EndInv ==
  ASSUME IInv, NightInv, NEW a \in Actors, NEW from, NEW slot \in Slots,
         GoesOn(a, from, "idle", slot), NightKept', Clocked', manual' \in BOOLEAN,
         UNCHANGED <<running, clock_set>>,
         alone[a] => Agree', alone[a] /\ my[a].made_up => clock_set /\ Dark'
  PROVE  NightInv'
  <1>1. "idle" \in Points
    BY DEF Points
  <1>2. /\ alone' \in [Actors -> BOOLEAN] /\ \A b \in Actors : ~alone'[b]
        /\ clean' = alone[a] /\ made_up' = (alone[a] /\ my[a].made_up)
    BY <1>1, GoesOnAlone
  <1>3. clean' \in BOOLEAN /\ made_up' \in BOOLEAN
    BY <1>2 DEF NightInv
  <1>4. Alone' /\ running'
    BY <1>2 DEF Alone, GoesOn, Goes
  <1>q. QED
    BY <1>2, <1>3, <1>4 DEF NightInv

-----------------------------------------------------------------------------
(* The steps of NightModeReapply again. *)

(* It begins with the present setting, and makes up for a night that has     *)
(* begun when the clock is set.                                              *)
LEMMA BeginNight ==
  ASSUME IInv, NightInv, NEW a \in Actors, Begin(a)
  PROVE  NightInv'
  <1>1. /\ running /\ pc[a] = "begin" /\ pc' = [pc EXCEPT ![a] = "remove"]
        /\ my' = [my EXCEPT ![a].night = config.night, ![a].made_up = rtc_init]
        /\ alone' = [b \in Actors |-> b = a /\ ~\E o \in Actors \ {a} : Reapplying(o)]
        /\ UNCHANGED <<slots, listed, config, flash, time, due, running, clean, made_up>>
    BY DEF Begin, Goes
  <1>2. pc \in [Actors -> Points] /\ my[a] \in [night : Night, slot : Slots, made_up : BOOLEAN]
        /\ my \in [Actors -> [night : Night, slot : Slots, made_up : BOOLEAN]]
    BY DEF IInv, SlotsTyped
  <1>3. /\ pc'[a] = "remove" /\ \A b \in Actors \ {a} : pc'[b] = pc[b]
        /\ my'[a].night = config.night /\ my'[a].made_up = rtc_init
    <2> DEFINE new == [[my[a] EXCEPT !.night = config.night] EXCEPT !.made_up = rtc_init]
    <2>1. new.night = config.night /\ new.made_up = rtc_init
      BY <1>2
    <2>2. my'[a] = new
      BY <1>1, <1>2
    <2> HIDE DEF new
    <2>q. QED
      BY <1>1, <1>2, <2>1, <2>2
  <1>4. alone' \in [Actors -> BOOLEAN] /\ (\A b \in Actors \ {a} : ~alone'[b])
        /\ (alone'[a] => \A o \in Actors \ {a} : ~Reapplying(o))
    BY <1>1
  <1>5. NightKept' /\ NightSlots' = NightSlots
    BY <1>1, UnsavedKept DEF NightInv
  <1>6. manual' \in BOOLEAN
    BY DEF Begin, NightInv
  <1>7. ASSUME rtc_init
        PROVE  /\ clock_set' /\ (config'.enabled /\ InNight(config'.night, minute') => led' = 0)
    <2>1. clock_set
      BY <1>7 DEF NightInv, Clocked
    <2>2. InNight(config.night, minute) => led' = IF config.enabled THEN 0 ELSE 1
      BY <1>7 DEF Begin
    <2>q. QED
      BY <1>1, <2>1, <2>2 DEF time, InNight
  <1>8. alone'[a] => Undisturbed(a)'
    BY <1>1, <1>3, <1>4, <1>7 DEF Undisturbed, Reapplying
  <1>9. Clocked'
    BY <1>1, <1>3 DEF NightInv, Clocked, time, Actors
  <1>10. Reapplying(a)'
    BY <1>3 DEF Reapplying
  <1>q. QED
    BY <1>1, <1>4, <1>5, <1>6, <1>8, <1>9, <1>10, WithinInv DEF time

(* Every night task goes. *)
LEMMA RemoveNight ==
  ASSUME IInv, NightInv, NEW a \in Actors, RemoveNightModeTasks(a)
  PROVE  NightInv'
  <1> DEFINE N == {s \in listed : IsNight(s)}
  <1>1. /\ GoesOn(a, "remove", "enabled?", 0)
        /\ slots' = [s \in Slots |-> IF s \in N THEN Blank ELSE slots[s]]
        /\ listed' = listed \ N
        /\ UNCHANGED <<config, led, time, running, manual>> /\ AppContextUpdate
    BY DEF RemoveNightModeTasks
  <1>2. /\ running /\ pc[a] = "remove" /\ pc'[a] = "enabled?"
        /\ \A b \in Actors \ {a} : pc'[b] = pc[b]
    BY <1>1, GoesOnMoves, SlotZero DEF IInv, Points
  <1>3. /\ alone' \in [Actors -> BOOLEAN] /\ (\A b \in Actors \ {a} : ~alone'[b])
        /\ (alone'[a] <=> alone[a]) /\ clean' = clean /\ made_up' = made_up
        /\ my'[a].night = my[a].night /\ my'[a].made_up = my[a].made_up
    BY <1>1, GoesOnAlone, SlotZero DEF Points
  <1>4. NightSlots \subseteq N
    BY <1>2 DEF NightInv, NightKept, NightSlots
  <1>5. NightSlots' = {} /\ Foreign' = {}
    <2> SUFFICES ASSUME NEW s \in Slots PROVE slots'[s].kind \notin {"night", "converted"}
      BY DEF NightSlots, IsNight, Foreign
    <2>1. slots'[s] = IF s \in N THEN Blank ELSE slots[s]
      BY <1>1
    <2>2. s \notin N => slots[s].kind \notin {"night", "converted"}
      BY <1>4 DEF NightSlots, IsNight
    <2>q. QED
      BY <2>1, <2>2 DEF Blank
  <1>6. NightKept'
    <2>1. ASSUME NEW s \in Slots, slots'[s].kind # "client" PROVE slots'[s].on_use
      <3>1. slots'[s] = IF s \in N THEN Blank ELSE slots[s]
        BY <1>1
      <3>2. slots'[s] = slots[s]
        BY <2>1, <3>1 DEF Blank
      <3>q. QED
        BY <2>1, <3>2 DEF NightInv, NightKept
    <2>q. QED
      BY <1>1, <1>5, <2>1, SavedKept
  <1>7. alone'[a] => Undisturbed(a)'
    BY <1>1, <1>2, <1>3, <1>5 DEF NightInv, Alone, Undisturbed, Reapplying, time, AllDone, InNight
  <1>8. Clocked'
    BY <1>1, <1>2 DEF NightInv, Clocked, time, Actors
  <1>q. QED
    BY <1>1, <1>2, <1>3, <1>6, <1>7, <1>8, WithinInv DEF time, NightInv, Reapplying

(* A step that looks, or claims a slot.                                      *)
LEMMA LookNight ==
  ASSUME IInv, NightInv, NEW a \in Actors, NEW from, NEW to \in Points, NEW slot \in Slots,
         GoesOn(a, from, to, slot), to \notin {"idle", "sync", "synced"},
         \A s \in Slots : /\ slots'[s].kind = slots[s].kind /\ slots'[s].at = slots[s].at
                          /\ slots'[s].on = slots[s].on
                          /\ slots[s].on_use => slots'[s].on_use,
         UNCHANGED <<listed, config, led, flash, time, due, running, manual>>,
         alone[a] => Undisturbed(a)'
  PROVE  NightInv'
  <1>1. /\ pc[a] = from /\ pc'[a] = to /\ \A b \in Actors \ {a} : pc'[b] = pc[b]
    BY GoesOnMoves DEF IInv
  <1>2. /\ alone' \in [Actors -> BOOLEAN] /\ (\A b \in Actors \ {a} : ~alone'[b])
        /\ (alone'[a] <=> alone[a]) /\ clean' = clean /\ made_up' = made_up
    BY GoesOnAlone
  <1>3. NightKept'
    BY UnsavedKept DEF NightInv
  <1>4. Clocked'
    BY <1>1 DEF NightInv, Clocked, time, Actors
  <1>q. QED
    BY <1>1, <1>2, <1>3, <1>4, WithinInv DEF time, NightInv, Reapplying

(* The setting is looked at. *)
LEMMA IsEnabledNight ==
  ASSUME IInv, NightInv, NEW a \in Actors, IsEnabled(a)
  PROVE  NightInv'
  <1>1. UNCHANGED <<slots, listed, config, led, flash, time, due, running, manual>>
    BY DEF IsEnabled
  <1>2. NightKept' /\ NightSlots' = NightSlots /\ Foreign' = Foreign
    BY <1>1, UnsavedKept DEF NightInv
  <1>3. CASE config.enabled
    <2>1. GoesOn(a, "enabled?", "find1", 0)
      BY <1>3 DEF IsEnabled
    <2>2. /\ pc[a] = "enabled?" /\ pc'[a] = "find1" /\ \A b \in Actors \ {a} : pc'[b] = pc[b]
      BY <2>1, GoesOnMoves, SlotZero DEF IInv, Points
    <2>3. my'[a].night = my[a].night /\ my'[a].made_up = my[a].made_up
      BY <2>1, GoesOnAlone, SlotZero DEF Points
    <2>4. alone[a] => Undisturbed(a)'
      BY <1>1, <1>2, <1>3, <2>2, <2>3
      DEF NightInv, Alone, Undisturbed, Reapplying, time, AllDone, InNight
    <2>q. QED
      BY <1>1, <2>1, <2>4, SlotZero, LookNight DEF Points
  <1>4. CASE ~config.enabled
    <2>1. GoesOn(a, "enabled?", "idle", 0)
      BY <1>4 DEF IsEnabled
    <2>2. pc[a] = "enabled?" /\ pc'[a] = "idle" /\ \A b \in Actors \ {a} : pc'[b] = pc[b]
      BY <2>1, GoesOnMoves, SlotZero DEF IInv, Points
    <2>3. Clocked'
      BY <1>1, <2>2 DEF NightInv, Clocked, time, Actors
    <2>4. ASSUME alone[a]
          PROVE  Agree' /\ Dark' /\ (my[a].made_up => clock_set)
      <3>1. NightSlots' = {} /\ Foreign' = {} /\ (my[a].made_up => clock_set)
        BY <1>2, <2>2, <2>4 DEF NightInv, Alone, Undisturbed
      <3>2. OwnSlots' = {}
        BY <3>1 DEF NightSlots, OwnSlots, IsNight
      <3>q. QED
        BY <3>1, <3>2 DEF Agree, Dark, BothThere
    <2>q. QED
      BY <1>1, <1>2, <2>1, <2>3, <2>4, SlotZero, EndInv DEF NightInv, time
  <1>q. QED
    BY <1>3, <1>4

(* A free slot is searched for; who finds none goes on without a task.       *)
LEMMA FindNight ==
  ASSUME IInv, NightInv, NEW a \in Actors,
         Find(a, "find1", "claim1", "find2") \/ Find(a, "find2", "claim2", "idle")
  PROVE  NightInv'
  <1>1. UNCHANGED <<slots, listed, config, led, flash, time, due, running, manual>>
    BY DEF Find
  <1>2. NightKept' /\ NightSlots' = NightSlots /\ Foreign' = Foreign
    BY <1>1, UnsavedKept DEF NightInv
  <1>3. \A s \in FreeSlots : s \in Slots /\ ~IsNight(s)
    BY DEF FreeSlots, NightInv, NightKept, IsNight
  <1>4. ASSUME NEW from \in {"find1", "find2"}, NEW to \in {"claim1", "find2", "claim2"},
               NEW slot \in Slots, GoesOn(a, from, to, slot),
               \/ from = "find1" /\ to = "claim1" /\ ~IsNight(slot)
               \/ from = "find1" /\ to = "find2"
               \/ from = "find2" /\ to = "claim2" /\ ~IsNight(slot)
        PROVE  NightInv'
    <2>1. /\ to \in Points /\ to \notin {"idle", "sync", "synced"}
      BY DEF Points
    <2>2. /\ pc[a] = from /\ pc'[a] = to /\ \A b \in Actors \ {a} : pc'[b] = pc[b]
      BY <1>4, <2>1, GoesOnMoves DEF IInv
    <2>3. /\ my'[a].night = my[a].night /\ my'[a].made_up = my[a].made_up
          /\ my'[a].slot = slot
      BY <1>4, <2>1, GoesOnAlone
    <2>4. ~IsNight(slot) => ~IsNight(my[a].slot)'
      BY <1>1, <2>3 DEF IsNight
    <2>5. alone[a] => Undisturbed(a)'
      <3> SUFFICES ASSUME alone[a], Undisturbed(a) PROVE Undisturbed(a)'
        BY DEF NightInv, Alone
      <3>q. QED
        BY <1>1, <1>2, <1>4, <2>2, <2>3, <2>4
        DEF Undisturbed, Reapplying, time, AllDone, InNight
    <2>q. QED
      BY <1>1, <1>4, <2>1, <2>5, LookNight
  <1>5. CASE FreeSlots # {}
    <2>1. FirstFree \in Slots /\ ~IsNight(FirstFree)
      BY <1>3, <1>5, FirstFreeIsFree
    <2>2. \/ GoesOn(a, "find1", "claim1", FirstFree)
          \/ GoesOn(a, "find2", "claim2", FirstFree)
      BY <1>5 DEF Find
    <2>q. QED
      BY <1>4, <2>1, <2>2
  <1>6. CASE GoesOn(a, "find1", "find2", 0)
    BY <1>4, <1>6, SlotZero
  <1>7. CASE GoesOn(a, "find2", "idle", 0)
    <2>1. pc[a] = "find2" /\ pc'[a] = "idle" /\ \A b \in Actors \ {a} : pc'[b] = pc[b]
      BY <1>7, GoesOnMoves, SlotZero DEF IInv, Points
    <2>2. Clocked'
      BY <1>1, <2>1 DEF NightInv, Clocked, time, Actors
    <2>3. ASSUME alone[a]
          PROVE  Agree' /\ (my[a].made_up => clock_set /\ Dark')
      <3>1. Undisturbed(a)
        BY <2>3 DEF NightInv, Alone
      <3>2. /\ config.enabled
            /\ \A s \in NightSlots : slots[s].at = config.night.start /\ slots[s].on = 0
            /\ \A s, u \in NightSlots : s = u
            /\ my[a].made_up => clock_set /\ AllDone
            /\ Foreign = {}
        BY <2>1, <3>1 DEF Undisturbed
      <3>3. Agree' /\ ~BothThere'
        <4>1. OwnSlots \subseteq NightSlots /\ OwnSlots' = OwnSlots
          BY <1>1 DEF OwnSlots, NightSlots, IsNight
        <4>q. QED
          BY <1>1, <1>2, <3>2, <4>1 DEF Agree, BothThere
      <3>4. my[a].made_up => clock_set /\ Dark'
        BY <1>1, <1>2, <3>2, <3>3 DEF Dark, AllDone
      <3>q. QED
        BY <3>3, <3>4
    <2>q. QED
      BY <1>1, <1>2, <1>7, <2>2, <2>3, SlotZero, EndInv DEF NightInv, time
  <1>q. QED
    BY <1>5, <1>6, <1>7 DEF Find

(* A claim changes no task. *)
LEMMA ClaimNight ==
  ASSUME IInv, NightInv, NEW a \in Actors,
         Claim(a, "claim1", "hook1") \/ Claim(a, "claim2", "hook2")
  PROVE  NightInv'
  <1>1. UNCHANGED <<listed, config, led, flash, time, due, running, manual>>
    BY DEF Claim
  <1>2. \A s \in Slots : /\ slots'[s].kind = slots[s].kind /\ slots'[s].at = slots[s].at
                         /\ slots'[s].on = slots[s].on
                         /\ slots[s].on_use => slots'[s].on_use
    <2>1. slots' = [slots EXCEPT ![my[a].slot].on_use = TRUE]
      BY DEF Claim
    <2>2. \A s \in Slots : slots[s] \in Task
      BY DEF IInv, SlotsTyped
    <2>3. slots' = [slots EXCEPT ![my[a].slot] = [slots[my[a].slot] EXCEPT !.on_use = TRUE]]
      BY <2>1
    <2>4. \A t \in Task : LET new == [t EXCEPT !.on_use = TRUE]
                          IN  /\ new.kind = t.kind /\ new.at = t.at /\ new.on = t.on
                              /\ new.on_use
      BY DEF Task
    <2>q. QED
      BY <2>2, <2>3, <2>4 DEF IInv, SlotsTyped
  <1>3. NightSlots' = NightSlots /\ Foreign' = Foreign
    BY <1>1, <1>2, UnsavedKept DEF NightInv
  <1>4. ASSUME NEW from \in {"claim1", "claim2"}, NEW to \in {"hook1", "hook2"},
               GoesOn(a, from, to, my[a].slot),
               from = "claim1" <=> to = "hook1"
        PROVE  NightInv'
    <2>1. to \in Points /\ to \notin {"idle", "sync", "synced"} /\ my[a].slot \in Slots
      BY DEF Points, IInv, SlotsTyped
    <2>2. /\ pc[a] = from /\ pc'[a] = to /\ \A b \in Actors \ {a} : pc'[b] = pc[b]
      BY <1>4, <2>1, GoesOnMoves DEF IInv
    <2>3. /\ my'[a].night = my[a].night /\ my'[a].made_up = my[a].made_up
          /\ my'[a].slot = my[a].slot
      BY <1>4, <2>1, GoesOnAlone
    <2>4. IsNight(my[a].slot)' <=> IsNight(my[a].slot)
      BY <1>2, <2>1, <2>3 DEF IsNight
    <2>5. alone[a] => Undisturbed(a)'
      <3> SUFFICES ASSUME alone[a], Undisturbed(a) PROVE Undisturbed(a)'
        BY DEF NightInv, Alone
      <3>1. \A s \in NightSlots : s \in Slots
        BY DEF NightSlots
      <3>q. QED
        BY <1>1, <1>2, <1>3, <1>4, <2>2, <2>3, <2>4, <3>1
        DEF Undisturbed, Reapplying, time, AllDone, InNight
    <2>q. QED
      BY <1>1, <1>2, <1>4, <2>1, <2>5, LookNight
  <1>q. QED
    BY <1>4 DEF Claim

(* A night task comes into the list and into the flash. *)
LEMMA Hooked ==
  ASSUME IInv, NightInv, NEW a \in Actors, NEW from, NEW to, NEW at \in Minutes,
         NEW on \in {0, 1}, Hook(a, from, to, at, on)
  PROVE  /\ NightKept'
         /\ NightSlots' = NightSlots \cup {my[a].slot}
         /\ OwnSlots' = OwnSlots \cup {my[a].slot}
         /\ Foreign' = Foreign \ {my[a].slot}
         /\ slots'[my[a].slot].at = at /\ slots'[my[a].slot].on = on
         /\ \A s \in Slots \ {my[a].slot} : slots'[s] = slots[s]
  <1> DEFINE mine == my[a].slot
             task == [on_use |-> TRUE, kind |-> "night", at |-> at, on |-> on,
                      dated |-> clock_set]
  <1>1. slots' = [slots EXCEPT ![mine] = task] /\ listed' = listed \cup {mine}
        /\ UNCHANGED running /\ AppContextUpdate
    BY DEF Hook
  <1>2. slots \in [Slots -> Task] /\ mine \in Slots
    BY DEF IInv, SlotsTyped
  <1>3. task.on_use /\ task.kind = "night" /\ task.at = at /\ task.on = on
    OBVIOUS
  <1> HIDE DEF mine, task
  <1>4. slots'[mine] = task /\ \A s \in Slots \ {mine} : slots'[s] = slots[s]
    BY <1>1, <1>2
  <1>5. /\ NightSlots' = NightSlots \cup {mine} /\ OwnSlots' = OwnSlots \cup {mine}
        /\ Foreign' = Foreign \ {mine}
    BY <1>2, <1>3, <1>4 DEF NightSlots, OwnSlots, Foreign, IsNight
  <1>6. NightKept'
    <2>1. \A s \in Slots : slots'[s].kind # "client" => slots'[s].on_use
      BY <1>3, <1>4 DEF NightInv, NightKept
    <2>2. running' => NightSlots' \subseteq listed'
      BY <1>1, <1>5 DEF NightInv, NightKept
    <2>q. QED
      BY <1>1, <2>1, <2>2, SavedKept
  <1>q. QED
    BY <1>3, <1>4, <1>5, <1>6 DEF mine

(* The start task, then the end task.                                        *)
LEMMA HookNight ==
  ASSUME IInv, NightInv, NEW a \in Actors,
         \/ Hook(a, "hook1", "find2", my[a].night.start, 0)
         \/ Hook(a, "hook2", "idle", my[a].night.end, 1)
  PROVE  NightInv'
  <1> DEFINE mine == my[a].slot
  <1>1. UNCHANGED <<config, led, time, running, manual>>
        /\ due' = IF clock_set THEN due \ {mine} ELSE due \cup {mine}
    BY DEF Hook
  <1>2. my[a].night.start \in Minutes /\ my[a].night.end \in Minutes /\ mine \in Slots
    BY DEF IInv, SlotsTyped, Night
  <1>3. alone[a] => Undisturbed(a)
    BY DEF NightInv, Alone
  <1>4. \A s \in NightSlots : s \in Slots
    BY DEF NightSlots
  <1>5. CASE Hook(a, "hook1", "find2", my[a].night.start, 0)
    <2>1. GoesOn(a, "hook1", "find2", 0)
      BY <1>5 DEF Hook
    <2>2. pc[a] = "hook1" /\ pc'[a] = "find2" /\ \A b \in Actors \ {a} : pc'[b] = pc[b]
      BY <2>1, GoesOnMoves, SlotZero DEF IInv, Points
    <2>3. /\ alone' \in [Actors -> BOOLEAN] /\ (\A b \in Actors \ {a} : ~alone'[b])
          /\ (alone'[a] <=> alone[a]) /\ clean' = clean /\ made_up' = made_up
          /\ my'[a].night = my[a].night /\ my'[a].made_up = my[a].made_up
      BY <2>1, GoesOnAlone, SlotZero DEF Points
    <2>4. /\ NightKept' /\ NightSlots' = NightSlots \cup {mine} /\ Foreign' = Foreign \ {mine}
          /\ slots'[mine].at = my[a].night.start /\ slots'[mine].on = 0
      BY <1>2, <1>5, Hooked
    <2>5. Clocked'
      BY <1>1, <2>2 DEF NightInv, Clocked, time, Actors
    <2>6. ASSUME alone[a]
          PROVE  Undisturbed(a)'
      <3>1. NightSlots' = {mine} /\ my[a].night = config.night /\ Foreign' = {}
        BY <1>3, <2>2, <2>4, <2>6 DEF Undisturbed
      <3>2. my[a].made_up => AllDone'
        BY <1>1, <1>3, <2>6, <3>1 DEF Undisturbed, AllDone
      <3>q. QED
        BY <1>1, <1>3, <2>2, <2>3, <2>4, <2>6, <3>1, <3>2
        DEF Undisturbed, Reapplying, time, InNight
    <2>q. QED
      BY <1>1, <2>2, <2>3, <2>4, <2>5, <2>6, WithinInv DEF time, NightInv, Reapplying
  <1>6. CASE Hook(a, "hook2", "idle", my[a].night.end, 1)
    <2>1. GoesOn(a, "hook2", "idle", 0)
      BY <1>6 DEF Hook
    <2>2. pc[a] = "hook2" /\ pc'[a] = "idle" /\ \A b \in Actors \ {a} : pc'[b] = pc[b]
      BY <2>1, GoesOnMoves, SlotZero DEF IInv, Points
    <2>3. /\ NightKept' /\ NightSlots' = NightSlots \cup {mine}
          /\ OwnSlots' = OwnSlots \cup {mine} /\ Foreign' = Foreign \ {mine}
          /\ slots'[mine].at = my[a].night.end /\ slots'[mine].on = 1
          /\ \A s \in Slots \ {mine} : slots'[s] = slots[s]
      BY <1>2, <1>6, Hooked
    <2>4. Clocked'
      BY <1>1, <2>2 DEF NightInv, Clocked, time, Actors
    <2>5. ASSUME alone[a]
          PROVE  Agree' /\ (my[a].made_up => clock_set /\ Dark')
      <3>1. /\ config.enabled /\ my[a].night = config.night
            /\ \A s \in NightSlots : slots[s].at = config.night.start /\ slots[s].on = 0
            /\ \A s, u \in NightSlots : s = u
            /\ ~IsNight(mine) /\ Foreign = {}
            /\ my[a].made_up =>
                 /\ clock_set /\ AllDone
                 /\ config.enabled /\ InNight(config.night, minute) => led = 0
        BY <1>3, <2>2, <2>5 DEF Undisturbed
      <3>2. \A s \in NightSlots : s # mine /\ slots'[s] = slots[s]
        BY <1>4, <2>3, <3>1 DEF NightSlots
      <3>3. Agree'
        <4>1. OwnSlots = NightSlots
          BY <3>1, OwnAndForeign
        <4>q. QED
          BY <1>1, <2>3, <3>1, <3>2, <4>1 DEF Agree
      <3>4. ASSUME my[a].made_up PROVE clock_set /\ Dark'
        <4>1. due' \cap NightSlots' = {}
          BY <1>1, <2>3, <3>1, <3>4 DEF AllDone
        <4>q. QED
          BY <1>1, <2>3, <3>1, <3>4, <4>1 DEF Dark, time, InNight
      <3>q. QED
        BY <3>3, <3>4
    <2>q. QED
      BY <1>1, <2>1, <2>3, <2>4, <2>5, SlotZero, EndInv DEF NightInv, time
  <1>q. QED
    BY <1>5, <1>6

-----------------------------------------------------------------------------
(* The other steps again. *)

(* A setting counts as applied only when NightModeReapply has ended. *)
LEMMA SettingNight ==
  ASSUME IInv, IInv', NightInv, HttpSetNightMode
  PROVE  NightInv'
  <1>1. /\ pc["http"] = "idle" /\ pc' = [pc EXCEPT !["http"] = "begin"]
        /\ alone' = Disturbed("http") /\ clean' = FALSE /\ made_up' = FALSE
        /\ UNCHANGED <<slots, listed, time, running, manual>> /\ AppContextUpdate
    BY DEF HttpSetNightMode, Goes
  <1>2. "http" \in Actors /\ ~Reapplying("http")
    BY <1>1 DEF Actors, Reapplying
  <1>3. alone' \in [Actors -> BOOLEAN] /\ \A a \in Actors : ~alone'[a]
    <2>1. ~alone["http"]
      BY <1>2, AloneWithin
    <2>q. QED
      BY <1>1, <2>1 DEF Disturbed
  <1>4. NightKept'
    BY <1>1, SavedKept DEF NightInv, NightKept, NightSlots, IsNight
  <1>5. Clocked'
    BY <1>1 DEF NightInv, Clocked, time, IInv, SlotsTyped
  <1>q. QED
    BY <1>1, <1>3, <1>4, <1>5 DEF NightInv, Alone

(* The clock is set and synchronised; the LED is switched by a client.       *)
LEMMA RtcNight ==
  ASSUME IInv, NightInv, RtcSync \/ RtcInit \/ RtcResync
  PROVE  NightInv'
  <1>1. /\ running /\ pc["rtc"] \in {"sync", "synced", "idle"}
        /\ alone' = Disturbed("rtc")
        /\ UNCHANGED <<slots, listed, config, led, flash, minute, due, running, clean, made_up,
                       manual>>
    BY DEF RtcSync, RtcInit, RtcResync, Goes
  <1>2. "rtc" \in Actors /\ ~Reapplying("rtc") /\ pc \in [Actors -> Points]
    BY <1>1 DEF Actors, Reapplying, IInv, SlotsTyped
  <1>3. alone' \in [Actors -> BOOLEAN] /\ \A a \in Actors : ~alone'[a]
    <2>1. ~alone["rtc"]
      BY <1>2, AloneWithin
    <2>q. QED
      BY <1>1, <2>1 DEF Disturbed
  <1>4. NightKept' /\ AsBefore /\ NightSlots' = NightSlots /\ Foreign' = Foreign
    BY <1>1, UnsavedKept DEF NightInv
  <1>5. Clocked' /\ (clock_set => clock_set') /\ (Resting' => Resting)
    <2>1. CASE RtcSync
      <3>1. pc' = [pc EXCEPT !["rtc"] = "synced"] /\ clock_set' = TRUE
        BY <2>1 DEF RtcSync, Goes
      <3>q. QED
        BY <1>1, <1>2, <3>1 DEF Clocked, Resting, Reapplying
    <2>2. CASE RtcInit
      <3>1. /\ pc["rtc"] = "synced" /\ clock_set' = clock_set
            /\ pc' = [pc EXCEPT !["rtc"] = IF config.enabled THEN "begin" ELSE "idle"]
        BY <2>2 DEF RtcInit, Goes
      <3>2. pc'["rtc"] # "synced" /\ \A a \in Actors \ {"rtc"} : pc'[a] = pc[a]
        BY <1>2, <3>1
      <3>3. clock_set
        BY <3>1 DEF NightInv, Clocked
      <3>q. QED
        BY <1>1, <1>2, <3>1, <3>2, <3>3 DEF Clocked, Resting, Reapplying
    <2>3. CASE RtcResync
      <3>1. pc' = pc /\ clock_set /\ clock_set' = clock_set
        BY <2>3 DEF RtcResync
      <3>q. QED
        BY <1>1, <3>1 DEF Clocked, Resting, Reapplying
    <2>q. QED
      BY <2>1, <2>2, <2>3
  <1>6. made_up /\ Resting => Dark'
    BY <1>1, <1>4 DEF NightInv, Dark, BothThere, AllDone, InNight
  <1>q. QED
    BY <1>1, <1>3, <1>4, <1>5, <1>6, OtherInv DEF NightInv

(* A client switches the LED. *)
LEMMA LedNight ==
  ASSUME IInv, NightInv, LedSetEnabled
  PROVE  NightInv'
  <1>1. /\ running /\ manual' = TRUE /\ alone' = Disturbed("client")
        /\ UNCHANGED <<slots, listed, config, time, due, running, pc, clean, made_up>>
        /\ AppContextUpdate
    BY DEF LedSetEnabled
  <1>2. alone' \in [Actors -> BOOLEAN] /\ \A a \in Actors : ~alone'[a]
    BY <1>1 DEF Disturbed, Actors, NightInv
  <1>3. NightSlots' = NightSlots /\ AsBefore /\ Foreign' = Foreign
    BY <1>1 DEF NightSlots, IsNight, AsBefore, Foreign
  <1>4. NightKept'
    BY <1>1, <1>3, SavedKept DEF NightInv, NightKept
  <1>5. Clocked' /\ (Resting' <=> Resting)
    BY <1>1 DEF NightInv, Clocked, Resting, Reapplying, time
  <1>6. made_up /\ Resting => Dark'
    BY <1>1, <1>3 DEF NightInv, Dark, time
  <1>q. QED
    BY <1>1, <1>2, <1>3, <1>4, <1>5, <1>6, OtherInv DEF time

(* The web page adds a task, which is not one of the night. *)
LEMMA AddNight ==
  ASSUME IInv, NightInv, HttpAddTask
  PROVE  NightInv'
  <1> DEFINE f == FirstFree
  <1>1. /\ running /\ pc["http"] = "idle" /\ FreeSlots # {}
        /\ listed' = listed \cup {f} /\ alone' = Disturbed("http")
        /\ UNCHANGED <<config, led, time, due, running, pc, clean, made_up, manual>>
        /\ AppContextUpdate
    BY DEF HttpAddTask
  <1>2. alone' \in [Actors -> BOOLEAN] /\ \A a \in Actors : ~alone'[a]
    <2>1. ~alone["http"] /\ "http" \in Actors
      BY <1>1, AloneWithin DEF Actors, Reapplying
    <2>q. QED
      BY <1>1, <2>1 DEF Disturbed
  <1>3. f \in Slots /\ ~slots[f].on_use /\ slots \in [Slots -> Task]
    BY <1>1, FirstFreeIsFree DEF FreeSlots, IInv, SlotsTyped
  <1>4. PICK task \in Task :
          /\ task.on_use /\ task.kind \in {"client", "wednesday"}
          /\ slots' = [slots EXCEPT ![f] = task]
    BY AddsTask
  <1> HIDE DEF f
  <1>5. slots'[f] = task /\ \A s \in Slots \ {f} : slots'[s] = slots[s]
    BY <1>3, <1>4
  <1>6. f \notin NightSlots
    BY <1>3 DEF NightInv, NightKept, NightSlots, IsNight
  <1>7. NightSlots' = NightSlots
    BY <1>4, <1>5, <1>6 DEF NightSlots, IsNight
  <1>8. AsBefore /\ \A s \in NightSlots : slots'[s] = slots[s]
    BY <1>1, <1>5, <1>6, <1>7 DEF AsBefore, NightSlots
  <1>9. NightKept'
    <2>1. \A s \in Slots : slots'[s].kind # "client" => slots'[s].on_use
      BY <1>4, <1>5 DEF NightInv, NightKept
    <2>q. QED
      BY <1>1, <1>7, <2>1, SavedKept DEF NightInv, NightKept
  <1>10. Clocked' /\ (Resting' <=> Resting)
    BY <1>1 DEF NightInv, Clocked, Resting, Reapplying, time
  <1>11. made_up /\ Resting => Dark'
    <2>1. Foreign' \subseteq Foreign
      BY <1>8, AgreeKeeps
    <2>q. QED
      BY <1>1, <1>7, <1>8, <2>1 DEF NightInv, Dark, BothThere, AllDone, InNight, time
  <1>q. QED
    BY <1>1, <1>2, <1>8, <1>9, <1>10, <1>11, OtherInv DEF time, NightInv

(* The web page deletes a task: of the two of the night both are there only  *)
(* if it is another one.                                                     *)
LEMMA DelNight ==
  ASSUME IInv, NightInv, HttpDelTask
  PROVE  NightInv'
  <1>1. PICK d \in listed : /\ slots' = [slots EXCEPT ![d] = Blank]
                            /\ listed' = listed \ {d} /\ due' = due \ {d}
    BY DEF HttpDelTask
  <1>2. /\ running /\ pc["http"] = "idle" /\ alone' = Disturbed("http")
        /\ UNCHANGED <<config, led, time, running, pc, clean, made_up, manual>>
        /\ AppContextUpdate
    BY DEF HttpDelTask
  <1>3. alone' \in [Actors -> BOOLEAN] /\ \A a \in Actors : ~alone'[a]
    <2>1. ~alone["http"] /\ "http" \in Actors
      BY <1>2, AloneWithin DEF Actors, Reapplying
    <2>q. QED
      BY <1>2, <2>1 DEF Disturbed
  <1>4. d \in Slots /\ slots \in [Slots -> Task]
    BY DEF IInv, SlotsTyped
  <1>5. slots'[d] = Blank /\ \A s \in Slots \ {d} : slots'[s] = slots[s]
    BY <1>1, <1>4
  <1>6. NightSlots' = NightSlots \ {d}
    BY <1>5 DEF NightSlots, IsNight, Blank
  <1>7. AsBefore /\ \A s \in NightSlots' : slots'[s] = slots[s]
    BY <1>2, <1>5, <1>6 DEF AsBefore, NightSlots
  <1>8. NightKept'
    <2>1. \A s \in Slots : slots'[s].kind # "client" => slots'[s].on_use
      BY <1>5 DEF NightInv, NightKept, Blank
    <2>q. QED
      BY <1>1, <1>2, <1>6, <2>1, SavedKept DEF NightInv, NightKept
  <1>9. Clocked' /\ (Resting' <=> Resting)
    BY <1>2 DEF NightInv, Clocked, Resting, Reapplying, time
  <1>10. ASSUME made_up, Resting PROVE Dark'
    <2>1. Dark /\ Agree
      BY <1>10 DEF NightInv
    <2>2. ASSUME BothThere', AllDone'
          PROVE  AllDone
      <3>1. PICK s, u \in NightSlots' : slots'[s].on = 0 /\ slots'[u].on = 1
        BY <2>2 DEF BothThere
      <3>2. /\ s # d /\ u # d /\ slots[s].on = 0 /\ slots[u].on = 1
            /\ s \in NightSlots /\ u \in NightSlots
        BY <1>6, <1>7, <3>1
      <3>3. d \notin NightSlots
        <4>1. NightSlots = OwnSlots
          BY <2>1, OwnAndForeign DEF Dark
        <4>q. QED
          BY <2>1, <3>2, <4>1 DEF Agree
      <3>q. QED
        BY <1>1, <1>6, <2>2, <3>3 DEF AllDone
    <2>3. (BothThere' => BothThere) /\ Foreign' \subseteq Foreign
      BY <1>7, AgreeKeeps
    <2>q. QED
      BY <1>1, <1>2, <1>6, <1>7, <2>1, <2>2, <2>3 DEF Dark, InNight, time
  <1>q. QED
    BY <1>2, <1>3, <1>7, <1>8, <1>9, <1>10, OtherInv DEF time, NightInv

(* A due task is executed: with the clock set it is one whose minute it is,  *)
(* and the end of the night is not within it.                                *)
LEMMA ProcessNight ==
  ASSUME IInv, NightInv, NEW s \in Slots, ProcessNightTask(s)
  PROVE  NightInv'
  <1>1. /\ running /\ s \in listed /\ IsNight(s)
        /\ IF clock_set THEN s \in due ELSE ~slots[s].dated
        /\ led' = slots[s].on
        /\ slots' = [slots EXCEPT ![s].dated = clock_set]
        /\ due' = IF clock_set THEN due \ {s} ELSE due
        /\ manual' = FALSE /\ alone' = Disturbed("main")
        /\ UNCHANGED <<listed, config, time, running, pc, clean, made_up>> /\ AppContextUpdate
    BY DEF ProcessNightTask
  <1>2. alone' \in [Actors -> BOOLEAN] /\ \A a \in Actors : ~alone'[a]
    BY <1>1 DEF Disturbed, Actors, NightInv
  <1>3. \A r \in Slots : /\ slots'[r].kind = slots[r].kind /\ slots'[r].at = slots[r].at
                         /\ slots'[r].on = slots[r].on /\ slots'[r].on_use = slots[r].on_use
    <2>1. slots \in [Slots -> Task] /\ clock_set \in BOOLEAN
      BY DEF IInv, SlotsTyped
    <2>2. slots' = [slots EXCEPT ![s] = [slots[s] EXCEPT !.dated = clock_set]]
      BY <1>1
    <2>3. \A t \in Task : LET new == [t EXCEPT !.dated = clock_set]
                          IN  /\ new.kind = t.kind /\ new.at = t.at /\ new.on = t.on
                              /\ new.on_use = t.on_use
      BY DEF Task
    <2>q. QED
      BY <2>1, <2>2, <2>3
  <1>4. NightSlots' = NightSlots
    BY <1>3 DEF NightSlots, IsNight
  <1>5. AsBefore /\ \A r \in NightSlots : r \in Slots
    BY <1>1, <1>3, <1>4 DEF AsBefore, NightSlots
  <1>6. NightKept'
    <2>1. \A r \in Slots : slots'[r].kind # "client" => slots'[r].on_use
      BY <1>3 DEF NightInv, NightKept
    <2>q. QED
      BY <1>1, <1>4, <2>1, SavedKept DEF NightInv, NightKept
  <1>7. Clocked' /\ (Resting' <=> Resting)
    BY <1>1 DEF NightInv, Clocked, Resting, Reapplying, time
  <1>8. ASSUME made_up, Resting PROVE Dark'
    <2>1. Dark /\ Agree /\ clock_set
      BY <1>8 DEF NightInv
    <2>2. s \in NightSlots /\ s \in OwnSlots /\ s \in due /\ slots[s].at = minute
      BY <1>1, <2>1, OwnAndForeign DEF NightSlots, Dark
    <2>3. InNight(config.night, minute) => slots[s].on = 0
      <3>1. CASE slots[s].at = config.night.end
        <4>1. config.night.start \in Int /\ config.night.end \in Int
          BY DEF IInv, SlotsTyped, Night, Minutes
        <4>q. QED
          BY <2>2, <3>1, <4>1 DEF InNight
      <3>q. QED
        BY <2>1, <2>2, <3>1 DEF Agree
    <2>4. Foreign' \subseteq Foreign
      BY <1>5, AgreeKeeps
    <2>q. QED
      BY <1>1, <1>3, <1>4, <1>5, <2>1, <2>3, <2>4 DEF Dark, InNight, time
  <1>q. QED
    BY <1>1, <1>2, <1>5, <1>6, <1>7, <1>8, OtherInv DEF time

(* Night falls, or ends, only with a task that is due. *)
LEMMA TickNight ==
  ASSUME IInv, IInv', NightInv, Tick
  PROVE  NightInv'
  <1>1. /\ ~(running /\ clock_set /\ due \cap listed # {})
        /\ minute' = (minute + 1) % MINUTES
        /\ alone' = Disturbed("time")
        /\ UNCHANGED <<slots, listed, config, led, flash, clock_set, rtc_init, running, pc,
                       clean, made_up, manual>>
    BY DEF Tick
  <1>d. LET N == {s \in Slots : slots[s].on_use /\ IsNight(s) /\ slots[s].at = minute'}
        IN  /\ due' \subseteq due \cup N
            /\ {s \in N : slots[s].kind # "converted"} \subseteq due'
    BY DEF Tick
  <1>2. alone' \in [Actors -> BOOLEAN] /\ \A a \in Actors : ~alone'[a]
    BY <1>1 DEF Disturbed, Actors, NightInv
  <1>3. NightKept' /\ AsBefore /\ NightSlots' = NightSlots /\ Foreign' = Foreign
    BY <1>1, UnsavedKept DEF NightInv
  <1>4. Clocked' /\ (Resting' <=> Resting)
    BY <1>1 DEF NightInv, Clocked, Resting, Reapplying
  <1>5. ASSUME made_up, Resting PROVE Dark'
    <2>1. Dark /\ Agree /\ clock_set /\ running
      BY <1>5 DEF NightInv
    <2>2. due \cap NightSlots = {}
      BY <1>1, <2>1 DEF NightInv, NightKept
    <2>3. \A s \in due' \cap NightSlots' : slots'[s].at = minute'
      BY <1>1, <1>d, <1>3, <2>2
    <2>4. ASSUME ~manual', BothThere', AllDone', InNight(config'.night, minute')
          PROVE  led' = 0
      <3>1. BothThere
        BY <1>3, <2>4, AgreeKeeps
      <3>2. PICK s \in NightSlots : slots[s].on = 0
        BY <3>1 DEF BothThere
      <3>3. s \in OwnSlots /\ slots[s].at = config.night.start
        BY <2>1, <3>2, OwnAndForeign DEF Agree, Dark
      <3>4. minute' # config.night.start
        <4>1. slots[s].on_use /\ IsNight(s) /\ slots[s].kind # "converted" /\ s \in Slots
          BY <3>2, <3>3 DEF NightSlots, OwnSlots, NightInv, NightKept
        <4>2. s \notin due'
          BY <1>3, <2>4, <3>2 DEF AllDone
        <4>q. QED
          BY <1>d, <3>3, <4>1, <4>2
      <3>5. /\ config.night.start \in Nat /\ config.night.end \in Nat
            /\ config.night.start < MINUTES /\ config.night.end < MINUTES
            /\ minute \in Nat /\ minute < MINUTES /\ MINUTES \in Nat
        BY NightAssumption DEF IInv, SlotsTyped, Night, Minutes
      <3>6. minute' = IF minute + 1 = MINUTES THEN 0 ELSE minute + 1
        BY <1>1, <3>5
      <3>7. InNight(config.night, minute)
        BY <1>1, <2>4, <3>4, <3>5, <3>6 DEF InNight
      <3>q. QED
        BY <1>1, <2>1, <2>2, <2>4, <3>1, <3>7 DEF Dark, AllDone
    <2>q. QED
      BY <1>3, <2>1, <2>3, <2>4 DEF Dark
  <1>q. QED
    BY <1>1, <1>2, <1>3, <1>4, <1>5, OtherInv DEF NightInv

(* What is saved is what was there; who was interrupted has applied nothing. *)
LEMMA PowerCutNight ==
  ASSUME IInv, NightInv, PowerCut
  PROVE  NightInv'
  <1>1. /\ running' = FALSE /\ listed' = {}
        /\ pc' = [a \in Actors |-> "idle"]
        /\ slots' = flash.slots /\ config' = flash.config /\ rtc_init' = FALSE
        /\ alone' = Disturbed("power") /\ clean' = (clean /\ Resting) /\ made_up' = FALSE
        /\ manual' = (manual \/ \E a \in Actors : Reapplying(a))
        /\ UNCHANGED flash
    BY DEF PowerCut, Resting
  <1>2. alone' \in [Actors -> BOOLEAN] /\ \A a \in Actors : ~alone'[a]
    BY <1>1 DEF Disturbed, Actors, NightInv
  <1>3. clean' \in BOOLEAN /\ manual' \in BOOLEAN
    BY <1>1 DEF NightInv, Resting
  <1>4. \A s \in Slots :
          /\ slots'[s] = flash.slots[s] /\ flash'.slots[s] = flash.slots[s]
          /\ slots'[s].kind # "client" => slots'[s].on_use
          /\ IsNight(s)' => /\ IsNight(s) /\ slots'[s].at = slots[s].at
                           /\ slots'[s].on = slots[s].on /\ slots'[s].kind = slots[s].kind
    BY <1>1 DEF NightInv, NightKept, IsNight
  <1>5. AsBefore /\ NightKept'
    BY <1>1, <1>4 DEF NightInv, NightKept, NightSlots, AsBefore
  <1>6. Clocked'
    BY <1>1 DEF Clocked, Actors
  <1>7. clean' => Agree'
    BY <1>1, <1>5, AgreeKeeps DEF NightInv
  <1>q. QED
    BY <1>1, <1>2, <1>3, <1>5, <1>6, <1>7 DEF NightInv, Alone

(* A start hooks in what was saved. *)
LEMMA PowerOnNight ==
  ASSUME IInv, IInv', NightInv, PowerOn
  PROVE  NightInv'
  <1>1. /\ ~running /\ running' = TRUE
        /\ listed' = {s \in Slots : slots[s].on_use}
        /\ pc' = [pc EXCEPT !["rtc"] = "sync"]
        /\ UNCHANGED <<config, flash, rtc_init, alone, clean, made_up, manual>>
    BY DEF PowerOn
  <1>2. \A s \in Slots :
          /\ slots'[s].on_use = slots[s].on_use
          /\ slots'[s].at = slots[s].at /\ slots'[s].on = slots[s].on
          /\ \/ slots'[s].kind = slots[s].kind
             \/ /\ slots[s].kind = "wednesday" /\ slots'[s].kind = "converted"
                /\ slots[s].at \in {config.night.start, config.night.end}
    BY Rebuilds DEF IInv, SlotsTyped
  <1>3. OwnSlots' = OwnSlots
    BY <1>2 DEF OwnSlots
  <1>4. \A s \in Foreign' : /\ s \in Slots
                            /\ s \in Foreign \/ slots[s].at \in {config.night.start, config.night.end}
    BY <1>2 DEF Foreign
  <1>5. NightKept'
    <2>1. \A s \in Slots :
            (IF slots[s].kind = "client" THEN flash.slots[s].kind = "client"
             ELSE /\ slots[s].on_use /\ flash.slots[s].on_use
                  /\ flash.slots[s].at = slots[s].at /\ flash.slots[s].on = slots[s].on
                  /\ \/ flash.slots[s].kind = slots[s].kind
                     \/ slots[s].kind = "converted" /\ flash.slots[s].kind = "wednesday")'
      BY <1>1, <1>2 DEF NightInv, NightKept
    <2>2. NightSlots' \subseteq listed'
      BY <1>1, <1>2, <2>1 DEF NightSlots, IsNight, NightInv, NightKept
    <2>q. QED
      BY <1>1, <2>1, <2>2 DEF NightInv, NightKept
  <1>6. ~made_up /\ ~rtc_init /\ Resting
    BY <1>1 DEF NightInv, Clocked, Resting, Reapplying, IInv, NobodyWhenOff
  <1>7. Clocked'
    BY <1>1, <1>6 DEF Clocked, IInv, SlotsTyped, Actors
  <1>8. alone' \in [Actors -> BOOLEAN] /\ \A a \in Actors : ~alone'[a]
    BY <1>1, AloneWithin DEF NightInv
  <1>9. clean' => Agree'
    <2>1. clean' => Agree
      BY <1>1, <1>6 DEF NightInv
    <2>2. \A s \in OwnSlots : s \in Slots
      BY DEF OwnSlots
    <2>q. QED
      BY <1>1, <1>2, <1>3, <1>4, <2>1, <2>2 DEF Agree
  <1>q. QED
    BY <1>1, <1>5, <1>6, <1>7, <1>8, <1>9 DEF NightInv, Alone

(* Every step of NightModeReapply.                                           *)
LEMMA ReapplyNight ==
  ASSUME IInv, NightInv, NEW a \in Actors, NightModeReapply(a)
  PROVE  NightInv'
  BY BeginNight, RemoveNight, IsEnabledNight, FindNight, ClaimNight, HookNight
  DEF NightModeReapply, CreateNightModeTasks

(* Every step keeps the invariant.                                           *)
LEMMA StepNight ==
  ASSUME IInv, IInv', NightInv, [Next]_vars
  PROVE  NightInv'
  <1>1. CASE Next
    BY <1>1, SettingNight, RtcNight, ReapplyNight, AddNight, DelNight, LedNight, ProcessNight,
       TickNight, PowerCutNight, PowerOnNight DEF Next
  <1>2. CASE UNCHANGED vars
    <2>1. UNCHANGED <<slots, listed, config, led, flash, minute, clock_set, rtc_init, due,
                      running, pc, my, alone, clean, made_up, manual>>
      BY <1>2 DEF vars, time
    <2>2. NightKept' /\ AsBefore /\ NightSlots' = NightSlots /\ Foreign' = Foreign
      BY <2>1, UnsavedKept DEF NightInv
    <2>3. Alone' /\ Clocked' /\ (Resting' <=> Resting)
      BY <2>1, <2>2 DEF NightInv, Alone, Undisturbed, Reapplying, IsNight, AllDone,
                  Clocked, Resting, InNight
    <2>4. (Agree => Agree') /\ (Dark => Dark')
      BY <2>1, <2>2, AgreeKeeps DEF Dark, AllDone, InNight
    <2>q. QED
      BY <2>1, <2>2, <2>3, <2>4 DEF NightInv
  <1>q. QED
    BY <1>1, <1>2

(* At first there is no night task. *)
LEMMA InitNight == Init => NightInv
  <1> SUFFICES ASSUME Init PROVE NightInv
    OBVIOUS
  <1>1. /\ slots = [s \in Slots |-> Blank] /\ listed = {}
        /\ flash = [slots |-> slots, config |-> config, led |-> led]
        /\ clock_set = FALSE /\ rtc_init = FALSE
        /\ pc = [a \in Actors |-> IF a = "rtc" THEN "sync" ELSE "idle"]
        /\ alone = [a \in Actors |-> FALSE]
        /\ clean = TRUE /\ made_up = FALSE /\ manual = FALSE
    BY DEF Init
  <1>2. NightSlots = {} /\ OwnSlots = {} /\ Foreign = {}
    BY <1>1 DEF NightSlots, OwnSlots, Foreign, IsNight, Blank
  <1>3. NightKept
    BY <1>1, <1>2 DEF NightKept, NightSlots, Blank
  <1>4. Alone /\ Clocked /\ Agree
    BY <1>1, <1>2 DEF Alone, Clocked, Agree, Actors
  <1>q. QED
    BY <1>1, <1>3, <1>4 DEF NightInv

(* Both invariants hold always. *)
LEMMA NightInvariance == Spec => [](IInv /\ NightInv)
  <1>1. Init => IInv /\ NightInv
    BY InitInv, InitNight
  <1>2. IInv /\ NightInv /\ [Next]_vars => IInv' /\ NightInv'
    BY StepInv, StepNight
  <1>q. QED
    BY <1>1, <1>2, PTL DEF Spec

(* After a NightModeReapply that nothing interfered with the night tasks that*)
(* NightModeReapply makes are those of the setting, for every number of slots*)
(* and every setting; what a boot makes of clients' tasks is at a minute of  *)
(* the setting, and there is none since the one that followed the boot.      *)
THEOREM TasksFollowSetting == Spec => []NightTasksCurrent
  <1>1. IInv /\ NightInv => NightTasksCurrent
    <2> DEFINE own == NightTasks \ ConvertedTasks
    <2> SUFFICES ASSUME IInv, NightInv, Quiet, clean PROVE
                   /\ own # {} => config.enabled
                   /\ \A s \in own :
                        <<slots[s].at, slots[s].on>>
                          \in {<<config.night.start, 0>>, <<config.night.end, 1>>}
                   /\ \A s, u \in own : slots[s].on = slots[u].on => s = u
                   /\ \A s \in ConvertedTasks :
                        slots[s].at \in {config.night.start, config.night.end}
                   /\ made_up => ConvertedTasks = {}
      BY DEF NightTasksCurrent
    <2>1. Agree /\ Resting
      BY DEF NightInv, Resting, Quiet
    <2>2. own \subseteq OwnSlots /\ ConvertedTasks \subseteq Foreign
      BY DEF NightTasks, ConvertedTasks, IsNight, OwnSlots, Foreign, IInv, SlotsTyped
    <2>3. made_up => Foreign = {}
      BY <2>1 DEF NightInv, Dark
    <2> HIDE DEF own
    <2>q. QED
      BY <2>1, <2>2, <2>3 DEF Agree
  <1>q. QED
    BY <1>1, NightInvariance, PTL

(* The LED is off throughout the night once both tasks of the setting in     *)
(* force are there, unless a client switched it on, in a day of any length.  *)
THEOREM LampIsDarkAtNight == Spec => []LampDarkAtNight
  <1>1. IInv /\ NightInv => LampDarkAtNight
    <2> SUFFICES ASSUME IInv, NightInv, Settled, InNight(config.night, minute) PROVE led = 0
      BY DEF LampDarkAtNight
    <2>1. /\ running /\ Resting /\ made_up /\ ~manual /\ Cardinality(NightTasks) = 2
          /\ due \cap listed = {}
      BY DEF Settled, Quiet, Resting
    <2>2. Agree /\ Dark /\ NightSlots \subseteq listed
      BY <2>1 DEF NightInv, NightKept
    <2>3. NightTasks = NightSlots
      BY <2>2 DEF NightTasks, NightSlots, IInv, SlotsTyped
    <2>4. PICK s, u \in NightSlots : s # u
      <3> SUFFICES ASSUME \A s, u \in NightTasks : s = u PROVE FALSE
        BY <2>3
      <3>1. CASE NightTasks = {}
        BY <2>1, <3>1, FS_EmptySet
      <3>2. CASE NightTasks # {}
        <4>1. PICK s \in NightTasks : TRUE
          BY <3>2
        <4>2. NightTasks = {s}
          BY <4>1
        <4>q. QED
          BY <2>1, <4>2, FS_Singleton
      <3>q. QED
        BY <3>1, <3>2
    <2>5. BothThere
      <3>1. NightSlots = OwnSlots
        BY <2>2, OwnAndForeign DEF Dark
      <3>q. QED
        BY <2>2, <2>4, <3>1 DEF Agree, BothThere
    <2>6. AllDone
      BY <2>1, <2>2 DEF AllDone
    <2>q. QED
      BY <2>1, <2>2, <2>5, <2>6 DEF Dark
  <1>q. QED
    BY <1>1, NightInvariance, PTL
=============================================================================
