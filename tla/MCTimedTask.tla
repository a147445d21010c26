---------------------------- MODULE MCTimedTask ----------------------------
(***************************************************************************)
(* TimedTask with a day of three minutes and two slots. The requests cover *)
(* a one-shot task, a task of one week day, a daily reboot, a repeating    *)
(* loop with a window, a toggling loop without repetition and a rejected   *)
(* request; the old flash image holds a loop in the old encoding and a     *)
(* Wednesday LED task at the night-mode hour.                              *)
(***************************************************************************)
EXTENDS TimedTask

Plain ==
  [fields |-> 4, prs_time |-> 5, operation |-> 1, on |-> 1, days |-> {}, mark |-> FALSE,
   duration |-> 0, interval |-> 0, end |-> 0, start |-> -1, rep |-> FALSE, dow |-> {}]

OneShot     == Plain
WeeklyOff   == [Plain EXCEPT !.days = {5, 0}, !.on = 0, !.prs_time = 4]
DailyReboot == [Plain EXCEPT !.days = 0 .. 6, !.operation = 8, !.prs_time = 6]
WindowLoop  == [Plain EXCEPT !.fields = 10, !.duration = 1, !.interval = 0, !.start = 1,
                             !.end = 2, !.rep = TRUE, !.prs_time = 3]
ToggleLoop  == [Plain EXCEPT !.fields = 9, !.duration = 2, !.end = 1, !.start = 2,
                             !.on = -1, !.operation = 0, !.prs_time = 4]
Rejected    == [Plain EXCEPT !.on = 2]
Wifi        == [Plain EXCEPT !.operation = 9]
Reset       == [Plain EXCEPT !.operation = 10]
NoMask      == [Plain EXCEPT !.mark = TRUE, !.operation = 7]

MCRequests == {OneShot, WeeklyOff, DailyReboot, WindowLoop, ToggleLoop, Rejected, Wifi, Reset, NoMask}

OldImage ==
  [s \in Slots |->
     IF s = 0 THEN [FreeTask EXCEPT !.on_use = TRUE, !.prs_time = 4, !.operation = 1,
                                    !.on = 1, !.kind = "oldloop", !.duration = 0,
                                    !.interval = 1]
     ELSE [FreeTask EXCEPT !.on_use = TRUE, !.prs_time = 4, !.operation = 7,
                           !.on = 0, !.days = {3}]]

MCLegacyTasks == {OldImage}
=============================================================================
