------------------------------- MODULE Button --------------------------------
(***************************************************************************)
(* The button of the TC1 firmware. A press (falling edge) starts a timer   *)
(* of 100 ms that counts for how long the button is down and is stopped by *)
(* the first expiry that finds it up; short presses are counted until a    *)
(* second timer ends the series. KeyEventHandler gets the number of clicks *)
(* or the seconds of a long press; what it does is module Panel's.         *)
(*                                                                         *)
(* A press may begin and end between two expiries. The timer of the series *)
(* may expire at any time, which includes its 800 ms after the last click. *)
(***************************************************************************)
EXTENDS Integers

CONSTANTS
  BUTTON_LONG_PRESS_TIME,  \* expiries that make a press a long one: 10, a second
  MaxHold,                 \* bound: expiries for which a press lasts (key_time has 16 bits)
  MaxClicks                \* bound: clicks of a series

VARIABLES
  down,          \* the button is pressed
  held,          \* history: whole periods of the timer for which it was down
  running,       \* user_key_timer runs
  key_continue,  \* the button was down at the last expiry
  key_time,
  click_count,
  event          \* the last event given to KeyEventHandler

vars == <<down, held, running, key_continue, key_time, click_count, event>>

NoEvent == [num |-> 0, long |-> FALSE, held |-> 0]

Init ==
  /\ down = FALSE /\ held = 0
  /\ running = FALSE
  /\ key_continue = FALSE /\ key_time = 0
  /\ click_count = 0
  /\ event = NoEvent

(* KeyEventHandler has functions for 1 to 30 only. *)
KeyEvent(num, long) ==
  event' = IF num \in 1 .. 30 THEN [num |-> num, long |-> long, held |-> held] ELSE event

(* The falling edge: KeyFallingIrqHandler starts the timer, or starts it over. *)
Press ==
  /\ ~down
  /\ down' = TRUE /\ held' = 0
  /\ running' = TRUE
  /\ UNCHANGED <<key_continue, key_time, click_count, event>>

(* There is no interrupt on the rising edge. *)
Release ==
  /\ down
  /\ down' = FALSE
  /\ UNCHANGED <<held, running, key_continue, key_time, click_count, event>>

(* An expiry that finds the button down. The first one of a press resets the *)
(* count.                                                                    *)
CountPeriod ==
  /\ running /\ down /\ held < MaxHold
  /\ key_time' = (IF key_continue THEN key_time ELSE 0) + 1
  /\ key_continue' = TRUE
  /\ held' = held + 1
  /\ UNCHANGED <<down, running, click_count, event>>

(* An expiry that finds it up: a click, or a long press of so many seconds,  *)
(* rounded.                                                                  *)
EndPress ==
  /\ running /\ ~down
  /\ IF key_time < BUTTON_LONG_PRESS_TIME
     THEN /\ click_count < MaxClicks
          /\ click_count' = click_count + 1
          /\ UNCHANGED event
     ELSE /\ KeyEvent((key_time + BUTTON_LONG_PRESS_TIME \div 2) \div BUTTON_LONG_PRESS_TIME, TRUE)
          /\ UNCHANGED click_count
  /\ key_continue' = FALSE
  /\ running' = FALSE
  /\ UNCHANGED <<down, held, key_time>>

(* The series ends. *)
ClickEndTimeoutHandler ==
  /\ click_count > 0
  /\ KeyEvent(click_count, FALSE)
  /\ click_count' = 0
  /\ UNCHANGED <<down, held, running, key_continue, key_time>>

Next == Press \/ Release \/ CountPeriod \/ EndPress \/ ClickEndTimeoutHandler

Spec == Init /\ [][Next]_vars

(* A long press is reported only of a press during which the button was held *)
(* for a period at least: the factory setting opens the configuration        *)
(* hotspot after five seconds, and a tap must not.                           *)
LongPressWasHeld == event.long => event.held > 0
=============================================================================
