------------------------------- MODULE MCPanel -------------------------------
(* Two sockets and two threads at work at a time, in three scenarios.        *)
(* Sockets: the web page switches all, one of them to a number that is not   *)
(* known, and all off by the total switch; a key turns one off.              *)
(* Settings: the web page turns the LED off and writes a child lock that no  *)
(* char holds; a key turns the LED on and toggles the child lock, or turns a *)
(* socket off.                                                               *)
(* Automation: MQTT switches all on, a task turns the LED off, and the night *)
(* mode makes up for turning it on.                                          *)
EXTENDS Panel, TLC

Cmd(by, op, x, on) ==
  [by |-> by, op |-> op, x |-> x, on |-> on, each |-> [i \in Sockets |-> on]]
MCScenarios ==
  {{[Cmd("web", "sockets", 0, 0) EXCEPT !.each = 0 :> 1 @@ 1 :> 2], Cmd("web", "total", 0, 0),
    Cmd("key", "socket", 0, 0)},
   {Cmd("web", "led", 0, 0), Cmd("web", "lock", 0, 256), Cmd("key", "led", 0, 1),
    Cmd("key", "toggle_lock", 0, 0), Cmd("key", "socket", 0, 0)},
   {Cmd("mqtt", "total", 0, 1), Cmd("task", "led", 0, 0), Cmd("rtc", "night", 0, 1)}}
=============================================================================
