---------------------------- MODULE MCNightMode -----------------------------
(* A day of three minutes and two settings: a night within the day and one   *)
(* across midnight. The LED task of a client is at a minute of both.         *)
EXTENDS NightMode

MCNights == {[start |-> 1, end |-> 2], [start |-> 2, end |-> 1]}
MCWednesdays == {[at |-> 1, on |-> -1]}
=============================================================================
