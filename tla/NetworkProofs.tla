--------------------------- MODULE NetworkProofs ----------------------------
(***************************************************************************)
(* Theorems about the Wi-Fi link and about the web server reached over it. *)
(*                                                                         *)
(* The link: the offline action is taken only when it is due, the access   *)
(* point is closed once the station is up, and a scan hands over its       *)
(* newest result; for every delay, and any number of outages, commands and *)
(* power cuts.                                                             *)
(*                                                                         *)
(* The server: no request to stop it is left behind, and the busy word has *)
(* an owner; for every number of faults, button presses and downloads.     *)
(***************************************************************************)
EXTENDS WifiLink, HttpServer, TLAPS

Reports == {"UP", "IP", "DOWN"}

(* Of the notifications on their way: one says that the station has come up; *)
(* after every loss of the link, one says that it is back; one says it       *)
(* before every loss; and one says it between any two losses.                *)
Ups(ev) == \E i \in 1 .. Len(ev) : ev[i] = "UP"
UpAfterDown(ev) ==
  \A i \in 1 .. Len(ev) : ev[i] = "DOWN" => \E j \in i + 1 .. Len(ev) : ev[j] = "UP"
UpBeforeDown(ev) ==
  \A i \in 1 .. Len(ev) : ev[i] = "DOWN" => \E j \in 1 .. i - 1 : ev[j] = "UP"
Alternate(ev) ==
  \A i, k \in 1 .. Len(ev) :
    i < k /\ ev[i] = "DOWN" /\ ev[k] = "DOWN" => \E j \in i + 1 .. k - 1 : ev[j] = "UP"

Typed ==
  /\ events \in Seq(Reports)
  /\ elapsed \in 0 .. Enough /\ downFor \in 0 .. Enough
  /\ wifi_offline_delay \in 0 .. Enough

(* The notifications tell the station's fate in order; what the device       *)
(* believes lags behind it by those on their way.                            *)
Told ==
  /\ Alternate(events)
  /\ link = "up" => UpAfterDown(events)
  /\ start_s => UpBeforeDown(events) /\ (link = "up" => Ups(events))

(* A countdown counts the time since the link was lost, *)
Counted == start_s /\ ~jumped => reserved = "DOWN" /\ elapsed <= downFor

(* and the timer thread acts on one that is not over. *)
Decided ==
  ~raced =>
    /\ tpc = "compare" => start_s
    /\ tpc = "fire" => (link = "up" => Ups(events)) /\ (jumped \/ Due)
    /\ ap /\ link = "up" => Ups(events)

IInv == Typed /\ Told /\ Counted /\ Decided

(* Results are numbered in the order they come; the queue holds none but the *)
(* last one that the callback has let go.                                    *)
ScanInv ==
  /\ scan.count \in Nat /\ wifi_scan_queue \in Nat
  /\ scan = [count |-> scan.count, held |-> scan.held]
  /\ scan.held \in {0, scan.count}
  /\ ScanIsLatest

-----------------------------------------------------------------------------
(* Notifications. *)

(* A tail is the sequence from its second element on.                        *)
LEMMA TailOfEvents ==
  ASSUME NEW ev \in Seq(Reports), ev # <<>>
  PROVE  /\ Tail(ev) \in Seq(Reports) /\ Len(ev) \in Nat \ {0}
         /\ Len(Tail(ev)) = Len(ev) - 1 /\ Head(ev) = ev[1]
         /\ \A i \in 1 .. Len(Tail(ev)) : Tail(ev)[i] = ev[i + 1]
  OBVIOUS

(* What taking the first notification leaves true of the others.             *)
LEMMA TakeFirst ==
  ASSUME NEW ev \in Seq(Reports), ev # <<>>, Alternate(ev)
  PROVE  /\ Alternate(Tail(ev))
         /\ UpAfterDown(ev) => UpAfterDown(Tail(ev))
         /\ Head(ev) # "UP" /\ Ups(ev) => Ups(Tail(ev))
         /\ Head(ev) # "UP" /\ UpBeforeDown(ev) => UpBeforeDown(Tail(ev))
         /\ Head(ev) = "DOWN" => ~UpBeforeDown(ev) /\ UpBeforeDown(Tail(ev))
         /\ Head(ev) = "DOWN" /\ UpAfterDown(ev) => Ups(Tail(ev))
  <1> DEFINE t == Tail(ev)
             n == Len(ev)
  <1>1. /\ t \in Seq(Reports) /\ n \in Nat \ {0} /\ Len(t) = n - 1 /\ Head(ev) = ev[1]
        /\ \A i \in 1 .. n - 1 : t[i] = ev[i + 1]
    BY TailOfEvents
  <1> HIDE DEF t, n
  <1>2. ASSUME NEW lo \in 1 .. n + 1, NEW hi \in 1 .. n, NEW j \in lo .. hi, j > 1,
               ev[j] = "UP"
        PROVE  j - 1 \in lo - 1 .. hi - 1 /\ j - 1 \in 1 .. n - 1 /\ t[j - 1] = "UP"
    <2>1. j - 1 \in 1 .. n - 1 /\ (j - 1) + 1 = j
      BY <1>1, <1>2
    <2>q. QED
      BY <1>1, <1>2, <2>1
  <1>3. Alternate(t)
    <2> SUFFICES ASSUME NEW i \in 1 .. n - 1, NEW k \in 1 .. n - 1,
                        i < k, t[i] = "DOWN", t[k] = "DOWN"
                 PROVE  \E j \in i + 1 .. k - 1 : t[j] = "UP"
      BY <1>1 DEF Alternate
    <2>1. /\ i + 1 \in 1 .. n /\ k + 1 \in 1 .. n /\ i + 1 < k + 1
          /\ ev[i + 1] = "DOWN" /\ ev[k + 1] = "DOWN"
      BY <1>1
    <2>2. PICK j \in (i + 1) + 1 .. (k + 1) - 1 : ev[j] = "UP"
      BY <2>1 DEF Alternate, n
    <2>3. j - 1 \in i + 1 .. k - 1 /\ (j - 1) \in 1 .. n - 1 /\ (j - 1) + 1 = j
      BY <1>1, <2>2
    <2>q. QED
      BY <1>1, <2>2, <2>3
  <1>4. ASSUME UpAfterDown(ev) PROVE UpAfterDown(t)
    <2> SUFFICES ASSUME NEW i \in 1 .. n - 1, t[i] = "DOWN"
                 PROVE  \E j \in i + 1 .. n - 1 : t[j] = "UP"
      BY <1>1 DEF UpAfterDown
    <2>1. i + 1 \in 1 .. n /\ ev[i + 1] = "DOWN"
      BY <1>1
    <2>2. PICK j \in (i + 1) + 1 .. n : ev[j] = "UP"
      BY <1>4, <2>1 DEF UpAfterDown, n
    <2>3. j - 1 \in i + 1 .. n - 1 /\ (j - 1) \in 1 .. n - 1 /\ (j - 1) + 1 = j
      BY <1>1, <2>2
    <2>q. QED
      BY <1>1, <2>2, <2>3
  <1>5. ASSUME Head(ev) # "UP", Ups(ev) PROVE Ups(t)
    <2>1. PICK j \in 1 .. n : ev[j] = "UP"
      BY <1>5 DEF Ups, n
    <2>2. j - 1 \in 1 .. n - 1 /\ (j - 1) + 1 = j
      BY <1>1, <1>5, <2>1
    <2>q. QED
      BY <1>1, <2>1, <2>2 DEF Ups
  <1>6. ASSUME Head(ev) # "UP", UpBeforeDown(ev) PROVE UpBeforeDown(t)
    <2> SUFFICES ASSUME NEW i \in 1 .. n - 1, t[i] = "DOWN"
                 PROVE  \E j \in 1 .. i - 1 : t[j] = "UP"
      BY <1>1 DEF UpBeforeDown
    <2>1. i + 1 \in 1 .. n /\ ev[i + 1] = "DOWN"
      BY <1>1
    <2>2. PICK j \in 1 .. (i + 1) - 1 : ev[j] = "UP"
      BY <1>6, <2>1 DEF UpBeforeDown, n
    <2>3. j - 1 \in 1 .. i - 1 /\ (j - 1) \in 1 .. n - 1 /\ (j - 1) + 1 = j
      BY <1>1, <1>6, <2>2
    <2>q. QED
      BY <1>1, <2>2, <2>3
  <1>7. ASSUME Head(ev) = "DOWN" PROVE ~UpBeforeDown(ev) /\ UpBeforeDown(t)
    <2>1. 1 \in 1 .. n /\ ev[1] = "DOWN"
      BY <1>1, <1>7
    <2>2. ~UpBeforeDown(ev)
      BY <2>1 DEF UpBeforeDown, n
    <2>3. ASSUME NEW i \in 1 .. n - 1, t[i] = "DOWN"
          PROVE  \E j \in 1 .. i - 1 : t[j] = "UP"
      <3>1. i + 1 \in 1 .. n /\ 1 < i + 1 /\ ev[i + 1] = "DOWN"
        BY <1>1, <2>3
      <3>2. PICK j \in 1 + 1 .. (i + 1) - 1 : ev[j] = "UP"
        BY <2>1, <3>1 DEF Alternate, n
      <3>3. j - 1 \in 1 .. i - 1 /\ (j - 1) \in 1 .. n - 1 /\ (j - 1) + 1 = j
        BY <1>1, <3>2
      <3>q. QED
        BY <1>1, <3>2, <3>3
    <2>q. QED
      BY <1>1, <2>2, <2>3 DEF UpBeforeDown
  <1>8. ASSUME Head(ev) = "DOWN", UpAfterDown(ev) PROVE Ups(t)
    <2>1. PICK j \in 1 + 1 .. n : ev[j] = "UP"
      BY <1>1, <1>8 DEF UpAfterDown, n
    <2>2. j - 1 \in 1 .. n - 1 /\ (j - 1) + 1 = j
      BY <1>1, <2>1
    <2>q. QED
      BY <1>1, <2>1, <2>2 DEF Ups
  <1>q. QED
    BY <1>3, <1>4, <1>5, <1>6, <1>7, <1>8 DEF t

(* A loss of the link that is told last.                                     *)
LEMMA LossTold ==
  ASSUME NEW ev \in Seq(Reports), Alternate(ev), UpAfterDown(ev)
  PROVE  /\ Append(ev, "DOWN") \in Seq(Reports)
         /\ Alternate(Append(ev, "DOWN"))
         /\ Ups(ev) /\ UpBeforeDown(ev) => UpBeforeDown(Append(ev, "DOWN"))
  <1> DEFINE a == Append(ev, "DOWN")
             n == Len(ev)
  <1>1. /\ n \in Nat /\ a \in Seq(Reports) /\ Len(a) = n + 1
        /\ a[n + 1] = "DOWN" /\ \A i \in 1 .. n : a[i] = ev[i]
    BY DEF Reports
  <1> HIDE DEF a, n
  <1>2. Alternate(a)
    <2> SUFFICES ASSUME NEW i \in 1 .. n + 1, NEW k \in 1 .. n + 1,
                        i < k, a[i] = "DOWN", a[k] = "DOWN"
                 PROVE  \E j \in i + 1 .. k - 1 : a[j] = "UP"
      BY <1>1 DEF Alternate
    <2>1. i \in 1 .. n /\ ev[i] = "DOWN"
      BY <1>1
    <2>2. CASE k = n + 1
      <3>1. PICK j \in i + 1 .. n : ev[j] = "UP"
        BY <2>1 DEF UpAfterDown, n
      <3>q. QED
        BY <1>1, <2>1, <2>2, <3>1
    <2>3. CASE k # n + 1
      <3>1. k \in 1 .. n /\ ev[k] = "DOWN"
        BY <1>1, <2>3
      <3>2. PICK j \in i + 1 .. k - 1 : ev[j] = "UP"
        BY <2>1, <3>1 DEF Alternate, n
      <3>q. QED
        BY <1>1, <2>1, <3>1, <3>2
    <2>q. QED
      BY <2>2, <2>3
  <1>3. ASSUME Ups(ev), UpBeforeDown(ev) PROVE UpBeforeDown(a)
    <2> SUFFICES ASSUME NEW i \in 1 .. n + 1, a[i] = "DOWN"
                 PROVE  \E j \in 1 .. i - 1 : a[j] = "UP"
      BY <1>1 DEF UpBeforeDown
    <2>1. CASE i = n + 1
      BY <1>1, <1>3, <2>1 DEF Ups, n
    <2>2. CASE i # n + 1
      <3>1. i \in 1 .. n /\ ev[i] = "DOWN"
        BY <1>1, <2>2
      <3>2. PICK j \in 1 .. i - 1 : ev[j] = "UP"
        BY <1>3, <3>1 DEF UpBeforeDown, n
      <3>q. QED
        BY <1>1, <3>1, <3>2
    <2>q. QED
      BY <2>1, <2>2
  <1>q. QED
    BY <1>1, <1>2, <1>3 DEF a

(* A link that is told to be back.                                           *)
LEMMA BackTold ==
  ASSUME NEW ev \in Seq(Reports), Alternate(ev),
         NEW more \in {<<"UP">>, <<"UP", "IP">>}
  PROVE  /\ ev \o more \in Seq(Reports)
         /\ Alternate(ev \o more) /\ UpAfterDown(ev \o more) /\ Ups(ev \o more)
         /\ UpBeforeDown(ev) => UpBeforeDown(ev \o more)
  <1> DEFINE a == ev \o more
             n == Len(ev)
             m == Len(more)
  <1>1. n \in Nat /\ m \in 1 .. 2 /\ more \in Seq(Reports)
    <2>1. CASE more = <<"UP">>
      BY <2>1 DEF Reports
    <2>2. CASE more = <<"UP", "IP">>
      BY <2>2 DEF Reports
    <2>q. QED
      BY <2>1, <2>2
  <1>2. /\ a \in Seq(Reports) /\ Len(a) = n + m
        /\ \A i \in 1 .. n : a[i] = ev[i]
        /\ a[n + 1] = "UP" /\ \A i \in n + 1 .. n + m : a[i] # "DOWN"
    <2>1. a \in Seq(Reports) /\ Len(a) = n + m
      BY <1>1
    <2>2. \A i \in 1 .. n + m : a[i] = IF i <= n THEN ev[i] ELSE more[i - n]
      BY <1>1
    <2>3. \A i \in 1 .. m : more[i] # "DOWN"
      OBVIOUS
    <2>4. more[1] = "UP" /\ (n + 1) - n = 1
      BY <1>1
    <2> HIDE DEF a, n, m
    <2>5. \A i \in n + 1 .. n + m : i - n \in 1 .. m
      BY <1>1
    <2>q. QED
      BY <1>1, <2>1, <2>2, <2>3, <2>4, <2>5
  <1> HIDE DEF a, n, m
  <1>3. ASSUME NEW i \in 1 .. n + m, a[i] = "DOWN"
        PROVE  i \in 1 .. n /\ ev[i] = "DOWN"
    BY <1>1, <1>2, <1>3
  <1>4. Alternate(a)
    <2> SUFFICES ASSUME NEW i \in 1 .. n + m, NEW k \in 1 .. n + m,
                        i < k, a[i] = "DOWN", a[k] = "DOWN"
                 PROVE  \E j \in i + 1 .. k - 1 : a[j] = "UP"
      BY <1>2 DEF Alternate
    <2>1. i \in 1 .. n /\ ev[i] = "DOWN" /\ k \in 1 .. n /\ ev[k] = "DOWN"
      BY <1>3
    <2>2. PICK j \in i + 1 .. k - 1 : ev[j] = "UP"
      BY <2>1 DEF Alternate, n
    <2>q. QED
      BY <1>1, <1>2, <2>1, <2>2
  <1>5. UpAfterDown(a)
    <2>1. ASSUME NEW i \in 1 .. n + m, a[i] = "DOWN"
          PROVE  \E j \in i + 1 .. n + m : a[j] = "UP"
      <3>1. i \in 1 .. n /\ n + 1 \in i + 1 .. n + m
        BY <1>1, <1>3, <2>1
      <3>q. QED
        BY <1>2, <3>1
    <2>q. QED
      BY <1>2, <2>1 DEF UpAfterDown
  <1>6. Ups(a)
    <2>1. n + 1 \in 1 .. n + m
      BY <1>1
    <2>q. QED
      BY <1>2, <2>1 DEF Ups
  <1>7. ASSUME UpBeforeDown(ev) PROVE UpBeforeDown(a)
    <2> SUFFICES ASSUME NEW i \in 1 .. n + m, a[i] = "DOWN"
                 PROVE  \E j \in 1 .. i - 1 : a[j] = "UP"
      BY <1>2 DEF UpBeforeDown
    <2>1. i \in 1 .. n /\ ev[i] = "DOWN"
      BY <1>3
    <2>2. PICK j \in 1 .. i - 1 : ev[j] = "UP"
      BY <1>7, <2>1 DEF UpBeforeDown, n
    <2>q. QED
      BY <1>1, <1>2, <2>1, <2>2
  <1>q. QED
    BY <1>2, <1>4, <1>5, <1>6, <1>7 DEF a

(* Nothing on its way tells nothing.                                         *)
LEMMA NothingTold ==
  /\ <<>> \in Seq(Reports)
  /\ Alternate(<<>>) /\ UpAfterDown(<<>>) /\ UpBeforeDown(<<>>) /\ ~Ups(<<>>)
  BY DEF Alternate, UpAfterDown, UpBeforeDown, Ups

-----------------------------------------------------------------------------
(* The steps. *)

(* A step on which nothing depends that the invariant speaks of.             *)
LEMMA StillInv ==
  ASSUME IInv,
         UNCHANGED <<link, events, reserved, ap, start_s, elapsed, wifi_offline_delay, tpc,
                     downFor, raced, jumped>>
  PROVE  IInv'
  BY DEF IInv, Typed, Told, Counted, Decided, Due, Enough

(* The router comes or goes: the loss of a link that was up is told.         *)
LEMMA RouterChangesInv ==
  ASSUME IInv, RouterChanges
  PROVE  IInv'
  <1>1. UNCHANGED <<reserved, ap, start_s, elapsed, wifi_offline_delay, tpc, downFor, raced,
                    jumped>>
    BY DEF RouterChanges, countdown, settings, histories
  <1>2. CASE link # "up"
    BY <1>1, <1>2, StillInv DEF RouterChanges
  <1>3. CASE link = "up"
    <2>1. link' = "trying" /\ events' = Append(events, "DOWN")
      BY <1>3 DEF RouterChanges
    <2>q. QED
      BY <1>1, <1>3, <2>1, LossTold DEF IInv, Typed, Told, Counted, Decided, Due, Enough
  <1>q. QED
    BY <1>2, <1>3

(* A station that is closed, or joins another network, with the access point *)
(* opened or left as it is.                                                  *)
LEMMA LeaveInv ==
  ASSUME IInv, NEW to \in {"off", "trying"}, Leave(to),
         UNCHANGED <<reserved, start_s, elapsed, wifi_offline_delay, tpc, raced, jumped>>
  PROVE  IInv'
  <1>1. link' = to /\ UNCHANGED downFor
    BY DEF Leave
  <1>2. CASE link # "up"
    <2>1. UNCHANGED events
      BY <1>2 DEF Leave
    <2>q. QED
      BY <1>1, <1>2, <2>1 DEF IInv, Typed, Told, Counted, Decided, Due, Enough
  <1>3. CASE link = "up"
    <2>1. events' = Append(events, "DOWN")
      BY <1>3 DEF Leave
    <2>q. QED
      BY <1>1, <1>3, <2>1, LossTold DEF IInv, Typed, Told, Counted, Decided, Due, Enough
  <1>q. QED
    BY <1>2, <1>3

(* The station comes up: it is told.                                         *)
LEMMA LinkUpInv ==
  ASSUME IInv, LinkUp
  PROVE  IInv'
  <1>1. /\ UNCHANGED <<reserved, ap, start_s, elapsed, wifi_offline_delay, tpc, downFor, raced,
                       jumped>>
        /\ link' = "up"
        /\ \E more \in {<<"UP">>, <<"UP", "IP">>} : events' = events \o more
    BY DEF LinkUp, countdown, settings, histories
  <1>2. PICK more \in {<<"UP">>, <<"UP", "IP">>} : events' = events \o more
    BY <1>1
  <1>q. QED
    BY <1>1, <1>2, BackTold DEF IInv, Typed, Told, Counted, Decided, Due, Enough

(* UP ends the countdown and closes the access point.                        *)
LEMMA StationUpInv ==
  ASSUME IInv, StationUp
  PROVE  IInv'
  <1>1. /\ events # <<>> /\ events' = Tail(events)
        /\ raced' = (raced \/ tpc # "idle")
        /\ start_s' = FALSE /\ reserved' = "UP" /\ ap' = FALSE
        /\ UNCHANGED <<link, elapsed, wifi_offline_delay, tpc, downFor, jumped>>
    BY DEF StationUp, Deliver, Races, CallbackKeeps, settings
  <1>2. /\ Tail(events) \in Seq(Reports) /\ Alternate(Tail(events))
        /\ UpAfterDown(events) => UpAfterDown(Tail(events))
    BY <1>1, TakeFirst, TailOfEvents DEF IInv, Typed, Told
  <1>q. QED
    BY <1>1, <1>2 DEF IInv, Typed, Told, Counted, Decided, Due, Enough

(* An address changes nothing of this.                                       *)
LEMMA GotIpInv ==
  ASSUME IInv, GotIp
  PROVE  IInv'
  <1>1. /\ events # <<>> /\ Head(events) = "IP" /\ events' = Tail(events)
        /\ UNCHANGED <<link, reserved, ap, start_s, elapsed, wifi_offline_delay, tpc, downFor,
                       raced, jumped>>
    BY DEF GotIp, Deliver, CallbackKeeps, settings, countdown, histories
  <1>2. /\ Tail(events) \in Seq(Reports) /\ Alternate(Tail(events))
        /\ UpAfterDown(events) => UpAfterDown(Tail(events))
        /\ Ups(events) => Ups(Tail(events))
        /\ UpBeforeDown(events) => UpBeforeDown(Tail(events))
    BY <1>1, TakeFirst, TailOfEvents DEF IInv, Typed, Told
  <1>q. QED
    BY <1>1, <1>2 DEF IInv, Typed, Told, Counted, Decided, Due, Enough

(* DOWN starts a countdown, or opens the access point at once; a link that   *)
(* is up again by now has told so behind it. No countdown is running: two    *)
(* losses are told only with an UP between them.                             *)
LEMMA StationDownInv ==
  ASSUME IInv, StationDown
  PROVE  IInv'
  <1>1. /\ events # <<>> /\ Head(events) = "DOWN" /\ events' = Tail(events)
        /\ raced' = (raced \/ tpc # "idle")
        /\ downFor' = 0 /\ reserved' = "DOWN"
        /\ IF wifi_offline_delay > 0
           THEN start_s' = TRUE /\ elapsed' = 0 /\ ap' = ap
           ELSE ap' = TRUE /\ UNCHANGED <<start_s, elapsed>>
        /\ UNCHANGED <<link, wifi_offline_delay, tpc, jumped>>
    BY DEF StationDown, Deliver, Races, CallbackKeeps, settings, countdown
  <1>2. /\ Tail(events) \in Seq(Reports) /\ Alternate(Tail(events))
        /\ UpAfterDown(events) => UpAfterDown(Tail(events)) /\ Ups(Tail(events))
        /\ ~UpBeforeDown(events) /\ UpBeforeDown(Tail(events))
    BY <1>1, TakeFirst, TailOfEvents DEF IInv, Typed, Told
  <1>3. ~start_s
    BY <1>2 DEF IInv, Told
  <1>4. Typed'
    BY <1>1, <1>2, WifiAssumption DEF IInv, Typed, Enough
  <1>5. Told'
    BY <1>1, <1>2, <1>3 DEF IInv, Told
  <1>6. Counted'
    <2>1. CASE wifi_offline_delay > 0
      <3>1. reserved' = "DOWN" /\ elapsed' = 0 /\ downFor' = 0
        BY <1>1, <2>1
      <3>q. QED
        BY <3>1 DEF Counted
    <2>2. CASE ~(wifi_offline_delay > 0)
      BY <1>1, <1>3, <2>2 DEF Counted
    <2>q. QED
      BY <2>1, <2>2
  <1>7. Decided'
    BY <1>1, <1>2, <1>5 DEF IInv, Decided, Told
  <1>q. QED
    BY <1>4, <1>5, <1>6, <1>7 DEF IInv

(* The timer of the LED.                                                     *)
LEMMA LedTimerInv ==
  ASSUME IInv, StartMqtt \/ LedStop
  PROVE  IInv'
  <1>1. /\ tpc' \in {"ledStop", "idle"}
        /\ UNCHANGED <<link, events, reserved, ap, start_s, elapsed, wifi_offline_delay,
                       downFor, raced, jumped>>
    BY DEF StartMqtt, LedStop, TimerKeeps, drive, settings, histories, countdown
  <1>q. QED
    BY <1>1 DEF IInv, Typed, Told, Counted, Decided, Due, Enough

(* The countdown's timer: what it has read holds until a step comes between. *)
LEMMA OfflineTimerInv ==
  ASSUME IInv,
         Expire \/ NothingToWaitFor \/ Disarm \/ Waiting \/ TooEarly \/ TimeIsUp \/ OpenAp
  PROVE  IInv'
  <1>1. UNCHANGED <<link, events, reserved, elapsed, wifi_offline_delay, downFor, raced,
                    jumped>>
    BY DEF Expire, NothingToWaitFor, Disarm, Waiting, TooEarly, TimeIsUp, OpenAp, Moves,
           TimerKeeps, drive, settings, histories, countdown
  <1>2. CASE /\ tpc' \in {"begin", "disarm", "idle"} /\ UNCHANGED <<start_s, ap>>
    BY <1>1, <1>2 DEF IInv, Typed, Told, Counted, Decided, Due, Enough
  <1>3. CASE Expire \/ NothingToWaitFor \/ Disarm \/ TooEarly
    BY <1>2, <1>3 DEF Expire, NothingToWaitFor, Disarm, TooEarly, Moves, countdown
  <1>4. CASE Waiting
    <2>1. start_s /\ tpc' = "compare" /\ UNCHANGED <<start_s, ap>>
      BY <1>4 DEF Waiting, Moves, countdown
    <2>q. QED
      BY <1>1, <2>1 DEF IInv, Typed, Told, Counted, Decided, Due, Enough
  <1>5. CASE TimeIsUp
    <2>1. /\ tpc = "compare" /\ tpc' = "fire" /\ start_s' = FALSE /\ ap' = ap
          /\ Difference >= wifi_offline_delay
      BY <1>5 DEF TimeIsUp, Moves
    <2>2. ASSUME ~raced
          PROVE  start_s /\ (jumped \/ Due)
      <3>1. start_s
        BY <2>1, <2>2 DEF IInv, Decided
      <3>2. elapsed >= wifi_offline_delay
        BY <2>1, <3>1 DEF Difference
      <3>q. QED
        BY <3>1, <3>2 DEF IInv, Counted, Due, Typed, Enough
    <2>3. Decided'
      BY <1>1, <2>1, <2>2 DEF IInv, Decided, Told, Due
    <2>q. QED
      BY <1>1, <2>1, <2>3 DEF IInv, Typed, Told, Counted, Enough
  <1>6. CASE OpenAp
    <2>1. tpc = "fire" /\ tpc' = "idle" /\ UNCHANGED start_s
      BY <1>6 DEF OpenAp, Moves, countdown
    <2>q. QED
      BY <1>1, <2>1 DEF IInv, Typed, Told, Counted, Decided, Due, Enough
  <1>q. QED
    BY <1>3, <1>4, <1>5, <1>6

(* A start of the device forgets what was told.                              *)
LEMMA BootInv ==
  ASSUME IInv, Boot, UNCHANGED <<wifi_offline_delay, downFor, raced, jumped>>
  PROVE  IInv'
  <1>1. /\ start_s' = FALSE /\ elapsed' = 0 /\ tpc' = "idle" /\ events' = <<>>
        /\ link' \in {"trying", "off"}
    BY DEF Boot
  <1>2. Typed'
    BY <1>1, NothingTold, WifiAssumption DEF IInv, Typed, Enough
  <1>q. QED
    BY <1>1, <1>2, NothingTold DEF IInv, Told, Counted, Decided

(* A new delay while the timer thread is between two steps is a race.        *)
LEMMA SetWifiOfflineInv ==
  ASSUME IInv, SetWifiOffline
  PROVE  IInv'
  <1>1. /\ raced' = (raced \/ tpc # "idle")
        /\ wifi_offline_delay' \in {0, MaxDelay}
        /\ UNCHANGED <<link, events, reserved, ap, start_s, elapsed, tpc, downFor, jumped>>
    BY DEF SetWifiOffline, Races, Choices, drive, countdown
  <1>2. Typed'
    BY <1>1, WifiAssumption DEF IInv, Typed, Enough
  <1>q. QED
    BY <1>1, <1>2 DEF IInv, Told, Counted, Decided

(* A second passes for the countdown and for the truth alike.                *)
LEMMA TickInv ==
  ASSUME IInv, Tick
  PROVE  IInv'
  <1>1. /\ downFor' = IF downFor < Enough THEN downFor + 1 ELSE downFor
        /\ elapsed' = IF start_s /\ elapsed < Enough THEN elapsed + 1 ELSE elapsed
        /\ UNCHANGED <<link, events, reserved, ap, start_s, wifi_offline_delay, tpc, raced,
                       jumped>>
    BY DEF Tick, settings, histories
  <1>2. /\ elapsed \in 0 .. Enough /\ downFor \in 0 .. Enough
        /\ wifi_offline_delay \in 0 .. Enough /\ Enough \in Nat
    BY WifiAssumption DEF IInv, Typed, Enough
  <1>3. /\ elapsed' \in 0 .. Enough /\ downFor' \in 0 .. Enough /\ downFor' >= downFor
        /\ elapsed <= downFor => elapsed' <= downFor'
    BY <1>1, <1>2
  <1>4. Typed'
    BY <1>1, <1>3 DEF IInv, Typed, Enough
  <1>5. Told' /\ Counted'
    BY <1>1, <1>3 DEF IInv, Told, Counted
  <1>6. Due => Due'
    BY <1>1, <1>2, <1>3 DEF Due
  <1>7. Decided'
    BY <1>1, <1>6 DEF IInv, Decided
  <1>q. QED
    BY <1>4, <1>5, <1>7 DEF IInv

(* The clock jumps: a countdown that runs is told apart from then on.        *)
LEMMA SetTimeInv ==
  ASSUME IInv, SetTime
  PROVE  IInv'
  <1>1. /\ IF start_s THEN elapsed' = Enough /\ jumped' = TRUE
           ELSE UNCHANGED <<elapsed, jumped>>
        /\ UNCHANGED <<link, events, reserved, ap, start_s, wifi_offline_delay, tpc, downFor,
                       raced>>
    BY DEF SetTime, drive, settings
  <1>2. Typed'
    BY <1>1, WifiAssumption DEF IInv, Typed, Enough
  <1>3. Counted'
    BY <1>1 DEF IInv, Counted
  <1>4. Told' /\ Decided'
    <2>1. jumped => jumped'
      BY <1>1
    <2>q. QED
      BY <1>1, <2>1 DEF IInv, Told, Decided, Due
  <1>q. QED
    BY <1>2, <1>3, <1>4 DEF IInv

(* Every step keeps the invariant.                                           *)
LEMMA StepInv ==
  ASSUME IInv, [Next]_vars
  PROVE  IInv'
  <1>1. CASE RouterChanges \/ LinkUp
    BY <1>1, RouterChangesInv, LinkUpInv
  <1>2. CASE StationUp \/ GotIp \/ StationDown
    BY <1>2, StationUpInv, GotIpInv, StationDownInv
  <1>3. CASE Timers /\ ~OfflineReboot
    BY <1>3, LedTimerInv, OfflineTimerInv DEF Timers
  <1>4. CASE OfflineReboot
    BY <1>4, BootInv DEF OfflineReboot, settings, histories
  <1>5. CASE SetWifiOffline
    BY <1>5, SetWifiOfflineInv
  <1>6. CASE BeginConnect
    BY <1>6, LeaveInv DEF BeginConnect, countdown, settings, histories
  <1>7. CASE EndConnect
    BY <1>7, StillInv DEF EndConnect, drive, countdown, settings
  <1>8. CASE ConfigWifi \/ ApConfig
    BY <1>8, LeaveInv DEF ConfigWifi, ApConfig, countdown, settings, histories
  <1>9. CASE PowerCut
    BY <1>9, BootInv DEF PowerCut, settings, histories
  <1>10. CASE Tick \/ SetTime
    BY <1>10, TickInv, SetTimeInv
  <1>11. CASE Scan
    BY <1>11, StillInv DEF Scan, ScanDone, DiscardStale, PushResult, TakeResult, ScanKeeps,
                           drive, countdown, settings, histories
  <1>12. CASE UNCHANGED vars
    BY <1>12, StillInv DEF vars
  <1>q. QED
    BY <1>1, <1>2, <1>3, <1>4, <1>5, <1>6, <1>7, <1>8, <1>9, <1>10, <1>11, <1>12 DEF Next

(* At the start nothing has been told and no countdown runs.                 *)
LEMMA InitInv == Init => IInv
  <1> SUFFICES ASSUME Init PROVE IInv
    OBVIOUS
  <1>1. /\ link \in {"trying", "off"} /\ events = <<>> /\ start_s = FALSE /\ elapsed = 0
        /\ wifi_offline_delay \in {0, MaxDelay} /\ tpc = "idle" /\ downFor = 0
    BY DEF Init, Choices
  <1>2. Typed
    BY <1>1, NothingTold, WifiAssumption DEF Typed, Enough
  <1>q. QED
    BY <1>1, <1>2, NothingTold DEF IInv, Told, Counted, Decided

(* The invariant holds always.                                               *)
LEMMA Invariance == Spec => []IInv
  BY InitInv, StepInv, PTL DEF Spec

-----------------------------------------------------------------------------
(* The access point is closed when the station has come up and nothing more  *)
(* is to be told, unless a timer's callback was overtaken.                   *)
THEOREM ApIsClosed == Spec => []ApClosedWhenUp
  <1>1. IInv => ApClosedWhenUp
    BY NothingTold DEF IInv, Decided, ApClosedWhenUp
  <1>q. QED
    BY Invariance, <1>1, PTL

(* The offline action comes only after the whole delay without a link,       *)
(* whatever the delay, unless a callback was overtaken or the clock jumped.  *)
THEOREM OfflineActionIsDue == Spec => OfflineActionDue
  <1>1. ASSUME IInv, Fires
        PROVE  raced \/ jumped \/ Due
    <2>1. tpc = "fire"
      BY <1>1 DEF Fires, OpenAp, OfflineReboot, Moves
    <2>q. QED
      BY <1>1, <2>1 DEF IInv, Decided
  <1>2. IInv /\ [Next]_vars => [Fires => raced \/ jumped \/ Due]_vars
    BY <1>1
  <1>q. QED
    BY Invariance, <1>2, PTL DEF Spec, OfflineActionDue

(* The queue of scan results hands out the newest one pushed, over results   *)
(* that come while the one before has not been taken, and over restarts.     *)
THEOREM NewestScanIsTaken == Spec => []ScanIsLatest
  <1>1. Init => ScanInv
    BY DEF Init, ScanInv, ScanIsLatest
  <1>2. ASSUME ScanInv, [Next]_vars
        PROVE  ScanInv'
    <2>1. CASE UNCHANGED scans
      BY <1>2, <2>1 DEF ScanInv, ScanIsLatest, scans
    <2>2. CASE Boot
      BY <1>2, <2>2 DEF Boot, ScanInv, ScanIsLatest
    <2>3. CASE ScanDone
      BY <1>2, <2>3 DEF ScanDone, ScanInv, ScanIsLatest
    <2>4. CASE DiscardStale \/ TakeResult
      BY <1>2, <2>4 DEF DiscardStale, TakeResult, ScanInv, ScanIsLatest
    <2>5. CASE PushResult
      BY <1>2, <2>5 DEF PushResult, ScanInv, ScanIsLatest
    <2>6. UNCHANGED scans \/ Boot \/ Scan
      BY <1>2 DEF Next, vars, scans, Timers, RouterChanges, LinkUp, StationUp, GotIp,
         StationDown, CallbackKeeps, StartMqtt, LedStop, TimerKeeps, Expire, NothingToWaitFor,
         Disarm, Waiting, TooEarly, TimeIsUp, OpenAp, Moves, OfflineReboot, SetWifiOffline,
         BeginConnect, EndConnect, ConfigWifi, ApConfig, PowerCut, Tick, SetTime
    <2>q. QED
      BY <2>1, <2>2, <2>3, <2>4, <2>5, <2>6 DEF Scan
  <1>3. ScanInv => ScanIsLatest
    BY DEF ScanInv
  <1>q. QED
    BY <1>1, <1>2, <1>3, PTL DEF Spec

-----------------------------------------------------------------------------
(* The web server: no request to stop is left behind, and the busy word has  *)
(* an owner, for every number of faults, button presses and downloads.       *)

(* Until two restarts meet, one of the restarters is at rest. *)
OneRestarter == overlap \/ \E r \in Restarters : ~Restarting(r)

(* A request to stop is made to a thread that counts as running. *)
StopIsAsked ==
  httpd_stop_req =>
    missed \/ overlap
      \/ (httpd_state = "RUNNING" /\ \E r \in Restarters : pc[r] \in {"connect", "wait"})

(* There is a thread in two states only, or just before the first is written. *)
ThreadIsKnown ==
  overlap \/ thread = "none" \/ httpd_state \in {"RUNNING", "SUSPENDED"}
    \/ \E r \in Restarters : pc[r] = "created"

(* The sockets are closed when the thread has been deleted. *)
DeletedFirst == overlap \/ thread = "none" \/ \A r \in Restarters : pc[r] # "close"

(* There is no thread, and none to stop, before httpd_init. *)
InitFirst ==
  is_http_init
    \/ (/\ thread = "none" /\ httpd_state = "INACTIVE"
        /\ \A r \in Restarters : pc[r] \in {"idle", "probe", "stop", "start"})

(* Where a restarter may be. *)
Places == {"idle", "probe", "stop", "connect", "wait", "delete", "close", "start", "create",
           "created"}

ServerInv ==
  /\ HttpdTypeOK
  /\ OneRestarter
  /\ StopIsAsked
  /\ ThreadIsKnown
  /\ DeletedFirst
  /\ InitFirst
  /\ BusyWordIsOwned

-----------------------------------------------------------------------------
(* The server starts with the invariant. *)
LEMMA ServerInit == HttpdInit => ServerInv
  <1> SUFFICES ASSUME HttpdInit PROVE ServerInv
    OBVIOUS
  <1>1. HttpdTypeOK
    <2>1. pc \in [Restarters -> Places]
      BY DEF HttpdInit, Places
    <2>2. faults \in 0 .. MaxFaults /\ keys \in 0 .. MaxKeys /\ fail \in 0 .. 1
      BY HttpAssumption DEF HttpdInit
    <2>q. QED
      BY <2>1, <2>2 DEF HttpdInit, HttpdTypeOK, Places
  <1>2. OneRestarter
    BY DEF HttpdInit, Restarters, Restarting, OneRestarter
  <1>3. StopIsAsked
    BY DEF HttpdInit, StopIsAsked
  <1>4. ThreadIsKnown
    BY DEF HttpdInit, ThreadIsKnown
  <1>5. DeletedFirst
    BY DEF HttpdInit, DeletedFirst
  <1>6. InitFirst
    BY DEF HttpdInit, InitFirst
  <1>7. BusyWordIsOwned
    BY DEF HttpdInit, BusyWordIsOwned
  <1>q. QED
    BY <1>1, <1>2, <1>3, <1>4, <1>5, <1>6, <1>7 DEF ServerInv

(* A step of the thread keeps the invariant: a fault while it is being asked *)
(* to stop is remembered in missed, and only the thread begins an upload.     *)
LEMMA ThreadInv ==
  ASSUME ServerInv, Thread
  PROVE  ServerInv'
  <1>1. CASE Setup
    BY <1>1
       DEF Setup, Runs, Restarting, ServerInv, HttpdTypeOK, OneRestarter,
           StopIsAsked, ThreadIsKnown,
           DeletedFirst, InitFirst, BusyWordIsOwned
  <1>2. CASE SetupFails
    <2>1. HttpdTypeOK'
      <3>1. faults' \in 0 .. MaxFaults
        BY <1>2, HttpAssumption DEF SetupFails, Fault, ServerInv, HttpdTypeOK
      <3>2. pc' \in [Restarters -> Places]
        BY <1>2 DEF SetupFails, Runs, ServerInv, HttpdTypeOK, Places
      <3>q. QED
        BY <1>2, <3>1, <3>2 DEF SetupFails, Runs, Suspend, ServerInv,
           HttpdTypeOK, Places
    <2>2. OneRestarter'
      BY <1>2 DEF SetupFails, Fault, Runs, Restarting, ServerInv,
         OneRestarter
    <2>3. StopIsAsked'
      BY <1>2 DEF SetupFails, Fault, Runs, StopIsAsked
    <2>4. ThreadIsKnown'
      BY <1>2 DEF SetupFails, Fault, Runs, Suspend, ThreadIsKnown
    <2>5. DeletedFirst'
      BY <1>2 DEF SetupFails, Fault, Runs, ServerInv, DeletedFirst
    <2>6. InitFirst'
      BY <1>2 DEF SetupFails, Fault, Runs, ServerInv, InitFirst
    <2>7. BusyWordIsOwned'
      BY <1>2 DEF SetupFails, Fault, Runs, ServerInv, BusyWordIsOwned
    <2>q. QED
      BY <2>1, <2>2, <2>3, <2>4, <2>5, <2>6, <2>7 DEF ServerInv
  <1>3. CASE ObeyStop
    BY <1>3
       DEF ObeyStop, Runs, Suspend, Restarting, ServerInv,
           HttpdTypeOK, OneRestarter, StopIsAsked,
           ThreadIsKnown, DeletedFirst, InitFirst, BusyWordIsOwned
  <1>4. CASE TakeRequest
    BY <1>4
       DEF TakeRequest, Runs, Restarting, ServerInv, HttpdTypeOK,
           OneRestarter, StopIsAsked,
           ThreadIsKnown, DeletedFirst, InitFirst, BusyWordIsOwned
  <1>5. CASE SelectFails
    <2>1. HttpdTypeOK'
      <3>1. faults' \in 0 .. MaxFaults
        BY <1>5, HttpAssumption DEF SelectFails, Fault, ServerInv, HttpdTypeOK
      <3>2. pc' \in [Restarters -> Places]
        BY <1>5 DEF SelectFails, Runs, ServerInv, HttpdTypeOK, Places
      <3>q. QED
        BY <1>5, <3>1, <3>2 DEF SelectFails, Runs, Suspend, ServerInv,
           HttpdTypeOK, Places
    <2>2. OneRestarter'
      BY <1>5 DEF SelectFails, Fault, Runs, Restarting, ServerInv,
         OneRestarter
    <2>3. StopIsAsked'
      BY <1>5 DEF SelectFails, Fault, Runs, StopIsAsked
    <2>4. ThreadIsKnown'
      BY <1>5 DEF SelectFails, Fault, Runs, Suspend, ThreadIsKnown
    <2>5. DeletedFirst'
      BY <1>5 DEF SelectFails, Fault, Runs, ServerInv, DeletedFirst
    <2>6. InitFirst'
      BY <1>5 DEF SelectFails, Fault, Runs, ServerInv, InitFirst
    <2>7. BusyWordIsOwned'
      BY <1>5 DEF SelectFails, Fault, Runs, ServerInv, BusyWordIsOwned
    <2>q. QED
      BY <2>1, <2>2, <2>3, <2>4, <2>5, <2>6, <2>7 DEF ServerInv
  <1>6. CASE Served
    BY <1>6
       DEF Served, Runs, Restarting, ServerInv, HttpdTypeOK, OneRestarter,
           StopIsAsked,
           ThreadIsKnown, DeletedFirst, InitFirst, BusyWordIsOwned
  <1>7. CASE GetStuck
    BY <1>7, HttpAssumption
       DEF GetStuck, Fault, Runs, Restarting, ServerInv,
           HttpdTypeOK, OneRestarter, StopIsAsked,
           ThreadIsKnown, DeletedFirst, InitFirst, BusyWordIsOwned
  <1>8. CASE BeginUpload
    BY <1>8
       DEF BeginUpload, Runs, Restarting, ServerInv, HttpdTypeOK,
           OneRestarter, StopIsAsked,
           ThreadIsKnown, DeletedFirst, InitFirst, BusyWordIsOwned
  <1>9. CASE EndUpload
    BY <1>9
       DEF EndUpload, Runs, Restarting, ServerInv, HttpdTypeOK,
           OneRestarter, StopIsAsked,
           ThreadIsKnown, DeletedFirst, InitFirst, BusyWordIsOwned
  <1>10. CASE SwitchFirmware
    BY <1>10
       DEF SwitchFirmware, Runs, Restarting, ServerInv, HttpdTypeOK,
           OneRestarter, StopIsAsked,
           ThreadIsKnown, DeletedFirst, InitFirst, BusyWordIsOwned
  <1>11. CASE AnswerUpload
    BY <1>11
       DEF AnswerUpload, Runs, Restarting, ServerInv, HttpdTypeOK,
           OneRestarter, StopIsAsked,
           ThreadIsKnown, DeletedFirst, InitFirst, BusyWordIsOwned
  <1>12. CASE FailToAnswer
    BY <1>12, HttpAssumption
       DEF FailToAnswer, Fault, Runs, Restarting, ServerInv,
           HttpdTypeOK, OneRestarter, StopIsAsked,
           ThreadIsKnown, DeletedFirst, InitFirst, BusyWordIsOwned
  <1>q. QED
    BY <1>1, <1>2, <1>3, <1>4, <1>5, <1>6, <1>7, <1>8, <1>9, <1>10, <1>11, <1>12 DEF Thread

(* A step of httpd_stop and httpd_start keeps it: as long as the two          *)
(* restarters have not met, what one has found is still so when it acts.      *)
LEMMA RestartInv ==
  ASSUME ServerInv, NEW r \in Restarters, Restart(r)
  PROVE  ServerInv'
  <1>1. CASE Stop(r)
    <2>1. HttpdTypeOK'
      <3>1. httpd_stop_req' \in BOOLEAN /\ overlap' \in BOOLEAN
        BY <1>1 DEF Stop, updates, Goes, ServerInv, HttpdTypeOK
      <3>2. pc' \in [Restarters -> Places]
        BY <1>1 DEF Stop, updates, Goes, ServerInv, HttpdTypeOK, Places
      <3>3. UNCHANGED <<is_http_init, httpd_state, listening, thread, ota, download, fail,
                        faults, keys, rebooting, abandoned, unanswered, missed>>
        BY <1>1 DEF Stop, updates, bounds
      <3>q. QED
        BY <3>1, <3>2, <3>3 DEF ServerInv, HttpdTypeOK, Places
    <2>2. OneRestarter'
      BY <1>1 DEF Stop, updates, Goes, Restarting, ServerInv, HttpdTypeOK,
         OneRestarter
    <2>3. StopIsAsked'
      BY <1>1 DEF Stop, updates, Goes, ServerInv, HttpdTypeOK, StopIsAsked
    <2>4. ThreadIsKnown'
      BY <1>1 DEF Stop, updates, Goes, Restarting, Restarters, ServerInv,
         ThreadIsKnown
    <2>5. DeletedFirst'
      BY <1>1 DEF Stop, updates, Goes, ServerInv, HttpdTypeOK, DeletedFirst
    <2>6. InitFirst'
      BY <1>1 DEF Stop, updates, Goes, ServerInv, HttpdTypeOK, InitFirst
    <2>7. BusyWordIsOwned'
      BY <1>1 DEF Stop, updates, Goes, ServerInv, BusyWordIsOwned
    <2>q. QED
      BY <2>1, <2>2, <2>3, <2>4, <2>5, <2>6, <2>7 DEF ServerInv
  <1>2. CASE Connect(r)
    BY <1>2
       DEF Connect, updates, Goes, server, bounds, Restarting, ServerInv,
           HttpdTypeOK, OneRestarter,
           StopIsAsked, ThreadIsKnown, DeletedFirst, InitFirst, BusyWordIsOwned
  <1>3. CASE ConnectFails(r)
    <2>1. HttpdTypeOK'
      <3>1. faults' \in 0 .. MaxFaults
        BY <1>3, HttpAssumption DEF ConnectFails, updates, Fault, ServerInv, HttpdTypeOK
      <3>2. pc' \in [Restarters -> Places]
        BY <1>3 DEF ConnectFails, updates, Goes, ServerInv, HttpdTypeOK, Places
      <3>3. httpd_stop_req' \in BOOLEAN /\ overlap' \in BOOLEAN
        BY <1>3 DEF ConnectFails, Goes
      <3>4. UNCHANGED <<is_http_init, httpd_state, listening, thread, ota, download, rebooting,
                        fail, keys, abandoned, unanswered, missed>>
        BY <1>3 DEF ConnectFails, updates
      <3>q. QED
        BY <3>1, <3>2, <3>3, <3>4 DEF ServerInv, HttpdTypeOK, Places
    <2>2. OneRestarter'
      BY <1>3 DEF ConnectFails, updates, Fault, Goes, Restarting, OneRestarter
    <2>3. StopIsAsked'
      BY <1>3 DEF ConnectFails, updates, Fault, StopIsAsked
    <2>4. ThreadIsKnown'
      BY <1>3 DEF ConnectFails, updates, Fault, Goes, ServerInv, ThreadIsKnown
    <2>5. DeletedFirst'
      BY <1>3 DEF ConnectFails, updates, Fault, Goes, Restarting,
         Restarters, DeletedFirst
    <2>6. InitFirst'
      BY <1>3 DEF ConnectFails, updates, Fault, Goes, ServerInv, InitFirst
    <2>7. BusyWordIsOwned'
      BY <1>3 DEF ConnectFails, updates, Fault, ServerInv, BusyWordIsOwned
    <2>q. QED
      BY <2>1, <2>2, <2>3, <2>4, <2>5, <2>6, <2>7 DEF ServerInv
  <1>4. CASE SeeSuspended(r)
    BY <1>4
       DEF SeeSuspended, updates, Goes, server, bounds, Restarting,
           ServerInv, HttpdTypeOK, OneRestarter,
           StopIsAsked, ThreadIsKnown, DeletedFirst, InitFirst, BusyWordIsOwned
  <1>5. CASE GiveUpWaiting(r)
    <2>1. HttpdTypeOK'
      <3>1. pc' \in [Restarters -> Places]
        BY <1>5 DEF GiveUpWaiting, Goes, ServerInv, HttpdTypeOK, Places
      <3>2. httpd_stop_req' \in BOOLEAN /\ overlap' \in BOOLEAN
        BY <1>5 DEF GiveUpWaiting, Goes
      <3>3. UNCHANGED <<is_http_init, httpd_state, listening, thread, ota, download, rebooting,
                        fail, faults, keys, abandoned, unanswered, missed>>
        BY <1>5 DEF GiveUpWaiting, updates, bounds
      <3>q. QED
        BY <3>1, <3>2, <3>3 DEF ServerInv, HttpdTypeOK, Places
    <2>2. OneRestarter'
      BY <1>5 DEF GiveUpWaiting, updates, Goes, Restarting, OneRestarter
    <2>3. StopIsAsked'
      BY <1>5 DEF GiveUpWaiting, updates, Goes, StopIsAsked
    <2>4. ThreadIsKnown'
      BY <1>5 DEF GiveUpWaiting, updates, Goes, ServerInv, ThreadIsKnown
    <2>5. DeletedFirst'
      BY <1>5 DEF GiveUpWaiting, updates, Goes, Restarting, Restarters,
         DeletedFirst
    <2>6. InitFirst'
      BY <1>5 DEF GiveUpWaiting, updates, Goes, ServerInv, InitFirst
    <2>7. BusyWordIsOwned'
      BY <1>5 DEF GiveUpWaiting, updates, Goes, ServerInv, BusyWordIsOwned
    <2>q. QED
      BY <2>1, <2>2, <2>3, <2>4, <2>5, <2>6, <2>7 DEF ServerInv
  <1>6. CASE Delete(r)
    BY <1>6
       DEF Delete, updates, Goes, bounds, Restarting, ServerInv, HttpdTypeOK,
           OneRestarter, StopIsAsked,
           ThreadIsKnown, DeletedFirst, InitFirst, BusyWordIsOwned
  <1>7. CASE CloseSockets(r)
    <2>1. HttpdTypeOK'
      BY <1>7 DEF CloseSockets, updates, Goes, bounds, ServerInv, HttpdTypeOK
    <2>2. OneRestarter'
      BY <1>7 DEF CloseSockets, updates, Goes, Restarting, OneRestarter
    <2>3. StopIsAsked'
      BY <1>7 DEF CloseSockets, updates, Goes, Restarting, Restarters,
         ServerInv, StopIsAsked
    <2>4. ThreadIsKnown'
      BY <1>7 DEF CloseSockets, updates, Goes, ServerInv, ThreadIsKnown, DeletedFirst
    <2>5. DeletedFirst'
      BY <1>7 DEF CloseSockets, updates, Goes, ServerInv, DeletedFirst
    <2>6. InitFirst'
      BY <1>7 DEF CloseSockets, updates, Goes, ServerInv, InitFirst
    <2>7. BusyWordIsOwned'
      BY <1>7 DEF CloseSockets, updates, Goes, ServerInv, BusyWordIsOwned
    <2>q. QED
      BY <2>1, <2>2, <2>3, <2>4, <2>5, <2>6, <2>7 DEF ServerInv
  <1>8. CASE Start(r)
    BY <1>8
       DEF Start, updates, Goes, bounds, Restarting, ServerInv, HttpdTypeOK,
           OneRestarter, StopIsAsked,
           ThreadIsKnown, DeletedFirst, InitFirst, BusyWordIsOwned
  <1>9. CASE AlreadyStarted(r)
    BY <1>9
       DEF AlreadyStarted, updates, Goes, server, bounds, Restarting,
           ServerInv, HttpdTypeOK, OneRestarter,
           StopIsAsked, ThreadIsKnown, DeletedFirst, InitFirst, BusyWordIsOwned
  <1>10. CASE CreateThread(r)
    BY <1>10
       DEF CreateThread, updates, Goes, bounds, Restarting, Restarters,
           ServerInv, HttpdTypeOK, OneRestarter,
           StopIsAsked, ThreadIsKnown, DeletedFirst, InitFirst, BusyWordIsOwned
  <1>11. CASE CreateFails(r)
    BY <1>11, HttpAssumption
       DEF CreateFails, updates, Fault, Goes, Restarting, ServerInv,
           HttpdTypeOK, OneRestarter, StopIsAsked,
           ThreadIsKnown, DeletedFirst, InitFirst, BusyWordIsOwned
  <1>12. CASE WriteRunning(r)
    <2>1. HttpdTypeOK'
      BY <1>12 DEF WriteRunning, updates, Goes, bounds, ServerInv, HttpdTypeOK
    <2>2. OneRestarter'
      BY <1>12 DEF WriteRunning, updates, Goes, Restarting, ServerInv, OneRestarter
    <2>3. StopIsAsked'
      BY <1>12 DEF WriteRunning, updates, Goes, ServerInv, StopIsAsked
    <2>4. ThreadIsKnown'
      BY <1>12 DEF WriteRunning, updates, Goes, ThreadIsKnown
    <2>5. DeletedFirst'
      BY <1>12 DEF WriteRunning, updates, Goes, ServerInv, DeletedFirst
    <2>6. InitFirst'
      BY <1>12 DEF WriteRunning, updates, Goes, ServerInv, InitFirst
    <2>7. BusyWordIsOwned'
      BY <1>12 DEF WriteRunning, updates, Goes, ServerInv, BusyWordIsOwned
    <2>q. QED
      BY <2>1, <2>2, <2>3, <2>4, <2>5, <2>6, <2>7 DEF ServerInv
  <1>q. QED
    BY <1>1, <1>2, <1>3, <1>4, <1>5, <1>6, <1>7, <1>8, <1>9, <1>10, <1>11,
       <1>12 DEF Restart

(* A step of the watchdog keeps it. *)
LEMMA WatchdogInv ==
  ASSUME ServerInv, Watchdog
  PROVE  ServerInv'
  <1>1. CASE KeepOff
    BY <1>1
       DEF KeepOff, updates, server, bounds, httpd_histories, Restarting,
           ServerInv, HttpdTypeOK, OneRestarter,
           StopIsAsked, ThreadIsKnown, DeletedFirst, InitFirst, BusyWordIsOwned
  <1>2. CASE BeginProbe
    <2>1. HttpdTypeOK'
      <3>1. pc' \in [Restarters -> Places]
        BY <1>2 DEF BeginProbe, Goes, ServerInv, HttpdTypeOK, Places
      <3>2. overlap' \in BOOLEAN
        BY <1>2 DEF BeginProbe, Goes
      <3>3. UNCHANGED <<is_http_init, httpd_state, httpd_stop_req, listening, thread, ota,
                        download, rebooting, fail, faults, keys, abandoned, unanswered, missed>>
        BY <1>2 DEF BeginProbe, server, updates, bounds
      <3>q. QED
        BY <3>1, <3>2, <3>3 DEF ServerInv, HttpdTypeOK, Places
    <2>2. OneRestarter' /\ StopIsAsked' /\ ThreadIsKnown' /\ DeletedFirst' /\ InitFirst'
           /\ BusyWordIsOwned'
      BY <1>2
         DEF BeginProbe, updates, Goes, server, Restarting, ServerInv, HttpdTypeOK,
             OneRestarter, StopIsAsked, ThreadIsKnown, DeletedFirst, InitFirst,
             BusyWordIsOwned
    <2>q. QED
      BY <2>1, <2>2 DEF ServerInv
  <1>3. CASE ProbeAnswered
    BY <1>3
       DEF ProbeAnswered, updates, Goes, server, bounds, Restarting,
           Restarters, ServerInv, HttpdTypeOK,
           OneRestarter, StopIsAsked, ThreadIsKnown, DeletedFirst, InitFirst,
           BusyWordIsOwned
  <1>4. CASE ProbeFails
    <2>1. HttpdTypeOK'
      <3>1. fail' \in 0 .. 1
        <4>1. fail \in 0 .. 1
          BY DEF ServerInv, HttpdTypeOK
        <4>2. fail' = IF fail = 1 THEN 0 ELSE fail + 1
          BY <1>4 DEF ProbeFails
        <4>q. QED
          BY <4>1, <4>2
      <3>2. pc' = [pc EXCEPT !["watchdog"] = "stop"] \/ pc' = [pc EXCEPT !["watchdog"] = "idle"]
        BY <1>4 DEF ProbeFails, updates, Goes
      <3>3. overlap' \in BOOLEAN
        BY <1>4 DEF ProbeFails, updates, Goes
      <3>q. QED
        <4>1. UNCHANGED <<is_http_init, httpd_state, httpd_stop_req, listening, thread, ota,
                          download, rebooting, faults, keys, abandoned, unanswered, missed>>
          BY <1>4 DEF ProbeFails, server, updates, bounds
        <4>q. QED
          BY <3>1, <3>2, <3>3, <4>1 DEF ServerInv, HttpdTypeOK
    <2>2. OneRestarter'
      BY <1>4 DEF ProbeFails, updates, Goes, server, Restarting, ServerInv,
         HttpdTypeOK, OneRestarter
    <2>3. StopIsAsked'
      BY <1>4 DEF ProbeFails, updates, Goes, server, ServerInv, HttpdTypeOK,
         StopIsAsked
    <2>4. ThreadIsKnown'
      BY <1>4 DEF ProbeFails, updates, Goes, server, ServerInv, HttpdTypeOK,
         ThreadIsKnown
    <2>5. DeletedFirst'
      BY <1>4 DEF ProbeFails, updates, Goes, server, ServerInv, HttpdTypeOK,
         DeletedFirst
    <2>6. InitFirst'
      BY <1>4 DEF ProbeFails, updates, Goes, server, ServerInv, HttpdTypeOK,
         InitFirst
    <2>7. BusyWordIsOwned'
      BY <1>4 DEF ProbeFails, updates, Goes, server, ServerInv, BusyWordIsOwned
    <2>q. QED
      BY <2>1, <2>2, <2>3, <2>4, <2>5, <2>6, <2>7 DEF ServerInv
  <1>q. QED
    BY <1>1, <1>2, <1>3, <1>4 DEF Watchdog

(* So do the button, the downloads, and a reboot, which starts anew. *)
LEMMA OthersInv ==
  ASSUME ServerInv, PressRestart \/ BeginDownload \/ EndDownload \/ Reboot
  PROVE  ServerInv'
  <1>1. CASE PressRestart
    BY <1>1, HttpAssumption
       DEF PressRestart, updates, Goes, server, Restarting,
           Restarters, ServerInv, HttpdTypeOK, OneRestarter,
           StopIsAsked, ThreadIsKnown, DeletedFirst, InitFirst, BusyWordIsOwned
  <1>2. CASE BeginDownload
    BY <1>2, HttpAssumption
       DEF BeginDownload, server, httpd_histories, Restarting,
           ServerInv, HttpdTypeOK, OneRestarter,
           StopIsAsked, ThreadIsKnown, DeletedFirst, InitFirst, BusyWordIsOwned
  <1>3. CASE EndDownload
    <2>1. HttpdTypeOK'
      <3>1. rebooting' \in BOOLEAN
        BY <1>3 DEF EndDownload, ServerInv, HttpdTypeOK
      <3>q. QED
        BY <1>3, <3>1 DEF EndDownload, server, bounds, httpd_histories, ServerInv, HttpdTypeOK
    <2>2. OneRestarter'
      BY <1>3 DEF EndDownload, server, bounds, Restarting, ServerInv,
         OneRestarter
    <2>3. StopIsAsked'
      BY <1>3 DEF EndDownload, server, bounds, httpd_histories, ServerInv,
         StopIsAsked
    <2>4. ThreadIsKnown'
      BY <1>3 DEF EndDownload, server, bounds, ServerInv, ThreadIsKnown
    <2>5. DeletedFirst'
      BY <1>3 DEF EndDownload, server, bounds, ServerInv, DeletedFirst
    <2>6. InitFirst'
      BY <1>3 DEF EndDownload, server, bounds, ServerInv, InitFirst
    <2>7. BusyWordIsOwned'
      BY <1>3 DEF EndDownload, server, bounds, BusyWordIsOwned
    <2>q. QED
      BY <2>1, <2>2, <2>3, <2>4, <2>5, <2>6, <2>7 DEF ServerInv
  <1>4. CASE Reboot
    <2>1. HttpdTypeOK'
      <3>1. pc' \in [Restarters -> Places]
        BY <1>4 DEF Reboot, Places
      <3>2. faults' \in 0 .. MaxFaults /\ keys' \in 0 .. MaxKeys /\ fail' \in 0 .. 1
        BY <1>4 DEF Reboot, bounds, ServerInv, HttpdTypeOK
      <3>q. QED
        BY <1>4, <3>1, <3>2 DEF Reboot, HttpdTypeOK, Places
    <2>2. OneRestarter'
      BY <1>4 DEF Reboot, Restarters, Restarting, OneRestarter
    <2>3. StopIsAsked' /\ ThreadIsKnown' /\ DeletedFirst' /\ BusyWordIsOwned'
      BY <1>4 DEF Reboot, StopIsAsked, ThreadIsKnown, DeletedFirst, BusyWordIsOwned
    <2>4. InitFirst'
      BY <1>4 DEF Reboot, InitFirst
    <2>q. QED
      BY <2>1, <2>2, <2>3, <2>4 DEF ServerInv
  <1>q. QED
    BY <1>1, <1>2, <1>3, <1>4

(* Every step keeps it. *)
LEMMA ServerStep == ServerInv /\ [HttpdNext]_httpd_vars => ServerInv'
  <1> SUFFICES ASSUME ServerInv, [HttpdNext]_httpd_vars PROVE ServerInv'
    OBVIOUS
  <1>1. CASE HttpdNext
    BY <1>1, ThreadInv, RestartInv, WatchdogInv, OthersInv DEF HttpdNext
  <1>2. CASE UNCHANGED httpd_vars
    BY <1>2
       DEF httpd_vars, ServerInv, HttpdTypeOK, OneRestarter, StopIsAsked, ThreadIsKnown,
           DeletedFirst, InitFirst, BusyWordIsOwned, Restarting
  <1>q. QED
    BY <1>1, <1>2

(* Every variable of the server keeps its type.                              *)
THEOREM ServerTyping ==
  HttpdSpec => []HttpdTypeOK
  <1>1. ServerInv => HttpdTypeOK
    BY DEF ServerInv
  <1>q. QED
    BY ServerInit, ServerStep, <1>1, PTL DEF HttpdSpec

(* httpd_stop never leaves its request to the next thread, but for a thread  *)
(* that has ended by a fault just then.                                      *)
THEOREM NoRequestOutlives ==
  HttpdSpec => []NoStopLeftBehind
  <1>1. ServerInv => NoStopLeftBehind
    BY DEF ServerInv, StopIsAsked, NoStopLeftBehind
  <1>q. QED
    BY ServerInit, ServerStep, <1>1, PTL DEF HttpdSpec

(* ota_progress is busy only as long as an upload, a download or the reboot  *)
(* after it is under way, unless a thread was deleted in the middle of an    *)
(* upload, or an upload succeeded and could not be answered.                 *)
THEOREM BusyWordHasOwner ==
  HttpdSpec => []BusyWordIsOwned
  <1>1. ServerInv => BusyWordIsOwned
    BY DEF ServerInv
  <1>q. QED
    BY ServerInit, ServerStep, <1>1, PTL DEF HttpdSpec
=============================================================================
