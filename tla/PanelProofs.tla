------------------------------ MODULE PanelProofs ----------------------------
(***************************************************************************)
(* Theorems about the relays, the LED and what is said and saved of them,  *)
(* for every number of sockets and every set of commands.                  *)
(*                                                                         *)
(* Two facts about the programs carry the proofs. Linked: what a step      *)
(* leaves in the locals is used by the step right behind it. Paid: a step  *)
(* that changes something is followed, in its own program, by the steps    *)
(* that set the LED, report the change and save it. Both hold of what is   *)
(* left of a program too, so they are invariants; all that the other       *)
(* threads do meanwhile is then a matter of single steps.                  *)
(***************************************************************************)
EXTENDS Panel, SequenceTheorems, TLAPS

-----------------------------------------------------------------------------
(* Steps and programs. *)

Doings ==
  {"relay", "stored", "status", "assign", "enable", "flip", "lock", "fliplock", "force",
   "reforce", "test", "out", "lamp", "read", "send", "save", "unsaved", "connected",
   "blink", "blinked"}

Steps ==
  {s \in [do : Doings, x : Topics, on : Int] :
     s.do \in {"relay", "stored", "status", "assign"} => s.x \in Sockets /\ s.on \in Byte}

(* Step t may come right behind step s. *)
Follows(s, t) ==
  /\ s.do \in {"relay", "stored"} \/ t.do = "status" =>
       s.do \in {"relay", "stored"} /\ t.do = "status" /\ s.x = t.x
  /\ s.do = "read" \/ t.do = "send" => s.do = "read" /\ t.do = "send" /\ s.x = t.x
  /\ s.do = "blink" \/ t.do = "blinked" => s.do = "blink" /\ t.do = "blinked"
  /\ s.do \in {"test", "out"} => t.do = "lamp"
  /\ t.do = "lamp" => s.do \in {"test", "out"} \/ (s.do = "enable" /\ s.on = 0)
  /\ t.do = "out" => s.do = "enable" /\ s.on = t.on
  /\ s.do = "lock" \/ t.do = "force" => s.do = "lock" /\ t.do = "force" /\ s.on = t.on
  /\ s.do = "fliplock" \/ t.do = "reforce" => s.do = "fliplock" /\ t.do = "reforce"

(* A program may start with s, or end with it. *)
Starts(s) == s.do \notin {"status", "send", "blinked", "lamp", "out", "force", "reforce"}
Ends(s)   ==
  s.do \notin {"relay", "stored", "read", "blink", "test", "out", "lock", "fliplock"}

Linked(q) ==
  /\ \A n \in 1 .. Len(q) - 1 : Follows(q[n], q[n + 1])
  /\ q # <<>> => Ends(q[Len(q)])

(* What is to come, in the same program, behind step s. *)
Kind(s) == <<IF s.do = "unsaved" THEN "save" ELSE s.do, s.x>>
Owes(s) ==
  CASE s.do = "status"    -> {<<"lamp", 0>>, <<"read", s.x>>, <<"read", TOTAL>>, <<"save", 0>>}
    [] s.do = "assign"    -> {<<"lamp", 0>>, <<"read", s.x>>, <<"read", TOTAL>>, <<"save", 0>>,
                              <<"status", s.x>>}
    [] s.do \in {"enable", "flip"}   -> {<<"lamp", 0>>, <<"read", LED>>, <<"save", 0>>}
    [] s.do \in {"lock", "fliplock"} -> {<<"save", 0>>}
    [] s.do \in {"force", "reforce"} -> {<<"read", LOCK>>}
    [] s.do = "connected" -> {<<"read", t>> : t \in Topics}
    [] OTHER              -> {}

Kinds(q) == {Kind(q[n]) : n \in 1 .. Len(q)}

(* Everything owed comes, but for W. *)
Paid(q, W) ==
  \A n \in 1 .. Len(q) : \A k \in Owes(q[n]) \ W :
    \E m \in n + 1 .. Len(q) : Kind(q[m]) = k

(* What is left of a program; and a piece that programs are put together of. *)
Rest(q) == q \in Seq(Steps) /\ Linked(q) /\ Paid(q, {})
Piece(q, W) == q \in Seq(Steps) /\ q # <<>> /\ Starts(q[1]) /\ Linked(q) /\ Paid(q, W)

-----------------------------------------------------------------------------
(* The invariant. *)

Locals == [on : Byte, lit : Bit, stale : BOOLEAN, val : Int, older : BOOLEAN]

Programs == \A a \in Actors : Rest(todo[a])

(* There is a step of kind k still to come. *)
ToCome(k) == \E a \in Actors : \E n \in 1 .. Len(todo[a]) : Kind(todo[a][n]) = k

(* Whoever has driven relay i alone is about to write the status that goes  *)
(* with it.                                                                  *)
Driven ==
  \A i \in Sockets : \A a \in Actors :
    Setting(a, i) /\ ~crossed[i] =>
      /\ relay[i] = ToBit(NewStatus(config.status[i], my[a].on) # 0)
      /\ \A b \in Actors : Setting(b, i) => b = a

Agreed ==
  \A i \in Sockets :
    \/ ToCome(<<"status", i>>)
    \/ /\ config.status[i] >= 0
       /\ crossed[i] \/ relay[i] = ToBit(config.status[i] # 0)

(* What was computed for the LED and is not out of date is right. *)
Computed ==
  \A a \in Actors :
    IF At(a, "lamp") THEN my[a].stale \/ my[a].lit = Lit ELSE my[a].lit = 0

(* What somebody goes by who has set the LED's flag, or child_lock, himself. *)
Trusting ==
  \A a \in Actors :
    /\ At(a, "out") => my[a].stale \/ (Arg(a).on # 0 <=> config.enabled # 0)
    /\ At(a, "force") => my[a].stale \/ Char(Arg(a).on) = config.lock

(* Only what is about to be used is out of date. *)
UpToDate ==
  \A a \in Actors :
    my[a].stale => At(a, "out") \/ At(a, "force") \/ At(a, "lamp") \/ At(a, "blinked")

(* The child lock in force is the one to be saved, or will be written. *)
Locked ==
  split \/ childLockEnabled = config.lock \/ \E a \in Actors : At(a, "force") \/ At(a, "reforce")

(* The LED is right, or will be set, or has been inverted to be inverted     *)
(* back.                                                                     *)
Shining ==
  IF Blinking("client")
  THEN my["client"].stale \/ ToCome(<<"lamp", 0>>) \/ led = Flipped(Lit)
  ELSE lamp_off \/ ToCome(<<"lamp", 0>>) \/ led = Lit

(* A report that will show the state as it is. *)
Sending(a, t) == At(a, "send") /\ Arg(a).x = t
Fresh(a, t) == Sending(a, t) /\ (my[a].older \/ my[a].val = State(t))

(* What is shown and what will be sent of t is right, or will be put right. *)
Reported ==
  isconnect =>
    \A t \in Topics :
      \/ /\ shown[t] \in {State(t), OLDER}
         /\ \A a \in Actors : Sending(a, t) => Fresh(a, t)
      \/ ToCome(<<"read", t>>)
      \/ \E a \in Actors : Fresh(a, t)

Kept == config = Booted(flash) \/ unsaved \/ ToCome(<<"save", 0>>)

Typed ==
  /\ given \in Scenarios
  /\ relay \in [Sockets -> Bit]
  /\ config \in Config /\ flash \in Config
  /\ childLockEnabled \in Int /\ split \in BOOLEAN
  /\ led \in Bit
  /\ shown \in [Topics -> Int \cup {UNSAID, OLDER}]
  /\ isconnect \in BOOLEAN /\ unsaved \in BOOLEAN /\ lamp_off \in BOOLEAN
  /\ todo \in [Actors -> Seq(Steps)]
  /\ my \in [Actors -> Locals]
  /\ crossed \in [Sockets -> BOOLEAN]

Core ==
  /\ Typed /\ Programs
  /\ Driven /\ Agreed
  /\ Computed /\ Shining
  /\ Reported
  /\ Kept

Hands == Trusting /\ UpToDate /\ Locked

IInv == Core /\ Hands

-----------------------------------------------------------------------------
(* Facts about programs. *)

(* The topics of the sockets and the three others.                           *)
LEMMA TopicFacts ==
  /\ SOCKET_NUM \in Nat \ {0} /\ 0 \in Sockets /\ SOCKET_NUM - 1 \in Sockets
  /\ Sockets \subseteq Topics /\ 0 \in Topics
  /\ TOTAL \in Topics /\ LED \in Topics /\ LOCK \in Topics
  /\ \A t \in Topics : t \in Sockets \/ t = TOTAL \/ t = LED \/ t = LOCK
  /\ \A i \in Sockets : i # TOTAL /\ i # LED /\ i # LOCK
  /\ TOTAL # LED /\ TOTAL # LOCK /\ LED # LOCK
  BY PanelAssumption DEF Sockets, Topics, TOTAL, LED, LOCK

(* A step that may end a program and one that may start one go together.     *)
LEMMA EndStart ==
  ASSUME NEW s, NEW t, Ends(s), Starts(t)
  PROVE  Follows(s, t)
  BY DEF Ends, Starts, Follows

(* What is left of a program after its first step.                           *)
LEMMA TailRest ==
  ASSUME NEW q, Rest(q), q # <<>>
  PROVE  /\ Head(q) \in Steps /\ Rest(Tail(q))
         /\ Tail(q) = <<>> => Ends(Head(q))
         /\ Tail(q) # <<>> => Follows(Head(q), Head(Tail(q)))
         /\ Owes(Head(q)) \subseteq Kinds(Tail(q))
         /\ Kinds(q) = {Kind(Head(q))} \cup Kinds(Tail(q))
  <1> DEFINE r == Tail(q)
  <1>1. q \in Seq(Steps) /\ Linked(q) /\ Paid(q, {})
    BY DEF Rest
  <1>2. /\ r \in Seq(Steps) /\ Len(r) = Len(q) - 1 /\ Len(q) \in Nat /\ Len(q) >= 1
        /\ \A n \in 1 .. Len(q) - 1 : r[n] = q[n + 1]
        /\ Head(q) = q[1] /\ q[1] \in Steps
    BY <1>1, EmptySeq
  <1> HIDE DEF r
  <1>3. r = <<>> <=> Len(q) = 1
    <2>1. Len(r) = 0 <=> r = <<>>
      BY <1>2, EmptySeq
    <2>q. QED
      BY <1>2, <2>1
  <1>4. r # <<>> => Head(r) = q[2]
    BY <1>2, <1>3
  <1>5. Linked(r)
    <2>1. \A n \in 1 .. Len(r) - 1 : Follows(r[n], r[n + 1])
      BY <1>1, <1>2 DEF Linked
    <2>2. r # <<>> => r[Len(r)] = q[Len(q)]
      BY <1>2, <1>3
    <2>q. QED
      BY <1>1, <1>3, <2>1, <2>2 DEF Linked
  <1>6. Paid(r, {})
    <2> SUFFICES ASSUME NEW n \in 1 .. Len(r), NEW k \in Owes(r[n])
                 PROVE  \E m \in n + 1 .. Len(r) : Kind(r[m]) = k
      BY DEF Paid
    <2>1. n + 1 \in 1 .. Len(q) /\ r[n] = q[n + 1]
      BY <1>2
    <2>2. PICK m \in n + 1 + 1 .. Len(q) : Kind(q[m]) = k
      BY <1>1, <2>1 DEF Paid
    <2>3. m - 1 \in n + 1 .. Len(r) /\ r[m - 1] = q[m]
      BY <1>2, <2>2
    <2>q. QED
      BY <2>2, <2>3
  <1>7. Owes(q[1]) \subseteq Kinds(r)
    <2> SUFFICES ASSUME NEW k \in Owes(q[1]) PROVE k \in Kinds(r)
      OBVIOUS
    <2>0. 1 \in 1 .. Len(q) /\ k \in Owes(q[1]) \ {}
      BY <1>2
    <2>1. PICK m \in 1 + 1 .. Len(q) : Kind(q[m]) = k
      BY <1>1, <2>0 DEF Paid
    <2>2. m - 1 \in 1 .. Len(r) /\ r[m - 1] = q[m]
      BY <1>2, <2>1
    <2>q. QED
      BY <2>1, <2>2 DEF Kinds
  <1>8. Kinds(q) = {Kind(q[1])} \cup Kinds(r)
    <2>1. \A n \in 1 .. Len(q) : n = 1 \/ (n - 1 \in 1 .. Len(r) /\ r[n - 1] = q[n])
      BY <1>2
    <2>2. \A n \in 1 .. Len(r) : n + 1 \in 1 .. Len(q) /\ r[n] = q[n + 1]
      BY <1>2
    <2>3. 1 \in 1 .. Len(q)
      BY <1>2
    <2>q. QED
      BY <2>1, <2>2, <2>3 DEF Kinds
  <1>9. r = <<>> => Ends(q[1])
    BY <1>1, <1>2, <1>3 DEF Linked
  <1>10. r # <<>> => Follows(q[1], q[2])
    <2>1. r # <<>> => 1 \in 1 .. Len(q) - 1
      BY <1>2, <1>3
    <2>q. QED
      BY <1>1, <2>1 DEF Linked
  <1>q. QED
    BY <1>2, <1>4, <1>5, <1>6, <1>7, <1>8, <1>9, <1>10 DEF Rest, r

(* A piece of one step.                                                      *)
LEMMA OneStep ==
  ASSUME NEW s \in Steps, Starts(s), Ends(s), NEW W, Owes(s) \subseteq W
  PROVE  Piece(<<s>>, W) /\ Len(<<s>>) = 1 /\ Kinds(<<s>>) = {Kind(s)}
  <1> DEFINE q == <<s>>
  <1>1. q \in Seq(Steps) /\ Len(q) = 1 /\ q[1] = s /\ q # <<>>
    OBVIOUS
  <1> HIDE DEF q
  <1>2. Linked(q) /\ Paid(q, W) /\ Kinds(q) = {Kind(s)}
    BY <1>1 DEF Linked, Paid, Kinds
  <1>q. QED
    BY <1>1, <1>2 DEF Piece, q

(* A piece of two.                                                           *)
LEMMA TwoSteps ==
  ASSUME NEW s \in Steps, NEW t \in Steps, Starts(s), Follows(s, t), Ends(t), NEW W,
         Owes(s) \subseteq W \cup {Kind(t)}, Owes(t) \subseteq W
  PROVE  /\ Piece(<<s, t>>, W) /\ Len(<<s, t>>) = 2
         /\ Kinds(<<s, t>>) = {Kind(s), Kind(t)}
  <1> DEFINE q == <<s, t>>
  <1>1. q \in Seq(Steps) /\ Len(q) = 2 /\ q[1] = s /\ q[2] = t /\ q # <<>>
    OBVIOUS
  <1> HIDE DEF q
  <1>2. Linked(q)
    BY <1>1 DEF Linked
  <1>3. Paid(q, W)
    <2> SUFFICES ASSUME NEW n \in 1 .. 2, NEW k \in Owes(q[n]) \ W
                 PROVE  \E m \in n + 1 .. 2 : Kind(q[m]) = k
      BY <1>1 DEF Paid
    <2>1. n = 1 /\ k = Kind(t)
      BY <1>1
    <2>2. 2 \in n + 1 .. 2
      BY <2>1
    <2>q. QED
      BY <1>1, <2>1, <2>2
  <1>4. Kinds(q) = {Kind(s), Kind(t)}
    <2>1. \A n \in 1 .. Len(q) : n = 1 \/ n = 2
      BY <1>1
    <2>2. 1 \in 1 .. Len(q) /\ 2 \in 1 .. Len(q)
      BY <1>1
    <2>q. QED
      BY <1>1, <2>1, <2>2 DEF Kinds
  <1>q. QED
    BY <1>1, <1>2, <1>3, <1>4 DEF Piece, q

(* A piece of three, of which the first two change nothing for the third.    *)
LEMMA ThreeSteps ==
  ASSUME NEW s \in Steps, NEW t \in Steps, NEW u \in Steps,
         Starts(s), Follows(s, t), Follows(t, u), Ends(u), NEW W,
         Owes(s) \subseteq W \cup {Kind(u)}, Owes(t) = {}, Owes(u) = {}
  PROVE  Piece(<<s, t, u>>, W)
  <1> DEFINE q == <<s, t, u>>
  <1>1. q \in Seq(Steps) /\ Len(q) = 3 /\ q[1] = s /\ q[2] = t /\ q[3] = u /\ q # <<>>
    OBVIOUS
  <1> HIDE DEF q
  <1>2. Linked(q)
    <2>1. \A n \in 1 .. Len(q) - 1 : n = 1 \/ n = 2
      BY <1>1
    <2>q. QED
      BY <1>1, <2>1 DEF Linked
  <1>3. Paid(q, W)
    <2> SUFFICES ASSUME NEW n \in 1 .. 3, NEW k \in Owes(q[n]) \ W
                 PROVE  \E m \in n + 1 .. 3 : Kind(q[m]) = k
      BY <1>1 DEF Paid
    <2>1. n = 1 \/ n = 2 \/ n = 3
      OBVIOUS
    <2>2. n = 1 /\ k = Kind(u)
      BY <1>1, <2>1
    <2>3. 3 \in n + 1 .. 3
      BY <2>2
    <2>q. QED
      BY <1>1, <2>2, <2>3
  <1>q. QED
    BY <1>1, <1>2, <1>3 DEF Piece, q

(* One piece behind another: what the first owes may come in the second.     *)
LEMMA TwoPieces ==
  ASSUME NEW p, NEW q, NEW V, NEW W, Piece(p, V), Piece(q, W), V \subseteq W \cup Kinds(q)
  PROVE  /\ Piece(p \o q, W) /\ Len(p \o q) = Len(p) + Len(q)
         /\ Kinds(p \o q) = Kinds(p) \cup Kinds(q)
  <1> DEFINE r == p \o q
  <1>1. /\ p \in Seq(Steps) /\ p # <<>> /\ Linked(p) /\ Paid(p, V) /\ Starts(p[1])
        /\ q \in Seq(Steps) /\ q # <<>> /\ Linked(q) /\ Paid(q, W) /\ Starts(q[1])
    BY DEF Piece
  <1>2. Len(p) \in Nat \ {0} /\ Len(q) \in Nat \ {0}
    BY <1>1, EmptySeq
  <1>3. /\ r \in Seq(Steps) /\ Len(r) = Len(p) + Len(q)
        /\ \A n \in 1 .. Len(p) : r[n] = p[n]
        /\ \A n \in 1 .. Len(q) : r[Len(p) + n] = q[n]
    BY <1>1, <1>2
  <1> HIDE DEF r
  <1>4. r # <<>> /\ r[1] = p[1]
    BY <1>2, <1>3, EmptySeq
  <1>5. \A n \in 1 .. Len(r) : n \in 1 .. Len(p) \/ (n - Len(p) \in 1 .. Len(q)
                                                      /\ r[n] = q[n - Len(p)])
    BY <1>2, <1>3
  <1>6. Linked(r)
    <2>1. Ends(p[Len(p)]) /\ Ends(q[Len(q)])
      BY <1>1 DEF Linked
    <2>2. ASSUME NEW n \in 1 .. Len(r) - 1 PROVE Follows(r[n], r[n + 1])
      <3>1. CASE n < Len(p)
        <4>1. n \in 1 .. Len(p) - 1 /\ r[n] = p[n] /\ r[n + 1] = p[n + 1]
          BY <1>2, <1>3, <3>1
        <4>q. QED
          BY <1>1, <4>1 DEF Linked
      <3>2. CASE n = Len(p)
        <4>1. r[n] = p[Len(p)] /\ r[n + 1] = q[1]
          BY <1>2, <1>3, <3>2
        <4>q. QED
          BY <1>1, <2>1, <4>1, EndStart
      <3>3. CASE n > Len(p)
        <4> DEFINE j == n - Len(p)
        <4>1. j \in 1 .. Len(q) - 1 /\ n = Len(p) + j /\ n + 1 = Len(p) + (j + 1)
          BY <1>2, <1>3, <3>3
        <4> HIDE DEF j
        <4>2. r[n] = q[j] /\ r[n + 1] = q[j + 1]
          BY <1>2, <1>3, <4>1
        <4>q. QED
          BY <1>1, <4>1, <4>2 DEF Linked
      <3>q. QED
        BY <1>2, <3>1, <3>2, <3>3
    <2>3. r[Len(r)] = q[Len(q)]
      BY <1>2, <1>3
    <2>q. QED
      BY <2>1, <2>2, <2>3 DEF Linked
  <1>7. Paid(r, W)
    <2> SUFFICES ASSUME NEW n \in 1 .. Len(r), NEW k \in Owes(r[n]) \ W
                 PROVE  \E m \in n + 1 .. Len(r) : Kind(r[m]) = k
      BY DEF Paid
    <2>1. CASE n \in 1 .. Len(p) /\ k \notin V
      <3>1. PICK m \in n + 1 .. Len(p) : Kind(p[m]) = k
        BY <1>1, <1>3, <2>1 DEF Paid
      <3>2. m \in n + 1 .. Len(r) /\ r[m] = p[m]
        BY <1>2, <1>3, <3>1
      <3>q. QED
        BY <3>1, <3>2
    <2>2. CASE n \in 1 .. Len(p) /\ k \in V
      <3>1. PICK m \in 1 .. Len(q) : Kind(q[m]) = k
        BY <2>2 DEF Kinds
      <3>2. Len(p) + m \in n + 1 .. Len(r) /\ r[Len(p) + m] = q[m]
        BY <1>2, <1>3, <2>2
      <3>q. QED
        BY <3>1, <3>2
    <2>3. CASE n \notin 1 .. Len(p)
      <3> DEFINE j == n - Len(p)
      <3>1. j \in 1 .. Len(q) /\ r[n] = q[j]
        BY <1>5, <2>3
      <3> HIDE DEF j
      <3>1a. k \in Owes(q[j]) \ W
        BY <3>1
      <3>2. PICK m \in j + 1 .. Len(q) : Kind(q[m]) = k
        BY <1>1, <3>1, <3>1a DEF Paid
      <3>2a. j \in Int /\ n = Len(p) + j /\ n \in Int
        BY <1>2, <1>3 DEF j
      <3>2b. m \in 1 .. Len(q) /\ m >= j + 1
        BY <1>2, <3>1, <3>2, <3>2a
      <3>2c. r[Len(p) + m] = q[m]
        BY <1>3, <3>2b
      <3>3. Len(p) + m \in n + 1 .. Len(r) /\ r[Len(p) + m] = q[m]
        BY <1>2, <1>3, <3>2a, <3>2b, <3>2c
      <3>q. QED
        BY <3>2, <3>3
    <2>q. QED
      BY <2>1, <2>2, <2>3
  <1>8. Kinds(r) = Kinds(p) \cup Kinds(q)
    <2>1. \A n \in 1 .. Len(p) : n \in 1 .. Len(r) /\ r[n] = p[n]
      BY <1>2, <1>3
    <2>2. \A n \in 1 .. Len(q) : Len(p) + n \in 1 .. Len(r) /\ r[Len(p) + n] = q[n]
      BY <1>2, <1>3
    <2>q. QED
      BY <1>5, <2>1, <2>2 DEF Kinds
  <1>q. QED
    BY <1>1, <1>3, <1>4, <1>6, <1>7, <1>8 DEF Piece, r

(* A piece owes no less than W but may owe more.                             *)
LEMMA OwesMore ==
  ASSUME NEW p, NEW V, NEW W, Piece(p, V), V \subseteq W
  PROVE  Piece(p, W)
  BY DEF Piece, Paid

(* What a number is made of its quotient and its remainder.                  *)
LEMMA Division ==
  ASSUME NEW x \in Nat, NEW w \in Nat \ {0}
  PROVE  x \div w \in Nat /\ x % w \in 0 .. w - 1 /\ x = (x \div w) * w + (x % w)
  OBVIOUS

(* The place of step r of block i among blocks of w steps.                   *)
LEMMA BlockPlace ==
  ASSUME NEW w \in Nat \ {0}, NEW i \in Sockets, NEW r \in 1 .. w
  PROVE  /\ i * w + r \in 1 .. SOCKET_NUM * w
         /\ ((i * w + r) - 1) \div w = i /\ 1 + (((i * w + r) - 1) % w) = r
  <1> DEFINE x == (i * w + r) - 1
             d == x \div w
             m == x % w
  <1>1. i \in Nat /\ i <= SOCKET_NUM - 1 /\ SOCKET_NUM \in Nat /\ r \in Nat
    BY TopicFacts DEF Sockets
  <1>2. i * w \in Nat /\ SOCKET_NUM * w \in Nat /\ i * w + w <= SOCKET_NUM * w
    <2>1. i * w \in Nat /\ SOCKET_NUM * w \in Nat
      BY <1>1
    <2>2. (SOCKET_NUM - (i + 1)) * w >= 0
      BY <1>1
    <2>3. (SOCKET_NUM - (i + 1)) * w = SOCKET_NUM * w - (i * w + w)
      BY <1>1
    <2>q. QED
      BY <2>1, <2>2, <2>3
  <1>3. x \in Nat /\ x = i * w + (r - 1)
    BY <1>1, <1>2
  <1>4. d \in Int /\ m \in 0 .. w - 1 /\ x = d * w + m
    <2>1. x \in Nat
      BY <1>3
    <2> HIDE DEF x
    <2>2. x \div w \in Nat /\ x % w \in 0 .. w - 1 /\ x = (x \div w) * w + (x % w)
      BY <2>1, Division
    <2>q. QED
      BY <2>2
  <1> HIDE DEF x, d, m
  <1>5. (d - i) * w = (r - 1) - m
    BY <1>1, <1>3, <1>4
  <1>6. d = i
    <2>1. CASE d - i >= 1
      <3>1. (d - i) * w >= w
        BY <1>1, <1>4, <2>1
      <3>q. QED
        BY <1>1, <1>4, <1>5, <3>1
    <2>2. CASE d - i <= -1
      <3>1. (d - i) * w <= -w
        BY <1>1, <1>4, <2>2
      <3>q. QED
        BY <1>1, <1>4, <1>5, <3>1
    <2>q. QED
      BY <1>1, <1>4, <2>1, <2>2
  <1>7. m = r - 1
    BY <1>1, <1>3, <1>4, <1>6
  <1>q. QED
    BY <1>1, <1>2, <1>6, <1>7 DEF x, d, m

(* Every place is that of a step of a block.                                 *)
LEMMA PlaceOfBlock ==
  ASSUME NEW w \in Nat \ {0}, NEW k \in 1 .. SOCKET_NUM * w
  PROVE  \E i \in Sockets : \E r \in 1 .. w : k = i * w + r
  <1> DEFINE i == (k - 1) \div w
             m == (k - 1) % w
  <1>1. SOCKET_NUM \in Nat /\ SOCKET_NUM * w \in Nat
    BY TopicFacts
  <1>2. k - 1 \in Nat /\ k - 1 < SOCKET_NUM * w
    BY <1>1
  <1>3. i \in Nat /\ m \in 0 .. w - 1 /\ k - 1 = i * w + m
    BY <1>2
  <1> HIDE DEF i, m
  <1>4. i <= SOCKET_NUM - 1
    <2>1. CASE i >= SOCKET_NUM
      <3>1. (i - SOCKET_NUM) * w >= 0
        BY <1>1, <1>3, <2>1
      <3>q. QED
        BY <1>1, <1>2, <1>3, <3>1
    <2>q. QED
      BY <1>1, <1>3, <2>1
  <1>5. i \in Sockets /\ m + 1 \in 1 .. w /\ k = i * w + (m + 1)
    BY <1>1, <1>2, <1>3, <1>4 DEF Sockets
  <1>q. QED
    BY <1>5

(* The same piece for every socket is a piece.                               *)
LEMMA PieceForAll ==
  ASSUME NEW f, NEW W,
         \A i \in Sockets : Piece(f[i], W) /\ Len(f[i]) = Len(f[0])
  PROVE  /\ Piece(ForAll(f), W)
         /\ \A i \in Sockets : Kinds(f[i]) \subseteq Kinds(ForAll(f))
  <1> DEFINE F == ForAll(f)
             N == SOCKET_NUM
             w == Len(f[0])
  <1>1. N \in Nat \ {0} /\ 0 \in Sockets /\ N - 1 \in Sockets /\ Sockets = 0 .. N - 1
    BY TopicFacts DEF Sockets
  <1>1a. w \in Nat \ {0}
    <2>1. f[0] \in Seq(Steps) /\ f[0] # <<>>
      BY <1>1 DEF Piece
    <2>q. QED
      BY <2>1, EmptySeq
  <1>2. N * w \in Nat \ {0}
    BY <1>1, <1>1a
  <1>3. F = [k \in 1 .. N * w |-> f[(k - 1) \div w][1 + ((k - 1) % w)]]
    BY <1>1 DEF ForAll
  <1>4. \A i \in Sockets : /\ f[i] \in Seq(Steps) /\ Len(f[i]) = w /\ Linked(f[i])
                           /\ Starts(f[i][1]) /\ Ends(f[i][w]) /\ Paid(f[i], W)
    BY DEF Piece, Linked
  <1> HIDE DEF F, w
  <1>5. \A i \in Sockets : \A r \in 1 .. w :
          i * w + r \in 1 .. N * w /\ F[i * w + r] = f[i][r]
    <2> TAKE i \in Sockets
    <2> TAKE r \in 1 .. w
    <2> DEFINE k == i * w + r
    <2>1. k \in 1 .. N * w /\ (k - 1) \div w = i /\ 1 + ((k - 1) % w) = r
      BY <1>1a, BlockPlace
    <2> HIDE DEF k
    <2>2. F[k] = f[i][r]
      BY <1>3, <2>1
    <2>q. QED
      BY <2>1, <2>2 DEF k
  <1>6. \A k \in 1 .. N * w : \E i \in Sockets : \E r \in 1 .. w : k = i * w + r
    BY <1>1a, PlaceOfBlock
  <1>7. F \in Seq(Steps) /\ Len(F) = N * w
    <2>1. \A k \in 1 .. N * w : F[k] \in Steps
      <3> TAKE k \in 1 .. N * w
      <3>1. PICK i \in Sockets, r \in 1 .. w : k = i * w + r
        BY <1>6
      <3>2. f[i][r] \in Steps
        BY <1>4
      <3>q. QED
        BY <1>5, <3>1, <3>2
    <2> HIDE DEF N
    <2>2. DOMAIN F = 1 .. N * w /\ F = [k \in 1 .. N * w |-> F[k]]
      BY <1>3
    <2>3. F \in [1 .. N * w -> Steps]
      BY <2>1, <2>2
    <2>q. QED
      BY <1>2, <2>3, IsASeq, LenProperties
  <1>8. F # <<>> /\ F[1] = f[0][1]
    <2>1. 1 = 0 * w + 1 /\ 1 \in 1 .. w
      BY <1>1a
    <2>q. QED
      BY <1>1, <1>2, <1>5, <1>7, <2>1, EmptySeq
  <1> HIDE DEF N
  <1>9. Linked(F)
    <2>1. ASSUME NEW k \in 1 .. N * w - 1 PROVE Follows(F[k], F[k + 1])
      <3>1. k \in 1 .. N * w /\ k + 1 \in 1 .. N * w
        BY <1>2
      <3>2. PICK i \in Sockets, r \in 1 .. w : k = i * w + r
        BY <1>6, <3>1
      <3>3. i \in Nat /\ i * w \in Nat /\ w \in Nat
        BY <1>1, <1>1a
      <3>4. CASE r < w
        <4>1. r + 1 \in 1 .. w /\ k + 1 = i * w + (r + 1) /\ r \in 1 .. w - 1
          BY <1>1a, <3>2, <3>3, <3>4
        <4>2. F[k] = f[i][r] /\ F[k + 1] = f[i][r + 1]
          BY <1>5, <3>2, <4>1
        <4>q. QED
          BY <1>4, <4>1, <4>2 DEF Linked
      <3>5. CASE r = w
        <4>1. k + 1 = (i + 1) * w + 1
          BY <3>2, <3>3, <3>5
        <4>2. i + 1 \in Sockets
          <5>1. CASE i = N - 1
            <6>1. k = N * w
              BY <1>1, <3>2, <3>5, <5>1
            <6>q. QED
              BY <1>2, <6>1
          <5>q. QED
            BY <1>1, <5>1
        <4>3. F[k] = f[i][w] /\ F[k + 1] = f[i + 1][1]
          <5>1. 1 \in 1 .. w
            BY <1>1a
          <5>q. QED
            BY <1>5, <3>2, <3>5, <4>1, <4>2, <5>1
        <4>4. Ends(f[i][w]) /\ Starts(f[i + 1][1])
          BY <1>4, <4>2
        <4>q. QED
          BY <4>3, <4>4, EndStart
      <3>q. QED
        BY <1>1a, <3>4, <3>5
    <2>2. Ends(F[N * w])
      <3>1. N * w = (N - 1) * w + w /\ w \in 1 .. w
        BY <1>1, <1>1a
      <3>2. F[N * w] = f[N - 1][w]
        BY <1>1, <1>5, <3>1
      <3>q. QED
        BY <1>1, <1>4, <3>2
    <2>q. QED
      BY <1>7, <2>1, <2>2 DEF Linked
  <1>10. Paid(F, W)
    <2> SUFFICES ASSUME NEW n \in 1 .. N * w, NEW k \in Owes(F[n]) \ W
                 PROVE  \E m \in n + 1 .. N * w : Kind(F[m]) = k
      BY <1>7 DEF Paid
    <2>1. PICK i \in Sockets, r \in 1 .. w : n = i * w + r
      BY <1>6
    <2>2. F[n] = f[i][r] /\ Len(f[i]) = w
      BY <1>4, <1>5, <2>1
    <2>3. PICK m \in r + 1 .. w : Kind(f[i][m]) = k
      BY <1>4, <2>2 DEF Paid
    <2>4. m \in 1 .. w /\ i * w + m \in n + 1 .. N * w
      <3>1. m \in 1 .. w /\ i * w \in Nat
        BY <1>1, <1>1a, <2>3
      <3>2. i * w + m \in 1 .. N * w
        BY <1>5, <3>1
      <3>q. QED
        BY <1>2, <2>1, <2>3, <3>1, <3>2
    <2>5. F[i * w + m] = f[i][m]
      BY <1>5, <2>4
    <2>q. QED
      BY <2>3, <2>4, <2>5
  <1>11. ASSUME NEW i \in Sockets PROVE Kinds(f[i]) \subseteq Kinds(F)
    BY <1>4, <1>5, <1>7 DEF Kinds
  <1>q. QED
    BY <1>7, <1>8, <1>9, <1>10, <1>11, <1>4, <1>1 DEF Piece, F

-----------------------------------------------------------------------------
(* The programs. *)

(* What a step that changes a socket owes beside the LED. *)
OwedReports == {<<"read", t>> : t \in Sockets \cup {TOTAL}} \cup {<<"save", 0>>}

(* Testing and setting the LED.                                              *)
LEMMA SetLedPiece ==
  /\ Piece(SetLed, {}) /\ Len(SetLed) = 2 /\ <<"lamp", 0>> \in Kinds(SetLed)
  /\ \A W : Piece(SetLed, W)
  <1> DEFINE s == Step("test", 0, 0)
             t == Step("lamp", 0, 0)
  <1>1. /\ s \in Steps /\ t \in Steps /\ Starts(s) /\ Follows(s, t) /\ Ends(t)
        /\ s.do = "test" /\ t.do = "lamp" /\ t.x = 0
    BY TopicFacts DEF Step, Steps, Doings, Starts, Follows, Ends, Byte
  <1>2. Owes(s) = {} /\ Owes(t) = {} /\ Kind(t) = <<"lamp", 0>>
    BY <1>1 DEF Owes, Kind
  <1>3. SetLed = <<s, t>>
    BY DEF SetLed
  <1> HIDE DEF s, t
  <1>4. Piece(<<s, t>>, {}) /\ Len(<<s, t>>) = 2 /\ Kinds(<<s, t>>) = {Kind(s), Kind(t)}
    BY <1>1, <1>2, TwoSteps
  <1>q. QED
    BY <1>2, <1>3, <1>4, OwesMore

(* The report of a topic.                                                    *)
LEMMA ReportPiece ==
  ASSUME NEW u \in Topics
  PROVE  /\ Len(Report(u)) = 2 /\ <<"read", u>> \in Kinds(Report(u))
         /\ \A W : Piece(Report(u), W)
  <1> DEFINE s == Step("read", u, 0)
             t == Step("send", u, 0)
  <1>1. /\ s \in Steps /\ t \in Steps /\ Starts(s) /\ Follows(s, t) /\ Ends(t)
        /\ s.do = "read" /\ t.do = "send" /\ s.x = u
    BY TopicFacts DEF Step, Steps, Doings, Starts, Follows, Ends, Byte
  <1>2. Owes(s) = {} /\ Owes(t) = {} /\ Kind(s) = <<"read", u>>
    BY <1>1 DEF Owes, Kind
  <1>3. Report(u) = <<s, t>>
    BY DEF Report
  <1> HIDE DEF s, t
  <1>4. Piece(<<s, t>>, {}) /\ Len(<<s, t>>) = 2 /\ Kinds(<<s, t>>) = {Kind(s), Kind(t)}
    BY <1>1, <1>2, TwoSteps
  <1>q. QED
    BY <1>2, <1>3, <1>4, OwesMore

(* A step that stands alone.                                                 *)
LEMMA Alone ==
  ASSUME NEW do \in {"save", "unsaved", "assign", "enable", "flip", "connected"},
         NEW x \in Topics, NEW on \in Int,
         do = "assign" => x \in Sockets /\ on \in Byte,
         NEW W, Owes(Step(do, x, on)) \subseteq W
  PROVE  /\ Piece(<<Step(do, x, on)>>, W) /\ Len(<<Step(do, x, on)>>) = 1
         /\ Kinds(<<Step(do, x, on)>>) = {Kind(Step(do, x, on))}
  <1> DEFINE s == Step(do, x, on)
  <1>1. s \in Steps /\ Starts(s) /\ Ends(s)
    BY DEF Step, Steps, Doings, Starts, Ends
  <1> HIDE DEF s
  <1>2. Owes(s) \subseteq W
    BY DEF s
  <1>3. Piece(<<s>>, W) /\ Len(<<s>>) = 1 /\ Kinds(<<s>>) = {Kind(s)}
    BY <1>1, <1>2, OneStep
  <1>q. QED
    BY <1>3 DEF s

(* Saving, or giving it up.                                                  *)
LEMMA SavePiece ==
  /\ <<"save", 0>> \in Kinds(Save) /\ <<"save", 0>> \in Kinds(<<Step("unsaved", 0, 0)>>)
  /\ \A W : Piece(Save, W) /\ Piece(<<Step("unsaved", 0, 0)>>, W)
  <1>1. /\ Owes(Step("save", 0, 0)) = {} /\ Kind(Step("save", 0, 0)) = <<"save", 0>>
        /\ Owes(Step("unsaved", 0, 0)) = {} /\ Kind(Step("unsaved", 0, 0)) = <<"save", 0>>
    BY DEF Owes, Kind, Step
  <1>2. 0 \in Topics
    BY TopicFacts
  <1>3. /\ Piece(<<Step("save", 0, 0)>>, {}) /\ Piece(<<Step("unsaved", 0, 0)>>, {})
        /\ Kinds(<<Step("save", 0, 0)>>) = {<<"save", 0>>}
        /\ Kinds(<<Step("unsaved", 0, 0)>>) = {<<"save", 0>>}
    BY <1>1, <1>2, Alone
  <1>q. QED
    BY <1>3, OwesMore DEF Save

(* A char is one.                                                            *)
LEMMA CharIsByte ==
  ASSUME NEW n \in Int
  PROVE  Char(n) \in Byte
  <1>1. (n + 128) % 256 \in 0 .. 255
    OBVIOUS
  <1>q. QED
    BY <1>1 DEF Char, Byte

(* What a relay may be told.                                                 *)
LEMMA KnownAreBytes ==
  Known \subseteq Byte /\ Bit \subseteq Byte /\ 0 \in Byte
  BY DEF Known, Bit, TOGGLE, Byte

(* UserRelaySet sets the LED itself and leaves the reports and the saving to *)
(* its callers.                                                              *)
LEMMA DrivePiece ==
  ASSUME NEW i \in Sockets, NEW do \in {"relay", "stored"}, NEW on \in Byte,
         NEW q, q = <<Step(do, i, on), Step("status", i, on)>> \o SetLed
  PROVE  /\ Piece(q, {<<"read", i>>, <<"read", TOTAL>>, <<"save", 0>>})
         /\ Len(q) = 4
         /\ <<"status", i>> \in Kinds(q) /\ <<"lamp", 0>> \in Kinds(q)
  <1> DEFINE s == Step(do, i, on)
             t == Step("status", i, on)
             W == {<<"read", i>>, <<"read", TOTAL>>, <<"save", 0>>}
  <1>1. /\ s \in Steps /\ t \in Steps /\ Starts(s) /\ Follows(s, t) /\ Ends(t)
        /\ s.do \in {"relay", "stored"} /\ t.do = "status" /\ t.x = i
    <2>1. on \in Int
      BY DEF Byte
    <2>q. QED
      BY <2>1, TopicFacts DEF Step, Steps, Doings, Starts, Follows, Ends
  <1>2. Owes(s) = {} /\ Owes(t) = W \cup {<<"lamp", 0>>} /\ Kind(t) = <<"status", i>>
    BY <1>1 DEF Owes, Kind
  <1>6. q = <<s, t>> \o SetLed
    OBVIOUS
  <1> HIDE DEF s, t
  <1>3. /\ Piece(<<s, t>>, W \cup {<<"lamp", 0>>}) /\ Len(<<s, t>>) = 2
        /\ Kinds(<<s, t>>) = {Kind(s), Kind(t)}
    BY <1>1, <1>2, TwoSteps
  <1>4. Piece(SetLed, {}) /\ Len(SetLed) = 2 /\ <<"lamp", 0>> \in Kinds(SetLed)
    BY SetLedPiece
  <1>5. Piece(SetLed, W)
    BY <1>4, OwesMore
  <1> HIDE DEF W
  <1>7. /\ Piece(<<s, t>> \o SetLed, W) /\ Len(<<s, t>> \o SetLed) = 2 + 2
        /\ Kinds(<<s, t>> \o SetLed) = Kinds(<<s, t>>) \cup Kinds(SetLed)
    BY <1>3, <1>4, <1>5, TwoPieces
  <1>8. <<"status", i>> \in Kinds(q)
    BY <1>2, <1>3, <1>6, <1>7
  <1>9. <<"lamp", 0>> \in Kinds(q)
    BY <1>4, <1>6, <1>7
  <1>10. Piece(q, W) /\ Len(q) = 4
    BY <1>6, <1>7
  <1>q. QED
    BY <1>8, <1>9, <1>10 DEF W

(* ... with a value that is given, or with the status that is there.         *)
LEMMA RelaySetPiece ==
  ASSUME NEW i \in Sockets, NEW on \in Byte
  PROVE  /\ Piece(UserRelaySet(i, on), {<<"read", i>>, <<"read", TOTAL>>, <<"save", 0>>})
         /\ Len(UserRelaySet(i, on)) = 4
  BY DrivePiece DEF UserRelaySet

(* A status that is there is carried out.                                    *)
LEMMA CarryOutPiece ==
  ASSUME NEW i \in Sockets
  PROVE  /\ Piece(CarryOut(i), {<<"read", i>>, <<"read", TOTAL>>, <<"save", 0>>})
         /\ Len(CarryOut(i)) = 4
         /\ <<"status", i>> \in Kinds(CarryOut(i)) /\ <<"lamp", 0>> \in Kinds(CarryOut(i))
  BY DrivePiece, KnownAreBytes DEF CarryOut

(* UserRelaySet for every socket in turn.                                    *)
LEMMA RelaySetAllPiece ==
  ASSUME NEW on \in Byte
  PROVE  Piece(UserRelaySetAll(on), OwedReports)
  <1> DEFINE f == [i \in Sockets |-> UserRelaySet(i, on)]
  <1>1. ASSUME NEW i \in Sockets PROVE Piece(f[i], OwedReports) /\ Len(f[i]) = 4
    <2>1. {<<"read", i>>, <<"read", TOTAL>>, <<"save", 0>>} \subseteq OwedReports
      BY TopicFacts DEF OwedReports
    <2>2. /\ Piece(UserRelaySet(i, on), {<<"read", i>>, <<"read", TOTAL>>, <<"save", 0>>})
          /\ Len(UserRelaySet(i, on)) = 4
      BY RelaySetPiece
    <2>3. Piece(UserRelaySet(i, on), OwedReports)
      BY <2>1, <2>2, OwesMore
    <2>q. QED
      BY <2>2, <2>3
  <1> HIDE DEF f
  <1>1a. \A i \in Sockets : Len(f[i]) = Len(f[0])
    BY <1>1, TopicFacts
  <1>2. Piece(ForAll(f), OwedReports)
    BY <1>1, <1>1a, PieceForAll
  <1>q. QED
    BY <1>2 DEF UserRelaySetAll, f

(* A report of every socket.                                                 *)
LEMMA ReportEachPiece ==
  /\ \A W : Piece(ReportEach, W)
  /\ \A i \in Sockets : <<"read", i>> \in Kinds(ReportEach)
  <1> DEFINE f == [i \in Sockets |-> Report(i)]
  <1>1. ASSUME NEW i \in Sockets
        PROVE  Piece(f[i], {}) /\ Len(f[i]) = 2 /\ <<"read", i>> \in Kinds(f[i])
    BY TopicFacts, ReportPiece
  <1> HIDE DEF f
  <1>1a. \A i \in Sockets : Len(f[i]) = Len(f[0])
    BY <1>1, TopicFacts
  <1>2. Piece(ForAll(f), {}) /\ \A i \in Sockets : Kinds(f[i]) \subseteq Kinds(ForAll(f))
    BY <1>1, <1>1a, PieceForAll
  <1>3. ReportEach = ForAll(f)
    BY DEF ReportEach, f
  <1>q. QED
    BY <1>1, <1>2, <1>3, OwesMore

(* Each status is carried out and reported.                                  *)
LEMMA CarryOutEachPiece ==
  /\ Piece(CarryOutEach, {<<"read", TOTAL>>, <<"save", 0>>})
  /\ <<"lamp", 0>> \in Kinds(CarryOutEach)
  /\ \A i \in Sockets : /\ <<"read", i>> \in Kinds(CarryOutEach)
                         /\ <<"status", i>> \in Kinds(CarryOutEach)
  <1> DEFINE f == [i \in Sockets |-> CarryOut(i) \o Report(i)]
             W == {<<"read", TOTAL>>, <<"save", 0>>}
  <1>1. ASSUME NEW i \in Sockets
        PROVE  /\ Piece(f[i], W) /\ Len(f[i]) = 6
               /\ {<<"read", i>>, <<"status", i>>, <<"lamp", 0>>} \subseteq Kinds(f[i])
    <2> DEFINE p == CarryOut(i)
               q == Report(i)
               V == {<<"read", i>>, <<"read", TOTAL>>, <<"save", 0>>}
    <2>1. Piece(p, V) /\ Len(p) = 4 /\ {<<"status", i>>, <<"lamp", 0>>} \subseteq Kinds(p)
      BY CarryOutPiece
    <2>2. Piece(q, W) /\ Len(q) = 2 /\ <<"read", i>> \in Kinds(q)
      BY TopicFacts, ReportPiece
    <2>3. f[i] = p \o q
      OBVIOUS
    <2>4. V \subseteq W \cup Kinds(q)
      BY <2>2
    <2> HIDE DEF p, q, V, W, f
    <2>5. Piece(p \o q, W) /\ Len(p \o q) = 4 + 2 /\ Kinds(p \o q) = Kinds(p) \cup Kinds(q)
      BY <2>1, <2>2, <2>4, TwoPieces
    <2>q. QED
      BY <2>1, <2>2, <2>3, <2>5
  <1> HIDE DEF f, W
  <1>1a. \A i \in Sockets : Len(f[i]) = Len(f[0])
    BY <1>1, TopicFacts
  <1>2. Piece(ForAll(f), W) /\ \A i \in Sockets : Kinds(f[i]) \subseteq Kinds(ForAll(f))
    BY <1>1, <1>1a, PieceForAll
  <1>3. CarryOutEach = ForAll(f)
    BY DEF CarryOutEach, f
  <1>q. QED
    BY <1>1, <1>2, <1>3, TopicFacts DEF W

(* The statuses are assigned; everything is still owed.                      *)
LEMMA AssignEachPiece ==
  ASSUME NEW v \in [Sockets -> Int]
  PROVE  Piece(AssignEach(v),
               {<<"lamp", 0>>} \cup {<<"status", i>> : i \in Sockets} \cup OwedReports)
  <1> DEFINE f == [i \in Sockets |-> <<Step("assign", i, Char(v[i]))>>]
             W == {<<"lamp", 0>>} \cup {<<"status", i>> : i \in Sockets} \cup OwedReports
  <1>1. ASSUME NEW i \in Sockets PROVE Piece(f[i], W) /\ Len(f[i]) = 1
    <2>1. Owes(Step("assign", i, Char(v[i]))) \subseteq W
      BY TopicFacts DEF Owes, Step, OwedReports
    <2>2. i \in Topics /\ Char(v[i]) \in Byte /\ Char(v[i]) \in Int
      BY TopicFacts, CharIsByte DEF Byte
    <2> HIDE DEF W
    <2>q. QED
      BY <2>1, <2>2, Alone
  <1> HIDE DEF f, W
  <1>1a. \A i \in Sockets : Len(f[i]) = Len(f[0])
    BY <1>1, TopicFacts
  <1>2. Piece(ForAll(f), W)
    BY <1>1, <1>1a, PieceForAll
  <1>q. QED
    BY <1>2 DEF AssignEach, f, W

(* A command for one socket.                                                 *)
LEMMA SocketCommandPiece ==
  ASSUME NEW i \in Sockets, NEW on \in Known
  PROVE  Piece(SocketCommand(i, on), {})
  <1> DEFINE p == UserRelaySet(i, on)
             U == {<<"read", i>>, <<"read", TOTAL>>, <<"save", 0>>}
             V == {<<"read", TOTAL>>, <<"save", 0>>}
             W == {<<"save", 0>>}
  <1>1. Piece(p, U)
    BY RelaySetPiece, KnownAreBytes
  <1>2. Piece(Report(i), V) /\ U \subseteq V \cup Kinds(Report(i))
    BY TopicFacts, ReportPiece
  <1>3. Piece(Report(TOTAL), W) /\ V \subseteq W \cup Kinds(Report(TOTAL))
    BY TopicFacts, ReportPiece
  <1>4. Piece(Save, {}) /\ W \subseteq {} \cup Kinds(Save)
    BY SavePiece
  <1> HIDE DEF p, U, V, W
  <1>5. Piece(p \o Report(i), V)
    BY <1>1, <1>2, TwoPieces
  <1>6. Piece(p \o Report(i) \o Report(TOTAL), W)
    BY <1>3, <1>5, TwoPieces
  <1>7. Piece(p \o Report(i) \o Report(TOTAL) \o Save, {})
    BY <1>4, <1>6, TwoPieces
  <1>q. QED
    BY <1>7 DEF SocketCommand, p

(* A command for each of the sockets.                                        *)
LEMMA SetSocketStatusPiece ==
  ASSUME NEW v \in [Sockets -> Int]
  PROVE  Piece(SetSocketStatus(v), {})
  <1> DEFINE p == AssignEach(v)
             U == {<<"lamp", 0>>} \cup {<<"status", i>> : i \in Sockets} \cup OwedReports
             V == {<<"read", TOTAL>>, <<"save", 0>>}
             W == {<<"save", 0>>}
  <1>1. Piece(p, U)
    BY AssignEachPiece
  <1>2. Piece(CarryOutEach, V) /\ U \subseteq V \cup Kinds(CarryOutEach)
    BY CarryOutEachPiece DEF OwedReports
  <1>3. Piece(Report(TOTAL), W) /\ V \subseteq W \cup Kinds(Report(TOTAL))
    BY TopicFacts, ReportPiece
  <1>4. Piece(Save, {}) /\ W \subseteq {} \cup Kinds(Save)
    BY SavePiece
  <1> HIDE DEF p, U, V, W
  <1>5. Piece(p \o CarryOutEach, V)
    BY <1>1, <1>2, TwoPieces
  <1>6. Piece(p \o CarryOutEach \o Report(TOTAL), W)
    BY <1>3, <1>5, TwoPieces
  <1>7. Piece(p \o CarryOutEach \o Report(TOTAL) \o Save, {})
    BY <1>4, <1>6, TwoPieces
  <1>q. QED
    BY <1>7 DEF SetSocketStatus, p

(* A command for all sockets, whoever gives it.                              *)
LEMMA TotalCommandPiece ==
  ASSUME NEW by, NEW on \in Int
  PROVE  Piece(TotalCommand(by, on), {})
  <1> DEFINE p == UserRelaySetAll(Char(on))
             q == IF by = "mqtt" THEN CarryOutEach ELSE ReportEach
             r == IF by \in {"mqtt", "web"} THEN <<Step("unsaved", 0, 0)>> ELSE Save
             V == {<<"read", TOTAL>>, <<"save", 0>>}
             W == {<<"save", 0>>}
  <1>1. Piece(p, OwedReports)
    BY RelaySetAllPiece, CharIsByte
  <1>2. Piece(q, V) /\ OwedReports \subseteq V \cup Kinds(q)
    BY CarryOutEachPiece, ReportEachPiece DEF OwedReports
  <1>3. Piece(Report(TOTAL), W) /\ V \subseteq W \cup Kinds(Report(TOTAL))
    BY TopicFacts, ReportPiece
  <1>4. Piece(r, {}) /\ W \subseteq {} \cup Kinds(r)
    BY SavePiece
  <1>5. TotalCommand(by, on) = p \o q \o Report(TOTAL) \o r
    BY DEF TotalCommand
  <1> HIDE DEF p, q, r, V, W
  <1>6. Piece(p \o q, V)
    BY <1>1, <1>2, TwoPieces
  <1>7. Piece(p \o q \o Report(TOTAL), W)
    BY <1>3, <1>6, TwoPieces
  <1>8. Piece(p \o q \o Report(TOTAL) \o r, {})
    BY <1>4, <1>7, TwoPieces
  <1>q. QED
    BY <1>5, <1>8

(* All sockets on or off.                                                    *)
LEMMA ToggleAllPiece ==
  Piece(ToggleAll, {})
  <1> DEFINE on == Flipped(ToBit(RelayOut))
             p == UserRelaySetAll(on)
             U == {<<"read", t>> : t \in Sockets \cup {TOTAL}}
             V == {<<"read", TOTAL>>}
  <1>1. on \in Byte
    BY KnownAreBytes DEF Flipped, ToBit, Bit
  <1>2. Piece(p, OwedReports)
    BY <1>1, RelaySetAllPiece
  <1>3. Piece(Save, U) /\ OwedReports \subseteq U \cup Kinds(Save)
    BY SavePiece DEF OwedReports
  <1>4. Piece(ReportEach, V) /\ U \subseteq V \cup Kinds(ReportEach)
    BY ReportEachPiece
  <1>5. Piece(Report(TOTAL), {}) /\ V \subseteq {} \cup Kinds(Report(TOTAL))
    BY TopicFacts, ReportPiece
  <1>6. ToggleAll = p \o Save \o ReportEach \o Report(TOTAL)
    BY DEF ToggleAll
  <1> HIDE DEF p, U, V
  <1>7. Piece(p \o Save, U)
    BY <1>2, <1>3, TwoPieces
  <1>8. Piece(p \o Save \o ReportEach, V)
    BY <1>4, <1>7, TwoPieces
  <1>9. Piece(p \o Save \o ReportEach \o Report(TOTAL), {})
    BY <1>5, <1>8, TwoPieces
  <1>q. QED
    BY <1>6, <1>9

(* The flag and the LED: a key that turns it off does not test for it, keys  *)
(* and tasks test only the relays.                                           *)
LEMMA FlagPiece ==
  ASSUME NEW on \in Int, NEW W, {<<"read", LED>>, <<"save", 0>>} \subseteq W
  PROVE  /\ Piece(<<Step("enable", 0, on)>> \o SetLed, W)
         /\ Piece(<<Step("flip", 0, 0)>> \o SetLed, W)
         /\ Piece(<<Step("enable", 0, 0), Step("lamp", 0, 0)>>, W)
         /\ Piece(<<Step("enable", 0, on), Step("out", 0, on), Step("lamp", 0, 0)>>, W)
  <1> DEFINE s == Step("enable", 0, on)
             z == Step("enable", 0, 0)
             f == Step("flip", 0, 0)
             o == Step("out", 0, on)
             l == Step("lamp", 0, 0)
             U == {<<"lamp", 0>>} \cup W
  <1>1. /\ s \in Steps /\ z \in Steps /\ f \in Steps /\ o \in Steps /\ l \in Steps
        /\ Starts(s) /\ Starts(z) /\ Starts(f) /\ Ends(l)
        /\ Follows(s, o) /\ Follows(o, l) /\ Follows(z, l)
    BY TopicFacts DEF Step, Steps, Doings, Starts, Follows, Ends
  <1>2. /\ Owes(s) \subseteq U /\ Owes(z) \subseteq U /\ Owes(f) \subseteq U
        /\ Owes(o) = {} /\ Owes(l) = {} /\ Kind(l) = <<"lamp", 0>>
    BY DEF Owes, Kind, Step
  <1>3. Piece(<<s>>, U) /\ Piece(<<f>>, U)
    BY <1>2, TopicFacts, Alone
  <1>4. Piece(SetLed, W) /\ U \subseteq W \cup Kinds(SetLed)
    BY SetLedPiece
  <1>5. U = W \cup {Kind(l)}
    BY <1>2
  <1> HIDE DEF s, z, f, o, l, U
  <1>6. Piece(<<s>> \o SetLed, W) /\ Piece(<<f>> \o SetLed, W)
    BY <1>3, <1>4, TwoPieces
  <1>7. Piece(<<z, l>>, W)
    BY <1>1, <1>2, <1>5, TwoSteps
  <1>8. Piece(<<s, o, l>>, W)
    BY <1>1, <1>2, <1>5, ThreeSteps
  <1>q. QED
    BY <1>6, <1>7, <1>8 DEF s, z, f, o, l

(* What follows the flag and the LED.                                        *)
LEMMA FlagReported ==
  ASSUME NEW p, Piece(p, {<<"read", LED>>, <<"save", 0>>})
  PROVE  Piece(p \o Report(LED) \o Save, {})
  <1> DEFINE V == {<<"read", LED>>, <<"save", 0>>}
             W == {<<"save", 0>>}
  <1>3. Piece(Report(LED), W) /\ V \subseteq W \cup Kinds(Report(LED))
    BY TopicFacts, ReportPiece
  <1>4. Piece(Save, {}) /\ W \subseteq {} \cup Kinds(Save)
    BY SavePiece
  <1>5. Piece(p, V)
    OBVIOUS
  <1> HIDE DEF V, W
  <1>6. Piece(p \o Report(LED), W)
    BY <1>5, <1>3, TwoPieces
  <1>q. QED
    BY <1>4, <1>6, TwoPieces

(* Steps in a row.                                                           *)
LEMMA InARow ==
  ASSUME NEW s \in Steps, NEW t \in Steps, NEW u \in Steps
  PROVE  <<s>> \o <<t>> = <<s, t>> /\ <<s>> \o <<t, u>> = <<s, t, u>>
  <1> DEFINE p == <<s>>
             q == <<t>>
             r == <<t, u>>
             x == <<s, t>>
             y == <<s, t, u>>
  <1>1. /\ p \in Seq(Steps) /\ q \in Seq(Steps) /\ r \in Seq(Steps)
        /\ Len(p) = 1 /\ Len(q) = 1 /\ Len(r) = 2
        /\ p[1] = s /\ q[1] = t /\ r[1] = t /\ r[2] = u
    OBVIOUS
  <1>2. /\ x \in Seq(Steps) /\ Len(x) = 2 /\ x[1] = s /\ x[2] = t
        /\ y \in Seq(Steps) /\ Len(y) = 3 /\ y[1] = s /\ y[2] = t /\ y[3] = u
    OBVIOUS
  <1> HIDE DEF p, q, r, x, y
  <1>3. /\ p \o q \in Seq(Steps) /\ Len(p \o q) = 2
        /\ (p \o q)[1] = s /\ (p \o q)[2] = t
    BY <1>1, ConcatProperties
  <1>4. /\ p \o r \in Seq(Steps) /\ Len(p \o r) = 3
        /\ (p \o r)[1] = s /\ (p \o r)[2] = t /\ (p \o r)[3] = u
    <2>1. /\ p \o r \in Seq(Steps) /\ Len(p \o r) = 3
          /\ \A i \in 1 .. 3 : (p \o r)[i] = IF i <= 1 THEN p[i] ELSE r[i - 1]
      BY <1>1, ConcatProperties
    <2>2. 1 \in 1 .. 3 /\ 2 \in 1 .. 3 /\ 3 \in 1 .. 3 /\ 2 - 1 = 1 /\ 3 - 1 = 2
      OBVIOUS
    <2>3. (p \o r)[1] = p[1] /\ (p \o r)[2] = r[1] /\ (p \o r)[3] = r[2]
      BY <2>1, <2>2
    <2>q. QED
      BY <1>1, <2>1, <2>3
  <1>5. \A n \in 1 .. Len(x) : (p \o q)[n] = x[n]
    BY <1>2, <1>3
  <1>6. \A n \in 1 .. Len(y) : (p \o r)[n] = y[n]
    BY <1>2, <1>4
  <1>7. p \o q = x
    BY <1>2, <1>3, <1>5, SeqEqual
  <1>8. p \o r = y
    BY <1>2, <1>4, <1>6, SeqEqual
  <1>q. QED
    BY <1>7, <1>8 DEF p, q, r, x, y

(* The steps of a command for the LED, in a row.                             *)
LEMMA FlagSteps ==
  ASSUME NEW on \in Int
  PROVE  /\ <<Step("enable", 0, on)>> \o <<Step("lamp", 0, 0)>>
              = <<Step("enable", 0, on), Step("lamp", 0, 0)>>
         /\ <<Step("enable", 0, on)>> \o <<Step("out", 0, on), Step("lamp", 0, 0)>>
              = <<Step("enable", 0, on), Step("out", 0, on), Step("lamp", 0, 0)>>
  <1> DEFINE s == Step("enable", 0, on)
             o == Step("out", 0, on)
             l == Step("lamp", 0, 0)
  <1>1. s \in Steps /\ o \in Steps /\ l \in Steps
    BY TopicFacts DEF Step, Steps, Doings
  <1> HIDE DEF s, o, l
  <1>2. <<s>> \o <<l>> = <<s, l>> /\ <<s>> \o <<o, l>> = <<s, o, l>>
    BY <1>1, InARow
  <1>q. QED
    BY <1>2 DEF s, o, l

(* A command for the LED.                                                    *)
LEMMA LedCommandPiece ==
  ASSUME NEW by, NEW on \in Int
  PROVE  Piece(LedCommand(by, on), {})
  <1> DEFINE q == CASE by \in {"web", "mqtt", "telnet"} -> SetLed
                    [] by = "key" /\ on = 0 -> <<Step("lamp", 0, 0)>>
                    [] OTHER -> <<Step("out", 0, on), Step("lamp", 0, 0)>>
             p == <<Step("enable", 0, on)>> \o q
  <1>1. Piece(p, {<<"read", LED>>, <<"save", 0>>})
    <2> DEFINE W == {<<"read", LED>>, <<"save", 0>>}
    <2>0. /\ Piece(<<Step("enable", 0, on)>> \o SetLed, W)
          /\ on = 0 => Piece(<<Step("enable", 0, on), Step("lamp", 0, 0)>>, W)
          /\ Piece(<<Step("enable", 0, on), Step("out", 0, on), Step("lamp", 0, 0)>>, W)
      BY FlagPiece
    <2> HIDE DEF W
    <2>1. CASE by \in {"web", "mqtt", "telnet"}
      BY <2>0, <2>1 DEF W
    <2>2. CASE by = "key" /\ on = 0
      BY <2>0, <2>2, FlagSteps DEF W
    <2>3. CASE ~(by \in {"web", "mqtt", "telnet"}) /\ ~(by = "key" /\ on = 0)
      <3>1. q = <<Step("out", 0, on), Step("lamp", 0, 0)>>
        BY <2>3
      <3>q. QED
        BY <2>0, <3>1, FlagSteps DEF W
    <2>q. QED
      BY <2>1, <2>2, <2>3
  <1>2. LedCommand(by, on) = p \o Report(LED) \o Save
    BY DEF LedCommand
  <1> HIDE DEF p
  <1>q. QED
    BY <1>1, <1>2, FlagReported

(* A key that enables or disables the LED.                                   *)
LEMMA ToggleLedPiece ==
  Piece(ToggleLed, {})
  <1>1. Piece(<<Step("flip", 0, 0)>> \o SetLed, {<<"read", LED>>, <<"save", 0>>})
    <2> DEFINE W == {<<"read", LED>>, <<"save", 0>>}
    <2>1. {<<"read", LED>>, <<"save", 0>>} \subseteq W
      OBVIOUS
    <2>2. ASSUME NEW on \in Int PROVE Piece(<<Step("flip", 0, 0)>> \o SetLed, W)
      <3> HIDE DEF W
      <3>q. QED
        BY <2>1, FlagPiece
    <2>3. 0 \in Int
      OBVIOUS
    <2>q. QED
      BY <2>2, <2>3
  <1>q. QED
    BY <1>1, FlagReported DEF ToggleLed

(* The two writes of a child lock.                                           *)
LEMMA LockPiece ==
  ASSUME NEW on \in Int, NEW W, {<<"read", LOCK>>, <<"save", 0>>} \subseteq W
  PROVE  /\ Piece(<<Step("lock", 0, on), Step("force", 0, on)>>, W)
         /\ Piece(<<Step("fliplock", 0, 0), Step("reforce", 0, 0)>>, W)
  <1> DEFINE s == Step("lock", 0, on)
             t == Step("force", 0, on)
             u == Step("fliplock", 0, 0)
             v == Step("reforce", 0, 0)
  <1>1. /\ s \in Steps /\ t \in Steps /\ u \in Steps /\ v \in Steps
        /\ Starts(s) /\ Follows(s, t) /\ Ends(t)
        /\ Starts(u) /\ Follows(u, v) /\ Ends(v)
    BY TopicFacts DEF Step, Steps, Doings, Starts, Follows, Ends
  <1>2. /\ Owes(s) \subseteq W \cup {Kind(t)} /\ Owes(t) \subseteq W
        /\ Owes(u) \subseteq W \cup {Kind(v)} /\ Owes(v) \subseteq W
    BY DEF Owes, Kind, Step
  <1> HIDE DEF s, t, u, v
  <1>3. Piece(<<s, t>>, W) /\ Piece(<<u, v>>, W)
    BY <1>1, <1>2, TwoSteps
  <1>q. QED
    BY <1>3 DEF s, t, u, v

(* What follows them.                                                        *)
LEMMA LockReported ==
  ASSUME NEW p, Piece(p, {<<"read", LOCK>>, <<"save", 0>>})
  PROVE  /\ Piece(p \o Save \o Report(LOCK), {})
         /\ Piece(p \o Report(LOCK) \o Save, {})
         /\ p \o (Save \o Report(LOCK)) = p \o Save \o Report(LOCK)
         /\ p \o (Report(LOCK) \o Save) = p \o Report(LOCK) \o Save
  <1> DEFINE U == {<<"read", LOCK>>, <<"save", 0>>}
             V == {<<"read", LOCK>>}
             W == {<<"save", 0>>}
             g == Save
             h == Report(LOCK)
  <1>1. Piece(p, U)
    OBVIOUS
  <1>2. /\ Piece(h, W) /\ U \subseteq W \cup Kinds(h)
        /\ Piece(h, {}) /\ V \subseteq {} \cup Kinds(h)
    BY TopicFacts, ReportPiece
  <1>3. /\ Piece(g, {}) /\ W \subseteq {} \cup Kinds(g)
        /\ Piece(g, V) /\ U \subseteq V \cup Kinds(g)
    BY SavePiece
  <1> HIDE DEF U, V, W, g, h
  <1>4. Piece(p \o h, W)
    BY <1>1, <1>2, TwoPieces
  <1>5. Piece(p \o h \o g, {})
    BY <1>3, <1>4, TwoPieces
  <1>6. Piece(p \o g, V)
    BY <1>1, <1>3, TwoPieces
  <1>7. Piece(p \o g \o h, {})
    BY <1>2, <1>6, TwoPieces
  <1>8. p \in Seq(Steps) /\ g \in Seq(Steps) /\ h \in Seq(Steps)
    BY <1>1, <1>2, <1>3 DEF Piece
  <1>9. p \o (g \o h) = (p \o g) \o h /\ p \o (h \o g) = (p \o h) \o g
    BY <1>8, ConcatAssociative
  <1>q. QED
    BY <1>5, <1>7, <1>9 DEF g, h

(* A command for the child lock.                                             *)
LEMMA LockCommandPiece ==
  ASSUME NEW by, NEW on \in Int
  PROVE  Piece(LockCommand(by, on), {})
  <1> DEFINE p == <<Step("lock", 0, on), Step("force", 0, on)>>
  <1>1. Piece(p, {<<"read", LOCK>>, <<"save", 0>>})
    BY LockPiece
  <1>2. LockCommand(by, on) =
          IF by \in {"key", "web"} THEN p \o (Save \o Report(LOCK)) ELSE p \o (Report(LOCK) \o Save)
    BY DEF LockCommand
  <1> HIDE DEF p
  <1>q. QED
    BY <1>1, <1>2, LockReported

(* A key that locks or unlocks.                                              *)
LEMMA ToggleLockPiece ==
  Piece(ToggleLock, {})
  <1> DEFINE p == <<Step("fliplock", 0, 0), Step("reforce", 0, 0)>>
  <1>1. /\ Piece(<<Step("lock", 0, 0), Step("force", 0, 0)>>, {<<"read", LOCK>>, <<"save", 0>>})
        /\ Piece(p, {<<"read", LOCK>>, <<"save", 0>>})
    BY LockPiece
  <1>2. ToggleLock = p \o Save \o Report(LOCK)
    BY DEF ToggleLock
  <1> HIDE DEF p
  <1>q. QED
    BY <1>1, <1>2, LockReported

(* Every command is carried out, reported and saved, or known to be unsaved. *)
LEMMA ProgramPiece ==
  ASSUME NEW c \in Commands
  PROVE  Piece(Program(c), {})
  <1>1. CASE c.op = "socket"
    BY <1>1, PanelAssumption, SocketCommandPiece DEF Program
  <1>2. CASE c.op = "sockets"
    BY <1>2, PanelAssumption, SetSocketStatusPiece DEF Program
  <1>3. CASE c.op = "total"
    BY <1>3, PanelAssumption, TotalCommandPiece DEF Program
  <1>4. CASE c.op = "toggle"
    BY <1>4, ToggleAllPiece DEF Program
  <1>5. CASE c.op = "led"
    BY <1>5, PanelAssumption, LedCommandPiece DEF Program
  <1>6. CASE c.op = "lock"
    BY <1>6, PanelAssumption, LockCommandPiece DEF Program
  <1>7. CASE c.op = "night"
    BY <1>7, PanelAssumption, LedCommandPiece DEF Program, MakeUp, Bit
  <1>8. CASE c.op = "toggle_led"
    BY <1>8, ToggleLedPiece DEF Program
  <1>9. CASE c.op = "toggle_lock"
    BY <1>9, ToggleLockPiece DEF Program
  <1>q. QED
    BY <1>1, <1>2, <1>3, <1>4, <1>5, <1>6, <1>7, <1>8, <1>9, PanelAssumption

(* A client that has connected reports every topic.                          *)
LEMMA ConnectedPiece ==
  Piece(Connected, {})
  <1> DEFINE p == <<Step("connected", 0, 0)>>
             T == {<<"read", t>> : t \in Topics}
             U == {<<"read", LED>>, <<"read", TOTAL>>, <<"read", LOCK>>}
             V == {<<"read", TOTAL>>, <<"read", LOCK>>}
             W == {<<"read", LOCK>>}
  <1>1. Piece(SetLed, {})
    BY SetLedPiece
  <1>2. Piece(p, T)
    <2>1. Owes(Step("connected", 0, 0)) \subseteq T
      BY DEF Owes, Step
    <2> HIDE DEF T
    <2>q. QED
      BY <2>1, TopicFacts, Alone
  <1>3. Piece(ReportEach, U) /\ T \subseteq U \cup Kinds(ReportEach)
    BY TopicFacts, ReportEachPiece
  <1>4. Piece(Report(LED), V) /\ U \subseteq V \cup Kinds(Report(LED))
    BY TopicFacts, ReportPiece
  <1>5. Piece(Report(TOTAL), W) /\ V \subseteq W \cup Kinds(Report(TOTAL))
    BY TopicFacts, ReportPiece
  <1>6. Piece(Report(LOCK), {}) /\ W \subseteq {} \cup Kinds(Report(LOCK))
    BY TopicFacts, ReportPiece
  <1> HIDE DEF p, T, U, V, W
  <1>7. Piece(SetLed \o p, T)
    BY <1>1, <1>2, TwoPieces
  <1>8. Piece(SetLed \o p \o ReportEach, U)
    BY <1>3, <1>7, TwoPieces
  <1>9. Piece(SetLed \o p \o ReportEach \o Report(LED), V)
    BY <1>4, <1>8, TwoPieces
  <1>10. Piece(SetLed \o p \o ReportEach \o Report(LED) \o Report(TOTAL), W)
    BY <1>5, <1>9, TwoPieces
  <1>11. Piece(SetLed \o p \o ReportEach \o Report(LED) \o Report(TOTAL) \o Report(LOCK), {})
    BY <1>6, <1>10, TwoPieces
  <1>q. QED
    BY <1>11 DEF Connected, p

(* The LED is blinked and blinked back.                                      *)
LEMMA ReconnectPiece ==
  Piece(Reconnect, {})
  <1> DEFINE s == Step("blink", 0, 0)
             t == Step("blinked", 0, 0)
  <1>1. /\ s \in Steps /\ t \in Steps /\ Starts(s) /\ Follows(s, t) /\ Ends(t)
        /\ Owes(s) = {} /\ Owes(t) = {}
    BY TopicFacts DEF Step, Steps, Doings, Starts, Follows, Ends, Bit, Owes
  <1>2. Reconnect = <<s, t>>
    BY DEF Reconnect
  <1> HIDE DEF s, t
  <1>q. QED
    BY <1>1, <1>2, TwoSteps

-----------------------------------------------------------------------------
(* The threads move. *)

(* A piece that owes nothing may be begun.                                   *)
LEMMA PieceIsRest ==
  ASSUME NEW q, Piece(q, {})
  PROVE  Rest(q) /\ q # <<>> /\ Starts(Head(q)) /\ Head(q) \in Steps
  <1>1. q \in Seq(Steps) /\ q # <<>>
    BY DEF Piece
  <1>2. Head(q) = q[1] /\ Head(q) \in Steps
    BY <1>1
  <1>q. QED
    BY <1>1, <1>2 DEF Piece, Rest

(* What is to come is so in somebody's program.                              *)
LEMMA ToComeKinds ==
  /\ \A k : ToCome(k) <=> \E a \in Actors : k \in Kinds(todo[a])
  /\ \A k : ToCome(k)' <=> \E a \in Actors : k \in Kinds(todo'[a])
  BY DEF ToCome, Kinds

(* A thread has taken the step it was at: its program goes on, what the step *)
(* owes is to come, and everything else that was.                            *)
LEMMA DoneFacts ==
  ASSUME Typed, Programs, NEW a \in Actors, ~Idle(a), Done(a)
  PROVE  /\ Arg(a) \in Steps
         /\ todo' \in [Actors -> Seq(Steps)] /\ Programs'
         /\ \A k : ToCome(k) => ToCome(k)' \/ k = Kind(Arg(a))
         /\ \A k \in Owes(Arg(a)) : ToCome(k)'
  <1> DEFINE q == todo[a]
             r == Tail(q)
  <1>1. Rest(q) /\ q # <<>>
    BY DEF Programs, Idle
  <1>2. /\ Head(q) \in Steps /\ Rest(r) /\ Owes(Head(q)) \subseteq Kinds(r)
        /\ Kinds(q) = {Kind(Head(q))} \cup Kinds(r)
    BY <1>1, TailRest
  <1>3. todo \in [Actors -> Seq(Steps)] /\ todo' = [todo EXCEPT ![a] = r]
    BY DEF Typed, Done
  <1>4. r \in Seq(Steps)
    BY <1>2 DEF Rest
  <1> HIDE DEF r
  <1>5. todo' \in [Actors -> Seq(Steps)] /\ todo'[a] = r
        /\ \A b \in Actors : b # a => todo'[b] = todo[b]
    BY <1>3, <1>4
  <1>6. Programs'
    BY <1>2, <1>5 DEF Programs
  <1>7. \A k \in Owes(Head(q)) : ToCome(k)'
    BY <1>2, <1>5, ToComeKinds
  <1>8. \A k : ToCome(k) => ToCome(k)' \/ k = Kind(Head(q))
    BY <1>2, <1>5, ToComeKinds
  <1>q. QED
    BY <1>2, <1>5, <1>6, <1>7, <1>8 DEF Arg

(* Where the threads are then: the others where they were, and this one at a *)
(* step that follows the one it has taken.                                   *)
LEMMA Passed ==
  ASSUME Typed, Programs, NEW a \in Actors, ~Idle(a), Done(a)
  PROVE  /\ \A b \in Actors : b # a =>
              /\ \A i : (Setting(b, i)' <=> Setting(b, i)) /\ (Sending(b, i)' <=> Sending(b, i))
              /\ At(b, "lamp")' <=> At(b, "lamp")
              /\ Blinking(b)' <=> Blinking(b)
         /\ \A i : Setting(a, i)' <=> (At(a, "relay") \/ At(a, "stored")) /\ Arg(a).x = i
         /\ \A i : Sending(a, i)' <=> At(a, "read") /\ Arg(a).x = i
         /\ At(a, "lamp")' =>
              At(a, "test") \/ At(a, "out") \/ (At(a, "enable") /\ Arg(a).on = 0)
         /\ At(a, "test") \/ At(a, "out") => At(a, "lamp")'
         /\ Blinking(a)' <=> At(a, "blink")
         /\ \A i : (At(a, "relay") \/ At(a, "stored")) /\ Arg(a).x = i => ToCome(<<"status", i>>)'
  <1> DEFINE q == todo[a]
             r == Tail(q)
             s == Head(q)
             t == Head(r)
  <1>1. Rest(q) /\ q # <<>>
    BY DEF Programs, Idle
  <1>2. /\ s \in Steps /\ Rest(r)
        /\ r = <<>> => Ends(s)
        /\ r # <<>> => Follows(s, t)
    BY <1>1, TailRest
  <1>3. todo \in [Actors -> Seq(Steps)] /\ todo' = [todo EXCEPT ![a] = r]
    BY DEF Typed, Done
  <1>4. r # <<>> => Kind(t) \in Kinds(r)
    <2>1. ASSUME r # <<>> PROVE t \in Steps /\ Kinds(r) = {Kind(t)} \cup Kinds(Tail(r))
      BY <1>2, <2>1, TailRest
    <2>q. QED
      BY <2>1
  <1> HIDE DEF r, s, t
  <1>5. todo'[a] = r /\ \A b \in Actors : b # a => todo'[b] = todo[b]
    BY <1>3
  <1>6. /\ \A do : At(a, do) <=> s.do = do
        /\ \A do : At(a, do)' <=> r # <<>> /\ t.do = do
        /\ Arg(a) = s /\ Arg(a)' = t
    BY <1>1, <1>5 DEF At, Idle, Arg, s, t
  <1>7. /\ r # <<>> /\ t.do = "status" <=> s.do = "relay" \/ s.do = "stored"
        /\ r # <<>> /\ t.do = "send" <=> s.do = "read"
        /\ r # <<>> /\ t.do = "blinked" <=> s.do = "blink"
        /\ s.do = "relay" \/ s.do = "stored" \/ s.do = "read" => s.x = t.x
        /\ r # <<>> /\ t.do = "lamp" =>
             s.do = "test" \/ s.do = "out" \/ (s.do = "enable" /\ s.on = 0)
        /\ s.do = "test" \/ s.do = "out" => r # <<>> /\ t.do = "lamp"
    BY <1>2 DEF Ends, Follows
  <1>8. ASSUME NEW i, s.do = "relay" \/ s.do = "stored", s.x = i PROVE ToCome(<<"status", i>>)'
    <2>1. Kind(t) = <<"status", i>> /\ r # <<>>
      BY <1>7, <1>8 DEF Kind
    <2>2. <<"status", i>> \in Kinds(todo'[a])
      BY <1>4, <1>5, <2>1
    <2>q. QED
      BY <2>2, ToComeKinds
  <1>9. \A b \in Actors : b # a =>
          /\ \A i : (Setting(b, i)' <=> Setting(b, i)) /\ (Sending(b, i)' <=> Sending(b, i))
          /\ At(b, "lamp")' <=> At(b, "lamp")
          /\ Blinking(b)' <=> Blinking(b)
    BY <1>5 DEF Setting, Sending, Blinking, At, Idle, Arg
  <1>10. \A i : Setting(a, i)' <=> (At(a, "relay") \/ At(a, "stored")) /\ Arg(a).x = i
    BY <1>6, <1>7 DEF Setting
  <1>11. \A i : Sending(a, i)' <=> At(a, "read") /\ Arg(a).x = i
    BY <1>6, <1>7 DEF Sending
  <1>12. Blinking(a)' <=> At(a, "blink")
    BY <1>6, <1>7 DEF Blinking
  <1>13. /\ At(a, "lamp")' =>
              At(a, "test") \/ At(a, "out") \/ (At(a, "enable") /\ Arg(a).on = 0)
         /\ At(a, "test") \/ At(a, "out") => At(a, "lamp")'
    BY <1>6, <1>7
  <1>14. \A i : (At(a, "relay") \/ At(a, "stored")) /\ Arg(a).x = i => ToCome(<<"status", i>>)'
    BY <1>6, <1>8
  <1>q. QED
    BY <1>9, <1>10, <1>11, <1>12, <1>13, <1>14

(* A thread has begun a program: nothing else is behind it or ahead of it    *)
(* than before, and it is not in the middle of anything.                     *)
LEMMA BegunFacts ==
  ASSUME Typed, Programs, NEW a \in Actors, Idle(a), NEW q, Piece(q, {}),
         todo' = [todo EXCEPT ![a] = q]
  PROVE  /\ todo' \in [Actors -> Seq(Steps)] /\ Programs'
         /\ \A k : ToCome(k) => ToCome(k)'
         /\ \A b \in Actors :
              /\ \A i : (Setting(b, i)' <=> Setting(b, i)) /\ (Sending(b, i)' <=> Sending(b, i))
              /\ At(b, "lamp")' <=> At(b, "lamp")
              /\ Blinking(b)' <=> Blinking(b)
  <1>1. Rest(q) /\ q # <<>> /\ Starts(Head(q)) /\ q \in Seq(Steps)
    BY PieceIsRest DEF Rest
  <1>2. todo \in [Actors -> Seq(Steps)] /\ todo[a] = <<>>
    BY DEF Typed, Idle
  <1>3. todo' \in [Actors -> Seq(Steps)] /\ todo'[a] = q
        /\ \A b \in Actors : b # a => todo'[b] = todo[b]
    BY <1>1, <1>2
  <1>4. Programs'
    BY <1>1, <1>3 DEF Programs
  <1>5. \A k : ToCome(k) => ToCome(k)'
    <2>1. Kinds(todo[a]) = {}
      BY <1>2 DEF Kinds
    <2>q. QED
      BY <1>3, <2>1, ToComeKinds
  <1>6. \A b \in Actors :
          /\ \A i : (Setting(b, i)' <=> Setting(b, i)) /\ (Sending(b, i)' <=> Sending(b, i))
          /\ At(b, "lamp")' <=> At(b, "lamp")
          /\ Blinking(b)' <=> Blinking(b)
    <2> TAKE b \in Actors
    <2>1. CASE b # a
      BY <1>3, <2>1 DEF Setting, Sending, Blinking, At, Idle, Arg
    <2>2. CASE b = a
      <3>1. \A do \in {"status", "send", "lamp", "blinked"} : ~At(a, do) /\ ~At(a, do)'
        BY <1>1, <1>2, <1>3 DEF At, Idle, Starts
      <3>q. QED
        BY <2>2, <3>1 DEF Setting, Sending, Blinking
    <2>q. QED
      BY <2>1, <2>2
  <1>q. QED
    BY <1>3, <1>4, <1>5, <1>6

(* What has gone out of date, and what has not.                              *)
LEMMA OutdatedForFacts ==
  ASSUME NEW S, NEW locals \in [Actors -> Locals], my' = OutdatedFor(S, locals)
  PROVE  /\ my' \in [Actors -> Locals]
         /\ \A b \in Actors :
              /\ my'[b].on = locals[b].on /\ my'[b].lit = locals[b].lit
              /\ my'[b].val = locals[b].val /\ my'[b].older = locals[b].older
              /\ b \in S => my'[b].stale
              /\ b \notin S => my'[b].stale = locals[b].stale
  <1>1. \A b \in Actors : my'[b] = IF b \in S
                                   THEN [locals[b] EXCEPT !.stale = TRUE] ELSE locals[b]
    BY DEF OutdatedFor
  <1>2. \A b \in Actors : my'[b] \in Locals
    BY <1>1 DEF Locals
  <1>3. my' \in [Actors -> Locals]
    BY <1>2 DEF OutdatedFor
  <1>4. ASSUME NEW b \in Actors
        PROVE  /\ my'[b].on = locals[b].on /\ my'[b].lit = locals[b].lit
               /\ my'[b].val = locals[b].val /\ my'[b].older = locals[b].older
               /\ b \in S => my'[b].stale
               /\ b \notin S => my'[b].stale = locals[b].stale
    <2>1. locals[b] \in Locals
      OBVIOUS
    <2>q. QED
      BY <1>1, <2>1 DEF Locals
  <1>q. QED
    BY <1>3, <1>4

(* The same of whoever sets the LED.                                         *)
LEMMA OutdatedFacts ==
  ASSUME NEW a \in Actors, NEW locals \in [Actors -> Locals], my' = Outdated(a, locals)
  PROVE  /\ my' \in [Actors -> Locals]
         /\ \A b \in Actors :
              /\ my'[b].on = locals[b].on /\ my'[b].lit = locals[b].lit
              /\ my'[b].val = locals[b].val /\ my'[b].older = locals[b].older
              /\ b # a /\ Lighting(b) => my'[b].stale
              /\ b = a \/ ~Lighting(b) => my'[b].stale = locals[b].stale
  <1> DEFINE S == {b \in Actors \ {a} : Lighting(b)}
  <1>1. my' = OutdatedFor(S, locals)
    BY DEF Outdated
  <1>2. \A b \in Actors : b \in S <=> b # a /\ Lighting(b)
    OBVIOUS
  <1> HIDE DEF S
  <1>q. QED
    BY <1>1, <1>2, OutdatedForFacts

-----------------------------------------------------------------------------
(* What keeps each part of the invariant. *)

(* The same state of the sockets and of the LED is reported and shown.       *)
LEMMA SameConfig ==
  ASSUME config' = config, childLockEnabled' = childLockEnabled
  PROVE  Lit' = Lit /\ \A t \in Topics : State(t)' = State(t)
  BY DEF Lit, State, RelayOut, ToBit

(* Nobody comes to write a status.                                           *)
LEMMA KeepDriven ==
  ASSUME Driven, relay' = relay, config'.status = config.status, crossed' = crossed,
         \A b \in Actors : \A i \in Sockets :
           Setting(b, i)' => Setting(b, i) /\ my'[b].on = my[b].on
  PROVE  Driven'
  BY DEF Driven

(* A status is neither written nor forgotten.                                *)
LEMMA KeepAgreed ==
  ASSUME Agreed, relay' = relay, config'.status = config.status, crossed' = crossed,
         \A k : k[1] = "status" => (ToCome(k) => ToCome(k)')
  PROVE  Agreed'
  <1>1. \A i \in Sockets : ToCome(<<"status", i>>) => ToCome(<<"status", i>>)'
    OBVIOUS
  <1>q. QED
    BY <1>1 DEF Agreed

(* What is computed for the LED stays as it is, or goes out of date.         *)
LEMMA KeepComputed ==
  ASSUME Computed,
         \A b \in Actors : (At(b, "lamp")' <=> At(b, "lamp")) /\ my'[b].lit = my[b].lit,
         \A b \in Actors :
           At(b, "lamp") => my'[b].stale \/ (my'[b].stale = my[b].stale /\ Lit' = Lit)
  PROVE  Computed'
  BY DEF Computed

(* The LED stays as it is, or will be set.                                   *)
LEMMA KeepShining ==
  ASSUME Shining,
         \/ ToCome(<<"lamp", 0>>)'
         \/ /\ lamp_off' = lamp_off /\ led' = led /\ Lit' = Lit
            /\ ~ToCome(<<"lamp", 0>>)
            /\ Blinking("client")' <=> Blinking("client")
            /\ Blinking("client") => my'["client"].stale = my["client"].stale
  PROVE  Shining'
  BY DEF Shining, Flipped

(* What is shown and sent of each state stays as it is, or will be reported. *)
LEMMA KeepReported ==
  ASSUME Reported, isconnect' = isconnect, shown' = shown,
         \A t \in Topics : ToCome(<<"read", t>>) => ToCome(<<"read", t>>)',
         \A t \in Topics : ToCome(<<"read", t>>)' \/ State(t)' = State(t),
         \A b \in Actors : \A t \in Topics : Sending(b, t)' <=> Sending(b, t),
         \A b \in Actors : my'[b].val = my[b].val /\ my'[b].older = my[b].older
  PROVE  Reported'
  BY DEF Reported, Fresh

(* What is in force stays so, or will be saved.                              *)
LEMMA KeepKept ==
  ASSUME Kept, flash' = flash, unsaved' = unsaved,
         ToCome(<<"save", 0>>)' \/ (config' = config /\ ~ToCome(<<"save", 0>>))
  PROVE  Kept'
  BY DEF Kept

(* What is reported of each topic.                                           *)
LEMMA StateIs ==
  /\ \A t \in Sockets : State(t) = config.status[t] /\ State(t)' = config'.status[t]
  /\ State(LED) = config.enabled /\ State(LED)' = config'.enabled
  /\ State(LOCK) = childLockEnabled /\ State(LOCK)' = childLockEnabled'
  <1>1. ASSUME NEW t \in Sockets
        PROVE  State(t) = config.status[t] /\ State(t)' = config'.status[t]
    <2>1. t # TOTAL /\ t # LED /\ t # LOCK
      BY TopicFacts
    <2>q. QED
      BY <2>1 DEF State
  <1>2. State(LED) = config.enabled /\ State(LED)' = config'.enabled
    <2>1. LED \notin Sockets /\ LED # TOTAL /\ LED # LOCK
      BY TopicFacts
    <2>q. QED
      BY <2>1 DEF State
  <1>3. State(LOCK) = childLockEnabled /\ State(LOCK)' = childLockEnabled'
    <2>1. LOCK \notin Sockets /\ LOCK # TOTAL /\ LOCK # LED
      BY TopicFacts
    <2>q. QED
      BY <2>1 DEF State
  <1>q. QED
    BY <1>1, <1>2, <1>3

(* A status that changes shows in two topics only.                           *)
LEMMA StatusChanged ==
  ASSUME config \in Config, NEW i \in Sockets, NEW v \in Byte,
         config' = [config EXCEPT !.status[i] = v], childLockEnabled' = childLockEnabled
  PROVE  /\ config' \in Config /\ config'.status[i] = v
         /\ \A j \in Sockets : j # i => config'.status[j] = config.status[j]
         /\ config'.enabled = config.enabled /\ config'.lock = config.lock
         /\ \A t \in Topics : State(t)' = State(t) \/ t = i \/ t = TOTAL
  <1>1. /\ config' \in Config /\ config'.status[i] = v
        /\ \A j \in Sockets : j # i => config'.status[j] = config.status[j]
        /\ config'.enabled = config.enabled /\ config'.lock = config.lock
    BY DEF Config
  <1>2. ASSUME NEW t \in Topics, t # i, t # TOTAL PROVE State(t)' = State(t)
    BY <1>1, <1>2, StateIs, TopicFacts
  <1>q. QED
    BY <1>1, <1>2

(* power_led_enabled shows in one.                                           *)
LEMMA EnabledChanged ==
  ASSUME config \in Config, NEW v \in Int, config' = [config EXCEPT !.enabled = v],
         childLockEnabled' = childLockEnabled
  PROVE  /\ config' \in Config /\ config'.enabled = v /\ config'.status = config.status
         /\ config'.lock = config.lock
         /\ \A t \in Topics : State(t)' = State(t) \/ t = LED
  <1>1. /\ config' \in Config /\ config'.enabled = v
        /\ config'.status = config.status /\ config'.lock = config.lock
    BY DEF Config
  <1>2. State(TOTAL)' = State(TOTAL)
    <2>1. TOTAL \notin Sockets /\ TOTAL # LED /\ TOTAL # LOCK
      BY TopicFacts
    <2>q. QED
      BY <1>1, <2>1 DEF State, RelayOut
  <1>3. ASSUME NEW t \in Topics, t # LED PROVE State(t)' = State(t)
    BY <1>1, <1>2, <1>3, StateIs, TopicFacts
  <1>q. QED
    BY <1>1, <1>3

(* child_lock does not show at all, and the LED has nothing to do with it.   *)
LEMMA LockChanged ==
  ASSUME config \in Config, NEW v \in Byte, config' = [config EXCEPT !.lock = v],
         childLockEnabled' = childLockEnabled
  PROVE  /\ config' \in Config /\ config'.lock = v /\ config'.status = config.status
         /\ config'.enabled = config.enabled
         /\ Lit' = Lit
         /\ \A t \in Topics : State(t)' = State(t)
  <1>1. /\ config' \in Config /\ config'.lock = v
        /\ config'.status = config.status /\ config'.enabled = config.enabled
    BY DEF Config
  <1>2. State(TOTAL)' = State(TOTAL)
    <2>1. TOTAL \notin Sockets /\ TOTAL # LED /\ TOTAL # LOCK
      BY TopicFacts
    <2>q. QED
      BY <1>1, <2>1 DEF State, RelayOut
  <1>3. ASSUME NEW t \in Topics PROVE State(t)' = State(t)
    BY <1>1, <1>2, <1>3, StateIs, TopicFacts
  <1>4. Lit' = Lit
    BY <1>1 DEF Lit, RelayOut
  <1>q. QED
    BY <1>1, <1>3, <1>4

(* childLockEnabled shows in one topic.                                      *)
LEMMA ForcedChanged ==
  ASSUME config' = config
  PROVE  Lit' = Lit /\ \A t \in Topics : State(t)' = State(t) \/ t = LOCK
  <1>1. Lit' = Lit
    BY DEF Lit, RelayOut
  <1>2. ASSUME NEW t \in Topics, t # LOCK PROVE State(t)' = State(t)
    BY <1>2 DEF State, RelayOut
  <1>q. QED
    BY <1>1, <1>2

(* What a relay is told makes a status of a char.                            *)
LEMMA StatusIsByte ==
  ASSUME NEW x \in Byte, NEW on \in Byte
  PROVE  NewStatus(x, on) \in Byte /\ NewStatus(x, on) >= 0
  BY DEF NewStatus, Flipped, Byte

-----------------------------------------------------------------------------
(* Every step keeps the invariant. *)

(* What taking step do means for the programs.                               *)
LEMMA Taken ==
  ASSUME Typed, Programs, NEW a \in Actors, NEW do, At(a, do), Done(a)
  PROVE  /\ Arg(a) \in Steps /\ Arg(a).do = do
         /\ todo' \in [Actors -> Seq(Steps)] /\ Programs'
         /\ \A k : ToCome(k) => ToCome(k)' \/ k = Kind(Arg(a))
         /\ \A k \in Owes(Arg(a)) : ToCome(k)'
         /\ \A i : (At(a, "relay") \/ At(a, "stored")) /\ Arg(a).x = i => ToCome(<<"status", i>>)'
         /\ \A b \in Actors : \A i :
              /\ Setting(b, i)' <=> IF b = a THEN do \in {"relay", "stored"} /\ Arg(a).x = i
                                    ELSE Setting(b, i)
              /\ Sending(b, i)' <=> IF b = a THEN do = "read" /\ Arg(a).x = i
                                    ELSE Sending(b, i)
              /\ b = a => /\ Setting(b, i) <=> do = "status" /\ Arg(a).x = i
                          /\ Sending(b, i) <=> do = "send" /\ Arg(a).x = i
         /\ \A b \in Actors :
              /\ Blinking(b)' <=> IF b = a THEN do = "blink" ELSE Blinking(b)
              /\ b = a => /\ Blinking(b) <=> do = "blinked"
                          /\ At(b, "lamp") <=> do = "lamp"
                          /\ At(b, "lamp")' =>
                               do \in {"test", "out"} \/ (do = "enable" /\ Arg(a).on = 0)
                          /\ do \in {"test", "out"} => At(b, "lamp")'
              /\ b # a => (At(b, "lamp")' <=> At(b, "lamp"))
  <1>1. ~Idle(a) /\ \A d : At(a, d) <=> d = do
    BY DEF At
  <1>2. Arg(a).do = do
    BY DEF At, Arg
  <1>3. /\ Arg(a) \in Steps
        /\ todo' \in [Actors -> Seq(Steps)] /\ Programs'
        /\ \A k : ToCome(k) => ToCome(k)' \/ k = Kind(Arg(a))
        /\ \A k \in Owes(Arg(a)) : ToCome(k)'
    BY <1>1, DoneFacts
  <1>4. /\ \A b \in Actors : b # a =>
             /\ \A i : (Setting(b, i)' <=> Setting(b, i)) /\ (Sending(b, i)' <=> Sending(b, i))
             /\ At(b, "lamp")' <=> At(b, "lamp")
             /\ Blinking(b)' <=> Blinking(b)
        /\ \A i : Setting(a, i)' <=> (At(a, "relay") \/ At(a, "stored")) /\ Arg(a).x = i
        /\ \A i : Sending(a, i)' <=> At(a, "read") /\ Arg(a).x = i
        /\ At(a, "lamp")' =>
             At(a, "test") \/ At(a, "out") \/ (At(a, "enable") /\ Arg(a).on = 0)
        /\ At(a, "test") \/ At(a, "out") => At(a, "lamp")'
        /\ Blinking(a)' <=> At(a, "blink")
        /\ \A i : (At(a, "relay") \/ At(a, "stored")) /\ Arg(a).x = i => ToCome(<<"status", i>>)'
    BY <1>1, Passed
  <1>5. ASSUME NEW b \in Actors, NEW i
        PROVE  /\ Setting(b, i)' <=> IF b = a THEN do \in {"relay", "stored"} /\ Arg(a).x = i
                                     ELSE Setting(b, i)
               /\ Sending(b, i)' <=> IF b = a THEN do = "read" /\ Arg(a).x = i
                                     ELSE Sending(b, i)
               /\ b = a => /\ Setting(b, i) <=> do = "status" /\ Arg(a).x = i
                           /\ Sending(b, i) <=> do = "send" /\ Arg(a).x = i
    <2>1. /\ Setting(a, i) <=> do = "status" /\ Arg(a).x = i
          /\ Sending(a, i) <=> do = "send" /\ Arg(a).x = i
      BY <1>1 DEF Setting, Sending
    <2>q. QED
      BY <1>1, <1>4, <2>1
  <1>6. ASSUME NEW b \in Actors
        PROVE  /\ Blinking(b)' <=> IF b = a THEN do = "blink" ELSE Blinking(b)
               /\ b = a => /\ Blinking(b) <=> do = "blinked"
                           /\ At(b, "lamp") <=> do = "lamp"
                           /\ At(b, "lamp")' =>
                               do \in {"test", "out"} \/ (do = "enable" /\ Arg(a).on = 0)
                           /\ do \in {"test", "out"} => At(b, "lamp")'
               /\ b # a => (At(b, "lamp")' <=> At(b, "lamp"))
    <2>1. Blinking(a) <=> do = "blinked"
      BY <1>1 DEF Blinking
    <2>q. QED
      BY <1>1, <1>4, <2>1
  <1>q. QED
    BY <1>2, <1>3, <1>4, <1>5, <1>6

(* What UserRelaySet makes of any status with a number it knows is on or off. *)
LEMMA KnownGivesBit ==
  ASSUME NEW s, NEW on \in Known
  PROVE  /\ NewStatus(s, on) \in Bit
         /\ NewStatus(s, on) = ToBit(NewStatus(s, on) # 0)
  <1>1. NewStatus(s, on) \in Bit
    BY DEF Bit, Known, TOGGLE, NewStatus, Flipped
  <1>q. QED
    BY <1>1 DEF Bit, ToBit

(* The relay is driven: its status follows, unless somebody else is about to *)
(* write one.                                                                *)
LEMMA DriveRelayKeeps ==
  ASSUME Core, NEW a \in Actors, DriveRelay(a)
  PROVE  Core'
  <1> DEFINE i == Arg(a).x
             on == IF At(a, "stored") THEN config.status[i] ELSE Arg(a).on
  <1>1. /\ Typed /\ Programs /\ Driven /\ Agreed /\ Computed /\ Shining /\ Reported /\ Kept
    BY DEF Core
  <1>2. /\ At(a, "relay") \/ At(a, "stored")
        /\ Done(a)
        /\ relay' = [relay EXCEPT ![i] =
                        IF on \in Known THEN NewStatus(config.status[i], on) ELSE @]
        /\ my' = [my EXCEPT ![a].on = on]
        /\ crossed' = [crossed EXCEPT ![i] = OthersSet(a, i) \/ on \notin Known]
        /\ UNCHANGED <<given, childLockEnabled, split>>
        /\ UNCHANGED <<config, led, flash, shown, isconnect, unsaved, lamp_off>>
    BY DEF DriveRelay, lock
  <1>a. PICK do \in {"relay", "stored"} : At(a, do)
    BY <1>2
  <1>3. /\ Arg(a) \in Steps /\ Arg(a).do = do
        /\ todo' \in [Actors -> Seq(Steps)] /\ Programs'
        /\ \A k : ToCome(k) => ToCome(k)' \/ k = Kind(Arg(a))
        /\ \A x : Arg(a).x = x => ToCome(<<"status", x>>)'
    BY <1>1, <1>2, <1>a, Taken
  <1>4. /\ \A b \in Actors : \A x :
             /\ Setting(b, x)' <=> IF b = a THEN Arg(a).x = x ELSE Setting(b, x)
             /\ Sending(b, x)' <=> Sending(b, x)
        /\ \A b \in Actors :
             /\ Blinking(b)' <=> Blinking(b)
             /\ At(b, "lamp")' <=> At(b, "lamp")
    BY <1>1, <1>2, <1>a, Taken
  <1>5. /\ i \in Sockets /\ on \in Byte /\ config.status \in [Sockets -> Byte]
        /\ on \in Known =>
             /\ NewStatus(config.status[i], on) \in Bit
             /\ NewStatus(config.status[i], on) = ToBit(NewStatus(config.status[i], on) # 0)
    <2>1. /\ i \in Sockets /\ Arg(a).on \in Byte /\ config.status \in [Sockets -> Byte]
      BY <1>1, <1>3 DEF Typed, Config, Steps
    <2>2. on \in Byte
      BY <2>1
    <2> HIDE DEF i, on
    <2>3. on \in Known =>
             /\ NewStatus(config.status[i], on) \in Bit
             /\ NewStatus(config.status[i], on) = ToBit(NewStatus(config.status[i], on) # 0)
      BY KnownGivesBit
    <2>q. QED
      BY <2>1, <2>2, <2>3
  <1>6. \A k : k[1] # "relay" /\ k[1] # "stored" => (ToCome(k) => ToCome(k)')
    BY <1>3 DEF Kind
  <1> HIDE DEF i, on
  <1>7. /\ my \in [Actors -> Locals] /\ my' \in [Actors -> Locals] /\ my'[a].on = on
        /\ \A b \in Actors : /\ b # a => my'[b] = my[b]
                             /\ my'[b].lit = my[b].lit /\ my'[b].stale = my[b].stale
                             /\ my'[b].val = my[b].val /\ my'[b].older = my[b].older
    BY <1>1, <1>2, <1>5 DEF Typed, Locals
  <1>8. Typed'
    BY <1>1, <1>2, <1>3, <1>5, <1>7 DEF Typed, OthersSet
  <1>9. Lit' = Lit /\ \A t \in Topics : State(t)' = State(t)
    BY <1>2, SameConfig
  <1>10. /\ relay' \in [Sockets -> Bit]
         /\ on \in Known => relay'[i] = NewStatus(config.status[i], on)
         /\ crossed'[i] <=> OthersSet(a, i) \/ on \notin Known
         /\ \A j \in Sockets : j # i => relay'[j] = relay[j] /\ crossed'[j] = crossed[j]
    BY <1>1, <1>2, <1>5 DEF Typed
  <1>11. Driven'
    <2> SUFFICES ASSUME NEW j \in Sockets, NEW b \in Actors, Setting(b, j)', ~crossed'[j]
                 PROVE  /\ relay'[j] = ToBit(NewStatus(config.status[j], my'[b].on) # 0)
                        /\ \A c \in Actors : Setting(c, j)' => c = b
      BY <1>2 DEF Driven, NewStatus, Flipped, ToBit
    <2>1. CASE j = i
      <3>1. \A c \in Actors : c # a => ~Setting(c, j)
        BY <1>10, <2>1 DEF OthersSet
      <3>2. \A c \in Actors : Setting(c, j)' => c = a
        BY <1>4, <3>1
      <3>3. b = a
        BY <3>2
      <3>q. QED
        <4>1. on \in Known
          BY <1>10, <2>1
        <4>2. relay'[i] = ToBit(NewStatus(config.status[i], on) # 0)
          <5>1. relay'[i] = NewStatus(config.status[i], on)
            BY <1>10, <4>1
          <5>2. NewStatus(config.status[i], on) = ToBit(NewStatus(config.status[i], on) # 0)
            BY <1>5, <4>1
          <5>q. QED
            BY <5>1, <5>2
        <4>q. QED
          BY <1>7, <2>1, <3>2, <3>3, <4>2
    <2>2. CASE j # i
      <3>1. \A c \in Actors : Setting(c, j)' => c # a /\ Setting(c, j)
        BY <1>4, <2>2 DEF i
      <3>2. b # a /\ Setting(b, j)
        BY <3>1
      <3>3. ~crossed[j] /\ relay'[j] = relay[j]
        BY <1>10, <2>2
      <3>4. /\ relay[j] = ToBit(NewStatus(config.status[j], my[b].on) # 0)
            /\ \A c \in Actors : Setting(c, j) => c = b
        BY <1>1, <3>2, <3>3 DEF Driven
      <3>5. my'[b] = my[b]
        BY <1>7, <3>2
      <3>q. QED
        BY <3>1, <3>3, <3>4, <3>5
    <2>q. QED
      BY <2>1, <2>2
  <1>12. Agreed'
    <2> SUFFICES ASSUME NEW j \in Sockets
                 PROVE  \/ ToCome(<<"status", j>>)'
                        \/ /\ config'.status[j] >= 0
                           /\ crossed'[j] \/ relay'[j] = ToBit(config'.status[j] # 0)
      BY DEF Agreed, ToBit
    <2>1. CASE j = i
      BY <1>3, <2>1 DEF i
    <2>2. CASE j # i
      <3>1. \/ ToCome(<<"status", j>>)
            \/ /\ config.status[j] >= 0
               /\ crossed[j] \/ relay[j] = ToBit(config.status[j] # 0)
        BY <1>1 DEF Agreed
      <3>q. QED
        BY <1>2, <1>6, <1>10, <2>2, <3>1
    <2>q. QED
      BY <2>1, <2>2
  <1>13. Computed'
    BY <1>1, <1>4, <1>7, <1>9, KeepComputed
  <1>14. ToCome(<<"lamp", 0>>) => ToCome(<<"lamp", 0>>)'
    BY <1>6
  <1>15. Shining'
    BY <1>1, <1>2, <1>4, <1>7, <1>9, <1>14, KeepShining DEF Actors
  <1>16. \A t \in Topics : ToCome(<<"read", t>>) => ToCome(<<"read", t>>)'
    BY <1>6
  <1>17. Reported'
    BY <1>1, <1>2, <1>4, <1>7, <1>9, <1>16, KeepReported
  <1>18. ToCome(<<"save", 0>>) => ToCome(<<"save", 0>>)'
    BY <1>6
  <1>19. Kept'
    BY <1>1, <1>2, <1>18, KeepKept
  <1>q. QED
    BY <1>3, <1>8, <1>11, <1>12, <1>13, <1>15, <1>17, <1>19 DEF Core

(* The status is written: it is where its relay is, unless the sets crossed. *)
LEMMA WriteStatusKeeps ==
  ASSUME Core, NEW a \in Actors, WriteStatus(a)
  PROVE  Core'
  <1>1. /\ Typed /\ Programs /\ Driven /\ Agreed /\ Computed /\ Shining /\ Reported /\ Kept
    BY DEF Core
  <1> DEFINE L == [my EXCEPT ![a].on = 0]
  <1>2. /\ At(a, "status") /\ Done(a)
        /\ config' = [config EXCEPT !.status[Arg(a).x] = NewStatus(@, my[a].on)]
        /\ my' = Outdated(a, L)
        /\ UNCHANGED <<given, childLockEnabled, split>>
        /\ UNCHANGED <<relay, led, flash, shown, isconnect, unsaved, crossed, lamp_off>>
    BY DEF WriteStatus, lock
  <1>3. /\ Arg(a) \in Steps /\ Arg(a).do = "status"
        /\ todo' \in [Actors -> Seq(Steps)] /\ Programs'
        /\ \A k : ToCome(k) => ToCome(k)' \/ k = Kind(Arg(a))
        /\ \A k \in Owes(Arg(a)) : ToCome(k)'
    BY <1>1, <1>2, Taken
  <1>4. /\ \A b \in Actors : \A x :
             /\ Setting(b, x)' <=> b # a /\ Setting(b, x)
             /\ Sending(b, x)' <=> b # a /\ Sending(b, x)
             /\ b = a => ~Sending(b, x) /\ (Setting(b, x) <=> Arg(a).x = x)
        /\ \A b \in Actors :
             /\ Blinking(b)' <=> b # a /\ Blinking(b)
             /\ b = a => ~Blinking(b) /\ ~At(b, "lamp")
             /\ At(b, "lamp")' <=> b # a /\ At(b, "lamp")
    BY <1>1, <1>2, Taken
  <1>5. PICK i \in Sockets : i = Arg(a).x
    BY <1>3 DEF Steps
  <1>6. PICK v \in Byte : v = NewStatus(config.status[i], my[a].on) /\ v >= 0
    <2>1. my[a] \in Locals /\ config.status[i] \in Byte
      BY <1>1, <1>5 DEF Typed, Config
    <2>2. my[a].on \in Byte
      BY <2>1 DEF Locals
    <2>q. QED
      BY <2>1, <2>2, StatusIsByte
  <1>7. /\ config' \in Config /\ config'.status[i] = v
        /\ \A j \in Sockets : j # i => config'.status[j] = config.status[j]
        /\ \A t \in Topics : State(t)' = State(t) \/ t = i \/ t = TOTAL
    <2>1. config \in Config /\ config' = [config EXCEPT !.status[i] = v]
      BY <1>1, <1>2, <1>5, <1>6 DEF Typed, Config
    <2>q. QED
      BY <1>2, <2>1, StatusChanged
  <1>8. /\ ToCome(<<"lamp", 0>>)' /\ ToCome(<<"save", 0>>)'
        /\ ToCome(<<"read", i>>)' /\ ToCome(<<"read", TOTAL>>)'
    <2>1. Owes(Arg(a)) = {<<"lamp", 0>>, <<"read", i>>, <<"read", TOTAL>>, <<"save", 0>>}
      BY <1>3, <1>5 DEF Owes
    <2>q. QED
      BY <1>3, <2>1
  <1>9. \A k : k # <<"status", i>> => (ToCome(k) => ToCome(k)')
    BY <1>3, <1>5 DEF Kind
  <1>10. /\ L \in [Actors -> Locals] /\ L[a].on = 0
         /\ \A b \in Actors : /\ b # a => L[b] = my[b]
                              /\ L[b].lit = my[b].lit /\ L[b].stale = my[b].stale
                              /\ L[b].val = my[b].val /\ L[b].older = my[b].older
    BY <1>1, KnownAreBytes DEF Typed, Locals
  <1> HIDE DEF L
  <1>11. /\ my' \in [Actors -> Locals]
         /\ \A b \in Actors :
              /\ b # a => my'[b].on = my[b].on
              /\ my'[b].lit = my[b].lit
              /\ my'[b].val = my[b].val /\ my'[b].older = my[b].older
              /\ b # a /\ Lighting(b) => my'[b].stale
    BY <1>2, <1>10, OutdatedFacts
  <1>12. Typed'
    BY <1>1, <1>2, <1>3, <1>7, <1>11 DEF Typed
  <1>13. Driven'
    <2> SUFFICES ASSUME NEW j \in Sockets, NEW b \in Actors, Setting(b, j)', ~crossed'[j]
                 PROVE  /\ relay'[j] = ToBit(NewStatus(config'.status[j], my'[b].on) # 0)
                        /\ \A c \in Actors : Setting(c, j)' => c = b
      BY DEF Driven, NewStatus, Flipped, ToBit
    <2>1. b # a /\ Setting(b, j) /\ ~crossed[j] /\ relay' = relay /\ my'[b].on = my[b].on
      BY <1>2, <1>4, <1>11
    <2>2. /\ relay[j] = ToBit(NewStatus(config.status[j], my[b].on) # 0)
          /\ \A c \in Actors : Setting(c, j) => c = b
      BY <1>1, <2>1 DEF Driven
    <2>3. j # i
      BY <1>4, <1>5, <2>1, <2>2
    <2>q. QED
      BY <1>4, <1>7, <2>1, <2>2, <2>3
  <1>14. Agreed'
    <2> SUFFICES ASSUME NEW j \in Sockets
                 PROVE  \/ ToCome(<<"status", j>>)'
                        \/ /\ config'.status[j] >= 0
                           /\ crossed'[j] \/ relay'[j] = ToBit(config'.status[j] # 0)
      BY DEF Agreed, ToBit
    <2>1. CASE j = i
      <3>1. Setting(a, i)
        BY <1>4, <1>5
      <3>2. crossed[i] \/ relay[i] = ToBit(v # 0)
        BY <1>1, <1>6, <3>1 DEF Driven
      <3>q. QED
        BY <1>2, <1>6, <1>7, <2>1, <3>2
    <2>2. CASE j # i
      <3>1. \/ ToCome(<<"status", j>>)
            \/ /\ config.status[j] >= 0
               /\ crossed[j] \/ relay[j] = ToBit(config.status[j] # 0)
        BY <1>1 DEF Agreed
      <3>2. ToCome(<<"status", j>>) => ToCome(<<"status", j>>)'
        BY <1>9, <2>2
      <3>q. QED
        BY <1>2, <1>7, <2>2, <3>1, <3>2
    <2>q. QED
      BY <2>1, <2>2
  <1>15. Computed'
    BY <1>1, <1>4, <1>11, KeepComputed DEF Lighting
  <1>16. Shining'
    BY <1>1, <1>8, KeepShining
  <1>17. Reported'
    <2>1. \A t \in Topics : ToCome(<<"read", t>>) => ToCome(<<"read", t>>)'
      BY <1>9
    <2>2. \A t \in Topics : ToCome(<<"read", t>>)' \/ State(t)' = State(t)
      BY <1>7, <1>8
    <2>q. QED
      BY <1>1, <1>2, <1>4, <1>11, <2>1, <2>2, KeepReported
  <1>18. Kept'
    BY <1>1, <1>2, <1>8, KeepKept
  <1>q. QED
    BY <1>3, <1>12, <1>13, <1>14, <1>15, <1>16, <1>17, <1>18 DEF Core

(* A status is assigned: it will be carried out.                             *)
LEMMA AssignStatusKeeps ==
  ASSUME Core, NEW a \in Actors, AssignStatus(a)
  PROVE  Core'
  <1>1. /\ Typed /\ Programs /\ Driven /\ Agreed /\ Computed /\ Shining /\ Reported /\ Kept
    BY DEF Core
  <1>2. /\ At(a, "assign") /\ Done(a)
        /\ config' = [config EXCEPT !.status[Arg(a).x] = Arg(a).on]
        /\ crossed' = [crossed EXCEPT ![Arg(a).x] = @ \/ OthersSet(a, Arg(a).x)]
        /\ my' = Outdated(a, my)
        /\ UNCHANGED <<given, childLockEnabled, split>>
        /\ UNCHANGED <<relay, led, flash, shown, isconnect, unsaved, lamp_off>>
    BY DEF AssignStatus, lock
  <1>3. /\ Arg(a) \in Steps /\ Arg(a).do = "assign"
        /\ todo' \in [Actors -> Seq(Steps)] /\ Programs'
        /\ \A k : ToCome(k) => ToCome(k)' \/ k = Kind(Arg(a))
        /\ \A k \in Owes(Arg(a)) : ToCome(k)'
    BY <1>1, <1>2, Taken
  <1>4. /\ \A b \in Actors : \A x :
             /\ Setting(b, x)' <=> b # a /\ Setting(b, x)
             /\ Sending(b, x)' <=> b # a /\ Sending(b, x)
             /\ b = a => ~Sending(b, x) /\ ~Setting(b, x)
        /\ \A b \in Actors :
             /\ Blinking(b)' <=> b # a /\ Blinking(b)
             /\ b = a => ~Blinking(b) /\ ~At(b, "lamp")
             /\ At(b, "lamp")' <=> b # a /\ At(b, "lamp")
    BY <1>1, <1>2, Taken
  <1>5. PICK i \in Sockets : i = Arg(a).x
    BY <1>3 DEF Steps
  <1>6. PICK v \in Byte : v = Arg(a).on
    BY <1>3 DEF Steps
  <1>7. /\ config' \in Config /\ config'.status[i] = v
        /\ \A j \in Sockets : j # i => config'.status[j] = config.status[j]
        /\ \A t \in Topics : State(t)' = State(t) \/ t = i \/ t = TOTAL
    <2>1. config \in Config /\ config' = [config EXCEPT !.status[i] = v]
      BY <1>1, <1>2, <1>5, <1>6 DEF Typed
    <2>q. QED
      BY <1>2, <2>1, StatusChanged
  <1>8. /\ ToCome(<<"lamp", 0>>)' /\ ToCome(<<"save", 0>>)' /\ ToCome(<<"status", i>>)'
        /\ ToCome(<<"read", i>>)' /\ ToCome(<<"read", TOTAL>>)'
    <2>1. Owes(Arg(a)) = {<<"lamp", 0>>, <<"read", i>>, <<"read", TOTAL>>, <<"save", 0>>,
                          <<"status", i>>}
      BY <1>3, <1>5 DEF Owes
    <2>q. QED
      BY <1>3, <2>1
  <1>9. \A k : k[1] # "assign" => (ToCome(k) => ToCome(k)')
    BY <1>3 DEF Kind
  <1>10. my \in [Actors -> Locals]
    BY <1>1 DEF Typed
  <1>11. /\ my' \in [Actors -> Locals]
         /\ \A b \in Actors :
              /\ my'[b].on = my[b].on /\ my'[b].lit = my[b].lit
              /\ my'[b].val = my[b].val /\ my'[b].older = my[b].older
              /\ b # a /\ Lighting(b) => my'[b].stale
    BY <1>2, <1>10, OutdatedFacts
  <1>12. /\ crossed' \in [Sockets -> BOOLEAN]
         /\ crossed'[i] <=> crossed[i] \/ OthersSet(a, i)
         /\ \A j \in Sockets : j # i => crossed'[j] = crossed[j]
    BY <1>1, <1>2, <1>5 DEF Typed, OthersSet
  <1>13. Typed'
    BY <1>1, <1>2, <1>3, <1>7, <1>11, <1>12 DEF Typed
  <1>14. Driven'
    <2> SUFFICES ASSUME NEW j \in Sockets, NEW b \in Actors, Setting(b, j)', ~crossed'[j]
                 PROVE  /\ relay'[j] = ToBit(NewStatus(config'.status[j], my'[b].on) # 0)
                        /\ \A c \in Actors : Setting(c, j)' => c = b
      BY DEF Driven, NewStatus, Flipped, ToBit
    <2>1. b # a /\ Setting(b, j) /\ relay' = relay /\ my'[b].on = my[b].on
      BY <1>2, <1>4, <1>11
    <2>2. j # i
      BY <1>12, <2>1 DEF OthersSet
    <2>3. ~crossed[j]
      BY <1>12, <2>2
    <2>4. /\ relay[j] = ToBit(NewStatus(config.status[j], my[b].on) # 0)
          /\ \A c \in Actors : Setting(c, j) => c = b
      BY <1>1, <2>1, <2>3 DEF Driven
    <2>q. QED
      BY <1>4, <1>7, <2>1, <2>2, <2>4
  <1>15. Agreed'
    <2> SUFFICES ASSUME NEW j \in Sockets
                 PROVE  \/ ToCome(<<"status", j>>)'
                        \/ /\ config'.status[j] >= 0
                           /\ crossed'[j] \/ relay'[j] = ToBit(config'.status[j] # 0)
      BY DEF Agreed, ToBit
    <2>1. CASE j = i
      BY <1>8, <2>1
    <2>2. CASE j # i
      <3>1. \/ ToCome(<<"status", j>>)
            \/ /\ config.status[j] >= 0
               /\ crossed[j] \/ relay[j] = ToBit(config.status[j] # 0)
        BY <1>1 DEF Agreed
      <3>2. ToCome(<<"status", j>>) => ToCome(<<"status", j>>)'
        BY <1>9
      <3>q. QED
        BY <1>2, <1>7, <1>12, <2>2, <3>1, <3>2
    <2>q. QED
      BY <2>1, <2>2
  <1>16. Computed'
    BY <1>1, <1>4, <1>11, KeepComputed DEF Lighting
  <1>17. Shining'
    BY <1>1, <1>8, KeepShining
  <1>18. Reported'
    <2>1. \A t \in Topics : ToCome(<<"read", t>>) => ToCome(<<"read", t>>)'
      BY <1>9
    <2>2. \A t \in Topics : ToCome(<<"read", t>>)' \/ State(t)' = State(t)
      BY <1>7, <1>8
    <2>q. QED
      BY <1>1, <1>2, <1>4, <1>11, <2>1, <2>2, KeepReported
  <1>19. Kept'
    BY <1>1, <1>2, <1>8, KeepKept
  <1>q. QED
    BY <1>3, <1>13, <1>14, <1>15, <1>16, <1>17, <1>18, <1>19 DEF Core

(* The LED is enabled or disabled: it will be set.                           *)
LEMMA WriteEnabledKeeps ==
  ASSUME Core, NEW a \in Actors, WriteEnabled(a)
  PROVE  Core'
  <1>1. /\ Typed /\ Programs /\ Driven /\ Agreed /\ Computed /\ Shining /\ Reported /\ Kept
    BY DEF Core
  <1> DEFINE S == {b \in Actors \ {a} : Lighting(b) \/ At(b, "out")}
  <1>2. /\ At(a, "enable") \/ At(a, "flip")
        /\ Done(a)
        /\ config' = [config EXCEPT !.enabled = IF At(a, "flip") THEN Flipped(@) ELSE Arg(a).on]
        /\ my' = OutdatedFor(S, my)
        /\ UNCHANGED <<given, childLockEnabled, split>>
        /\ UNCHANGED <<relay, led, flash, shown, isconnect, unsaved, crossed, lamp_off>>
    BY DEF WriteEnabled, lock
  <1>a. PICK do \in {"enable", "flip"} : At(a, do)
    BY <1>2
  <1>b. \A b \in Actors : b \in S <=> b # a /\ (Lighting(b) \/ At(b, "out"))
    OBVIOUS
  <1> HIDE DEF S
  <1>3. /\ Arg(a) \in Steps /\ Arg(a).do = do
        /\ todo' \in [Actors -> Seq(Steps)] /\ Programs'
        /\ \A k : ToCome(k) => ToCome(k)' \/ k = Kind(Arg(a))
        /\ \A k \in Owes(Arg(a)) : ToCome(k)'
    BY <1>1, <1>2, <1>a, Taken
  <1>4. /\ \A b \in Actors : \A x :
             /\ Setting(b, x)' => b # a /\ Setting(b, x)
             /\ Sending(b, x)' <=> b # a /\ Sending(b, x)
             /\ b = a => ~Sending(b, x)
        /\ \A b \in Actors :
             /\ Blinking(b)' <=> b # a /\ Blinking(b)
             /\ b = a => /\ ~Blinking(b) /\ ~At(b, "lamp")
                         /\ At(b, "lamp")' => do = "enable" /\ Arg(a).on = 0
             /\ b # a => (At(b, "lamp")' <=> At(b, "lamp"))
    BY <1>1, <1>2, <1>a, Taken
  <1>5. PICK v \in Int : /\ v = IF do = "flip" THEN Flipped(config.enabled) ELSE Arg(a).on
                         /\ do = "enable" /\ Arg(a).on = 0 => v = 0
    <2>1. Arg(a).on \in Int
      BY <1>3 DEF Steps
    <2>2. Flipped(config.enabled) \in Int
      BY DEF Flipped
    <2>q. QED
      BY <2>1, <2>2
  <1>6. /\ config' \in Config /\ config'.enabled = v /\ config'.status = config.status
        /\ \A t \in Topics : State(t)' = State(t) \/ t = LED
    <2>1. At(a, "flip") <=> do = "flip"
      BY <1>a DEF At
    <2>2. config \in Config /\ config' = [config EXCEPT !.enabled = v]
      BY <1>1, <1>2, <1>5, <2>1 DEF Typed, Config
    <2>q. QED
      BY <1>2, <2>2, EnabledChanged
  <1>7. ToCome(<<"lamp", 0>>)' /\ ToCome(<<"save", 0>>)' /\ ToCome(<<"read", LED>>)'
    <2>1. Owes(Arg(a)) = {<<"lamp", 0>>, <<"read", LED>>, <<"save", 0>>}
      BY <1>3 DEF Owes
    <2>q. QED
      BY <1>3, <2>1 DEF LED
  <1>8. \A k : k[1] # "enable" /\ k[1] # "flip" => (ToCome(k) => ToCome(k)')
    BY <1>3 DEF Kind
  <1>9. my \in [Actors -> Locals]
    BY <1>1 DEF Typed
  <1>10. /\ my' \in [Actors -> Locals]
         /\ \A b \in Actors :
              /\ my'[b].on = my[b].on /\ my'[b].lit = my[b].lit
              /\ my'[b].val = my[b].val /\ my'[b].older = my[b].older
              /\ b # a /\ Lighting(b) => my'[b].stale
    BY <1>2, <1>9, <1>b, OutdatedForFacts
  <1>11. Typed'
    BY <1>1, <1>2, <1>3, <1>6, <1>10 DEF Typed
  <1>12. Driven'
    BY <1>1, <1>2, <1>4, <1>6, <1>10, KeepDriven
  <1>13. Agreed'
    BY <1>1, <1>2, <1>6, <1>8, KeepAgreed
  <1>14. Computed'
    <2> SUFFICES ASSUME NEW b \in Actors
                 PROVE  IF At(b, "lamp")' THEN my'[b].stale \/ my'[b].lit = Lit'
                                          ELSE my'[b].lit = 0
      BY DEF Computed
    <2>1. CASE b # a /\ At(b, "lamp")
      BY <1>4, <1>10, <2>1 DEF Lighting
    <2>2. CASE b # a /\ ~At(b, "lamp")
      BY <1>1, <1>4, <1>10, <2>2 DEF Computed
    <2>3. CASE b = a
      <3>1. my'[b].lit = 0
        BY <1>1, <1>4, <1>10, <2>3 DEF Computed
      <3>2. At(b, "lamp")' => config'.enabled = 0
        BY <1>4, <1>5, <1>6, <2>3
      <3>3. At(b, "lamp")' => Lit' = 0
        BY <3>2 DEF Lit, ToBit
      <3>q. QED
        BY <3>1, <3>3
    <2>q. QED
      BY <2>1, <2>2, <2>3
  <1>15. Shining'
    BY <1>1, <1>7, KeepShining
  <1>16. Reported'
    <2>1. \A t \in Topics : ToCome(<<"read", t>>) => ToCome(<<"read", t>>)'
      BY <1>8
    <2>2. \A t \in Topics : ToCome(<<"read", t>>)' \/ State(t)' = State(t)
      BY <1>6, <1>7
    <2>q. QED
      BY <1>1, <1>2, <1>4, <1>10, <2>1, <2>2, KeepReported
  <1>17. Kept'
    BY <1>1, <1>2, <1>7, KeepKept
  <1>q. QED
    BY <1>3, <1>11, <1>12, <1>13, <1>14, <1>15, <1>16, <1>17 DEF Core

(* child_lock is written: it will be saved.                                  *)
LEMMA WriteLockKeeps ==
  ASSUME Core, NEW a \in Actors, WriteLock(a)
  PROVE  Core'
  <1> DEFINE S == {b \in Actors \ {a} : At(b, "force")}
  <1>1. /\ Typed /\ Programs /\ Driven /\ Agreed /\ Computed /\ Shining /\ Reported /\ Kept
    BY DEF Core
  <1>2. /\ At(a, "lock") \/ At(a, "fliplock")
        /\ Done(a)
        /\ config' = [config EXCEPT !.lock = IF At(a, "fliplock") THEN Flipped(@)
                                             ELSE Char(Arg(a).on)]
        /\ my' = OutdatedFor(S, my)
        /\ UNCHANGED <<given, childLockEnabled, split>>
        /\ UNCHANGED <<relay, led, flash, shown, isconnect, unsaved, crossed, lamp_off>>
    BY DEF WriteLock, lock
  <1>3. PICK do \in {"lock", "fliplock"} : At(a, do)
    BY <1>2
  <1>4. \A b \in Actors : b \in S <=> b # a /\ At(b, "force")
    OBVIOUS
  <1> HIDE DEF S
  <1>5. /\ Arg(a) \in Steps /\ Arg(a).do = do
        /\ todo' \in [Actors -> Seq(Steps)] /\ Programs'
        /\ \A k : ToCome(k) => ToCome(k)' \/ k = Kind(Arg(a))
        /\ \A k \in Owes(Arg(a)) : ToCome(k)'
    BY <1>1, <1>2, <1>3, Taken
  <1>6. /\ \A b \in Actors : \A x :
             /\ Setting(b, x)' => Setting(b, x)
             /\ Sending(b, x)' <=> Sending(b, x)
        /\ \A b \in Actors :
             /\ Blinking(b)' <=> Blinking(b)
             /\ At(b, "lamp")' <=> At(b, "lamp")
    BY <1>1, <1>2, <1>3, Taken
  <1>7. PICK v \in Byte : config' = [config EXCEPT !.lock = v]
    <2>1. Arg(a).on \in Int
      BY <1>5 DEF Steps
    <2>2. Char(Arg(a).on) \in Byte /\ Flipped(config.lock) \in Byte
      BY <2>1, CharIsByte DEF Flipped, Byte
    <2>q. QED
      BY <1>2, <2>2
  <1>8. /\ config' \in Config /\ config'.status = config.status /\ Lit' = Lit
        /\ \A t \in Topics : State(t)' = State(t)
    BY <1>1, <1>2, <1>7, LockChanged DEF Typed
  <1>9. ToCome(<<"save", 0>>)'
    <2>1. Owes(Arg(a)) = {<<"save", 0>>}
      BY <1>5 DEF Owes
    <2>q. QED
      BY <1>5, <2>1
  <1>10. \A k : k[1] # "lock" /\ k[1] # "fliplock" => (ToCome(k) => ToCome(k)')
    BY <1>5 DEF Kind
  <1>11. my \in [Actors -> Locals]
    BY <1>1 DEF Typed
  <1>12. /\ my' \in [Actors -> Locals]
         /\ \A b \in Actors :
              /\ my'[b].on = my[b].on /\ my'[b].lit = my[b].lit
              /\ my'[b].val = my[b].val /\ my'[b].older = my[b].older
              /\ b \in S => my'[b].stale
              /\ b \notin S => my'[b].stale = my[b].stale
    BY <1>2, <1>11, OutdatedForFacts
  <1>13. Typed'
    BY <1>1, <1>2, <1>5, <1>8, <1>12 DEF Typed
  <1>14. Driven'
    BY <1>1, <1>2, <1>6, <1>8, <1>12, KeepDriven
  <1>15. Agreed'
    BY <1>1, <1>2, <1>8, <1>10, KeepAgreed
  <1>16. Computed'
    BY <1>1, <1>6, <1>8, <1>12, KeepComputed
  <1>17. ToCome(<<"lamp", 0>>) => ToCome(<<"lamp", 0>>)'
    BY <1>10
  <1>18. Shining'
    <2>1. Blinking("client") => "client" \notin S /\ "client" \in Actors
      BY <1>4 DEF Blinking, At, Actors
    <2>q. QED
      BY <1>1, <1>2, <1>6, <1>8, <1>12, <1>17, <2>1, KeepShining DEF Actors
  <1>19. Reported'
    <2>1. \A t \in Topics : ToCome(<<"read", t>>) => ToCome(<<"read", t>>)'
      BY <1>10
    <2>q. QED
      BY <1>1, <1>2, <1>6, <1>8, <1>12, <2>1, KeepReported
  <1>20. Kept'
    BY <1>1, <1>2, <1>9, KeepKept
  <1>q. QED
    BY <1>5, <1>13, <1>14, <1>15, <1>16, <1>18, <1>19, <1>20 DEF Core

(* The lock in force is written: it will be reported.                        *)
LEMMA ForceLockKeeps ==
  ASSUME Core, NEW a \in Actors, ForceLock(a)
  PROVE  Core'
  <1>1. /\ Typed /\ Programs /\ Driven /\ Agreed /\ Computed /\ Shining /\ Reported /\ Kept
    BY DEF Core
  <1>2. /\ At(a, "force") \/ At(a, "reforce")
        /\ Done(a)
        /\ \/ childLockEnabled' = config.lock /\ split' = FALSE
           \/ /\ childLockEnabled' = Arg(a).on
              /\ split' = (my[a].stale \/ Char(Arg(a).on) # Arg(a).on)
        /\ my' = [my EXCEPT ![a].stale = FALSE]
        /\ UNCHANGED <<given, relay, config, led, flash, shown, isconnect, unsaved, crossed,
                       lamp_off>>
    BY DEF ForceLock
  <1>3. PICK do \in {"force", "reforce"} : At(a, do)
    BY <1>2
  <1>4. /\ Arg(a) \in Steps /\ Arg(a).do = do
        /\ todo' \in [Actors -> Seq(Steps)] /\ Programs'
        /\ \A k : ToCome(k) => ToCome(k)' \/ k = Kind(Arg(a))
        /\ \A k \in Owes(Arg(a)) : ToCome(k)'
    BY <1>1, <1>2, <1>3, Taken
  <1>5. /\ \A b \in Actors : \A x :
             /\ Setting(b, x)' => Setting(b, x)
             /\ Sending(b, x)' <=> Sending(b, x)
        /\ \A b \in Actors :
             /\ Blinking(b)' <=> Blinking(b)
             /\ At(b, "lamp")' <=> At(b, "lamp")
             /\ b = a => ~Blinking(b) /\ ~At(b, "lamp")
    BY <1>1, <1>2, <1>3, Taken
  <1>6. Lit' = Lit /\ \A t \in Topics : State(t)' = State(t) \/ t = LOCK
    BY <1>2, ForcedChanged
  <1>7. ToCome(<<"read", LOCK>>)'
    <2>1. Owes(Arg(a)) = {<<"read", LOCK>>}
      BY <1>4 DEF Owes
    <2>q. QED
      BY <1>4, <2>1
  <1>8. \A k : k[1] # "force" /\ k[1] # "reforce" => (ToCome(k) => ToCome(k)')
    BY <1>4 DEF Kind
  <1>9. /\ my' \in [Actors -> Locals]
        /\ \A b \in Actors : /\ b # a => my'[b].stale = my[b].stale
                             /\ my'[b].on = my[b].on /\ my'[b].lit = my[b].lit
                             /\ my'[b].val = my[b].val /\ my'[b].older = my[b].older
    BY <1>1, <1>2 DEF Typed, Locals
  <1>10. childLockEnabled' \in Int /\ split' \in BOOLEAN
    <2>1. Arg(a).on \in Int /\ config.lock \in Byte
      BY <1>1, <1>4 DEF Steps, Typed, Config
    <2>2. (my[a].stale \/ Char(Arg(a).on) # Arg(a).on) \in BOOLEAN
      BY <1>1 DEF Typed, Locals
    <2>3. split' \in BOOLEAN
      BY <1>2, <2>2
    <2>4. childLockEnabled' \in Int
      BY <1>2, <2>1 DEF Byte
    <2>q. QED
      BY <2>3, <2>4
  <1>11. Typed'
    BY <1>1, <1>2, <1>4, <1>9, <1>10 DEF Typed
  <1>12. Driven'
    BY <1>1, <1>2, <1>5, <1>9, KeepDriven
  <1>13. Agreed'
    BY <1>1, <1>2, <1>8, KeepAgreed
  <1>14. Computed'
    BY <1>1, <1>5, <1>6, <1>9, KeepComputed
  <1>15. ToCome(<<"lamp", 0>>) => ToCome(<<"lamp", 0>>)'
    BY <1>8
  <1>16. Shining'
    BY <1>1, <1>2, <1>5, <1>6, <1>9, <1>15, KeepShining DEF Actors
  <1>17. Reported'
    <2>1. \A t \in Topics : ToCome(<<"read", t>>) => ToCome(<<"read", t>>)'
      BY <1>8
    <2>2. \A t \in Topics : ToCome(<<"read", t>>)' \/ State(t)' = State(t)
      BY <1>6, <1>7
    <2>q. QED
      BY <1>1, <1>2, <1>5, <1>9, <2>1, <2>2, KeepReported
  <1>18. ToCome(<<"save", 0>>) => ToCome(<<"save", 0>>)'
    BY <1>8
  <1>19. Kept'
    BY <1>1, <1>2, <1>18, KeepKept
  <1>q. QED
    BY <1>4, <1>11, <1>12, <1>13, <1>14, <1>16, <1>17, <1>19 DEF Core

(* The LED is computed by what has been set before: it is right, unless that *)
(* is out of date.                                                           *)
LEMMA TestRelaysKeeps ==
  ASSUME Core, Trusting, NEW a \in Actors, TestRelays(a)
  PROVE  Core'
  <1>1. /\ Typed /\ Programs /\ Driven /\ Agreed /\ Computed /\ Shining /\ Reported /\ Kept
    BY DEF Core
  <1>2. /\ At(a, "out") /\ Done(a)
        /\ my' = [my EXCEPT ![a].lit = ToBit(RelayOut /\ Arg(a).on # 0)]
        /\ UNCHANGED <<given, childLockEnabled, split>>
        /\ UNCHANGED <<relay, config, led, flash, shown, isconnect, unsaved, crossed, lamp_off>>
    BY DEF TestRelays, lock
  <1>3. /\ todo' \in [Actors -> Seq(Steps)] /\ Programs'
        /\ \A k : ToCome(k) => ToCome(k)' \/ k = Kind(Arg(a))
        /\ Arg(a).do = "out"
    BY <1>1, <1>2, Taken
  <1>4. /\ \A b \in Actors : \A x :
             /\ Setting(b, x)' => Setting(b, x)
             /\ Sending(b, x)' <=> Sending(b, x)
        /\ \A b \in Actors :
             /\ Blinking(b)' <=> Blinking(b)
             /\ b = a => At(b, "lamp")'
             /\ b # a => (At(b, "lamp")' <=> At(b, "lamp"))
    BY <1>1, <1>2, Taken
  <1>5. Lit' = Lit /\ \A t \in Topics : State(t)' = State(t)
    BY <1>2, SameConfig
  <1>a. PICK v \in Bit : v = ToBit(RelayOut /\ Arg(a).on # 0)
    BY DEF ToBit, Bit
  <1>b. my[a].stale \/ v = Lit
    <2>1. my[a].stale \/ (Arg(a).on # 0 <=> config.enabled # 0)
      BY <1>2 DEF Trusting
    <2>q. QED
      BY <1>a, <2>1 DEF Lit, ToBit
  <1>6. \A k : k[1] # "out" => (ToCome(k) => ToCome(k)')
    BY <1>3 DEF Kind
  <1>7. /\ my' \in [Actors -> Locals] /\ my'[a].lit = v
        /\ \A b \in Actors : /\ b # a => my'[b] = my[b]
                             /\ my'[b].on = my[b].on /\ my'[b].stale = my[b].stale
                             /\ my'[b].val = my[b].val /\ my'[b].older = my[b].older
    BY <1>1, <1>2, <1>a DEF Typed, Locals
  <1>8. Typed'
    BY <1>1, <1>2, <1>3, <1>7 DEF Typed
  <1>9. Driven'
    BY <1>1, <1>2, <1>4, <1>7, KeepDriven
  <1>10. Agreed'
    BY <1>1, <1>2, <1>6, KeepAgreed
  <1>11. Computed'
    BY <1>1, <1>4, <1>5, <1>7, <1>b DEF Computed
  <1>12. ToCome(<<"lamp", 0>>) => ToCome(<<"lamp", 0>>)'
    BY <1>6
  <1>13. Shining'
    BY <1>1, <1>2, <1>4, <1>5, <1>7, <1>12, KeepShining DEF Actors
  <1>14. Reported'
    <2>1. \A t \in Topics : ToCome(<<"read", t>>) => ToCome(<<"read", t>>)'
      BY <1>6
    <2>q. QED
      BY <1>1, <1>2, <1>4, <1>5, <1>7, <2>1, KeepReported
  <1>15. ToCome(<<"save", 0>>) => ToCome(<<"save", 0>>)'
    BY <1>6
  <1>16. Kept'
    BY <1>1, <1>2, <1>15, KeepKept
  <1>q. QED
    BY <1>3, <1>8, <1>9, <1>10, <1>11, <1>13, <1>14, <1>16 DEF Core

(* The LED's colour is computed: it is right as yet.                         *)
LEMMA TestLedKeeps ==
  ASSUME Core, NEW a \in Actors, TestLed(a)
  PROVE  Core'
  <1>1. /\ Typed /\ Programs /\ Driven /\ Agreed /\ Computed /\ Shining /\ Reported /\ Kept
    BY DEF Core
  <1>2. /\ At(a, "test") /\ Done(a)
        /\ my' = [my EXCEPT ![a].lit = Lit]
        /\ UNCHANGED <<given, childLockEnabled, split>>
        /\ UNCHANGED <<relay, config, led, flash, shown, isconnect, unsaved, crossed, lamp_off>>
    BY DEF TestLed, lock
  <1>3. /\ todo' \in [Actors -> Seq(Steps)] /\ Programs'
        /\ \A k : ToCome(k) => ToCome(k)' \/ k = Kind(Arg(a))
        /\ Arg(a).do = "test"
    BY <1>1, <1>2, Taken
  <1>4. /\ \A b \in Actors : \A x :
             /\ Setting(b, x)' => Setting(b, x)
             /\ Sending(b, x)' <=> Sending(b, x)
        /\ \A b \in Actors :
             /\ Blinking(b)' <=> Blinking(b)
             /\ b = a => At(b, "lamp")'
             /\ b # a => (At(b, "lamp")' <=> At(b, "lamp"))
    BY <1>1, <1>2, Taken
  <1>5. Lit \in Bit /\ Lit' = Lit /\ \A t \in Topics : State(t)' = State(t)
    BY <1>2, SameConfig DEF Lit, ToBit, Bit
  <1>6. \A k : k[1] # "test" => (ToCome(k) => ToCome(k)')
    BY <1>3 DEF Kind
  <1>7. /\ my' \in [Actors -> Locals] /\ my'[a].lit = Lit
        /\ \A b \in Actors : /\ b # a => my'[b] = my[b]
                             /\ my'[b].on = my[b].on /\ my'[b].stale = my[b].stale
                             /\ my'[b].val = my[b].val /\ my'[b].older = my[b].older
    BY <1>1, <1>2, <1>5 DEF Typed, Locals
  <1>8. Typed'
    BY <1>1, <1>2, <1>3, <1>7 DEF Typed
  <1>9. Driven'
    BY <1>1, <1>2, <1>4, <1>7, KeepDriven
  <1>10. Agreed'
    BY <1>1, <1>2, <1>6, KeepAgreed
  <1>11. Computed'
    BY <1>1, <1>4, <1>5, <1>7 DEF Computed
  <1>12. ToCome(<<"lamp", 0>>) => ToCome(<<"lamp", 0>>)'
    BY <1>6
  <1>13. Shining'
    BY <1>1, <1>2, <1>4, <1>5, <1>7, <1>12, KeepShining DEF Actors
  <1>14. Reported'
    <2>1. \A t \in Topics : ToCome(<<"read", t>>) => ToCome(<<"read", t>>)'
      BY <1>6
    <2>q. QED
      BY <1>1, <1>2, <1>4, <1>5, <1>7, <2>1, KeepReported
  <1>15. ToCome(<<"save", 0>>) => ToCome(<<"save", 0>>)'
    BY <1>6
  <1>16. Kept'
    BY <1>1, <1>2, <1>15, KeepKept
  <1>q. QED
    BY <1>3, <1>8, <1>9, <1>10, <1>11, <1>13, <1>14, <1>16 DEF Core

(* The LED is set: it is right, unless by something out of date.             *)
LEMMA UserLedSetKeeps ==
  ASSUME Core, NEW a \in Actors, UserLedSet(a)
  PROVE  Core'
  <1>1. /\ Typed /\ Programs /\ Driven /\ Agreed /\ Computed /\ Shining /\ Reported /\ Kept
    BY DEF Core
  <1> DEFINE L == [my EXCEPT ![a].lit = 0, ![a].stale = FALSE]
  <1>2. /\ At(a, "lamp") /\ Done(a)
        /\ led' = my[a].lit /\ lamp_off' = my[a].stale
        /\ my' = Outdated(a, L)
        /\ UNCHANGED <<given, childLockEnabled, split>>
        /\ UNCHANGED <<relay, config, flash, shown, isconnect, unsaved, crossed>>
    BY DEF UserLedSet, lock
  <1>3. /\ todo' \in [Actors -> Seq(Steps)] /\ Programs'
        /\ \A k : ToCome(k) => ToCome(k)' \/ k = Kind(Arg(a))
        /\ Arg(a).do = "lamp"
    BY <1>1, <1>2, Taken
  <1>4. /\ \A b \in Actors : \A x :
             /\ Setting(b, x)' => b # a /\ Setting(b, x)
             /\ Sending(b, x)' <=> Sending(b, x)
        /\ \A b \in Actors :
             /\ Blinking(b)' => b # a /\ Blinking(b)
             /\ At(b, "lamp")' <=> b # a /\ At(b, "lamp")
    BY <1>1, <1>2, Taken
  <1>5. Lit' = Lit /\ \A t \in Topics : State(t)' = State(t)
    BY <1>2, SameConfig
  <1>6. \A k : k[1] # "lamp" => (ToCome(k) => ToCome(k)')
    BY <1>3 DEF Kind
  <1>7. /\ my \in [Actors -> Locals]
        /\ L \in [Actors -> Locals] /\ L[a].lit = 0
        /\ \A b \in Actors : /\ b # a => L[b] = my[b]
                             /\ L[b].on = my[b].on
                             /\ L[b].val = my[b].val /\ L[b].older = my[b].older
    BY <1>1 DEF Typed, Locals, Bit
  <1> HIDE DEF L
  <1>8. /\ my' \in [Actors -> Locals] /\ my'[a].lit = 0
        /\ \A b \in Actors :
             /\ b # a => my'[b].lit = my[b].lit
             /\ my'[b].on = my[b].on
             /\ my'[b].val = my[b].val /\ my'[b].older = my[b].older
             /\ b # a /\ Lighting(b) => my'[b].stale
    BY <1>2, <1>7, OutdatedFacts
  <1>9. Typed'
    BY <1>1, <1>2, <1>3, <1>7, <1>8 DEF Typed, Locals
  <1>10. Driven'
    BY <1>1, <1>2, <1>4, <1>8, KeepDriven
  <1>11. Agreed'
    BY <1>1, <1>2, <1>6, KeepAgreed
  <1>12. Computed'
    BY <1>1, <1>4, <1>8 DEF Computed, Lighting
  <1>13. Shining'
    <2>1. my[a].stale \/ my[a].lit = Lit
      BY <1>1, <1>2 DEF Computed
    <2>2. Blinking("client")' => my'["client"].stale
      BY <1>4, <1>8 DEF Actors, Lighting
    <2>q. QED
      BY <1>2, <1>5, <2>1, <2>2 DEF Shining
  <1>14. Reported'
    <2>1. \A t \in Topics : ToCome(<<"read", t>>) => ToCome(<<"read", t>>)'
      BY <1>6
    <2>q. QED
      BY <1>1, <1>2, <1>4, <1>5, <1>8, <2>1, KeepReported
  <1>15. ToCome(<<"save", 0>>) => ToCome(<<"save", 0>>)'
    BY <1>6
  <1>16. Kept'
    BY <1>1, <1>2, <1>15, KeepKept
  <1>q. QED
    BY <1>3, <1>9, <1>10, <1>11, <1>12, <1>13, <1>14, <1>16 DEF Core

(* A state is read to be reported: it is right as yet.                       *)
LEMMA ReadStateKeeps ==
  ASSUME Core, NEW a \in Actors, ReadState(a)
  PROVE  Core'
  <1>1. /\ Typed /\ Programs /\ Driven /\ Agreed /\ Computed /\ Shining /\ Reported /\ Kept
    BY DEF Core
  <1>2. /\ At(a, "read") /\ Done(a)
        /\ my' = [my EXCEPT ![a].val = State(Arg(a).x)]
        /\ UNCHANGED <<given, childLockEnabled, split>>
        /\ UNCHANGED <<relay, config, led, flash, shown, isconnect, unsaved, crossed, lamp_off>>
    BY DEF ReadState, lock
  <1>3. /\ Arg(a) \in Steps /\ Arg(a).do = "read"
        /\ todo' \in [Actors -> Seq(Steps)] /\ Programs'
        /\ \A k : ToCome(k) => ToCome(k)' \/ k = Kind(Arg(a))
    BY <1>1, <1>2, Taken
  <1>4. /\ \A b \in Actors : \A x :
             /\ Setting(b, x)' => Setting(b, x)
             /\ Sending(b, x)' <=> IF b = a THEN Arg(a).x = x ELSE Sending(b, x)
             /\ b = a => ~Sending(b, x)
        /\ \A b \in Actors :
             /\ Blinking(b)' <=> Blinking(b)
             /\ At(b, "lamp")' <=> At(b, "lamp")
    BY <1>1, <1>2, Taken
  <1>5. PICK t \in Topics : t = Arg(a).x
    BY <1>3 DEF Steps
  <1>6. Lit' = Lit /\ \A u \in Topics : State(u)' = State(u)
    BY <1>2, SameConfig
  <1>7. State(t) \in Int
    <2>1. config \in Config /\ childLockEnabled \in Int
      BY <1>1 DEF Typed
    <2>2. State(TOTAL) \in Int
      <3>1. TOTAL \notin Sockets /\ TOTAL # LED /\ TOTAL # LOCK
        BY TopicFacts
      <3>2. State(TOTAL) = ToBit(RelayOut)
        BY <3>1 DEF State
      <3>q. QED
        BY <3>2 DEF ToBit
    <2>3. \A i \in Sockets : config.status[i] \in Int
      BY <2>1 DEF Config, Byte
    <2>4. config.enabled \in Int
      BY <2>1 DEF Config
    <2>q. QED
      BY <2>1, <2>2, <2>3, <2>4, StateIs, TopicFacts
  <1>8. \A k : k # <<"read", t>> => (ToCome(k) => ToCome(k)')
    BY <1>3, <1>5 DEF Kind
  <1>9. /\ my' \in [Actors -> Locals] /\ my'[a].val = State(t)
        /\ \A b \in Actors : /\ b # a => my'[b] = my[b]
                             /\ my'[b].on = my[b].on /\ my'[b].lit = my[b].lit
                             /\ my'[b].stale = my[b].stale
    BY <1>1, <1>2, <1>5, <1>7 DEF Typed, Locals
  <1>10. Typed'
    BY <1>1, <1>2, <1>3, <1>9 DEF Typed
  <1>11. Driven'
    BY <1>1, <1>2, <1>4, <1>9, KeepDriven
  <1>12. Agreed'
    BY <1>1, <1>2, <1>8, KeepAgreed
  <1>13. Computed'
    BY <1>1, <1>4, <1>6, <1>9, KeepComputed
  <1>14. ToCome(<<"lamp", 0>>) => ToCome(<<"lamp", 0>>)'
    BY <1>8
  <1>15. Shining'
    BY <1>1, <1>2, <1>4, <1>6, <1>9, <1>14, KeepShining DEF Actors
  <1>16. Reported'
    <2> SUFFICES ASSUME isconnect, NEW u \in Topics
                 PROVE  \/ /\ shown[u] \in {State(u)', OLDER}
                           /\ \A b \in Actors : Sending(b, u)' => Fresh(b, u)'
                        \/ ToCome(<<"read", u>>)'
                        \/ \E b \in Actors : Fresh(b, u)'
      BY <1>2 DEF Reported
    <2>1. CASE u = t
      <3>1. Sending(a, u)' /\ my'[a].val = State(u)'
        BY <1>4, <1>5, <1>6, <1>9, <2>1
      <3>q. QED
        BY <3>1 DEF Fresh
    <2>2. CASE u # t
      <3>1. \A b \in Actors : Sending(b, u)' <=> Sending(b, u)
        BY <1>4, <1>5, <2>2
      <3>2. \A b \in Actors : Sending(b, u) => my'[b] = my[b]
        BY <1>4, <1>9
      <3>3. \A b \in Actors : Fresh(b, u)' <=> Fresh(b, u)
        BY <1>6, <3>1, <3>2 DEF Fresh
      <3>4. ToCome(<<"read", u>>) => ToCome(<<"read", u>>)'
        BY <1>8, <2>2
      <3>q. QED
        BY <1>1, <1>6, <3>1, <3>3, <3>4 DEF Reported
    <2>q. QED
      BY <2>1, <2>2
  <1>17. ToCome(<<"save", 0>>) => ToCome(<<"save", 0>>)'
    BY <1>8
  <1>18. Kept'
    BY <1>1, <1>2, <1>17, KeepKept
  <1>q. QED
    BY <1>3, <1>10, <1>11, <1>12, <1>13, <1>15, <1>16, <1>18 DEF Core

(* A state is sent: it is right, or another report of it is to come, or it   *)
(* has been overtaken.                                                       *)
LEMMA SendStateKeeps ==
  ASSUME Core, NEW a \in Actors, SendState(a)
  PROVE  Core'
  <1>1. /\ Typed /\ Programs /\ Driven /\ Agreed /\ Computed /\ Shining /\ Reported /\ Kept
    BY DEF Core
  <1>2. /\ At(a, "send") /\ Done(a)
        /\ UNCHANGED <<given, childLockEnabled, split>>
        /\ UNCHANGED <<relay, config, led, flash, isconnect, unsaved, crossed, lamp_off>>
    BY DEF SendState, lock
  <1>3. /\ Arg(a) \in Steps /\ Arg(a).do = "send"
        /\ todo' \in [Actors -> Seq(Steps)] /\ Programs'
        /\ \A k : ToCome(k) => ToCome(k)' \/ k = Kind(Arg(a))
    BY <1>1, <1>2, Taken
  <1>4. /\ \A b \in Actors : \A x :
             /\ Setting(b, x)' => Setting(b, x)
             /\ Sending(b, x)' <=> b # a /\ Sending(b, x)
             /\ b = a => (Sending(b, x) <=> Arg(a).x = x)
        /\ \A b \in Actors :
             /\ Blinking(b)' <=> Blinking(b)
             /\ At(b, "lamp")' <=> At(b, "lamp")
    BY <1>1, <1>2, Taken
  <1>5. PICK t \in Topics : t = Arg(a).x
    BY <1>3 DEF Steps
  <1>6. Lit' = Lit /\ \A u \in Topics : State(u)' = State(u)
    BY <1>2, SameConfig
  <1>7. \A k : k[1] # "send" => (ToCome(k) => ToCome(k)')
    BY <1>3 DEF Kind
  <1>8. shown' = IF ~isconnect THEN shown
                 ELSE [shown EXCEPT ![t] = IF my[a].older THEN OLDER ELSE my[a].val]
    BY <1>5 DEF SendState
  <1>9. /\ my' = [b \in Actors |->
                    IF b = a THEN [my[a] EXCEPT !.val = 0, !.older = FALSE]
                    ELSE IF isconnect /\ Sending(b, t) THEN [my[b] EXCEPT !.older = TRUE]
                    ELSE my[b]]
    BY <1>5 DEF SendState, Sending
  <1>10. /\ my \in [Actors -> Locals] /\ my[a] \in Locals /\ my[a].val \in Int
    BY <1>1 DEF Typed, Locals
  <1>11. ASSUME NEW b \in Actors
         PROVE  /\ my'[b] \in Locals
                /\ my'[b].on = my[b].on /\ my'[b].lit = my[b].lit /\ my'[b].stale = my[b].stale
                /\ b # a => /\ my'[b].val = my[b].val
                            /\ my'[b].older = ((isconnect /\ Sending(b, t)) \/ my[b].older)
    <2>1. my[b] \in Locals
      BY <1>10
    <2>2. CASE b = a
      <3>1. my'[b] = [my[b] EXCEPT !.val = 0, !.older = FALSE]
        BY <1>9, <2>2
      <3>2. my'[b] \in Locals
        <4>1. 0 \in Int /\ FALSE \in BOOLEAN
          OBVIOUS
        <4>q. QED
          BY <2>1, <3>1, <4>1, Zenon DEF Locals
      <3>3. /\ my'[b].on = my[b].on /\ my'[b].lit = my[b].lit
            /\ my'[b].stale = my[b].stale
        BY <2>1, <3>1 DEF Locals
      <3>q. QED
        BY <2>2, <3>2, <3>3
    <2>3. CASE b # a /\ isconnect /\ Sending(b, t)
      <3>1. my'[b] = [my[b] EXCEPT !.older = TRUE]
        BY <1>9, <2>3
      <3>q. QED
        BY <2>1, <2>3, <3>1 DEF Locals
    <2>4. CASE b # a /\ ~(isconnect /\ Sending(b, t))
      <3>1. my'[b] = my[b]
        BY <1>9, <2>4
      <3>2. my[b].older \in BOOLEAN
        BY <2>1 DEF Locals
      <3>q. QED
        BY <2>1, <2>4, <3>1, <3>2
    <2>q. QED
      BY <2>2, <2>3, <2>4
  <1>12. my' \in [Actors -> Locals]
    <2>1. \A b \in Actors : my'[b] \in Locals
      BY <1>11
    <2>q. QED
      BY <1>9, <2>1
  <1>13. shown' \in [Topics -> Int \cup {UNSAID, OLDER}]
    BY <1>1, <1>8, <1>10 DEF Typed
  <1>14. Typed'
    BY <1>1, <1>2, <1>3, <1>12, <1>13 DEF Typed
  <1>15. Driven'
    BY <1>1, <1>2, <1>4, <1>11, KeepDriven
  <1>16. Agreed'
    BY <1>1, <1>2, <1>7, KeepAgreed
  <1>17. Computed'
    BY <1>1, <1>4, <1>6, <1>11, KeepComputed
  <1>18. ToCome(<<"lamp", 0>>) => ToCome(<<"lamp", 0>>)'
    BY <1>7
  <1>19. Shining'
    BY <1>1, <1>2, <1>4, <1>6, <1>11, <1>18, KeepShining DEF Actors
  <1>20. Reported'
    <2> SUFFICES ASSUME isconnect, NEW u \in Topics
                 PROVE  \/ /\ shown'[u] \in {State(u)', OLDER}
                           /\ \A b \in Actors : Sending(b, u)' => Fresh(b, u)'
                        \/ ToCome(<<"read", u>>)'
                        \/ \E b \in Actors : Fresh(b, u)'
      BY <1>2 DEF Reported
    <2>1. ToCome(<<"read", u>>) => ToCome(<<"read", u>>)'
      BY <1>7
    <2>2. \/ /\ shown[u] \in {State(u), OLDER}
             /\ \A b \in Actors : Sending(b, u) => Fresh(b, u)
          \/ ToCome(<<"read", u>>)
          \/ \E b \in Actors : Fresh(b, u)
      BY <1>1 DEF Reported
    <2>3. CASE u = t
      <3>1. \A b \in Actors : b # a /\ Sending(b, t) => Sending(b, u)' /\ my'[b].older
        BY <1>4, <1>11, <2>3
      <3>2. \A b \in Actors : Sending(b, u)' => b # a /\ Sending(b, t)
        BY <1>4, <2>3
      <3>3. \A b \in Actors : Sending(b, u)' => Fresh(b, u)'
        BY <3>1, <3>2 DEF Fresh
      <3>4. CASE Fresh(a, t)
        <4>1. shown'[t] = IF my[a].older THEN OLDER ELSE my[a].val
          BY <1>1, <1>8 DEF Typed
        <4>2. shown'[u] \in {State(u)', OLDER}
          BY <1>6, <2>3, <3>4, <4>1 DEF Fresh
        <4>q. QED
          BY <3>3, <4>2
      <3>5. CASE ~Fresh(a, t)
        <4>1. Sending(a, t)
          BY <1>4, <1>5
        <4>2. ToCome(<<"read", u>>) \/ \E b \in Actors : Fresh(b, t)
          BY <2>2, <2>3, <3>5, <4>1
        <4>3. ASSUME NEW b \in Actors, Fresh(b, t) PROVE Fresh(b, u)'
          <5>1. b # a /\ Sending(b, t)
            BY <3>5, <4>3 DEF Fresh
          <5>2. Sending(b, u)'
            BY <3>1, <5>1
          <5>q. QED
            BY <3>3, <5>2
        <4>q. QED
          BY <2>1, <4>2, <4>3
      <3>q. QED
        BY <3>4, <3>5
    <2>4. CASE u # t
      <3>1. \A b \in Actors : /\ Sending(b, u)' <=> Sending(b, u)
                              /\ Sending(b, u) => b # a /\ ~Sending(b, t)
        BY <1>4, <1>5, <2>4 DEF Sending
      <3>2. \A b \in Actors : Sending(b, u) => /\ my'[b].val = my[b].val
                                               /\ my'[b].older = my[b].older
        <4>1. ASSUME NEW b \in Actors, Sending(b, u)
              PROVE  my'[b].val = my[b].val /\ my'[b].older = my[b].older
          <5>1. b # a /\ ~Sending(b, t)
            BY <3>1, <4>1
          <5>2. my'[b] = my[b]
            BY <1>9, <5>1
          <5>q. QED
            BY <5>2
        <4>q. QED
          BY <4>1
      <3>3. \A b \in Actors : Fresh(b, u)' <=> Fresh(b, u)
        BY <1>6, <3>1, <3>2 DEF Fresh
      <3>4. shown'[u] = shown[u]
        BY <1>1, <1>8, <2>4 DEF Typed
      <3>q. QED
        BY <1>6, <2>1, <2>2, <3>1, <3>3, <3>4
    <2>q. QED
      BY <2>3, <2>4
  <1>21. ToCome(<<"save", 0>>) => ToCome(<<"save", 0>>)'
    BY <1>7
  <1>22. Kept'
    BY <1>1, <1>2, <1>21, KeepKept
  <1>q. QED
    BY <1>3, <1>14, <1>15, <1>16, <1>17, <1>19, <1>20, <1>22 DEF Core

(* Whoever is to write a status is to save it.                              *)
LEMMA StatusIsPaid ==
  ASSUME NEW q, Rest(q), NEW i, <<"status", i>> \in Kinds(q)
  PROVE  <<"save", 0>> \in Kinds(q)
  <1>1. q \in Seq(Steps) /\ Paid(q, {})
    BY DEF Rest
  <1>2. PICK n \in 1 .. Len(q) : Kind(q[n]) = <<"status", i>>
    BY DEF Kinds
  <1>3. q[n].do = "status"
    BY <1>2 DEF Kind
  <1>4. <<"save", 0>> \in Owes(q[n]) \ {}
    BY <1>3 DEF Owes
  <1>5. PICK m \in n + 1 .. Len(q) : Kind(q[m]) = <<"save", 0>>
    BY <1>1, <1>4 DEF Paid
  <1>6. m \in 1 .. Len(q)
    <2>1. Len(q) \in Nat
      BY <1>1
    <2>q. QED
      BY <2>1
  <1>q. QED
    BY <1>5, <1>6 DEF Kinds

(* A start changes nothing but statuses that are less than 0.                *)
LEMMA BootedSame ==
  ASSUME NEW c \in Config, \A i \in Sockets : c.status[i] >= 0
  PROVE  Booted(c) = c
  <1>1. c.status \in [Sockets -> Byte]
    BY DEF Config
  <1>2. \A i \in Sockets : NewStatus(c.status[i], c.status[i]) = c.status[i]
    BY <1>1 DEF NewStatus, Byte
  <1>3. [i \in Sockets |-> NewStatus(c.status[i], c.status[i])] = c.status
    BY <1>1, <1>2
  <1>q. QED
    BY <1>3 DEF Booted, Config

(* The steps that touch neither sockets nor LED nor what is reported of them *)
(* but save, or end unsaved.                                                 *)
LEMMA SavingKeeps ==
  ASSUME Core, NEW a \in Actors, AppContextUpdate(a) \/ LeaveUnsaved(a)
  PROVE  Core'
  <1>1. /\ Typed /\ Programs /\ Driven /\ Agreed /\ Computed /\ Shining /\ Reported /\ Kept
    BY DEF Core
  <1>2. /\ \/ At(a, "save") /\ flash' = config /\ unsaved' = FALSE
           \/ At(a, "unsaved") /\ flash' = flash /\ unsaved' = (config # Booted(flash))
        /\ Done(a)
        /\ UNCHANGED <<given, childLockEnabled, split>>
        /\ UNCHANGED <<relay, config, led, shown, isconnect, my, crossed, lamp_off>>
    BY DEF AppContextUpdate, LeaveUnsaved, lock
  <1>3. PICK do \in {"save", "unsaved"} : At(a, do)
    BY <1>2
  <1>4. /\ todo' \in [Actors -> Seq(Steps)] /\ Programs'
        /\ \A k : ToCome(k) => ToCome(k)' \/ k = Kind(Arg(a))
        /\ Arg(a).do = do
    BY <1>1, <1>2, <1>3, Taken
  <1>5. /\ \A b \in Actors : \A x :
             /\ Setting(b, x)' => Setting(b, x)
             /\ Sending(b, x)' <=> Sending(b, x)
        /\ \A b \in Actors :
             /\ Blinking(b)' <=> Blinking(b)
             /\ At(b, "lamp")' <=> At(b, "lamp")
    BY <1>1, <1>2, <1>3, Taken
  <1>6. Lit' = Lit /\ \A t \in Topics : State(t)' = State(t)
    BY <1>2, SameConfig
  <1>7. \A k : k[1] # "save" => (ToCome(k) => ToCome(k)')
    BY <1>4 DEF Kind
  <1>8. Typed'
    BY <1>1, <1>2, <1>4 DEF Typed
  <1>9. Driven'
    BY <1>1, <1>2, <1>5, KeepDriven
  <1>10. Agreed'
    BY <1>1, <1>2, <1>7, KeepAgreed
  <1>11. Computed'
    BY <1>1, <1>2, <1>5, <1>6, KeepComputed
  <1>12. ToCome(<<"lamp", 0>>) => ToCome(<<"lamp", 0>>)'
    BY <1>7
  <1>13. Shining'
    BY <1>1, <1>2, <1>5, <1>6, <1>12, KeepShining DEF Actors
  <1>14. Reported'
    <2>1. \A t \in Topics : ToCome(<<"read", t>>) => ToCome(<<"read", t>>)'
      BY <1>7
    <2>q. QED
      BY <1>1, <1>2, <1>5, <1>6, <2>1, KeepReported
  <1>15. Kept'
    <2>1. CASE do = "unsaved"
      <3>1. unsaved' = (config # Booted(flash)) /\ flash' = flash
        BY <1>2, <1>3, <2>1 DEF At
      <3>2. Booted(flash)' = Booted(flash)
        BY <3>1 DEF Booted
      <3>q. QED
        BY <1>2, <3>1, <3>2 DEF Kept
    <2>2. CASE do = "save"
      <3>1. flash' = config
        BY <1>2, <1>3, <2>2 DEF At
      <3>2. CASE \A i \in Sockets : config.status[i] >= 0
        <4>1. Booted(config) = config
          BY <1>1, <3>2, BootedSame DEF Typed
        <4>2. Booted(flash)' = Booted(config)
          BY <3>1 DEF Booted
        <4>q. QED
          BY <1>2, <4>1, <4>2 DEF Kept
      <3>3. CASE \E i \in Sockets : ~(config.status[i] >= 0)
        <4>1. PICK i \in Sockets : ~(config.status[i] >= 0)
          BY <3>3
        <4>2. ToCome(<<"status", i>>)
          BY <1>1, <4>1 DEF Agreed
        <4>3. <<"status", i>> # Kind(Arg(a))
          BY <1>4 DEF Kind
        <4>4. ToCome(<<"status", i>>)'
          BY <1>4, <4>2, <4>3
        <4>5. PICK b \in Actors : <<"status", i>> \in Kinds(todo'[b])
          BY <4>4, ToComeKinds
        <4>6. Rest(todo'[b])
          BY <1>4 DEF Programs
        <4>7. <<"save", 0>> \in Kinds(todo'[b])
          BY <4>5, <4>6, StatusIsPaid
        <4>8. ToCome(<<"save", 0>>)'
          BY <4>7, ToComeKinds
        <4>q. QED
          BY <4>8 DEF Kept
      <3>q. QED
        BY <3>2, <3>3
    <2>q. QED
      BY <2>1, <2>2
  <1>q. QED
    BY <1>4, <1>8, <1>9, <1>10, <1>11, <1>13, <1>14, <1>15 DEF Core

(* A program is begun.                                                       *)
LEMMA BeginKeeps ==
  ASSUME Core, NEW a \in Actors, Idle(a), NEW q, Piece(q, {}),
         todo' = [todo EXCEPT ![a] = q],
         \/ isconnect' = isconnect /\ shown' = shown
         \/ isconnect' = FALSE /\ shown' = Nothing,
         UNCHANGED <<given, childLockEnabled, split>>,
         UNCHANGED <<relay, config, led, flash, my, unsaved, crossed, lamp_off>>
  PROVE  Core'
  <1>1. /\ Typed /\ Programs /\ Driven /\ Agreed /\ Computed /\ Shining /\ Reported /\ Kept
    BY DEF Core
  <1>2. /\ todo' \in [Actors -> Seq(Steps)] /\ Programs'
        /\ \A k : ToCome(k) => ToCome(k)'
        /\ \A b \in Actors :
             /\ \A x : (Setting(b, x)' <=> Setting(b, x)) /\ (Sending(b, x)' <=> Sending(b, x))
             /\ At(b, "lamp")' <=> At(b, "lamp")
             /\ Blinking(b)' <=> Blinking(b)
    BY <1>1, BegunFacts
  <1>3. Lit' = Lit /\ \A t \in Topics : State(t)' = State(t)
    BY SameConfig
  <1>4. Typed'
    BY <1>1, <1>2 DEF Typed, Nothing
  <1>5. Driven'
    BY <1>1, <1>2, KeepDriven
  <1>6. Agreed'
    BY <1>1, <1>2, KeepAgreed
  <1>7. Computed'
    BY <1>1, <1>2, <1>3, KeepComputed
  <1>8. ToCome(<<"lamp", 0>>) => ToCome(<<"lamp", 0>>)'
    BY <1>2
  <1>9. Shining'
    BY <1>1, <1>2, <1>3, <1>8, KeepShining DEF Actors
  <1>10. Reported'
    <2>1. CASE isconnect'
      <3>1. isconnect' = isconnect /\ shown' = shown
        BY <2>1
      <3>2. \A t \in Topics : ToCome(<<"read", t>>) => ToCome(<<"read", t>>)'
        BY <1>2
      <3>q. QED
        BY <1>1, <1>2, <1>3, <3>1, <3>2, KeepReported
    <2>2. CASE ~isconnect'
      BY <2>2 DEF Reported
    <2>q. QED
      BY <2>1, <2>2
  <1>11. ToCome(<<"save", 0>>) => ToCome(<<"save", 0>>)'
    BY <1>2
  <1>12. Kept'
    BY <1>1, <1>11, KeepKept
  <1>q. QED
    BY <1>2, <1>4, <1>5, <1>6, <1>7, <1>9, <1>10, <1>12 DEF Core

(* The client is connected: it will report every topic.                      *)
LEMMA IsConnectedKeeps ==
  ASSUME Core, IsConnected
  PROVE  Core'
  <1> DEFINE a == "client"
  <1>1. /\ Typed /\ Programs /\ Driven /\ Agreed /\ Computed /\ Shining /\ Reported /\ Kept
    BY DEF Core
  <1>2. /\ a \in Actors /\ At(a, "connected") /\ Done(a) /\ isconnect' = TRUE
        /\ UNCHANGED <<given, childLockEnabled, split>>
        /\ UNCHANGED <<relay, config, led, flash, shown, my, unsaved, crossed, lamp_off>>
    BY DEF IsConnected, lock, Actors
  <1>3. /\ todo' \in [Actors -> Seq(Steps)] /\ Programs'
        /\ \A k : ToCome(k) => ToCome(k)' \/ k = Kind(Arg(a))
        /\ \A k \in Owes(Arg(a)) : ToCome(k)'
        /\ Arg(a).do = "connected"
    BY <1>1, <1>2, Taken
  <1>4. /\ \A b \in Actors : \A x :
             /\ Setting(b, x)' => Setting(b, x)
             /\ Sending(b, x)' <=> Sending(b, x)
        /\ \A b \in Actors :
             /\ Blinking(b)' <=> Blinking(b)
             /\ At(b, "lamp")' <=> At(b, "lamp")
    BY <1>1, <1>2, Taken
  <1>5. Lit' = Lit
    BY <1>2, SameConfig
  <1>6. \A k : k[1] # "connected" => (ToCome(k) => ToCome(k)')
    BY <1>3 DEF Kind
  <1>7. Typed'
    BY <1>1, <1>2, <1>3 DEF Typed
  <1>8. Driven'
    BY <1>1, <1>2, <1>4, KeepDriven
  <1>9. Agreed'
    BY <1>1, <1>2, <1>6, KeepAgreed
  <1>10. Computed'
    BY <1>1, <1>2, <1>4, <1>5, KeepComputed
  <1>11. ToCome(<<"lamp", 0>>) => ToCome(<<"lamp", 0>>)'
    BY <1>6
  <1>12. Shining'
    BY <1>1, <1>2, <1>4, <1>5, <1>11, KeepShining DEF Actors
  <1>13. Reported'
    <2>1. Owes(Arg(a)) = {<<"read", t>> : t \in Topics}
      BY <1>3 DEF Owes
    <2>2. \A t \in Topics : ToCome(<<"read", t>>)'
      BY <1>3, <2>1
    <2>q. QED
      BY <2>2 DEF Reported
  <1>14. ToCome(<<"save", 0>>) => ToCome(<<"save", 0>>)'
    BY <1>6
  <1>15. Kept'
    BY <1>1, <1>2, <1>14, KeepKept
  <1>q. QED
    BY <1>3, <1>7, <1>8, <1>9, <1>10, <1>12, <1>13, <1>15 DEF Core

(* The LED is inverted, or inverted back.                                    *)
LEMMA BlinkKeeps ==
  ASSUME Core, Blink \/ BlinkBack
  PROVE  Core'
  <1> DEFINE a == "client"
             L == [my EXCEPT !["client"].stale = IF Blink THEN lamp_off ELSE FALSE]
  <1>1. /\ Typed /\ Programs /\ Driven /\ Agreed /\ Computed /\ Shining /\ Reported /\ Kept
    BY DEF Core
  <1>2. /\ \/ /\ At(a, "blink") /\ lamp_off' = lamp_off /\ my' = Outdated(a, L)
              /\ L[a].stale = lamp_off
           \/ At(a, "blinked") /\ lamp_off' = my[a].stale /\ my' = Outdated(a, L)
        /\ a \in Actors /\ Done(a) /\ led' = Flipped(led)
        /\ UNCHANGED <<given, childLockEnabled, split>>
        /\ UNCHANGED <<relay, config, flash, shown, isconnect, unsaved, crossed>>
        /\ L \in [Actors -> Locals]
        /\ \A b \in Actors : /\ L[b].on = my[b].on /\ L[b].lit = my[b].lit
                             /\ L[b].val = my[b].val /\ L[b].older = my[b].older
    <2>1. ~(Blink /\ BlinkBack)
      BY DEF Blink, lock, BlinkBack, Blinking, At
    <2>2. my \in [Actors -> Locals] /\ lamp_off \in BOOLEAN /\ a \in Actors
      BY <1>1 DEF Typed, Actors
    <2>3. PICK s \in BOOLEAN : s = IF Blink THEN lamp_off ELSE FALSE
      BY <2>2
    <2>4. L = [my EXCEPT !["client"].stale = s]
      BY <2>3
    <2>5. /\ L \in [Actors -> Locals] /\ L[a].stale = s
          /\ \A b \in Actors : /\ L[b].on = my[b].on /\ L[b].lit = my[b].lit
                               /\ L[b].val = my[b].val /\ L[b].older = my[b].older
      <3> HIDE DEF L
      <3>q. QED
        BY <2>2, <2>4 DEF Locals
    <2>6. CASE Blink
      <3>1. s = lamp_off /\ L = [my EXCEPT !["client"].stale = lamp_off]
        BY <2>3, <2>4, <2>6
      <3> HIDE DEF L
      <3>q. QED
        BY <2>2, <2>5, <2>6, <3>1 DEF Blink, lock
    <2>7. CASE BlinkBack
      <3>1. L = [my EXCEPT !["client"].stale = FALSE]
        BY <2>1, <2>7
      <3> HIDE DEF L
      <3>q. QED
        BY <2>2, <2>5, <2>7, <3>1 DEF BlinkBack, Blinking, lock
    <2>q. QED
      BY <2>6, <2>7
  <1>3. PICK do \in {"blink", "blinked"} : At(a, do)
    BY <1>2
  <1>4. /\ todo' \in [Actors -> Seq(Steps)] /\ Programs'
        /\ \A k : ToCome(k) => ToCome(k)' \/ k = Kind(Arg(a))
        /\ Arg(a).do = do
    BY <1>1, <1>2, <1>3, Taken
  <1>5. /\ \A b \in Actors : \A x :
             /\ Setting(b, x)' => Setting(b, x)
             /\ Sending(b, x)' <=> Sending(b, x)
        /\ Blinking(a)' <=> do = "blink"
        /\ Blinking(a) <=> do = "blinked"
        /\ \A b \in Actors :
             /\ b = a => ~At(b, "lamp")
             /\ At(b, "lamp")' <=> At(b, "lamp")
    BY <1>1, <1>2, <1>3, Taken
  <1>6. Lit' = Lit /\ \A t \in Topics : State(t)' = State(t)
    BY <1>2, SameConfig
  <1>7. \A k : k[1] # "blink" /\ k[1] # "blinked" => (ToCome(k) => ToCome(k)')
    BY <1>4 DEF Kind
  <1> HIDE DEF L
  <1>8. /\ my' \in [Actors -> Locals]
        /\ \A b \in Actors :
             /\ my'[b].on = my[b].on /\ my'[b].lit = my[b].lit
             /\ my'[b].val = my[b].val /\ my'[b].older = my[b].older
             /\ b # a /\ Lighting(b) => my'[b].stale
             /\ b = a => my'[b].stale = L[b].stale
    BY <1>2, OutdatedFacts
  <1>9. Typed'
    <2>1. led' \in Bit
      BY <1>1, <1>2 DEF Typed, Flipped, Bit
    <2>2. lamp_off' \in BOOLEAN
      BY <1>1, <1>2 DEF Typed, Locals
    <2>q. QED
      BY <1>1, <1>2, <1>4, <1>8, <2>1, <2>2 DEF Typed
  <1>10. Driven'
    BY <1>1, <1>2, <1>5, <1>8, KeepDriven
  <1>11. Agreed'
    BY <1>1, <1>2, <1>7, KeepAgreed
  <1>12. Computed'
    BY <1>1, <1>5, <1>8, KeepComputed DEF Lighting
  <1>13. ToCome(<<"lamp", 0>>) => ToCome(<<"lamp", 0>>)'
    BY <1>7
  <1>14. Shining'
    <2>1. CASE do = "blink"
      <3>1. my'[a].stale = lamp_off
        BY <1>1, <1>2, <1>3, <1>5, <1>8, <2>1 DEF Blinking
      <3>q. QED
        BY <1>1, <1>2, <1>5, <1>6, <1>13, <2>1, <3>1 DEF Shining
    <2>2. CASE do = "blinked"
      <3>1. lamp_off' = my[a].stale
        <4>1. ~At(a, "blink")
          BY <1>3, <2>2 DEF At
        <4>q. QED
          BY <1>2, <4>1
      <3>2. Flipped(Flipped(Lit)) = Lit
        BY DEF Lit, ToBit, Flipped
      <3>3. my[a].stale \/ ToCome(<<"lamp", 0>>) \/ led = Flipped(Lit)
        BY <1>1, <1>5, <2>2 DEF Shining
      <3>4. ~Blinking("client")'
        BY <1>5, <2>2
      <3>q. QED
        BY <1>2, <1>6, <1>13, <3>1, <3>2, <3>3, <3>4 DEF Shining
    <2>q. QED
      BY <2>1, <2>2
  <1>15. Reported'
    <2>1. \A t \in Topics : ToCome(<<"read", t>>) => ToCome(<<"read", t>>)'
      BY <1>7
    <2>q. QED
      BY <1>1, <1>2, <1>5, <1>6, <1>8, <2>1, KeepReported
  <1>16. ToCome(<<"save", 0>>) => ToCome(<<"save", 0>>)'
    BY <1>7
  <1>17. Kept'
    BY <1>1, <1>2, <1>16, KeepKept
  <1>q. QED
    BY <1>4, <1>9, <1>10, <1>11, <1>12, <1>14, <1>15, <1>17 DEF Core

(* The client exits and leaves the LED inverted, which is recorded.          *)
LEMMA ExitKeeps ==
  ASSUME Core, Exit
  PROVE  Core'
  <1>1. /\ Typed /\ Programs /\ Driven /\ Agreed /\ Computed /\ Shining /\ Reported /\ Kept
    BY DEF Core
  <1>2. /\ Idle("client") /\ "client" \in Actors
        /\ isconnect' = FALSE /\ shown' = Nothing /\ led' = Flipped(led) /\ lamp_off' = TRUE
        /\ my' = Outdated("client", my)
        /\ UNCHANGED <<given, childLockEnabled, split>>
        /\ UNCHANGED <<relay, config, flash, todo, unsaved, crossed>>
    BY DEF Exit, lock, Actors
  <1>3. my \in [Actors -> Locals]
    BY <1>1 DEF Typed
  <1>4. /\ my' \in [Actors -> Locals]
        /\ \A b \in Actors :
             /\ my'[b].on = my[b].on /\ my'[b].lit = my[b].lit
             /\ b # "client" /\ Lighting(b) => my'[b].stale
    BY <1>2, <1>3, OutdatedFacts
  <1>5. /\ \A k : ToCome(k)' <=> ToCome(k)
        /\ \A b \in Actors : /\ \A x : Setting(b, x)' <=> Setting(b, x)
                             /\ At(b, "lamp")' <=> At(b, "lamp")
        /\ Programs'
    BY <1>1, <1>2 DEF ToCome, Setting, At, Idle, Arg, Programs
  <1>6. ~At("client", "lamp") /\ ~Blinking("client")'
    BY <1>2 DEF At, Blinking, Idle
  <1>7. Typed'
    <2>1. led' \in Bit /\ shown' \in [Topics -> Int \cup {UNSAID, OLDER}]
      BY <1>1, <1>2 DEF Typed, Nothing, Flipped, Bit
    <2>q. QED
      BY <1>1, <1>2, <1>4, <2>1 DEF Typed
  <1>8. Driven'
    BY <1>1, <1>2, <1>4, <1>5, KeepDriven
  <1>9. Agreed'
    BY <1>1, <1>2, <1>5, KeepAgreed
  <1>10. Computed'
    BY <1>1, <1>4, <1>5, <1>6, KeepComputed DEF Lighting
  <1>11. Shining' /\ Reported'
    BY <1>2, <1>6 DEF Shining, Reported
  <1>12. ToCome(<<"save", 0>>) <=> ToCome(<<"save", 0>>)'
    BY <1>5
  <1>13. Kept'
    BY <1>1, <1>2, <1>12, KeepKept
  <1>q. QED
    BY <1>5, <1>7, <1>8, <1>9, <1>10, <1>11, <1>13 DEF Core

(* Nobody is at anything.                                                    *)
LEMMA AllQuiet ==
  ASSUME Quiet
  PROVE  /\ \A k : ~ToCome(k)
         /\ \A b \in Actors : /\ \A do : ~At(b, do)
                              /\ ~Blinking(b)
                              /\ \A x : ~Setting(b, x) /\ ~Sending(b, x)
         /\ Programs
  <1>1. \A a \in Actors : todo[a] = <<>>
    BY DEF Quiet, Idle
  <1>2. \A k : ~ToCome(k)
    BY <1>1 DEF ToCome
  <1>3. \A b \in Actors : \A do : ~At(b, do)
    BY <1>1 DEF At, Idle
  <1>4. \A b \in Actors : ~Blinking(b) /\ \A x : ~Setting(b, x) /\ ~Sending(b, x)
    BY <1>3 DEF Blinking, Setting, Sending
  <1>5. Rest(<<>>)
    BY DEF Rest, Linked, Paid
  <1>6. Programs
    BY <1>1, <1>5 DEF Programs
  <1>q. QED
    BY <1>2, <1>3, <1>4, <1>6

(* All is as the boot leaves it.                                             *)
Restarted ==
  /\ Quiet /\ Typed
  /\ \A i \in Sockets :
       /\ config.status[i] >= 0
       /\ crossed[i] \/ relay[i] = ToBit(config.status[i] # 0)
  /\ config = Booted(flash) /\ childLockEnabled = config.lock
  /\ ~isconnect
  /\ \A a \in Actors : my[a] = NoLocals
  /\ lamp_off \/ led = Lit

(* The invariant holds then.                                                 *)
LEMMA AfterBoot ==
  Restarted => IInv
  <1> SUFFICES ASSUME Restarted PROVE IInv
    OBVIOUS
  <1>1. /\ \A k : ~ToCome(k)
        /\ \A b \in Actors : /\ \A do : ~At(b, do)
                             /\ ~Blinking(b)
                             /\ \A x : ~Setting(b, x) /\ ~Sending(b, x)
        /\ Programs
    BY AllQuiet DEF Restarted
  <1>2. Driven /\ Agreed
    BY <1>1 DEF Driven, Agreed, Restarted
  <1>3. Computed
    BY <1>1 DEF Computed, NoLocals, Restarted
  <1>4. Shining
    BY <1>1 DEF Shining, Actors, Restarted
  <1>5. Reported /\ Kept
    BY DEF Reported, Kept, Restarted
  <1>6. Trusting /\ UpToDate /\ Locked
    BY <1>1 DEF Trusting, UpToDate, Locked, NoLocals, Restarted
  <1>q. QED
    BY <1>1, <1>2, <1>3, <1>4, <1>5, <1>6 DEF IInv, Core, Hands, Restarted

(* Nothing has been begun at the start.                                      *)
LEMMA InitKeeps ==
  Init => IInv
  <1> SUFFICES ASSUME Init PROVE Restarted
    BY AfterBoot
  <1>1. Quiet
    BY DEF Init, Quiet, Idle
  <1>2. /\ config \in Config /\ relay \in [Sockets -> Bit] /\ relay = config.status
        /\ config.enabled = 1 /\ config.lock = 0 /\ \A i \in Sockets : config.status[i] = 1
    BY DEF Init, Config, Bit, Byte
  <1>3. Lit = 1
    BY <1>2, TopicFacts DEF Lit, RelayOut, ToBit
  <1>4. my \in [Actors -> Locals] /\ \A a \in Actors : my[a] = NoLocals
    BY DEF Init, NoLocals, Locals, Bit, Byte
  <1>5. todo \in [Actors -> Seq(Steps)]
    BY DEF Init
  <1>6. given \in Scenarios /\ childLockEnabled \in Int /\ split \in BOOLEAN
    <2>1. childLockEnabled = 0
      BY <1>2 DEF Init
    <2>2. given \in Scenarios /\ split \in BOOLEAN
      BY DEF Init
    <2>q. QED
      BY <2>1, <2>2
  <1>7. Typed
    BY <1>2, <1>4, <1>5, <1>6 DEF Init, Typed, Nothing, Bit
  <1>8. \A i \in Sockets : config.status[i] >= 0 /\ relay[i] = ToBit(config.status[i] # 0)
    BY <1>2 DEF ToBit
  <1>9. config = Booted(flash) /\ childLockEnabled = config.lock
    BY <1>2, <1>8, BootedSame DEF Init
  <1>q. QED
    BY <1>1, <1>3, <1>4, <1>7, <1>8, <1>9 DEF Init, Restarted

(* The boot brings back what was saved.                                      *)
LEMMA RebootKeeps ==
  ASSUME IInv, Reboot
  PROVE  IInv'
  <1>1. Typed
    BY DEF IInv, Core
  <1>2. Quiet'
    BY DEF Reboot, Quiet, Idle
  <1>3. /\ flash \in Config /\ flash' = flash /\ config' = Booted(flash)
        /\ flash.status \in [Sockets -> Byte] /\ flash.enabled \in Int /\ flash.lock \in Byte
    BY <1>1 DEF Typed, Reboot, Config
  <1>4. /\ config' \in Config /\ config'.enabled = flash.enabled /\ config'.lock = flash.lock
        /\ \A i \in Sockets :
             config'.status[i] = NewStatus(flash.status[i], flash.status[i])
        /\ \A i \in Sockets : config'.status[i] >= 0
    <2> DEFINE f == [i \in Sockets |-> NewStatus(flash.status[i], flash.status[i])]
    <2>1. \A i \in Sockets : NewStatus(flash.status[i], flash.status[i]) \in Byte
                             /\ NewStatus(flash.status[i], flash.status[i]) >= 0
      BY <1>3, StatusIsByte
    <2>2. f \in [Sockets -> Byte]
      BY <2>1
    <2>3. config' = [flash EXCEPT !.status = f]
      BY <1>3 DEF Booted
    <2>4. \A i \in Sockets : f[i] = NewStatus(flash.status[i], flash.status[i])
      OBVIOUS
    <2> HIDE DEF f
    <2>5. /\ config' \in Config /\ config'.enabled = flash.enabled /\ config'.lock = flash.lock
          /\ config'.status = f
      BY <1>3, <2>2, <2>3 DEF Config
    <2>q. QED
      BY <2>1, <2>4, <2>5
  <1>5. /\ relay' \in [Sockets -> Bit] /\ crossed' \in [Sockets -> BOOLEAN]
        /\ \A i \in Sockets : crossed'[i] \/ relay'[i] = ToBit(config'.status[i] # 0)
    <2>1. /\ relay' \in [Sockets -> Bit]
          /\ \A i \in Sockets : flash.status[i] \in Known => relay'[i] = config'.status[i]
          /\ crossed' = [i \in Sockets |-> flash.status[i] \notin Known]
      BY DEF Reboot
    <2>2. ASSUME NEW i \in Sockets, flash.status[i] \in Known
          PROVE  relay'[i] = ToBit(config'.status[i] # 0)
      <3>1. relay'[i] = config'.status[i] /\ relay'[i] \in Bit
        BY <2>1, <2>2
      <3>q. QED
        BY <3>1 DEF ToBit, Bit
    <2>q. QED
      BY <2>1, <2>2
  <1>6. my' \in [Actors -> Locals] /\ \A a \in Actors : my'[a] = NoLocals
    BY DEF Reboot, NoLocals, Locals, Bit, Byte
  <1>7. todo' \in [Actors -> Seq(Steps)]
    BY DEF Reboot
  <1>8. /\ childLockEnabled' = flash.lock /\ childLockEnabled' \in Int /\ split' = FALSE
        /\ given' = given
    <2>1. childLockEnabled' = flash.lock
      BY DEF Reboot
    <2>2. childLockEnabled' \in Int
      BY <1>3, <2>1 DEF Byte
    <2>3. split' = FALSE /\ given' = given
      BY DEF Reboot
    <2>q. QED
      BY <2>1, <2>2, <2>3
  <1>9. led' \in Bit
    BY DEF Reboot, ToBit, Bit
  <1>10. lamp_off' \in BOOLEAN /\ unsaved' = FALSE /\ isconnect' = FALSE /\ shown' = Nothing
    BY DEF Reboot
  <1>11. Typed'
    BY <1>1, <1>3, <1>4, <1>5, <1>6, <1>7, <1>8, <1>9, <1>10 DEF Typed, Nothing
  <1>12. lamp_off' \/ led' = Lit'
    <2> DEFINE C == Char(flash.enabled)
    <2>1. lamp_off' = (/\ flash.enabled # 0
                       /\ (\A i \in Sockets : config'.status[i] = 0) \/ C \in {-1, 0})
      BY DEF Reboot
    <2>2. led' \in (IF C = -1 THEN Bit ELSE {ToBit(C # 0)})
      BY DEF Reboot
    <2>3. Lit' = IF (\E i \in Sockets : config'.status[i] # 0) /\ flash.enabled # 0
                 THEN 1 ELSE 0
      BY <1>4 DEF Lit, RelayOut, ToBit
    <2>4. flash.enabled = 0 => C = 0
      BY DEF Char
    <2> HIDE DEF C
    <2>q. QED
      BY <2>1, <2>2, <2>3, <2>4 DEF ToBit
  <1>13. Restarted'
    <2>1. config' = Booted(flash)'
      BY <1>3 DEF Booted
    <2>2. \A i \in Sockets : config'.status[i] >= 0
                             /\ (crossed'[i] \/ relay'[i] = ToBit(config'.status[i] # 0))
      BY <1>4, <1>5
    <2>q. QED
      BY <1>2, <1>4, <1>6, <1>8, <1>10, <1>11, <1>12, <2>1, <2>2 DEF Restarted, ToBit
  <1>q. QED
    BY <1>13, AfterBoot, PTL

-----------------------------------------------------------------------------
(* What each thread has in its hands. *)

(* Where the threads are when one has taken its step.                        *)
LEMMA Moved ==
  ASSUME Typed, Programs, NEW a \in Actors, NEW do, At(a, do), Done(a)
  PROVE  /\ \A b \in Actors : b # a =>
              (\A d : At(b, d)' <=> At(b, d)) /\ Arg(b)' = Arg(b)
         /\ \A d : At(a, d) <=> d = do
         /\ At(a, "out")' => do = "enable" /\ Arg(a)'.on = Arg(a).on
         /\ At(a, "force")' => do = "lock" /\ Arg(a)'.on = Arg(a).on
         /\ do = "lock" => At(a, "force")'
         /\ do = "fliplock" => At(a, "reforce")'
         /\ do = "out" => At(a, "lamp")'
         /\ do = "blink" => At(a, "blinked")'
  <1> DEFINE q == todo[a]
             r == Tail(q)
             s == Head(q)
             t == Head(r)
  <1>1. Rest(q) /\ q # <<>> /\ s.do = do
    BY DEF Programs, Idle, At
  <1>2. /\ r = <<>> => Ends(s)
        /\ r # <<>> => Follows(s, t)
    BY <1>1, TailRest
  <1>3. todo \in [Actors -> Seq(Steps)] /\ todo' = [todo EXCEPT ![a] = r]
    BY DEF Typed, Done
  <1> HIDE DEF r, s, t
  <1>4. todo'[a] = r /\ \A b \in Actors : b # a => todo'[b] = todo[b]
    BY <1>3
  <1>5. /\ \A d : At(a, d) <=> s.do = d
        /\ \A d : At(a, d)' <=> r # <<>> /\ t.do = d
        /\ Arg(a) = s /\ Arg(a)' = t
    BY <1>1, <1>4 DEF At, Idle, Arg, s, t
  <1>6. \A b \in Actors : b # a => (\A d : At(b, d)' <=> At(b, d)) /\ Arg(b)' = Arg(b)
    BY <1>4 DEF At, Idle, Arg
  <1>7. /\ r # <<>> /\ t.do = "out" => do = "enable" /\ t.on = s.on
        /\ r # <<>> /\ t.do = "force" => do = "lock" /\ t.on = s.on
        /\ do = "lock" => r # <<>> /\ t.do = "force"
        /\ do = "fliplock" => r # <<>> /\ t.do = "reforce"
        /\ do = "out" => r # <<>> /\ t.do = "lamp"
        /\ do = "blink" => r # <<>> /\ t.do = "blinked"
    BY <1>1, <1>2 DEF Ends, Follows
  <1>q. QED
    BY <1>1, <1>5, <1>6, <1>7

(* A step that writes neither the LED's flag nor a child lock.               *)
LEMMA HandsSteady ==
  ASSUME IInv, NEW a \in Actors, NEW do, At(a, do), Done(a),
         do \notin {"enable", "flip", "lock", "fliplock", "force", "reforce"},
         config'.enabled = config.enabled, config'.lock = config.lock,
         childLockEnabled' = childLockEnabled, split' = split,
         \A b \in Actors : b # a =>
           my'[b].stale = my[b].stale \/ (my'[b].stale /\ Lighting(b)),
         my'[a].stale => my[a].stale \/ do = "blink",
         do \in {"lamp", "blinked"} => ~my'[a].stale
  PROVE  Hands'
  <1>1. Typed /\ Programs /\ Trusting /\ UpToDate /\ Locked
    BY DEF IInv, Core, Hands
  <1>2. /\ \A b \in Actors : b # a =>
             (\A d : At(b, d)' <=> At(b, d)) /\ Arg(b)' = Arg(b)
        /\ \A d : At(a, d) <=> d = do
        /\ ~At(a, "out")' /\ ~At(a, "force")'
        /\ do = "out" => At(a, "lamp")'
        /\ do = "blink" => At(a, "blinked")'
    BY <1>1, Moved
  <1>3. Trusting'
    <2> SUFFICES ASSUME NEW b \in Actors
                 PROVE  /\ At(b, "out")' =>
                             my'[b].stale \/ (Arg(b)'.on # 0 <=> config'.enabled # 0)
                        /\ At(b, "force")' => my'[b].stale \/ Char(Arg(b)'.on) = config'.lock
      BY DEF Trusting, Char
    <2>1. CASE b = a
      BY <1>2, <2>1
    <2>2. CASE b # a
      <3>1. /\ At(b, "out")' <=> At(b, "out")
            /\ At(b, "force")' <=> At(b, "force")
            /\ Arg(b)' = Arg(b)
        BY <1>2, <2>2
      <3>2. my[b].stale => my'[b].stale
        BY <2>2
      <3>q. QED
        BY <1>1, <3>1, <3>2 DEF Trusting
    <2>q. QED
      BY <2>1, <2>2
  <1>4. UpToDate'
    <2> SUFFICES ASSUME NEW b \in Actors, my'[b].stale
                 PROVE  At(b, "out")' \/ At(b, "force")' \/ At(b, "lamp")' \/ At(b, "blinked")'
      BY DEF UpToDate
    <2>1. CASE b = a
      <3>1. CASE do = "blink"
        BY <1>2, <2>1, <3>1
      <3>2. CASE do # "blink"
        <4>1. At(a, "out") \/ At(a, "force") \/ At(a, "lamp") \/ At(a, "blinked")
          BY <1>1, <2>1, <3>2 DEF UpToDate
        <4>2. do = "out"
          BY <1>2, <2>1, <4>1
        <4>q. QED
          BY <1>2, <2>1, <4>2
      <3>q. QED
        BY <3>1, <3>2
    <2>2. CASE b # a
      <3>1. my[b].stale \/ Lighting(b)
        BY <2>2
      <3>2. At(b, "out") \/ At(b, "force") \/ At(b, "lamp") \/ At(b, "blinked")
        BY <1>1, <3>1 DEF UpToDate, Lighting, Blinking
      <3>q. QED
        BY <1>2, <2>2, <3>2
    <2>q. QED
      BY <2>1, <2>2
  <1>5. Locked'
    <2>1. CASE \E b \in Actors : At(b, "force") \/ At(b, "reforce")
      <3>1. PICK b \in Actors : At(b, "force") \/ At(b, "reforce")
        BY <2>1
      <3>2. b # a
        BY <1>2, <3>1
      <3>q. QED
        BY <1>2, <3>1, <3>2 DEF Locked
    <2>2. CASE split \/ childLockEnabled = config.lock
      BY <2>2 DEF Locked
    <2>q. QED
      BY <1>1, <2>1, <2>2 DEF Locked
  <1>q. QED
    BY <1>3, <1>4, <1>5 DEF Hands

(* The flag is written: whoever else goes by it is out of date.              *)
LEMMA WriteEnabledHands ==
  ASSUME IInv, NEW a \in Actors, WriteEnabled(a)
  PROVE  Hands'
  <1> DEFINE S == {b \in Actors \ {a} : Lighting(b) \/ At(b, "out")}
  <1>1. Typed /\ Programs /\ Trusting /\ UpToDate /\ Locked
    BY DEF IInv, Core, Hands
  <1>2. /\ At(a, "enable") \/ At(a, "flip")
        /\ Done(a)
        /\ config' = [config EXCEPT !.enabled = IF At(a, "flip") THEN Flipped(@) ELSE Arg(a).on]
        /\ my' = OutdatedFor(S, my)
        /\ childLockEnabled' = childLockEnabled /\ split' = split
    BY DEF WriteEnabled, lock
  <1>3. PICK do \in {"enable", "flip"} : At(a, do)
    BY <1>2
  <1>4. \A b \in Actors : b \in S <=> b # a /\ (Lighting(b) \/ At(b, "out"))
    OBVIOUS
  <1> HIDE DEF S
  <1>5. /\ \A b \in Actors : b # a =>
             (\A d : At(b, d)' <=> At(b, d)) /\ Arg(b)' = Arg(b)
        /\ \A d : At(a, d) <=> d = do
        /\ At(a, "out")' => do = "enable" /\ Arg(a)'.on = Arg(a).on
        /\ ~At(a, "force")'
    BY <1>1, <1>2, <1>3, Moved
  <1>6. /\ my \in [Actors -> Locals] /\ config \in Config
        /\ config'.lock = config.lock
        /\ do = "enable" => config'.enabled = Arg(a).on
    BY <1>1, <1>2, <1>5 DEF Typed, Config
  <1>7. \A b \in Actors : /\ b \in S => my'[b].stale
                          /\ b \notin S => my'[b].stale = my[b].stale
    BY <1>2, <1>6, OutdatedForFacts
  <1>8. ~my'[a].stale
    BY <1>1, <1>4, <1>5, <1>7 DEF UpToDate
  <1>9. Trusting'
    <2> SUFFICES ASSUME NEW b \in Actors
                 PROVE  /\ At(b, "out")' =>
                             my'[b].stale \/ (Arg(b)'.on # 0 <=> config'.enabled # 0)
                        /\ At(b, "force")' => my'[b].stale \/ Char(Arg(b)'.on) = config'.lock
      BY DEF Trusting, Char
    <2>1. CASE b = a
      BY <1>5, <1>6, <2>1
    <2>2. CASE b # a
      <3>1. /\ At(b, "out")' <=> At(b, "out")
            /\ At(b, "force")' <=> At(b, "force")
            /\ Arg(b)' = Arg(b)
        BY <1>5, <2>2
      <3>2. At(b, "out") => my'[b].stale
        BY <1>4, <1>7, <2>2
      <3>3. my[b].stale => my'[b].stale
        BY <1>7
      <3>4. At(b, "force") => my[b].stale \/ Char(Arg(b).on) = config.lock
        BY <1>1 DEF Trusting
      <3>q. QED
        BY <1>6, <3>1, <3>2, <3>3, <3>4
    <2>q. QED
      BY <2>1, <2>2
  <1>10. UpToDate'
    <2> SUFFICES ASSUME NEW b \in Actors, my'[b].stale
                 PROVE  At(b, "out")' \/ At(b, "force")' \/ At(b, "lamp")' \/ At(b, "blinked")'
      BY DEF UpToDate
    <2>1. b # a
      BY <1>8
    <2>2. At(b, "out") \/ At(b, "force") \/ At(b, "lamp") \/ At(b, "blinked")
      BY <1>1, <1>4, <1>7 DEF UpToDate, Lighting, Blinking
    <2>q. QED
      BY <1>5, <2>1, <2>2
  <1>11. Locked'
    <2>1. CASE \E b \in Actors : At(b, "force") \/ At(b, "reforce")
      <3>1. PICK b \in Actors : At(b, "force") \/ At(b, "reforce")
        BY <2>1
      <3>2. b # a
        BY <1>5, <3>1
      <3>q. QED
        BY <1>5, <3>1, <3>2 DEF Locked
    <2>2. CASE split \/ childLockEnabled = config.lock
      BY <1>2, <1>6, <2>2 DEF Locked
    <2>q. QED
      BY <1>1, <2>1, <2>2 DEF Locked
  <1>q. QED
    BY <1>9, <1>10, <1>11 DEF Hands

(* child_lock is written: whoever has written it before is out of date, and  *)
(* the lock in force will be written.                                        *)
LEMMA WriteLockHands ==
  ASSUME IInv, NEW a \in Actors, WriteLock(a)
  PROVE  Hands'
  <1> DEFINE S == {b \in Actors \ {a} : At(b, "force")}
  <1>1. Typed /\ Programs /\ Trusting /\ UpToDate /\ Locked
    BY DEF IInv, Core, Hands
  <1>2. /\ At(a, "lock") \/ At(a, "fliplock")
        /\ Done(a)
        /\ config' = [config EXCEPT !.lock = IF At(a, "fliplock") THEN Flipped(@)
                                             ELSE Char(Arg(a).on)]
        /\ my' = OutdatedFor(S, my)
    BY DEF WriteLock
  <1>3. PICK do \in {"lock", "fliplock"} : At(a, do)
    BY <1>2
  <1>4. \A b \in Actors : b \in S <=> b # a /\ At(b, "force")
    OBVIOUS
  <1> HIDE DEF S
  <1>5. /\ \A b \in Actors : b # a =>
             (\A d : At(b, d)' <=> At(b, d)) /\ Arg(b)' = Arg(b)
        /\ \A d : At(a, d) <=> d = do
        /\ ~At(a, "out")'
        /\ At(a, "force")' => do = "lock" /\ Arg(a)'.on = Arg(a).on
        /\ do = "lock" => At(a, "force")'
        /\ do = "fliplock" => At(a, "reforce")'
    BY <1>1, <1>2, <1>3, Moved
  <1>6. /\ my \in [Actors -> Locals] /\ config \in Config
        /\ config'.enabled = config.enabled
        /\ do = "lock" => config'.lock = Char(Arg(a).on)
    BY <1>1, <1>2, <1>5 DEF Typed, Config
  <1>7. \A b \in Actors : /\ b \in S => my'[b].stale
                          /\ b \notin S => my'[b].stale = my[b].stale
    BY <1>2, <1>6, OutdatedForFacts
  <1>8. ~my'[a].stale
    BY <1>1, <1>4, <1>5, <1>7 DEF UpToDate
  <1>9. Trusting'
    <2> SUFFICES ASSUME NEW b \in Actors
                 PROVE  /\ At(b, "out")' =>
                             my'[b].stale \/ (Arg(b)'.on # 0 <=> config'.enabled # 0)
                        /\ At(b, "force")' => my'[b].stale \/ Char(Arg(b)'.on) = config'.lock
      BY DEF Trusting, Char
    <2>1. CASE b = a
      BY <1>5, <1>6, <2>1
    <2>2. CASE b # a
      <3>1. /\ At(b, "out")' <=> At(b, "out")
            /\ At(b, "force")' <=> At(b, "force")
            /\ Arg(b)' = Arg(b)
        BY <1>5, <2>2
      <3>2. At(b, "force") => my'[b].stale
        BY <1>4, <1>7, <2>2
      <3>3. my[b].stale => my'[b].stale
        BY <1>7
      <3>4. At(b, "out") => my[b].stale \/ (Arg(b).on # 0 <=> config.enabled # 0)
        BY <1>1 DEF Trusting
      <3>q. QED
        BY <1>6, <3>1, <3>2, <3>3, <3>4
    <2>q. QED
      BY <2>1, <2>2
  <1>10. UpToDate'
    <2> SUFFICES ASSUME NEW b \in Actors, my'[b].stale
                 PROVE  At(b, "out")' \/ At(b, "force")' \/ At(b, "lamp")' \/ At(b, "blinked")'
      BY DEF UpToDate
    <2>1. b # a
      BY <1>8
    <2>2. At(b, "out") \/ At(b, "force") \/ At(b, "lamp") \/ At(b, "blinked")
      BY <1>1, <1>4, <1>7 DEF UpToDate
    <2>q. QED
      BY <1>5, <2>1, <2>2
  <1>11. Locked'
    BY <1>3, <1>5 DEF Locked
  <1>q. QED
    BY <1>9, <1>10, <1>11 DEF Hands

(* The lock in force is written: it is the one to be saved, unless another   *)
(* has been written since.                                                   *)
LEMMA ForceLockHands ==
  ASSUME IInv, NEW a \in Actors, ForceLock(a)
  PROVE  Hands'
  <1>1. Typed /\ Programs /\ Trusting /\ UpToDate
    BY DEF IInv, Core, Hands
  <1>2. /\ At(a, "force") \/ At(a, "reforce")
        /\ Done(a)
        /\ IF At(a, "reforce")
             THEN childLockEnabled' = config.lock /\ split' = FALSE
             ELSE /\ childLockEnabled' = Arg(a).on
                  /\ split' = (my[a].stale \/ Char(Arg(a).on) # Arg(a).on)
        /\ my' = [my EXCEPT ![a].stale = FALSE]
        /\ config' = config
    BY DEF ForceLock
  <1>3. PICK do \in {"force", "reforce"} : At(a, do)
    BY <1>2
  <1>4. /\ \A b \in Actors : b # a =>
             (\A d : At(b, d)' <=> At(b, d)) /\ Arg(b)' = Arg(b)
        /\ ~At(a, "out")' /\ ~At(a, "force")'
    BY <1>1, <1>2, <1>3, Moved
  <1>5. ~my'[a].stale /\ \A b \in Actors : b # a => my'[b] = my[b]
    <2>1. my \in [Actors -> Locals]
      BY <1>1 DEF Typed
    <2>q. QED
      BY <1>2, <2>1 DEF Locals
  <1>6. Trusting'
    <2> SUFFICES ASSUME NEW b \in Actors
                 PROVE  /\ At(b, "out")' =>
                             my'[b].stale \/ (Arg(b)'.on # 0 <=> config'.enabled # 0)
                        /\ At(b, "force")' => my'[b].stale \/ Char(Arg(b)'.on) = config'.lock
      BY DEF Trusting, Char
    <2>1. CASE b = a
      BY <1>4, <2>1
    <2>2. CASE b # a
      <3>1. /\ At(b, "out")' <=> At(b, "out")
            /\ At(b, "force")' <=> At(b, "force")
            /\ Arg(b)' = Arg(b) /\ my'[b] = my[b]
        BY <1>4, <1>5, <2>2
      <3>q. QED
        BY <1>1, <1>2, <3>1 DEF Trusting
    <2>q. QED
      BY <2>1, <2>2
  <1>7. UpToDate'
    <2> SUFFICES ASSUME NEW b \in Actors, my'[b].stale
                 PROVE  At(b, "out")' \/ At(b, "force")' \/ At(b, "lamp")' \/ At(b, "blinked")'
      BY DEF UpToDate
    <2>1. b # a
      BY <1>5
    <2>2. At(b, "out") \/ At(b, "force") \/ At(b, "lamp") \/ At(b, "blinked")
      BY <1>1, <1>5, <2>1 DEF UpToDate
    <2>q. QED
      BY <1>4, <2>1, <2>2
  <1>8. split' \/ childLockEnabled' = config'.lock
    <2>1. CASE At(a, "reforce")
      BY <1>2, <2>1
    <2>2. CASE ~At(a, "reforce")
      <3>1. my[a].stale \/ Char(Arg(a).on) = config.lock
        BY <1>1, <1>2, <2>2 DEF Trusting
      <3>q. QED
        BY <1>2, <2>2, <3>1
    <2>q. QED
      BY <2>1, <2>2
  <1>9. Locked'
    BY <1>8 DEF Locked
  <1>q. QED
    BY <1>6, <1>7, <1>9 DEF Hands

(* Whatever step a thread takes.                                             *)
LEMMA AccessHands ==
  ASSUME IInv, NEW a \in Actors, Access(a)
  PROVE  Hands'
  <1>1. my \in [Actors -> Locals] /\ config \in Config /\ Programs /\ Typed
    BY DEF IInv, Core, Typed
  <1>2. CASE DriveRelay(a) \/ TestLed(a) \/ TestRelays(a) \/ ReadState(a)
    <2>1. PICK do \in {"relay", "stored", "test", "out", "read"} : At(a, do)
      BY <1>2 DEF DriveRelay, TestLed, TestRelays, ReadState
    <2>2. /\ Done(a) /\ config' = config /\ childLockEnabled' = childLockEnabled
          /\ split' = split
          /\ \A b \in Actors : my'[b].stale = my[b].stale
      BY <1>1, <1>2 DEF DriveRelay, TestLed, TestRelays, ReadState, lock, Locals
    <2>q. QED
      BY <2>1, <2>2, HandsSteady
  <1>3. CASE WriteStatus(a) \/ AssignStatus(a)
    <2>1. PICK do \in {"status", "assign"} : At(a, do)
      BY <1>3 DEF WriteStatus, AssignStatus
    <2>2. PICK L \in [Actors -> Locals] :
            my' = Outdated(a, L) /\ \A b \in Actors : L[b].stale = my[b].stale
      <3>1. CASE WriteStatus(a)
        <4> DEFINE L == [my EXCEPT ![a].on = 0]
        <4>1. L \in [Actors -> Locals] /\ \A b \in Actors : L[b].stale = my[b].stale
          BY <1>1 DEF Locals, Byte
        <4>2. my' = Outdated(a, L)
          BY <3>1 DEF WriteStatus
        <4> HIDE DEF L
        <4>q. QED
          BY <4>1, <4>2
      <3>2. CASE AssignStatus(a)
        BY <1>1, <3>2 DEF AssignStatus
      <3>q. QED
        BY <1>3, <3>1, <3>2
    <2>3. \A b \in Actors : /\ b # a /\ Lighting(b) => my'[b].stale
                            /\ b = a \/ ~Lighting(b) => my'[b].stale = my[b].stale
      BY <2>2, OutdatedFacts
    <2>4. /\ Done(a) /\ childLockEnabled' = childLockEnabled /\ split' = split
          /\ config'.enabled = config.enabled /\ config'.lock = config.lock
      BY <1>1, <1>3 DEF WriteStatus, AssignStatus, lock, Config
    <2>q. QED
      BY <2>1, <2>3, <2>4, HandsSteady
  <1>4. CASE UserLedSet(a)
    <2> DEFINE L == [my EXCEPT ![a].lit = 0, ![a].stale = FALSE]
    <2>1. /\ At(a, "lamp") /\ Done(a) /\ my' = Outdated(a, L)
          /\ config' = config /\ childLockEnabled' = childLockEnabled /\ split' = split
      BY <1>4 DEF UserLedSet, lock
    <2>2. /\ L \in [Actors -> Locals] /\ ~L[a].stale
          /\ \A b \in Actors : b # a => L[b].stale = my[b].stale
      BY <1>1 DEF Locals, Bit
    <2> HIDE DEF L
    <2>3. \A b \in Actors : /\ b # a /\ Lighting(b) => my'[b].stale
                            /\ b = a \/ ~Lighting(b) => my'[b].stale = L[b].stale
      BY <2>1, <2>2, OutdatedFacts
    <2>4. /\ ~my'[a].stale
          /\ \A b \in Actors : b # a =>
               my'[b].stale = my[b].stale \/ (my'[b].stale /\ Lighting(b))
      BY <2>2, <2>3
    <2>q. QED
      BY <2>1, <2>4, HandsSteady
  <1>5. CASE SendState(a)
    <2>1. /\ At(a, "send") /\ Done(a)
          /\ config' = config /\ childLockEnabled' = childLockEnabled /\ split' = split
      BY <1>5 DEF SendState, lock
    <2>2. my' = [b \in Actors |->
                   IF b = a THEN [my[a] EXCEPT !.val = 0, !.older = FALSE]
                   ELSE IF isconnect /\ At(b, "send") /\ Arg(b).x = Arg(a).x
                        THEN [my[b] EXCEPT !.older = TRUE]
                   ELSE my[b]]
      BY <1>5 DEF SendState
    <2>3. ASSUME NEW b \in Actors PROVE my'[b].stale = my[b].stale
      <3>1. my[b] \in Locals /\ my[a] \in Locals
        BY <1>1
      <3>2. my'[b] = [my[b] EXCEPT !.val = 0, !.older = FALSE]
            \/ my'[b] = [my[b] EXCEPT !.older = TRUE] \/ my'[b] = my[b]
        BY <2>2
      <3>q. QED
        BY <3>1, <3>2 DEF Locals
    <2>q. QED
      BY <2>1, <2>3, HandsSteady
  <1>6. CASE AppContextUpdate(a) \/ LeaveUnsaved(a)
    <2>1. PICK do \in {"save", "unsaved"} : At(a, do)
      BY <1>6 DEF AppContextUpdate, LeaveUnsaved
    <2>2. /\ Done(a) /\ my' = my /\ config' = config
          /\ childLockEnabled' = childLockEnabled /\ split' = split
      BY <1>6 DEF AppContextUpdate, LeaveUnsaved, lock
    <2>q. QED
      BY <2>1, <2>2, HandsSteady
  <1>q. QED
    BY <1>2, <1>3, <1>4, <1>5, <1>6, WriteEnabledHands, WriteLockHands, ForceLockHands
    DEF Access

(* Nobody is anywhere else than before, or where it holds something.         *)
LEMMA HandsSame ==
  ASSUME Hands, config' = config, childLockEnabled' = childLockEnabled, split' = split,
         \A b \in Actors : \A d \in {"out", "force", "reforce", "lamp", "blinked"} :
           /\ At(b, d)' <=> At(b, d)
           /\ At(b, d) => Arg(b)' = Arg(b),
         \A b \in Actors : my'[b].stale = my[b].stale \/ (my'[b].stale /\ Lighting(b))
  PROVE  Hands'
  <1>1. \A b \in Actors :
          /\ (At(b, "out")' <=> At(b, "out")) /\ (At(b, "force")' <=> At(b, "force"))
          /\ (At(b, "reforce")' <=> At(b, "reforce"))
          /\ (At(b, "lamp")' <=> At(b, "lamp")) /\ (At(b, "blinked")' <=> At(b, "blinked"))
          /\ At(b, "out") \/ At(b, "force") => Arg(b)' = Arg(b)
          /\ my[b].stale => my'[b].stale
          /\ my'[b].stale => my[b].stale \/ Lighting(b)
    OBVIOUS
  <1>2. Trusting'
    <2> SUFFICES ASSUME NEW b \in Actors
                 PROVE  /\ At(b, "out")' =>
                             my'[b].stale \/ (Arg(b)'.on # 0 <=> config'.enabled # 0)
                        /\ At(b, "force")' => my'[b].stale \/ Char(Arg(b)'.on) = config'.lock
      BY DEF Trusting, Char
    <2>q. QED
      BY <1>1 DEF Hands, Trusting
  <1>3. UpToDate'
    BY <1>1 DEF Hands, UpToDate, Lighting, Blinking
  <1>4. Locked'
    BY <1>1 DEF Hands, Locked
  <1>q. QED
    BY <1>2, <1>3, <1>4 DEF Hands

(* A program is begun.                                                       *)
LEMMA BeginHands ==
  ASSUME IInv, NEW a \in Actors, Idle(a), NEW q, Piece(q, {}),
         todo' = [todo EXCEPT ![a] = q], UNCHANGED <<config, childLockEnabled, split, my>>
  PROVE  Hands'
  <1>1. todo \in [Actors -> Seq(Steps)] /\ todo[a] = <<>> /\ Hands
    BY DEF IInv, Core, Typed, Idle
  <1>2. q # <<>> /\ Starts(Head(q))
    BY PieceIsRest
  <1>3. todo'[a] = q /\ \A b \in Actors : b # a => todo'[b] = todo[b]
    BY <1>1
  <1>4. \A d \in {"out", "force", "reforce", "lamp", "blinked"} : ~At(a, d) /\ ~At(a, d)'
    BY <1>1, <1>2, <1>3 DEF At, Idle, Starts
  <1>5. \A b \in Actors : b # a => (\A d : At(b, d)' <=> At(b, d)) /\ Arg(b)' = Arg(b)
    BY <1>3 DEF At, Idle, Arg
  <1>6. \A b \in Actors : \A d \in {"out", "force", "reforce", "lamp", "blinked"} :
          /\ At(b, d)' <=> At(b, d)
          /\ At(b, d) => Arg(b)' = Arg(b)
    BY <1>4, <1>5
  <1>q. QED
    BY <1>1, <1>6, HandsSame

(* The client's own steps.                                                   *)
LEMMA ClientHands ==
  ASSUME IInv, IsConnected \/ Blink \/ BlinkBack \/ Exit
  PROVE  Hands'
  <1> DEFINE a == "client"
  <1>1. a \in Actors /\ my \in [Actors -> Locals] /\ lamp_off \in BOOLEAN /\ Hands
    BY DEF IInv, Core, Typed, Actors
  <1>2. CASE IsConnected
    <2>1. /\ At(a, "connected") /\ Done(a) /\ config' = config
          /\ childLockEnabled' = childLockEnabled /\ split' = split /\ my' = my
      BY <1>2 DEF IsConnected, lock
    <2>q. QED
      BY <1>1, <2>1, HandsSteady
  <1>3. CASE Blink
    <2> DEFINE L == [my EXCEPT !["client"].stale = lamp_off]
    <2>1. /\ At(a, "blink") /\ Done(a) /\ my' = Outdated(a, L)
          /\ config' = config /\ childLockEnabled' = childLockEnabled /\ split' = split
      BY <1>3 DEF Blink, lock
    <2>2. /\ L \in [Actors -> Locals]
          /\ \A b \in Actors : b # a => L[b].stale = my[b].stale
      BY <1>1 DEF Locals
    <2> HIDE DEF L
    <2>3. \A b \in Actors : /\ b # a /\ Lighting(b) => my'[b].stale
                            /\ b = a \/ ~Lighting(b) => my'[b].stale = L[b].stale
      BY <1>1, <2>1, <2>2, OutdatedFacts
    <2>4. \A b \in Actors : b # a =>
            my'[b].stale = my[b].stale \/ (my'[b].stale /\ Lighting(b))
      BY <2>2, <2>3
    <2>q. QED
      BY <1>1, <2>1, <2>4, HandsSteady
  <1>4. CASE BlinkBack
    <2> DEFINE L == [my EXCEPT !["client"].stale = FALSE]
    <2>1. /\ At(a, "blinked") /\ Done(a) /\ my' = Outdated(a, L)
          /\ config' = config /\ childLockEnabled' = childLockEnabled /\ split' = split
      BY <1>4 DEF BlinkBack, Blinking, lock
    <2>2. /\ L \in [Actors -> Locals] /\ ~L[a].stale
          /\ \A b \in Actors : b # a => L[b].stale = my[b].stale
      BY <1>1 DEF Locals
    <2> HIDE DEF L
    <2>3. \A b \in Actors : /\ b # a /\ Lighting(b) => my'[b].stale
                            /\ b = a \/ ~Lighting(b) => my'[b].stale = L[b].stale
      BY <1>1, <2>1, <2>2, OutdatedFacts
    <2>4. /\ ~my'[a].stale
          /\ \A b \in Actors : b # a =>
               my'[b].stale = my[b].stale \/ (my'[b].stale /\ Lighting(b))
      BY <1>1, <2>2, <2>3
    <2>q. QED
      BY <1>1, <2>1, <2>4, HandsSteady
  <1>5. CASE Exit
    <2>1. /\ todo' = todo /\ config' = config /\ my' = Outdated(a, my)
          /\ childLockEnabled' = childLockEnabled /\ split' = split
      BY <1>5 DEF Exit, lock
    <2>2. \A b \in Actors : /\ b # a /\ Lighting(b) => my'[b].stale
                            /\ b = a \/ ~Lighting(b) => my'[b].stale = my[b].stale
      BY <1>1, <2>1, OutdatedFacts
    <2>3. \A b \in Actors : my'[b].stale = my[b].stale \/ (my'[b].stale /\ Lighting(b))
      BY <2>2
    <2>4. \A b \in Actors : \A d \in {"out", "force", "reforce", "lamp", "blinked"} :
            /\ At(b, d)' <=> At(b, d)
            /\ At(b, d) => Arg(b)' = Arg(b)
      BY <2>1 DEF At, Idle, Arg
    <2>q. QED
      BY <1>1, <2>1, <2>3, <2>4, HandsSame
  <1>q. QED
    BY <1>2, <1>3, <1>4, <1>5

(* Every step keeps the invariant.                                           *)
LEMMA NextKeeps ==
  IInv /\ [Next]_vars => IInv'
  <1> SUFFICES ASSUME IInv, [Next]_vars PROVE IInv'
    OBVIOUS
  <1>a. Core /\ Hands /\ Trusting
    BY DEF IInv, Hands
  <1>b. given \in Scenarios
    BY DEF IInv, Core, Typed
  <1>1. ASSUME NEW c \in given, Give(c) PROVE IInv'
    <2> DEFINE q == Program(c)
    <2>0. c \in Commands
      BY <1>b DEF Commands
    <2>1. c.by \in Actors /\ Piece(q, {})
      BY <2>0, PanelAssumption, ProgramPiece
    <2>2. /\ Idle(c.by) /\ todo' = [todo EXCEPT ![c.by] = q]
          /\ UNCHANGED <<given, childLockEnabled, split>>
          /\ UNCHANGED <<relay, config, led, flash, shown, isconnect, my, unsaved, crossed,
                         lamp_off>>
      BY <1>1 DEF Give, lock
    <2> HIDE DEF q
    <2>3. Core'
      BY <1>a, <2>1, <2>2, BeginKeeps
    <2>4. Hands'
      BY <2>1, <2>2, BeginHands
    <2>q. QED
      BY <2>3, <2>4 DEF IInv
  <1>2. ASSUME NEW a \in Actors, Access(a) PROVE IInv'
    <2>1. Core'
      BY <1>2, <1>a, DriveRelayKeeps, WriteStatusKeeps, AssignStatusKeeps, WriteEnabledKeeps,
         WriteLockKeeps, ForceLockKeeps, TestLedKeeps, TestRelaysKeeps, UserLedSetKeeps,
         ReadStateKeeps, SendStateKeeps, SavingKeeps DEF Access
    <2>2. Hands'
      BY <1>2, AccessHands
    <2>q. QED
      BY <2>1, <2>2 DEF IInv
  <1>3. CASE Connect
    <2>1. /\ "client" \in Actors /\ Idle("client")
          /\ todo' = [todo EXCEPT !["client"] = Connected]
          /\ UNCHANGED <<given, childLockEnabled, split>>
          /\ UNCHANGED <<relay, config, led, flash, shown, isconnect, my, unsaved, crossed,
                         lamp_off>>
      BY <1>3 DEF Connect, Actors, lock
    <2>2. Core'
      BY <1>a, <2>1, ConnectedPiece, BeginKeeps
    <2>3. Hands'
      BY <2>1, ConnectedPiece, BeginHands
    <2>q. QED
      BY <2>2, <2>3 DEF IInv
  <1>4. CASE Disconnect
    <2>1. /\ "client" \in Actors /\ Idle("client")
          /\ todo' = [todo EXCEPT !["client"] = Reconnect]
          /\ isconnect' = FALSE /\ shown' = Nothing
          /\ UNCHANGED <<given, childLockEnabled, split>>
          /\ UNCHANGED <<relay, config, led, flash, my, unsaved, crossed, lamp_off>>
      BY <1>4 DEF Disconnect, Actors, lock
    <2>2. Core'
      BY <1>a, <2>1, ReconnectPiece, BeginKeeps
    <2>3. Hands'
      BY <2>1, ReconnectPiece, BeginHands
    <2>q. QED
      BY <2>2, <2>3 DEF IInv
  <1>5. CASE IsConnected \/ Blink \/ BlinkBack \/ Exit
    <2>1. Core'
      BY <1>5, <1>a, IsConnectedKeeps, BlinkKeeps, ExitKeeps
    <2>2. Hands'
      BY <1>5, ClientHands
    <2>q. QED
      BY <2>1, <2>2 DEF IInv
  <1>6. CASE Reboot
    BY <1>6, RebootKeeps
  <1>7. CASE UNCHANGED vars
    <2>1. /\ Typed /\ Programs /\ Driven /\ Agreed /\ Computed /\ Shining /\ Reported /\ Kept
      BY <1>a DEF Core
    <2>2. /\ UNCHANGED <<given, childLockEnabled, split>>
          /\ UNCHANGED <<relay, config, led, flash, shown, isconnect, todo, my, unsaved, crossed,
                         lamp_off>>
      BY <1>7 DEF vars, lock
    <2>3. /\ \A k : ToCome(k)' <=> ToCome(k)
          /\ \A b \in Actors :
               /\ \A x : (Setting(b, x)' <=> Setting(b, x)) /\ (Sending(b, x)' <=> Sending(b, x))
               /\ At(b, "lamp")' <=> At(b, "lamp")
               /\ Blinking(b)' <=> Blinking(b)
      BY <2>2 DEF ToCome, Setting, Sending, Blinking, At, Idle, Arg
    <2>4. Lit' = Lit /\ \A t \in Topics : State(t)' = State(t)
      BY <2>2, SameConfig
    <2>5. Typed' /\ Programs'
      BY <2>1, <2>2 DEF Typed, Programs
    <2>6. Driven' /\ Agreed' /\ Computed'
      BY <2>1, <2>2, <2>3, <2>4, KeepDriven, KeepAgreed, KeepComputed
    <2>7. Shining'
      BY <2>1, <2>2, <2>3, <2>4 DEF Shining, Actors
    <2>8. Reported'
      BY <2>1, <2>2, <2>3, <2>4, KeepReported
    <2>9. Kept'
      BY <2>1, <2>2, <2>3 DEF Kept, Booted
    <2>10. \A b \in Actors : \A d \in {"out", "force", "reforce", "lamp", "blinked"} :
             /\ At(b, d)' <=> At(b, d)
             /\ At(b, d) => Arg(b)' = Arg(b)
      BY <2>2 DEF At, Idle, Arg
    <2>11. Hands'
      BY <1>a, <2>2, <2>10, HandsSame
    <2>q. QED
      BY <2>5, <2>6, <2>7, <2>8, <2>9, <2>11 DEF IInv, Core
  <1>q. QED
    BY <1>1, <1>2, <1>3, <1>4, <1>5, <1>6, <1>7 DEF Next

(* The invariant holds, whatever the commands, the threads that give them    *)
(* and the order of their steps.                                             *)
THEOREM Invariant ==
  Spec => []IInv
  <1>1. Init => IInv
    BY InitKeeps
  <1>2. IInv /\ [Next]_vars => IInv'
    BY NextKeeps
  <1>q. QED
    BY <1>1, <1>2, PTL DEF Spec

-----------------------------------------------------------------------------
(* The theorems. *)

(* The types.                                                                *)
THEOREM Typing ==
  Spec => []TypeOK
  <1>1. IInv => TypeOK
    BY DEF IInv, Core, Typed, TypeOK, Locals
  <1>q. QED
    BY <1>1, Invariant, PTL

(* Whatever the commands, the numbers in them and the order in which the     *)
(* threads take their steps, a socket's relay is on when its status is not 0 *)
(* once nobody is at work on it, unless two UserRelaySet of that socket have *)
(* met, or the last was given a number that it does not know.                *)
THEOREM RelaysAgree ==
  Spec => []RelayAgrees
  <1>1. IInv => RelayAgrees
    <2> SUFFICES ASSUME IInv, NEW i \in Sockets, ~crossed[i],
                        relay[i] # ToBit(config.status[i] # 0)
                 PROVE  \E a \in Actors : \E n \in DOMAIN todo[a] :
                          todo[a][n].do = "status" /\ todo[a][n].x = i
      BY DEF RelayAgrees
    <2>1. Agreed /\ todo \in [Actors -> Seq(Steps)]
      BY DEF IInv, Core, Typed
    <2>2. ToCome(<<"status", i>>)
      BY <2>1 DEF Agreed
    <2>3. PICK a \in Actors : \E n \in 1 .. Len(todo[a]) : Kind(todo[a][n]) = <<"status", i>>
      BY <2>2 DEF ToCome
    <2>4. PICK n \in 1 .. Len(todo[a]) : Kind(todo[a][n]) = <<"status", i>>
      BY <2>3
    <2>5. todo[a][n].do = "status" /\ todo[a][n].x = i
      BY <2>4 DEF Kind
    <2>6. todo[a] \in Seq(Steps) /\ n \in DOMAIN todo[a]
      BY <2>1, <2>4
    <2>q. QED
      BY <2>5, <2>6
  <1>q. QED
    BY <1>1, Invariant, PTL

(* The LED is right once every command has ended, unless the last to set it  *)
(* went by what was out of date, or the client has left it inverted.         *)
THEOREM LampIsRight ==
  Spec => []LampAgrees
  <1>1. IInv => LampAgrees
    <2> SUFFICES ASSUME IInv, Quiet, ~lamp_off PROVE led = Lit
      BY DEF LampAgrees
    <2>1. ~ToCome(<<"lamp", 0>>) /\ ~Blinking("client")
      BY AllQuiet DEF Actors
    <2>q. QED
      BY <2>1 DEF IInv, Core, Shining
  <1>q. QED
    BY <1>1, Invariant, PTL

(* Home Assistant shows every state as it is once every command has ended,   *)
(* however many reports of a topic have passed each other on the way to the  *)
(* queue, as long as they were not queued the other way round.               *)
THEOREM HomeAssistantIsRight ==
  Spec => []ReportsAgree
  <1>1. IInv => ReportsAgree
    <2> SUFFICES ASSUME IInv, Quiet, isconnect, NEW t \in Topics
                 PROVE  shown[t] \in {State(t), OLDER}
      BY DEF ReportsAgree
    <2>1. ~ToCome(<<"read", t>>) /\ \A a \in Actors : ~Sending(a, t)
      BY AllQuiet
    <2>q. QED
      BY <2>1 DEF IInv, Core, Reported, Fresh
  <1>q. QED
    BY <1>1, Invariant, PTL

(* What is in force is what a start would bring back once every command has  *)
(* ended, unless a total switch has left it unsaved, or the child lock that  *)
(* is in force was written by another command than the one that is saved.    *)
THEOREM QuietIsSaved ==
  Spec => []SavedWhenQuiet
  <1>1. IInv => SavedWhenQuiet
    <2> SUFFICES ASSUME IInv, Quiet, ~unsaved
                 PROVE  /\ config = Booted(flash)
                        /\ split \/ childLockEnabled = flash.lock
      BY DEF SavedWhenQuiet
    <2>1. /\ ~ToCome(<<"save", 0>>)
          /\ \A a \in Actors : ~At(a, "force") /\ ~At(a, "reforce")
      BY AllQuiet
    <2>2. config = Booted(flash)
      BY <2>1 DEF IInv, Core, Kept
    <2>3. split \/ childLockEnabled = config.lock
      BY <2>1 DEF IInv, Hands, Locked
    <2>4. config.lock = flash.lock
      <3>1. flash \in Config
        BY DEF IInv, Core, Typed
      <3>q. QED
        BY <2>2, <3>1 DEF Booted, Config
    <2>q. QED
      BY <2>2, <2>3, <2>4
  <1>q. QED
    BY <1>1, Invariant, PTL

=============================================================================
