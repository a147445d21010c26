-------------------------- MODULE MqttClientProofs --------------------------
(***************************************************************************)
(* For any number of threads that send, of callers of UserMqttInit and of  *)
(* client threads the scheduler may start: there is never a second client, *)
(* the queue outlives everyone who may touch it, no block of it leaks, is  *)
(* freed twice or used when it is free, and the client never finds the     *)
(* queue empty where it has just seen a message.                           *)
(*                                                                         *)
(* The argument for the client: who rebuilds holds init_mutex and has seen *)
(* mqtt_thread_running false; only a rebuild sets that flag; a client      *)
(* clears it in its last step, after isconnect; and a thread in            *)
(* UserMqttSendTopic has seen isconnect.                                   *)
(*                                                                         *)
(* That the blocks are owned rests on the life of the client: the queue is *)
(* only destroyed when nobody is there who could refill it. That a message *)
(* stays rests on a count: a sender takes a message out of a queue it has  *)
(* found full, there are fewer senders than the queue has places, and none *)
(* of them is still about to take one out when the client comes back from  *)
(* the network for its next message.                                       *)
(***************************************************************************)
EXTENDS MqttClient, FiniteSetTheorems, SequenceTheorems, TLAPS

Holding == \A i \in Callers : ipc[i] \notin {"idle", "lock"} => init_mutex = i
Rebuilding ==
  \A i \in Callers : ipc[i] \in {"clear", "deinit", "arm", "create"} => ~running
AliveRuns == \A t \in Threads : Alive(t) => running
RunsOnQueue == running => queue_exists
ConnectedAlive == isconnect => \E t \in Threads : tpc[t] \notin {"dead", "closing"}
SendingRuns == \A s \in Senders : spc[s] # "idle" => running

LifeInv ==
  /\ Holding
  /\ Rebuilding
  /\ AliveRuns
  /\ OneClient
  /\ RunsOnQueue
  /\ ConnectedAlive
  /\ SendingRuns

-----------------------------------------------------------------------------
(* The types. *)

(* The block calloc returns is a block of the heap. *)
LEMMA NewBlockType ==
  ASSUME TypeOK, heap # Buffers
  PROVE  NewBlock \in Buffers
<1>1. \E b \in Buffers : b \notin heap
  BY DEF TypeOK
<1>2. QED
  BY <1>1 DEF NewBlock

(* A step of UserMqttSendTopic keeps the types. *)
LEMMA SendTypes ==
  ASSUME TypeOK, NEW s \in Senders, Send(s)
  PROVE  TypeOK'
<1> USE DEF TypeOK
<1>1. CASE SendCheck(s)
  BY <1>1, MqttAssumption DEF SendCheck, MaySend, Counted, memVars, initVars
<1>2. CASE SendFull(s)
  BY <1>2 DEF SendFull, memVars, threadVars, initVars
<1>3. CASE SendPopOldest(s)
  <2>1. queue' \in Seq(Buffers) /\ Len(queue') <= QUEUE_SIZE /\ heap' \in SUBSET Buffers
    <3>1. CASE queue = <<>>
      BY <1>3, <3>1 DEF SendPopOldest, memVars
    <3>2. CASE queue # <<>>
      <4>1. Tail(queue) \in Seq(Buffers) /\ Len(Tail(queue)) = Len(queue) - 1
        BY <3>2
      <4>2. queue' = Tail(queue) /\ heap' = heap \ {Head(queue)}
        BY <1>3, <3>2 DEF SendPopOldest
      <4>3. Len(queue) \in Nat /\ QUEUE_SIZE \in Nat
        BY MqttAssumption
      <4>4. QED
        BY <4>1, <4>2, <4>3
    <3>3. QED
      BY <3>1, <3>2
  <2>2. QED
    BY <1>3, <2>1 DEF SendPopOldest, threadVars, initVars
<1>4. CASE SendNoMemory(s)
  BY <1>4 DEF SendNoMemory, memVars, threadVars, initVars
<1>5. CASE SendPush(s)
  <2>1. NewBlock \in Buffers
    BY <1>5, NewBlockType DEF SendPush
  <2>2. queue' \in Seq(Buffers) /\ Len(queue') <= QUEUE_SIZE /\ heap' \in SUBSET Buffers
    <3>1. CASE Len(queue) < QUEUE_SIZE
      <4>1. queue' = Append(queue, NewBlock) /\ heap' = heap \cup {NewBlock}
        BY <1>5, <3>1 DEF SendPush
      <4>2. Len(queue) \in Nat /\ QUEUE_SIZE \in Nat
        BY MqttAssumption
      <4>3. /\ Append(queue, NewBlock) \in Seq(Buffers)
            /\ Len(Append(queue, NewBlock)) = Len(queue) + 1
        BY <2>1
      <4>4. Len(queue) + 1 <= QUEUE_SIZE
        BY <3>1, <4>2
      <4>5. QED
        BY <2>1, <4>1, <4>3, <4>4
    <3>2. CASE ~(Len(queue) < QUEUE_SIZE)
      BY <1>5, <3>2 DEF SendPush, memVars
    <3>3. QED
      BY <3>1, <3>2
  <2>3. QED
    BY <1>5, <2>2 DEF SendPush, threadVars, initVars
<1>6. QED
  BY <1>1, <1>2, <1>3, <1>4, <1>5 DEF Send

(* A step of the client thread keeps the types. *)
LEMMA ThreadTypes ==
  ASSUME TypeOK, NEW t \in Threads, ThreadStep(t)
  PROVE  TypeOK'
<1> USE DEF TypeOK, Goes, memVars, initVars
<1>1. CASE ThreadStart(t) \/ ThreadOffline(t) \/ ThreadConnectFails(t) \/ ThreadConnects(t)
  <2>1. CASE ThreadStart(t)
    BY <2>1 DEF ThreadStart
  <2>2. CASE ThreadOffline(t)
    BY <2>2 DEF ThreadOffline
  <2>3. CASE ThreadConnectFails(t)
    BY <2>3 DEF ThreadConnectFails
  <2>4. CASE ThreadConnects(t)
    BY <2>4 DEF ThreadConnects
  <2>5. QED
    BY <1>1, <2>1, <2>2, <2>3, <2>4
<1>2. CASE ThreadHandshake(t)
  <2>1. 0 \in 0 .. NAnnounce
    BY MqttAssumption
  <2>2. CASE Goes(t, "handshake", "announce") /\ isconnect' = TRUE /\ announced' = 0
    BY <1>2, <2>1, <2>2 DEF ThreadHandshake
  <2>3. CASE Goes(t, "handshake", "reconnect") /\ UNCHANGED <<isconnect, announced>>
    BY <1>2, <2>3 DEF ThreadHandshake
  <2>4. QED
    BY <1>2, <2>2, <2>3 DEF ThreadHandshake
<1>3. CASE ThreadAnnounced(t) \/ ThreadLoop(t) \/ ThreadDrain(t)
  BY <1>3 DEF ThreadAnnounced, ThreadLoop, ThreadDrain
<1>4. CASE ThreadPop(t)
  <2>1. CASE queue = <<>>
    BY <1>4, <2>1 DEF ThreadPop
  <2>2. CASE queue # <<>>
    <3>1. /\ Tail(queue) \in Seq(Buffers) /\ Len(Tail(queue)) = Len(queue) - 1
          /\ Head(queue) \in Buffers
      BY <2>2
    <3>2. Len(queue) \in Nat /\ QUEUE_SIZE \in Nat
      BY MqttAssumption
    <3>3. queue' = Tail(queue) /\ hand' = [hand EXCEPT ![t] = Head(queue)]
      BY <1>4, <2>2 DEF ThreadPop
    <3>4. Len(queue') <= QUEUE_SIZE
      BY <3>1, <3>2, <3>3
    <3>5. QED
      BY <1>4, <2>2, <3>1, <3>3, <3>4 DEF ThreadPop
  <2>3. QED
    BY <2>1, <2>2
<1>5. CASE ThreadPublish(t)
  BY <1>5 DEF ThreadPublish
<1>6. CASE ThreadReconnect(t)
  <2>1. <<>> \in Seq(Buffers) /\ Len(<<>>) = 0 /\ 0 <= QUEUE_SIZE
    BY MqttAssumption, EmptySeq
  <2>2. QED
    BY <1>6, <2>1 DEF ThreadReconnect
<1>7. CASE ThreadRelease(t) \/ ThreadExit(t) \/ ThreadEnd(t)
  BY <1>7 DEF ThreadRelease, ThreadExit, ThreadEnd
<1>8. QED
  BY <1>1, <1>2, <1>3, <1>4, <1>5, <1>6, <1>7 DEF ThreadStep

(* A step of UserMqttInit keeps the types. *)
LEMMA InitTypes ==
  ASSUME TypeOK, NEW i \in Callers, InitStep(i)
  PROVE  TypeOK'
<1> USE DEF TypeOK, Moves, Returns, memVars, threadVars
<1>1. CASE InitLock(i) \/ InitCheck(i) \/ InitWait(i) \/ InitGiveUp(i)
  BY <1>1 DEF InitLock, InitCheck, InitWait, InitGiveUp
<1>2. CASE InitClear(i) \/ InitDeinitQueue(i)
  <2>1. <<>> \in Seq(Buffers) /\ Len(<<>>) = 0 /\ 0 <= QUEUE_SIZE
    BY MqttAssumption, EmptySeq
  <2>2. QED
    BY <1>2, <2>1 DEF InitClear, InitDeinitQueue
<1>3. CASE InitArm(i) \/ InitCreateFails(i)
  BY <1>3 DEF InitArm, InitCreateFails
<1>4. CASE InitCreate(i)
  BY <1>4 DEF InitCreate, Goes
<1>5. QED
  BY <1>1, <1>2, <1>3, <1>4 DEF InitStep

(* Every step keeps the types. *)
LEMMA TypeStep == TypeOK /\ [Next]_vars => TypeOK'
<1> SUFFICES ASSUME TypeOK, [Next]_vars PROVE TypeOK'
  OBVIOUS
<1>1. CASE \E i \in Callers : WifiConnected(i)
  BY <1>1 DEF WifiConnected, TypeOK, Moves, memVars, threadVars
<1>2. CASE SaveConfig
  BY <1>2, MqttAssumption DEF SaveConfig, TypeOK, Moves, memVars, threadVars
<1>3. CASE KeyConfigWifi
  BY <1>3 DEF KeyConfigWifi, TypeOK, memVars, threadVars
<1>4. CASE UNCHANGED vars
  BY <1>4 DEF TypeOK, vars
<1>5. QED
  BY <1>1, <1>2, <1>3, <1>4, SendTypes, ThreadTypes, InitTypes DEF Next

-----------------------------------------------------------------------------
(* The life of the client. *)

(* A step of UserMqttSendTopic enters only where isconnect has been seen.   *)
LEMMA SendLife ==
  ASSUME TypeOK, LifeInv, NEW s \in Senders, Send(s)
  PROVE  LifeInv'
<1>1. /\ UNCHANGED <<queue_exists, isconnect, running, tpc, init_mutex, ipc>>
  BY DEF Send, SendCheck, SendFull, SendPopOldest, SendNoMemory, SendPush, initVars, threadVars
<1>2. /\ Holding' /\ Rebuilding' /\ AliveRuns' /\ OneClient' /\ RunsOnQueue' /\ ConnectedAlive'
  BY <1>1 DEF LifeInv, Holding, Rebuilding, AliveRuns, OneClient, RunsOnQueue, ConnectedAlive, Alive
<1>3. isconnect => running
  BY DEF LifeInv, ConnectedAlive, AliveRuns, Alive
<1>4. \E x : spc' = [spc EXCEPT ![s] = x] /\ (x # "idle" => running)
  <2>1. CASE SendCheck(s)
    BY <2>1, <1>3 DEF SendCheck
  <2>2. CASE SendFull(s) \/ SendPopOldest(s) \/ SendNoMemory(s) \/ SendPush(s)
    BY <2>2 DEF LifeInv, SendingRuns, SendFull, SendPopOldest, SendNoMemory, SendPush
  <2>3. QED
    BY <2>1, <2>2 DEF Send
<1>5. SendingRuns'
  BY <1>1, <1>4 DEF LifeInv, SendingRuns, TypeOK
<1>6. QED
  BY <1>2, <1>5 DEF LifeInv

(* What every step of the client thread but its last one does to the flags. *)
LEMMA ThreadEffect ==
  ASSUME TypeOK, NEW t \in Threads, ThreadStep(t), ~ThreadEnd(t)
  PROVE  /\ UNCHANGED <<queue_exists, running, spc, init_mutex, ipc>>
         /\ tpc[t] # "dead"
         /\ \E x : /\ tpc' = [tpc EXCEPT ![t] = x]
                   /\ x # "dead"
                   /\ x = "closing" => ~isconnect'
<1> USE DEF Goes, initVars
<1>1. CASE ThreadStart(t) \/ ThreadOffline(t) \/ ThreadConnectFails(t)
  BY <1>1 DEF ThreadStart, ThreadOffline, ThreadConnectFails
<1>2. CASE ThreadConnects(t) \/ ThreadHandshake(t) \/ ThreadAnnounced(t) \/ ThreadLoop(t)
  BY <1>2 DEF ThreadConnects, ThreadHandshake, ThreadAnnounced, ThreadLoop
<1>3. CASE ThreadDrain(t) \/ ThreadPop(t) \/ ThreadPublish(t)
  BY <1>3 DEF ThreadDrain, ThreadPop, ThreadPublish
<1>4. CASE ThreadReconnect(t) \/ ThreadRelease(t) \/ ThreadExit(t)
  BY <1>4 DEF ThreadReconnect, ThreadRelease, ThreadExit
<1>5. QED
  BY <1>1, <1>2, <1>3, <1>4 DEF ThreadStep

(* A step of the client thread keeps the invariant.                         *)
LEMMA ThreadLife ==
  ASSUME TypeOK, LifeInv, NEW t \in Threads, ThreadStep(t)
  PROVE  LifeInv'
<1>1. CASE ThreadEnd(t)
  <2>1. /\ tpc[t] = "closing" /\ tpc' = [tpc EXCEPT ![t] = "dead"] /\ running' = FALSE
        /\ \A s \in Senders : spc[s] = "idle"
        /\ UNCHANGED <<queue_exists, isconnect, spc, init_mutex, ipc>>
    BY <1>1 DEF ThreadEnd, Goes, NoSendUnderWay, initVars
  <2>2. \A u \in Threads : u # t => tpc[u] = "dead"
    BY <2>1 DEF LifeInv, OneClient, Alive
  <2>3. \A u \in Threads : tpc'[u] = "dead"
    BY <2>1, <2>2 DEF TypeOK
  <2>4. ~isconnect
    BY <2>1, <2>2 DEF LifeInv, ConnectedAlive
  <2>5. Holding' /\ Rebuilding' /\ RunsOnQueue' /\ SendingRuns'
    BY <2>1 DEF LifeInv, Holding, Rebuilding, RunsOnQueue, SendingRuns
  <2>6. AliveRuns' /\ OneClient' /\ ConnectedAlive'
    BY <2>1, <2>3, <2>4 DEF AliveRuns, OneClient, ConnectedAlive, Alive
  <2>7. QED
    BY <2>5, <2>6 DEF LifeInv
<1>2. CASE ~ThreadEnd(t)
  <2>1. /\ UNCHANGED <<queue_exists, running, spc, init_mutex, ipc>>
        /\ tpc[t] # "dead"
    BY <1>2, ThreadEffect
  <2>2. PICK x : tpc' = [tpc EXCEPT ![t] = x] /\ x # "dead" /\ (x = "closing" => ~isconnect')
    BY <1>2, ThreadEffect
  <2>3. Holding' /\ Rebuilding' /\ RunsOnQueue' /\ SendingRuns'
    BY <2>1 DEF LifeInv, Holding, Rebuilding, RunsOnQueue, SendingRuns
  <2>4. running /\ \A u \in Threads : u # t => tpc[u] = "dead"
    BY <2>1 DEF LifeInv, AliveRuns, OneClient, Alive
  <2>5. tpc'[t] = x /\ \A u \in Threads : u # t => tpc'[u] = "dead"
    BY <2>2, <2>4 DEF TypeOK
  <2>6. AliveRuns' /\ OneClient'
    BY <2>1, <2>4, <2>5 DEF AliveRuns, OneClient, Alive
  <2>7. ConnectedAlive'
    BY <2>2, <2>5 DEF ConnectedAlive
  <2>8. QED
    BY <2>3, <2>6, <2>7 DEF LifeInv
<1>3. QED
  BY <1>1, <1>2

(* A step of UserMqttInit keeps the invariant: who holds the mutex is alone. *)
LEMMA InitLife ==
  ASSUME TypeOK, LifeInv, NEW i \in Callers, InitStep(i)
  PROVE  LifeInv'
<1> USE DEF Moves, Returns, memVars, threadVars
<1>1. UNCHANGED <<isconnect, spc>>
  BY DEF InitStep, InitLock, InitCheck, InitWait, InitGiveUp, InitClear, InitDeinitQueue,
         InitArm, InitCreate, InitCreateFails
<1>2. \A k \in Callers : k # i => ipc'[k] = ipc[k]
  BY DEF InitStep, InitLock, InitCheck, InitWait, InitGiveUp, InitClear, InitDeinitQueue,
         InitArm, InitCreate, InitCreateFails, TypeOK
<1>3. Holding'
  <2>1. CASE InitLock(i)
    BY <2>1, <1>2, MqttAssumption DEF InitLock, LifeInv, Holding, TypeOK
  <2>2. CASE InitCheck(i) \/ InitWait(i) \/ InitGiveUp(i)
    BY <2>2, <1>2 DEF InitCheck, InitWait, InitGiveUp, LifeInv, Holding, TypeOK
  <2>3. CASE InitClear(i) \/ InitDeinitQueue(i) \/ InitArm(i)
    BY <2>3, <1>2 DEF InitClear, InitDeinitQueue, InitArm, LifeInv, Holding, TypeOK
  <2>4. CASE InitCreate(i) \/ InitCreateFails(i)
    BY <2>4, <1>2 DEF InitCreate, InitCreateFails, LifeInv, Holding, TypeOK
  <2>5. QED
    BY <2>1, <2>2, <2>3, <2>4 DEF InitStep
<1>4. CASE InitCreate(i)
  <2>1. ~running /\ init_mutex = i
    BY <1>4 DEF InitCreate, LifeInv, Rebuilding, Holding
  <2>2. PICK t \in Threads : Goes(t, "dead", "start")
    BY <1>4 DEF InitCreate
  <2>3. \A u \in Threads : tpc[u] = "dead"
    BY <2>1 DEF LifeInv, AliveRuns, Alive
  <2>4. ~isconnect /\ \A s \in Senders : spc[s] = "idle"
    BY <2>1, <2>3 DEF LifeInv, ConnectedAlive, SendingRuns
  <2>5. \A k \in Callers : ipc'[k] \in {"idle", "lock"}
    BY <1>4, <1>2, <2>1 DEF InitCreate, LifeInv, Holding, TypeOK
  <2>6. AliveRuns' /\ OneClient'
    BY <1>4, <2>2, <2>3 DEF InitCreate, Goes, AliveRuns, OneClient, Alive, TypeOK
  <2>7. Rebuilding' /\ RunsOnQueue' /\ ConnectedAlive' /\ SendingRuns'
    BY <1>1, <1>4, <2>4, <2>5 DEF InitCreate, Rebuilding, RunsOnQueue, ConnectedAlive, SendingRuns
  <2>8. QED
    BY <1>3, <2>6, <2>7 DEF LifeInv
<1>5. CASE ~InitCreate(i)
  <2>1. running' = running /\ tpc' = tpc
    BY <1>5 DEF InitStep, InitLock, InitCheck, InitWait, InitGiveUp, InitClear,
                InitDeinitQueue, InitArm, InitCreateFails
  <2>2. AliveRuns' /\ OneClient' /\ ConnectedAlive' /\ SendingRuns'
    BY <1>1, <2>1 DEF LifeInv, AliveRuns, OneClient, ConnectedAlive, SendingRuns, Alive
  <2>3. ipc'[i] \in {"clear", "deinit", "arm", "create"} => ~running
    <3>1. CASE InitCheck(i) \/ InitWait(i) \/ InitLock(i)
      BY <3>1 DEF InitCheck, InitWait, InitLock, LifeInv, RunsOnQueue, TypeOK
    <3>2. CASE InitClear(i) \/ InitDeinitQueue(i) \/ InitArm(i)
      BY <3>2 DEF InitClear, InitDeinitQueue, InitArm, LifeInv, Rebuilding, TypeOK
    <3>3. CASE InitGiveUp(i) \/ InitCreateFails(i)
      BY <3>3 DEF InitGiveUp, InitCreateFails, TypeOK
    <3>4. QED
      BY <1>5, <3>1, <3>2, <3>3 DEF InitStep
  <2>4. Rebuilding'
    BY <1>2, <2>1, <2>3 DEF LifeInv, Rebuilding
  <2>5. RunsOnQueue'
    <3>1. CASE InitDeinitQueue(i) \/ InitCreateFails(i)
      BY <3>1, <2>1 DEF InitDeinitQueue, InitCreateFails, LifeInv, Rebuilding, RunsOnQueue
    <3>2. CASE ~(InitDeinitQueue(i) \/ InitCreateFails(i))
      <4>1. queue_exists' = queue_exists
        BY <1>5, <3>2 DEF InitStep, InitLock, InitCheck, InitWait, InitGiveUp, InitClear, InitArm
      <4>2. QED
        BY <4>1, <2>1 DEF LifeInv, RunsOnQueue
    <3>3. QED
      BY <3>1, <3>2
  <2>6. QED
    BY <1>3, <2>2, <2>4, <2>5 DEF LifeInv
<1>6. QED
  BY <1>4, <1>5

(* Every step keeps the invariant.                                          *)
LEMMA LifeStep == TypeOK /\ LifeInv /\ [Next]_vars => LifeInv'
<1> SUFFICES ASSUME TypeOK, LifeInv, [Next]_vars PROVE LifeInv'
  OBVIOUS
<1> DEFINE Quiet == /\ UNCHANGED <<queue_exists, isconnect, running, tpc, spc, init_mutex>>
                    /\ \A i \in Callers : ipc'[i] = ipc[i] \/ ipc'[i] = "lock"
<1>1. ASSUME Quiet PROVE LifeInv'
  BY <1>1 DEF LifeInv, Holding, Rebuilding, AliveRuns, OneClient, RunsOnQueue, ConnectedAlive,
              SendingRuns, Alive
<1>2. CASE \E i \in Callers : WifiConnected(i)
  BY <1>1, <1>2 DEF WifiConnected, Moves, threadVars, TypeOK
<1>3. CASE SaveConfig
  BY <1>1, <1>3 DEF SaveConfig, Moves, threadVars, TypeOK
<1>4. CASE KeyConfigWifi
  BY <1>1, <1>4 DEF KeyConfigWifi, threadVars
<1>5. CASE UNCHANGED vars
  BY <1>1, <1>5 DEF vars
<1>6. QED
  BY <1>2, <1>3, <1>4, <1>5, SendLife, ThreadLife, InitLife DEF Next

-----------------------------------------------------------------------------
(* Every value of the client has its type, and the invariant holds.         *)
THEOREM MqttInvariance == Spec => [](TypeOK /\ LifeInv)
<1>1. Init => TypeOK
  <2>1. <<>> \in Seq(Buffers) /\ Len(<<>>) = 0 /\ 0 <= QUEUE_SIZE
    BY MqttAssumption, EmptySeq
  <2>2. 0 \in 0 .. NAnnounce
    BY MqttAssumption
  <2> SUFFICES ASSUME Init PROVE TypeOK
    OBVIOUS
  <2>3. /\ queue \in Seq(Buffers) /\ Len(queue) <= QUEUE_SIZE
        /\ heap \in SUBSET Buffers /\ announced \in 0 .. NAnnounce
    BY <2>1, <2>2 DEF Init
  <2>4. /\ queue_exists \in BOOLEAN /\ isconnect \in BOOLEAN /\ should_exit \in BOOLEAN
        /\ running \in BOOLEAN
        /\ init_mutex \in Callers \cup {Nobody}
    BY DEF Init
  <2>5. /\ hand \in [Threads -> Buffers \cup {NoBuffer}]
        /\ spc \in [Senders -> {"idle", "full?", "popoldest", "push"}]
        /\ ipc \in [Callers -> {"idle", "lock", "check", "wait", "giveup", "clear",
                                "deinit", "arm", "create"}]
    BY DEF Init
  <2>6. tpc \in [Threads -> {"dead", "start", "offline", "connecting", "handshake",
                             "announce", "loop", "drain", "pop", "publish",
                             "reconnect", "release", "exit", "closing"}]
    BY DEF Init
  <2>7. QED
    BY <2>3, <2>4, <2>5, <2>6 DEF TypeOK
<1>2. Init => LifeInv
  BY DEF Init, LifeInv, Holding, Rebuilding, AliveRuns, OneClient, RunsOnQueue, ConnectedAlive,
         SendingRuns, Alive
<1>3. TypeOK /\ LifeInv /\ [Next]_vars => (TypeOK /\ LifeInv)'
  BY TypeStep, LifeStep
<1>4. QED
  BY <1>1, <1>2, <1>3, PTL DEF Spec

(* There is never a second client thread.                                   *)
THEOREM SingleClient == Spec => []OneClient
<1>1. TypeOK /\ LifeInv => OneClient
  BY DEF LifeInv
<1>2. QED
  BY <1>1, MqttInvariance, PTL

(* The queue is never destroyed under the client thread or under a thread   *)
(* that is handing it a message.                                            *)
THEOREM QueueIsSafe == Spec => []QueueOutlivesUsers
<1>1. TypeOK /\ LifeInv => QueueOutlivesUsers
  BY DEF LifeInv, AliveRuns, RunsOnQueue, SendingRuns, QueueOutlivesUsers
<1>2. QED
  BY <1>1, MqttInvariance, PTL

-----------------------------------------------------------------------------
(* The blocks and the messages of the queue. *)

Elements(q) == {q[i] : i \in 1 .. Len(q)}
Unique(q) == \A i, j \in 1 .. Len(q) : i # j => q[i] # q[j]
Hands == UNION {HandOf(t) : t \in Threads}

Cleared == \A i \in Callers : ipc[i] = "deinit" => queue = <<>>

(* The senders that are about to take the oldest message out. *)
Popping == {s \in Senders : spc[s] = "popoldest"}

OnlyAnnouncerSends == \A t \in Threads : spc[t] # "idle" => tpc[t] = "announce"

(* Where the client is between its start and the end of a connection. *)
Serving == {"start", "offline", "connecting", "handshake", "announce", "loop", "drain",
            "pop", "publish"}

(* The queue holds more messages than those senders will take out; one of   *)
(* them may be in the client's hand instead.                                *)
EnoughFor(t) ==
  /\ tpc[t] = "pop" \/ (Popping # {} /\ tpc[t] # "publish") =>
       Len(queue) > Cardinality(Popping)
  /\ tpc[t] = "publish" => Len(queue) >= Cardinality(Popping)
Enough == \A t \in Threads : tpc[t] \in Serving => EnoughFor(t)

MemInv == MemoryOwned /\ Cleared
RoomInv == OnlyAnnouncerSends /\ Enough

-----------------------------------------------------------------------------
(* Sequences without repetition, and few senders. *)

(* Without its first element a sequence holds every other one.              *)
LEMMA TailElements ==
  ASSUME NEW q \in Seq(Buffers), q # <<>>, Unique(q)
  PROVE  /\ Unique(Tail(q))
         /\ Elements(Tail(q)) = Elements(q) \ {Head(q)}
         /\ Head(q) \in Elements(q)
<1>1. /\ Len(q) \in Nat \ {0} /\ Len(Tail(q)) = Len(q) - 1
      /\ Head(q) = q[1] /\ \A i \in 1 .. Len(Tail(q)) : Tail(q)[i] = q[i + 1]
  BY EmptySeq
<1>2. Unique(Tail(q))
  BY <1>1 DEF Unique
<1>3. \A i \in 1 .. Len(q) : i # 1 => i - 1 \in 1 .. Len(Tail(q)) /\ Tail(q)[i - 1] = q[i]
  BY <1>1
<1>4. Elements(Tail(q)) \subseteq Elements(q) \ {Head(q)}
  BY <1>1 DEF Elements, Unique
<1>5. Elements(q) \ {Head(q)} \subseteq Elements(Tail(q))
  BY <1>1, <1>3 DEF Elements
<1>6. Head(q) \in Elements(q)
  BY <1>1 DEF Elements
<1>7. QED
  BY <1>2, <1>4, <1>5, <1>6

(* A new element at the end is one element more.                            *)
LEMMA AppendElements ==
  ASSUME NEW q \in Seq(Buffers), NEW b \in Buffers, Unique(q), b \notin Elements(q)
  PROVE  Unique(Append(q, b)) /\ Elements(Append(q, b)) = Elements(q) \cup {b}
<1> DEFINE a == Append(q, b)
<1>1. /\ Len(q) \in Nat /\ Len(a) = Len(q) + 1
      /\ a[Len(a)] = b /\ \A i \in 1 .. Len(q) : a[i] = q[i]
  OBVIOUS
<1> HIDE DEF a
<1>2. Unique(a)
  BY <1>1 DEF Unique, Elements
<1>3. Elements(a) = Elements(q) \cup {b}
  BY <1>1 DEF Elements
<1>4. QED
  BY <1>2, <1>3 DEF a

(* An empty queue holds nothing.                                            *)
LEMMA EmptyElements == Unique(<<>>) /\ Elements(<<>>) = {}
BY DEF Unique, Elements

(* The senders and the client are fewer than the places of the queue.       *)
LEMMA FewSenders ==
  ASSUME NEW x, NEW S \in SUBSET (Producers \cup {x})
  PROVE  IsFiniteSet(S) /\ Cardinality(S) \in Nat /\ Cardinality(S) < QUEUE_SIZE
<1>1. IsFiniteSet(Producers) /\ Cardinality(Producers) + 1 < QUEUE_SIZE /\ QUEUE_SIZE \in Nat
  BY MqttAssumption
<1>2. Cardinality(Producers) \in Nat
  BY <1>1, FS_CardinalityType
<1>3. /\ IsFiniteSet(Producers \cup {x})
      /\ Cardinality(Producers \cup {x}) <= Cardinality(Producers) + 1
      /\ Cardinality(Producers \cup {x}) \in Nat
  BY <1>1, <1>2, FS_AddElement
<1>4. IsFiniteSet(S) /\ Cardinality(S) <= Cardinality(Producers \cup {x})
  BY <1>3, FS_Subset
<1>5. Cardinality(S) \in Nat
  BY <1>4, FS_CardinalityType
<1>6. QED
  BY <1>1, <1>2, <1>3, <1>4, <1>5

-----------------------------------------------------------------------------
(* The blocks. *)

(* MemoryOwned in the terms of this module.                                 *)
LEMMA Owned ==
  MemoryOwned <=>
    /\ heap = Elements(queue) \cup Hands
    /\ Unique(queue)
    /\ \A t \in Threads : HandOf(t) \cap Elements(queue) = {}
    /\ \A t \in Threads : hand[t] # NoBuffer <=> tpc[t] = "publish"
BY DEF MemoryOwned, Elements, Unique, Hands, InQueue

(* What keeps the blocks: the queue and the heap change together.           *)
LEMMA SendMem ==
  ASSUME TypeOK, LifeInv, MemInv, NEW s \in Senders, Send(s)
  PROVE  MemInv'
<1>1. UNCHANGED <<tpc, hand, ipc, running>>
  BY DEF Send, SendCheck, SendFull, SendPopOldest, SendNoMemory, SendPush, initVars, threadVars
<1>2. CASE UNCHANGED memVars
  BY <1>1, <1>2 DEF MemInv, MemoryOwned, Cleared, HandOf, InQueue, memVars
<1>3. CASE spc[s] # "idle" /\ ~UNCHANGED memVars
  <2>1. Cleared'
    BY <1>1, <1>3 DEF Cleared, LifeInv, SendingRuns, Rebuilding
  <2>2. CASE SendPopOldest(s)
    <3>1. queue # <<>> /\ queue' = Tail(queue) /\ heap' = heap \ {Head(queue)}
      BY <1>3, <2>2 DEF SendPopOldest
    <3>2. /\ Unique(Tail(queue))
          /\ Elements(Tail(queue)) = Elements(queue) \ {Head(queue)}
          /\ Head(queue) \in Elements(queue)
      BY <3>1, TailElements, Owned DEF TypeOK, MemInv
    <3>3. heap = Elements(queue) \cup Hands /\ Head(queue) \notin Hands
      BY <3>2, Owned DEF MemInv, Hands
    <3>4. Hands' = Hands /\ \A t \in Threads : HandOf(t)' = HandOf(t)
      BY <1>1 DEF Hands, HandOf
    <3>5. heap' = Elements(queue') \cup Hands'
      BY <3>1, <3>2, <3>3, <3>4
    <3>6. \A t \in Threads : HandOf(t)' \cap Elements(queue') = {}
      BY <3>1, <3>2, <3>4, Owned DEF MemInv
    <3>7. \A t \in Threads : hand'[t] # NoBuffer <=> tpc'[t] = "publish"
      BY <1>1 DEF MemInv, MemoryOwned
    <3>8. MemoryOwned'
      BY <3>1, <3>2, <3>5, <3>6, <3>7 DEF MemoryOwned, Elements, Unique, Hands, InQueue
    <3>9. QED
      BY <2>1, <3>8 DEF MemInv
  <2>3. CASE SendPush(s)
    <3>1. queue' = Append(queue, NewBlock) /\ heap' = heap \cup {NewBlock} /\ heap # Buffers
      BY <1>3, <2>3 DEF SendPush
    <3>2. NewBlock \in Buffers /\ NewBlock \notin heap
      <4>1. \E b \in Buffers : b \notin heap
        BY <3>1 DEF TypeOK
      <4>2. QED
        BY <4>1 DEF NewBlock
    <3>3. /\ Unique(Append(queue, NewBlock))
          /\ Elements(Append(queue, NewBlock)) = Elements(queue) \cup {NewBlock}
      BY <3>2, AppendElements, Owned DEF TypeOK, MemInv
    <3>4. MemoryOwned'
      BY <1>1, <3>1, <3>2, <3>3 DEF MemInv, MemoryOwned, Elements, Unique, HandOf, InQueue
    <3>5. QED
      BY <2>1, <3>4 DEF MemInv
  <2>4. QED
    BY <1>3, <2>2, <2>3 DEF Send, SendCheck, SendFull, SendNoMemory
<1>4. QED
  BY <1>2, <1>3 DEF Send, SendCheck, SendFull, SendPopOldest, SendNoMemory, SendPush

(* The client takes a block into its hand, and frees it or what it clears.  *)
LEMMA ThreadMem ==
  ASSUME TypeOK, LifeInv, MemInv, NEW t \in Threads, ThreadStep(t)
  PROVE  MemInv'
<1>1. tpc[t] # "dead" /\ ipc' = ipc
  BY DEF ThreadStep, ThreadStart, ThreadOffline, ThreadConnectFails, ThreadConnects,
         ThreadHandshake, ThreadAnnounced, ThreadLoop, ThreadDrain, ThreadPop, ThreadPublish,
         ThreadReconnect, ThreadRelease, ThreadExit, ThreadEnd, Goes, initVars
<1>2. Cleared'
  BY <1>1 DEF Cleared, LifeInv, Rebuilding, AliveRuns, Alive
<1>3. \A u \in Threads : u # t => tpc[u] = "dead" /\ hand[u] = NoBuffer
  BY <1>1 DEF LifeInv, OneClient, Alive, MemInv, MemoryOwned
<1>4. CASE ThreadPop(t)
  <2>1. hand[t] = NoBuffer /\ tpc[t] = "pop"
    BY <1>4 DEF ThreadPop, Goes, MemInv, MemoryOwned
  <2>2. CASE queue = <<>>
    <3>1. tpc' = [tpc EXCEPT ![t] = "exit"] /\ UNCHANGED <<queue, heap, hand>>
      BY <1>4, <2>1, <2>2 DEF ThreadPop, Goes
    <3>2. MemoryOwned'
      BY <2>1, <3>1 DEF MemInv, MemoryOwned, HandOf, InQueue, TypeOK
    <3>3. QED
      BY <1>2, <3>2 DEF MemInv
  <2>3. CASE queue # <<>>
    <3>1. /\ queue' = Tail(queue) /\ heap' = heap
          /\ hand' = [hand EXCEPT ![t] = Head(queue)]
          /\ tpc' = [tpc EXCEPT ![t] = "publish"]
      BY <1>4, <2>3 DEF ThreadPop, Goes
    <3>2. /\ Unique(Tail(queue))
          /\ Elements(Tail(queue)) = Elements(queue) \ {Head(queue)}
          /\ Head(queue) \in Elements(queue)
      BY <2>3, TailElements, Owned DEF TypeOK, MemInv
    <3>3. Head(queue) # NoBuffer
      BY <2>3, MqttAssumption DEF TypeOK
    <3>4. hand'[t] = Head(queue) /\ \A u \in Threads : u # t => hand'[u] = NoBuffer
      BY <1>3, <3>1 DEF TypeOK
    <3>5. Hands = {}
      BY <1>3, <2>1 DEF Hands, HandOf
    <3>6. Hands' = {Head(queue)}
      BY <3>3, <3>4 DEF Hands, HandOf
    <3>7. heap' = Elements(queue') \cup Hands'
      BY <3>1, <3>2, <3>5, <3>6, Owned DEF MemInv
    <3>8. \A u \in Threads : HandOf(u)' \cap Elements(queue') = {}
      BY <3>1, <3>2, <3>4 DEF HandOf
    <3>9. \A u \in Threads : hand'[u] # NoBuffer <=> tpc'[u] = "publish"
      BY <1>3, <3>1, <3>3, <3>4 DEF TypeOK
    <3>10. MemoryOwned'
      BY <3>1, <3>2, <3>7, <3>8, <3>9 DEF MemoryOwned, Elements, Unique, Hands, InQueue
    <3>11. QED
      BY <1>2, <3>10 DEF MemInv
  <2>4. QED
    BY <2>2, <2>3
<1>5. CASE ThreadPublish(t)
  <2>1. /\ heap' = heap \ {hand[t]} /\ hand' = [hand EXCEPT ![t] = NoBuffer]
        /\ queue' = queue /\ tpc[t] = "publish" /\ \E x : x # "publish" /\ tpc' = [tpc EXCEPT ![t] = x]
    BY <1>5 DEF ThreadPublish, Goes
  <2>2. hand[t] # NoBuffer
    BY <2>1 DEF MemInv, MemoryOwned
  <2>3. \A u \in Threads : hand'[u] = NoBuffer /\ tpc'[u] # "publish"
    BY <1>3, <2>1 DEF TypeOK
  <2>4. Hands = {hand[t]} /\ hand[t] \notin Elements(queue)
    BY <1>3, <2>2, Owned DEF Hands, HandOf, MemInv
  <2>5. Hands' = {} /\ \A u \in Threads : HandOf(u)' = {}
    BY <2>3 DEF Hands, HandOf
  <2>6. heap' = Elements(queue') \cup Hands'
    BY <2>1, <2>4, <2>5, Owned DEF MemInv
  <2>7. MemoryOwned'
    BY <2>1, <2>3, <2>5, <2>6 DEF MemInv, MemoryOwned, Elements, Hands, InQueue
  <2>8. QED
    BY <1>2, <2>7 DEF MemInv
<1>6. CASE ThreadReconnect(t)
  <2>1. /\ queue' = <<>> /\ heap' = heap \ InQueue /\ hand' = hand
        /\ tpc[t] = "reconnect" /\ tpc' = [tpc EXCEPT ![t] = "release"]
    BY <1>6 DEF ThreadReconnect, Goes
  <2>2. Unique(queue') /\ Elements(queue') = {}
    BY <2>1, EmptyElements
  <2>3. heap' = Hands'
    BY <2>1 DEF MemInv, MemoryOwned, Hands, HandOf
  <2>4. \A u \in Threads : hand'[u] # NoBuffer <=> tpc'[u] = "publish"
    BY <2>1 DEF MemInv, MemoryOwned, TypeOK
  <2>5. MemoryOwned'
    BY <2>2, <2>3, <2>4 DEF MemoryOwned, Elements, Unique, Hands, InQueue
  <2>6. QED
    BY <1>2, <2>5 DEF MemInv
<1>7. CASE ~(ThreadPop(t) \/ ThreadPublish(t) \/ ThreadReconnect(t))
  <2>1. /\ UNCHANGED <<queue, heap, hand>> /\ tpc[t] # "publish"
        /\ \E x : x # "publish" /\ tpc' = [tpc EXCEPT ![t] = x]
    <3> USE DEF Goes, memVars
    <3>1. CASE ThreadStart(t) \/ ThreadOffline(t) \/ ThreadConnectFails(t) \/ ThreadConnects(t)
      BY <3>1 DEF ThreadStart, ThreadOffline, ThreadConnectFails, ThreadConnects
    <3>2. CASE ThreadHandshake(t) \/ ThreadAnnounced(t) \/ ThreadLoop(t) \/ ThreadDrain(t)
      BY <3>2 DEF ThreadHandshake, ThreadAnnounced, ThreadLoop, ThreadDrain
    <3>3. CASE ThreadRelease(t) \/ ThreadExit(t) \/ ThreadEnd(t)
      BY <3>3 DEF ThreadRelease, ThreadExit, ThreadEnd
    <3>4. QED
      BY <1>7, <3>1, <3>2, <3>3 DEF ThreadStep
  <2>2. \A u \in Threads : tpc'[u] = "publish" <=> tpc[u] = "publish"
    BY <2>1 DEF TypeOK
  <2>3. MemoryOwned'
    BY <2>1, <2>2 DEF MemInv, MemoryOwned, HandOf, InQueue
  <2>4. QED
    BY <1>2, <2>3 DEF MemInv
<1>8. QED
  BY <1>4, <1>5, <1>6, <1>7

(* A rebuild clears the queue before it destroys it.                        *)
LEMMA InitMem ==
  ASSUME TypeOK, LifeInv, MemInv, NEW i \in Callers, InitStep(i)
  PROVE  MemInv'
<1> USE DEF Moves, Returns, memVars, threadVars
<1>1. hand' = hand /\ \A t \in Threads : tpc'[t] = "publish" <=> tpc[t] = "publish"
  BY DEF InitStep, InitLock, InitCheck, InitWait, InitGiveUp, InitClear, InitDeinitQueue,
         InitArm, InitCreate, InitCreateFails, Goes, TypeOK
<1>2. CASE InitClear(i)
  <2>1. queue' = <<>> /\ heap' = heap \ InQueue
    BY <1>2 DEF InitClear
  <2>2. Unique(queue') /\ Elements(queue') = {}
    BY <2>1, EmptyElements
  <2>3. heap' = Hands'
    BY <1>1, <2>1 DEF MemInv, MemoryOwned, Hands, HandOf
  <2>4. MemoryOwned'
    BY <1>1, <2>2, <2>3 DEF MemInv, MemoryOwned, Elements, Unique, Hands, InQueue
  <2>5. QED
    BY <2>1, <2>4 DEF MemInv, Cleared
<1>3. CASE InitDeinitQueue(i)
  <2>1. queue = <<>> /\ queue' = <<>> /\ heap' = heap
    BY <1>3 DEF InitDeinitQueue, MemInv, Cleared
  <2>2. MemoryOwned'
    BY <1>1, <2>1 DEF MemInv, MemoryOwned, HandOf, InQueue
  <2>3. QED
    BY <2>1, <2>2 DEF MemInv, Cleared
<1>4. CASE ~InitClear(i) /\ ~InitDeinitQueue(i)
  <2>1. UNCHANGED <<queue, heap>>
    BY <1>4 DEF InitStep, InitLock, InitCheck, InitWait, InitGiveUp, InitArm, InitCreate,
                InitCreateFails
  <2>2. \A k \in Callers : ipc'[k] = "deinit" => ipc[k] = "deinit"
    BY <1>4 DEF InitStep, InitLock, InitCheck, InitWait, InitGiveUp, InitArm, InitCreate,
                InitCreateFails, TypeOK
  <2>3. MemoryOwned'
    BY <1>1, <2>1 DEF MemInv, MemoryOwned, HandOf, InQueue
  <2>4. QED
    BY <2>1, <2>2, <2>3 DEF MemInv, Cleared
<1>5. QED
  BY <1>2, <1>3, <1>4

(* Every step keeps the blocks.                                             *)
LEMMA MemStep == TypeOK /\ LifeInv /\ MemInv /\ [Next]_vars => MemInv'
<1> SUFFICES ASSUME TypeOK, LifeInv, MemInv, [Next]_vars PROVE MemInv'
  OBVIOUS
<1> DEFINE Quiet == /\ UNCHANGED <<queue, heap, hand, tpc>>
                    /\ \A i \in Callers : ipc'[i] = ipc[i] \/ ipc'[i] = "lock"
<1>1. ASSUME Quiet PROVE MemInv'
  BY <1>1 DEF MemInv, MemoryOwned, Cleared, HandOf, InQueue
<1>2. CASE \E i \in Callers : WifiConnected(i)
  BY <1>1, <1>2 DEF WifiConnected, Moves, threadVars, memVars, TypeOK
<1>3. CASE SaveConfig
  BY <1>1, <1>3 DEF SaveConfig, Moves, threadVars, memVars, TypeOK
<1>4. CASE KeyConfigWifi
  BY <1>1, <1>4 DEF KeyConfigWifi, threadVars, memVars
<1>5. CASE UNCHANGED vars
  BY <1>1, <1>5 DEF vars
<1>6. QED
  BY <1>2, <1>3, <1>4, <1>5, SendMem, ThreadMem, InitMem DEF Next

(* Every allocated block is in the queue or in the client's hand, and in    *)
(* one place only.                                                          *)
THEOREM NoLeak == Spec => []MemoryOwned
<1>1. Init => MemInv
  <2> SUFFICES ASSUME Init PROVE MemInv
    OBVIOUS
  <2>1. queue = <<>> /\ heap = {} /\ hand = [t \in Threads |-> NoBuffer]
    BY DEF Init
  <2>2. Hands = {} /\ \A t \in Threads : HandOf(t) = {}
    BY <2>1 DEF Hands, HandOf
  <2>3. \A t \in Threads : hand[t] # NoBuffer <=> tpc[t] = "publish"
    BY DEF Init
  <2>4. MemoryOwned
    BY <2>1, <2>2, <2>3, EmptyElements, Owned
  <2>5. Cleared
    BY <2>1 DEF Cleared
  <2>6. QED
    BY <2>4, <2>5 DEF MemInv
<1>2. MemInv => MemoryOwned
  BY DEF MemInv
<1>3. QED
  BY <1>1, <1>2, MemStep, MqttInvariance, PTL DEF Spec

-----------------------------------------------------------------------------
(* The messages. *)

(* Who is about to take a message out: senders, and the client while it     *)
(* announces the states.                                                    *)
LEMMA FewPopping ==
  ASSUME NEW S \in SUBSET Senders, NEW t \in Threads,
         \A s \in S : s \in Threads => s = t
  PROVE  IsFiniteSet(S) /\ Cardinality(S) \in Nat /\ Cardinality(S) < QUEUE_SIZE
BY FewSenders DEF Senders

(* A client that is not dead is the only one that sends.                    *)
LEMMA PoppingIsFew ==
  ASSUME LifeInv, OnlyAnnouncerSends, NEW t \in Threads, tpc[t] # "dead"
  PROVE  /\ IsFiniteSet(Popping) /\ Cardinality(Popping) \in Nat
         /\ Cardinality(Popping) < QUEUE_SIZE
<1>1. Popping \subseteq Senders /\ \A s \in Popping : s \in Threads => s = t
  BY DEF Popping, OnlyAnnouncerSends, LifeInv, OneClient, Alive
<1>2. QED
  BY <1>1, FewPopping

(* A step of UserMqttSendTopic leaves enough messages.                      *)
LEMMA SendRoom ==
  ASSUME TypeOK, LifeInv, RoomInv, NEW s \in Senders, Send(s)
  PROVE  RoomInv'
<1>1. tpc' = tpc
  BY DEF Send, SendCheck, SendFull, SendPopOldest, SendNoMemory, SendPush, threadVars
<1>2. OnlyAnnouncerSends'
  <2>1. s \in Threads => tpc[s] = "announce"
    BY DEF Send, SendCheck, MaySend, SendFull, SendPopOldest, SendNoMemory, SendPush, RoomInv,
           OnlyAnnouncerSends
  <2>2. \A r \in Senders : r # s => spc'[r] = spc[r]
    BY DEF Send, SendCheck, SendFull, SendPopOldest, SendNoMemory, SendPush, TypeOK
  <2>3. QED
    BY <1>1, <2>1, <2>2 DEF RoomInv, OnlyAnnouncerSends, Senders
<1>3. Enough'
  <2> SUFFICES ASSUME NEW t \in Threads, tpc[t] \in Serving
               PROVE  EnoughFor(t)'
    BY <1>1 DEF Enough
  <2>1. /\ IsFiniteSet(Popping) /\ Cardinality(Popping) \in Nat
        /\ EnoughFor(t) /\ Len(queue) \in Nat
    BY PoppingIsFew DEF RoomInv, Enough, Serving, TypeOK
  <2>2. CASE Popping' = Popping /\ Len(queue') \in Nat /\ Len(queue') >= Len(queue)
    BY <1>1, <2>1, <2>2 DEF EnoughFor
  <2>3. CASE SendCheck(s) \/ SendNoMemory(s)
    <3>1. Popping' = Popping /\ queue' = queue
      BY <2>3 DEF SendCheck, MaySend, SendNoMemory, Popping, TypeOK, memVars
    <3>2. QED
      BY <2>1, <2>2, <3>1
  <2>4. CASE SendPush(s)
    <3>1. Popping' = Popping
      BY <2>4 DEF SendPush, Popping, TypeOK
    <3>2. queue' = queue \/ queue' = Append(queue, NewBlock)
      BY <2>4 DEF SendPush, memVars
    <3>3. NewBlock \in Buffers
      BY <2>4, NewBlockType DEF SendPush
    <3>4. Len(queue') \in Nat /\ Len(queue') >= Len(queue)
      BY <2>1, <3>2, <3>3 DEF TypeOK
    <3>5. QED
      BY <2>2, <3>1, <3>4
  <2>5. CASE SendFull(s) /\ Len(queue) # QUEUE_SIZE
    <3>1. Popping' = Popping /\ queue' = queue
      BY <2>5 DEF SendFull, Popping, TypeOK, memVars
    <3>2. QED
      BY <2>1, <2>2, <3>1
  <2>6. CASE SendFull(s) /\ Len(queue) = QUEUE_SIZE
    <3>1. queue' = queue
      BY <2>6 DEF SendFull, memVars
    <3>2. Popping' \subseteq Senders /\ \A r \in Popping' : r \in Threads => r = t
      BY <1>1, <1>2 DEF Popping, OnlyAnnouncerSends, Serving, LifeInv, OneClient, Alive
    <3>3. Cardinality(Popping') \in Nat /\ Cardinality(Popping') < Len(queue')
      BY <2>6, <3>1, <3>2, FewPopping
    <3>4. QED
      BY <2>1, <3>1, <3>3 DEF EnoughFor
  <2>7. CASE SendPopOldest(s)
    <3>1. s \in Popping /\ Popping' = Popping \ {s}
      BY <2>7 DEF SendPopOldest, Popping, TypeOK
    <3>2. Cardinality(Popping') = Cardinality(Popping) - 1 /\ Cardinality(Popping') \in Nat
      BY <2>1, <3>1, FS_RemoveElement, FS_CardinalityType
    <3>3. Len(queue) >= Cardinality(Popping)
      BY <2>1, <3>1 DEF EnoughFor
    <3>4. queue # <<>> /\ queue' = Tail(queue)
      <4>1. Len(queue) # 0 /\ Len(<<>>) = 0
        BY <2>1, <3>2, <3>3, EmptySeq
      <4>2. QED
        BY <2>7, <4>1 DEF SendPopOldest
    <3>5. Len(queue') = Len(queue) - 1
      BY <3>4 DEF TypeOK
    <3>6. QED
      BY <1>1, <2>1, <3>1, <3>2, <3>5 DEF EnoughFor
  <2>8. QED
    BY <2>3, <2>4, <2>5, <2>6, <2>7 DEF Send
<1>4. QED
  BY <1>2, <1>3 DEF RoomInv

(* A step of the client thread leaves enough messages: where the queue may  *)
(* become too short, it waits for every sender to be done.                  *)
LEMMA ThreadRoom ==
  ASSUME TypeOK, LifeInv, RoomInv, NEW t \in Threads, ThreadStep(t)
  PROVE  RoomInv'
<1>1. Popping' = Popping /\ tpc[t] # "dead"
  BY DEF ThreadStep, ThreadStart, ThreadOffline, ThreadConnectFails, ThreadConnects,
         ThreadHandshake, ThreadAnnounced, ThreadLoop, ThreadDrain, ThreadPop, ThreadPublish,
         ThreadReconnect, ThreadRelease, ThreadExit, ThreadEnd, Goes, Popping
<1>2. /\ IsFiniteSet(Popping) /\ Cardinality(Popping) \in Nat /\ Len(queue) \in Nat
      /\ tpc[t] \in Serving => EnoughFor(t)
  BY <1>1, PoppingIsFew DEF RoomInv, Enough, TypeOK
<1>3. \A u \in Threads : u # t => tpc'[u] = "dead" /\ spc[u] = "idle"
  <2>1. \A u \in Threads : u # t => tpc[u] = "dead"
    BY <1>1 DEF LifeInv, OneClient, Alive
  <2>2. \A u \in Threads : u # t => tpc'[u] = tpc[u]
    BY DEF ThreadStep, ThreadStart, ThreadOffline, ThreadConnectFails, ThreadConnects,
           ThreadHandshake, ThreadAnnounced, ThreadLoop, ThreadDrain, ThreadPop, ThreadPublish,
           ThreadReconnect, ThreadRelease, ThreadExit, ThreadEnd, Goes, TypeOK
  <2>3. QED
    BY <2>1, <2>2 DEF RoomInv, OnlyAnnouncerSends
<1>4. spc' = spc /\ (spc[t] = "idle" \/ tpc'[t] = "announce")
  BY DEF ThreadStep, ThreadStart, ThreadOffline, ThreadConnectFails, ThreadConnects,
         ThreadHandshake, ThreadAnnounced, ThreadLoop, ThreadDrain, ThreadPop, ThreadPublish,
         ThreadReconnect, ThreadRelease, ThreadExit, ThreadEnd, Goes, RoomInv,
         OnlyAnnouncerSends
<1>5. OnlyAnnouncerSends'
  BY <1>3, <1>4 DEF OnlyAnnouncerSends
<1>6. ASSUME tpc'[t] \in Serving => EnoughFor(t)' PROVE RoomInv'
  BY <1>3, <1>5, <1>6 DEF RoomInv, Enough, Serving
<1>7. CASE /\ tpc[t] \in Serving \ {"pop", "publish"} /\ queue' = queue
           /\ tpc'[t] \notin {"pop", "publish"}
  BY <1>1, <1>2, <1>6, <1>7 DEF EnoughFor
<1>8. CASE ThreadStart(t) \/ ThreadOffline(t) \/ ThreadConnectFails(t) \/ ThreadConnects(t)
  BY <1>7, <1>8 DEF ThreadStart, ThreadOffline, ThreadConnectFails, ThreadConnects, Goes,
                    Serving, TypeOK, memVars
<1>9. CASE ThreadHandshake(t) \/ ThreadAnnounced(t) \/ ThreadLoop(t)
  BY <1>7, <1>9 DEF ThreadHandshake, ThreadAnnounced, ThreadLoop, Goes, Serving, TypeOK, memVars
<1>10. CASE ThreadDrain(t)
  <2>1. queue' = queue /\ tpc[t] = "drain"
        /\ tpc'[t] = IF queue = <<>> THEN "loop" ELSE "pop"
    BY <1>10 DEF ThreadDrain, Goes, memVars, TypeOK
  <2>2. CASE queue = <<>>
    BY <1>7, <2>1, <2>2 DEF Serving
  <2>3. CASE queue # <<>>
    <3>1. Len(queue) > 0 /\ Cardinality({}) = 0
      BY <2>3, EmptySeq, FS_EmptySet DEF TypeOK
    <3>2. QED
      BY <1>1, <1>2, <1>6, <2>1, <2>3, <3>1 DEF EnoughFor, Serving
  <2>4. QED
    BY <2>2, <2>3
<1>11. CASE ThreadPop(t)
  <2>1. tpc[t] = "pop" /\ Len(queue) > Cardinality(Popping)
    BY <1>2, <1>11 DEF ThreadPop, Goes, EnoughFor, Serving
  <2>2. queue # <<>>
    BY <1>2, <2>1, EmptySeq
  <2>3. queue' = Tail(queue) /\ tpc'[t] = "publish"
    BY <1>11, <2>2 DEF ThreadPop, Goes, TypeOK
  <2>4. Len(queue') = Len(queue) - 1
    BY <2>2, <2>3 DEF TypeOK
  <2>5. QED
    BY <1>1, <1>2, <1>6, <2>1, <2>3, <2>4 DEF EnoughFor
<1>12. CASE ThreadPublish(t) \/ ThreadRelease(t)
  <2>1. Popping = {} /\ tpc'[t] \notin {"pop", "publish"}
    BY <1>12 DEF ThreadPublish, ThreadRelease, NoSendUnderWay, Popping, Goes, TypeOK
  <2>2. QED
    BY <1>1, <1>6, <2>1 DEF EnoughFor
<1>13. CASE ThreadReconnect(t) \/ ThreadExit(t) \/ ThreadEnd(t)
  BY <1>6, <1>13 DEF ThreadReconnect, ThreadExit, ThreadEnd, Goes, Serving, TypeOK
<1>14. QED
  BY <1>8, <1>9, <1>10, <1>11, <1>12, <1>13 DEF ThreadStep

(* UserMqttInit touches the queue when there is no client, and starts one   *)
(* when nobody sends.                                                       *)
LEMMA InitRoom ==
  ASSUME TypeOK, LifeInv, RoomInv, NEW i \in Callers, InitStep(i)
  PROVE  RoomInv'
<1> USE DEF Moves, Returns, memVars, threadVars
<1>1. spc' = spc /\ Popping' = Popping
  BY DEF InitStep, InitLock, InitCheck, InitWait, InitGiveUp, InitClear, InitDeinitQueue,
         InitArm, InitCreate, InitCreateFails, Popping
<1>2. CASE InitClear(i) \/ InitDeinitQueue(i) \/ InitCreate(i)
  <2>1. ~running
    BY <1>2 DEF InitClear, InitDeinitQueue, InitCreate, LifeInv, Rebuilding
  <2>2. (\A t \in Threads : tpc[t] = "dead") /\ (\A s \in Senders : spc[s] = "idle")
    BY <2>1 DEF LifeInv, AliveRuns, SendingRuns, Alive
  <2>3. OnlyAnnouncerSends'
    BY <1>1, <2>2 DEF OnlyAnnouncerSends, Senders
  <2>4. Popping = {}
    BY <2>2 DEF Popping
  <2>5. \A t \in Threads : tpc'[t] \notin {"pop", "publish"}
    BY <1>2, <2>2 DEF InitClear, InitDeinitQueue, InitCreate, Goes, TypeOK
  <2>6. QED
    BY <1>1, <2>3, <2>4, <2>5 DEF RoomInv, Enough, EnoughFor
<1>3. CASE ~(InitClear(i) \/ InitDeinitQueue(i) \/ InitCreate(i))
  <2>1. UNCHANGED <<queue, tpc>>
    BY <1>3 DEF InitStep, InitLock, InitCheck, InitWait, InitGiveUp, InitArm, InitCreateFails
  <2>2. QED
    BY <1>1, <2>1 DEF RoomInv, OnlyAnnouncerSends, Enough, EnoughFor
<1>4. QED
  BY <1>2, <1>3

(* Every step leaves enough messages.                                       *)
LEMMA RoomStep == TypeOK /\ LifeInv /\ RoomInv /\ [Next]_vars => RoomInv'
<1> SUFFICES ASSUME TypeOK, LifeInv, RoomInv, [Next]_vars PROVE RoomInv'
  OBVIOUS
<1>1. ASSUME UNCHANGED <<queue, tpc, spc>> PROVE RoomInv'
  BY <1>1 DEF RoomInv, OnlyAnnouncerSends, Enough, EnoughFor, Popping
<1>2. CASE (\E i \in Callers : WifiConnected(i)) \/ SaveConfig \/ KeyConfigWifi
  BY <1>1, <1>2 DEF WifiConnected, SaveConfig, KeyConfigWifi, threadVars, memVars
<1>3. CASE UNCHANGED vars
  BY <1>1, <1>3 DEF vars
<1>4. QED
  BY <1>2, <1>3, SendRoom, ThreadRoom, InitRoom DEF Next

(* The message the client has seen in the queue is still there when it      *)
(* takes it out, as long as fewer threads send than the queue has places.   *)
THEOREM SeenMessageStays == Spec => SeenMessageIsThere
<1>1. Init => RoomInv
  BY DEF Init, RoomInv, OnlyAnnouncerSends, Enough, Serving, Senders
<1>2. TypeOK /\ LifeInv /\ RoomInv /\ [Next]_vars =>
        [\A t \in Threads : tpc[t] = "pop" /\ tpc'[t] # "pop" => hand'[t] # NoBuffer]_vars
  <2> SUFFICES ASSUME TypeOK, LifeInv, RoomInv, Next,
                      NEW t \in Threads, tpc[t] = "pop", tpc'[t] # "pop"
               PROVE  hand'[t] # NoBuffer
    OBVIOUS
  <2>1. ThreadPop(t)
    <3>1. \A u \in Threads : ThreadStep(u) => u = t
      <4> SUFFICES ASSUME NEW u \in Threads, ThreadStep(u) PROVE u = t
        OBVIOUS
      <4>1. tpc[u] # "dead"
        BY DEF ThreadStep, ThreadStart, ThreadOffline, ThreadConnectFails, ThreadConnects,
               ThreadHandshake, ThreadAnnounced, ThreadLoop, ThreadDrain, ThreadPop,
               ThreadPublish, ThreadReconnect, ThreadRelease, ThreadExit, ThreadEnd, Goes
      <4>2. QED
        BY <4>1 DEF LifeInv, OneClient, Alive
    <3>2. \A s \in Senders : ~Send(s)
      BY DEF Send, SendCheck, SendFull, SendPopOldest, SendNoMemory, SendPush, threadVars
    <3>3. \A i \in Callers : ~InitStep(i)
      BY DEF InitStep, InitLock, InitCheck, InitWait, InitGiveUp, InitClear, InitDeinitQueue,
             InitArm, InitCreate, InitCreateFails, Goes, threadVars, TypeOK
    <3>4. ThreadStep(t)
      BY <3>1, <3>2, <3>3 DEF Next, WifiConnected, SaveConfig, KeyConfigWifi, threadVars
    <3>5. QED
      BY <3>4 DEF ThreadStep, ThreadStart, ThreadOffline, ThreadConnectFails, ThreadConnects,
                  ThreadHandshake, ThreadAnnounced, ThreadLoop, ThreadDrain, ThreadPublish,
                  ThreadReconnect, ThreadRelease, ThreadExit, ThreadEnd, Goes
  <2>2. Len(queue) > Cardinality(Popping) /\ Cardinality(Popping) \in Nat
    BY PoppingIsFew DEF RoomInv, Enough, EnoughFor, Serving
  <2>3. queue # <<>>
    BY <2>2, EmptySeq
  <2>4. hand'[t] = Head(queue) /\ Head(queue) \in Buffers
    BY <2>1, <2>3 DEF ThreadPop, TypeOK
  <2>5. QED
    BY <2>4, MqttAssumption
<1>3. QED
  BY <1>1, <1>2, RoomStep, MqttInvariance, PTL DEF Spec, SeenMessageIsThere
=============================================================================
