----------------------------- MODULE MqttClient -----------------------------
(***************************************************************************)
(* The MQTT client of the TC1 firmware: the client thread from its start   *)
(* to its exit, the bounded queue of messages other threads hand it, and   *)
(* UserMqttInit / UserMqttDeInit, by which the web server and the Wi-Fi    *)
(* code stop and rebuild the client.                                       *)
(*                                                                         *)
(* The flags and the queue are shared without a lock (only UserMqttInit    *)
(* has one), so a step here is what a thread does between two accesses to  *)
(* them. Queue operations are atomic and never wait (timeout 0).           *)
(***************************************************************************)
EXTENDS Integers, Sequences, FiniteSets

CONSTANTS
  Producers,   \* threads that send: main loop, web server, keys, MQTT worker
  Callers,     \* threads that call UserMqttInit
  Web,         \* the caller that saves a configuration (HttpSetMqttConfig)
  Threads,     \* identities for client threads
  Buffers,     \* heap blocks for messages
  NoBuffer,    \* NULL
  Nobody,      \* the free state of mqtt_init_mutex
  QUEUE_SIZE,  \* MAX_MQTT_SEND_QUEUE_SIZE
  NAnnounce    \* state messages sent after connecting (one per socket, ...)

ASSUME MqttAssumption ==
  /\ QUEUE_SIZE \in Nat
  /\ IsFiniteSet(Producers) /\ Cardinality(Producers) + 1 < QUEUE_SIZE
  /\ NAnnounce \in Nat
  /\ NoBuffer \notin Buffers
  /\ Nobody \notin Callers
  /\ Producers \cap Threads = {}
  /\ Web \in Callers

VARIABLES
  queue_exists,  \* mqtt_msg_send_queue # NULL
  queue,         \* its content
  heap,          \* the message blocks that are allocated
  isconnect,
  should_exit,   \* mqtt_thread_should_exit
  running,       \* mqtt_thread_running
  init_mutex,    \* the caller that holds it, or Nobody
  tpc,           \* where each client thread is
  hand,          \* p_send_msg of each client thread
  announced,     \* how many state messages the client has sent since connecting
  spc,           \* where each sender is in UserMqttSendTopic
  ipc            \* where each caller is in UserMqttInit

vars == <<queue_exists, queue, heap, isconnect, should_exit, running, init_mutex,
          tpc, hand, announced, spc, ipc>>
threadVars == <<tpc, hand, announced>>
initVars   == <<init_mutex, ipc>>
memVars    == <<queue, heap>>

Senders == Producers \cup Threads

TypeOK ==
  /\ queue_exists \in BOOLEAN
  /\ queue \in Seq(Buffers) /\ Len(queue) <= QUEUE_SIZE
  /\ heap \in SUBSET Buffers
  /\ isconnect \in BOOLEAN /\ should_exit \in BOOLEAN /\ running \in BOOLEAN
  /\ init_mutex \in Callers \cup {Nobody}
  /\ tpc \in [Threads -> {"dead", "start", "offline", "connecting", "handshake",
                          "announce", "loop", "drain", "pop", "publish",
                          "reconnect", "release", "exit", "closing"}]
  /\ hand \in [Threads -> Buffers \cup {NoBuffer}]
  /\ announced \in 0 .. NAnnounce
  /\ spc \in [Senders -> {"idle", "full?", "popoldest", "push"}]
  /\ ipc \in [Callers -> {"idle", "lock", "check", "wait", "giveup", "clear",
                          "deinit", "arm", "create"}]

Init ==
  /\ queue_exists = FALSE
  /\ queue = <<>>
  /\ heap = {}
  /\ isconnect = FALSE /\ should_exit = FALSE /\ running = FALSE
  /\ init_mutex = Nobody
  /\ tpc = [t \in Threads |-> "dead"]
  /\ hand = [t \in Threads |-> NoBuffer]
  /\ announced = 0
  /\ spc = [s \in Senders |-> "idle"]
  /\ ipc = [i \in Callers |-> "idle"]

-----------------------------------------------------------------------------
(* UserMqttSendTopic. *)

(* Mutated: one message too many is announced. *)
MaySendOneTooMany(s) ==
  spc[s] = "idle" /\ (s \in Threads => tpc[s] = "announce" /\ announced <= NAnnounce)

MaySend(s) ==
  spc[s] = "idle" /\ (s \in Threads => tpc[s] = "announce" /\ announced < NAnnounce)

(* The client sends the state of every socket, the LED and the child lock. *)
Counted(s) == announced' = IF s \in Threads THEN announced + 1 ELSE announced

SendCheck(s) ==
  /\ MaySend(s)
  /\ Counted(s)
  /\ spc' = [spc EXCEPT ![s] = IF queue_exists /\ isconnect THEN "full?" ELSE "idle"]
  /\ UNCHANGED <<queue_exists, memVars, isconnect, should_exit, running, tpc, hand, initVars>>

(* Mutated: room is made whenever there is something in the queue. *)
SendFullIfNotEmpty(s) ==
  /\ spc[s] = "full?"
  /\ spc' = [spc EXCEPT ![s] = IF queue # <<>> THEN "popoldest" ELSE "push"]
  /\ UNCHANGED <<queue_exists, memVars, isconnect, should_exit, running, threadVars, initVars>>

SendFull(s) ==
  /\ spc[s] = "full?"
  /\ spc' = [spc EXCEPT ![s] = IF Len(queue) = QUEUE_SIZE THEN "popoldest" ELSE "push"]
  /\ UNCHANGED <<queue_exists, memVars, isconnect, should_exit, running, threadVars, initVars>>

SendPopOldest(s) ==
  /\ spc[s] = "popoldest"
  /\ spc' = [spc EXCEPT ![s] = "push"]
  /\ IF queue = <<>> THEN UNCHANGED memVars
     ELSE queue' = Tail(queue) /\ heap' = heap \ {Head(queue)}
  /\ UNCHANGED <<queue_exists, isconnect, should_exit, running, threadVars, initVars>>

(* calloc may find no block: the message is given up. *)
SendNoMemory(s) ==
  /\ spc[s] = "push"
  /\ spc' = [spc EXCEPT ![s] = "idle"]
  /\ UNCHANGED <<queue_exists, memVars, isconnect, should_exit, running, threadVars, initVars>>

NewBlock == CHOOSE b \in Buffers : b \notin heap

(* Mutated: when the push fails the block is not freed. *)
SendPushLeaking(s) ==
  /\ spc[s] = "push"
  /\ heap # Buffers
  /\ heap' = heap \cup {NewBlock}
  /\ queue' = IF Len(queue) < QUEUE_SIZE THEN Append(queue, NewBlock) ELSE queue
  /\ spc' = [spc EXCEPT ![s] = "idle"]
  /\ UNCHANGED <<queue_exists, isconnect, should_exit, running, threadVars, initVars>>

(* A push that finds the queue full fails, and the block is freed again. *)
SendPush(s) ==
  /\ spc[s] = "push"
  /\ heap # Buffers
  /\ IF Len(queue) < QUEUE_SIZE
       THEN queue' = Append(queue, NewBlock) /\ heap' = heap \cup {NewBlock}
       ELSE UNCHANGED memVars
  /\ spc' = [spc EXCEPT ![s] = "idle"]
  /\ UNCHANGED <<queue_exists, isconnect, should_exit, running, threadVars, initVars>>

Send(s) ==
  SendCheck(s) \/ SendFull(s) \/ SendPopOldest(s) \/ SendNoMemory(s) \/ SendPush(s)

-----------------------------------------------------------------------------
(* MqttClientThread. *)

Goes(t, from, to) == tpc[t] = from /\ tpc' = [tpc EXCEPT ![t] = to]

(* Creating the event file descriptor of the queue may fail. *)
ThreadStart(t) ==
  /\ Goes(t, "start", "offline") \/ Goes(t, "start", "exit")
  /\ isconnect' = FALSE
  /\ UNCHANGED <<queue_exists, memVars, should_exit, running, hand, announced, spc, initVars>>

(* Mutated: the exit request is not looked at while there is no network. *)
ThreadOfflineForEver(t) ==
  /\ Goes(t, "offline", "connecting")
  /\ isconnect' = FALSE
  /\ UNCHANGED <<queue_exists, memVars, should_exit, running, hand, announced, spc, initVars>>

(* The loop that waits for the network: three seconds' sleep, then a        *)
(* connection attempt, which may take any time.                             *)
ThreadOffline(t) ==
  /\ IF should_exit THEN Goes(t, "offline", "exit") /\ UNCHANGED isconnect
     ELSE Goes(t, "offline", "connecting") /\ isconnect' = FALSE
  /\ UNCHANGED <<queue_exists, memVars, should_exit, running, hand, announced, spc, initVars>>

ThreadConnectFails(t) ==
  /\ Goes(t, "connecting", "offline")
  /\ UNCHANGED <<queue_exists, memVars, isconnect, should_exit, running, hand, announced, spc, initVars>>

ThreadConnects(t) ==
  /\ Goes(t, "connecting", IF should_exit THEN "exit" ELSE "handshake")
  /\ UNCHANGED <<queue_exists, memVars, isconnect, should_exit, running, hand, announced, spc, initVars>>

(* MQTTClientInit, MQTTConnect and MQTTSubscribe. *)
ThreadHandshake(t) ==
  /\ \/ Goes(t, "handshake", "announce") /\ isconnect' = TRUE /\ announced' = 0
     \/ Goes(t, "handshake", "reconnect") /\ UNCHANGED <<isconnect, announced>>
  /\ UNCHANGED <<queue_exists, memVars, should_exit, running, hand, spc, initVars>>

ThreadAnnounced(t) ==
  /\ announced >= NAnnounce /\ spc[t] = "idle"
  /\ Goes(t, "announce", "loop")
  /\ UNCHANGED <<queue_exists, memVars, isconnect, should_exit, running, hand, announced, spc, initVars>>

(* One round of the loop: the server's data may fail to be read, or the     *)
(* ping to be answered; otherwise the queue is drained.                     *)
ThreadLoop(t) ==
  /\ IF should_exit THEN Goes(t, "loop", "reconnect") /\ UNCHANGED isconnect
     ELSE /\ isconnect' = TRUE
          /\ Goes(t, "loop", "drain") \/ Goes(t, "loop", "reconnect")
  /\ UNCHANGED <<queue_exists, memVars, should_exit, running, hand, announced, spc, initVars>>

ThreadDrain(t) ==
  /\ Goes(t, "drain", IF queue = <<>> THEN "loop" ELSE "pop")
  /\ UNCHANGED <<queue_exists, memVars, isconnect, should_exit, running, hand, announced, spc, initVars>>

(* require_string(p_send_msg, exit, ...): with nothing to pop the thread ends. *)
ThreadPop(t) ==
  /\ IF queue = <<>>
       THEN Goes(t, "pop", IF hand[t] = NoBuffer THEN "exit" ELSE "publish")
              /\ UNCHANGED <<queue, hand>>
       ELSE /\ Goes(t, "pop", "publish")
            /\ hand' = [hand EXCEPT ![t] = Head(queue)]
            /\ queue' = Tail(queue)
  /\ UNCHANGED <<queue_exists, heap, isconnect, should_exit, running, announced, spc, initVars>>

(* Publishing and closing the connection are network input and output: the  *)
(* client gives up the processor, every thread of its priority gets its     *)
(* turn, and one that was in the few instructions of UserMqttSendTopic      *)
(* leaves them. (One that enters them meanwhile might as well do so just    *)
(* after: the queue is the same.)                                           *)
NoSendUnderWay == \A s \in Senders : spc[s] = "idle"

ThreadPublish(t) ==
  /\ NoSendUnderWay
  /\ Goes(t, "publish", "drain") \/ Goes(t, "publish", "reconnect")
  /\ heap' = heap \ {hand[t]}
  /\ hand' = [hand EXCEPT ![t] = NoBuffer]
  /\ UNCHANGED <<queue_exists, queue, isconnect, should_exit, running, announced, spc, initVars>>

InQueue == {queue[i] : i \in 1 .. Len(queue)}

(* clear_mqtt_msg_send_queue: a message pushed while it pops the others     *)
(* stays or is popped too, as if it came after or before.                   *)
ThreadReconnect(t) ==
  /\ Goes(t, "reconnect", "release")
  /\ queue' = <<>> /\ heap' = heap \ InQueue
  /\ UNCHANGED <<queue_exists, isconnect, should_exit, running, hand, announced, spc, initVars>>

(* UserMqttClientRelease closes the connection; then the exit request is    *)
(* looked at, or the client sleeps and starts again.                        *)
ThreadRelease(t) ==
  /\ NoSendUnderWay
  /\ Goes(t, "release", IF should_exit THEN "exit" ELSE "offline")
  /\ isconnect' = FALSE
  /\ UNCHANGED <<queue_exists, memVars, should_exit, running, hand, announced, spc, initVars>>

(* Mutated: the exit path in the wrong order, the queue may go before isconnect. *)
ThreadExitEarly(t) ==
  /\ Goes(t, "exit", "closing")
  /\ running' = FALSE
  /\ UNCHANGED <<queue_exists, memVars, isconnect, should_exit, hand, announced, spc, initVars>>

ThreadExit(t) ==
  /\ Goes(t, "exit", "closing")
  /\ isconnect' = FALSE
  /\ UNCHANGED <<queue_exists, memVars, should_exit, running, hand, announced, spc, initVars>>

ThreadEnd(t) ==
  /\ NoSendUnderWay
  /\ Goes(t, "closing", "dead")
  /\ running' = FALSE
  /\ UNCHANGED <<queue_exists, memVars, isconnect, should_exit, hand, announced, spc, initVars>>

ThreadStep(t) ==
  \/ ThreadStart(t) \/ ThreadOffline(t) \/ ThreadConnectFails(t) \/ ThreadConnects(t)
  \/ ThreadHandshake(t) \/ ThreadAnnounced(t) \/ ThreadLoop(t) \/ ThreadDrain(t)
  \/ ThreadPop(t) \/ ThreadPublish(t) \/ ThreadReconnect(t) \/ ThreadRelease(t)
  \/ ThreadExit(t) \/ ThreadEnd(t)

-----------------------------------------------------------------------------
(* UserMqttDeInit and UserMqttInit. *)

Moves(i, from, to) == ipc[i] = from /\ ipc' = [ipc EXCEPT ![i] = to]
Returns(i, from) == Moves(i, from, "idle") /\ init_mutex' = Nobody

(* HttpSetMqttConfig: UserMqttDeInit, then UserMqttInit. *)
SaveConfig ==
  /\ Moves(Web, "idle", "lock")
  /\ should_exit' = TRUE
  /\ UNCHANGED <<queue_exists, memVars, isconnect, running, threadVars, spc, init_mutex>>

(* The key that opens the access point only calls UserMqttDeInit. *)
KeyConfigWifi ==
  /\ should_exit' = TRUE
  /\ UNCHANGED <<queue_exists, memVars, isconnect, running, threadVars, spc, init_mutex, ipc>>

(* The station has got its address: the LED timer calls UserMqttInit. *)
WifiConnected(i) ==
  /\ i # Web
  /\ Moves(i, "idle", "lock")
  /\ UNCHANGED <<queue_exists, memVars, isconnect, should_exit, running, threadVars, spc,
                 init_mutex>>

InitLock(i) ==
  /\ Moves(i, "lock", "check")
  /\ init_mutex = Nobody
  /\ init_mutex' = i
  /\ UNCHANGED <<queue_exists, memVars, isconnect, should_exit, running, threadVars, spc>>

InitCheck(i) ==
  /\ \/ /\ ~queue_exists
        /\ Moves(i, "check", "arm") /\ UNCHANGED init_mutex
     \/ /\ queue_exists /\ running /\ ~should_exit
        /\ Returns(i, "check")
     \/ /\ queue_exists /\ ~(running /\ ~should_exit)
        /\ Moves(i, "check", "wait") /\ UNCHANGED init_mutex
  /\ UNCHANGED <<queue_exists, memVars, isconnect, should_exit, running, threadVars, spc>>

(* Mutated: the client is rebuilt without waiting for the old thread. *)
InitWaitNot(i) ==
  /\ Moves(i, "wait", "clear")
  /\ UNCHANGED <<queue_exists, memVars, isconnect, should_exit, running, threadVars, spc,
                 init_mutex>>

(* The old thread is awaited for seven seconds. *)
InitWait(i) ==
  /\ IF running THEN Moves(i, "wait", "giveup") ELSE Moves(i, "wait", "clear")
  /\ UNCHANGED <<queue_exists, memVars, isconnect, should_exit, running, threadVars, spc,
                 init_mutex>>

InitGiveUp(i) ==
  /\ Returns(i, "giveup")
  /\ should_exit' = FALSE
  /\ UNCHANGED <<queue_exists, memVars, isconnect, running, threadVars, spc>>

InitClear(i) ==
  /\ Moves(i, "clear", "deinit")
  /\ queue' = <<>> /\ heap' = heap \ InQueue
  /\ UNCHANGED <<queue_exists, isconnect, should_exit, running, threadVars, spc,
                 init_mutex>>

InitDeinitQueue(i) ==
  /\ Moves(i, "deinit", "arm")
  /\ queue_exists' = FALSE
  /\ queue' = <<>>
  /\ UNCHANGED <<heap, isconnect, should_exit, running, threadVars, spc, init_mutex>>

InitArm(i) ==
  /\ Moves(i, "arm", "create")
  /\ should_exit' = FALSE
  /\ UNCHANGED <<queue_exists, memVars, isconnect, running, threadVars, spc, init_mutex>>

InitCreate(i) ==
  /\ Returns(i, "create")
  /\ queue_exists' = TRUE
  /\ running' = TRUE
  /\ \E t \in Threads : Goes(t, "dead", "start")
  /\ UNCHANGED <<memVars, isconnect, should_exit, hand, announced, spc>>

(* No memory for the queue, or for the thread. *)
InitCreateFails(i) ==
  /\ Returns(i, "create")
  /\ queue_exists' \in BOOLEAN
  /\ UNCHANGED <<memVars, isconnect, should_exit, running, threadVars, spc>>

InitStep(i) ==
  \/ InitLock(i) \/ InitCheck(i) \/ InitWait(i) \/ InitGiveUp(i) \/ InitClear(i)
  \/ InitDeinitQueue(i) \/ InitArm(i) \/ InitCreate(i) \/ InitCreateFails(i)

-----------------------------------------------------------------------------
Next ==
  \/ \E s \in Senders : Send(s)
  \/ \E t \in Threads : ThreadStep(t)
  \/ \E i \in Callers : InitStep(i) \/ WifiConnected(i)
  \/ SaveConfig
  \/ KeyConfigWifi

(* Threads of equal priority share the processor: one that can take a step  *)
(* takes it. Whether the broker answers is not promised.                    *)
Fairness ==
  /\ \A t \in Threads : WF_vars(ThreadStep(t))
  /\ \A s \in Senders : WF_vars(spc[s] # "idle" /\ Send(s))
  /\ \A t \in Threads : WF_vars(tpc[t] = "announce" /\ Send(t))

Spec == Init /\ [][Next]_vars /\ Fairness

-----------------------------------------------------------------------------
(* There is never a second client thread: two would share one MQTT session  *)
(* object, one socket and one queue.                                        *)
Alive(t) == tpc[t] # "dead"
OneClient == \A t, u \in Threads : Alive(t) /\ Alive(u) => t = u

(* The queue is there as long as anyone may touch it: the client thread,    *)
(* which also holds its event descriptor, and every thread that has seen    *)
(* isconnect.                                                               *)
QueueOutlivesUsers ==
  /\ \A t \in Threads : Alive(t) => queue_exists
  /\ \A s \in Senders : spc[s] # "idle" => queue_exists

(* Every allocated message block is in the queue or in the client's hand,   *)
(* and in one place only: none leaks when a push fails, when the queue is   *)
(* cleared or destroyed, and none is freed twice or used after it is freed. *)
HandOf(t) == IF hand[t] = NoBuffer THEN {} ELSE {hand[t]}
MemoryOwned ==
  /\ heap = InQueue \cup UNION {HandOf(t) : t \in Threads}
  /\ \A i, j \in 1 .. Len(queue) : i # j => queue[i] # queue[j]
  /\ \A t \in Threads : HandOf(t) \cap InQueue = {}
  /\ \A t \in Threads : hand[t] # NoBuffer <=> tpc[t] = "publish"

(* A request to stop is obeyed or withdrawn, wherever the client waits, once *)
(* the other threads stop sending: a queue that is refilled as fast as it is *)
(* drained keeps the client in its inner loop.                              *)
SendersQuiet == <>[][\A p \in Producers : ~Send(p)]_vars
ExitObeyed ==
  SendersQuiet => (should_exit /\ (\E t \in Threads : Alive(t))
                     ~> (~should_exit \/ \A t \in Threads : ~Alive(t)))

(* What require_string(p_send_msg, exit, "Wrong data point") asserts: the   *)
(* message the client has seen in the queue is still there when it takes it *)
(* out, although senders that have found the queue full take messages out   *)
(* too. If it were not, the client thread would end and nobody would start  *)
(* another.                                                                 *)
SeenMessageIsThere ==
  [][\A t \in Threads : tpc[t] = "pop" /\ tpc'[t] # "pop" => hand'[t] # NoBuffer]_vars
=============================================================================
