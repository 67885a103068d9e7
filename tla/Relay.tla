------------------------------- MODULE Relay -------------------------------
(***************************************************************************)
(* The central server: accepted connections, the three threads that serve  *)
(* each of them (device.cpp), the reference count that decides when a      *)
(* DeviceData is deleted (memory.cpp) and the registry through which a     *)
(* verified message is broadcast (network.cpp).                            *)
(*                                                                         *)
(* One step of the model is one critical section of the program, or the    *)
(* code between two of them.  itmes_mutex and network_devices_mutex are    *)
(* always released in the section that takes them, so they need no         *)
(* variable.  new_message_mutex is held across steps by the sender (while  *)
(* it sends) and by a broadcaster (between release and signal): `locked'.  *)
(***************************************************************************)
EXTENDS Naturals, Sequences, FiniteSets

CONSTANTS
  Device,         \* the DeviceData objects, one per accepted connection
  Fd,             \* the socket descriptors of the process
  NoDevice,       \* `target' of a receiver that is not broadcasting
  NoFd,           \* `sockfd' of a connection not accepted yet
  MaxMessages,    \* bound: verified data messages read from each connection
  MayEnd,         \* bound: the connections that may end
  SpawnMayFail    \* may pthread_create fail?

ASSUME RelayAssumption ==
  /\ IsFiniteSet(Device)
  /\ NoDevice \notin Device
  /\ NoFd \notin Fd
  /\ MaxMessages \in [Device -> Nat]
  /\ MayEnd \subseteq Device
  /\ SpawnMayFail \in BOOLEAN

VARIABLES
  alloc,             \* where the DeviceData is in its life
  sockfd,            \* DeviceData.sockfd
  openFds,           \* descriptors open in the process (kernel)
  memory_pointers,   \* DeviceData.memory_pointers
  connection_state,  \* DeviceData.connection_state
  sending_buffer,    \* DeviceData.sending_buffer, its data messages
  ping_queued,       \* does sending_buffer hold a ping as well?
  locked,            \* is new_message_mutex held between two steps?
  network_devices,   \* network_devices[0], the only network the code admits
  mainPc, recvPc, sendPc,   \* where the three threads of a device are
  targets,           \* current_network_devices of a broadcast, still referenced
  target,            \* current_network_devices[i], the one being served
  running,           \* has the process not been killed?
  received,          \* number of data messages the receiver has verified
  due,               \* history: messages whose broadcast listed the device
  handed,            \* history: messages given to send_message, in order
  uaf                \* history: accesses to a deleted DeviceData

memoryVars == <<alloc, openFds, memory_pointers, uaf>>
queueVars  == <<sending_buffer, ping_queued, handed>>
threadVars == <<mainPc, recvPc, sendPc>>
castVars   == <<targets, target, received, due>>
vars == <<memoryVars, queueVars, threadVars, castVars, sockfd, locked,
          connection_state, network_devices, running>>

(* A data message is its origin and its number on that connection.         *)
Message == [origin : Device, seq : Nat]

MainPc == {"none", "start", "ping", "sleep", "release", "leaked", "done"}
RecvPc == {"none", "start", "read", "insertPing", "insertData", "collect",
           "push", "signal", "dropRegistry", "ending", "notify", "release",
           "done"}
SendPc == {"none", "start", "lock", "waiting", "woken", "sending", "check",
           "release", "lost", "done"}

(* The way an access can reach a DeviceData that was already deleted.      *)
Access == {"unlock", "acquire", "signal"}

TypeOK ==
  /\ alloc \in [Device -> {"none", "listed", "live", "freed"}]
  /\ sockfd \in [Device -> Fd \cup {NoFd}]
  /\ openFds \in SUBSET Fd
  /\ memory_pointers \in [Device -> Nat]
  /\ connection_state \in [Device -> {"INTIALIZATION", "WORKING", "ENDED"}]
  /\ sending_buffer \in [Device -> Seq(Message)]
  /\ ping_queued \in [Device -> BOOLEAN]
  /\ locked \in [Device -> BOOLEAN]
  /\ network_devices \in SUBSET Device
  /\ mainPc \in [Device -> MainPc]
  /\ recvPc \in [Device -> RecvPc]
  /\ sendPc \in [Device -> SendPc]
  /\ targets \in [Device -> SUBSET Device]
  /\ target \in [Device -> Device \cup {NoDevice}]
  /\ running \in BOOLEAN
  /\ received \in [Device -> Nat]
  /\ due \in [Device -> SUBSET Message]
  /\ handed \in [Device -> Seq(Message)]
  /\ uaf \in SUBSET (Access \X Device)

Init ==
  /\ alloc = [d \in Device |-> "none"]
  /\ sockfd = [d \in Device |-> NoFd]
  /\ openFds = {}
  /\ memory_pointers = [d \in Device |-> 0]
  /\ connection_state = [d \in Device |-> "INTIALIZATION"]
  /\ sending_buffer = [d \in Device |-> <<>>]
  /\ ping_queued = [d \in Device |-> FALSE]
  /\ locked = [d \in Device |-> FALSE]
  /\ network_devices = {}
  /\ mainPc = [d \in Device |-> "none"]
  /\ recvPc = [d \in Device |-> "none"]
  /\ sendPc = [d \in Device |-> "none"]
  /\ targets = [d \in Device |-> {}]
  /\ target = [d \in Device |-> NoDevice]
  /\ running = TRUE
  /\ received = [d \in Device |-> 0]
  /\ due = [d \in Device |-> {}]
  /\ handed = [d \in Device |-> <<>>]
  /\ uaf = {}

-----------------------------------------------------------------------------
(* A thread takes a step only while the process lives.                     *)
MainAt(d, pc) == running /\ mainPc[d] = pc
RecvAt(d, pc) == running /\ recvPc[d] = pc
SendAt(d, pc) == running /\ sendPc[d] = pc

-----------------------------------------------------------------------------
(* memory.cpp and the condition variable                                   *)

(* Operators named X_Y are X with a slip Y that the checks must notice.    *)
Acquire_Uncounted(d) == UNCHANGED memoryVars

(* acquire(d) of a DeviceData the caller can reach.                        *)
Acquire(d) ==
  /\ memory_pointers' = [memory_pointers EXCEPT ![d] = @ + 1]
  /\ UNCHANGED <<alloc, openFds, uaf>>

Release_Early(d) ==
  /\ memory_pointers' = [memory_pointers EXCEPT ![d] = @ - 1]
  /\ openFds' = IF memory_pointers[d] = 2 THEN openFds \ {sockfd[d]} ELSE openFds
  /\ alloc' = [alloc EXCEPT ![d] = IF memory_pointers[d] = 2 THEN "freed" ELSE @]
  /\ UNCHANGED uaf

Release_AlwaysCloses(d) ==
  /\ memory_pointers' = [memory_pointers EXCEPT ![d] = @ - 1]
  /\ openFds' = openFds \ {sockfd[d]}
  /\ alloc' = [alloc EXCEPT ![d] = IF memory_pointers[d] = 1 THEN "freed" ELSE @]
  /\ UNCHANGED uaf

(* release(d): the last reference closes the socket and deletes the        *)
(* object, and the function then unlocks the mutex inside it.              *)
Release(d) ==
  /\ memory_pointers' = [memory_pointers EXCEPT ![d] = @ - 1]
  /\ \/ /\ memory_pointers[d] # 1
        /\ UNCHANGED <<alloc, openFds, uaf>>
     \/ /\ memory_pointers[d] = 1
        /\ openFds' = openFds \ {sockfd[d]}
        /\ alloc' = [alloc EXCEPT ![d] = "freed"]
        /\ uaf' = uaf \cup {<<"unlock", d>>}

(* pthread_cond_signal(new_message_condition): only the sender waits, and  *)
(* a signal that finds nobody waiting is lost.                             *)
Signalled(d) ==
  sendPc' = [sendPc EXCEPT ![d] = IF @ = "waiting" THEN "woken" ELSE @]

-----------------------------------------------------------------------------
(* server.cpp and main.cpp: accepting a connection and starting its thread *)

(* start_server: accept returns a descriptor the process has not open, and *)
(* the connection goes on connected_devices (alloc = "listed").            *)
Accept(d) ==
  /\ running /\ alloc[d] = "none"
  /\ \E fd \in Fd \ openFds :
       /\ openFds' = openFds \cup {fd}
       /\ sockfd' = [sockfd EXCEPT ![d] = fd]
  /\ alloc' = [alloc EXCEPT ![d] = "listed"]
  /\ UNCHANGED <<memory_pointers, uaf, queueVars, threadVars, castVars, locked,
                 connection_state, network_devices, running>>

(* main: every listed connection gets a DeviceData and a handler thread in *)
(* one critical section; a pthread_create that fails goes unnoticed, and   *)
(* its DeviceData then has no thread at all.                               *)
Dispatch ==
  LET listed == {d \in Device : alloc[d] = "listed"} IN
  /\ running /\ listed # {}
  /\ \E failed \in SUBSET listed :
       /\ failed # {} => SpawnMayFail
       /\ mainPc' = [d \in Device |->
            IF d \in listed \ failed THEN "start" ELSE mainPc[d]]
  /\ alloc' = [d \in Device |-> IF d \in listed THEN "live" ELSE alloc[d]]
  /\ UNCHANGED <<openFds, memory_pointers, uaf, queueVars, recvPc, sendPc,
                 castVars, sockfd, locked, connection_state, network_devices,
                 running>>

-----------------------------------------------------------------------------
(* handle_device: starts the other two threads, then pings every 5 seconds *)

(* The thread takes its reference and makes the two pthread_create calls;  *)
(* nobody else knows the object before.  A call that fails returns at      *)
(* once, so this thread never gives its reference back ("leaked").         *)
MainStart(d) ==
  /\ MainAt(d, "start")
  /\ Acquire(d)
  /\ \/ /\ mainPc' = [mainPc EXCEPT ![d] = "ping"]
        /\ sendPc' = [sendPc EXCEPT ![d] = "start"]
        /\ recvPc' = [recvPc EXCEPT ![d] = "start"]
     \/ /\ SpawnMayFail
        /\ mainPc' = [mainPc EXCEPT ![d] = "leaked"]
        /\ sendPc' \in {sendPc, [sendPc EXCEPT ![d] = "start"]}
        /\ UNCHANGED recvPc
  /\ UNCHANGED <<queueVars, castVars, sockfd, locked, connection_state,
                 network_devices, running>>

MainPing_Silent(d) ==
  /\ MainAt(d, "ping") /\ ~locked[d]
  /\ ping_queued' = [ping_queued EXCEPT ![d] = TRUE]
  /\ mainPc' = [mainPc EXCEPT ![d] = "sleep"]
  /\ UNCHANGED <<memoryVars, sending_buffer, handed, recvPc, sendPc, castVars,
                 sockfd, locked, connection_state, network_devices, running>>

MainPing_KeepsLock(d) ==
  /\ MainAt(d, "ping") /\ ~locked[d]
  /\ ping_queued' = [ping_queued EXCEPT ![d] = TRUE]
  /\ locked' = [locked EXCEPT ![d] = TRUE]
  /\ Signalled(d)
  /\ mainPc' = [mainPc EXCEPT ![d] = "sleep"]
  /\ UNCHANGED <<memoryVars, sending_buffer, handed, recvPc, castVars,
                 sockfd, connection_state, network_devices, running>>

MainPing(d) ==
  /\ MainAt(d, "ping") /\ ~locked[d]
  /\ ping_queued' = [ping_queued EXCEPT ![d] = TRUE]
  /\ Signalled(d)
  /\ mainPc' = [mainPc EXCEPT ![d] = "sleep"]
  /\ UNCHANGED <<memoryVars, sending_buffer, handed, recvPc, castVars,
                 sockfd, locked, connection_state, network_devices, running>>

MainCheck_NotWorking(d) ==
  /\ MainAt(d, "sleep")
  /\ mainPc' = [mainPc EXCEPT ![d] =
                  IF connection_state[d] # "WORKING" THEN "release" ELSE "ping"]
  /\ UNCHANGED <<memoryVars, queueVars, recvPc, sendPc, castVars, sockfd,
                 locked, connection_state, network_devices, running>>

(* After the sleep: the state is read and decides on another round.        *)
MainCheck(d) ==
  /\ MainAt(d, "sleep")
  /\ mainPc' = [mainPc EXCEPT ![d] =
                  IF connection_state[d] = "ENDED" THEN "release" ELSE "ping"]
  /\ UNCHANGED <<memoryVars, queueVars, recvPc, sendPc, castVars, sockfd,
                 locked, connection_state, network_devices, running>>

MainRelease(d) ==
  /\ MainAt(d, "release")
  /\ mainPc' = [mainPc EXCEPT ![d] = "done"]
  /\ Release(d)
  /\ UNCHANGED <<queueVars, recvPc, sendPc, castVars, sockfd, locked,
                 connection_state, network_devices, running>>

-----------------------------------------------------------------------------
(* handle_device_receiver and handle_recvd_message                         *)

RecvStart(d) ==
  /\ RecvAt(d, "start")
  /\ recvPc' = [recvPc EXCEPT ![d] = "read"]
  /\ Acquire(d)
  /\ UNCHANGED <<queueVars, mainPc, sendPc, castVars, sockfd, locked,
                 connection_state, network_devices, running>>

(* The first verified message registers the device: WORKING is set and     *)
(* add_device_to_network takes the registry's reference.  The sections are *)
(* one step: no other thread tells INTIALIZATION from WORKING.             *)
Verified(d, first, next) ==
  /\ RecvAt(d, "read")
  /\ \/ /\ connection_state[d] = "INTIALIZATION"
        /\ connection_state' = [connection_state EXCEPT ![d] = "WORKING"]
        /\ Acquire(d)
        /\ recvPc' = [recvPc EXCEPT ![d] = first]
     \/ /\ connection_state[d] # "INTIALIZATION"
        /\ recvPc' = [recvPc EXCEPT ![d] = next]
        /\ UNCHANGED <<connection_state, memoryVars>>
  /\ UNCHANGED <<queueVars, mainPc, sendPc, targets, target, due, sockfd,
                 locked, network_devices, running>>

RecvPing(d) ==
  /\ Verified(d, "insertPing", "read")
  /\ UNCHANGED received

RecvData(d) ==
  /\ received[d] < MaxMessages[d]
  /\ received' = [received EXCEPT ![d] = @ + 1]
  /\ Verified(d, "insertData", "collect")

(* The registry is a set of devices that compares them by sockfd, so one   *)
(* with an equal descriptor would make an insertion do nothing, and be     *)
(* erased in place of another.                                             *)
Insert_OnePerNetwork(d) == IF network_devices = {} THEN {d} ELSE network_devices
Insert(d) ==
  IF \E e \in network_devices : sockfd[e] = sockfd[d]
  THEN network_devices ELSE network_devices \cup {d}

Erase_Forgotten(d) == network_devices
Erase(d) == {e \in network_devices : sockfd[e] # sockfd[d]}

RecvInsert(d) ==
  /\ running /\ recvPc[d] \in {"insertPing", "insertData"}
  /\ network_devices' = Insert(d)
  /\ recvPc' = [recvPc EXCEPT ![d] = IF @ = "insertPing" THEN "read" ELSE "collect"]
  /\ UNCHANGED <<memoryVars, queueVars, mainPc, sendPc, castVars, sockfd,
                 locked, connection_state, running>>

CurrentMessage(d) == [origin |-> d, seq |-> received[d]]

(* The head of the loop over current_network_devices: one more of the      *)
(* devices left, in whatever order the set lists them, or back to reading. *)
NextTarget(d, left) ==
  /\ target' \in {[target EXCEPT ![d] = t] :
                    t \in IF left = {} THEN {NoDevice} ELSE left}
  /\ recvPc' = [recvPc EXCEPT ![d] = IF left = {} THEN "read" ELSE "push"]

AcquireAll_Uncounted(D) == UNCHANGED memoryVars
AcquireAll(D) ==
  /\ memory_pointers' = [d \in Device |->
       IF d \in D THEN memory_pointers[d] + 1 ELSE memory_pointers[d]]
  /\ UNCHANGED <<alloc, openFds, uaf>>

(* broadcast_to_network, under network_devices_mutex: list the devices and *)
(* take a reference to each.                                               *)
Collect(d) ==
  /\ RecvAt(d, "collect")
  /\ AcquireAll(network_devices)
  /\ targets' = [targets EXCEPT ![d] = network_devices]
  /\ due' = [e \in Device |->
       IF e \in network_devices THEN due[e] \cup {CurrentMessage(d)} ELSE due[e]]
  /\ NextTarget(d, network_devices)
  /\ UNCHANGED <<queueVars, mainPc, sendPc, received, sockfd, locked,
                 connection_state, network_devices, running>>

Push_Unlocked(d) ==
  LET t == target[d] IN
  /\ RecvAt(d, "push")
  /\ locked' = [locked EXCEPT ![t] = TRUE]
  /\ sending_buffer' = [sending_buffer EXCEPT ![t] = Append(@, CurrentMessage(d))]
  /\ Release(t)
  /\ targets' = [targets EXCEPT ![d] = @ \ {t}]
  /\ recvPc' = [recvPc EXCEPT ![d] = "signal"]
  /\ UNCHANGED <<ping_queued, handed, mainPc, sendPc, target, received, due,
                 sockfd, connection_state, network_devices, running>>

(* The loop body up to release: lock, push_back, give the reference back.  *)
Push(d) ==
  LET t == target[d] IN
  /\ RecvAt(d, "push") /\ ~locked[t]
  /\ locked' = [locked EXCEPT ![t] = TRUE]
  /\ sending_buffer' = [sending_buffer EXCEPT ![t] = Append(@, CurrentMessage(d))]
  /\ Release(t)
  /\ targets' = [targets EXCEPT ![d] = @ \ {t}]
  /\ recvPc' = [recvPc EXCEPT ![d] = "signal"]
  /\ UNCHANGED <<ping_queued, handed, mainPc, sendPc, target, received, due,
                 sockfd, connection_state, network_devices, running>>

(* The rest of the body: signal and unlock through the pointer that was    *)
(* released.  If the object is gone, the access may go unnoticed or kill   *)
(* the process.                                                            *)
SignalTarget(d) ==
  LET t == target[d] IN
  /\ RecvAt(d, "signal")
  /\ Signalled(t)
  /\ locked' = [locked EXCEPT ![t] = FALSE]
  /\ \/ /\ alloc[t] = "live"
        /\ UNCHANGED <<uaf, running>>
     \/ /\ alloc[t] # "live"
        /\ uaf' = uaf \cup {<<"signal", t>>}
        /\ running' \in BOOLEAN
  /\ NextTarget(d, targets[d])
  /\ UNCHANGED <<alloc, openFds, memory_pointers, queueVars, mainPc, targets,
                 received, due, sockfd, connection_state, network_devices>>

(* receive_message returned -1 (peer closed, reset, 15 s of silence, a     *)
(* message that takes too long), or 30 s passed without a verified one:    *)
(* remove_device_from_network, if the device was ever registered.          *)
RecvFail(d) ==
  /\ RecvAt(d, "read") /\ d \in MayEnd
  /\ \/ /\ connection_state[d] = "WORKING"
        /\ network_devices' = Erase(d)
        /\ recvPc' = [recvPc EXCEPT ![d] = "dropRegistry"]
     \/ /\ connection_state[d] # "WORKING"
        /\ recvPc' = [recvPc EXCEPT ![d] = "ending"]
        /\ UNCHANGED network_devices
  /\ UNCHANGED <<memoryVars, queueVars, mainPc, sendPc, castVars, sockfd,
                 locked, connection_state, running>>

RecvEnd_KeepsReference(d) ==
  /\ RecvAt(d, "dropRegistry") \/ RecvAt(d, "ending")
  /\ connection_state' = [connection_state EXCEPT ![d] = "ENDED"]
  /\ recvPc' = [recvPc EXCEPT ![d] = "notify"]
  /\ UNCHANGED <<memoryVars, queueVars, mainPc, sendPc, castVars, sockfd,
                 locked, network_devices, running>>

(* Its release of the registry's reference, if it held one, and the        *)
(* section that sets CONNECTION_ENDED; the receiver's own reference keeps  *)
(* the object meanwhile.                                                   *)
RecvEnd(d) ==
  /\ \/ /\ RecvAt(d, "dropRegistry")
        /\ Release(d)
     \/ /\ RecvAt(d, "ending")
        /\ UNCHANGED memoryVars
  /\ connection_state' = [connection_state EXCEPT ![d] = "ENDED"]
  /\ recvPc' = [recvPc EXCEPT ![d] = "notify"]
  /\ UNCHANGED <<queueVars, mainPc, sendPc, castVars, sockfd, locked,
                 network_devices, running>>

RecvNotify_Silent(d) ==
  /\ RecvAt(d, "notify") /\ ~locked[d]
  /\ recvPc' = [recvPc EXCEPT ![d] = "release"]
  /\ UNCHANGED <<memoryVars, queueVars, mainPc, sendPc, castVars, sockfd,
                 locked, connection_state, network_devices, running>>

RecvNotify(d) ==
  /\ RecvAt(d, "notify") /\ ~locked[d]
  /\ Signalled(d)
  /\ recvPc' = [recvPc EXCEPT ![d] = "release"]
  /\ UNCHANGED <<memoryVars, queueVars, mainPc, castVars, sockfd, locked,
                 connection_state, network_devices, running>>

RecvRelease(d) ==
  /\ RecvAt(d, "release")
  /\ recvPc' = [recvPc EXCEPT ![d] = "done"]
  /\ Release(d)
  /\ UNCHANGED <<queueVars, mainPc, sendPc, castVars, sockfd, locked,
                 connection_state, network_devices, running>>

-----------------------------------------------------------------------------
(* handle_device_sender                                                    *)

(* The thread takes its own reference when it first runs.  If the object   *)
(* was deleted before that, the access may kill the process or leave the   *)
(* thread blocked on the memory it found ("lost").                         *)
SenderStart(d) ==
  /\ SendAt(d, "start")
  /\ \/ /\ alloc[d] = "live"
        /\ Acquire(d)
        /\ sendPc' = [sendPc EXCEPT ![d] = "lock"]
        /\ UNCHANGED running
     \/ /\ alloc[d] # "live"
        /\ uaf' = uaf \cup {<<"acquire", d>>}
        /\ sendPc' = [sendPc EXCEPT ![d] = "lost"]
        /\ running' \in BOOLEAN
        /\ UNCHANGED <<alloc, openFds, memory_pointers>>
  /\ UNCHANGED <<queueVars, mainPc, recvPc, castVars, sockfd, locked,
                 connection_state, network_devices>>

(* pthread_cond_wait, entered without looking at the buffer or the state.  *)
SenderWait(d) ==
  /\ SendAt(d, "lock") /\ ~locked[d]
  /\ sendPc' = [sendPc EXCEPT ![d] = "waiting"]
  /\ UNCHANGED <<memoryVars, queueVars, mainPc, recvPc, castVars, sockfd,
                 locked, connection_state, network_devices, running>>

(* POSIX lets pthread_cond_wait return without a signal.                   *)
SpuriousWakeup(d) ==
  /\ SendAt(d, "waiting")
  /\ sendPc' = [sendPc EXCEPT ![d] = "woken"]
  /\ UNCHANGED <<memoryVars, queueVars, mainPc, recvPc, castVars, sockfd,
                 locked, connection_state, network_devices, running>>

SenderRelock(d) ==
  /\ SendAt(d, "woken") /\ ~locked[d]
  /\ locked' = [locked EXCEPT ![d] = TRUE]
  /\ sendPc' = [sendPc EXCEPT ![d] = "sending"]
  /\ UNCHANGED <<memoryVars, queueVars, mainPc, recvPc, castVars, sockfd,
                 connection_state, network_devices, running>>

SendAll_First(d) ==
  /\ handed' = [handed EXCEPT ![d] =
                  IF sending_buffer[d] = <<>> THEN @
                  ELSE Append(@, Head(sending_buffer[d]))]
  /\ sending_buffer' = [sending_buffer EXCEPT ![d] = <<>>]
  /\ ping_queued' = [ping_queued EXCEPT ![d] = FALSE]

(* send_message for every message, whatever it returns, then clear.        *)
SendAll(d) ==
  /\ handed' = [handed EXCEPT ![d] = @ \o sending_buffer[d]]
  /\ sending_buffer' = [sending_buffer EXCEPT ![d] = <<>>]
  /\ ping_queued' = [ping_queued EXCEPT ![d] = FALSE]

SenderFlush(d) ==
  /\ SendAt(d, "sending")
  /\ SendAll(d)
  /\ locked' = [locked EXCEPT ![d] = FALSE]
  /\ sendPc' = [sendPc EXCEPT ![d] = "check"]
  /\ UNCHANGED <<memoryVars, mainPc, recvPc, castVars, sockfd,
                 connection_state, network_devices, running>>

(* The peer may reset the connection at any time, and send then raises     *)
(* SIGPIPE, which nothing in the program blocks, handles or suppresses:    *)
(* the process is killed.                                                  *)
SenderKilled(d) ==
  /\ SendAt(d, "sending")
  /\ sending_buffer[d] # <<>> \/ ping_queued[d]
  /\ running' = FALSE
  /\ UNCHANGED <<memoryVars, queueVars, threadVars, castVars, sockfd, locked,
                 connection_state, network_devices>>

SenderCheck(d) ==
  /\ SendAt(d, "check")
  /\ sendPc' = [sendPc EXCEPT ![d] =
                  IF connection_state[d] = "ENDED" THEN "release" ELSE "lock"]
  /\ UNCHANGED <<memoryVars, queueVars, mainPc, recvPc, castVars, sockfd,
                 locked, connection_state, network_devices, running>>

SenderRelease(d) ==
  /\ SendAt(d, "release")
  /\ sendPc' = [sendPc EXCEPT ![d] = "done"]
  /\ Release(d)
  /\ UNCHANGED <<queueVars, mainPc, recvPc, castVars, sockfd, locked,
                 connection_state, network_devices, running>>

-----------------------------------------------------------------------------
Main(d) == MainStart(d) \/ MainPing(d) \/ MainCheck(d) \/ MainRelease(d)

(* The receiver once it has something to do, and what its peer causes.     *)
Receiver(d) ==
  \/ RecvStart(d) \/ RecvInsert(d) \/ Collect(d) \/ Push(d)
  \/ SignalTarget(d) \/ RecvEnd(d) \/ RecvNotify(d) \/ RecvRelease(d)
Peer(d) == RecvPing(d) \/ RecvData(d) \/ RecvFail(d) \/ SenderKilled(d)

Sender(d) ==
  \/ SenderStart(d) \/ SenderWait(d) \/ SenderRelock(d) \/ SenderFlush(d)
  \/ SenderCheck(d) \/ SenderRelease(d)

(* Nothing is left to run: the process was killed, or every connection of  *)
(* this bounded instance has been served.                                  *)
Finished ==
  /\ \/ ~running
     \/ \A d \in Device :
          /\ mainPc[d] \in {"none", "leaked", "done"}
          /\ recvPc[d] \in {"none", "done"}
          /\ sendPc[d] \in {"none", "waiting", "lost", "done"}
          /\ alloc[d] # "listed"
  /\ UNCHANGED vars

Next ==
  \/ Dispatch
  \/ \E d \in Device :
       \/ Accept(d) \/ Main(d) \/ Receiver(d) \/ Sender(d)
       \/ Peer(d) \/ SpuriousWakeup(d)
  \/ Finished

Spec == Init /\ [][Next]_vars

(* The scheduler runs every thread that can run, and a thread that waits   *)
(* for a mutex other threads take again and again gets it in the end.      *)
(* SenderFlush: send returns, because the peer reads or its connection     *)
(* breaks.  Nothing obliges a client to connect or to send, a connection   *)
(* to end, or pthread_cond_wait to return without a signal.                *)
Fairness ==
  /\ WF_vars(Dispatch)
  /\ \A d \in Device :
       SF_vars(Main(d)) /\ SF_vars(Receiver(d)) /\ SF_vars(Sender(d))

FairSpec == Spec /\ Fairness

-----------------------------------------------------------------------------
(* Who may use a DeviceData                                                *)

(* A user of a DeviceData: one of its own threads, the registry, or the    *)
(* broadcast the receiver of some device is making.                        *)
User == {"main", "sender", "receiver", "registry", "broadcast"} \X Device

(* The code between an acquire and its release.                            *)
MainHolds(d) == mainPc[d] \in {"ping", "sleep", "release", "leaked"}
SenderHolds(d) ==
  sendPc[d] \in {"lock", "waiting", "woken", "sending", "check", "release"}
ReceiverHolds(d) == recvPc[d] \notin {"none", "start", "done"}
RegistryHolds(d) == \/ recvPc[d] \in {"insertPing", "insertData", "dropRegistry"}
                    \/ d \in network_devices

Holds(u, d) ==
  \/ u = <<"main", d>> /\ MainHolds(d)
  \/ u = <<"sender", d>> /\ SenderHolds(d)
  \/ u = <<"receiver", d>> /\ ReceiverHolds(d)
  \/ u = <<"registry", d>> /\ RegistryHolds(d)
  \/ u[1] = "broadcast" /\ d \in targets[u[2]]

Holders(d) == {u \in User : Holds(u, d)}

(* The objects of DeviceLifetime.                                          *)
Phase == [d \in Device |-> IF alloc[d] = "listed" THEN "none" ELSE alloc[d]]
Users == [d \in Device |-> Holders(d)]

Lifetime == INSTANCE DeviceLifetime WITH phase <- Phase, users <- Users

-----------------------------------------------------------------------------
(* What a broadcast delivers                                               *)

(* The receiver of r has read a data message and not listed anyone for it. *)
Fresh(r) == recvPc[r] \in {"insertData", "collect"}

(* What was queued for d since it connected, sent or not.                  *)
Out(d) == handed[d] \o sending_buffer[d]

(* The casts, channels and deliveries of Multicast.                        *)
CastCount == [r \in Device |-> IF Fresh(r) THEN received[r] - 1 ELSE received[r]]
Channel == [r \in Device |-> [d \in Device |->
              IF d \in targets[r] THEN <<received[r]>> ELSE <<>>]]
Given == [d \in Device |-> Out(d)]

Network == INSTANCE Multicast
  WITH members <- network_devices, casts <- CastCount, channel <- Channel, given <- Given

-----------------------------------------------------------------------------
(* Safety                                                                  *)

(* memory_pointers is exactly the number of users of the object, so it     *)
(* reaches zero when the last of the threads, the registry and the         *)
(* broadcasts in flight gives its reference back, and never before.        *)
RefCount ==
  \A d \in Device : alloc[d] = "live" => memory_pointers[d] = Cardinality(Holders(d))

(* What release deletes nobody still uses: no thread past its acquire, no  *)
(* registry entry and no broadcast target is an object that is not live.   *)
UsersAreSafe == \A d \in Device : Holders(d) # {} => alloc[d] = "live"

(* The reference counting of memory.cpp, with the threads, the registry    *)
(* and the broadcasts as its users, implements what memory.h promises: a   *)
(* user joins only a live object, whatever is freed is freed by the last   *)
(* user to leave it, and nobody gives back a reference twice.              *)
CountingImplementsLifetime == Lifetime!Spec

(* How the threads of a device stand to each other, on which the three     *)
(* invariants above rest: the main thread starts the others and outlasts   *)
(* the connection, the receiver alone moves the state, and a broadcast has *)
(* targets exactly while it is in its loop.                                *)
ThreadsInStep ==
  \A d \in Device :
    /\ alloc[d] \in {"none", "listed"} => mainPc[d] = "none" /\ memory_pointers[d] = 0
    /\ mainPc[d] = "start" => alloc[d] = "live"
    /\ mainPc[d] \in {"none", "start"} => sendPc[d] = "none"
    /\ mainPc[d] \in {"none", "start", "leaked"} => recvPc[d] = "none"
    /\ mainPc[d] \in {"release", "done"} => connection_state[d] = "ENDED"
    /\ connection_state[d] = "ENDED" <=> recvPc[d] \in {"notify", "release", "done"}
    /\ recvPc[d] \in {"none", "start", "ending"} => connection_state[d] = "INTIALIZATION"
    /\ recvPc[d] \in {"insertPing", "insertData", "collect", "push", "signal", "dropRegistry"}
         => connection_state[d] = "WORKING"
    /\ recvPc[d] = "push" => target[d] \in targets[d]
    /\ recvPc[d] = "signal" => target[d] \in Device
    /\ targets[d] # {} => recvPc[d] \in {"push", "signal"}
    /\ recvPc[d] = "none" => \A r \in Device : d \notin targets[r]

(* Descriptors follow the objects: a connection keeps its descriptor open  *)
(* until its object is deleted, and no two connections share one, although *)
(* the kernel reuses them.  The registry, which compares devices by        *)
(* sockfd, and the sender, which writes to it, both rely on this.          *)
DescriptorsDistinct ==
  LET connected == {d \in Device : alloc[d] \in {"listed", "live"}} IN
  /\ \A d \in connected : sockfd[d] \in openFds
  /\ \A d, e \in connected : sockfd[d] = sockfd[e] => d = e

(* network.h: a device that was added stays in the registry, "to be used   *)
(* in the future in any broadcast", until it is removed; a device whose    *)
(* first message was not verified, or that was removed, is not in it.      *)
WorkingIsRegistered ==
  \A d \in Device :
    d \in network_devices <=>
      /\ connection_state[d] = "WORKING"
      /\ recvPc[d] \in {"read", "collect", "push", "signal"}

(* new_message_mutex is held by one thread at a time, the device's sender  *)
(* or one broadcaster, and is free when none of them is inside.            *)
MutexOwner ==
  \A d \in Device :
    LET casting == {r \in Device : recvPc[r] = "signal" /\ target[r] = d} IN
    /\ locked[d] <=> (sendPc[d] = "sending" \/ casting # {})
    /\ ~(sendPc[d] = "sending" /\ casting # {})
    /\ \A r, s \in casting : r = s

(* Nothing broadcast is lost inside the server: every message whose        *)
(* broadcast listed the device is still to be pushed, in its buffer, or    *)
(* was given to send_message; and nothing else ever is.                    *)
NothingLost ==
  \A d \in Device :
    due[d] = {CurrentMessage(r) : r \in {x \in Device : d \in targets[x]}}
             \cup {sending_buffer[d][i] : i \in DOMAIN sending_buffer[d]}
             \cup {handed[d][i] : i \in DOMAIN handed[d]}

(* The messages of one origin reach a device in the order they were sent   *)
(* and once each, whatever the interleaving of the broadcasters.           *)
InOrderOnce ==
  \A d \in Device :
    LET out == Out(d) IN
    \A i, j \in DOMAIN out :
      i < j /\ out[i].origin = out[j].origin => out[i].seq < out[j].seq

(* The registry, the broadcasters and the sending buffers implement what   *)
(* network.h promises, in every interleaving: a message is given once, in  *)
(* the order of its origin, to exactly the devices that were in the        *)
(* network when it was broadcast.                                          *)
BroadcastImplementsMulticast == Network!Spec

(* network.h: a device that was removed "can't recieve any future          *)
(* broadcast": once its connection has ended no broadcast lists it.        *)
NoFutureBroadcast ==
  [][\A d \in Device : connection_state[d] = "ENDED" => due'[d] = due[d]]_vars

-----------------------------------------------------------------------------
(* Liveness, under FairSpec: while the process lives                       *)

(* What is in a sending buffer is sent, or the connection ends.  The       *)
(* sender's wait has no predicate, so a message may be pushed while nobody *)
(* waits; the pings of the main thread are what wakes the sender for it.   *)
BufferIsFlushed ==
  \A d \in Device :
    alloc[d] = "live" /\ sending_buffer[d] # <<>> ~>
      sending_buffer[d] = <<>> \/ connection_state[d] = "ENDED" \/ ~running

(* A verified data message is broadcast to all its targets: no sender or   *)
(* other broadcaster keeps a broadcaster out for ever.                     *)
BroadcastCompletes ==
  \A d \in Device : recvPc[d] = "collect" ~> recvPc[d] = "read" \/ ~running

(* After the end of a connection its object is deleted, or its sender is   *)
(* the only user left, in a wait that no thread will ever signal.  A       *)
(* sender that waits when the receiver announces the end leaves, and with  *)
(* it the last user: the announcement is lost only on one that does not    *)
(* wait yet.                                                               *)
EndedIsFreedOrStranded ==
  \A d \in Device :
    /\ connection_state[d] = "ENDED" ~>
         \/ alloc[d] = "freed" \/ ~running
         \/ Holders(d) = {<<"sender", d>>} /\ sendPc[d] = "waiting"
    /\ recvPc[d] = "notify" /\ sendPc[d] = "waiting" ~> alloc[d] = "freed" \/ ~running

(* memory.h: "in cas the device no longer in use it will be freed".        *)
EndedIsFreed ==
  \A d \in Device :
    connection_state[d] = "ENDED" ~> alloc[d] = "freed" \/ ~running

-----------------------------------------------------------------------------
(* memory.h: an object is deleted when it is "no longer in use".  A        *)
(* broadcast gives its reference back before its last two uses of the      *)
(* object, the signal and the unlock.                                      *)
BroadcastSignalsLiveDevice == \A d \in Device : <<"signal", d>> \notin uaf

=============================================================================
