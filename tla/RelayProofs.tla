---------------------------- MODULE RelayProofs ----------------------------
(***************************************************************************)
(* Theorems about Relay for any set of devices, descriptors and messages:  *)
(* the reference count of memory.cpp is exact, whatever is freed has no    *)
(* user, and the counting implements the lifetime that memory.h promises;  *)
(* one thread at a time is in a sending buffer, what a broadcast listed is *)
(* delivered once and in order, and the registry of network.cpp and its    *)
(* broadcasts implement the multicast that network.h promises.             *)
(***************************************************************************)
EXTENDS Relay, SequenceTheorems, FiniteSetTheorems, TLAPS

(* The inductive invariant.  An acquire or a release is made by a thread   *)
(* that holds, or does not yet hold, a reference: that is ThreadsInStep.   *)
(* WorkingIsRegistered says when the registry holds one, and needs         *)
(* DescriptorsDistinct because the registry compares devices by sockfd.    *)
IInv == /\ TypeOK
        /\ RefCount
        /\ UsersAreSafe
        /\ DescriptorsDistinct
        /\ WorkingIsRegistered
        /\ ThreadsInStep

-----------------------------------------------------------------------------
(* What a step does to the users of the objects                            *)

KeepsUsers ==
  /\ UNCHANGED <<alloc, sockfd, openFds, memory_pointers>>
  /\ \A e \in Device, v \in User : Holds(v, e)' <=> Holds(v, e)

Joins(u, D) ==
  /\ UNCHANGED <<alloc, sockfd, openFds>>
  /\ \A e \in D : e \in Device /\ alloc[e] = "live" /\ ~Holds(u, e)
  /\ memory_pointers' = [e \in Device |->
       IF e \in D THEN memory_pointers[e] + 1 ELSE memory_pointers[e]]
  /\ \A e \in Device, v \in User :
       Holds(v, e)' <=> Holds(v, e) \/ (e \in D /\ v = u)

Leaves(u, d) ==
  /\ UNCHANGED sockfd
  /\ Holds(u, d)
  /\ Release(d)
  /\ \A e \in Device, v \in User :
       Holds(v, e)' <=> Holds(v, e) /\ ~(e = d /\ v = u)

-----------------------------------------------------------------------------
(* Finitely many users, so that cardinalities mean something.              *)
LEMMA HoldersFinite ==
  /\ \A d : IsFiniteSet(Holders(d))
  /\ \A d : IsFiniteSet(Holders(d)')
<1>1. IsFiniteSet({"main", "sender", "receiver", "registry", "broadcast"})
  <2>1. IsFiniteSet({"main"} \cup {"sender"} \cup {"receiver"})
    BY FS_Singleton, FS_AddElement
  <2>2. IsFiniteSet({"main"} \cup {"sender"} \cup {"receiver"}
                    \cup {"registry"} \cup {"broadcast"})
    BY <2>1, FS_AddElement
  <2>3. {"main", "sender", "receiver", "registry", "broadcast"} =
        {"main"} \cup {"sender"} \cup {"receiver"} \cup {"registry"} \cup {"broadcast"}
    OBVIOUS
  <2> QED
    BY <2>2, <2>3
<1>2. IsFiniteSet(User)
  BY <1>1, FS_Product, RelayAssumption DEF RelayAssumption, User
<1>3. \A d : Holders(d) \in SUBSET User /\ Holders(d)' \in SUBSET User
  BY DEF Holders, User
<1> QED
  BY <1>2, <1>3, FS_Subset

(* A step that moves no user keeps the count, the objects and the          *)
(* descriptors in agreement.                                               *)
LEMMA KeepsUsersCounts ==
  ASSUME IInv, KeepsUsers
  PROVE  RefCount' /\ UsersAreSafe' /\ DescriptorsDistinct'
<1>1. \A e \in Device : Holders(e)' = Holders(e)
  BY DEF KeepsUsers, Holders, User
<1> QED
  BY <1>1 DEF IInv, KeepsUsers, RefCount, UsersAreSafe, DescriptorsDistinct

(* acquire: one more user, one more reference, to each of the objects.     *)
LEMMA JoinsCounts ==
  ASSUME IInv, NEW u \in User, NEW D, Joins(u, D)
  PROVE  RefCount' /\ UsersAreSafe' /\ DescriptorsDistinct'
<1>0. \A e \in Device :
        Holders(e)' = IF e \in D THEN Holders(e) \cup {u} ELSE Holders(e)
  BY DEF Joins, Holders, User
<1>1. \A e \in D : Cardinality(Holders(e) \cup {u}) = Cardinality(Holders(e)) + 1
  BY HoldersFinite, FS_AddElement DEF Joins, Holders
<1>2. RefCount'
  BY <1>0, <1>1 DEF IInv, Joins, RefCount, UsersAreSafe, TypeOK
<1>3. UsersAreSafe' /\ DescriptorsDistinct'
  BY <1>0 DEF IInv, Joins, UsersAreSafe, DescriptorsDistinct, TypeOK
<1> QED
  BY <1>2, <1>3

(* release: one user and one reference less, and the object is deleted     *)
(* exactly when the user that leaves was the only one.                     *)
LEMMA LeavesCounts ==
  ASSUME IInv, NEW u \in User, NEW d \in Device, Leaves(u, d)
  PROVE  /\ RefCount' /\ UsersAreSafe' /\ DescriptorsDistinct'
         /\ memory_pointers[d] \in Nat \ {0}
         /\ alloc[d] = "live"
         /\ memory_pointers[d] = 1 <=> Holders(d) = {u}
<1>0. /\ u \in Holders(d)
      /\ \A e \in Device :
           Holders(e)' = IF e = d THEN Holders(e) \ {u} ELSE Holders(e)
  BY DEF Leaves, Holders, User
<1>1. alloc[d] = "live" /\ memory_pointers[d] = Cardinality(Holders(d))
  BY <1>0 DEF IInv, RefCount, UsersAreSafe
<1>2. /\ Cardinality(Holders(d)) \in Nat
      /\ Cardinality(Holders(d) \ {u}) = Cardinality(Holders(d)) - 1
      /\ Cardinality(Holders(d) \ {u}) \in Nat
  BY <1>0, HoldersFinite, FS_RemoveElement, FS_CardinalityType
<1>3. Cardinality(Holders(d)) = 1 <=> Holders(d) = {u}
  BY <1>0, HoldersFinite, FS_Singleton
<1>4. RefCount'
  BY <1>0, <1>1, <1>2 DEF IInv, Leaves, Release, RefCount, TypeOK
<1>5. UsersAreSafe'
  BY <1>0, <1>1, <1>3 DEF IInv, Leaves, Release, UsersAreSafe, TypeOK
<1>6. DescriptorsDistinct'
  BY <1>1 DEF IInv, Leaves, Release, DescriptorsDistinct, TypeOK
<1> QED
  BY <1>1, <1>2, <1>3, <1>4, <1>5, <1>6

-----------------------------------------------------------------------------
(* Which user each action makes join or leave                              *)

(* handle_device takes the reference of the main thread.                   *)
LEMMA MainStartUsers ==
  ASSUME IInv, NEW d \in Device, MainStart(d)
  PROVE  Joins(<<"main", d>>, {d})
<1> USE DEF IInv, TypeOK, ThreadsInStep, MainStart, MainAt, Acquire, castVars
<1>1. \A e \in Device, v \in User :
        Holds(v, e)' <=> Holds(v, e) \/ (e \in {d} /\ v = <<"main", d>>)
  BY DEF User, Holds, MainHolds, SenderHolds, ReceiverHolds, RegistryHolds
<1>2. ~Holds(<<"main", d>>, d)
  BY DEF Holds, MainHolds
<1> QED
  BY <1>1, <1>2 DEF Joins

(* handle_device_receiver takes the receiver's; the main thread, which     *)
(* cannot end before the receiver has ended the connection, keeps the      *)
(* object alive until then.                                                *)
LEMMA RecvStartUsers ==
  ASSUME IInv, NEW d \in Device, RecvStart(d)
  PROVE  Joins(<<"receiver", d>>, {d})
<1> USE DEF IInv, TypeOK, ThreadsInStep, RecvStart, RecvAt, Acquire, castVars
<1>1. \A e \in Device, v \in User :
        Holds(v, e)' <=> Holds(v, e) \/ (e \in {d} /\ v = <<"receiver", d>>)
  BY DEF User, Holds, MainHolds, SenderHolds, ReceiverHolds, RegistryHolds
<1>2. ~Holds(<<"receiver", d>>, d)
  BY DEF Holds, ReceiverHolds
<1>3. alloc[d] = "live"
  <2>1. mainPc[d] \in {"ping", "sleep"}
    BY DEF MainPc
  <2>2. <<"main", d>> \in Holders(d)
    BY <2>1 DEF Holders, User, Holds, MainHolds
  <2> QED
    BY <2>2 DEF UsersAreSafe
<1> QED
  BY <1>1, <1>2, <1>3 DEF Joins

(* The receiver's own reference keeps its device alive.                    *)
LEMMA ReceiverIsSafe ==
  ASSUME IInv, NEW d \in Device, ReceiverHolds(d)
  PROVE  alloc[d] = "live"
<1>1. <<"receiver", d>> \in Holders(d)
  BY DEF Holders, User, Holds
<1> QED
  BY <1>1 DEF IInv, UsersAreSafe

(* The registry's reference keeps the devices in it alive.                 *)
LEMMA RegisteredIsSafe ==
  ASSUME IInv, NEW d \in Device, d \in network_devices
  PROVE  alloc[d] = "live"
<1>1. <<"registry", d>> \in Holders(d)
  BY DEF Holders, User, Holds, RegistryHolds
<1> QED
  BY <1>1 DEF IInv, UsersAreSafe

(* handle_recvd_message: the first verified message takes the registry's   *)
(* reference, the others none.                                             *)
LEMMA VerifiedUsers ==
  ASSUME IInv, NEW d \in Device,
         \/ Verified(d, "insertPing", "read")
         \/ Verified(d, "insertData", "collect")
  PROVE  KeepsUsers \/ Joins(<<"registry", d>>, {d})
<1> USE DEF IInv, TypeOK, ThreadsInStep, WorkingIsRegistered, RecvAt
<1>1. recvPc[d] = "read" /\ alloc[d] = "live"
  BY ReceiverIsSafe DEF Verified, ReceiverHolds
<1>2. CASE connection_state[d] = "INTIALIZATION"
  <2>1. /\ Acquire(d) /\ sockfd' = sockfd
        /\ \/ recvPc' = [recvPc EXCEPT ![d] = "insertPing"]
           \/ recvPc' = [recvPc EXCEPT ![d] = "insertData"]
        /\ UNCHANGED <<mainPc, sendPc, targets, network_devices>>
    BY <1>2 DEF Verified
  <2>2. \A e \in Device, v \in User :
          Holds(v, e)' <=> Holds(v, e) \/ (e \in {d} /\ v = <<"registry", d>>)
    BY <1>1, <2>1 DEF User, Holds, MainHolds, SenderHolds,
                      ReceiverHolds, RegistryHolds
  <2>3. ~Holds(<<"registry", d>>, d)
    BY <1>1, <1>2 DEF Holds, RegistryHolds
  <2> QED
    BY <1>1, <2>1, <2>2, <2>3 DEF Joins, Acquire
<1>3. CASE connection_state[d] # "INTIALIZATION"
  <2>1. /\ UNCHANGED <<memoryVars, sockfd, mainPc, sendPc, targets, network_devices>>
        /\ \/ recvPc' = [recvPc EXCEPT ![d] = "read"]
           \/ recvPc' = [recvPc EXCEPT ![d] = "collect"]
    BY <1>3 DEF Verified
  <2>2. \A e \in Device, v \in User : Holds(v, e)' <=> Holds(v, e)
    BY <1>1, <2>1 DEF User, Holds, MainHolds, SenderHolds,
                      ReceiverHolds, RegistryHolds
  <2> QED
    BY <2>1, <2>2 DEF KeepsUsers, memoryVars
<1> QED
  BY <1>2, <1>3

(* The set of network.cpp adds and removes the device it is given, and no  *)
(* other, because the devices in it are live and differ in their sockfd.   *)
LEMMA InsertAdds ==
  ASSUME IInv, NEW d \in Device, recvPc[d] \in {"insertPing", "insertData"}
  PROVE  Insert(d) = network_devices \cup {d}
<1>1. alloc[d] = "live" /\ \A e \in network_devices : e \in Device /\ alloc[e] = "live"
  BY ReceiverIsSafe, RegisteredIsSafe DEF IInv, TypeOK, ReceiverHolds
<1>2. d \notin network_devices
  BY DEF IInv, WorkingIsRegistered
<1> QED
  BY <1>1, <1>2 DEF IInv, DescriptorsDistinct, Insert

(* remove_device_from_network takes out the device it is given only.       *)
LEMMA EraseRemoves ==
  ASSUME IInv, NEW d \in Device, recvPc[d] = "read"
  PROVE  Erase(d) = network_devices \ {d}
<1>1. alloc[d] = "live" /\ \A e \in network_devices : e \in Device /\ alloc[e] = "live"
  BY ReceiverIsSafe, RegisteredIsSafe DEF IInv, TypeOK, ReceiverHolds
<1> QED
  BY <1>1 DEF IInv, DescriptorsDistinct, Erase

(* add_device_to_network makes the reference that was taken for the        *)
(* registry the registry's own.                                            *)
LEMMA RecvInsertUsers ==
  ASSUME IInv, NEW d \in Device, RecvInsert(d)
  PROVE  KeepsUsers
<1> USE DEF IInv, TypeOK, RecvInsert, castVars, memoryVars
<1>1. network_devices' = network_devices \cup {d}
  BY InsertAdds
<1>2. \A e \in Device, v \in User : Holds(v, e)' <=> Holds(v, e)
  BY <1>1 DEF User, Holds, MainHolds, SenderHolds, ReceiverHolds, RegistryHolds
<1> QED
  BY <1>2 DEF KeepsUsers

(* remove_device_from_network leaves the registry's reference with the     *)
(* receiver, which gives it back next.                                     *)
LEMMA RecvFailUsers ==
  ASSUME IInv, NEW d \in Device, RecvFail(d)
  PROVE  KeepsUsers
<1> USE DEF IInv, TypeOK, RecvFail, RecvAt, castVars, memoryVars
<1>1. recvPc[d] = "read" /\ Erase(d) = network_devices \ {d}
  BY EraseRemoves
<1>2. d \in network_devices <=> connection_state[d] = "WORKING"
  BY <1>1 DEF WorkingIsRegistered
<1>3. \A e \in Device, v \in User : Holds(v, e)' <=> Holds(v, e)
  BY <1>1, <1>2 DEF User, Holds, MainHolds, SenderHolds,
                    ReceiverHolds, RegistryHolds
<1> QED
  BY <1>3 DEF KeepsUsers

(* broadcast_to_network joins every device of the registry under one user, *)
(* and leaves them one by one.                                             *)
LEMMA CollectUsers ==
  ASSUME IInv, NEW d \in Device, Collect(d)
  PROVE  Joins(<<"broadcast", d>>, network_devices)
<1>1. /\ recvPc[d] = "collect" /\ targets[d] = {}
      /\ \/ recvPc' = [recvPc EXCEPT ![d] = "read"]
         \/ recvPc' = [recvPc EXCEPT ![d] = "push"]
      /\ targets' = [targets EXCEPT ![d] = network_devices]
      /\ UNCHANGED <<mainPc, sendPc, network_devices, sockfd, alloc, openFds>>
      /\ sendPc \in [Device -> SendPc] /\ recvPc \in [Device -> RecvPc]
      /\ targets \in [Device -> SUBSET Device]
      /\ network_devices \subseteq Device
  BY DEF IInv, TypeOK, ThreadsInStep, Collect, AcquireAll, NextTarget, RecvAt
<1>2. \A e \in Device, v \in User :
        Holds(v, e)' <=> Holds(v, e) \/ (e \in network_devices /\ v = <<"broadcast", d>>)
  BY <1>1 DEF User, Holds, MainHolds, SenderHolds, ReceiverHolds, RegistryHolds
<1>3. \A e \in network_devices :
        e \in Device /\ alloc[e] = "live" /\ ~Holds(<<"broadcast", d>>, e)
  BY <1>1, RegisteredIsSafe DEF Holds
<1> QED
  BY <1>1, <1>2, <1>3 DEF Joins, Collect, AcquireAll

(* broadcast_to_network gives back one reference per device served.        *)
LEMMA PushUsers ==
  ASSUME IInv, NEW d \in Device, Push(d)
  PROVE  target[d] \in Device /\ Leaves(<<"broadcast", d>>, target[d])
<1>1. /\ recvPc[d] = "push" /\ target[d] \in targets[d] /\ target[d] \in Device
      /\ recvPc' = [recvPc EXCEPT ![d] = "signal"]
      /\ targets' = [targets EXCEPT ![d] = @ \ {target[d]}]
      /\ Release(target[d])
      /\ UNCHANGED <<mainPc, sendPc, network_devices, sockfd>>
      /\ sendPc \in [Device -> SendPc] /\ recvPc \in [Device -> RecvPc]
      /\ targets \in [Device -> SUBSET Device]
  BY DEF IInv, TypeOK, ThreadsInStep, Push, RecvAt
<1>2. \A e \in Device, v \in User :
        Holds(v, e)' <=> Holds(v, e) /\ ~(e = target[d] /\ v = <<"broadcast", d>>)
  BY <1>1 DEF User, Holds, MainHolds, SenderHolds, ReceiverHolds, RegistryHolds
<1>3. Holds(<<"broadcast", d>>, target[d])
  BY <1>1 DEF Holds
<1> QED
  BY <1>1, <1>2, <1>3 DEF Leaves

(* The signal and the unlock after that release use no reference at all.   *)
LEMMA SignalTargetUsers ==
  ASSUME IInv, NEW d \in Device, SignalTarget(d)
  PROVE  KeepsUsers
<1>1. /\ recvPc[d] = "signal"
      /\ \/ recvPc' = [recvPc EXCEPT ![d] = "read"]
         \/ recvPc' = [recvPc EXCEPT ![d] = "push"]
      /\ \E t : sendPc' = [sendPc EXCEPT ![t] = IF @ = "waiting" THEN "woken" ELSE @]
      /\ UNCHANGED <<mainPc, targets, network_devices, alloc, sockfd, openFds,
                     memory_pointers>>
      /\ sendPc \in [Device -> SendPc] /\ recvPc \in [Device -> RecvPc]
      /\ targets \in [Device -> SUBSET Device]
  BY DEF IInv, TypeOK, SignalTarget, NextTarget, Signalled, RecvAt
<1>2. \A e \in Device, v \in User : Holds(v, e)' <=> Holds(v, e)
  BY <1>1 DEF User, Holds, MainHolds, SenderHolds, ReceiverHolds, RegistryHolds
<1> QED
  BY <1>1, <1>2 DEF KeepsUsers

(* handle_device_receiver gives back the registry's reference, if there    *)
(* was one, before it sets CONNECTION_ENDED.                               *)
LEMMA RecvEndUsers ==
  ASSUME IInv, NEW d \in Device, RecvEnd(d)
  PROVE  IF recvPc[d] = "dropRegistry" THEN Leaves(<<"registry", d>>, d) ELSE KeepsUsers
<1> USE DEF IInv, TypeOK, ThreadsInStep, RecvEnd, RecvAt, castVars, memoryVars
<1>1. d \notin network_devices
  BY DEF WorkingIsRegistered
<1>2. CASE recvPc[d] = "dropRegistry"
  <2>1. \A e \in Device, v \in User :
          Holds(v, e)' <=> Holds(v, e) /\ ~(e = d /\ v = <<"registry", d>>)
    BY <1>1, <1>2 DEF User, Holds, MainHolds, SenderHolds,
                      ReceiverHolds, RegistryHolds
  <2>2. Holds(<<"registry", d>>, d)
    BY <1>2 DEF Holds, RegistryHolds
  <2> QED
    BY <1>2, <2>1, <2>2 DEF Leaves
<1>3. CASE recvPc[d] # "dropRegistry"
  <2>1. \A e \in Device, v \in User : Holds(v, e)' <=> Holds(v, e)
    BY <1>1, <1>3 DEF User, Holds, MainHolds, SenderHolds,
                      ReceiverHolds, RegistryHolds
  <2> QED
    BY <1>3, <2>1 DEF KeepsUsers
<1> QED
  BY <1>2, <1>3

(* The last step of each thread gives its own reference back.              *)
LEMMA ThreadReleaseUsers ==
  ASSUME IInv, NEW d \in Device
  PROVE  /\ MainRelease(d) => Leaves(<<"main", d>>, d)
         /\ RecvRelease(d) => Leaves(<<"receiver", d>>, d)
         /\ SenderRelease(d) => Leaves(<<"sender", d>>, d)
<1> USE DEF IInv, TypeOK, castVars, MainAt, RecvAt, SendAt,
            Holds, MainHolds, SenderHolds, ReceiverHolds, RegistryHolds
<1>1. ASSUME MainRelease(d) PROVE Leaves(<<"main", d>>, d)
  <2>1. \A e \in Device, v \in User :
          Holds(v, e)' <=> Holds(v, e) /\ ~(e = d /\ v = <<"main", d>>)
    BY <1>1 DEF MainRelease, User
  <2> QED
    BY <1>1, <2>1 DEF MainRelease, Leaves
<1>2. ASSUME RecvRelease(d) PROVE Leaves(<<"receiver", d>>, d)
  <2>1. \A e \in Device, v \in User :
          Holds(v, e)' <=> Holds(v, e) /\ ~(e = d /\ v = <<"receiver", d>>)
    BY <1>2 DEF RecvRelease, User
  <2> QED
    BY <1>2, <2>1 DEF RecvRelease, Leaves
<1>3. ASSUME SenderRelease(d) PROVE Leaves(<<"sender", d>>, d)
  <2>1. \A e \in Device, v \in User :
          Holds(v, e)' <=> Holds(v, e) /\ ~(e = d /\ v = <<"sender", d>>)
    BY <1>3 DEF SenderRelease, User
  <2> QED
    BY <1>3, <2>1 DEF SenderRelease, Leaves
<1> QED
  BY <1>1, <1>2, <1>3

(* handle_device_sender takes its reference, unless the object is gone.    *)
LEMMA SenderStartUsers ==
  ASSUME IInv, NEW d \in Device, SenderStart(d)
  PROVE  KeepsUsers \/ Joins(<<"sender", d>>, {d})
<1>1. /\ sendPc \in [Device -> SendPc] /\ sendPc[d] = "start"
      /\ UNCHANGED <<mainPc, recvPc, targets, network_devices, sockfd>>
  BY DEF IInv, TypeOK, SenderStart, SendAt, castVars
<1>2. CASE alloc[d] = "live"
  <2>1. sendPc' = [sendPc EXCEPT ![d] = "lock"] /\ Acquire(d)
    BY <1>2 DEF SenderStart
  <2>2. \A e \in Device, v \in User :
          Holds(v, e)' <=> Holds(v, e) \/ (e \in {d} /\ v = <<"sender", d>>)
    BY <1>1, <2>1 DEF User, Holds, MainHolds, SenderHolds,
                      ReceiverHolds, RegistryHolds
  <2>3. ~Holds(<<"sender", d>>, d)
    BY <1>1 DEF Holds, SenderHolds
  <2> QED
    BY <1>1, <1>2, <2>1, <2>2, <2>3 DEF Joins, Acquire, IInv, TypeOK
<1>3. CASE alloc[d] # "live"
  <2>1. /\ sendPc' = [sendPc EXCEPT ![d] = "lost"]
        /\ UNCHANGED <<alloc, openFds, memory_pointers>>
    BY <1>3 DEF SenderStart
  <2>2. \A e \in Device, v \in User : Holds(v, e)' <=> Holds(v, e)
    BY <1>1, <2>1 DEF User, Holds, MainHolds, SenderHolds,
                      ReceiverHolds, RegistryHolds
  <2> QED
    BY <1>1, <2>1, <2>2 DEF KeepsUsers
<1> QED
  BY <1>2, <1>3

(* The steps between an acquire and a release of the same thread.          *)
LEMMA InsideUsers ==
  ASSUME IInv, NEW d \in Device,
         \/ MainPing(d)
         \/ MainCheck(d)
         \/ RecvNotify(d)
         \/ SenderWait(d)
         \/ SpuriousWakeup(d)
         \/ SenderRelock(d)
         \/ SenderFlush(d)
         \/ SenderKilled(d)
         \/ SenderCheck(d)
  PROVE  KeepsUsers
<1>1. /\ UNCHANGED <<alloc, sockfd, openFds, memory_pointers>>
      /\ UNCHANGED <<targets, network_devices>>
      /\ \A e \in Device : MainHolds(e)' <=> MainHolds(e)
      /\ \A e \in Device : SenderHolds(e)' <=> SenderHolds(e)
      /\ \A e \in Device : ReceiverHolds(e)' <=> ReceiverHolds(e)
      /\ \A e \in Device : RegistryHolds(e)' <=> RegistryHolds(e)
  <2> USE DEF IInv, TypeOK, MainAt, RecvAt, SendAt, memoryVars, castVars, threadVars,
              MainHolds, SenderHolds, ReceiverHolds, RegistryHolds
  <2>1. CASE MainPing(d)
    BY <2>1 DEF MainPing, Signalled
  <2>2. CASE MainCheck(d)
    BY <2>2 DEF MainCheck
  <2>3. CASE RecvNotify(d)
    BY <2>3 DEF RecvNotify, Signalled
  <2>4. CASE SenderWait(d)
    BY <2>4 DEF SenderWait
  <2>5. CASE SpuriousWakeup(d)
    BY <2>5 DEF SpuriousWakeup
  <2>6. CASE SenderRelock(d)
    BY <2>6 DEF SenderRelock
  <2>7. CASE SenderFlush(d)
    BY <2>7 DEF SenderFlush, SendAll
  <2>8. CASE SenderKilled(d)
    BY <2>8 DEF SenderKilled
  <2>9. CASE SenderCheck(d)
    BY <2>9 DEF SenderCheck
  <2> QED
    BY <2>1, <2>2, <2>3, <2>4, <2>5, <2>6, <2>7, <2>8, <2>9
<1>2. \A e \in Device, v \in User : Holds(v, e)' <=> Holds(v, e)
  BY <1>1 DEF Holds
<1> QED
  BY <1>1, <1>2 DEF KeepsUsers

(* Accepting and dispatching change the users of no object.                *)
LEMMA AdmissionUsers ==
  ASSUME IInv, Dispatch \/ \E d \in Device : Accept(d)
  PROVE  \A e \in Device : Holders(e)' = Holders(e)
<1>1. UNCHANGED <<recvPc, sendPc, targets, network_devices>>
  BY DEF Dispatch, Accept, castVars, threadVars
<1>2. \A e \in Device : MainHolds(e)' <=> MainHolds(e)
  BY DEF IInv, TypeOK, ThreadsInStep, Dispatch, Accept, threadVars, MainHolds
<1>3. \A e \in Device, v \in User : Holds(v, e)' <=> Holds(v, e)
  BY <1>1, <1>2 DEF Holds, SenderHolds, ReceiverHolds, RegistryHolds
<1> QED
  BY <1>3 DEF Holders, User

(* Accepting and dispatching move objects that nobody uses yet.            *)
LEMMA AdmissionCounts ==
  ASSUME IInv, Dispatch \/ \E d \in Device : Accept(d)
  PROVE  RefCount' /\ UsersAreSafe' /\ DescriptorsDistinct'
<1> USE DEF IInv, TypeOK
<1>1. CASE Dispatch
  <2>1. \A e \in Device : Holders(e)' = Holders(e)
    BY <1>1, AdmissionUsers
  <2>2. \A e \in Device : alloc'[e] = IF alloc[e] = "listed" THEN "live" ELSE alloc[e]
    BY <1>1 DEF Dispatch
  <2>3. \A e \in Device :
          alloc[e] = "listed" => memory_pointers[e] = 0 /\ Cardinality(Holders(e)) = 0
    BY FS_EmptySet DEF UsersAreSafe, ThreadsInStep
  <2>4. UNCHANGED <<memory_pointers, sockfd, openFds>>
    BY <1>1 DEF Dispatch
  <2>5. RefCount'
    BY <2>1, <2>2, <2>3, <2>4 DEF RefCount
  <2>6. UsersAreSafe' /\ DescriptorsDistinct'
    BY <2>1, <2>2, <2>4 DEF UsersAreSafe, DescriptorsDistinct
  <2> QED
    BY <2>5, <2>6
<1>2. ASSUME NEW d \in Device, Accept(d)
      PROVE  RefCount' /\ UsersAreSafe' /\ DescriptorsDistinct'
  <2>1. \A e \in Device : Holders(e)' = Holders(e)
    BY <1>2, AdmissionUsers
  <2>2. /\ \A e \in Device : alloc'[e] = IF e = d THEN "listed" ELSE alloc[e]
        /\ alloc[d] = "none" /\ memory_pointers' = memory_pointers
    BY <1>2 DEF Accept
  <2>3. RefCount' /\ UsersAreSafe'
    BY <2>1, <2>2 DEF RefCount, UsersAreSafe
  <2>4. PICK fd \in Fd \ openFds :
          openFds' = openFds \cup {fd} /\ sockfd' = [sockfd EXCEPT ![d] = fd]
    BY <1>2 DEF Accept
  <2>5. DescriptorsDistinct'
    BY <2>2, <2>4 DEF DescriptorsDistinct
  <2> QED
    BY <2>3, <2>5
<1> QED
  BY <1>1, <1>2

(* release keeps the types of memory_pointers, alloc and the descriptors   *)
(* when there is a reference to give back.                                 *)
LEMMA ReleaseTypes ==
  ASSUME TypeOK, NEW d \in Device, memory_pointers[d] \in Nat \ {0}, Release(d)
  PROVE  /\ memory_pointers' \in [Device -> Nat]
         /\ alloc' \in [Device -> {"none", "listed", "live", "freed"}]
         /\ openFds' \in SUBSET Fd
         /\ uaf' \in SUBSET (Access \X Device)
<1> USE DEF TypeOK, Release
<1>1. memory_pointers' \in [Device -> Nat]
  OBVIOUS
<1>2. /\ alloc' \in [Device -> {"none", "listed", "live", "freed"}]
      /\ openFds' \in SUBSET Fd
  OBVIOUS
<1>3. <<"unlock", d>> \in Access \X Device
  BY DEF Access
<1>4. uaf' \in SUBSET (Access \X Device)
  BY <1>3
<1> QED
  BY <1>1, <1>2, <1>4

(* The loop head of broadcast_to_network serves one of the devices left,   *)
(* or ends the loop when none is.                                          *)
LEMMA NextTargetPicks ==
  ASSUME NEW d \in Device, NEW left \in SUBSET Device, NextTarget(d, left)
  PROVE  \E t \in Device \cup {NoDevice} :
           /\ target' = [target EXCEPT ![d] = t]
           /\ IF left = {} THEN recvPc' = [recvPc EXCEPT ![d] = "read"]
              ELSE t \in left /\ recvPc' = [recvPc EXCEPT ![d] = "push"]
BY DEF NextTarget

(* The loop head of broadcast_to_network keeps the types.                  *)
LEMMA NextTargetTypes ==
  ASSUME TypeOK, NEW d \in Device, NEW left \in SUBSET Device, NextTarget(d, left)
  PROVE  /\ target' \in [Device -> Device \cup {NoDevice}]
         /\ recvPc' \in [Device -> RecvPc]
<1>1. PICK t \in Device \cup {NoDevice} : target' = [target EXCEPT ![d] = t]
  BY NextTargetPicks
<1>2. PICK pc \in {"read", "push"} : recvPc' = [recvPc EXCEPT ![d] = pc]
  BY DEF NextTarget
<1> QED
  BY <1>1, <1>2 DEF TypeOK, RecvPc

(* handle_recvd_message keeps the types when it registers the device.      *)
LEMMA VerifiedTypes ==
  ASSUME TypeOK, NEW d \in Device,
         \/ Verified(d, "insertPing", "read")
         \/ Verified(d, "insertData", "collect")
  PROVE  /\ connection_state' \in [Device -> {"INTIALIZATION", "WORKING", "ENDED"}]
         /\ recvPc' \in [Device -> RecvPc]
         /\ memory_pointers' \in [Device -> Nat]
         /\ UNCHANGED <<alloc, openFds, uaf>>
<1>1. PICK pc \in {"read", "insertPing", "insertData", "collect"} :
        recvPc' = [recvPc EXCEPT ![d] = pc]
  BY DEF Verified
<1>2. recvPc' \in [Device -> RecvPc]
  BY <1>1 DEF TypeOK, RecvPc
<1>3. CASE connection_state[d] = "INTIALIZATION"
  <2>1. connection_state' = [connection_state EXCEPT ![d] = "WORKING"] /\ Acquire(d)
    BY <1>3 DEF Verified
  <2> QED
    BY <1>2, <2>1 DEF TypeOK, Acquire
<1>4. CASE connection_state[d] # "INTIALIZATION"
  <2>1. UNCHANGED connection_state /\ UNCHANGED memoryVars
    BY <1>4 DEF Verified
  <2> QED
    BY <1>2, <2>1 DEF TypeOK, memoryVars
<1> QED
  BY <1>3, <1>4

(* Every step keeps the types.  memory_pointers stays a natural number      *)
(* because only a user releases, and the count is the number of users.     *)
LEMMA TypeStep ==
  ASSUME IInv, [Next]_vars
  PROVE  TypeOK'
<1> USE DEF IInv, TypeOK, MainPc, RecvPc, SendPc, Access, MainAt, RecvAt,
            SendAt, memoryVars, queueVars, threadVars, castVars
<1>1. CASE UNCHANGED vars
  BY <1>1 DEF vars
<1>2. CASE Dispatch
  BY <1>2 DEF Dispatch
<1>3. ASSUME NEW d \in Device, Accept(d) PROVE TypeOK'
  BY <1>3 DEF Accept
<1>4. ASSUME NEW d \in Device, MainStart(d) PROVE TypeOK'
  <2>1. /\ mainPc' \in [Device -> MainPc]
        /\ sendPc' \in [Device -> SendPc]
        /\ recvPc' \in [Device -> RecvPc]
    <3>1. PICK pc \in {"ping", "leaked"} : mainPc' = [mainPc EXCEPT ![d] = pc]
      BY <1>4 DEF MainStart
    <3>2. sendPc' = sendPc \/ sendPc' = [sendPc EXCEPT ![d] = "start"]
      BY <1>4 DEF MainStart
    <3>3. recvPc' = recvPc \/ recvPc' = [recvPc EXCEPT ![d] = "start"]
      BY <1>4 DEF MainStart
    <3> QED
      BY <3>1, <3>2, <3>3
  <2>2. /\ memory_pointers' \in [Device -> Nat]
        /\ UNCHANGED <<alloc, openFds, uaf>>
    BY <1>4 DEF MainStart, Acquire
  <2> QED
    BY <1>4, <2>1, <2>2 DEF MainStart
<1>5. ASSUME NEW d \in Device, MainPing(d) PROVE TypeOK'
  BY <1>5 DEF MainPing, Signalled
<1>6. ASSUME NEW d \in Device, MainCheck(d) PROVE TypeOK'
  BY <1>6 DEF MainCheck
<1>7. ASSUME NEW d \in Device, MainRelease(d) PROVE TypeOK'
  <2>1. memory_pointers[d] \in Nat \ {0}
    BY <1>7, ThreadReleaseUsers, LeavesCounts DEF User
  <2>2. Release(d)
    BY <1>7 DEF MainRelease
  <2> QED
    BY <1>7, <2>1, <2>2, ReleaseTypes DEF MainRelease
<1>8. ASSUME NEW d \in Device, RecvStart(d) PROVE TypeOK'
  BY <1>8 DEF RecvStart, Acquire
<1>9. ASSUME NEW d \in Device, RecvInsert(d) PROVE TypeOK'
  BY <1>9 DEF RecvInsert, Insert
<1>10. ASSUME NEW d \in Device, Collect(d) PROVE TypeOK'
  <2>1. /\ target' \in [Device -> Device \cup {NoDevice}]
        /\ recvPc' \in [Device -> RecvPc]
    <3>1. network_devices \subseteq Device /\ NextTarget(d, network_devices)
      BY <1>10 DEF Collect
    <3> QED
      BY <3>1, NextTargetTypes
  <2>2. /\ memory_pointers' \in [Device -> Nat]
        /\ UNCHANGED <<alloc, openFds, uaf>>
    BY <1>10 DEF Collect, AcquireAll
  <2>3. /\ targets' \in [Device -> SUBSET Device]
        /\ due' \in [Device -> SUBSET Message]
    BY <1>10 DEF Collect, CurrentMessage, Message
  <2> QED
    BY <1>10, <2>1, <2>2, <2>3 DEF Collect
<1>11. ASSUME NEW d \in Device, Push(d) PROVE TypeOK'
  <2>1. target[d] \in Device /\ Leaves(<<"broadcast", d>>, target[d])
    BY <1>11, PushUsers
  <2>2. memory_pointers[target[d]] \in Nat \ {0} /\ Release(target[d])
    BY <1>11, <2>1, LeavesCounts DEF User, Push
  <2>3. Append(sending_buffer[target[d]], CurrentMessage(d)) \in Seq(Message)
    <3>1. CurrentMessage(d) \in Message
      BY DEF CurrentMessage, Message
    <3>2. sending_buffer[target[d]] \in Seq(Message)
      BY <2>1
    <3> QED
      BY <3>1, <3>2
  <2> QED
    BY <1>11, <2>1, <2>2, <2>3, ReleaseTypes DEF Push
<1>12. ASSUME NEW d \in Device, SignalTarget(d) PROVE TypeOK'
  <2>1. /\ target' \in [Device -> Device \cup {NoDevice}]
        /\ recvPc' \in [Device -> RecvPc]
    <3>1. targets[d] \subseteq Device /\ NextTarget(d, targets[d])
      BY <1>12 DEF SignalTarget
    <3> QED
      BY <3>1, NextTargetTypes
  <2>2. /\ sendPc' \in [Device -> SendPc]
        /\ locked' \in [Device -> BOOLEAN]
    BY <1>12 DEF SignalTarget, Signalled
  <2>3. running' \in BOOLEAN
    BY <1>12 DEF SignalTarget
  <2>4. uaf' \in SUBSET (Access \X Device)
    <3>1. target[d] \in Device
      BY <1>12 DEF SignalTarget, ThreadsInStep
    <3>2. <<"signal", target[d]>> \in Access \X Device
      BY <3>1
    <3>3. uaf' \in {uaf, uaf \cup {<<"signal", target[d]>>}}
      BY <1>12 DEF SignalTarget
    <3> QED
      BY <3>2, <3>3
  <2> QED
    BY <1>12, <2>1, <2>2, <2>3, <2>4 DEF SignalTarget
<1>13. ASSUME NEW d \in Device, RecvEnd(d) PROVE TypeOK'
  <2>1. CASE UNCHANGED memoryVars
    BY <1>13, <2>1 DEF RecvEnd
  <2>2. CASE recvPc[d] = "dropRegistry"
    <3>1. Leaves(<<"registry", d>>, d) /\ <<"registry", d>> \in User
      BY <1>13, <2>2, RecvEndUsers DEF User
    <3>2. memory_pointers[d] \in Nat \ {0} /\ Release(d)
      BY <3>1, LeavesCounts DEF Leaves
    <3> QED
      BY <1>13, <2>2, <3>2, ReleaseTypes DEF RecvEnd
  <2> QED
    BY <1>13, <2>1, <2>2 DEF RecvEnd
<1>14. ASSUME NEW d \in Device, RecvNotify(d) PROVE TypeOK'
  BY <1>14 DEF RecvNotify, Signalled
<1>15. ASSUME NEW d \in Device, RecvRelease(d) PROVE TypeOK'
  <2>1. memory_pointers[d] \in Nat \ {0}
    BY <1>15, ThreadReleaseUsers, LeavesCounts DEF User
  <2>2. Release(d)
    BY <1>15 DEF RecvRelease
  <2> QED
    BY <1>15, <2>1, <2>2, ReleaseTypes DEF RecvRelease
<1>16. ASSUME NEW d \in Device, SenderStart(d) PROVE TypeOK'
  <2>1. CASE alloc[d] = "live"
    <3>1. Acquire(d) /\ sendPc' = [sendPc EXCEPT ![d] = "lock"]
      BY <1>16, <2>1 DEF SenderStart
    <3>2. UNCHANGED running
      BY <1>16, <2>1 DEF SenderStart
    <3>3. /\ memory_pointers' \in [Device -> Nat]
          /\ sendPc' \in [Device -> SendPc]
          /\ UNCHANGED <<alloc, openFds, uaf>>
      BY <3>1 DEF Acquire
    <3> QED
      BY <1>16, <3>2, <3>3 DEF SenderStart
  <2>2. CASE alloc[d] # "live"
    <3>1. <<"acquire", d>> \in Access \X Device
      OBVIOUS
    <3>2. uaf' \in SUBSET (Access \X Device)
      BY <1>16, <2>2, <3>1 DEF SenderStart
    <3>3. running' \in BOOLEAN
      BY <1>16, <2>2 DEF SenderStart
    <3>4. sendPc' = [sendPc EXCEPT ![d] = "lost"]
      BY <1>16, <2>2 DEF SenderStart
    <3>5. sendPc' \in [Device -> SendPc]
      BY <3>4
    <3> QED
      BY <1>16, <2>2, <3>2, <3>3, <3>5 DEF SenderStart
  <2> QED
    BY <2>1, <2>2
<1>17. ASSUME NEW d \in Device, SenderWait(d) PROVE TypeOK'
  BY <1>17 DEF SenderWait
<1>18. ASSUME NEW d \in Device, SenderRelock(d) PROVE TypeOK'
  BY <1>18 DEF SenderRelock
<1>19. ASSUME NEW d \in Device, SenderFlush(d) PROVE TypeOK'
  BY <1>19 DEF SenderFlush, SendAll
<1>20. ASSUME NEW d \in Device, SenderCheck(d) PROVE TypeOK'
  BY <1>20 DEF SenderCheck
<1>21. ASSUME NEW d \in Device, SenderRelease(d) PROVE TypeOK'
  <2>1. memory_pointers[d] \in Nat \ {0}
    BY <1>21, ThreadReleaseUsers, LeavesCounts DEF User
  <2>2. Release(d)
    BY <1>21 DEF SenderRelease
  <2> QED
    BY <1>21, <2>1, <2>2, ReleaseTypes DEF SenderRelease
<1>22. ASSUME NEW d \in Device, RecvPing(d) PROVE TypeOK'
  BY <1>22, VerifiedTypes DEF RecvPing, Verified
<1>23. ASSUME NEW d \in Device, RecvData(d) PROVE TypeOK'
  <2>1. received' \in [Device -> Nat]
    BY <1>23 DEF RecvData
  <2> QED
    BY <1>23, <2>1, VerifiedTypes DEF RecvData, Verified
<1>24. ASSUME NEW d \in Device, RecvFail(d) PROVE TypeOK'
  <2>1. network_devices' \in SUBSET Device
    BY <1>24 DEF RecvFail, Erase
  <2>2. recvPc' \in [Device -> RecvPc]
    <3>1. PICK pc \in {"dropRegistry", "ending"} : recvPc' = [recvPc EXCEPT ![d] = pc]
      BY <1>24 DEF RecvFail
    <3> QED
      BY <3>1
  <2> QED
    BY <1>24, <2>1, <2>2 DEF RecvFail
<1>25. ASSUME NEW d \in Device, SenderKilled(d) PROVE TypeOK'
  BY <1>25 DEF SenderKilled
<1>26. ASSUME NEW d \in Device, SpuriousWakeup(d) PROVE TypeOK'
  BY <1>26 DEF SpuriousWakeup
<1> QED
  BY <1>1, <1>2, <1>3, <1>4, <1>5, <1>6, <1>7, <1>8, <1>9, <1>10, <1>11,
     <1>12, <1>13, <1>14, <1>15, <1>16, <1>17, <1>18, <1>19, <1>20, <1>21,
     <1>22, <1>23, <1>24, <1>25, <1>26
     DEF Next, Main, Receiver, Sender, Peer, Finished

(* The registry follows the state and the receiver.                        *)
LEMMA RegistryStep ==
  ASSUME IInv, [Next]_vars
  PROVE  WorkingIsRegistered'
<1> USE DEF IInv, TypeOK, WorkingIsRegistered, ThreadsInStep, MainAt, RecvAt,
            SendAt, memoryVars, queueVars, threadVars, castVars
<1>1. CASE UNCHANGED vars
  BY <1>1 DEF vars
<1>2. CASE Dispatch
  BY <1>2 DEF Dispatch
<1>3. ASSUME NEW d \in Device, Accept(d) PROVE WorkingIsRegistered'
  BY <1>3 DEF Accept
<1>4. ASSUME NEW d \in Device, MainStart(d) PROVE WorkingIsRegistered'
  BY <1>4 DEF MainStart
<1>5. ASSUME NEW d \in Device, MainPing(d) PROVE WorkingIsRegistered'
  BY <1>5 DEF MainPing
<1>6. ASSUME NEW d \in Device, MainCheck(d) PROVE WorkingIsRegistered'
  BY <1>6 DEF MainCheck
<1>7. ASSUME NEW d \in Device, MainRelease(d) PROVE WorkingIsRegistered'
  BY <1>7 DEF MainRelease
<1>8. ASSUME NEW d \in Device, RecvStart(d) PROVE WorkingIsRegistered'
  BY <1>8 DEF RecvStart
<1>9. ASSUME NEW d \in Device, RecvInsert(d) PROVE WorkingIsRegistered'
  <2>1. network_devices' = network_devices \cup {d}
    BY <1>9, InsertAdds DEF RecvInsert
  <2> QED
    BY <1>9, <2>1 DEF RecvInsert
<1>10. ASSUME NEW d \in Device, Collect(d) PROVE WorkingIsRegistered'
  BY <1>10 DEF Collect, NextTarget
<1>11. ASSUME NEW d \in Device, Push(d) PROVE WorkingIsRegistered'
  BY <1>11 DEF Push
<1>12. ASSUME NEW d \in Device, SignalTarget(d) PROVE WorkingIsRegistered'
  BY <1>12 DEF SignalTarget, NextTarget
<1>13. ASSUME NEW d \in Device, RecvEnd(d) PROVE WorkingIsRegistered'
  BY <1>13 DEF RecvEnd
<1>14. ASSUME NEW d \in Device, RecvNotify(d) PROVE WorkingIsRegistered'
  BY <1>14 DEF RecvNotify
<1>15. ASSUME NEW d \in Device, RecvRelease(d) PROVE WorkingIsRegistered'
  BY <1>15 DEF RecvRelease
<1>16. ASSUME NEW d \in Device, SenderStart(d) PROVE WorkingIsRegistered'
  BY <1>16 DEF SenderStart
<1>17. ASSUME NEW d \in Device, SenderWait(d) PROVE WorkingIsRegistered'
  BY <1>17 DEF SenderWait
<1>18. ASSUME NEW d \in Device, SenderRelock(d) PROVE WorkingIsRegistered'
  BY <1>18 DEF SenderRelock
<1>19. ASSUME NEW d \in Device, SenderFlush(d) PROVE WorkingIsRegistered'
  BY <1>19 DEF SenderFlush
<1>20. ASSUME NEW d \in Device, SenderCheck(d) PROVE WorkingIsRegistered'
  BY <1>20 DEF SenderCheck
<1>21. ASSUME NEW d \in Device, SenderRelease(d) PROVE WorkingIsRegistered'
  BY <1>21 DEF SenderRelease
<1>22. ASSUME NEW d \in Device, RecvPing(d) PROVE WorkingIsRegistered'
  BY <1>22 DEF RecvPing, Verified
<1>23. ASSUME NEW d \in Device, RecvData(d) PROVE WorkingIsRegistered'
  BY <1>23 DEF RecvData, Verified
<1>24. ASSUME NEW d \in Device, RecvFail(d) PROVE WorkingIsRegistered'
  <2>1. Erase(d) = network_devices \ {d}
    BY <1>24, EraseRemoves DEF RecvFail
  <2>2. CASE connection_state[d] = "WORKING"
    <3>1. /\ network_devices' = network_devices \ {d}
          /\ recvPc' = [recvPc EXCEPT ![d] = "dropRegistry"]
          /\ UNCHANGED connection_state
      BY <1>24, <2>1, <2>2 DEF RecvFail
    <3> QED
      BY <3>1
  <2>3. CASE connection_state[d] # "WORKING"
    <3>1. /\ recvPc' = [recvPc EXCEPT ![d] = "ending"]
          /\ UNCHANGED <<network_devices, connection_state>>
      BY <1>24, <2>3 DEF RecvFail
    <3> QED
      BY <2>3, <3>1
  <2> QED
    BY <2>2, <2>3
<1>25. ASSUME NEW d \in Device, SenderKilled(d) PROVE WorkingIsRegistered'
  BY <1>25 DEF SenderKilled
<1>26. ASSUME NEW d \in Device, SpuriousWakeup(d) PROVE WorkingIsRegistered'
  BY <1>26 DEF SpuriousWakeup
<1> QED
  BY <1>1, <1>2, <1>3, <1>4, <1>5, <1>6, <1>7, <1>8, <1>9, <1>10, <1>11,
     <1>12, <1>13, <1>14, <1>15, <1>16, <1>17, <1>18, <1>19, <1>20, <1>21,
     <1>22, <1>23, <1>24, <1>25, <1>26
     DEF Next, Main, Receiver, Sender, Peer, Finished

(* The threads stay in step.                                               *)
LEMMA ThreadsStep ==
  ASSUME IInv, [Next]_vars
  PROVE  ThreadsInStep'
<1> USE DEF IInv, TypeOK, WorkingIsRegistered, ThreadsInStep, MainAt, RecvAt,
            SendAt, memoryVars, queueVars, threadVars, castVars
<1>1. CASE UNCHANGED vars
  BY <1>1 DEF vars
<1>2. CASE Dispatch
  BY <1>2 DEF Dispatch
<1>3. ASSUME NEW d \in Device, Accept(d) PROVE ThreadsInStep'
  BY <1>3 DEF Accept
<1>4. ASSUME NEW d \in Device, MainStart(d) PROVE ThreadsInStep'
  BY <1>4 DEF MainStart, Acquire
<1>5. ASSUME NEW d \in Device, MainPing(d) PROVE ThreadsInStep'
  BY <1>5 DEF MainPing, Signalled
<1>6. ASSUME NEW d \in Device, MainCheck(d) PROVE ThreadsInStep'
  BY <1>6 DEF MainCheck
<1>7. ASSUME NEW d \in Device, MainRelease(d) PROVE ThreadsInStep'
  BY <1>7 DEF MainRelease, Release
<1>8. ASSUME NEW d \in Device, RecvStart(d) PROVE ThreadsInStep'
  BY <1>8 DEF RecvStart, Acquire
<1>9. ASSUME NEW d \in Device, RecvInsert(d) PROVE ThreadsInStep'
  BY <1>9 DEF RecvInsert
<1>10. ASSUME NEW d \in Device, Collect(d) PROVE ThreadsInStep'
  <2>1. /\ recvPc[d] = "collect" /\ NextTarget(d, network_devices)
        /\ targets' = [targets EXCEPT ![d] = network_devices]
        /\ memory_pointers' = [e \in Device |->
             IF e \in network_devices THEN memory_pointers[e] + 1 ELSE memory_pointers[e]]
        /\ UNCHANGED <<alloc, mainPc, sendPc, connection_state>>
    BY <1>10 DEF Collect, AcquireAll
  <2>2. /\ network_devices \subseteq Device
        /\ \A e \in network_devices : alloc[e] = "live" /\ recvPc[e] # "none"
    BY RegisteredIsSafe
  <2>3. /\ \A e \in Device : e # d => recvPc'[e] = recvPc[e] /\ target'[e] = target[e]
        /\ recvPc'[d] = "push" /\ target'[d] \in network_devices
    <3>1. network_devices # {}
      BY <2>1 DEF WorkingIsRegistered
    <3>2. PICK t \in Device \cup {NoDevice} :
            /\ target' = [target EXCEPT ![d] = t]
            /\ t \in network_devices /\ recvPc' = [recvPc EXCEPT ![d] = "push"]
      BY <2>1, <2>2, <3>1, NextTargetPicks
    <3> QED
      BY <3>2
  <2>4. ThreadsInStep
    OBVIOUS
  <2>5. /\ \A e \in Device : e # d => targets'[e] = targets[e]
        /\ targets'[d] = network_devices
        /\ \A e \in Device :
             alloc[e] \in {"none", "listed"} => memory_pointers'[e] = memory_pointers[e]
    BY <2>1, <2>2
  <2> HIDE DEF IInv, TypeOK
  <2> QED
    BY <2>1, <2>2, <2>3, <2>4, <2>5 DEF ThreadsInStep
<1>11. ASSUME NEW d \in Device, Push(d) PROVE ThreadsInStep'
  BY <1>11 DEF Push, Release
<1>12. ASSUME NEW d \in Device, SignalTarget(d) PROVE ThreadsInStep'
  <2>1. /\ recvPc[d] = "signal" /\ NextTarget(d, targets[d])
        /\ \A e \in Device : sendPc'[e] = "none" <=> sendPc[e] = "none"
        /\ UNCHANGED <<alloc, mainPc, memory_pointers, connection_state, targets>>
    BY <1>12 DEF SignalTarget, Signalled
  <2>2. targets[d] \subseteq Device
    OBVIOUS
  <2>3. /\ \A e \in Device : e # d => recvPc'[e] = recvPc[e] /\ target'[e] = target[e]
        /\ recvPc'[d] = IF targets[d] = {} THEN "read" ELSE "push"
        /\ targets[d] # {} => target'[d] \in targets[d]
    <3>1. PICK t \in Device \cup {NoDevice} :
            /\ target' = [target EXCEPT ![d] = t]
            /\ IF targets[d] = {} THEN recvPc' = [recvPc EXCEPT ![d] = "read"]
               ELSE t \in targets[d] /\ recvPc' = [recvPc EXCEPT ![d] = "push"]
      BY <2>1, <2>2, NextTargetPicks
    <3>2. CASE targets[d] = {}
      BY <3>1, <3>2
    <3>3. CASE targets[d] # {}
      <4>1. t \in targets[d] /\ recvPc' = [recvPc EXCEPT ![d] = "push"]
        BY <3>1, <3>3
      <4>2. recvPc'[d] = "push" /\ target'[d] \in targets[d]
        BY <3>1, <4>1
      <4> QED
        BY <3>1, <3>3, <4>1, <4>2
    <3> QED
      BY <3>2, <3>3
  <2>4. ThreadsInStep
    OBVIOUS
  <2> HIDE DEF IInv, TypeOK
  <2> QED
    BY <2>1, <2>3, <2>4 DEF ThreadsInStep
<1>13. ASSUME NEW d \in Device, RecvEnd(d) PROVE ThreadsInStep'
  BY <1>13 DEF RecvEnd, Release
<1>14. ASSUME NEW d \in Device, RecvNotify(d) PROVE ThreadsInStep'
  BY <1>14 DEF RecvNotify, Signalled
<1>15. ASSUME NEW d \in Device, RecvRelease(d) PROVE ThreadsInStep'
  BY <1>15 DEF RecvRelease, Release
<1>16. ASSUME NEW d \in Device, SenderStart(d) PROVE ThreadsInStep'
  <2>1. /\ sendPc[d] = "start"
        /\ UNCHANGED <<alloc, mainPc, recvPc, connection_state, target, targets>>
    BY <1>16 DEF SenderStart, Acquire
  <2>2. CASE alloc[d] = "live"
    <3>1. /\ sendPc' = [sendPc EXCEPT ![d] = "lock"]
          /\ memory_pointers' = [memory_pointers EXCEPT ![d] = @ + 1]
      BY <1>16, <2>2 DEF SenderStart, Acquire
    <3> QED
      BY <2>1, <2>2, <3>1
  <2>3. CASE alloc[d] # "live"
    <3>1. sendPc' = [sendPc EXCEPT ![d] = "lost"] /\ UNCHANGED memory_pointers
      BY <1>16, <2>3 DEF SenderStart
    <3> QED
      BY <2>1, <3>1
  <2> QED
    BY <2>2, <2>3
<1>17. ASSUME NEW d \in Device, SenderWait(d) PROVE ThreadsInStep'
  BY <1>17 DEF SenderWait
<1>18. ASSUME NEW d \in Device, SenderRelock(d) PROVE ThreadsInStep'
  BY <1>18 DEF SenderRelock
<1>19. ASSUME NEW d \in Device, SenderFlush(d) PROVE ThreadsInStep'
  BY <1>19 DEF SenderFlush, SendAll
<1>20. ASSUME NEW d \in Device, SenderCheck(d) PROVE ThreadsInStep'
  BY <1>20 DEF SenderCheck
<1>21. ASSUME NEW d \in Device, SenderRelease(d) PROVE ThreadsInStep'
  BY <1>21 DEF SenderRelease, Release
<1>22. ASSUME NEW d \in Device, RecvPing(d) PROVE ThreadsInStep'
  BY <1>22 DEF RecvPing, Verified, Acquire
<1>23. ASSUME NEW d \in Device, RecvData(d) PROVE ThreadsInStep'
  BY <1>23 DEF RecvData, Verified, Acquire
<1>24. ASSUME NEW d \in Device, RecvFail(d) PROVE ThreadsInStep'
  <2>1. UNCHANGED <<alloc, mainPc, sendPc, memory_pointers, connection_state,
                    target, targets>>
    BY <1>24 DEF RecvFail
  <2>2. recvPc[d] = "read" /\ targets[d] = {}
    BY <1>24 DEF RecvFail
  <2>3. CASE connection_state[d] = "WORKING"
    <3>1. recvPc' = [recvPc EXCEPT ![d] = "dropRegistry"]
      BY <1>24, <2>3 DEF RecvFail
    <3> QED
      BY <2>1, <2>2, <2>3, <3>1
  <2>4. CASE connection_state[d] # "WORKING"
    <3>1. recvPc' = [recvPc EXCEPT ![d] = "ending"]
      BY <1>24, <2>4 DEF RecvFail
    <3> QED
      BY <2>1, <2>2, <2>4, <3>1
  <2> QED
    BY <2>3, <2>4
<1>25. ASSUME NEW d \in Device, SenderKilled(d) PROVE ThreadsInStep'
  BY <1>25 DEF SenderKilled
<1>26. ASSUME NEW d \in Device, SpuriousWakeup(d) PROVE ThreadsInStep'
  BY <1>26 DEF SpuriousWakeup
<1> QED
  BY <1>1, <1>2, <1>3, <1>4, <1>5, <1>6, <1>7, <1>8, <1>9, <1>10, <1>11,
     <1>12, <1>13, <1>14, <1>15, <1>16, <1>17, <1>18, <1>19, <1>20, <1>21,
     <1>22, <1>23, <1>24, <1>25, <1>26
     DEF Next, Main, Receiver, Sender, Peer, Finished

(* Every step admits connections, or leaves all users as they are, or lets *)
(* one user join or leave.                                                 *)
UserStep ==
  \/ KeepsUsers
  \/ \E u \in User, D \in SUBSET Device : Joins(u, D)
  \/ \E u \in User, d \in Device : Leaves(u, d)

LEMMA EveryUserStep ==
  ASSUME IInv, [Next]_vars
  PROVE  UserStep \/ Dispatch \/ \E d \in Device : Accept(d)
<1>0. \A d \in Device, w \in {"main", "sender", "receiver", "registry", "broadcast"} :
        <<w, d>> \in User /\ {d} \in SUBSET Device
  BY DEF User
<1>1. CASE UNCHANGED vars
  <2>1. UNCHANGED <<alloc, sockfd, openFds, memory_pointers, mainPc, recvPc, sendPc,
                    targets, network_devices>>
    BY <1>1 DEF vars, memoryVars, threadVars, castVars
  <2>2. \A e \in Device, v \in User : Holds(v, e)' <=> Holds(v, e)
    BY <2>1 DEF Holds, MainHolds, SenderHolds, ReceiverHolds, RegistryHolds
  <2> QED
    BY <2>1, <2>2 DEF UserStep, KeepsUsers
<1>2. ASSUME NEW d \in Device, MainStart(d) PROVE UserStep
  BY <1>0, <1>2, MainStartUsers DEF UserStep
<1>3. ASSUME NEW d \in Device, MainPing(d) PROVE UserStep
  BY <1>0, <1>3, InsideUsers DEF UserStep
<1>4. ASSUME NEW d \in Device, MainCheck(d) PROVE UserStep
  BY <1>0, <1>4, InsideUsers DEF UserStep
<1>5. ASSUME NEW d \in Device, MainRelease(d) PROVE UserStep
  BY <1>0, <1>5, ThreadReleaseUsers DEF UserStep
<1>6. ASSUME NEW d \in Device, RecvStart(d) PROVE UserStep
  BY <1>0, <1>6, RecvStartUsers DEF UserStep
<1>7. ASSUME NEW d \in Device, RecvInsert(d) PROVE UserStep
  BY <1>0, <1>7, RecvInsertUsers DEF UserStep
<1>8. ASSUME NEW d \in Device, Collect(d) PROVE UserStep
  BY <1>0, <1>8, CollectUsers DEF UserStep, IInv, TypeOK
<1>9. ASSUME NEW d \in Device, Push(d) PROVE UserStep
  BY <1>0, <1>9, PushUsers DEF UserStep
<1>10. ASSUME NEW d \in Device, SignalTarget(d) PROVE UserStep
  BY <1>0, <1>10, SignalTargetUsers DEF UserStep
<1>11. ASSUME NEW d \in Device, RecvEnd(d) PROVE UserStep
  BY <1>0, <1>11, RecvEndUsers DEF UserStep
<1>12. ASSUME NEW d \in Device, RecvNotify(d) PROVE UserStep
  BY <1>0, <1>12, InsideUsers DEF UserStep
<1>13. ASSUME NEW d \in Device, RecvRelease(d) PROVE UserStep
  BY <1>0, <1>13, ThreadReleaseUsers DEF UserStep
<1>14. ASSUME NEW d \in Device, SenderStart(d) PROVE UserStep
  BY <1>0, <1>14, SenderStartUsers DEF UserStep
<1>15. ASSUME NEW d \in Device, SenderWait(d) PROVE UserStep
  BY <1>0, <1>15, InsideUsers DEF UserStep
<1>16. ASSUME NEW d \in Device, SenderRelock(d) PROVE UserStep
  BY <1>0, <1>16, InsideUsers DEF UserStep
<1>17. ASSUME NEW d \in Device, SenderFlush(d) PROVE UserStep
  BY <1>0, <1>17, InsideUsers DEF UserStep
<1>18. ASSUME NEW d \in Device, SenderCheck(d) PROVE UserStep
  BY <1>0, <1>18, InsideUsers DEF UserStep
<1>19. ASSUME NEW d \in Device, SenderRelease(d) PROVE UserStep
  BY <1>0, <1>19, ThreadReleaseUsers DEF UserStep
<1>20. ASSUME NEW d \in Device, RecvPing(d) PROVE UserStep
  BY <1>0, <1>20, VerifiedUsers DEF UserStep, RecvPing
<1>21. ASSUME NEW d \in Device, RecvData(d) PROVE UserStep
  BY <1>0, <1>21, VerifiedUsers DEF UserStep, RecvData
<1>22. ASSUME NEW d \in Device, RecvFail(d) PROVE UserStep
  BY <1>0, <1>22, RecvFailUsers DEF UserStep
<1>23. ASSUME NEW d \in Device, SenderKilled(d) PROVE UserStep
  BY <1>0, <1>23, InsideUsers DEF UserStep
<1>24. ASSUME NEW d \in Device, SpuriousWakeup(d) PROVE UserStep
  BY <1>0, <1>24, InsideUsers DEF UserStep
<1> QED
  BY <1>1, <1>2, <1>3, <1>4, <1>5, <1>6, <1>7, <1>8, <1>9, <1>10, <1>11,
     <1>12, <1>13, <1>14, <1>15, <1>16, <1>17, <1>18, <1>19, <1>20, <1>21,
     <1>22, <1>23, <1>24
     DEF Next, Main, Receiver, Sender, Peer, Finished

(* The server starts with no object, no thread and an empty registry.      *)
LEMMA InitIInv == Init => IInv
<1> SUFFICES ASSUME Init PROVE IInv
  OBVIOUS
<1>1. TypeOK
  BY DEF Init, TypeOK, MainPc, RecvPc, SendPc
<1>2. \A d \in Device : Holders(d) = {}
  BY DEF Init, Holders, Holds, User, MainHolds, SenderHolds, ReceiverHolds, RegistryHolds
<1>3. RefCount /\ UsersAreSafe /\ DescriptorsDistinct
  BY <1>2 DEF Init, RefCount, UsersAreSafe, DescriptorsDistinct
<1>4. WorkingIsRegistered /\ ThreadsInStep
  BY DEF Init, WorkingIsRegistered, ThreadsInStep
<1> QED
  BY <1>1, <1>3, <1>4 DEF IInv

(* Every step of the server preserves the inductive invariant.             *)
LEMMA NextIInv == IInv /\ [Next]_vars => IInv'
<1> SUFFICES ASSUME IInv, [Next]_vars PROVE IInv'
  OBVIOUS
<1>1. RefCount' /\ UsersAreSafe' /\ DescriptorsDistinct'
  BY EveryUserStep, KeepsUsersCounts, JoinsCounts, LeavesCounts, AdmissionCounts
     DEF UserStep
<1> QED
  BY <1>1, TypeStep, RegistryStep, ThreadsStep DEF IInv

-----------------------------------------------------------------------------
(* The refinement of DeviceLifetime                                        *)

(* No object exists when the server starts.                                *)
LEMMA InitLifetime == Init => Lifetime!Init
<1> SUFFICES ASSUME Init PROVE Lifetime!Init
  OBVIOUS
<1>1. \A d \in Device : Holders(d) = {}
  BY DEF Init, Holders, Holds, User, MainHolds, SenderHolds, ReceiverHolds,
         RegistryHolds
<1> QED
  BY <1>1 DEF Init, Lifetime!Init, Phase, Users

(* A step without an acquire or a release of memory.cpp is a stutter.      *)
LEMMA KeepsRefines ==
  ASSUME IInv, KeepsUsers
  PROVE  UNCHANGED <<Phase, Users>>
<1>1. \A e \in Device : Holders(e)' = Holders(e)
  BY DEF KeepsUsers, Holders, User
<1> QED
  BY <1>1 DEF KeepsUsers, Phase, Users

(* acquire, of one object or of all those a broadcast lists, is Join.      *)
LEMMA JoinsRefines ==
  ASSUME IInv, NEW u \in User, NEW D \in SUBSET Device, Joins(u, D)
  PROVE  Lifetime!Join(u, D)
<1>1. \A e \in Device :
        Holders(e)' = IF e \in D THEN Holders(e) \cup {u} ELSE Holders(e)
  BY DEF Joins, Holders, User
<1>2. \A d \in D : Phase[d] = "live" /\ u \notin Users[d]
  BY DEF Joins, Phase, Users, Holders
<1>3. Users' = [d \in Device |-> IF d \in D THEN Users[d] \cup {u} ELSE Users[d]]
  BY <1>1 DEF Users
<1>4. UNCHANGED Phase
  BY DEF Joins, Phase
<1> QED
  BY <1>2, <1>3, <1>4 DEF Lifetime!Join

(* release is Leave: it deletes exactly when its caller was the last user. *)
LEMMA LeavesRefines ==
  ASSUME IInv, NEW u \in User, NEW d \in Device, Leaves(u, d)
  PROVE  Lifetime!Leave(u, d)
<1>1. \A e \in Device :
        Holders(e)' = IF e = d THEN Holders(e) \ {u} ELSE Holders(e)
  BY DEF Leaves, Holders, User
<1>2. u \in Users[d]
  BY DEF Leaves, Holders, Users
<1>3. Users' = [Users EXCEPT ![d] = @ \ {u}]
  BY <1>1 DEF Users
<1>4. alloc[d] = "live" /\ (memory_pointers[d] = 1 <=> Users[d] = {u})
  BY LeavesCounts DEF Users
<1>5. Phase' = [Phase EXCEPT ![d] = IF Users[d] = {u} THEN "freed" ELSE @]
  BY <1>4 DEF IInv, TypeOK, Leaves, Release, Phase
<1> QED
  BY <1>2, <1>3, <1>5 DEF Lifetime!Leave

(* main.cpp's dispatcher is Create of everything listed, and an accept is  *)
(* a stutter.                                                              *)
LEMMA AdmissionRefines ==
  ASSUME IInv, Dispatch \/ \E d \in Device : Accept(d)
  PROVE  [Lifetime!Next]_<<Phase, Users>>
<1>1. UNCHANGED Users
  BY AdmissionUsers DEF Users
<1>2. CASE Dispatch
  <2> DEFINE listed == {d \in Device : alloc[d] = "listed"}
  <2>1. \A d \in listed : Phase[d] = "none"
    BY DEF Phase
  <2>2. Phase' = [d \in Device |-> IF d \in listed THEN "live" ELSE Phase[d]]
    BY <1>2 DEF Dispatch, Phase
  <2>3. Lifetime!Create(listed) /\ listed \in SUBSET Device
    BY <1>1, <2>1, <2>2 DEF Lifetime!Create
  <2> QED
    BY <2>3 DEF Lifetime!Next
<1>3. ASSUME NEW d \in Device, Accept(d) PROVE UNCHANGED Phase
  BY <1>3 DEF Accept, Phase, IInv, TypeOK
<1> QED
  BY <1>1, <1>2, <1>3

(* Every step of the server is a step of DeviceLifetime or a stutter.      *)
LEMMA NextLifetime == IInv /\ [Next]_vars => [Lifetime!Next]_<<Phase, Users>>
<1> SUFFICES ASSUME IInv, [Next]_vars PROVE [Lifetime!Next]_<<Phase, Users>>
  OBVIOUS
<1>1. CASE KeepsUsers
  BY <1>1, KeepsRefines
<1>2. ASSUME NEW u \in User, NEW D \in SUBSET Device, Joins(u, D)
      PROVE  Lifetime!Next
  BY <1>2, JoinsRefines DEF Lifetime!Next
<1>3. ASSUME NEW u \in User, NEW d \in Device, Leaves(u, d)
      PROVE  Lifetime!Next
  BY <1>3, LeavesRefines DEF Lifetime!Next
<1>4. CASE Dispatch \/ \E d \in Device : Accept(d)
  BY <1>4, AdmissionRefines
<1> QED
  BY <1>1, <1>2, <1>3, <1>4, EveryUserStep DEF UserStep

-----------------------------------------------------------------------------
(* The inductive invariant holds in every reachable state of the server,   *)
(* for any number of connections, descriptors and messages.                *)
THEOREM Invariance == Spec => []IInv
BY InitIInv, NextIInv, PTL DEF Spec

(* All variables of the server keep their types.                           *)
THEOREM TypeCorrect == Spec => []TypeOK
<1>1. IInv => TypeOK
  BY DEF IInv
<1> QED
  BY <1>1, Invariance, PTL

(* memory.cpp: memory_pointers is exactly the number of users.             *)
THEOREM CountIsExact == Spec => []RefCount
<1>1. IInv => RefCount
  BY DEF IInv
<1> QED
  BY <1>1, Invariance, PTL

(* memory.cpp: an object that has a user is not deleted.                   *)
THEOREM NoUserIsFreed == Spec => []UsersAreSafe
<1>1. IInv => UsersAreSafe
  BY DEF IInv
<1> QED
  BY <1>1, Invariance, PTL

(* memory.cpp and network.cpp: a connection keeps its own descriptor until *)
(* its object is deleted, so comparing sockfd compares devices.            *)
THEOREM DescriptorsIdentify == Spec => []DescriptorsDistinct
<1>1. IInv => DescriptorsDistinct
  BY DEF IInv
<1> QED
  BY <1>1, Invariance, PTL

(* network.cpp: the registry holds exactly the working connections that    *)
(* have not begun to end.                                                  *)
THEOREM RegistryIsExact == Spec => []WorkingIsRegistered
<1>1. IInv => WorkingIsRegistered
  BY DEF IInv
<1> QED
  BY <1>1, Invariance, PTL

(* device.cpp: the receiver alone moves the state of its connection, and   *)
(* the threads of a device start and end in the order the counting rests   *)
(* on.                                                                     *)
THEOREM ThreadsKeepStep == Spec => []ThreadsInStep
<1>1. IInv => ThreadsInStep
  BY DEF IInv
<1> QED
  BY <1>1, Invariance, PTL

(* memory.h: the threads of device.cpp, the registry and the broadcasts    *)
(* use the objects as DeviceLifetime says, a user joining only what lives  *)
(* and the last one to leave freeing it.                                   *)
THEOREM CountingIsLifetime == Spec => CountingImplementsLifetime
<1>1. Init => Lifetime!Init
  BY InitLifetime
<1>2. IInv /\ [Next]_vars => [Lifetime!Next]_<<Phase, Users>>
  BY NextLifetime
<1> QED
  BY <1>1, <1>2, Invariance, PTL
     DEF CountingImplementsLifetime, Lifetime!Spec, Lifetime!vars, Spec

-----------------------------------------------------------------------------
(* One thread at a time, and none that has ended                           *)

(* The two kinds of thread that keep new_message_mutex across steps.       *)
Sends(d) == sendPc[d] = "sending"
Casts(r, d) == recvPc[r] = "signal" /\ target[r] = d

(* A step that neither takes nor gives a mutex.                            *)
Quiet ==
  /\ UNCHANGED locked
  /\ \A d \in Device : Sends(d)' <=> Sends(d)
  /\ \A r, d \in Device : Casts(r, d)' <=> Casts(r, d)

(* A step that takes the free mutex of d, for its sender or for r's        *)
(* broadcast, and one that gives it back.                                  *)
SenderTakes(d) ==
  /\ ~locked[d] /\ locked' = [locked EXCEPT ![d] = TRUE]
  /\ \A e \in Device : Sends(e)' <=> Sends(e) \/ e = d
  /\ \A s, e \in Device : Casts(s, e)' <=> Casts(s, e)
SenderGives(d) ==
  /\ Sends(d) /\ locked' = [locked EXCEPT ![d] = FALSE]
  /\ \A e \in Device : Sends(e)' <=> Sends(e) /\ e # d
  /\ \A s, e \in Device : Casts(s, e)' <=> Casts(s, e)
CasterTakes(r, d) ==
  /\ ~locked[d] /\ locked' = [locked EXCEPT ![d] = TRUE]
  /\ \A e \in Device : Sends(e)' <=> Sends(e)
  /\ \A s, e \in Device : Casts(s, e)' <=> Casts(s, e) \/ (s = r /\ e = d)
CasterGives(r, d) ==
  /\ Casts(r, d) /\ locked' = [locked EXCEPT ![d] = FALSE]
  /\ \A e \in Device : Sends(e)' <=> Sends(e)
  /\ \A s, e \in Device : Casts(s, e)' <=> Casts(s, e) /\ ~(s = r /\ e = d)

MutexStep ==
  \/ Quiet
  \/ \E d \in Device : SenderTakes(d) \/ SenderGives(d)
  \/ \E r, d \in Device : CasterTakes(r, d) \/ CasterGives(r, d)

(* MutexOwner in terms of the two predicates.                              *)
Owned ==
  \A d \in Device :
    /\ locked[d] <=> Sends(d) \/ \E r \in Device : Casts(r, d)
    /\ \A r \in Device : ~(Sends(d) /\ Casts(r, d))
    /\ \A r, s \in Device : Casts(r, d) /\ Casts(s, d) => r = s

(* The two ways of naming the owner of a mutex agree, in both states.     *)
LEMMA OwnedIsMutexOwner == (Owned <=> MutexOwner) /\ (Owned' <=> MutexOwner')
BY DEF Owned, MutexOwner, Sends, Casts

(* Whatever a mutex step does, the mutexes stay owned.                     *)
LEMMA MutexStepKeepsOwned ==
  ASSUME locked \in [Device -> BOOLEAN], Owned, MutexStep
  PROVE  Owned'
<1>1. CASE Quiet
  BY <1>1 DEF Quiet, Owned
<1>2. ASSUME NEW d \in Device, SenderTakes(d) PROVE Owned'
  BY <1>2 DEF SenderTakes, Owned
<1>3. ASSUME NEW d \in Device, SenderGives(d) PROVE Owned'
  BY <1>3 DEF SenderGives, Owned
<1>4. ASSUME NEW r \in Device, NEW d \in Device, CasterTakes(r, d) PROVE Owned'
  BY <1>4 DEF CasterTakes, Owned
<1>5. ASSUME NEW r \in Device, NEW d \in Device, CasterGives(r, d) PROVE Owned'
  BY <1>5 DEF CasterGives, Owned
<1> QED
  BY <1>1, <1>2, <1>3, <1>4, <1>5 DEF MutexStep

(* NextTarget moves a receiver that does not broadcast a device at the     *)
(* moment to one that does not either.                                     *)
LEMMA NextTargetQuiet ==
  ASSUME NEW d \in Device, NEW left, recvPc \in [Device -> RecvPc],
         target \in [Device -> Device \cup {NoDevice}], NextTarget(d, left)
  PROVE  /\ recvPc'[d] # "signal"
         /\ \A r \in Device : r # d => recvPc'[r] = recvPc[r] /\ target'[r] = target[r]
<1>1. PICK t : target' = [target EXCEPT ![d] = t]
  BY DEF NextTarget
<1>2. PICK pc \in {"read", "push"} : recvPc' = [recvPc EXCEPT ![d] = pc]
  BY DEF NextTarget
<1> QED
  BY <1>1, <1>2

(* Every step takes one mutex, gives one back, or leaves all alone.        *)
LEMMA EveryMutexStep ==
  ASSUME IInv, [Next]_vars
  PROVE  MutexStep
<1> USE DEF IInv, TypeOK, MainAt, RecvAt, SendAt, memoryVars, queueVars,
            threadVars, castVars
<1>1. CASE UNCHANGED vars
  BY <1>1 DEF vars, MutexStep, Quiet, Sends, Casts
<1>2. CASE Dispatch
  BY <1>2 DEF Dispatch, MutexStep, Quiet, Sends, Casts
<1>3. ASSUME NEW d \in Device, Accept(d) PROVE MutexStep
  BY <1>3 DEF Accept, MutexStep, Quiet, Sends, Casts
<1>4. ASSUME NEW d \in Device, MainStart(d) PROVE MutexStep
  <2>1. sendPc[d] = "none" /\ recvPc[d] = "none"
    BY <1>4 DEF MainStart, ThreadsInStep
  <2>2. sendPc' = sendPc \/ sendPc' = [sendPc EXCEPT ![d] = "start"]
    BY <1>4 DEF MainStart
  <2>3. recvPc' = recvPc \/ recvPc' = [recvPc EXCEPT ![d] = "start"]
    BY <1>4 DEF MainStart
  <2>4. UNCHANGED <<locked, target>>
    BY <1>4 DEF MainStart
  <2> QED
    BY <2>1, <2>2, <2>3, <2>4 DEF MutexStep, Quiet, Sends, Casts
<1>5. ASSUME NEW d \in Device, MainPing(d) PROVE MutexStep
  BY <1>5 DEF MainPing, Signalled, MutexStep, Quiet, Sends, Casts
<1>6. ASSUME NEW d \in Device, MainCheck(d) \/ MainRelease(d) PROVE MutexStep
  BY <1>6 DEF MainCheck, MainRelease, MutexStep, Quiet, Sends, Casts
<1>7. ASSUME NEW d \in Device, RecvStart(d) PROVE MutexStep
  BY <1>7 DEF RecvStart, MutexStep, Quiet, Sends, Casts
<1>8. ASSUME NEW d \in Device, RecvInsert(d) PROVE MutexStep
  BY <1>8 DEF RecvInsert, MutexStep, Quiet, Sends, Casts
<1>9. ASSUME NEW d \in Device, RecvPing(d) \/ RecvData(d) PROVE MutexStep
  BY <1>9 DEF RecvPing, RecvData, Verified, MutexStep, Quiet, Sends, Casts
<1>10. ASSUME NEW d \in Device, Collect(d) PROVE MutexStep
  <2>1. recvPc[d] = "collect" /\ NextTarget(d, network_devices)
    BY <1>10 DEF Collect
  <2>2. UNCHANGED <<locked, sendPc>>
    BY <1>10 DEF Collect
  <2> QED
    BY <2>1, <2>2, NextTargetQuiet DEF MutexStep, Quiet, Sends, Casts
<1>11. ASSUME NEW d \in Device, Push(d) PROVE MutexStep
  <2>1. target[d] \in Device
    BY <1>11 DEF Push, ThreadsInStep
  <2>2. CasterTakes(d, target[d])
    BY <1>11, <2>1 DEF Push, CasterTakes, Sends, Casts
  <2> QED
    BY <2>1, <2>2 DEF MutexStep
<1>12. ASSUME NEW d \in Device, SignalTarget(d) PROVE MutexStep
  <2>1. target[d] \in Device /\ recvPc[d] = "signal"
    BY <1>12 DEF SignalTarget, ThreadsInStep
  <2>2. NextTarget(d, targets[d])
    BY <1>12 DEF SignalTarget
  <2>3. \A e \in Device : Sends(e)' <=> Sends(e)
    BY <1>12 DEF SignalTarget, Signalled, Sends
  <2>4. \A s, e \in Device : Casts(s, e)' <=> Casts(s, e) /\ ~(s = d /\ e = target[d])
    BY <2>1, <2>2, NextTargetQuiet DEF Casts
  <2>5. locked' = [locked EXCEPT ![target[d]] = FALSE]
    BY <1>12 DEF SignalTarget
  <2>6. CasterGives(d, target[d])
    BY <2>1, <2>3, <2>4, <2>5 DEF CasterGives, Casts
  <2> QED
    BY <2>1, <2>6 DEF MutexStep
<1>13. ASSUME NEW d \in Device, RecvFail(d) PROVE MutexStep
  BY <1>13 DEF RecvFail, MutexStep, Quiet, Sends, Casts
<1>14. ASSUME NEW d \in Device, RecvEnd(d) PROVE MutexStep
  BY <1>14 DEF RecvEnd, MutexStep, Quiet, Sends, Casts
<1>15. ASSUME NEW d \in Device, RecvNotify(d) PROVE MutexStep
  BY <1>15 DEF RecvNotify, Signalled, MutexStep, Quiet, Sends, Casts
<1>16. ASSUME NEW d \in Device, RecvRelease(d) PROVE MutexStep
  BY <1>16 DEF RecvRelease, MutexStep, Quiet, Sends, Casts
<1>17. ASSUME NEW d \in Device, SenderStart(d) \/ SenderWait(d) \/ SpuriousWakeup(d)
       PROVE  MutexStep
  BY <1>17 DEF SenderStart, SenderWait, SpuriousWakeup, MutexStep, Quiet, Sends, Casts
<1>18. ASSUME NEW d \in Device, SenderRelock(d) PROVE MutexStep
  <2>1. SenderTakes(d)
    BY <1>18 DEF SenderRelock, SenderTakes, Sends, Casts
  <2> QED
    BY <2>1 DEF MutexStep
<1>19. ASSUME NEW d \in Device, SenderFlush(d) PROVE MutexStep
  <2>1. SenderGives(d)
    BY <1>19 DEF SenderFlush, SenderGives, Sends, Casts
  <2> QED
    BY <2>1 DEF MutexStep
<1>20. ASSUME NEW d \in Device, SenderCheck(d) \/ SenderRelease(d) \/ SenderKilled(d)
       PROVE  MutexStep
  BY <1>20 DEF SenderCheck, SenderRelease, SenderKilled, MutexStep, Quiet, Sends, Casts
<1> QED
  BY <1>1, <1>2, <1>3, <1>4, <1>5, <1>6, <1>7, <1>8, <1>9, <1>10, <1>11,
     <1>12, <1>13, <1>14, <1>15, <1>16, <1>17, <1>18, <1>19, <1>20
     DEF Next, Main, Receiver, Sender, Peer, Finished

(* Only Collect, the listing of the registry, makes a broadcast due.       *)
LEMMA OnlyCollectAdds ==
  ASSUME [Next]_vars, due' # due
  PROVE  \E d \in Device : Collect(d)
BY DEF Next, Main, Receiver, Sender, Peer, Finished, vars, castVars, threadVars,
       Dispatch, Accept, MainStart, MainPing, MainCheck, MainRelease, RecvStart,
       RecvInsert, RecvPing, RecvData, Verified, Push, SignalTarget, RecvFail,
       RecvEnd, RecvNotify, RecvRelease, SenderStart, SenderWait, SpuriousWakeup,
       SenderRelock, SenderFlush, SenderCheck, SenderRelease, SenderKilled

-----------------------------------------------------------------------------
(* device.cpp and network.cpp: new_message_mutex has one owner, the sender *)
(* of its device or one broadcaster, exactly while it is locked.           *)
THEOREM MutexIsExclusive == Spec => []MutexOwner
<1>1. Init => Owned
  BY DEF Init, Owned, Sends, Casts
<1>2. IInv /\ Owned /\ [Next]_vars => Owned'
  BY EveryMutexStep, MutexStepKeepsOwned DEF IInv, TypeOK
<1>3. Owned => MutexOwner
  BY OwnedIsMutexOwner
<1> QED
  BY <1>1, <1>2, <1>3, Invariance, PTL DEF Spec

(* network.h: a connection that has ended receives no later broadcast,     *)
(* because it left the registry before its state said so.                  *)
THEOREM EndedIsNotListed == Spec => NoFutureBroadcast
<1>1. IInv /\ [Next]_vars =>
        [\A d \in Device : connection_state[d] = "ENDED" => due'[d] = due[d]]_vars
  <2> SUFFICES ASSUME IInv, [Next]_vars, NEW d \in Device,
                      connection_state[d] = "ENDED", due' # due
               PROVE  due'[d] = due[d]
    OBVIOUS
  <2>1. PICK r \in Device : Collect(r)
    BY OnlyCollectAdds
  <2>2. d \notin network_devices
    BY DEF IInv, WorkingIsRegistered
  <2> QED
    BY <2>1, <2>2 DEF Collect
<1> QED
  BY <1>1, Invariance, PTL DEF Spec, NoFutureBroadcast

-----------------------------------------------------------------------------
(* What is delivered                                                       *)

(* The current message of r may still be pushed to d.                      *)
Pending(r, d) == Fresh(r) \/ d \in targets[r]

(* What InOrderOnce needs to be inductive: a device has got no message     *)
(* that its origin has not sent, and the current one of an origin only     *)
(* when the origin's broadcast is past the device.                         *)
OnlySent ==
  \A d \in Device : \A i \in DOMAIN Out(d) :
    LET m == Out(d)[i] IN
    /\ m.seq <= received[m.origin]
    /\ Pending(m.origin, d) => m.seq < received[m.origin]

(* InOrderOnce in terms of Out.                                            *)
Ordered ==
  \A d \in Device : \A i, j \in DOMAIN Out(d) :
    i < j /\ Out(d)[i].origin = Out(d)[j].origin => Out(d)[i].seq < Out(d)[j].seq

(* NothingLost, message by message.                                        *)
Listed(m, d) ==
  \/ \E r \in Device : d \in targets[r] /\ m = CurrentMessage(r)
  \/ \E i \in DOMAIN Out(d) : m = Out(d)[i]
Kept == \A d \in Device : \A m : m \in due[d] <=> Listed(m, d)

(* The types these proofs rest on.                                         *)
Typed ==
  /\ received \in [Device -> Nat]
  /\ targets \in [Device -> SUBSET Device]
  /\ due \in [Device -> SUBSET Message]
  /\ \A d \in Device : Out(d) \in Seq(Message)

-----------------------------------------------------------------------------
(* What a step does to the messages                                        *)

(* Nothing, whatever it does to the threads and the registry.              *)
Still ==
  /\ UNCHANGED <<due, targets, received>>
  /\ \A d \in Device : Out(d)' = Out(d)
  /\ \A r \in Device : Fresh(r)' <=> Fresh(r)
  /\ \/ UNCHANGED network_devices
     \/ \E d \in Device : d \notin network_devices /\ network_devices' = network_devices \cup {d}
     \/ \E d \in Device : d \in network_devices /\ network_devices' = network_devices \ {d}

(* The receiver of r reads a data message.                                 *)
Reads(r) ==
  /\ targets[r] = {} /\ ~Fresh(r)
  /\ received' = [received EXCEPT ![r] = @ + 1]
  /\ UNCHANGED <<due, targets, network_devices>>
  /\ \A d \in Device : Out(d)' = Out(d)
  /\ \A s \in Device : Fresh(s)' <=> Fresh(s) \/ s = r

(* The broadcast of r lists the registry.                                  *)
Lists(r) ==
  /\ Fresh(r) /\ targets[r] = {}
  /\ targets' = [targets EXCEPT ![r] = network_devices]
  /\ due' = [e \in Device |->
       IF e \in network_devices THEN due[e] \cup {CurrentMessage(r)} ELSE due[e]]
  /\ UNCHANGED <<received, network_devices>>
  /\ \A d \in Device : Out(d)' = Out(d)
  /\ \A s \in Device : Fresh(s)' <=> Fresh(s) /\ s # r

(* The broadcast of r queues its message for t.                            *)
Queues(r, t) ==
  /\ t \in targets[r] /\ ~Fresh(r)
  /\ targets' = [targets EXCEPT ![r] = @ \ {t}]
  /\ Out(t)' = Append(Out(t), CurrentMessage(r))
  /\ \A d \in Device : d # t => Out(d)' = Out(d)
  /\ UNCHANGED <<due, received, network_devices>>
  /\ \A s \in Device : Fresh(s)' <=> Fresh(s)

DeliveryStep ==
  \/ Still
  \/ \E r \in Device : Reads(r) \/ Lists(r)
  \/ \E r, t \in Device : Queues(r, t)

-----------------------------------------------------------------------------
(* The two ways of stating what is in a device's buffers agree.            *)
LEMMA Restated ==
  ASSUME TypeOK
  PROVE  Typed /\ (Kept <=> NothingLost) /\ (Ordered <=> InOrderOnce)
<1>1. Typed
  BY DEF TypeOK, Typed, Out
<1>2. Ordered <=> InOrderOnce
  BY DEF Ordered, InOrderOnce, Out
<1>3. ASSUME NEW d \in Device, NEW m
      PROVE  (\E i \in DOMAIN Out(d) : m = Out(d)[i]) <=>
               \/ \E i \in DOMAIN sending_buffer[d] : m = sending_buffer[d][i]
               \/ \E i \in DOMAIN handed[d] : m = handed[d][i]
  <2> DEFINE h == handed[d]
             b == sending_buffer[d]
  <2>1. h \in Seq(Message) /\ b \in Seq(Message)
    BY DEF TypeOK
  <2>2. /\ DOMAIN h = 1 .. Len(h) /\ DOMAIN b = 1 .. Len(b)
        /\ Len(h) \in Nat /\ Len(b) \in Nat
        /\ DOMAIN (h \o b) = 1 .. Len(h) + Len(b)
        /\ \A i \in 1 .. Len(h) + Len(b) :
             (h \o b)[i] = IF i <= Len(h) THEN h[i] ELSE b[i - Len(h)]
    <3> HIDE DEF h, b, Message
    <3> QED
      BY <2>1, ConcatProperties, LenProperties
  <2> HIDE DEF h, b
  <2>3. (\E i \in DOMAIN (h \o b) : m = (h \o b)[i]) =>
          (\E i \in DOMAIN b : m = b[i]) \/ \E i \in DOMAIN h : m = h[i]
    BY <2>2
  <2>4. ASSUME NEW i \in DOMAIN h, m = h[i]
        PROVE  \E k \in DOMAIN (h \o b) : m = (h \o b)[k]
    BY <2>2, <2>4
  <2>5. ASSUME NEW i \in DOMAIN b, m = b[i]
        PROVE  \E k \in DOMAIN (h \o b) : m = (h \o b)[k]
    <3>1. /\ Len(h) + i \in 1 .. Len(h) + Len(b)
          /\ ~(Len(h) + i <= Len(h)) /\ Len(h) + i - Len(h) = i
      BY <2>2, <2>5
    <3> QED
      BY <2>2, <2>5, <3>1
  <2> QED
    BY <2>3, <2>4, <2>5 DEF Out, h, b
<1>4. Kept <=> NothingLost
  <2> DEFINE Left(d) == {CurrentMessage(r) : r \in {x \in Device : d \in targets[x]}}
             Buffer(d) == {sending_buffer[d][i] : i \in DOMAIN sending_buffer[d]}
             Sent(d) == {handed[d][i] : i \in DOMAIN handed[d]}
  <2>1. \A d \in Device : \A m :
          Listed(m, d) <=> m \in Left(d) \cup Buffer(d) \cup Sent(d)
    BY <1>3 DEF Listed
  <2>2. Kept <=> \A d \in Device : due[d] = Left(d) \cup Buffer(d) \cup Sent(d)
    BY <2>1 DEF Kept
  <2> QED
    BY <2>2 DEF NothingLost
<1> QED
  BY <1>1, <1>2, <1>4

(* What is in a device's buffers are messages.                             *)
LEMMA OutIsMessage ==
  ASSUME Typed, NEW d \in Device, NEW i \in DOMAIN Out(d)
  PROVE  /\ Out(d)[i] \in Message
         /\ Out(d)[i].origin \in Device /\ Out(d)[i].seq \in Nat
<1>1. Out(d) \in Seq(Message)
  BY DEF Typed
<1>2. Out(d)[i] \in Message
  <2> HIDE DEF Message
  <2> QED
    BY <1>1, LenProperties, ElementOfSeq
<1> QED
  BY <1>2 DEF Message

(* OnlySent needs only that no broadcast gains a device.                   *)
LEMMA OnlySentKept ==
  ASSUME Typed, OnlySent, UNCHANGED received,
         \A d \in Device : Out(d)' = Out(d),
         \A s, d \in Device : Pending(s, d)' => Pending(s, d)
  PROVE  OnlySent'
<1> SUFFICES ASSUME NEW d \in Device, NEW i \in DOMAIN Out(d),
                    NEW m, m = Out(d)[i]
             PROVE  /\ m.seq <= received[m.origin]
                    /\ Pending(m.origin, d)' => m.seq < received[m.origin]
  BY DEF OnlySent
<1>1. m.origin \in Device
  BY OutIsMessage
<1> QED
  BY <1>1 DEF OnlySent

(* A step that adds nothing to the buffers and reads nothing keeps all.    *)
LEMMA StillKeeps ==
  ASSUME Typed, Kept, Ordered, OnlySent, Still
  PROVE  Kept' /\ Ordered' /\ OnlySent'
<1>1. \A r \in Device : CurrentMessage(r)' = CurrentMessage(r)
  BY DEF Still, CurrentMessage
<1>2. Kept'
  BY <1>1 DEF Still, Kept, Listed
<1>3. Ordered'
  BY DEF Still, Ordered
<1>4. OnlySent'
  <2>1. \A s, d \in Device : Pending(s, d)' => Pending(s, d)
    BY DEF Still, Pending
  <2> QED
    BY <2>1, OnlySentKept DEF Still
<1> QED
  BY <1>2, <1>3, <1>4

(* So does reading: what the origin sent before is older than the message. *)
LEMMA ReadsKeeps ==
  ASSUME Typed, Kept, Ordered, OnlySent, NEW r \in Device, Reads(r)
  PROVE  Kept' /\ Ordered' /\ OnlySent'
<1>1. \A s \in Device : s # r => CurrentMessage(s)' = CurrentMessage(s)
  BY DEF Reads, CurrentMessage
<1>2. Kept'
  BY <1>1 DEF Reads, Kept, Listed
<1>3. Ordered'
  BY DEF Reads, Ordered
<1>4. OnlySent'
  <2> SUFFICES ASSUME NEW d \in Device, NEW i \in DOMAIN Out(d),
                      NEW m, m = Out(d)[i]
               PROVE  /\ m.seq <= received'[m.origin]
                      /\ Pending(m.origin, d)' => m.seq < received'[m.origin]
    BY DEF OnlySent, Reads
  <2>1. m.origin \in Device /\ m.seq \in Nat
    BY OutIsMessage
  <2>2. /\ m.seq <= received[m.origin]
        /\ Pending(m.origin, d) => m.seq < received[m.origin]
    BY DEF OnlySent
  <2>3. CASE m.origin = r
    BY <2>1, <2>2, <2>3 DEF Reads, Typed
  <2>4. CASE m.origin # r
    BY <2>1, <2>2, <2>4 DEF Reads, Typed, Pending
  <2> QED
    BY <2>3, <2>4
<1> QED
  BY <1>2, <1>3, <1>4

(* So does listing, which makes due exactly what it adds to the targets.   *)
LEMMA ListsKeeps ==
  ASSUME Typed, Kept, Ordered, OnlySent, NEW r \in Device, Lists(r)
  PROVE  Kept' /\ Ordered' /\ OnlySent'
<1>1. \A s \in Device : CurrentMessage(s)' = CurrentMessage(s)
  BY DEF Lists, CurrentMessage
<1>2. Kept'
  <2> SUFFICES ASSUME NEW d \in Device, NEW m
               PROVE  m \in due'[d] <=> Listed(m, d)'
    BY DEF Kept
  <2>1. m \in due'[d] <=>
          m \in due[d] \/ (d \in network_devices /\ m = CurrentMessage(r))
    BY DEF Lists
  <2>2. \A s \in Device : d \in targets'[s] <=>
          d \in targets[s] \/ (s = r /\ d \in network_devices)
    BY DEF Lists, Typed
  <2>3. Listed(m, d)' <=>
          Listed(m, d) \/ (d \in network_devices /\ m = CurrentMessage(r))
    BY <1>1, <2>2 DEF Lists, Listed
  <2> QED
    BY <2>1, <2>3 DEF Kept
<1>3. Ordered'
  BY DEF Lists, Ordered
<1>4. OnlySent'
  <2>1. \A s, d \in Device : Pending(s, d)' => Pending(s, d)
    BY DEF Lists, Pending, Typed
  <2> QED
    BY <2>1, OnlySentKept DEF Lists
<1> QED
  BY <1>2, <1>3, <1>4

(* So does queueing: the message leaves the targets for the buffer, where  *)
(* every older message of its origin has a smaller number.                 *)
LEMMA QueuesKeeps ==
  ASSUME Typed, Kept, Ordered, OnlySent, NEW r \in Device, NEW t \in Device,
         Queues(r, t)
  PROVE  Kept' /\ Ordered' /\ OnlySent'
<1> DEFINE n == Len(Out(t)) + 1
<1>1. \A s \in Device : CurrentMessage(s)' = CurrentMessage(s)
  BY DEF Queues, CurrentMessage
<1>2. /\ DOMAIN Out(t)' = DOMAIN Out(t) \cup {n}
      /\ \A i \in DOMAIN Out(t) : Out(t)'[i] = Out(t)[i] /\ i \in Nat /\ i < n
      /\ Out(t)'[n] = CurrentMessage(r)
      /\ n \in Nat
  <2>1. Out(t) \in Seq(Message) /\ CurrentMessage(r) \in Message
    BY DEF Typed, CurrentMessage, Message
  <2>2. Out(t)' = Append(Out(t), CurrentMessage(r))
    BY DEF Queues
  <2> HIDE DEF CurrentMessage
  <2> QED
    BY <2>1, <2>2
<1> HIDE DEF n
<1>3. \A i \in DOMAIN Out(t) : Out(t)[i].origin = r => Out(t)[i].seq < received[r]
  BY DEF Queues, OnlySent, Pending
<1>4. CurrentMessage(r).origin = r /\ CurrentMessage(r).seq = received[r]
  BY DEF CurrentMessage
<1>5. \A s, d \in Device : d \in targets'[s] <=> d \in targets[s] /\ ~(s = r /\ d = t)
  BY DEF Queues, Typed
<1>6. Kept'
  <2> SUFFICES ASSUME NEW d \in Device, NEW m
               PROVE  m \in due'[d] <=> Listed(m, d)'
    BY DEF Kept
  <2>1. CASE d # t
    BY <1>1, <1>5, <2>1 DEF Queues, Kept, Listed
  <2>2. CASE d = t
    <3>1. (\E i \in DOMAIN Out(t)' : m = Out(t)'[i]) <=>
            (\E i \in DOMAIN Out(t) : m = Out(t)[i]) \/ m = CurrentMessage(r)
      BY <1>2
    <3>2. (\E s \in Device : t \in targets[s] /\ m = CurrentMessage(s)) <=>
            \/ \E s \in Device : t \in targets'[s] /\ m = CurrentMessage(s)
            \/ m = CurrentMessage(r)
      BY <1>5 DEF Queues
    <3>3. Listed(m, t)' <=> Listed(m, t)
      BY <1>1, <3>1, <3>2 DEF Listed
    <3> QED
      BY <2>2, <3>3 DEF Queues, Kept
  <2> QED
    BY <2>1, <2>2
<1>7. Ordered'
  <2> SUFFICES ASSUME NEW i \in DOMAIN Out(t)', NEW j \in DOMAIN Out(t)', i < j,
                      Out(t)'[i].origin = Out(t)'[j].origin
               PROVE  Out(t)'[i].seq < Out(t)'[j].seq
    BY DEF Ordered, Queues
  <2>1. i \in DOMAIN Out(t)
    BY <1>2
  <2>2. CASE j = n
    BY <1>2, <1>3, <1>4, <2>1, <2>2
  <2>3. CASE j # n
    BY <1>2, <2>1, <2>3 DEF Ordered
  <2> QED
    BY <2>2, <2>3
<1>8. OnlySent'
  <2>1. \A s, d \in Device : Pending(s, d)' => Pending(s, d) /\ ~(s = r /\ d = t)
    BY <1>5 DEF Queues, Pending
  <2> SUFFICES ASSUME NEW d \in Device, NEW i \in DOMAIN Out(d)',
                      NEW m, m = Out(d)'[i]
               PROVE  /\ m.seq <= received[m.origin]
                      /\ Pending(m.origin, d)' => m.seq < received[m.origin]
    BY DEF OnlySent, Queues
  <2>2. CASE d = t /\ i = n
    BY <1>2, <1>4, <2>1, <2>2 DEF Typed
  <2>3. CASE ~(d = t /\ i = n)
    <3>1. i \in DOMAIN Out(d) /\ m = Out(d)[i]
      BY <1>2, <2>3 DEF Queues
    <3>2. m.origin \in Device
      BY <3>1, OutIsMessage
    <3> QED
      BY <2>1, <3>1, <3>2 DEF OnlySent
  <2> QED
    BY <2>2, <2>3
<1> QED
  BY <1>6, <1>7, <1>8

-----------------------------------------------------------------------------
(* Every step of the server is one of these                                *)

(* A step that moves no message and starts no broadcast.                   *)
LEMMA IsStill ==
  ASSUME UNCHANGED <<due, targets, received>>,
         UNCHANGED <<handed, sending_buffer, network_devices>>,
         \A r \in Device : Fresh(r)' <=> Fresh(r)
  PROVE  DeliveryStep
BY DEF DeliveryStep, Still, Out

(* A device enters or leaves the registry, by itself.                      *)
LEMMA RegistrySteps ==
  ASSUME IInv, NEW d \in Device, RecvInsert(d) \/ RecvFail(d)
  PROVE  \/ UNCHANGED network_devices
         \/ \E e \in Device : e \notin network_devices /\ network_devices' = network_devices \cup {e}
         \/ \E e \in Device : e \in network_devices /\ network_devices' = network_devices \ {e}
<1>1. CASE RecvInsert(d)
  BY <1>1 DEF RecvInsert, Insert
<1>2. CASE RecvFail(d) /\ connection_state[d] = "WORKING"
  <2>1. recvPc[d] = "read" /\ d \in network_devices
    BY <1>2 DEF RecvFail, RecvAt, IInv, WorkingIsRegistered
  <2>2. network_devices' = network_devices \ {d}
    <3>1. Erase(d) = network_devices \ {d}
      BY <2>1, EraseRemoves
    <3> QED
      BY <1>2, <3>1 DEF RecvFail
  <2> QED
    BY <2>1, <2>2
<1>3. CASE RecvFail(d) /\ connection_state[d] # "WORKING"
  BY <1>3 DEF RecvFail
<1> QED
  BY <1>1, <1>2, <1>3

(* NextTarget ends the listing, and leaves the other receivers alone.      *)
LEMMA NextTargetFresh ==
  ASSUME NEW r \in Device, NEW left, recvPc \in [Device -> RecvPc],
         NextTarget(r, left)
  PROVE  \A s \in Device : Fresh(s)' <=> Fresh(s) /\ s # r
BY DEF NextTarget, Fresh

(* The sender moves messages from the buffer to send_message, in order.    *)
LEMMA SenderFlushStill ==
  ASSUME TypeOK, NEW d \in Device, SenderFlush(d)
  PROVE  DeliveryStep
<1>1. handed[d] \o sending_buffer[d] \in Seq(Message)
  BY DEF TypeOK
<1>2. Out(d)' = (handed[d] \o sending_buffer[d]) \o <<>>
  BY DEF SenderFlush, SendAll, Out, TypeOK
<1>3. Out(d)' = Out(d)
  BY <1>1, <1>2, ConcatEmptySeq DEF Out
<1>4. \A e \in Device : e # d => Out(e)' = Out(e)
  BY DEF SenderFlush, SendAll, Out, TypeOK
<1>5. UNCHANGED <<due, targets, received, recvPc, network_devices>>
  BY DEF SenderFlush, castVars
<1> QED
  BY <1>3, <1>4, <1>5 DEF DeliveryStep, Still, Fresh

(* A broadcaster appends its message to the buffer of its target.          *)
LEMMA PushQueues ==
  ASSUME IInv, NEW r \in Device, Push(r)
  PROVE  DeliveryStep
<1>0. target[r] \in targets[r] /\ target[r] \in Device /\ recvPc[r] = "push"
  BY DEF IInv, TypeOK, ThreadsInStep, Push, RecvAt
<1> PICK t \in Device : t = target[r]
  BY <1>0
<1>1. t \in targets[r] /\ recvPc[r] = "push"
  BY <1>0
<1>2. /\ handed[t] \in Seq(Message) /\ sending_buffer[t] \in Seq(Message)
      /\ CurrentMessage(r) \in Message
  BY <1>1 DEF IInv, TypeOK, CurrentMessage, Message
<1>3. /\ handed' = handed
      /\ sending_buffer' = [sending_buffer EXCEPT ![t] = Append(@, CurrentMessage(r))]
      /\ targets' = [targets EXCEPT ![r] = @ \ {t}]
      /\ recvPc' = [recvPc EXCEPT ![r] = "signal"]
      /\ UNCHANGED <<due, received, network_devices>>
  BY DEF Push
<1>4. Out(t)' = handed[t] \o Append(sending_buffer[t], CurrentMessage(r))
  BY <1>1, <1>3 DEF IInv, TypeOK, Out
<1>5. Out(t)' = Append(Out(t), CurrentMessage(r))
  <2> DEFINE h == handed[t]
             b == sending_buffer[t]
             m == CurrentMessage(r)
  <2> HIDE DEF h, b, m, Message
  <2>1. h \in Seq(Message) /\ b \in Seq(Message) /\ m \in Message
    BY <1>2 DEF h, b, m
  <2>2. h \o Append(b, m) = Append(h \o b, m)
    BY <2>1
  <2> QED
    BY <1>4, <2>2 DEF Out, h, b, m
<1>6. \A d \in Device : d # t => Out(d)' = Out(d)
  BY <1>3 DEF IInv, TypeOK, Out
<1>7. ~Fresh(r) /\ \A s \in Device : Fresh(s)' <=> Fresh(s)
  BY <1>1, <1>3 DEF IInv, TypeOK, Fresh
<1> QED
  BY <1>1, <1>3, <1>5, <1>6, <1>7 DEF DeliveryStep, Queues

(* The lemmas above cover every action of the specification.               *)
LEMMA EveryDeliveryStep ==
  ASSUME IInv, [Next]_vars
  PROVE  DeliveryStep
<1> USE DEF IInv, TypeOK, RecvAt, memoryVars, queueVars, threadVars, castVars
<1>1. CASE UNCHANGED vars
  BY <1>1, IsStill DEF vars, Fresh
<1>2. CASE Dispatch
  BY <1>2, IsStill DEF Dispatch, Fresh
<1>3. ASSUME NEW d \in Device, Accept(d) PROVE DeliveryStep
  BY <1>3, IsStill DEF Accept, Fresh
<1>4. ASSUME NEW d \in Device, MainStart(d) PROVE DeliveryStep
  <2>1. recvPc' = recvPc \/ recvPc' = [recvPc EXCEPT ![d] = "start"]
    BY <1>4 DEF MainStart
  <2>2. recvPc[d] = "none"
    BY <1>4 DEF MainStart, MainAt, ThreadsInStep
  <2>3. \A r \in Device : Fresh(r)' <=> Fresh(r)
    BY <2>1, <2>2 DEF Fresh
  <2> QED
    BY <1>4, <2>3, IsStill DEF MainStart
<1>5. ASSUME NEW d \in Device, MainPing(d) \/ MainCheck(d) \/ MainRelease(d)
      PROVE  DeliveryStep
  BY <1>5, IsStill DEF MainPing, MainCheck, MainRelease, Fresh
<1>6. ASSUME NEW d \in Device, RecvStart(d) \/ RecvPing(d)
      PROVE  DeliveryStep
  BY <1>6, IsStill DEF RecvStart, RecvPing, Verified, Fresh
<1>7. ASSUME NEW r \in Device, RecvData(r) PROVE DeliveryStep
  <2>1. targets[r] = {} /\ ~Fresh(r)
    BY <1>7 DEF RecvData, Verified, ThreadsInStep, Fresh
  <2>2. Reads(r)
    BY <1>7, <2>1 DEF RecvData, Verified, Reads, Out, Fresh
  <2> QED
    BY <2>2 DEF DeliveryStep
<1>8. ASSUME NEW r \in Device, Collect(r) PROVE DeliveryStep
  <2>1. targets[r] = {} /\ Fresh(r)
    BY <1>8 DEF Collect, ThreadsInStep, Fresh
  <2>2. \A s \in Device : Fresh(s)' <=> Fresh(s) /\ s # r
    BY <1>8, NextTargetFresh DEF Collect
  <2>3. Lists(r)
    BY <1>8, <2>1, <2>2 DEF Collect, Lists, Out
  <2> QED
    BY <2>3 DEF DeliveryStep
<1>9. ASSUME NEW r \in Device, Push(r) PROVE DeliveryStep
  BY <1>9, PushQueues
<1>10. ASSUME NEW r \in Device, SignalTarget(r) PROVE DeliveryStep
  <2>1. ~Fresh(r)
    BY <1>10 DEF SignalTarget, Fresh
  <2>2. \A s \in Device : Fresh(s)' <=> Fresh(s) /\ s # r
    BY <1>10, NextTargetFresh DEF SignalTarget
  <2>3. \A s \in Device : Fresh(s)' <=> Fresh(s)
    BY <2>1, <2>2
  <2>4. UNCHANGED <<due, targets, received, handed, sending_buffer, network_devices>>
    BY <1>10 DEF SignalTarget
  <2> QED
    BY <2>3, <2>4, IsStill
<1>11. ASSUME NEW d \in Device, RecvEnd(d) \/ RecvNotify(d) \/ RecvRelease(d)
       PROVE  DeliveryStep
  BY <1>11, IsStill DEF RecvEnd, RecvNotify, RecvRelease, Fresh
<1>12. ASSUME NEW d \in Device,
              \/ SenderStart(d) \/ SenderWait(d) \/ SpuriousWakeup(d)
              \/ SenderRelock(d)
       PROVE  DeliveryStep
  BY <1>12, IsStill
     DEF SenderStart, SenderWait, SpuriousWakeup, SenderRelock, Fresh
<1>13. ASSUME NEW d \in Device, SenderFlush(d) PROVE DeliveryStep
  BY <1>13, SenderFlushStill
<1>14. ASSUME NEW d \in Device,
              SenderCheck(d) \/ SenderRelease(d) \/ SenderKilled(d)
       PROVE  DeliveryStep
  BY <1>14, IsStill DEF SenderCheck, SenderRelease, SenderKilled, Fresh
<1>15. ASSUME NEW d \in Device, RecvInsert(d) \/ RecvFail(d) PROVE DeliveryStep
  <2>1. /\ UNCHANGED <<due, targets, received, handed, sending_buffer>>
        /\ \A r \in Device : Fresh(r)' <=> Fresh(r)
    BY <1>15 DEF RecvInsert, RecvFail, Fresh
  <2>2. \/ UNCHANGED network_devices
        \/ \E e \in Device : e \notin network_devices /\ network_devices' = network_devices \cup {e}
        \/ \E e \in Device : e \in network_devices /\ network_devices' = network_devices \ {e}
    BY <1>15, RegistrySteps
  <2> QED
    BY <2>1, <2>2 DEF DeliveryStep, Still, Out
<1> QED
  BY <1>1, <1>2, <1>3, <1>4, <1>5, <1>6, <1>7, <1>8, <1>9, <1>10, <1>11,
     <1>12, <1>13, <1>14, <1>15 DEF Next, Main, Receiver, Sender, Peer, Finished

-----------------------------------------------------------------------------
(* The inductive invariant of the two theorems, on top of IInv.            *)
Delivery == NothingLost /\ InOrderOnce /\ OnlySent

(* It holds when the server starts and after every step.                   *)
LEMMA DeliveryInductive ==
  /\ Init => Delivery
  /\ IInv /\ IInv' /\ Delivery /\ [Next]_vars => Delivery'
<1>1. Init => Delivery
  <2> SUFFICES ASSUME Init PROVE Delivery
    OBVIOUS
  <2>1. \A d \in Device : Out(d) = <<>>
    BY DEF Init, Out
  <2>2. TypeOK
    BY InitIInv DEF IInv
  <2>3. Kept /\ Ordered /\ OnlySent
    BY <2>1 DEF Init, Kept, Listed, Ordered, OnlySent
  <2> QED
    BY <2>2, <2>3, Restated DEF Delivery
<1>2. ASSUME IInv, IInv', Delivery, [Next]_vars PROVE Delivery'
  <2>1. Typed /\ Kept /\ Ordered /\ OnlySent
    BY <1>2, Restated DEF IInv, Delivery
  <2>2. Kept' /\ Ordered' /\ OnlySent'
    <3>1. DeliveryStep
      BY <1>2, EveryDeliveryStep
    <3> QED
      BY <2>1, <3>1, StillKeeps, ReadsKeeps, ListsKeeps, QueuesKeeps
         DEF DeliveryStep
  <2>3. (Kept <=> NothingLost)' /\ (Ordered <=> InOrderOnce)'
    BY <1>2, Restated, PTL DEF IInv
  <2> QED
    BY <2>2, <2>3 DEF Delivery
<1> QED
  BY <1>1, <1>2

(* It holds in every reachable state.                                      *)
LEMMA Delivered == Spec => []Delivery
BY DeliveryInductive, Invariance, PTL DEF Spec

(* network.cpp and device.cpp: a message whose broadcast listed a device   *)
(* is about to be pushed, in its buffer or sent, and nothing else is.      *)
THEOREM NoneIsLost == Spec => []NothingLost
<1>1. Delivery => NothingLost
  BY DEF Delivery
<1> QED
  BY <1>1, Delivered, PTL

(* device.cpp: the messages of one origin leave a device in the order they *)
(* came in, and none of them twice.                                        *)
THEOREM OriginOrderIsKept == Spec => []InOrderOnce
<1>1. Delivery => InOrderOnce
  BY DEF Delivery
<1> QED
  BY <1>1, Delivered, PTL

-----------------------------------------------------------------------------
(* The refinement: the four kinds of step are those of Multicast           *)

(* Nothing is cast, on its way or given when the server starts.            *)
LEMMA InitMulticast == Init => Network!Init
<1> SUFFICES ASSUME Init PROVE Network!Init
  OBVIOUS
<1>1. \A d \in Device : ~Fresh(d) /\ targets[d] = {} /\ Out(d) = <<>>
  BY DEF Init, Fresh, Out
<1> QED
  BY <1>1 DEF Init, Network!Init, CastCount, Channel, Given

(* A quiet step is a stutter, or changes the members by one device.        *)
LEMMA StillRefines ==
  ASSUME Typed, Still
  PROVE  [Network!Next]_<<network_devices, CastCount, Channel, Given>>
<1>1. CastCount' = CastCount
  BY DEF Still, CastCount
<1>2. Channel' = Channel
  BY DEF Still, Channel
<1>3. Given' = Given
  BY DEF Still, Given
<1> QED
  BY <1>1, <1>2, <1>3 DEF Still, Network!Next, Network!Add, Network!Remove

(* Reading changes nothing: the message counts as cast when it is listed.  *)
LEMMA ReadsRefines ==
  ASSUME Typed, NEW r \in Device, Reads(r)
  PROVE  UNCHANGED <<network_devices, CastCount, Channel, Given>>
<1>1. CastCount' = CastCount
  <2>1. \A s \in Device : CastCount'[s] = CastCount[s]
    BY DEF Reads, Typed, CastCount
  <2> QED
    BY <2>1 DEF CastCount
<1>2. Channel' = Channel
  <2>1. \A s, d \in Device : d \in targets[s] => received'[s] = received[s]
    BY DEF Reads, Typed
  <2> QED
    BY <2>1 DEF Reads, Channel
<1>3. Given' = Given
  BY DEF Reads, Given
<1> QED
  BY <1>1, <1>2, <1>3 DEF Reads

(* The channels of one origin change: those of the others stay.            *)
LEMMA ChannelOverwritten ==
  ASSUME NEW r \in Device, NEW row, Channel'[r] = row,
         \A s \in Device : s # r => Channel'[s] = Channel[s]
  PROVE  Channel' = [Channel EXCEPT ![r] = row]
<1> DEFINE c == Channel
           d == Channel'
<1>1. /\ c = [s \in Device |-> c[s]]
      /\ d = [s \in Device |-> d[s]]
  BY DEF Channel
<1>2. d[r] = row /\ \A s \in Device : s # r => d[s] = c[s]
  OBVIOUS
<1> HIDE DEF c, d
<1>3. d = [c EXCEPT ![r] = row]
  BY <1>1, <1>2
<1> QED
  BY <1>3 DEF c, d

(* Listing the registry casts: the channels of the origin are empty, and   *)
(* those to the listed devices get the message's number.                   *)
LEMMA ListsRefines ==
  ASSUME Typed, NEW r \in Device, Lists(r)
  PROVE  Network!Cast(r)
<1>1. CastCount[r] + 1 = received[r]
  BY DEF Lists, Typed, CastCount
<1>2. CastCount' = [CastCount EXCEPT ![r] = @ + 1]
  <2>1. \A s \in Device : CastCount'[s] = IF s = r THEN received[r] ELSE CastCount[s]
    BY DEF Lists, Typed, CastCount
  <2> QED
    BY <1>1, <2>1 DEF CastCount
<1>3. \A d \in Device : Channel[r][d] = <<>>
  BY DEF Lists, Channel
<1>4. Append(<<>>, received[r]) = <<received[r]>>
  BY DEF Typed
<1>5. \A d \in Device :
        Channel'[r][d] = IF d \in network_devices
                         THEN Append(Channel[r][d], CastCount[r] + 1)
                         ELSE Channel[r][d]
  BY <1>1, <1>3, <1>4 DEF Lists, Typed, Channel
<1>6. \A s \in Device : s # r => Channel'[s] = Channel[s]
  BY DEF Lists, Typed, Channel
<1>7. Channel' = [Channel EXCEPT ![r] = [d \in Device |->
                    IF d \in network_devices
                    THEN Append(Channel[r][d], CastCount[r] + 1)
                    ELSE Channel[r][d]]]
  <2> DEFINE row == [d \in Device |-> IF d \in network_devices
                                      THEN Append(Channel[r][d], CastCount[r] + 1)
                                      ELSE Channel[r][d]]
  <2>1. Channel'[r] = row
    BY <1>5 DEF Channel
  <2> HIDE DEF row
  <2>2. Channel' = [Channel EXCEPT ![r] = row]
    BY <1>6, <2>1, ChannelOverwritten
  <2> QED
    BY <2>2 DEF row
<1>8. Given' = Given
  BY DEF Lists, Given
<1> QED
  BY <1>2, <1>7, <1>8 DEF Lists, Network!Cast

(* Queueing gives the one message the channel holds.                       *)
LEMMA QueuesRefines ==
  ASSUME Typed, NEW r \in Device, NEW t \in Device, Queues(r, t)
  PROVE  Network!Give(r, t)
<1>1. Channel[r][t] = <<received[r]>>
  BY DEF Queues, Channel
<1>2. /\ Channel[r][t] # <<>>
      /\ Head(Channel[r][t]) = received[r] /\ Tail(Channel[r][t]) = <<>>
  BY <1>1 DEF Typed
<1>3. Given' = [Given EXCEPT ![t] =
                  Append(@, [origin |-> r, seq |-> Head(Channel[r][t])])]
  BY <1>2 DEF Queues, Given, CurrentMessage
<1>4. Channel' = [Channel EXCEPT ![r][t] = Tail(Channel[r][t])]
  <2>1. \A s, d \in Device :
          Channel'[s][d] = IF s = r /\ d = t THEN <<>> ELSE Channel[s][d]
    BY DEF Queues, Typed, Channel
  <2> DEFINE row == [Channel[r] EXCEPT ![t] = Tail(Channel[r][t])]
  <2>2. Channel'[r] = row
    BY <1>2, <2>1 DEF Channel
  <2>3. \A s \in Device : s # r => Channel'[s] = Channel[s]
    BY <2>1 DEF Channel
  <2> HIDE DEF row
  <2>4. Channel' = [Channel EXCEPT ![r] = row]
    BY <2>2, <2>3, ChannelOverwritten
  <2> QED
    BY <2>4 DEF row
<1>5. CastCount' = CastCount
  BY DEF Queues, CastCount
<1> QED
  BY <1>2, <1>3, <1>4, <1>5 DEF Queues, Network!Give

(* Every step of the server is a step of Multicast, or none.               *)
LEMMA NextMulticast ==
  ASSUME IInv, [Next]_vars
  PROVE  [Network!Next]_<<network_devices, CastCount, Channel, Given>>
<1>1. Typed
  BY Restated DEF IInv
<1>2. CASE Still
  BY <1>1, <1>2, StillRefines
<1>3. ASSUME NEW r \in Device, Reads(r)
      PROVE  [Network!Next]_<<network_devices, CastCount, Channel, Given>>
  BY <1>1, <1>3, ReadsRefines
<1>4. ASSUME NEW r \in Device, Lists(r) PROVE Network!Next
  BY <1>1, <1>4, ListsRefines DEF Network!Next
<1>5. ASSUME NEW r \in Device, NEW t \in Device, Queues(r, t) PROVE Network!Next
  BY <1>1, <1>5, QueuesRefines DEF Network!Next
<1> QED
  BY <1>2, <1>3, <1>4, <1>5, EveryDeliveryStep DEF DeliveryStep

(* network.h: what is broadcast reaches, in the order of its origin and    *)
(* once, exactly the devices in the network at that moment.                *)
THEOREM BroadcastIsMulticast == Spec => BroadcastImplementsMulticast
<1>1. Init => Network!Init
  BY InitMulticast
<1>2. IInv /\ [Next]_vars =>
        [Network!Next]_<<network_devices, CastCount, Channel, Given>>
  BY NextMulticast
<1> QED
  BY <1>1, <1>2, Invariance, PTL
     DEF BroadcastImplementsMulticast, Network!Spec, Network!vars, Spec

=============================================================================
