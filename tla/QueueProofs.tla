----------------------------- MODULE QueueProofs -----------------------------
(* Proofs about the two rings the kernel's threads share: the message      *)
(* queue, for every size, message and moment the timer interrupts a call,  *)
(* and the task ring, for every set of tasks.                              *)
EXTENDS Ipc, RoundRobin, TLAPS

(* the slot i places behind the oldest message *)
Place(i) == (Oldest + i) % MAX_MESSAGES

(* the tail is where the next message goes, or already one past it *)
Placed == tail = Place(count + (IF sc = "count" THEN 1 ELSE 0))

(* what a call found of count still holds when the call changes it: the    *)
(* other side can only have made more room, or more messages               *)
Room == /\ sc # "idle" => count < MAX_MESSAGES /\ message \in Texts
        /\ rc # "idle" => count > 0

(* a message half sent is where it will be found, one half received is the *)
(* oldest, and between the two there are only whole messages               *)
InTransit ==
    /\ sc \in {"tail", "count"} => msg[Place(count)] = Clip(message)
    /\ rc \in {"head", "count"} => buffer = msg[Oldest]
    /\ \A i \in 0 .. (count - 1) : msg[Place(i)] \in Clipped

QueueInv == IpcTypeOK /\ Placed /\ Room /\ InTransit

(* The remainder of what is less than two laps.                            *)
LEMMA OneLap ==
    ASSUME NEW a \in 0 .. (2 * MAX_MESSAGES - 1)
    PROVE  /\ a % MAX_MESSAGES \in Slots
           /\ a % MAX_MESSAGES = IF a < MAX_MESSAGES THEN a ELSE a - MAX_MESSAGES
  <1>1. CASE a < MAX_MESSAGES
    BY <1>1, IpcAssumption DEF Slots
  <1>2. CASE a >= MAX_MESSAGES
    <2> DEFINE r == a - MAX_MESSAGES
    <2>1. r \in 0 .. (MAX_MESSAGES - 1) /\ a = MAX_MESSAGES * 1 + r
      BY <1>2, IpcAssumption
    <2>2. a % MAX_MESSAGES = r
      BY <2>1, IpcAssumption
    <2> QED BY <1>2, <2>1, <2>2, IpcAssumption DEF Slots
  <1> QED BY <1>1, <1>2, IpcAssumption

(* The next slot, without the modulus.                                     *)
LEMMA SuccIs ==
    ASSUME NEW i \in Slots
    PROVE  /\ Succ(i) \in Slots
           /\ Succ(i) = IF i + 1 < MAX_MESSAGES THEN i + 1 ELSE 0
  <1>1. i + 1 \in 0 .. (2 * MAX_MESSAGES - 1)
    BY IpcAssumption DEF Slots
  <1> QED BY <1>1, OneLap, IpcAssumption DEF Succ, Slots

(* The oldest message is at the head, or one slot before it while the      *)
(* receiver is about to count down.                                        *)
LEMMA OldestIs ==
    ASSUME head \in Slots
    PROVE  /\ Oldest \in Slots
           /\ Oldest = IF rc # "count" THEN head
                       ELSE IF head = 0 THEN MAX_MESSAGES - 1 ELSE head - 1
  <1>1. head + MAX_MESSAGES - 1 \in 0 .. (2 * MAX_MESSAGES - 1)
    BY IpcAssumption DEF Slots
  <1> QED BY <1>1, OneLap, IpcAssumption DEF Oldest, Slots

(* The places behind the oldest message, without the modulus: as many as   *)
(* there are slots, all different.                                         *)
LEMMA PlaceIs ==
    ASSUME head \in Slots, NEW i \in 0 .. MAX_MESSAGES
    PROVE  /\ Place(i) \in Slots
           /\ Place(i) = IF Oldest + i < MAX_MESSAGES THEN Oldest + i
                         ELSE Oldest + i - MAX_MESSAGES
  <1>1. Oldest + i \in 0 .. (2 * MAX_MESSAGES - 1)
    BY OldestIs, IpcAssumption DEF Slots
  <1> QED BY <1>1, OneLap, OldestIs, IpcAssumption DEF Place, Slots

(* Two messages of the queue are in different slots.                       *)
LEMMA PlacesDiffer ==
    ASSUME head \in Slots, NEW i \in 0 .. (MAX_MESSAGES - 1),
           NEW j \in 0 .. (MAX_MESSAGES - 1), i # j
    PROVE  Place(i) # Place(j)
  BY PlaceIs, OldestIs, IpcAssumption DEF Slots

(* The boot-time queue satisfies the invariant.                            *)
LEMMA QueueInvInit == IpcInit => QueueInv
  <1> SUFFICES ASSUME IpcInit PROVE QueueInv
    OBVIOUS
  <1> USE IpcAssumption DEF IpcInit
  <1>1. IpcTypeOK
    BY DEF IpcTypeOK, Slots
  <1>2. Placed
    BY <1>1, PlaceIs, OldestIs DEF Placed, Slots
  <1>3. Room /\ InTransit
    BY DEF Room, InTransit
  <1> QED BY <1>1, <1>2, <1>3 DEF QueueInv

(* A step of ipc_send keeps the invariant, wherever the receiver is.       *)
LEMMA SendKeeps ==
    ASSUME QueueInv,
           (\E m \in Texts : SendCall(m)) \/ SendCopy \/ SendTail \/ SendCount
    PROVE  QueueInv'
  <1> USE DEF QueueInv, receiver
  <1>0. /\ head \in Slots /\ tail \in Slots /\ count \in 0 .. MAX_MESSAGES
        /\ head' = head /\ rc' = rc /\ buffer' = buffer
        /\ Oldest' = Oldest /\ \A i : Place(i)' = Place(i)
    BY DEF SendCall, SendCopy, SendTail, SendCount, Oldest, Place, IpcTypeOK
  <1>1. CASE \E m \in Texts : SendCall(m)
    <2>1. IpcTypeOK'
      BY <1>1 DEF IpcTypeOK, SendCall
    <2>2. Placed' /\ InTransit'
      BY <1>0, <1>1 DEF Placed, InTransit, SendCall
    <2>3. Room'
      BY <1>0, <1>1, IpcAssumption DEF Room, SendCall, Full
    <2> QED BY <2>1, <2>2, <2>3
  <1>2. CASE SendCopy
    <2>0. /\ count \in 0 .. (MAX_MESSAGES - 1) /\ message \in Texts
          /\ tail = Place(count) /\ Clip(message) \in Clipped
          /\ rc # "idle" => count > 0
      <3>1. /\ count \in 0 .. (MAX_MESSAGES - 1) /\ message \in Texts
            /\ rc # "idle" => count > 0
        BY <1>0, <1>2, IpcAssumption DEF SendCopy, Room
      <3>2. tail = Place(count)
        BY <1>0, <1>2 DEF SendCopy, Placed
      <3>3. Clip(message) \in Clipped
        BY <3>1 DEF Clipped
      <3> QED BY <3>1, <3>2, <3>3
    <2>1. IpcTypeOK'
      BY <1>2, <2>0 DEF IpcTypeOK, SendCopy
    <2>2. Placed' /\ Room'
      BY <1>0, <1>2 DEF Placed, Room, SendCopy
    <2>3. /\ msg'[Place(count)] = Clip(message)
          /\ \A i \in 0 .. (count - 1) : msg'[Place(i)] = msg[Place(i)]
      <3>1. msg' = [msg EXCEPT ![Place(count)] = Clip(message)] /\ Place(count) \in Slots
        BY <1>0, <1>2, <2>0 DEF SendCopy
      <3>2. \A i \in 0 .. (count - 1) : Place(i) \in Slots /\ Place(i) # Place(count)
        <4> SUFFICES ASSUME NEW i \in 0 .. (count - 1)
                     PROVE  Place(i) \in Slots /\ Place(i) # Place(count)
          OBVIOUS
        <4>1. /\ i \in 0 .. (MAX_MESSAGES - 1) /\ i \in 0 .. MAX_MESSAGES
              /\ count \in 0 .. (MAX_MESSAGES - 1) /\ i # count
          BY <2>0, IpcAssumption
        <4> QED BY <1>0, <4>1, PlaceIs, PlacesDiffer
      <3> QED BY <3>1, <3>2 DEF IpcTypeOK
    <2>4. rc # "idle" => Oldest = Place(0) /\ 0 \in 0 .. (count - 1)
      <3>1. 0 \in 0 .. MAX_MESSAGES
        BY IpcAssumption
      <3> QED BY <1>0, <2>0, <3>1, PlaceIs, OldestIs, IpcAssumption DEF Slots
    <2>5. InTransit'
      BY <1>0, <1>2, <2>3, <2>4 DEF InTransit, SendCopy
    <2> QED BY <2>1, <2>2, <2>5
  <1>3. CASE SendTail
    <2>1. count \in 0 .. (MAX_MESSAGES - 1) /\ tail = Place(count)
      BY <1>0, <1>3, IpcAssumption DEF SendTail, Room, Placed
    <2>2. Succ(tail) \in Slots /\ Succ(tail) = Place(count + 1)
      <3>1. count \in 0 .. MAX_MESSAGES /\ count + 1 \in 0 .. MAX_MESSAGES
        BY <2>1, IpcAssumption
      <3>2. Succ(tail) \in Slots /\ Succ(tail) = IF tail + 1 < MAX_MESSAGES THEN tail + 1 ELSE 0
        BY <1>0, SuccIs
      <3>3. PICK o \in Slots : o = Oldest
        BY <1>0, OldestIs
      <3>4. /\ Place(count) = IF o + count < MAX_MESSAGES THEN o + count
                             ELSE o + count - MAX_MESSAGES
            /\ Place(count + 1) = IF o + (count + 1) < MAX_MESSAGES THEN o + (count + 1)
                                 ELSE o + (count + 1) - MAX_MESSAGES
        BY <1>0, <3>1, <3>3, PlaceIs
      <3> QED BY <2>1, <3>1, <3>2, <3>3, <3>4, IpcAssumption DEF Slots
    <2>3. IpcTypeOK'
      BY <1>3, <2>2 DEF IpcTypeOK, SendTail
    <2>4. Placed' /\ Room' /\ InTransit'
      BY <1>0, <1>3, <2>2 DEF Placed, Room, InTransit, SendTail
    <2> QED BY <2>3, <2>4
  <1>4. CASE SendCount
    <2>1. /\ count \in 0 .. (MAX_MESSAGES - 1) /\ message \in Texts
          /\ tail = Place(count + 1) /\ msg[Place(count)] \in Clipped
      BY <1>0, <1>4, IpcAssumption DEF SendCount, Room, Placed, InTransit, Clipped
    <2>2. count' = count + 1 /\ sc' = "idle" /\ msg' = msg /\ tail' = tail
      BY <1>4 DEF SendCount
    <2>3. IpcTypeOK'
      <3>1. count' \in 0 .. MAX_MESSAGES
        BY <2>1, <2>2, IpcAssumption
      <3> QED BY <1>4, <2>2, <3>1 DEF IpcTypeOK, SendCount
    <2>4. Placed' /\ Room'
      BY <1>0, <2>1, <2>2 DEF Placed, Room
    <2>5. InTransit'
      BY <1>0, <2>1, <2>2 DEF InTransit
    <2> QED BY <2>3, <2>4, <2>5
  <1> QED BY <1>1, <1>2, <1>3, <1>4

(* A step of ipc_receive keeps the invariant, wherever the sender is.      *)
LEMMA ReceiveKeeps ==
    ASSUME QueueInv, ReceiveCall \/ ReceiveCopy \/ ReceiveHead \/ ReceiveCount
    PROVE  QueueInv'
  <1> USE DEF QueueInv, sender
  <1>0. /\ head \in Slots /\ tail \in Slots /\ count \in 0 .. MAX_MESSAGES
        /\ msg' = msg /\ tail' = tail /\ sc' = sc /\ message' = message
    BY DEF ReceiveCall, ReceiveCopy, ReceiveHead, ReceiveCount, IpcTypeOK
  <1>1. CASE ReceiveCall \/ ReceiveCopy
    <2>1. head' = head /\ count' = count /\ Oldest' = Oldest /\ \A i : Place(i)' = Place(i)
      BY <1>1 DEF ReceiveCall, ReceiveCopy, Oldest, Place
    <2>2. IpcTypeOK'
      BY <1>1, <1>0 DEF IpcTypeOK, ReceiveCall, ReceiveCopy
    <2>3. Placed' /\ Room'
      BY <1>0, <1>1, <2>1 DEF Placed, Room, ReceiveCall, ReceiveCopy
    <2>4. InTransit'
      BY <1>0, <1>1, <2>1 DEF InTransit, ReceiveCall, ReceiveCopy, Oldest
    <2> QED BY <2>2, <2>3, <2>4
  <1>2. CASE ReceiveHead
    <2>1. /\ head' = Succ(head) /\ Succ(head) \in Slots /\ count' = count
          /\ buffer' = buffer /\ rc = "head" /\ rc' = "count"
      BY <1>0, <1>2, SuccIs DEF ReceiveHead
    <2>2. Oldest' = Oldest
      <3>1. Oldest = head
        BY <2>1 DEF Oldest
      <3>2. Oldest' = (Succ(head) + MAX_MESSAGES - 1) % MAX_MESSAGES
        BY <2>1 DEF Oldest
      <3>3. Succ(head) + MAX_MESSAGES - 1 \in 0 .. (2 * MAX_MESSAGES - 1)
        BY <2>1, IpcAssumption DEF Slots
      <3>4. /\ Oldest' \in Slots
            /\ Oldest' = IF Succ(head) + MAX_MESSAGES - 1 < MAX_MESSAGES
                         THEN Succ(head) + MAX_MESSAGES - 1 ELSE Succ(head) - 1
        BY <2>1, <3>2, <3>3, OneLap, IpcAssumption DEF Slots
      <3>5. Succ(head) = IF head + 1 < MAX_MESSAGES THEN head + 1 ELSE 0
        BY <1>0, SuccIs
      <3> QED BY <1>0, <3>1, <3>4, <3>5, IpcAssumption DEF Slots
    <2>3. \A i : Place(i)' = Place(i)
      BY <2>2 DEF Place
    <2>4. IpcTypeOK'
      BY <1>2, <2>1 DEF IpcTypeOK, ReceiveHead
    <2>5. Placed' /\ Room' /\ InTransit'
      BY <1>0, <2>1, <2>2, <2>3 DEF Placed, Room, InTransit
    <2> QED BY <2>4, <2>5
  <1>3. CASE ReceiveCount
    <2>1. /\ rc = "count" /\ rc' = "idle" /\ head' = head /\ buffer' = <<>>
          /\ count > 0 /\ count' = count - 1
      BY <1>3 DEF ReceiveCount, Less, Room
    <2>2. Oldest \in Slots /\ Oldest' = head
          /\ head = IF Oldest + 1 < MAX_MESSAGES THEN Oldest + 1 ELSE 0
      BY <1>0, <2>1, OldestIs, IpcAssumption DEF Oldest, Slots
    <2>3. ASSUME NEW i \in 0 .. (MAX_MESSAGES - 1)
          PROVE  (Oldest' + i) % MAX_MESSAGES = Place(i + 1)
      <3>1. head + i \in 0 .. (2 * MAX_MESSAGES - 1) /\ i + 1 \in 0 .. MAX_MESSAGES
        BY <1>0, IpcAssumption DEF Slots
      <3> QED BY <1>0, <2>2, <3>1, OneLap, PlaceIs, IpcAssumption DEF Slots
    <2>4. IpcTypeOK'
      <3>1. count' \in 0 .. MAX_MESSAGES
        BY <1>0, <2>1, IpcAssumption
      <3> QED BY <1>3, <2>1, <3>1 DEF IpcTypeOK, ReceiveCount
    <2>5. Placed' /\ Room'
      <3>1. count - 1 + (IF sc = "count" THEN 1 ELSE 0) \in 0 .. (MAX_MESSAGES - 1)
        BY <1>0, <2>1, IpcAssumption DEF Room
      <3>2. Placed'
        <4> DEFINE k == IF sc = "count" THEN 1 ELSE 0
        <4>1. (Oldest' + (count - 1 + k)) % MAX_MESSAGES = Place(count - 1 + k + 1)
          BY <3>1, <2>3
        <4>2. count - 1 + k + 1 = count + k
          BY <1>0
        <4>3. Place(count + k)' = (Oldest' + (count - 1 + k)) % MAX_MESSAGES
          BY <1>0, <2>1 DEF Place
        <4> QED BY <1>0, <4>1, <4>2, <4>3 DEF Placed
      <3> QED BY <1>0, <2>1, <3>2, IpcAssumption DEF Room
    <2>6. InTransit'
      <3>1. ASSUME sc' \in {"tail", "count"} PROVE msg'[Place(count)'] = Clip(message')
        <4>1. count - 1 \in 0 .. (MAX_MESSAGES - 1) /\ count - 1 + 1 = count
          BY <1>0, <2>1, IpcAssumption
        <4>2. Place(count)' = Place(count)
          BY <2>1, <2>3, <4>1 DEF Place
        <4> QED BY <1>0, <2>1, <3>1, <4>2 DEF InTransit
      <3>2. ASSUME NEW i \in 0 .. (count' - 1) PROVE msg'[Place(i)'] \in Clipped
        <4>1. i \in 0 .. (MAX_MESSAGES - 1) /\ i + 1 \in 0 .. (count - 1)
          BY <1>0, <2>1, IpcAssumption
        <4>2. Place(i)' = Place(i + 1)
          BY <2>3, <4>1 DEF Place
        <4> QED BY <1>0, <4>1, <4>2 DEF InTransit
      <3> QED BY <2>1, <3>1, <3>2 DEF InTransit
    <2> QED BY <2>4, <2>5, <2>6
  <1> QED BY <1>1, <1>2, <1>3

(* Every step of the sender and of the receiver keeps the queue's          *)
(* accounts.                                                               *)
LEMMA QueueInvNext == QueueInv /\ [IpcNext]_ipcVars => QueueInv'
  <1>1. CASE UNCHANGED ipcVars
    BY <1>1 DEF ipcVars, QueueInv, IpcTypeOK, Placed, Place, Oldest, Room, InTransit
  <1> QED BY <1>1, SendKeeps, ReceiveKeeps DEF IpcNext

(* The inductive invariant holds in every behaviour.                       *)
THEOREM QueueInvariance == IpcSpec => []QueueInv
  BY QueueInvInit, QueueInvNext, PTL DEF IpcSpec

(* The sender never writes the slot the receiver is reading.               *)
THEOREM QueueSlotsApart == IpcSpec => []SlotsApart
  <1>1. QueueInv => SlotsApart
    <2> SUFFICES ASSUME QueueInv, sc = "copy", rc = "copy" PROVE tail # head
      BY DEF SlotsApart, QueueInv
    <2>1. tail = Place(count) /\ 0 < count /\ count < MAX_MESSAGES /\ count \in Nat
          /\ head \in Slots /\ Oldest = head
      BY DEF QueueInv, Placed, Room, IpcTypeOK, Oldest
    <2> QED BY <2>1, PlaceIs, IpcAssumption DEF Slots
  <1> QED BY <1>1, QueueInvariance, PTL

(* The queue the abstract specification sees: as long as count says, and   *)
(* message i is the one i - 1 places behind the oldest.                    *)
QueuedRight == /\ Queued \in Seq(Clipped) /\ Len(Queued) = count
               /\ \A i \in 1 .. count : Queued[i] = msg[Place(i - 1)]

(* The abstract queue the mapping reads off the slots has `count`          *)
(* messages, the ones in the slots from the oldest on.                     *)
LEMMA QueuedIs == QueueInv => QueuedRight
  <1> SUFFICES ASSUME QueueInv PROVE QueuedRight
    OBVIOUS
  <1>1. head \in Slots /\ count \in Nat /\ Oldest \in Slots
    BY OldestIs, IpcAssumption DEF QueueInv, IpcTypeOK
  <1>2. ASSUME NEW i \in 1 .. count
        PROVE  /\ (Oldest + i - 1) % MAX_MESSAGES = Place(i - 1)
               /\ msg[Place(i - 1)] \in Clipped
    <2>1. i - 1 \in 0 .. (count - 1) /\ Oldest + i - 1 = Oldest + (i - 1)
      BY <1>1 DEF Slots
    <2> QED BY <2>1 DEF Place, QueueInv, InTransit
  <1>3. Queued = [i \in 1 .. count |-> msg[Place(i - 1)]]
    BY <1>2 DEF Queued
  <1> HIDE DEF Queued
  <1>4. Queued \in [1 .. count -> Clipped]
    BY <1>2, <1>3
  <1> QED BY <1>1, <1>3, <1>4 DEF QueuedRight

(* The statements of a call that are not its last leave what the abstract  *)
(* specification sees unchanged.                                           *)
LEMMA InsideCalls ==
    ASSUME QueueInv, QueueInv',
           \/ (\E m \in Texts : SendCall(m)) /\ ~Full
           \/ SendCopy \/ SendTail
           \/ ReceiveCall /\ count # 0
           \/ ReceiveCopy \/ ReceiveHead
    PROVE  UNCHANGED Fifo!fifoVars
  <1>0. /\ count' = count /\ UNCHANGED <<sent, received, delivered>>
        /\ head \in Slots /\ count \in 0 .. MAX_MESSAGES
    BY DEF SendCall, SendCopy, SendTail, ReceiveCall, ReceiveCopy, ReceiveHead, sender,
       receiver, QueueInv, IpcTypeOK
  <1>1. \A i \in 0 .. (count - 1) : msg'[Place(i)'] = msg[Place(i)]
    <2>1. CASE SendCopy
      <3>1. /\ count \in 0 .. (MAX_MESSAGES - 1) /\ tail = Place(count)
            /\ \A i : Place(i)' = Place(i)
            /\ msg' = [msg EXCEPT ![tail] = Clip(message)]
        BY <1>0, <2>1, IpcAssumption DEF SendCopy, QueueInv, Room, Placed, Place, Oldest, receiver
      <3> SUFFICES ASSUME NEW i \in 0 .. (count - 1) PROVE msg'[Place(i)] = msg[Place(i)]
        BY <3>1
      <3>2. /\ i \in 0 .. (MAX_MESSAGES - 1) /\ i \in 0 .. MAX_MESSAGES
            /\ count \in 0 .. (MAX_MESSAGES - 1) /\ i # count
        BY <3>1, IpcAssumption
      <3>3. Place(i) \in Slots /\ Place(i) # Place(count)
        BY <1>0, <3>2, PlaceIs, PlacesDiffer
      <3> QED BY <3>1, <3>3 DEF QueueInv, IpcTypeOK
    <2>2. CASE ReceiveHead
      <3>1. rc = "head" /\ rc' = "count" /\ head' = Succ(head) /\ msg' = msg
        BY <2>2 DEF ReceiveHead
      <3>2. Oldest' = Oldest
        <4>1. head' \in Slots /\ head' = IF head + 1 < MAX_MESSAGES THEN head + 1 ELSE 0
          BY <1>0, <3>1, SuccIs
        <4>2. Oldest' = (head' + MAX_MESSAGES - 1) % MAX_MESSAGES
          BY <3>1 DEF Oldest
        <4>3. head' + MAX_MESSAGES - 1 \in 0 .. (2 * MAX_MESSAGES - 1)
          BY <4>1, IpcAssumption DEF Slots
        <4>4. Oldest' = IF head' + MAX_MESSAGES - 1 < MAX_MESSAGES
                          THEN head' + MAX_MESSAGES - 1 ELSE head' - 1
          BY <4>1, <4>2, <4>3, OneLap, IpcAssumption DEF Slots
        <4>5. Oldest = head
          BY <3>1 DEF Oldest
        <4> QED BY <1>0, <4>1, <4>4, <4>5, IpcAssumption DEF Slots
      <3> QED BY <3>1, <3>2 DEF Place
    <2>3. CASE ~SendCopy /\ ~ReceiveHead
      BY <2>3 DEF SendCall, SendTail, ReceiveCall, ReceiveCopy, sender, receiver, Place, Oldest
    <2> QED BY <2>1, <2>2, <2>3
  <1>2. Queued' = Queued
    <2>1. /\ Queued \in Seq(Clipped) /\ Len(Queued) = count
          /\ \A i \in 1 .. count : Queued[i] = msg[Place(i - 1)]
      BY QueuedIs DEF QueuedRight
    <2>2. /\ Queued' \in Seq(Clipped) /\ Len(Queued') = count
          /\ \A i \in 1 .. count : Queued'[i] = msg'[Place(i - 1)']
      <3>1. QueuedRight'
        BY QueuedIs, PTL
      <3> QED BY <1>0, <3>1 DEF QueuedRight
    <2> HIDE DEF Queued
    <2>3. ASSUME NEW i \in 1 .. count PROVE Queued'[i] = Queued[i]
      <3>1. i - 1 \in 0 .. (count - 1)
        BY <1>0
      <3> QED BY <1>1, <2>1, <2>2, <3>1
    <2> QED BY <2>1, <2>2, <2>3
  <1> QED BY <1>0, <1>2 DEF Fifo!fifoVars

(* count++ is where the message joins the queue.                           *)
LEMMA SendCountPuts ==
    ASSUME QueueInv, QueueInv', SendCount
    PROVE  Fifo!Put(message)
  <1>1. /\ count' = count + 1 /\ count \in Nat /\ count < MAX_MESSAGES
        /\ message \in Texts /\ msg[Place(count)] = Clip(message)
        /\ \A i : Place(i)' = Place(i)
        /\ msg' = msg /\ sent' = 0 /\ UNCHANGED <<received, delivered>>
    BY IpcAssumption DEF SendCount, receiver, QueueInv, IpcTypeOK, Room, InTransit, Place, Oldest
  <1>2. /\ Queued \in Seq(Clipped) /\ Len(Queued) = count
        /\ \A i \in 1 .. count : Queued[i] = msg[Place(i - 1)]
    BY QueuedIs DEF QueuedRight
  <1>3. /\ Queued' \in Seq(Clipped) /\ Len(Queued') = count + 1
        /\ \A i \in 1 .. (count + 1) : Queued'[i] = msg[Place(i - 1)]
    <2>1. QueuedRight'
      BY QueuedIs, PTL
    <2> QED BY <1>1, <2>1 DEF QueuedRight
  <1>4. Clip(message) \in Clipped
    BY <1>1 DEF Clipped
  <1> HIDE DEF Queued
  <1>5. Queued' = Append(Queued, Clip(message))
    <2> DEFINE q == Append(Queued, Clip(message))
    <2>1. q \in Seq(Clipped) /\ Len(q) = count + 1
      BY <1>1, <1>2, <1>4
    <2>2. ASSUME NEW i \in 1 .. (count + 1) PROVE q[i] = msg[Place(i - 1)]
      <3>1. CASE i = count + 1
        <4>1. i - 1 = count
          BY <1>1, <3>1
        <4> QED BY <1>1, <1>2, <1>4, <3>1, <4>1
      <3>2. CASE i # count + 1
        <4>1. i \in 1 .. count
          BY <1>1, <3>2
        <4> QED BY <1>1, <1>2, <1>4, <4>1
      <3> QED BY <3>1, <3>2
    <2> HIDE DEF q
    <2>3. Queued' = q
      BY <1>3, <2>1, <2>2
    <2> QED BY <2>3 DEF q
  <1> QED BY <1>1, <1>2, <1>5 DEF Fifo!Put

(* count-- is where the oldest message leaves it, delivered.               *)
LEMMA ReceiveCountTakes ==
    ASSUME QueueInv, QueueInv', ReceiveCount
    PROVE  Fifo!Take
  <1>1. /\ count \in 1 .. MAX_MESSAGES /\ count' = count - 1 /\ msg' = msg
        /\ delivered' = buffer /\ buffer = msg[Oldest] /\ received' = 0 /\ sent' = sent
        /\ head \in Slots /\ head' = head /\ rc = "count" /\ rc' = "idle"
    BY IpcAssumption DEF ReceiveCount, Less, sender, QueueInv, IpcTypeOK, Room, InTransit
  <1>2. /\ Queued \in Seq(Clipped) /\ Len(Queued) = count
        /\ \A i \in 1 .. count : Queued[i] = msg[Place(i - 1)]
    BY QueuedIs DEF QueuedRight
  <1>3. /\ Queued' \in Seq(Clipped) /\ Len(Queued') = count - 1
        /\ \A i \in 1 .. (count - 1) : Queued'[i] = msg[Place(i - 1)']
    <2>1. QueuedRight'
      BY QueuedIs, PTL
    <2> QED BY <1>1, <2>1 DEF QueuedRight
  <1>4. ASSUME NEW i \in 1 .. (count - 1) PROVE Place(i - 1)' = Place(i)
    <2>1. /\ Oldest \in Slots /\ Oldest' = head
          /\ head = IF Oldest + 1 < MAX_MESSAGES THEN Oldest + 1 ELSE 0
      BY <1>1, OldestIs, IpcAssumption DEF Oldest, Slots
    <2>2. i \in 0 .. MAX_MESSAGES /\ head + (i - 1) \in 0 .. (2 * MAX_MESSAGES - 1)
      BY <1>1, IpcAssumption DEF Slots
    <2>3. Place(i - 1)' = (head + (i - 1)) % MAX_MESSAGES
      BY <2>1 DEF Place
    <2> QED BY <1>1, <2>1, <2>2, <2>3, OneLap, PlaceIs, IpcAssumption DEF Slots
  <1>5. Queued[1] = msg[Oldest]
    <2>1. Place(0) = Oldest
      <3>1. 0 \in 0 .. MAX_MESSAGES
        BY IpcAssumption
      <3> QED BY <1>1, <3>1, PlaceIs, OldestIs, IpcAssumption DEF Slots
    <2>2. 1 \in 1 .. count /\ 1 - 1 = 0
      BY <1>1
    <2> QED BY <1>2, <2>1, <2>2
  <1> HIDE DEF Queued
  <1>6. Queued # <<>> /\ Head(Queued) = buffer
    BY <1>1, <1>2, <1>5
  <1>7. Queued' = Tail(Queued)
    <2> DEFINE q == Tail(Queued)
    <2>1. q \in Seq(Clipped) /\ Len(q) = count - 1
      BY <1>1, <1>2, <1>6
    <2>2. ASSUME NEW i \in 1 .. (count - 1) PROVE q[i] = msg[Place(i)]
      <3>1. i + 1 \in 1 .. count /\ (i + 1) - 1 = i
        BY <1>1
      <3>2. q[i] = Queued[i + 1]
        BY <1>1, <1>2, <1>6, <2>1
      <3> QED BY <1>2, <3>1, <3>2
    <2> HIDE DEF q
    <2>3. ASSUME NEW i \in 1 .. (count - 1) PROVE Queued'[i] = q[i]
      BY <1>3, <1>4, <2>2
    <2>4. Queued' = q
      BY <1>1, <1>3, <2>1, <2>3
    <2> QED BY <2>4 DEF q
  <1> QED BY <1>1, <1>6, <1>7 DEF Fifo!Take

(* A call that is refused changes only its own answer.                     *)
LEMMA RefusalsMatch ==
    ASSUME QueueInv
    PROVE  /\ (\E m \in Texts : SendCall(m)) /\ Full => Fifo!Refuse
           /\ ReceiveCall /\ count = 0 => Fifo!Nothing
  <1>1. Queued \in Seq(Clipped) /\ Len(Queued) = count /\ count \in 0 .. MAX_MESSAGES
    BY QueuedIs DEF QueuedRight, QueueInv, IpcTypeOK
  <1>2. ASSUME \E m \in Texts : SendCall(m), Full
        PROVE  Fifo!Refuse
    <2>1. /\ Queued' = Queued /\ sent' = -1 /\ UNCHANGED <<received, delivered>>
      BY <1>2 DEF SendCall, receiver, Queued, Oldest
    <2>2. count = MAX_MESSAGES
      BY <1>1, <1>2, IpcAssumption DEF Full
    <2> HIDE DEF Queued
    <2> QED BY <1>1, <2>1, <2>2 DEF Fifo!Refuse
  <1>3. ASSUME ReceiveCall, count = 0
        PROVE  Fifo!Nothing
    <2>1. /\ Queued' = Queued /\ received' = -1 /\ UNCHANGED <<sent, delivered>>
      BY <1>3 DEF ReceiveCall, sender, Queued, Oldest
    <2> HIDE DEF Queued
    <2>2. Queued = <<>>
      BY <1>1, <1>3
    <2> QED BY <2>1, <2>2 DEF Fifo!Nothing
  <1> QED BY <1>2, <1>3

(* The queue is a bounded first-in first-out queue of what its slots hold  *)
(* of each message, whatever the moments the timer chooses.                *)
THEOREM QueueImplementsFifo == IpcSpec => ImplementsFifo
  <1>1. IpcInit => Fifo!FifoInit
    <2> SUFFICES ASSUME IpcInit PROVE Fifo!FifoInit
      OBVIOUS
    <2>1. QueuedRight
      BY QueueInvInit, QueuedIs
    <2>2. Queued \in Seq(Clipped) /\ Len(Queued) = 0
      BY <2>1 DEF QueuedRight, IpcInit
    <2> HIDE DEF Queued
    <2>3. Queued = <<>>
      BY <2>2
    <2> QED BY <2>3 DEF Fifo!FifoInit, IpcInit
  <1>2. QueueInv /\ QueueInv' /\ [IpcNext]_ipcVars => [Fifo!FifoNext]_(Fifo!fifoVars)
    <2> SUFFICES ASSUME QueueInv, QueueInv', [IpcNext]_ipcVars
                 PROVE  Fifo!FifoNext \/ UNCHANGED Fifo!fifoVars
      OBVIOUS
    <2>1. CASE UNCHANGED ipcVars
      BY <2>1 DEF ipcVars, Fifo!fifoVars, Queued, Oldest
    <2>2. CASE SendCount
      <3>1. message \in Texts
        BY <2>2 DEF SendCount, QueueInv, Room
      <3> QED BY <2>2, <3>1, SendCountPuts DEF Fifo!FifoNext
    <2>3. CASE ReceiveCount
      BY <2>3, ReceiveCountTakes DEF Fifo!FifoNext
    <2>4. CASE \E m \in Texts : SendCall(m)
      <3>1. Full \/ ~Full
        OBVIOUS
      <3> QED BY <2>4, <3>1, RefusalsMatch, InsideCalls DEF Fifo!FifoNext
    <2>5. CASE ReceiveCall
      <3>1. count = 0 \/ count # 0
        OBVIOUS
      <3> QED BY <2>5, <3>1, RefusalsMatch, InsideCalls DEF Fifo!FifoNext
    <2>6. CASE SendCopy \/ SendTail \/ ReceiveCopy \/ ReceiveHead
      BY <2>6, InsideCalls
    <2>7. IpcNext \/ UNCHANGED ipcVars
      OBVIOUS
    <2> QED BY <2>1, <2>2, <2>3, <2>4, <2>5, <2>6, <2>7 DEF IpcNext
  <1> QED BY <1>1, <1>2, QueueInvariance, PTL DEF IpcSpec, ImplementsFifo, Fifo!FifoSpec

----------------------------------------------------------------------------
(* Inserting a task keeps the ring whole: in a set closed under the new    *)
(* successors, the old tasks were closed under the old ones.               *)
LEMMA AddKeeps ==
    ASSUME RingWhole, NEW t \in Tasks, scheduler_add(t)
    PROVE  RingWhole'
  <1> USE DEF RingWhole
  <1>1. CASE current = NoTask
    <2>1. added = {} /\ added' = {t} /\ current' = t /\ next'[t] = t
      BY <1>1, RingAssumption DEF RingTypeOK, scheduler_add, After
    <2>2. RingTypeOK'
      BY <1>1, <2>1 DEF RingTypeOK, scheduler_add, After
    <2>3. Closed(added)'
      BY <2>1 DEF Closed
    <2> QED BY <2>1, <2>2, <2>3
  <1>2. CASE current # NoTask
    <2>1. /\ t \notin added /\ current \in added /\ current' = current
          /\ added \subseteq Tasks /\ added' = added \cup {t}
          /\ next \in [Tasks -> Tasks \cup {NoTask}] /\ next[current] \in added
      BY <1>2 DEF RingTypeOK, scheduler_add, Closed
    <2>2. next' = [next EXCEPT ![t] = next[current], ![current] = t]
      BY <1>2 DEF scheduler_add, After
    <2>3. /\ next'[t] = next[current] /\ next'[current] = t
          /\ \A u \in added : u # current => next'[u] = next[u]
      BY <2>1, <2>2
    <2>4. RingTypeOK'
      BY <1>2, <2>1, <2>2 DEF RingTypeOK, scheduler_add
    <2>5. Closed(added)'
      BY <2>1, <2>3 DEF Closed
    <2>6. ASSUME NEW S \in SUBSET added', S # {}, \A u \in S : next'[u] \in S
          PROVE  S = added'
      <3> DEFINE R == S \ {t}
      <3>1. R \subseteq added /\ R # {}
        BY <2>1, <2>3, <2>6
      <3>2. \A u \in R : next[u] \in R
        <4>1. t \in S => next[current] \in R
          BY <2>1, <2>3, <2>6
        <4>2. \A u \in R : next[u] # t
          BY <2>1, <3>1 DEF Closed
        <4> QED BY <2>3, <2>6, <3>1, <4>1, <4>2
      <3>3. R = added
        BY <3>1, <3>2 DEF Closed
      <3>4. t \in S
        BY <2>1, <2>3, <2>6, <3>3
      <3> QED BY <2>1, <3>3, <3>4
    <2> QED BY <2>4, <2>5, <2>6 DEF Closed
  <1> QED BY <1>1, <1>2

(* Following `next` from any task passes every task and comes back,        *)
(* however the adding of tasks and the ticks interleave.                   *)
THEOREM RingAlwaysWhole == RingSpec => []RingWhole
  <1>1. RingInit => RingWhole
    BY RingAssumption DEF RingInit, RingWhole, RingTypeOK, Closed
  <1>2. RingWhole /\ [RingNext]_ringVars => RingWhole'
    <2> SUFFICES ASSUME RingWhole, [RingNext]_ringVars PROVE RingWhole'
      OBVIOUS
    <2>1. CASE scheduler_tick
      <3>1. current \in added /\ next[current] \in added
        BY <2>1 DEF scheduler_tick, RingWhole, RingTypeOK, Closed
      <3>2. RingTypeOK'
        BY <2>1, <3>1 DEF scheduler_tick, context_switch, RingWhole, RingTypeOK
      <3> QED BY <2>1, <3>2 DEF scheduler_tick, RingWhole, Closed
    <2>2. CASE UNCHANGED ringVars
      BY <2>2 DEF ringVars, RingWhole, RingTypeOK, Closed
    <2> QED BY <2>1, <2>2, AddKeeps DEF RingNext
  <1> QED BY <1>1, <1>2, PTL DEF RingSpec

(* The tasks from u to t, both included, in the order of the ring: what    *)
(* every set that holds u and the successors of its members other than t   *)
(* has in common.                                                          *)
Way(u, t) == {v \in added : \A S \in SUBSET added :
                 u \in S /\ (\A w \in S \ {t} : next[w] \in S) => v \in S}

(* The way from a task begins with it and goes on as the one from its      *)
(* successor, down to t itself.                                            *)
LEMMA WayIs ==
    ASSUME RingWhole, NEW t \in added, NEW u \in added
    PROVE  /\ Way(u, t) \subseteq added /\ u \in Way(u, t)
           /\ Way(t, t) = {t}
           /\ \A w \in Way(u, t) \ {t} : next[w] \in Way(u, t)
           /\ u # t => Way(next[u], t) \subseteq Way(u, t)
           /\ Way(u, t) \subseteq {u} \cup Way(next[u], t)
           /\ t \in Way(u, t)
  <1>0. \A w \in added : next[w] \in added
    BY DEF RingWhole, Closed
  <1>1. Way(u, t) \subseteq added /\ u \in Way(u, t)
    BY DEF Way
  <1>2. Way(t, t) = {t}
    BY DEF Way
  <1>3. \A x \in added : \A w \in Way(x, t) \ {t} : next[w] \in Way(x, t)
    BY <1>0 DEF Way
  <1>4. ASSUME NEW x \in added, NEW S \in SUBSET added, x \in S,
               \A w \in S \ {t} : next[w] \in S
        PROVE  Way(x, t) \subseteq S
    BY <1>4 DEF Way
  <1>5. u # t => Way(next[u], t) \subseteq Way(u, t)
    BY <1>0, <1>1, <1>3, <1>4
  <1>6. Way(u, t) \subseteq {u} \cup Way(next[u], t)
    <2> DEFINE S == {u} \cup Way(next[u], t)
    <2>1. next[u] \in Way(next[u], t) /\ Way(next[u], t) \subseteq added /\ next[u] \in added
      BY <1>0 DEF Way
    <2>2. \A w \in Way(next[u], t) \ {t} : next[w] \in Way(next[u], t)
      BY <2>1, <1>3
    <2>3. S \in SUBSET added /\ u \in S
      BY <2>1
    <2>4. \A w \in S \ {t} : next[w] \in S
      BY <2>1, <2>2
    <2> HIDE DEF S
    <2>5. Way(u, t) \subseteq S
      BY <2>3, <2>4, <1>4
    <2> QED BY <2>5 DEF S
  <1>7. t \in Way(u, t)
    <2>1. ASSUME t \notin Way(u, t) PROVE FALSE
      <3>1. Closed(Way(u, t))
        BY <1>3, <2>1 DEF Closed
      <3>2. Way(u, t) = added
        BY <1>1, <3>1 DEF RingWhole
      <3> QED BY <2>1, <3>2
    <2> QED BY <2>1
  <1> QED BY <1>1, <1>2, <1>3, <1>5, <1>6, <1>7

(* The way does not come back to where it began: else no task that leads   *)
(* there would lead past it, and together they would be a smaller ring.    *)
LEMMA NoReturn ==
    ASSUME RingWhole, NEW t \in added, NEW c \in added, c # t
    PROVE  c \notin Way(next[c], t)
  <1> SUFFICES ASSUME c \in Way(next[c], t) PROVE FALSE
    OBVIOUS
  <1> DEFINE U == {u \in added : c \in Way(u, t)}
  <1>1. c \in U /\ t \notin U
    BY WayIs
  <1>2. \A u \in U : next[u] \in U
    <2> SUFFICES ASSUME NEW u \in U PROVE next[u] \in U
      OBVIOUS
    <2>1. next[u] \in added
      BY DEF RingWhole, Closed
    <2>2. CASE u = c
      BY <2>1, <2>2
    <2>3. CASE u # c
      BY <2>1, <2>3, WayIs
    <2> QED BY <2>2, <2>3
  <1>3. U = added
    BY <1>1, <1>2 DEF RingWhole, Closed
  <1> QED BY <1>1, <1>3

(* A tick takes the current task off the way to every other one, and puts  *)
(* nothing on it: each task's turn comes nearer, and it is still to come   *)
(* (scheduler_tick).  What EveryTurnComes adds is that the ticks come.     *)
THEOREM RingTurnsComeNearer ==
    RingSpec => [][ scheduler_tick => \A t \in added \ {current} :
                       /\ t \in Way(current, t)'
                       /\ Way(current, t)' \subseteq Way(current, t)
                       /\ current \in Way(current, t) \ Way(current, t)' ]_ringVars
  <1>1. ASSUME RingWhole, scheduler_tick, NEW t \in added \ {current}
        PROVE  /\ t \in Way(current, t)'
               /\ Way(current, t)' \subseteq Way(current, t)
               /\ current \in Way(current, t) \ Way(current, t)'
    <2>1. current \in added /\ next[current] \in added
      BY <1>1 DEF scheduler_tick, RingWhole, RingTypeOK, Closed
    <2>2. Way(current, t)' = Way(next[current], t)
      BY <1>1 DEF scheduler_tick, Way
    <2> QED BY <1>1, <2>1, <2>2, WayIs, NoReturn
  <1>2. RingWhole /\ [RingNext]_ringVars =>
          [ scheduler_tick => \A t \in added \ {current} :
               /\ t \in Way(current, t)'
               /\ Way(current, t)' \subseteq Way(current, t)
               /\ current \in Way(current, t) \ Way(current, t)' ]_ringVars
    BY <1>1
  <1> QED BY RingAlwaysWhole, <1>2, PTL DEF RingSpec
=============================================================================
