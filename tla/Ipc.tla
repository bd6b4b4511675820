--------------------------------- MODULE Ipc ---------------------------------
(***************************************************************************)
(* The message queue of IPC/ipc.c between a process that sends and one     *)
(* that receives.  There is no lock: the timer may take the CPU from       *)
(* either between any two statements, so each call is a sequence of steps. *)
(* count++ and count-- are one step each, as the single read-modify-write  *)
(* instructions that -O2 makes of them are to an interrupt.                *)
(*                                                                         *)
(* A message is a name and a length; a slot keeps MSG_SIZE - 1 characters. *)
(***************************************************************************)
EXTENDS Integers, Sequences

CONSTANTS MAX_MESSAGES, MSG_SIZE,
          Texts   \* <<name, length>>: what the sender may send

ASSUME IpcAssumption == /\ MAX_MESSAGES \in Nat /\ MAX_MESSAGES > 0
                        /\ MSG_SIZE \in Nat /\ MSG_SIZE > 0
                        /\ \A m \in Texts : m[2] \in Nat

VARIABLES msg, head, tail, count,   \* message_queue_t
          sc, message, sent,        \* the sender: its statement, argument, last answer
          rc, buffer, received, delivered  \* the receiver: its statement, buffer,
                                           \* last answer and last message

ipcVars == <<msg, head, tail, count, sc, message, sent,
             rc, buffer, received, delivered>>

Slots == 0 .. (MAX_MESSAGES - 1)

(* strncpy of MSG_SIZE - 1 characters and the terminator *)
Clip(m) == <<m[1], IF m[2] < MSG_SIZE THEN m[2] ELSE MSG_SIZE - 1>>

(* the next slot; the mutant leaves the last one out *)
Succ_Short(i) == IF i + 2 >= MAX_MESSAGES THEN 0 ELSE i + 1
Succ(i) == (i + 1) % MAX_MESSAGES

(* the queue refuses when it is full *)
Full == count >= MAX_MESSAGES

IpcInit ==
    /\ msg = [i \in Slots |-> <<>>]
    /\ head = 0 /\ tail = 0 /\ count = 0
    /\ sc = "idle" /\ message = <<>> /\ sent = 0
    /\ rc = "idle" /\ buffer = <<>> /\ received = 0 /\ delivered = <<>>

sender == <<sc, message, sent>>
receiver == <<rc, buffer, received, delivered>>

(* ipc_send *)
SendCall(m) ==
    /\ sc = "idle"
    /\ IF Full THEN sent' = -1 /\ UNCHANGED <<sc, message>>
               ELSE sc' = "copy" /\ message' = m /\ UNCHANGED sent
    /\ UNCHANGED <<msg, head, tail, count>> /\ UNCHANGED receiver

SendCopy ==
    /\ sc = "copy"
    /\ msg' = [msg EXCEPT ![tail] = Clip(message)]
    /\ sc' = "tail"
    /\ UNCHANGED <<head, tail, count, message, sent>> /\ UNCHANGED receiver

SendTail ==
    /\ sc = "tail"
    /\ tail' = Succ(tail)
    /\ sc' = "count"
    /\ UNCHANGED <<msg, head, count, message, sent>> /\ UNCHANGED receiver

SendCount ==
    /\ sc = "count"
    /\ count' = count + 1
    /\ sent' = 0 /\ sc' = "idle" /\ message' = <<>>
    /\ UNCHANGED <<msg, head, tail>> /\ UNCHANGED receiver

(* ipc_receive *)
ReceiveCall ==
    /\ rc = "idle"
    /\ IF count = 0 THEN received' = -1 /\ UNCHANGED rc
                    ELSE rc' = "copy" /\ UNCHANGED received
    /\ UNCHANGED <<msg, head, tail, count, buffer, delivered>> /\ UNCHANGED sender

ReceiveCopy ==
    /\ rc = "copy"
    /\ buffer' = msg[head]
    /\ rc' = "head"
    /\ UNCHANGED <<msg, head, tail, count, received, delivered>> /\ UNCHANGED sender

ReceiveHead ==
    /\ rc = "head"
    /\ head' = Succ(head)
    /\ rc' = "count"
    /\ UNCHANGED <<msg, tail, count, buffer, received, delivered>> /\ UNCHANGED sender

(* count--, and the call returns; the mutant forgets to count down *)
Less_Not == count
Less == count - 1

ReceiveCount ==
    /\ rc = "count"
    /\ count' = Less
    /\ received' = 0 /\ delivered' = buffer
    /\ rc' = "idle" /\ buffer' = <<>>
    /\ UNCHANGED <<msg, head, tail>> /\ UNCHANGED sender

IpcNext ==
    \/ \E m \in Texts : SendCall(m)
    \/ SendCopy \/ SendTail \/ SendCount
    \/ ReceiveCall \/ ReceiveCopy \/ ReceiveHead \/ ReceiveCount

IpcSpec == IpcInit /\ [][IpcNext]_ipcVars

----------------------------------------------------------------------------
(* Properties *)

Clipped == {Clip(m) : m \in Texts}

IpcTypeOK ==
    /\ msg \in [Slots -> Clipped \cup {<<>>}]
    /\ head \in Slots /\ tail \in Slots
    /\ count \in 0 .. MAX_MESSAGES
    /\ sc \in {"idle", "copy", "tail", "count"}
    /\ message \in Texts \cup {<<>>}
    /\ rc \in {"idle", "copy", "head", "count"}
    /\ buffer \in Clipped \cup {<<>>} /\ delivered \in Clipped \cup {<<>>}
    /\ sent \in {0, -1} /\ received \in {0, -1}

(* The sender never writes the slot the receiver is reading, and count,     *)
(* head and tail stay in their ranges.                                     *)
SlotsApart == IpcTypeOK /\ ~(sc = "copy" /\ rc = "copy" /\ tail = head)

(* The queue is a bounded first-in first-out queue whatever the moments    *)
(* the timer chooses.  A message is in it from count++ to count--; while   *)
(* the receiver is about to count down, head is one ahead of it.           *)
Oldest == IF rc = "count" THEN (head + MAX_MESSAGES - 1) % MAX_MESSAGES ELSE head
Queued == [i \in 1 .. count |-> msg[(Oldest + i - 1) % MAX_MESSAGES]]

Fifo == INSTANCE BoundedFifo WITH Capacity <- MAX_MESSAGES, Messages <- Texts,
                                  queue <- Queued
ImplementsFifo == Fifo!FifoSpec
=============================================================================
