----------------------------- MODULE BoundedFifo -----------------------------
(***************************************************************************)
(* What a message queue promises: messages come out in the order they went *)
(* in, each once, cut to what a slot holds; a call fails only when the     *)
(* queue is full (sending) or empty (receiving).                           *)
(***************************************************************************)
EXTENDS Integers, Sequences

CONSTANTS Capacity,  \* how many messages the queue holds
          Messages,  \* what may be sent
          Clip(_)    \* what arrives of a message

VARIABLES queue,      \* the messages in the queue, oldest first
          sent,       \* what the last send answered
          received,   \* what the last receive answered
          delivered   \* the last message received

fifoVars == <<queue, sent, received, delivered>>

FifoInit == queue = <<>> /\ sent = 0 /\ received = 0 /\ delivered = <<>>

Put(m) ==
    /\ Len(queue) < Capacity
    /\ queue' = Append(queue, Clip(m))
    /\ sent' = 0
    /\ UNCHANGED <<received, delivered>>

Refuse ==
    /\ Len(queue) = Capacity
    /\ sent' = -1
    /\ UNCHANGED <<queue, received, delivered>>

Take ==
    /\ queue # <<>>
    /\ delivered' = Head(queue)
    /\ queue' = Tail(queue)
    /\ received' = 0
    /\ UNCHANGED sent

Nothing ==
    /\ queue = <<>>
    /\ received' = -1
    /\ UNCHANGED <<queue, sent, delivered>>

FifoNext == (\E m \in Messages : Put(m)) \/ Refuse \/ Take \/ Nothing

FifoSpec == FifoInit /\ [][FifoNext]_fifoVars
=============================================================================
