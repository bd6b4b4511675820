------------------------------ MODULE EventLoop ------------------------------
(***************************************************************************)
(* The kernel's event ring (kernel/events/event.c), the interrupt handlers *)
(* that push into it (keyboard.c, mouse.c, timer.c) and the main loop of   *)
(* the kernel that polls it (kernel/kernel.c).                             *)
(*                                                                         *)
(* A handler runs with interrupts off (gates of type 0x8E), so it is one   *)
(* step; it may come between any two steps of the main loop, and in        *)
(* particular inside event_poll.  The copy out of the ring is a struct     *)
(* assignment, several loads: here the type first, then the data.  Every   *)
(* pushed event carries the number of its push, which the code does not    *)
(* have: it is how the properties tell events apart.                       *)
(***************************************************************************)
EXTENDS Integers

CONSTANTS QueueSize,  \* EVENT_QUEUE_SIZE, and INPUT_QUEUE_SIZE: 64
          MaxPush     \* bound: how many events the model pushes

ASSUME EventAssumption == /\ QueueSize \in Nat /\ QueueSize > 1
                          /\ MaxPush \in Nat

EVENT_KEY   == 1
EVENT_MOUSE == 2
EVENT_TIMER == 3
Kinds == {EVENT_KEY, EVENT_MOUSE, EVENT_TIMER}

VARIABLES head, tail,   \* of the event ring
          no, kind,     \* its slots: number of the push, event type
          itail,        \* tail of the input ring (kernel/input/input.c)
          ticks,        \* the timer's counter
          lc,           \* where the main loop is
          e,            \* its local event_t: [typeNo, kind, dataNo]
          n,            \* history: how many events were pushed
          last,         \* history: number of the last event handled
          overrun       \* history: a push found the ring full

ring    == <<head, tail, no, kind>>
evVars  == <<head, tail, no, kind, itail, ticks, lc, e, n, last, overrun>>

Slots == 0 .. (QueueSize - 1)

----------------------------------------------------------------------------
(* (i + 1) % EVENT_QUEUE_SIZE *)
Succ(i) == (i + 1) % QueueSize

(* event_poll's test for an empty ring *)
IsEmpty == head = tail

(* the number of events event_poll can still see *)
Backlog == IF tail >= head THEN tail - head ELSE tail - head + QueueSize

(* a push that makes a ring of QueueSize - 1 unread events look empty *)
Overruns == Succ(tail) = head

EventInit ==
    /\ head = 0 /\ tail = 0
    /\ no = [i \in Slots |-> 0] /\ kind = [i \in Slots |-> EVENT_KEY]
    /\ itail = 0 /\ ticks = 0
    /\ lc = "poll"
    /\ e = [typeNo |-> 0, kind |-> EVENT_KEY, dataNo |-> 0]
    /\ n = 0 /\ last = 0 /\ overrun = FALSE

(* event_push, defined in event.c as event_pust: no test for a full ring;  *)
(* the mutant advances the tail before it stores                           *)
WriteSlot_After == Succ(tail)
WriteSlot == tail

event_push(k) ==
    /\ n < MaxPush
    /\ no' = [no EXCEPT ![WriteSlot] = n + 1]
    /\ kind' = [kind EXCEPT ![WriteSlot] = k]
    /\ tail' = Succ(tail)
    /\ n' = n + 1
    /\ overrun' = (overrun \/ Overruns)
    /\ UNCHANGED <<head, e, last>>

(* input_push_event: the same ring discipline; nobody polls this ring, so  *)
(* only its tail is modelled                                               *)
input_push_event == itail' = Succ(itail)

(* an interrupt ends hlt, and leaves the loop alone anywhere else; the     *)
(* mutant resumes behind the polling loop                                  *)
Wake_PastPoll == IF lc = "halted" THEN "read" ELSE lc
Wake == IF lc = "halted" THEN "poll" ELSE lc

keyboard_irq_handler ==
    /\ event_push(EVENT_KEY) /\ input_push_event
    /\ lc' = Wake
    /\ UNCHANGED ticks

mouse_irq_handler ==
    /\ event_push(EVENT_MOUSE) /\ input_push_event
    /\ lc' = Wake
    /\ UNCHANGED ticks

timer_tick ==
    /\ ticks' = ticks + 1
    /\ event_push(EVENT_TIMER)
    /\ lc' = Wake
    /\ UNCHANGED itail

(* IRQ 0: its handler calls the scheduler and pushes nothing; for the main *)
(* loop it is just the end of hlt                                          *)
irq0_handler ==
    /\ lc = "halted"
    /\ lc' = Wake
    /\ UNCHANGED <<ring, itail, ticks, e, n, last, overrun>>

(* event_poll: head == tail *)
PollEmpty ==
    /\ lc = "poll" /\ IsEmpty
    /\ lc' = "read"
    /\ UNCHANGED <<ring, itail, ticks, e, n, last, overrun>>

PollFull ==
    /\ lc = "poll" /\ ~IsEmpty
    /\ lc' = "copyType"
    /\ UNCHANGED <<ring, itail, ticks, e, n, last, overrun>>

CopyType ==
    /\ lc = "copyType"
    /\ e' = [e EXCEPT !.typeNo = no[head], !.kind = kind[head]]
    /\ lc' = "copyData"
    /\ UNCHANGED <<ring, itail, ticks, n, last, overrun>>

CopyData ==
    /\ lc = "copyData"
    /\ e' = [e EXCEPT !.dataNo = no[head]]
    /\ lc' = "advance"
    /\ UNCHANGED <<ring, itail, ticks, n, last, overrun>>

(* where event_poll leaves head; the mutant catches up with the tail *)
NextHead_CatchUp == tail
NextHead == Succ(head)

Advance ==
    /\ lc = "advance"
    /\ head' = NextHead
    /\ lc' = "dispatch"
    /\ UNCHANGED <<tail, no, kind, itail, ticks, e, n, last, overrun>>

(* the switch on e.type; the handlers it calls do not touch the ring *)
Handle(k) ==
    /\ lc = "dispatch" /\ e.kind = k
    /\ last' = e.dataNo
    /\ lc' = "poll"
    /\ UNCHANGED <<ring, itail, ticks, e, n, overrun>>

terminal_handle_key == Handle(EVENT_KEY)
mouse_handle        == Handle(EVENT_MOUSE)
IgnoreTimer         == Handle(EVENT_TIMER)

(* keyboard_read and the echo, then hlt *)
ReadKeyboard ==
    /\ lc = "read"
    /\ lc' = "hlt"
    /\ UNCHANGED <<ring, itail, ticks, e, n, last, overrun>>

Halt ==
    /\ lc = "hlt"
    /\ lc' = "halted"
    /\ UNCHANGED <<ring, itail, ticks, e, n, last, overrun>>

LoopStep == \/ PollEmpty \/ PollFull \/ CopyType \/ CopyData \/ Advance
            \/ terminal_handle_key \/ mouse_handle \/ IgnoreTimer
            \/ ReadKeyboard \/ Halt

Interrupt == keyboard_irq_handler \/ mouse_irq_handler \/ timer_tick

EventNext == LoopStep \/ Interrupt \/ irq0_handler

EventSpec == /\ EventInit /\ [][EventNext]_evVars
             /\ WF_evVars(LoopStep) /\ WF_evVars(irq0_handler)

----------------------------------------------------------------------------
(* Properties *)

(* Indices stay in the ring and the loop in its known places.              *)
EventTypeOK ==
    /\ head \in Slots /\ tail \in Slots /\ itail \in Slots
    /\ no \in [Slots -> Nat] /\ kind \in [Slots -> Kinds]
    /\ ticks \in Nat /\ n \in Nat /\ last \in Nat /\ overrun \in BOOLEAN
    /\ lc \in {"poll", "copyType", "copyData", "advance", "dispatch",
               "read", "hlt", "halted"}
    /\ e \in [typeNo : Nat, kind : Kinds, dataNo : Nat]

(* What event_poll can still deliver is always the newest events pushed,   *)
(* in the order of their pushes, however often the producers have lapped   *)
(* the consumer: an overrun loses whole laps and never shuffles.           *)
SeesNewest ==
    \A i \in Slots :
        (IF tail > head THEN head <= i /\ i < tail
                        ELSE tail < head /\ (head <= i \/ i < tail))
        => no[i] = n - Backlog + 1 + (IF i >= head THEN i - head ELSE i - head + QueueSize)

(* Events are handled in the order they were pushed and none twice, with   *)
(* interrupts in the middle of event_poll and with the ring overrun.       *)
InOrder == [][last' # last => last' > last]_evVars

(* As long as no push found the ring full, nothing is lost: the events     *)
(* pushed are the ones handled, the one in hand and the ones in the ring,  *)
(* and no event is handled whose type and data come from two pushes.       *)
NothingLost ==
    ~overrun =>
        /\ last + (IF lc = "dispatch" THEN 1 ELSE 0) + Backlog = n
        /\ lc = "dispatch" => e.typeNo = last + 1 /\ e.dataNo = last + 1

(* Whatever is in the ring is polled: an event that arrives after the last *)
(* look at the ring and before hlt does not wake the loop by itself, but   *)
(* the next timer interrupt does.                                          *)
Drains == head # tail ~> head = tail
=============================================================================
