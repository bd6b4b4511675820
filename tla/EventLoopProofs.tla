--------------------------- MODULE EventLoopProofs ---------------------------
(* Proofs about the event ring for every ring size and any number of       *)
(* pushes.                                                                 *)
EXTENDS EventLoop, TLAPS

(* the push number that slot i holds, counted back from the newest; not    *)
(* positive for a slot nothing was pushed into yet                         *)
Stamp(i) == n - tail + i + 1 - (IF i >= tail THEN QueueSize ELSE 0)

Stamped == \A i \in Slots : no[i] = IF Stamp(i) > 0 THEN Stamp(i) ELSE 0

(* in the first lap the tail counts the pushes, and later it is a whole    *)
(* ring behind them; the head is ahead of the tail only in later laps      *)
FirstLap == /\ n = tail \/ n >= tail + QueueSize
            /\ head > tail => n >= tail + QueueSize

(* what the loop holds is newer than what it handled, and what it will     *)
(* read next is newer than what it holds                                   *)
Newer ==
    /\ last <= n /\ e.dataNo <= n
    /\ lc = "copyType" => last < no[head]
    /\ lc = "copyData" => last < e.typeNo /\ e.typeNo <= no[head]
    /\ lc = "advance"  => /\ last < e.typeNo /\ e.typeNo <= e.dataNo
                          /\ e.dataNo <= no[head]
    /\ lc = "dispatch" => /\ last < e.typeNo /\ e.typeNo <= e.dataNo
                          /\ head # tail => e.dataNo < no[head]
    /\ lc \in {"poll", "read", "hlt", "halted"} /\ head # tail => last < no[head]

(* the accounting behind NothingLost *)
Whole ==
    ~overrun =>
        /\ last + (IF lc = "dispatch" THEN 1 ELSE 0) + Backlog = n
        /\ lc \in {"copyType", "copyData", "advance"} => head # tail
        /\ lc \in {"copyData", "advance"} => e.typeNo = last + 1
        /\ lc = "advance" => e.dataNo = last + 1
        /\ lc = "dispatch" => e.typeNo = last + 1 /\ e.dataNo = last + 1

EventInv == EventTypeOK /\ Stamped /\ FirstLap /\ Newer /\ Whole

(* The successor on the ring, without the modulus.                         *)
LEMMA SuccFacts ==
    ASSUME NEW i \in Slots
    PROVE  /\ Succ(i) \in Slots
           /\ Succ(i) = IF i = QueueSize - 1 THEN 0 ELSE i + 1
  <1>1. CASE i = QueueSize - 1
    <2>1. (i + 1) % QueueSize = 0
      BY <1>1, EventAssumption
    <2> QED BY <1>1, <2>1, EventAssumption DEF Succ, Slots
  <1>2. CASE i # QueueSize - 1
    <2>1. i + 1 \in 0 .. (QueueSize - 1)
      BY <1>2, EventAssumption DEF Slots
    <2>2. (i + 1) % QueueSize = i + 1
      BY <2>1, EventAssumption
    <2> QED BY <1>2, <2>1, <2>2, EventAssumption DEF Succ, Slots
  <1> QED BY <1>1, <1>2

(* The invariant holds when the kernel enters its main loop.               *)
LEMMA EventInvInit == EventInit => EventInv
  <1> SUFFICES ASSUME EventInit PROVE EventInv
    OBVIOUS
  <1> USE EventAssumption DEF EventInit, Slots
  <1>1. EventTypeOK
    <2>1. EVENT_KEY \in Kinds /\ 0 \in Slots
      BY DEF Kinds
    <2>2. e \in [typeNo : Nat, kind : Kinds, dataNo : Nat]
      BY <2>1
    <2>3. no \in [Slots -> Nat] /\ kind \in [Slots -> Kinds]
      BY <2>1
    <2> QED BY <2>1, <2>2, <2>3 DEF EventTypeOK
  <1>2. Stamped /\ FirstLap
    BY DEF Stamped, Stamp, FirstLap
  <1>3. Newer /\ Whole
    BY DEF Newer, Whole, Backlog
  <1> QED BY <1>1, <1>2, <1>3 DEF EventInv

(* A push keeps the ring's accounts, wherever the main loop is.            *)
LEMMA PushPreserves ==
    ASSUME EventInv, NEW k \in Kinds, event_push(k), lc' = Wake,
           itail' \in Slots, ticks' \in Nat
    PROVE  EventInv'
  <1> USE EventAssumption DEF EventInv
  <1>0. /\ tail \in Slots /\ head \in Slots /\ n \in Nat /\ tail' \in Slots
        /\ tail' = IF tail = QueueSize - 1 THEN 0 ELSE tail + 1
        /\ n' = n + 1 /\ head' = head /\ e' = e /\ last' = last
        /\ no' = [no EXCEPT ![tail] = n + 1]
        /\ kind' = [kind EXCEPT ![tail] = k]
        /\ overrun' = (overrun \/ Overruns)
    BY SuccFacts DEF EventTypeOK, event_push, WriteSlot
  <1>1. EventTypeOK'
    BY <1>0 DEF EventTypeOK, Wake, Kinds
  <1>2. Stamped'
    <2> SUFFICES ASSUME NEW i \in Slots
                 PROVE  no'[i] = IF Stamp(i)' > 0 THEN Stamp(i)' ELSE 0
      BY DEF Stamped
    <2>1. CASE i = tail
      BY <1>0, <2>1 DEF Stamp, EventTypeOK, Slots
    <2>2. CASE i # tail
      <3>1. Stamp(i)' = Stamp(i)
        BY <1>0, <2>2 DEF Stamp, Slots
      <3> QED BY <1>0, <2>2, <3>1 DEF Stamped, EventTypeOK
    <2> QED BY <2>1, <2>2
  <1>3. FirstLap'
    BY <1>0 DEF FirstLap, Slots
  <1>4. Newer'
    <2>1. no[head] \in Nat /\ no'[head] \in Nat
      BY <1>0 DEF EventTypeOK
    <2>2. no[head] <= n
      BY <1>0 DEF Stamped, Stamp, Slots
    <2>3. no'[head] = IF head = tail THEN n + 1 ELSE no[head]
      BY <1>0 DEF EventTypeOK
    <2>4. e.typeNo \in Nat /\ e.dataNo \in Nat /\ last \in Nat
      BY DEF EventTypeOK
    <2> QED BY <1>0, <2>1, <2>2, <2>3, <2>4 DEF Newer, Wake
  <1>5. Whole'
    <2> SUFFICES ASSUME ~overrun, ~Overruns
                 PROVE  Whole'
      BY <1>0 DEF Whole
    <2>1. Succ(tail) # head /\ Succ(tail) = tail'
      BY <1>0, SuccFacts DEF Overruns
    <2>2. Backlog' = Backlog + 1 /\ Backlog \in Nat
      BY <1>0, <2>1 DEF Backlog, Slots
    <2>3. head # tail'
      BY <2>1
    <2> QED BY <1>0, <2>2, <2>3 DEF Whole, Wake, EventTypeOK
  <1> QED BY <1>1, <1>2, <1>3, <1>4, <1>5

(* Copying, dispatching and sleeping leave the ring alone.                 *)
LEMMA LoopPreserves ==
    ASSUME EventInv, LoopStep, ~Advance
    PROVE  EventInv'
  <1> USE EventAssumption DEF EventInv
  <1>0. /\ UNCHANGED <<ring, itail, ticks, n, overrun>>
        /\ tail \in Slots /\ head \in Slots
        /\ no[head] \in Nat /\ no[head] <= n /\ kind[head] \in Kinds
    <2>1. /\ tail \in Slots /\ head \in Slots /\ n \in Nat
          /\ no[head] \in Nat /\ kind[head] \in Kinds
      BY DEF EventTypeOK
    <2>2. no[head] <= n
      BY <2>1 DEF Stamped, Stamp, Slots
    <2> QED BY <2>1, <2>2 DEF LoopStep, PollEmpty, PollFull, CopyType, CopyData,
               terminal_handle_key, mouse_handle, IgnoreTimer, Handle, ReadKeyboard, Halt
  <1>1. Stamped' /\ FirstLap'
    BY <1>0 DEF Stamped, Stamp, FirstLap, ring
  <1>2. CASE PollEmpty \/ PollFull \/ ReadKeyboard \/ Halt
    <2>1. EventTypeOK'
      BY <1>0, <1>2 DEF EventTypeOK, PollEmpty, PollFull, ReadKeyboard, Halt, ring
    <2>2. Newer' /\ Whole'
      BY <1>0, <1>2 DEF Newer, Whole, Backlog, PollEmpty, PollFull, ReadKeyboard, Halt,
         IsEmpty, ring
    <2> QED BY <1>1, <2>1, <2>2
  <1>3. CASE CopyType
    <2>1. e' = [e EXCEPT !.typeNo = no[head], !.kind = kind[head]]
      BY <1>3 DEF CopyType
    <2>2. /\ e'.typeNo = no[head] /\ e'.kind = kind[head] /\ e'.dataNo = e.dataNo
          /\ e' \in [typeNo : Nat, kind : Kinds, dataNo : Nat]
      BY <2>1, <1>0 DEF EventTypeOK
    <2>3. EventTypeOK'
      BY <1>0, <1>3, <2>2 DEF EventTypeOK, CopyType, ring
    <2>4. Newer'
      BY <1>0, <1>3, <2>2 DEF Newer, CopyType, ring
    <2>5. Whole'
      <3>1. ASSUME ~overrun PROVE no[head] = last + 1
        <4>1. head # tail /\ last + Backlog = n
          BY <1>3, <3>1 DEF Whole, CopyType, EventTypeOK, Backlog, Slots
        <4>2. Stamp(head) = n - Backlog + 1
          BY <4>1, <1>0 DEF Stamp, Backlog, Slots, EventTypeOK
        <4>3. no[head] = n - Backlog + 1
          BY <4>1, <4>2, <1>0 DEF Stamped, EventTypeOK, Backlog, Slots
        <4> QED BY <4>1, <4>3, <1>0 DEF EventTypeOK, Backlog, Slots
      <3> QED BY <1>0, <1>3, <2>2, <3>1 DEF Whole, Backlog, CopyType, ring
    <2> QED BY <1>1, <2>3, <2>4, <2>5
  <1>4. CASE CopyData
    <2>1. e' = [e EXCEPT !.dataNo = no[head]]
      BY <1>4 DEF CopyData
    <2>2. /\ e'.typeNo = e.typeNo /\ e'.dataNo = no[head]
          /\ e' \in [typeNo : Nat, kind : Kinds, dataNo : Nat]
      BY <2>1, <1>0 DEF EventTypeOK
    <2>3. EventTypeOK'
      BY <1>0, <1>4, <2>2 DEF EventTypeOK, CopyData, ring
    <2>4. Newer'
      BY <1>0, <1>4, <2>2 DEF Newer, CopyData, ring
    <2>5. Whole'
      <3>1. ASSUME ~overrun PROVE no[head] = last + 1
        <4>1. head # tail /\ last + Backlog = n
          BY <1>4, <3>1 DEF Whole, CopyData, EventTypeOK, Backlog, Slots
        <4>2. Stamp(head) = n - Backlog + 1
          BY <4>1, <1>0 DEF Stamp, Backlog, Slots, EventTypeOK
        <4>3. no[head] = n - Backlog + 1
          BY <4>1, <4>2, <1>0 DEF Stamped, EventTypeOK, Backlog, Slots
        <4> QED BY <4>1, <4>3, <1>0 DEF EventTypeOK, Backlog, Slots
      <3> QED BY <1>0, <1>4, <2>2, <3>1 DEF Whole, Backlog, CopyData, ring
    <2> QED BY <1>1, <2>3, <2>4, <2>5
  <1>5. CASE terminal_handle_key \/ mouse_handle \/ IgnoreTimer
    <2>1. /\ lc = "dispatch" /\ lc' = "poll" /\ last' = e.dataNo /\ e' = e
          /\ e.dataNo \in Nat
      BY <1>5 DEF terminal_handle_key, mouse_handle, IgnoreTimer, Handle, EventTypeOK
    <2>2. EventTypeOK'
      BY <1>0, <2>1 DEF EventTypeOK, ring
    <2>3. Newer'
      BY <1>0, <2>1 DEF Newer, ring
    <2>4. Whole'
      BY <1>0, <2>1 DEF Whole, Backlog, ring, EventTypeOK, Slots
    <2> QED BY <1>1, <2>2, <2>3, <2>4
  <1> QED BY <1>2, <1>3, <1>4, <1>5 DEF LoopStep

(* Advancing the head moves on to the slot whose event was pushed next.    *)
LEMMA AdvancePreserves ==
    ASSUME EventInv, Advance
    PROVE  EventInv'
  <1> USE EventAssumption DEF EventInv
  <1>0. /\ tail \in Slots /\ head \in Slots /\ head' \in Slots
        /\ head' = IF head = QueueSize - 1 THEN 0 ELSE head + 1
        /\ lc = "advance" /\ lc' = "dispatch"
        /\ UNCHANGED <<tail, no, kind, itail, ticks, e, n, last, overrun>>
        /\ no[head] \in Nat /\ no[head'] \in Nat /\ n \in Nat
        /\ e.typeNo \in Nat /\ e.dataNo \in Nat /\ last \in Nat
    BY SuccFacts DEF EventTypeOK, Advance, NextHead
  <1>1. EventTypeOK'
    BY <1>0 DEF EventTypeOK
  <1>2. Stamped' /\ FirstLap'
    <2>1. Stamped'
      BY <1>0 DEF Stamped, Stamp
    <2>2. ASSUME head = tail PROVE n >= tail + QueueSize
      <3>1. Stamp(head) > 0
        BY <1>0 DEF Newer, Stamped
      <3> QED BY <1>0, <2>2, <3>1 DEF Stamp, FirstLap, Slots
    <2> QED BY <1>0, <2>1, <2>2 DEF FirstLap, Slots
  <1>3. Newer'
    <2>1. ASSUME head' # tail PROVE no[head'] = no[head] + 1
      <3>1. Stamp(head') = Stamp(head) + 1
        BY <2>1, <1>0 DEF Stamp, Slots
      <3>2. no[head] > 0
        BY <1>0 DEF Newer
      <3> QED BY <3>1, <3>2, <1>0 DEF Stamped, Stamp, Slots
    <2> QED BY <1>0, <2>1 DEF Newer
  <1>4. Whole'
    <2> SUFFICES ASSUME ~overrun PROVE Whole'
      BY <1>0 DEF Whole
    <2>1. head # tail /\ last + Backlog = n
      BY <1>0 DEF Whole, Backlog, Slots
    <2>2. Backlog' = Backlog - 1 /\ Backlog \in Nat
      BY <1>0, <2>1 DEF Backlog, Slots
    <2> QED BY <1>0, <2>1, <2>2 DEF Whole
  <1> QED BY <1>1, <1>2, <1>3, <1>4

(* Every step keeps the invariant.                                         *)
LEMMA EventInvNext == EventInv /\ [EventNext]_evVars => EventInv'
  <1> SUFFICES ASSUME EventInv, [EventNext]_evVars PROVE EventInv'
    OBVIOUS
  <1>0. itail \in Slots /\ Succ(itail) \in Slots /\ ticks \in Nat
    BY SuccFacts DEF EventInv, EventTypeOK
  <1>1. CASE Advance
    BY <1>1, AdvancePreserves
  <1>2. CASE LoopStep /\ ~Advance
    BY <1>2, LoopPreserves
  <1>3. CASE keyboard_irq_handler
    BY <1>3, <1>0, PushPreserves DEF keyboard_irq_handler, input_push_event, Kinds
  <1>4. CASE mouse_irq_handler
    BY <1>4, <1>0, PushPreserves DEF mouse_irq_handler, input_push_event, Kinds
  <1>5. CASE timer_tick
    BY <1>5, <1>0, PushPreserves DEF timer_tick, Kinds
  <1>6. CASE irq0_handler
    BY <1>6 DEF irq0_handler, Wake, EventInv, EventTypeOK, Stamped, Stamp, FirstLap,
       Newer, Whole, Backlog, ring
  <1>7. CASE UNCHANGED evVars
    BY <1>7 DEF evVars, EventInv, EventTypeOK, Stamped, Stamp, FirstLap, Newer, Whole, Backlog
  <1> QED BY <1>1, <1>2, <1>3, <1>4, <1>5, <1>6, <1>7 DEF EventNext, LoopStep, Interrupt

(* The inductive invariant holds in every behaviour.                       *)
THEOREM EventInvariance == EventSpec => []EventInv
  BY EventInvInit, EventInvNext, PTL DEF EventSpec

(* The ring's indices never leave the ring.                                *)
THEOREM EventTypeCorrect == EventSpec => []EventTypeOK
  <1>1. EventInv => EventTypeOK
    BY DEF EventInv
  <1> QED BY <1>1, EventInvariance, PTL

(* What can still be polled is always the newest events, in push order,    *)
(* for every ring size and any number of overruns.                         *)
THEOREM EventSeesNewest == EventSpec => []SeesNewest
  <1>1. EventInv => SeesNewest
    <2> SUFFICES ASSUME EventInv, NEW i \in Slots,
                        IF tail > head THEN head <= i /\ i < tail
                        ELSE tail < head /\ (head <= i \/ i < tail)
                 PROVE  no[i] = n - Backlog + 1 +
                                (IF i >= head THEN i - head ELSE i - head + QueueSize)
      BY DEF SeesNewest
    <2>1. head \in Slots /\ tail \in Slots /\ n \in Nat
      BY DEF EventInv, EventTypeOK
    <2>2. n >= tail /\ (head > tail => n >= tail + QueueSize)
      BY <2>1, EventAssumption DEF EventInv, FirstLap, Slots
    <2>3. Stamp(i) > 0
      BY <2>1, <2>2, EventAssumption DEF Stamp, Slots
    <2>4. no[i] = Stamp(i)
      BY <2>3 DEF EventInv, Stamped
    <2> QED BY <2>1, <2>4, EventAssumption DEF Stamp, Backlog, Slots
  <1> QED BY <1>1, EventInvariance, PTL

(* While no push finds the ring full, every event pushed is handled, in    *)
(* hand or in the ring, and none is torn.                                  *)
THEOREM EventNothingLost == EventSpec => []NothingLost
  <1>1. EventInv => NothingLost
    BY DEF EventInv, NothingLost, Whole
  <1> QED BY <1>1, EventInvariance, PTL

(* Events are handled in push order, each at most once, whatever the       *)
(* interrupts do to the ring while event_poll is inside it.                *)
THEOREM EventInOrder == EventSpec => InOrder
  <1>1. EventInv /\ [EventNext]_evVars => [last' # last => last' > last]_evVars
    <2> SUFFICES ASSUME EventInv, EventNext, last' # last PROVE last' > last
      OBVIOUS
    <2>1. lc = "dispatch" /\ last' = e.dataNo
      BY DEF EventNext, LoopStep, Interrupt, PollEmpty, PollFull, CopyType, CopyData, Advance,
         terminal_handle_key, mouse_handle, IgnoreTimer, Handle, ReadKeyboard, Halt,
         keyboard_irq_handler, mouse_irq_handler, timer_tick, event_push, irq0_handler
    <2> QED BY <2>1 DEF EventInv, Newer, EventTypeOK
  <1> QED BY <1>1, EventInvariance, PTL DEF InOrder, EventSpec

(* The steps the loop, and the timer that ends its hlt, may still need     *)
(* before the ring is empty, if nothing more is pushed.                    *)
Rounds ==
    [poll |-> 4, copyType |-> 3, copyData |-> 2, advance |-> 1, dispatch |-> 5,
     read |-> 7, hlt |-> 6, halted |-> 5]
Work == 8 * Backlog + Rounds[lc]

(* With something in the ring every step but a push brings the main loop   *)
(* closer to the next event: it never waits, skips a look or turns on the  *)
(* spot, wherever interrupts found it (event_poll, kernel_run_userspace).  *)
THEOREM EventWorkShrinks ==
    EventSpec => [][head # tail /\ n' = n => Work \in Nat /\ Work' \in Nat /\ Work' < Work]_evVars
  <1>1. ASSUME EventInv, EventNext, head # tail, n' = n
        PROVE  Work \in Nat /\ Work' \in Nat /\ Work' < Work
    <2>0. /\ head \in Slots /\ tail \in Slots /\ n \in Nat
          /\ lc \in {"poll", "copyType", "copyData", "advance", "dispatch",
                     "read", "hlt", "halted"}
      BY <1>1 DEF EventInv, EventTypeOK
    <2>1. LoopStep \/ irq0_handler
      BY <1>1, <2>0 DEF EventNext, Interrupt, keyboard_irq_handler, mouse_irq_handler,
                        timer_tick, event_push
    <2>2. tail' = tail
      BY <2>1 DEF LoopStep, PollEmpty, PollFull, CopyType, CopyData, Advance, ring,
                  terminal_handle_key, mouse_handle, IgnoreTimer, Handle, ReadKeyboard, Halt,
                  irq0_handler
    <2>3. Backlog \in Nat
      BY <2>0, EventAssumption DEF Backlog, Slots
    <2>4. Rounds[lc] \in 1 .. 7
      BY <2>0 DEF Rounds
    <2>5. CASE Advance
      <3>1. head' = Succ(head) /\ lc = "advance" /\ lc' = "dispatch"
        BY <2>5 DEF Advance, NextHead
      <3>2. Backlog' = Backlog - 1
        BY <3>1, <2>0, <2>2, <1>1, SuccFacts, EventAssumption DEF Backlog, Slots
      <3>3. Backlog' \in Nat
        BY <3>1, <2>0, <2>2, SuccFacts, EventAssumption DEF Backlog, Slots
      <3>4. Rounds[lc] = 1 /\ Rounds[lc'] = 5 /\ Work' = 8 * Backlog' + Rounds[lc']
        BY <3>1 DEF Rounds, Work
      <3> QED BY <2>3, <3>2, <3>3, <3>4 DEF Work
    <2>6. CASE ~Advance
      <3>1. head' = head
        BY <1>1, <2>1, <2>6 DEF LoopStep, PollEmpty, PollFull, CopyType, CopyData, ring,
                  terminal_handle_key, mouse_handle, IgnoreTimer, Handle, ReadKeyboard, Halt,
                  irq0_handler
      <3>2. Work' = 8 * Backlog + Rounds[lc']
        BY <2>2, <3>1 DEF Work, Backlog, Rounds
      <3>3. Rounds[lc'] \in Nat /\ Rounds[lc'] < Rounds[lc]
        BY <1>1, <2>1, <2>6 DEF LoopStep, PollEmpty, IsEmpty, PollFull, CopyType, CopyData,
                  terminal_handle_key, mouse_handle, IgnoreTimer, Handle, ReadKeyboard, Halt,
                  irq0_handler, Wake, Rounds
      <3> QED BY <2>3, <2>4, <3>2, <3>3 DEF Work
    <2> QED BY <2>5, <2>6
  <1>2. EventInv /\ [EventNext]_evVars =>
          [head # tail /\ n' = n => Work \in Nat /\ Work' \in Nat /\ Work' < Work]_evVars
    BY <1>1
  <1> QED BY <1>2, EventInvariance, PTL DEF EventSpec
=============================================================================
