---------------------------- MODULE ProcessProofs ----------------------------
(***************************************************************************)
(* Proofs about the process scheduler, for any number of processes, any    *)
(* priorities, any sleeps, and a tick between any two statements.          *)
(***************************************************************************)
EXTENDS Process, WellFoundedInduction, TLAPS

USE ProcAssumption

(* A nonempty set of naturals has a least element. *)
LEMMA LeastNat ==
    ASSUME NEW S, S \subseteq Nat, S # {}
    PROVE  \E m \in S : \A k \in S : m <= k
<1>1. PICK m \in S : \A k \in S : ~(<<k, m>> \in OpToRel(<, Nat))
  BY WFMin, NatLessThanWellFounded
<1>2. \A k \in S : ~(k < m)
  BY <1>1 DEF OpToRel
<1> QED
  BY <1>2

(* A nonempty set of pids has a greatest element. *)
LEMMA NewestPid ==
    ASSUME NEW S, S \subseteq Pids, S # {}
    PROVE  \E p \in S : \A q \in S : q <= p
<1> DEFINE Age(p) == MaxProcs - p
           Ages == {Age(p) : p \in S}
<1>1. Ages \subseteq Nat /\ Ages # {}
  <2>1. \A p \in S : Age(p) \in Nat
    BY DEF Pids
  <2> QED
    BY <2>1
<1> HIDE DEF Ages
<1>2. PICK m \in Ages : \A k \in Ages : m <= k
  BY <1>1, LeastNat
<1>3. PICK p \in S : m = Age(p)
  BY DEF Ages
<1>4. \A q \in S : Age(p) <= Age(q)
  BY <1>2, <1>3 DEF Ages
<1>5. \A q \in S : q <= p
  BY <1>4 DEF Pids
<1> QED
  BY <1>5

----------------------------------------------------------------------------
(* The process list, and what scheduler_switch picks from it *)

Listed(n) == n \in Pids /\ procs = 0 .. n

(* The head of the list is the newest process.                             *)
LEMMA ListHeadIs ==
    ASSUME NEW n, Listed(n)
    PROVE  ListHead = n
<1>1. n \in procs /\ \A q \in procs : q <= n
  BY DEF Listed, Pids
<1>2. \A p \in procs : (\A q \in procs : q <= p) => p = n
  BY <1>1 DEF Listed, Pids
<1> QED
  BY <1>1, <1>2 DEF ListHead

(* The picking loop of scheduler_switch finds a best process whenever one  *)
(* is ready.                                                               *)
LEMMA BestOfReady ==
    ASSUME NEW st, procs \subseteq Pids, priority \in [Pids -> 0 .. 255],
           Ready(st) # {}
    PROVE  /\ Best(st) \in Ready(st)
           /\ \A q \in Ready(st) \ {Best(st)} :
                 \/ priority[Best(st)] < priority[q]
                 \/ priority[Best(st)] = priority[q] /\ Best(st) > q
<1> DEFINE R == Ready(st)
           Values == {priority[p] : p \in R}
<1>1. R \subseteq Pids /\ R # {}
  BY DEF Ready
<1> HIDE DEF R
<1>2. Values \subseteq Nat /\ Values # {}
  BY <1>1
<1> HIDE DEF Values
<1>3. PICK m \in Values : \A k \in Values : m <= k
  BY <1>2, LeastNat
<1> DEFINE First == {p \in R : priority[p] = m}
<1>4. First \subseteq Pids /\ First # {}
  BY <1>1, <1>3 DEF Values
<1> HIDE DEF First
<1>5. PICK p \in First : \A q \in First : q <= p
  BY <1>4, NewestPid
<1>6. p \in R /\ priority[p] = m
  BY <1>5 DEF First
<1>7. ASSUME NEW q \in R \ {p}
      PROVE  priority[p] < priority[q] \/ (priority[p] = priority[q] /\ p > q)
  <2>1. m <= priority[q]
    BY <1>3, <1>7 DEF Values
  <2>2. priority[q] \in 0 .. 255 /\ m \in 0 .. 255
    BY <1>1, <1>6, <1>7
  <2>3. CASE priority[q] = m
    <3>1. q <= p
      BY <1>5, <1>7, <2>3 DEF First
    <3>2. p \in Pids /\ q \in Pids /\ q # p
      BY <1>1, <1>6, <1>7
    <3> QED
      BY <3>1, <3>2, <2>3, <1>6 DEF Pids
  <2>4. CASE priority[q] # m
    BY <2>1, <2>2, <2>4, <1>6
  <2> QED
    BY <2>3, <2>4
<1>8. Best(st) = CHOOSE b \in R : \A q \in R \ {b} :
                    \/ priority[b] < priority[q]
                    \/ priority[b] = priority[q] /\ b > q
  BY <1>1 DEF Best, R
<1> QED
  BY <1>6, <1>7, <1>8 DEF R

(* scheduler_switch always picks a process of the list.                    *)
LEMMA BestIsListed ==
    ASSUME NEW st, NEW n, Listed(n), priority \in [Pids -> 0 .. 255]
    PROVE  Best(st) \in procs
<1>1. procs \subseteq Pids
  BY DEF Listed, Pids
<1>2. CASE Ready(st) = {}
  BY <1>2, ListHeadIs DEF Best, Listed, Pids
<1>3. CASE Ready(st) # {}
  BY <1>1, <1>3, BestOfReady DEF Ready
<1> QED
  BY <1>2, <1>3

(* The idle process, when it is ready and no other has priority 0, is the  *)
(* one picked.                                                             *)
LEMMA BestIsIdle ==
    ASSUME NEW st, procs \subseteq Pids, priority \in [Pids -> 0 .. 255],
           Idle \in procs, st[Idle] = "WAITING", priority[Idle] = 0,
           OnlyIdleHasZero
    PROVE  Best(st) = Idle
<1>1. Idle \in Ready(st)
  BY DEF Ready, Idle
<1>2. Best(st) \in Ready(st)
  BY <1>1, BestOfReady
<1>3. \/ Best(st) = Idle
      \/ priority[Best(st)] < priority[Idle]
      \/ priority[Best(st)] = priority[Idle]
  BY <1>1, BestOfReady
<1>4. Best(st) # Idle => priority[Best(st)] > 0
  BY <1>2 DEF Ready, OnlyIdleHasZero
<1>5. Best(st) \in Pids
  BY <1>2 DEF Ready
<1> QED
  BY <1>3, <1>4, <1>5

----------------------------------------------------------------------------
(* The inductive invariant *)

PTypes ==
    /\ \E n \in Pids : procs = 0 .. n
    /\ state \in [Pids -> States]
    /\ priority \in [Pids -> 0 .. 255]
    /\ wakeup \in [Pids -> Nat]
    /\ context \in [Pids -> Pids \cup {NoThread}]
    /\ current \in procs
    /\ ticks \in Nat
    /\ at \in [Pids -> {"run", "create", "sleep", "pick", "demote", "promote", "switch", "swap"}]
    /\ picked \in [Pids -> Pids]
    /\ idleKilled \in BOOLEAN /\ raced \in BOOLEAN

(* who has the CPU, and what its switch remembers *)
PCpu ==
    /\ running \in procs
    /\ at[running] = "swap" => picked[running] = running /\ current # running
    /\ at[running] # "swap" => current = running

(* everyone else is saved in its own context, outside the window *)
PSaved ==
    \A p \in Pids \ {running} : at[p] \notin Window /\ (p \in procs => context[p] = p)

(* a switch under way is to another process of the list *)
PPicked ==
    \A p \in Pids : at[p] \in {"demote", "promote", "switch"}
                    => picked[p] \in procs /\ picked[p] # p

PStates ==
    /\ \A p \in procs : state[p] = "RUNNING" =>
            p = current \/ (at[running] = "switch" /\ p = picked[running])
    /\ \A p \in procs : state[p] = "SLEEPING" => p = current
    /\ at[running] \in {"promote", "switch"} => state[current] \in {"WAITING"}

PInv == PTypes /\ (~raced => PCpu /\ PSaved /\ PPicked /\ PStates)

(* After process_init the idle process has the CPU and there is no other.  *)
LEMMA PInvInit == ProcInit => PInv
<1> SUFFICES ASSUME ProcInit PROVE PInv
  OBVIOUS
<1>1. Idle \in Pids /\ procs = 0 .. 0
  BY DEF ProcInit, Pids, Idle
<1>2. PTypes
  <2>1. \E n \in Pids : procs = 0 .. n
    BY <1>1 DEF Idle
  <2>2. current \in procs /\ ticks \in Nat /\ idleKilled \in BOOLEAN /\ raced \in BOOLEAN
    BY DEF ProcInit
  <2>3. state \in [Pids -> States] /\ priority \in [Pids -> 0 .. 255]
    BY DEF ProcInit, IdlePriority, States
  <2>4. /\ wakeup \in [Pids -> Nat]
        /\ context \in [Pids -> Pids \cup {NoThread}]
        /\ at \in [Pids -> {"run", "create", "sleep", "pick", "demote", "promote", "switch", "swap"}]
        /\ picked \in [Pids -> Pids]
    BY <1>1 DEF ProcInit
  <2> QED
    BY <2>1, <2>2, <2>3, <2>4 DEF PTypes
<1>3. PCpu /\ PPicked
  BY <1>1 DEF PCpu, PPicked, ProcInit
<1>4. PSaved
  BY <1>1 DEF PSaved, ProcInit, Window, Idle
<1>5. PStates
  BY <1>1 DEF PStates, ProcInit, Idle
<1> QED
  BY <1>2, <1>3, <1>4, <1>5 DEF PInv

(* what every step starts from, spelt out *)
LEMMA ListFacts ==
    ASSUME PTypes
    PROVE  /\ procs \subseteq Pids /\ Idle \in procs
           /\ ListHead \in Pids /\ procs = 0 .. ListHead
<1>1. PICK n \in Pids : procs = 0 .. n
  BY DEF PTypes
<1>2. ListHead = n
  BY <1>1, ListHeadIs DEF Listed
<1> QED
  BY <1>1, <1>2 DEF Pids, Idle

(* A new process is saved in its own context and WAITING.                  *)
LEMMA LinkKeeps ==
    ASSUME PInv, NEW t \in procs, NEW prio \in Priorities, Link(t, prio)
    PROVE  PInv'
<1>1. /\ procs \subseteq Pids /\ Idle \in procs
      /\ ListHead \in Pids /\ procs = 0 .. ListHead
  BY ListFacts DEF PInv
<1>2. PICK p : p = picked[t]
  OBVIOUS
<1>3. /\ p \in Pids /\ t \in Pids
      /\ ~raced /\ running = t /\ at[t] = "create"
      /\ at' = [at EXCEPT ![t] = "run"]
      /\ picked' = [picked EXCEPT ![t] = Idle]
      /\ \/ /\ p = ListHead + 1
            /\ procs' = procs \cup {p}
            /\ state' = [state EXCEPT ![p] = "WAITING"]
            /\ priority' = [priority EXCEPT ![p] = prio]
            /\ context' = [context EXCEPT ![p] = p]
            /\ UNCHANGED raced
         \/ raced' = TRUE /\ UNCHANGED <<procs, state, priority, context>>
      /\ UNCHANGED <<wakeup, current, ticks, running, idleKilled>>
  BY <1>1, <1>2 DEF Link, On, Goto, PInv, PTypes
<1>4. /\ at' \in [Pids -> {"run", "create", "sleep", "pick", "demote", "promote", "switch", "swap"}]
      /\ picked' \in [Pids -> Pids]
  BY <1>1, <1>3 DEF PInv, PTypes
<1>5. CASE raced'
  <2>1. \/ raced' = raced
        \/ raced' = TRUE /\ UNCHANGED <<procs, state, priority, context>>
    BY <1>3
  <2>2. raced' = TRUE /\ UNCHANGED <<procs, state, priority, context>>
    BY <1>3, <1>5, <2>1
  <2> QED
    BY <1>3, <1>4, <1>5, <2>2 DEF PInv, PTypes
<1>6. CASE ~raced'
  <2>1. /\ p = ListHead + 1 /\ p \notin procs
        /\ procs' = procs \cup {p}
        /\ state' = [state EXCEPT ![p] = "WAITING"]
        /\ priority' = [priority EXCEPT ![p] = prio]
        /\ context' = [context EXCEPT ![p] = p]
        /\ UNCHANGED <<raced, running, current>>
    BY <1>1, <1>3, <1>6 DEF Pids
  <2>2. procs' = 0 .. p
    BY <1>1, <1>3, <2>1 DEF Pids
  <2>3. PTypes'
    BY <1>3, <1>4, <2>1, <2>2 DEF PInv, PTypes, States
  <2>4. PCpu' /\ PPicked'
    BY <1>1, <1>3, <2>1 DEF PInv, PTypes, PCpu, PPicked
  <2>5. PSaved'
    BY <1>1, <1>3, <2>1 DEF PInv, PSaved, PTypes, Window
  <2>6. PStates'
    BY <1>1, <1>3, <2>1 DEF PInv, PStates, PTypes, PCpu
  <2> QED
    BY <2>3, <2>4, <2>5, <2>6 DEF PInv
<1> QED
  BY <1>5, <1>6

(* The calls that leave the list, the thread and the CPU alone *)
LEMMA CallsKeep ==
    ASSUME PInv, NEW t \in procs,
           \/ \E p \in procs : process_kill(t, p)
           \/ \E ms \in Delays : process_sleep(t, ms)
           \/ process_yield(t) \/ SetSleeping(t) \/ process_create(t)
    PROVE  PInv'
<1> USE DEF On, Goto
<1>1. procs \subseteq Pids /\ ListHead \in Pids /\ procs = 0 .. ListHead
  BY ListFacts DEF PInv
<1>2. ASSUME NEW p \in procs, process_kill(t, p) PROVE PInv'
  <2>1. PTypes'
    BY <1>1, <1>2 DEF PInv, PTypes, States, process_kill
  <2>2. PCpu' /\ PPicked' /\ PSaved'
    BY <1>2 DEF PInv, PCpu, PPicked, PSaved, process_kill
  <2>3. PStates'
    BY <1>1, <1>2 DEF PInv, PStates, PTypes, PCpu, process_kill
  <2> QED
    BY <2>1, <2>2, <2>3 DEF PInv
<1>3. ASSUME NEW ms \in Delays, process_sleep(t, ms) PROVE PInv'
  <2>1. PTypes'
    <3>1. ticks + ms \in Nat
      BY DEF PInv, PTypes
    <3>2. /\ wakeup' \in [Pids -> Nat]
          /\ at' \in [Pids -> {"run", "create", "sleep", "pick", "demote", "promote", "switch", "swap"}]
      BY <1>1, <1>3, <3>1 DEF PInv, PTypes, process_sleep
    <3> QED
      BY <1>3, <3>2 DEF PInv, PTypes, process_sleep
  <2>2. PCpu' /\ PPicked' /\ PSaved' /\ PStates'
    BY <1>1, <1>3 DEF PInv, PTypes, PCpu, PPicked, PSaved, PStates, Window, process_sleep
  <2> QED
    BY <2>1, <2>2 DEF PInv
<1>4. ASSUME process_yield(t) PROVE PInv'
  <2>1. PTypes'
    <3>1. at' \in [Pids -> {"run", "create", "sleep", "pick", "demote", "promote", "switch", "swap"}]
      BY <1>1, <1>4 DEF PInv, PTypes, process_yield
    <3> QED
      BY <1>4, <3>1 DEF PInv, PTypes, process_yield
  <2>2. PCpu' /\ PPicked' /\ PSaved' /\ PStates'
    BY <1>1, <1>4 DEF PInv, PTypes, PCpu, PPicked, PSaved, PStates, Window, process_yield
  <2> QED
    BY <2>1, <2>2 DEF PInv
<1>5. ASSUME SetSleeping(t) PROVE PInv'
  <2>1. PTypes'
    <3>1. /\ state' \in [Pids -> States]
          /\ at' \in [Pids -> {"run", "create", "sleep", "pick", "demote", "promote", "switch", "swap"}]
      BY <1>1, <1>5 DEF PInv, PTypes, States, SetSleeping
    <3> QED
      BY <1>5, <3>1 DEF PInv, PTypes, SetSleeping
  <2>2. PCpu' /\ PPicked' /\ PSaved'
    BY <1>1, <1>5 DEF PInv, PTypes, PCpu, PPicked, PSaved, Window, SetSleeping
  <2>3. PStates'
    BY <1>1, <1>5 DEF PInv, PTypes, PCpu, PStates, SetSleeping
  <2> QED
    BY <2>1, <2>2, <2>3 DEF PInv
<1>6. ASSUME process_create(t) PROVE PInv'
  <2>1. PTypes'
    <3>1. /\ at' \in [Pids -> {"run", "create", "sleep", "pick", "demote", "promote", "switch", "swap"}]
          /\ picked' \in [Pids -> Pids]
      BY <1>1, <1>6 DEF PInv, PTypes, process_create
    <3> QED
      BY <1>6, <3>1 DEF PInv, PTypes, process_create
  <2>2. PCpu' /\ PPicked' /\ PSaved' /\ PStates'
    BY <1>1, <1>6 DEF PInv, PTypes, PCpu, PPicked, PSaved, PStates, Window, process_create
  <2> QED
    BY <2>1, <2>2 DEF PInv
<1> QED
  BY <1>2, <1>3, <1>4, <1>5, <1>6

(* The choice is a process other than the one that makes it.               *)
LEMMA PickKeeps ==
    ASSUME PInv, NEW t \in procs, Pick(t)
    PROVE  PInv'
<1> USE DEF On, Goto
<1>1. procs \subseteq Pids /\ ListHead \in Pids /\ procs = 0 .. ListHead
  BY ListFacts DEF PInv
<1>2. PICK b \in procs : b = Best(state)
  BY <1>1, BestIsListed DEF PInv, PTypes, Listed
<1>3. ~raced /\ running = t /\ at[t] = "pick" /\ current = t
  BY DEF Pick, PInv, PCpu
<1>4. /\ UNCHANGED <<procs, state, priority, wakeup, context, current, ticks,
                     running, idleKilled, raced>>
      /\ \/ at' = [at EXCEPT ![t] = "run"] /\ UNCHANGED picked
         \/ /\ at' = [at EXCEPT ![t] = "demote"]
            /\ picked' = [picked EXCEPT ![t] = b]
            /\ b # t
  BY <1>2, <1>3 DEF Pick
<1>5. PTypes'
  <2>1. /\ at' \in [Pids -> {"run", "create", "sleep", "pick", "demote", "promote", "switch", "swap"}]
        /\ picked' \in [Pids -> Pids]
    BY <1>1, <1>4 DEF PInv, PTypes
  <2> QED
    BY <1>4, <2>1 DEF PInv, PTypes
<1>6. PCpu' /\ PPicked'
  BY <1>1, <1>3, <1>4 DEF PInv, PTypes, PCpu, PPicked
<1>7. PSaved' /\ PStates'
  BY <1>1, <1>3, <1>4 DEF PInv, PTypes, PSaved, PStates, Window
<1> QED
  BY <1>5, <1>6, <1>7 DEF PInv

(* The writes of a switch, one by one.                                     *)
LEMMA SwitchKeeps ==
    ASSUME PInv, NEW t \in procs,
           Demote(t) \/ Promote(t) \/ HandOver(t) \/ Swap(t)
    PROVE  PInv'
<1> USE DEF On, Goto
<1>1. procs \subseteq Pids /\ ListHead \in Pids /\ procs = 0 .. ListHead
  BY ListFacts DEF PInv
<1>2. ASSUME Demote(t) PROVE PInv'
  <2>1. PTypes'
    BY <1>1, <1>2 DEF PInv, PTypes, States, Demote, Demoted
  <2>2. PCpu' /\ PPicked' /\ PSaved'
    BY <1>1, <1>2 DEF PInv, PTypes, PCpu, PPicked, PSaved, Demote
  <2>3. PStates'
    BY <1>1, <1>2 DEF PInv, PTypes, PCpu, PStates, Demote, Demoted
  <2> QED
    BY <2>1, <2>2, <2>3 DEF PInv
<1>3. ASSUME Promote(t) PROVE PInv'
  <2>1. PTypes'
    BY <1>1, <1>3 DEF PInv, PTypes, States, Promote
  <2>2. PCpu' /\ PPicked' /\ PSaved'
    BY <1>1, <1>3 DEF PInv, PTypes, PCpu, PPicked, PSaved, Promote
  <2>3. PStates'
    BY <1>1, <1>3 DEF PInv, PTypes, PCpu, PPicked, PStates, Promote
  <2> QED
    BY <2>1, <2>2, <2>3 DEF PInv
<1>4. ASSUME HandOver(t) PROVE PInv'
  <2>1. PTypes'
    BY <1>1, <1>4 DEF PInv, PTypes, PPicked, HandOver, Old
  <2>2. PCpu' /\ PPicked' /\ PSaved'
    BY <1>1, <1>4 DEF PInv, PTypes, PCpu, PPicked, PSaved, HandOver, Old
  <2>3. PStates'
    BY <1>1, <1>4 DEF PInv, PTypes, PCpu, PPicked, PStates, HandOver, Old
  <2> QED
    BY <2>1, <2>2, <2>3 DEF PInv
<1>5. ASSUME Swap(t) PROVE PInv'
  <2>1. /\ ~raced /\ running = t /\ at[t] = "swap" /\ picked[t] = t
        /\ current # t /\ context[current] = current /\ current \in procs
    <3>1. ~raced /\ running = t /\ at[t] = "swap"
      BY <1>5 DEF Swap
    <3>2. picked[t] = t /\ current # t /\ current \in procs
      BY <3>1 DEF PInv, PTypes, PCpu
    <3> QED
      BY <1>1, <3>1, <3>2 DEF PInv, PSaved
  <2>2. /\ context' = [context EXCEPT ![t] = t]
        /\ running' = current
        /\ picked' = [picked EXCEPT ![t] = Idle]
        /\ at' = [at EXCEPT ![t] = "run"]
        /\ UNCHANGED <<procs, state, priority, wakeup, current, ticks,
                       idleKilled, raced>>
    BY <1>5, <2>1 DEF Swap
  <2>3. at[current] \notin Window
    BY <1>1, <2>1 DEF PInv, PSaved
  <2>4. PTypes'
    <3>1. t \in Pids /\ Idle \in Pids
      BY <1>1, ListFacts DEF PInv
    <3>2. /\ context' \in [Pids -> Pids \cup {NoThread}]
          /\ picked' \in [Pids -> Pids]
          /\ at' \in [Pids -> {"run", "create", "sleep", "pick", "demote", "promote", "switch", "swap"}]
      BY <2>2, <3>1 DEF PInv, PTypes
    <3> QED
      BY <2>2, <3>2 DEF PInv, PTypes
  <2>5. PCpu' /\ PPicked' /\ PSaved'
    BY <1>1, <2>1, <2>2, <2>3 DEF PInv, PTypes, PCpu, PPicked, PSaved, Window
  <2>6. PStates'
    BY <1>1, <2>1, <2>2, <2>3 DEF PInv, PTypes, PStates, Window
  <2> QED
    BY <2>4, <2>5, <2>6 DEF PInv
<1> QED
  BY <1>2, <1>3, <1>4, <1>5

(* waking the due sleepers changes SLEEPING into WAITING and nothing else *)
LEMMA AwakeIs ==
    ASSUME PTypes
    PROVE  /\ Awake \in [Pids -> States]
           /\ \A p \in Pids : Awake[p] = state[p]
                              \/ (Awake[p] = "WAITING" /\ state[p] = "SLEEPING")
BY DEF PTypes, Awake, States

(* A tick outside the window switches as a whole; inside it the switch     *)
(* counts as torn.                                                         *)
LEMMA TickKeeps ==
    ASSUME PInv, scheduler_tick
    PROVE  PInv'
<1>1. procs \subseteq Pids /\ ListHead \in Pids /\ procs = 0 .. ListHead
  BY ListFacts DEF PInv
<1>2. PICK w : w = Awake
  OBVIOUS
<1>3. /\ w \in [Pids -> States]
      /\ \A p \in Pids : w[p] = state[p] \/ (w[p] = "WAITING" /\ state[p] = "SLEEPING")
  BY <1>2, AwakeIs DEF PInv
<1>4. PICK b \in procs : b = Best(w)
  BY <1>1, BestIsListed DEF PInv, PTypes, Listed
<1>5. /\ UNCHANGED <<procs, priority, wakeup, ticks, at, picked, idleKilled>>
      /\ ~raced /\ (raced' <=> at[running] \in Window)
      /\ \/ b = current /\ state' = w /\ UNCHANGED <<context, current, running>>
         \/ /\ b # current
            /\ state' = [w EXCEPT ![current] = "WAITING", ![b] = "RUNNING"]
            /\ context' = [context EXCEPT ![current] = running]
            /\ running' = context[b]
            /\ current' = b
  <2> DEFINE Goes(v, c) ==
        IF c = current
          THEN state' = v /\ UNCHANGED <<context, current, running>>
          ELSE /\ state' = [v EXCEPT ![current] = Demoted(v[current]), ![c] = "RUNNING"]
               /\ context' = [context EXCEPT ![current] = running]
               /\ running' = context[c]
               /\ current' = c
  <2>1. Goes(w, b)
    BY <1>2, <1>4 DEF scheduler_tick
  <2>2. /\ UNCHANGED <<procs, priority, wakeup, ticks, at, picked, idleKilled>>
        /\ ~raced /\ (raced' <=> at[running] \in Window)
    BY DEF scheduler_tick
  <2> QED
    BY <2>1, <2>2 DEF Demoted
<1>6. PTypes'
  <2>1. running \in Pids
    BY <1>1, <1>5 DEF PInv, PCpu
  <2>2. /\ state' \in [Pids -> States] /\ current' \in procs'
        /\ context' \in [Pids -> Pids \cup {NoThread}]
    <3>1. state' \in [Pids -> States]
      BY <1>1, <1>3, <1>5 DEF States
    <3>2. current' \in procs'
      BY <1>4, <1>5 DEF PInv, PTypes
    <3>3. context' \in [Pids -> Pids \cup {NoThread}]
      BY <1>1, <1>5, <2>1 DEF PInv, PTypes
    <3> QED
      BY <3>1, <3>2, <3>3
  <2>3. raced' \in BOOLEAN
    BY <1>5 DEF scheduler_tick
  <2> QED
    BY <1>5, <2>2, <2>3 DEF PInv, PTypes
<1>7. ASSUME ~raced' PROVE PCpu' /\ PSaved' /\ PPicked' /\ PStates'
  <2>1. at[running] \notin Window /\ current = running
    BY <1>5, <1>7 DEF PInv, PCpu, Window
  <2>2. CASE b = current
    <3>1. PCpu' /\ PSaved' /\ PPicked'
      BY <1>5, <2>2 DEF PInv, PCpu, PSaved, PPicked
    <3>2. PStates'
      BY <1>1, <1>3, <1>5, <2>1, <2>2 DEF PInv, PTypes, PStates, Window
    <3> QED
      BY <3>1, <3>2
  <2>3. CASE b # current
    <3>1. context[b] = b /\ at[b] \notin Window
      BY <1>1, <2>1, <2>3 DEF PInv, PSaved, PTypes, scheduler_tick
    <3>2. PCpu'
      BY <1>1, <1>5, <2>1, <2>3, <3>1 DEF PCpu, Window
    <3>3. PSaved' /\ PPicked'
      BY <1>1, <1>5, <2>1, <2>3, <3>1 DEF PInv, PTypes, PSaved, PPicked
    <3>4. PStates'
      BY <1>1, <1>3, <1>5, <2>1, <2>3, <3>1 DEF PInv, PTypes, PStates, Window
    <3> QED
      BY <3>2, <3>3, <3>4
  <2> QED
    BY <2>2, <2>3
<1> QED
  BY <1>6, <1>7 DEF PInv

(* Every call, statement and tick keeps the invariant.                     *)
LEMMA PInvStep == PInv /\ [ProcNext]_procVars => PInv'
<1> SUFFICES ASSUME PInv, [ProcNext]_procVars PROVE PInv'
  OBVIOUS
<1>1. CASE UNCHANGED procVars
  BY <1>1 DEF procVars, PInv, PTypes, PCpu, PSaved, PPicked, PStates
<1>2. CASE Clock
  BY <1>2 DEF Clock, PInv, PTypes, PCpu, PSaved, PPicked, PStates
<1>3. CASE scheduler_tick
  BY <1>3, TickKeeps
<1>4. CASE Torn
  BY <1>4, <1>1 DEF Torn
<1>5. ASSUME NEW t \in procs, SwitchStep(t) PROVE PInv'
  BY <1>5, CallsKeep, PickKeeps, SwitchKeeps DEF SwitchStep
<1> QED
  BY <1>1, <1>2, <1>3, <1>4, <1>5, LinkKeeps, CallsKeep DEF ProcNext

(* The inductive invariant of the scheduler holds in every behaviour       *)
(* (process.c).                                                            *)
THEOREM ProcInvariance == ProcSpec => []PInv
<1>1. ProcInit => PInv
  BY PInvInit
<1>2. PInv /\ [ProcNext]_procVars => PInv'
  BY PInvStep
<1> QED
  BY <1>1, <1>2, PTL DEF ProcSpec

(* Only threads of listed processes are saved anywhere, or run. *)
PRuns == /\ running \in procs \cup {NoThread}
         /\ \A p \in Pids : context[p] \in procs \cup {NoThread}

(* The thread that has the CPU is one of a listed process.                 *)
LEMMA RunsStep == PInv /\ PRuns /\ [ProcNext]_procVars => PRuns'
<1> SUFFICES ASSUME PInv, PRuns, [ProcNext]_procVars PROVE PRuns'
  OBVIOUS
<1>1. procs \subseteq Pids /\ ListHead \in Pids /\ procs = 0 .. ListHead
  BY ListFacts DEF PInv
<1>2. NoThread' = NoThread
  BY DEF NoThread
<1>3. CASE UNCHANGED <<procs, running, context>>
  BY <1>2, <1>3 DEF PRuns
<1>4. ASSUME NEW t \in procs, NEW prio \in Priorities, Link(t, prio)
      PROVE  PRuns'
  <2>1. PICK p \in Pids : p = picked[t]
    BY <1>1 DEF PInv, PTypes
  <2>2. UNCHANGED running
    BY <1>4 DEF Link
  <2>3. CASE UNCHANGED <<procs, context>>
    BY <1>3, <2>2, <2>3
  <2>4. CASE procs' = procs \cup {p} /\ context' = [context EXCEPT ![p] = p]
    <3>1. ASSUME NEW q \in Pids PROVE context'[q] \in procs' \cup {NoThread'}
      BY <1>2, <2>4 DEF PRuns, PInv, PTypes
    <3>2. running' \in procs' \cup {NoThread'}
      BY <1>2, <2>2, <2>4 DEF PRuns
    <3> QED
      BY <3>1, <3>2 DEF PRuns, Pids
  <2> QED
    BY <1>4, <2>1, <2>3, <2>4 DEF Link
<1>5. ASSUME NEW t \in procs, Swap(t) PROVE PRuns'
  BY <1>1, <1>2, <1>5 DEF PRuns, PInv, PTypes, Swap, On
<1>6. CASE scheduler_tick
  <2>1. PICK b \in procs : b = Best(Awake)
    BY <1>1, BestIsListed DEF PInv, PTypes, Listed
  <2>2. /\ procs' = procs
        /\ \/ UNCHANGED <<context, running>>
           \/ /\ context' = [context EXCEPT ![current] = running]
              /\ running' = context[b]
    BY <1>6, <2>1 DEF scheduler_tick
  <2> QED
    BY <1>1, <1>2, <2>2 DEF PRuns, PInv, PTypes
<1> QED
  BY <1>3, <1>4, <1>5, <1>6
     DEF ProcNext, SwitchStep, procVars, process_create, process_kill, process_sleep,
         process_yield, SetSleeping, Pick, Demote, Promote, HandOver, Clock, Torn

(* The scheduler's state keeps its shape: in particular the list runs from *)
(* the newest pid to the idle process, and the current process and the     *)
(* thread on the CPU are of that list, even when a switch was torn.        *)
THEOREM ProcTypeCorrect == ProcSpec => []ProcTypeOK
<1>1. ProcInit => PInv /\ PRuns
  BY PInvInit DEF ProcInit, PRuns
<1>2. PInv /\ PRuns /\ [ProcNext]_procVars => PInv' /\ PRuns'
  BY PInvStep, RunsStep
<1>3. PInv /\ PRuns => ProcTypeOK
  BY ListFacts DEF PInv, PTypes, PRuns, ProcTypeOK
<1> QED
  BY <1>1, <1>2, <1>3, PTL DEF ProcSpec

(* No thread is lost and none runs twice, unless a tick tears a switch or  *)
(* a creation (process.c).                                                 *)
THEOREM ProcThreadsKept == ProcSpec => []ThreadsKept
<1>1. PInv => ThreadsKept
  <2> SUFFICES ASSUME PInv, ~raced PROVE ThreadsKept
    BY DEF ThreadsKept
  <2>1. procs \subseteq Pids
    BY ListFacts DEF PInv
  <2> QED
    BY <2>1 DEF PInv, PCpu, PSaved, ThreadsKept
<1> QED
  BY <1>1, ProcInvariance, PTL

(* No process but the current one is RUNNING, unless a tick tears a switch *)
(* or a creation: there is one at most.                                    *)
THEOREM ProcOneRuns == ProcSpec => []OneRuns
<1>1. PInv => OneRuns
  BY DEF PInv, PStates, OneRuns
<1> QED
  BY <1>1, ProcInvariance, PTL

(* A process that does not have the CPU never sleeps, whatever it asked    *)
(* process_sleep for.                                                      *)
THEOREM ProcNobodySleeps == ProcSpec => []NobodySleeps
<1>1. PInv => NobodySleeps
  BY DEF PInv, PStates, NobodySleeps
<1> QED
  BY <1>1, ProcInvariance, PTL

----------------------------------------------------------------------------
(* The idle process comes between any two others *)

(* The idle process is ready whenever another has the CPU, and every       *)
(* switch that another has begun is to the idle process.                   *)
PIdle ==
    ~raced /\ OnlyIdleHasZero =>
        /\ current # Idle => \/ state[Idle] = "WAITING"
                             \/ at[running] = "switch" /\ picked[running] = Idle
        /\ \A t \in Pids \ {Idle} :
              at[t] \in {"demote", "promote", "switch"} => picked[t] = Idle

PIdleInv == priority[Idle] = 0 /\ PIdle

(* At first the idle process itself is current.                            *)
LEMMA IdleInit == ProcInit => PIdleInv
BY DEF ProcInit, PIdleInv, PIdle, IdlePriority, Idle, Pids

(* A new process changes nothing for the idle one.                         *)
LEMMA IdleLink ==
    ASSUME PInv, PIdleInv, NEW t \in procs, NEW prio \in Priorities, Link(t, prio)
    PROVE  PIdleInv'
<1>1. /\ procs \subseteq Pids /\ Idle \in procs
      /\ ListHead \in Pids /\ procs = 0 .. ListHead
  BY ListFacts DEF PInv
<1>2. PICK p \in Pids : p = picked[t]
  BY <1>1 DEF PInv, PTypes
<1>3. /\ ~raced /\ running = t /\ at[t] = "create" /\ t \in Pids
      /\ at' = [at EXCEPT ![t] = "run"]
      /\ picked' = [picked EXCEPT ![t] = Idle]
      /\ UNCHANGED <<current, running, idleKilled>>
      /\ \/ /\ p = ListHead + 1
            /\ procs' = procs \cup {p}
            /\ state' = [state EXCEPT ![p] = "WAITING"]
            /\ priority' = [priority EXCEPT ![p] = prio]
            /\ UNCHANGED raced
         \/ raced' = TRUE /\ UNCHANGED <<procs, state, priority>>
  BY <1>1, <1>2 DEF Link, On, Goto
<1>4. ListHead + 1 \notin procs
  BY <1>1 DEF Pids
<1>5. /\ procs \subseteq procs'
      /\ \A q \in procs : priority'[q] = priority[q] /\ state'[q] = state[q]
  <2>1. CASE /\ p = ListHead + 1
            /\ procs' = procs \cup {p}
            /\ state' = [state EXCEPT ![p] = "WAITING"]
            /\ priority' = [priority EXCEPT ![p] = prio]
    BY <1>1, <1>4, <2>1 DEF PInv, PTypes
  <2>2. CASE UNCHANGED <<procs, state, priority>>
    BY <2>2
  <2> QED
    BY <1>3, <2>1, <2>2
<1>6. OnlyIdleHasZero' => OnlyIdleHasZero
  BY <1>3, <1>5 DEF OnlyIdleHasZero, Idle
<1>7. /\ at'[running'] # "switch" /\ at[running] # "switch"
      /\ \A q \in Pids : at'[q] \in {"demote", "promote", "switch"}
                         => at'[q] = at[q] /\ picked'[q] = picked[q]
  BY <1>1, <1>3 DEF PInv, PTypes
<1> QED
  BY <1>1, <1>3, <1>5, <1>6, <1>7 DEF PIdleInv, PIdle, Idle

(* Nor do kill, sleep, yield and the first half of create, unless the idle *)
(* process is killed.                                                      *)
LEMMA IdleCalls ==
    ASSUME PInv, PIdleInv, NEW t \in procs,
           \/ \E p \in procs : process_kill(t, p)
           \/ \E ms \in Delays : process_sleep(t, ms)
           \/ process_yield(t) \/ SetSleeping(t) \/ process_create(t)
    PROVE  PIdleInv'
<1> USE DEF On, Goto
<1>1. procs \subseteq Pids /\ Idle \in procs
  BY ListFacts DEF PInv
<1>2. /\ UNCHANGED <<procs, priority, current, running, raced>>
      /\ ~raced /\ running = t
      /\ at[t] \in {"run", "sleep"}
      /\ \A q \in Pids \ {t} : picked'[q] = picked[q]
  BY <1>1 DEF PInv, PTypes, process_kill, process_sleep, process_yield, SetSleeping, process_create
<1>3. at' = at \/ at' = [at EXCEPT ![t] = "sleep"] \/ at' = [at EXCEPT ![t] = "pick"]
         \/ at' = [at EXCEPT ![t] = "create"]
  BY DEF process_kill, process_sleep, process_yield, SetSleeping, process_create
<1>4. ~idleKilled' /\ current # Idle => ~idleKilled /\ state'[Idle] = state[Idle]
  BY <1>1 DEF PInv, PTypes, process_kill, process_sleep, process_yield, SetSleeping, process_create
<1>5. OnlyIdleHasZero' /\ current # Idle => state'[Idle] = state[Idle]
  BY <1>4 DEF OnlyIdleHasZero
<1>6. OnlyIdleHasZero' => OnlyIdleHasZero
  BY <1>2 DEF OnlyIdleHasZero, process_kill, process_sleep, process_yield, SetSleeping,
                 process_create
<1>7. \A q \in Pids : at'[q] \in {"demote", "promote", "switch"} => at'[q] = at[q] /\ q # t
  BY <1>1, <1>2, <1>3 DEF PInv, PTypes
<1>8. at'[running] # "switch" /\ at[running] # "switch"
  BY <1>1, <1>2, <1>3 DEF PInv, PTypes
<1> QED
  BY <1>2, <1>5, <1>6, <1>7, <1>8 DEF PIdleInv, PIdle, Idle

(* Whoever is current, the choice of another process is the idle one.      *)
LEMMA IdlePick ==
    ASSUME PInv, PIdleInv, NEW t \in procs, Pick(t)
    PROVE  PIdleInv'
<1> USE DEF On, Goto
<1>1. procs \subseteq Pids /\ Idle \in procs
  BY ListFacts DEF PInv
<1>2. /\ ~raced /\ running = t /\ at[t] = "pick" /\ current = t
      /\ UNCHANGED <<procs, state, priority, current, running, idleKilled, raced>>
  BY DEF Pick, PInv, PCpu
<1>3. ASSUME OnlyIdleHasZero, t # Idle PROVE Best(state) = Idle
  <2>1. state[Idle] = "WAITING"
    BY <1>2, <1>3 DEF PIdleInv, PIdle
  <2> QED
    BY <1>1, <1>3, <2>1, BestIsIdle DEF PInv, PTypes, PIdleInv
<1>4. PICK b : b = Best(state)
  OBVIOUS
<1>5. \/ at' = [at EXCEPT ![t] = "run"] /\ UNCHANGED picked
      \/ at' = [at EXCEPT ![t] = "demote"] /\ picked' = [picked EXCEPT ![t] = b]
  BY <1>4 DEF Pick
<1>6. OnlyIdleHasZero' <=> OnlyIdleHasZero
  BY <1>2 DEF OnlyIdleHasZero, Idle
<1>7. OnlyIdleHasZero /\ t # Idle => b = Idle
  BY <1>3, <1>4
<1>8. at'[running'] # "switch"
  BY <1>1, <1>2, <1>5 DEF PInv, PTypes
<1>9. OnlyIdleHasZero => \A q \in Pids \ {Idle} :
         at'[q] \in {"demote", "promote", "switch"} => picked'[q] = Idle
  BY <1>1, <1>2, <1>5, <1>7 DEF PInv, PTypes, PIdleInv, PIdle
<1> QED
  BY <1>2, <1>6, <1>8, <1>9 DEF PIdleInv, PIdle, Idle

(* A switch leaves the idle process ready or current.                      *)
LEMMA IdleSwitch ==
    ASSUME PInv, PIdleInv, NEW t \in procs,
           Demote(t) \/ Promote(t) \/ HandOver(t) \/ Swap(t)
    PROVE  PIdleInv'
<1> USE DEF On, Goto
<1>1. procs \subseteq Pids /\ Idle \in procs
  BY ListFacts DEF PInv
<1>2. /\ UNCHANGED <<procs, priority, idleKilled, raced>>
      /\ ~raced /\ running = t
  BY DEF Demote, Promote, HandOver, Swap
<1>3. OnlyIdleHasZero' <=> OnlyIdleHasZero
  BY <1>2 DEF OnlyIdleHasZero, Idle
<1>4. SUFFICES ASSUME OnlyIdleHasZero PROVE PIdle'
  BY <1>2, <1>3 DEF PIdleInv, PIdle, Idle
<1>5. CASE Demote(t)
  BY <1>1, <1>2, <1>4, <1>5 DEF PInv, PTypes, PCpu, PIdleInv, PIdle, Demote, Idle
<1>6. CASE Promote(t)
  BY <1>1, <1>2, <1>4, <1>6 DEF PInv, PTypes, PCpu, PIdleInv, PIdle, Promote, Idle
<1>7. CASE HandOver(t)
  <2>1. /\ at[t] = "switch" /\ current = t /\ state[t] = "WAITING"
        /\ t # Idle => picked[t] = Idle
    BY <1>1, <1>2, <1>4, <1>7 DEF PInv, PCpu, PStates, PIdleInv, PIdle, HandOver
  <2> QED
    BY <1>1, <1>2, <1>4, <1>7, <2>1 DEF PInv, PTypes, PIdleInv, PIdle, HandOver, Idle
<1>8. CASE Swap(t)
  <2>1. context[current] = current /\ at[current] \notin Window /\ at[t] = "swap"
        /\ current # t
    BY <1>1, <1>2, <1>8 DEF PInv, PTypes, PCpu, PSaved, Swap
  <2>2. current # Idle => state[Idle] = "WAITING"
    BY <1>2, <1>4, <2>1 DEF PIdleInv, PIdle
  <2>3. running' = current /\ at'[current] = at[current]
        /\ UNCHANGED <<state, current>>
    BY <1>1, <1>8, <2>1 DEF PInv, PTypes, Swap
  <2>4. \A q \in Pids : at'[q] \in {"demote", "promote", "switch"}
                        => at'[q] = at[q] /\ picked'[q] = picked[q]
    BY <1>1, <1>8 DEF PInv, PTypes, Swap
  <2> QED
    BY <1>2, <1>4, <2>2, <2>3, <2>4 DEF PIdleInv, PIdle, Idle
<1> QED
  BY <1>5, <1>6, <1>7, <1>8

(* what a tick decides *)
LEMMA TickPicksIdle ==
    ASSUME PInv, PIdleInv, scheduler_tick, ~raced', OnlyIdleHasZero, current # Idle
    PROVE  current' = Idle
<1>1. procs \subseteq Pids /\ Idle \in procs
  BY ListFacts DEF PInv
<1>2. ~raced /\ at[running] # "switch"
  BY DEF scheduler_tick, Window
<1>3. state[Idle] = "WAITING"
  BY <1>2 DEF PIdleInv, PIdle
<1>4. Awake[Idle] = "WAITING"
  BY <1>1, <1>3, AwakeIs DEF PInv
<1>5. Best(Awake) = Idle
  BY <1>1, <1>4, BestIsIdle DEF PInv, PTypes, PIdleInv
<1> QED
  BY <1>5 DEF scheduler_tick

(* A tick that leaves the idle process makes it WAITING.                   *)
LEMMA IdleTick ==
    ASSUME PInv, PIdleInv, scheduler_tick
    PROVE  PIdleInv'
<1>1. procs \subseteq Pids /\ Idle \in procs
  BY ListFacts DEF PInv
<1>2. UNCHANGED <<procs, priority, idleKilled, at, picked>> /\ ~raced
  BY DEF scheduler_tick
<1>3. OnlyIdleHasZero' <=> OnlyIdleHasZero
  BY <1>2 DEF OnlyIdleHasZero, Idle
<1>4. SUFFICES ASSUME OnlyIdleHasZero, ~raced', current' # Idle
               PROVE  state'[Idle] = "WAITING"
  BY <1>2, <1>3 DEF PIdleInv, PIdle, Idle
<1>5. current = Idle
  BY <1>4, TickPicksIdle
<1>6. PICK b : b = Best(Awake)
  OBVIOUS
<1>7. PICK w : w = Awake
  OBVIOUS
<1>8. w \in [Pids -> States]
  BY <1>7, AwakeIs DEF PInv
<1>9. b # current /\ state' = [w EXCEPT ![current] = "WAITING", ![b] = "RUNNING"]
  BY <1>4, <1>5, <1>6, <1>7 DEF scheduler_tick, Demoted
<1> QED
  BY <1>1, <1>5, <1>8, <1>9

(* Every step keeps the idle process ready or on its way to the CPU.       *)
LEMMA IdleStep == PInv /\ PIdleInv /\ [ProcNext]_procVars => PIdleInv'
<1> SUFFICES ASSUME PInv, PIdleInv, [ProcNext]_procVars PROVE PIdleInv'
  OBVIOUS
<1>1. CASE UNCHANGED procVars
  BY <1>1 DEF procVars, PIdleInv, PIdle, OnlyIdleHasZero, Idle
<1>2. CASE Clock
  BY <1>2 DEF Clock, PIdleInv, PIdle, OnlyIdleHasZero, Idle
<1>3. CASE scheduler_tick
  BY <1>3, IdleTick
<1>4. CASE Torn
  BY <1>4, <1>1 DEF Torn
<1>5. ASSUME NEW t \in procs, SwitchStep(t) PROVE PIdleInv'
  BY <1>5, IdleCalls, IdlePick, IdleSwitch DEF SwitchStep
<1> QED
  BY <1>1, <1>2, <1>3, <1>4, <1>5, IdleLink, IdleCalls DEF ProcNext

(* While the idle process is alive and alone at priority 0, no process     *)
(* hands the CPU to another one directly: scheduler_switch puts the idle   *)
(* process between them.                                                   *)
THEOREM ProcIdleInBetween == ProcSpec => IdleInBetween
<1>1. ProcInit => PInv /\ PIdleInv
  BY PInvInit, IdleInit
<1>2. PInv /\ PIdleInv /\ [ProcNext]_procVars => PInv' /\ PIdleInv'
  BY PInvStep, IdleStep
<1>3. ASSUME PInv, PIdleInv, [ProcNext]_procVars,
             ~raced', OnlyIdleHasZero, current' # current
      PROVE  current = Idle \/ current' = Idle
  <2>1. CASE scheduler_tick
    BY <1>3, <2>1, TickPicksIdle
  <2>2. ASSUME NEW t \in procs, HandOver(t) PROVE current = Idle \/ current' = Idle
    <3>1. running = t /\ at[t] = "switch" /\ current = t /\ current' = picked[t] /\ ~raced
      BY <2>2, <1>3 DEF HandOver, On, PInv, PCpu
    <3>2. t \in Pids
      BY ListFacts, <1>3 DEF PInv
    <3> QED
      BY <1>3, <3>1, <3>2 DEF PIdleInv, PIdle
  <2>3. CASE UNCHANGED current
    BY <1>3, <2>3
  <2> QED
    BY <1>3, <2>1, <2>2, <2>3
       DEF ProcNext, SwitchStep, procVars, process_create, Link, process_kill, process_sleep,
           process_yield, SetSleeping, Pick, Demote, Promote, Swap, Clock, Torn
<1>4. PInv /\ PIdleInv /\ [ProcNext]_procVars
      => [ ~raced' /\ OnlyIdleHasZero /\ current' # current
           => current = Idle \/ current' = Idle ]_procVars
  BY <1>3
<1> QED
  BY <1>1, <1>2, <1>4, PTL DEF ProcSpec, IdleInBetween

(* Under the same conditions one tick is enough to bring the idle process  *)
(* back, at whatever statement of process_sleep, process_yield or of the   *)
(* first half of scheduler_switch it finds the current one; what is left   *)
(* to fairness in IdleReturns is that the tick comes.                      *)
THEOREM ProcTickToIdle ==
    ProcSpec => [][ scheduler_tick /\ ~raced' /\ OnlyIdleHasZero
                    => current' = Idle \/ current = Idle ]_procVars
<1>1. ProcInit => PInv /\ PIdleInv
  BY PInvInit, IdleInit
<1>2. PInv /\ PIdleInv /\ [ProcNext]_procVars => PInv' /\ PIdleInv'
  BY PInvStep, IdleStep
<1>3. PInv /\ PIdleInv /\ [ProcNext]_procVars
      => [ scheduler_tick /\ ~raced' /\ OnlyIdleHasZero
           => current' = Idle \/ current = Idle ]_procVars
  BY TickPicksIdle
<1> QED
  BY <1>1, <1>2, <1>3, PTL DEF ProcSpec
=============================================================================
