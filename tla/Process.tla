------------------------------- MODULE Process -------------------------------
(***************************************************************************)
(* The process scheduler (process_manager/process.c): creation, kill,      *)
(* sleep, yield, and the tick that preempts.                               *)
(*                                                                         *)
(* Nothing in the file turns interrupts off, and new processes start with  *)
(* them on (eflags 0x202): scheduler_tick, itself one step because its     *)
(* handler runs with interrupts off, may come between any two statements   *)
(* of a call another process is making.  scheduler_switch is therefore     *)
(* five steps, process_create two (the pid taken, the process linked in),  *)
(* and a thread of control is told apart from the process the globals say  *)
(* is current: switch_context saves the running thread into the context of *)
(* whatever process it is given.                                           *)
(*                                                                         *)
(* Processes are their pids.  They are inserted at the head of the list    *)
(* and never removed, so the list runs from the newest pid down to the     *)
(* idle process, pid 0.                                                    *)
(***************************************************************************)
EXTENDS Integers

CONSTANTS MaxProcs,    \* bound: how many processes the heap has room for
          Priorities,  \* priorities passed to process_create
          Delays,      \* arguments of process_sleep
          MaxTicks     \* bound on the clock

ASSUME ProcAssumption == /\ MaxProcs \in Nat /\ MaxProcs > 0
                         /\ Priorities \subseteq 0 .. 255
                         /\ Delays \subseteq Nat
                         /\ MaxTicks \in Nat

VARIABLES procs,     \* process_list: the pids created so far
          state,     \* pid -> process_state_t
          priority,  \* pid -> 0 .. 255
          wakeup,    \* pid -> wakeup_tick
          context,   \* pid -> the thread saved in its cpu_state_t
          current,   \* current_process
          ticks,     \* timer_get_ticks()
          running,   \* the thread that has the CPU
          at,        \* thread -> the statement it is about to execute
          picked,    \* thread -> the local `best` of its scheduler_switch, or
                     \* the pid its process_create took
          idleKilled, \* history: process_kill was called with pid 0
          raced      \* history: a tick fell between the writes of a switch, or
                     \* one creation overtook another

procVars == <<procs, state, priority, wakeup, context, current, ticks,
              running, at, picked, idleKilled, raced>>

Pids == 0 .. (MaxProcs - 1)
Idle == 0
NoThread == MaxProcs   \* a context nothing was saved into: zeroes
States == {"WAITING", "RUNNING", "SLEEPING", "ZOMBIE", "UNUSED"}

(* the first element of process_list *)
ListHead == CHOOSE p \in procs : \A q \in procs : q <= p

----------------------------------------------------------------------------
(* scheduler_switch, lines 97-111: the first process of the list with the  *)
(* least priority value among those WAITING with one below 0xFF, or the    *)
(* head of the list                                                        *)
Ready(st) == {p \in procs : st[p] = "WAITING" /\ priority[p] < 255}

Best(st) ==
    IF Ready(st) = {} THEN ListHead
    ELSE CHOOSE p \in Ready(st) :
            \A q \in Ready(st) \ {p} :
                \/ priority[p] < priority[q]
                \/ priority[p] = priority[q] /\ p > q

(* scheduler_tick, lines 84-91 *)
Due(p) == ticks >= wakeup[p]
Awake == [p \in Pids |-> IF p \in procs /\ state[p] = "SLEEPING" /\ Due(p)
                         THEN "WAITING" ELSE state[p]]

(* process_init: the idle process has the CPU, and the best priority there *)
(* is; the mutant gives it the worst                                       *)
IdlePriority_Last == 255
IdlePriority == 0

ProcInit ==
    /\ procs = {Idle}
    /\ state = [p \in Pids |-> IF p = Idle THEN "RUNNING" ELSE "UNUSED"]
    /\ priority = [p \in Pids |-> IdlePriority]
    /\ wakeup = [p \in Pids |-> 0]
    /\ context = [p \in Pids |-> NoThread]
    /\ current = Idle /\ running = Idle
    /\ ticks = 0
    /\ at = [p \in Pids |-> "run"]
    /\ picked = [p \in Pids |-> Idle]
    /\ idleKilled = FALSE /\ raced = FALSE

(* thread t executes a statement; what happens after a torn switch or      *)
(* creation is not followed                                                *)
On(t, where) == ~raced /\ running = t /\ at[t] = where
Goto(t, where) == at' = [at EXCEPT ![t] = where]

(* process_create takes its pid from next_pid ...                          *)
process_create(t) ==
    /\ On(t, "run")
    /\ ListHead + 1 \in Pids
    /\ picked' = [picked EXCEPT ![t] = ListHead + 1]
    /\ Goto(t, "create")
    /\ UNCHANGED <<procs, state, priority, wakeup, context, current, ticks,
                   running, idleKilled, raced>>

(* ... and links the process in, whose context starts its own thread.  A   *)
(* thread that created one in between took the same pid, or is left out of *)
(* the list by the head this one read, or at best lies below an older pid: *)
(* the creation counts as torn                                             *)
Link(t, prio) ==
    LET p == picked[t] IN
    /\ On(t, "create")
    /\ Goto(t, "run")
    /\ picked' = [picked EXCEPT ![t] = Idle]
    /\ IF p = ListHead + 1
         THEN /\ procs' = procs \cup {p}
              /\ state' = [state EXCEPT ![p] = "WAITING"]
              /\ priority' = [priority EXCEPT ![p] = prio]
              /\ context' = [context EXCEPT ![p] = p]
              /\ UNCHANGED raced
         ELSE raced' = TRUE /\ UNCHANGED <<procs, state, priority, context>>
    /\ UNCHANGED <<wakeup, current, ticks, running, idleKilled>>

(* process_kill marks the process and does nothing else *)
process_kill(t, p) ==
    /\ On(t, "run")
    /\ state' = [state EXCEPT ![p] = "ZOMBIE"]
    /\ idleKilled' = (idleKilled \/ p = Idle)
    /\ UNCHANGED <<procs, priority, wakeup, context, current, ticks,
                   running, at, picked, raced>>

process_sleep(t, ms) ==
    /\ On(t, "run")
    /\ wakeup' = [wakeup EXCEPT ![current] = ticks + ms]
    /\ Goto(t, "sleep")
    /\ UNCHANGED <<procs, state, priority, context, current, ticks,
                   running, picked, idleKilled, raced>>

SetSleeping(t) ==
    /\ On(t, "sleep")
    /\ state' = [state EXCEPT ![current] = "SLEEPING"]
    /\ Goto(t, "pick")
    /\ UNCHANGED <<procs, priority, wakeup, context, current, ticks,
                   running, picked, idleKilled, raced>>

process_yield(t) ==
    /\ On(t, "run")
    /\ Goto(t, "pick")
    /\ UNCHANGED <<procs, state, priority, wakeup, context, current, ticks,
                   running, picked, idleKilled, raced>>

(* scheduler_switch, statement by statement *)
Pick(t) ==
    /\ On(t, "pick")
    /\ IF Best(state) = current
         THEN Goto(t, "run") /\ UNCHANGED picked
         ELSE Goto(t, "demote") /\ picked' = [picked EXCEPT ![t] = Best(state)]
    /\ UNCHANGED <<procs, state, priority, wakeup, context, current, ticks,
                   running, idleKilled, raced>>

(* what the outgoing process becomes, whatever it was; one mutant forgets  *)
(* the assignment, one spares the processes that are not RUNNING           *)
Demoted_Not(s) == s
Demoted_IfRunning(s) == IF s = "RUNNING" THEN "WAITING" ELSE s
Demoted(s) == "WAITING"

Demote(t) ==
    /\ On(t, "demote")
    /\ state' = [state EXCEPT ![current] = Demoted(state[current])]
    /\ Goto(t, "promote")
    /\ UNCHANGED <<procs, priority, wakeup, context, current, ticks,
                   running, picked, idleKilled, raced>>

Promote(t) ==
    /\ On(t, "promote")
    /\ state' = [state EXCEPT ![picked[t]] = "RUNNING"]
    /\ Goto(t, "switch")
    /\ UNCHANGED <<procs, priority, wakeup, context, current, ticks,
                   running, picked, idleKilled, raced>>

(* old = current_process; current_process = best.  `old` is a local too:   *)
(* from here on `picked` holds it, since best is current_process now       *)
(* The mutant reads current_process after the second assignment.           *)
Old_TooLate(t) == picked[t]
Old(t) == current

HandOver(t) ==
    /\ On(t, "switch")
    /\ picked' = [picked EXCEPT ![t] = Old(t)]
    /\ current' = picked[t]
    /\ Goto(t, "swap")
    /\ UNCHANGED <<procs, state, priority, wakeup, context, ticks,
                   running, idleKilled, raced>>

(* switch_context(&old->context, &best->context) *)
Swap(t) ==
    /\ On(t, "swap")
    /\ context' = [context EXCEPT ![picked[t]] = t]
    /\ running' = context[current]
    /\ picked' = [picked EXCEPT ![t] = Idle]   \* its locals die
    /\ Goto(t, "run")
    /\ UNCHANGED <<procs, state, priority, wakeup, current, ticks,
                   idleKilled, raced>>

(* the statements of scheduler_switch a tick must not separate from the    *)
(* one before                                                              *)
Window == {"promote", "switch", "swap"}

(* scheduler_tick as the interrupt handler runs it: all of it at once, on  *)
(* the stack of the interrupted thread, which goes on where it was when    *)
(* its context is restored                                                 *)
scheduler_tick ==
    /\ ~raced
    /\ LET b == Best(Awake)
       IN  IF b = current
             THEN state' = Awake /\ UNCHANGED <<context, current, running>>
             ELSE /\ state' = [Awake EXCEPT ![current] = Demoted(Awake[current]),
                                            ![b] = "RUNNING"]
                  /\ context' = [context EXCEPT ![current] = running]
                  /\ running' = context[b]
                  /\ current' = b
    /\ raced' = (raced \/ at[running] \in Window)
    /\ UNCHANGED <<procs, priority, wakeup, ticks, at, picked, idleKilled>>

(* the clock that timer_get_ticks reads *)
Clock ==
    /\ ~raced /\ ticks < MaxTicks
    /\ ticks' = ticks + 1
    /\ UNCHANGED <<procs, state, priority, wakeup, context, current,
                   running, at, picked, idleKilled, raced>>

Torn == raced /\ UNCHANGED procVars

SwitchStep(t) == \/ SetSleeping(t) \/ Pick(t) \/ Demote(t) \/ Promote(t)
                 \/ HandOver(t) \/ Swap(t)

ProcNext ==
    \/ \E t \in procs :
         \/ process_create(t)
         \/ \E prio \in Priorities : Link(t, prio)
         \/ \E p \in procs : process_kill(t, p)
         \/ \E ms \in Delays : process_sleep(t, ms)
         \/ process_yield(t)
         \/ SwitchStep(t)
    \/ scheduler_tick \/ Clock \/ Torn

ProcSpec == /\ ProcInit /\ [][ProcNext]_procVars
            /\ WF_procVars(scheduler_tick)
            /\ WF_procVars(\E t \in procs : SwitchStep(t))

----------------------------------------------------------------------------
(* Properties *)

ProcTypeOK ==
    /\ procs = 0 .. ListHead /\ procs \subseteq Pids
    /\ state \in [Pids -> States]
    /\ priority \in [Pids -> 0 .. 255]
    /\ wakeup \in [Pids -> Nat]
    /\ context \in [Pids -> Pids \cup {NoThread}]
    /\ current \in procs /\ running \in procs \cup {NoThread}
    /\ idleKilled \in BOOLEAN
    /\ ticks \in Nat
    /\ at \in [Pids -> {"run", "create", "sleep", "pick", "demote", "promote", "switch", "swap"}]
    /\ picked \in [Pids -> Pids]
    /\ raced \in BOOLEAN

(* Unless a tick fell between the writes of a switch, or one creation      *)
(* overtook another, the CPU executes the thread of the current process    *)
(* (of the one being left, in the last step of a switch), and every other  *)
(* process has its own thread saved in its own context: no thread is lost  *)
(* and none runs twice.                                                    *)
ThreadsKept ==
    ~raced =>
        /\ running = IF at[running] = "swap" THEN picked[running] ELSE current
        /\ \A p \in procs \ {running} : context[p] = p

(* With the same two exceptions no process but the current one is RUNNING, *)
(* or the one a switch is about to make current: at most one, that is; the *)
(* current one itself may be SLEEPING, WAITING or a ZOMBIE.                *)
OneRuns ==
    ~raced =>
        \A p \in procs : state[p] = "RUNNING" =>
            \/ p = current
            \/ at[running] = "switch" /\ p = picked[running]

(* A process is SLEEPING only while it still has the CPU: as soon as the   *)
(* scheduler takes it away the process is WAITING, that is ready again,    *)
(* whatever its wakeup tick.  process_sleep never makes anyone wait.       *)
NobodySleeps == ~raced => \A p \in procs : state[p] = "SLEEPING" => p = current

(* Unless the idle process was killed, and as long as all others have      *)
(* worse priorities, no process hands the CPU to another directly: the     *)
(* idle process comes in between any two others.                           *)
OnlyIdleHasZero == ~idleKilled /\ \A p \in procs \ {Idle} : priority[p] > 0

IdleInBetween ==
    [][ ~raced' /\ OnlyIdleHasZero /\ current' # current
        => current = Idle \/ current' = Idle ]_procVars

(* Under the same conditions ticks bring the idle process back to the CPU  *)
(* again and again.                                                        *)
IdleReturns ==
    current # Idle ~> current = Idle \/ raced \/ ~OnlyIdleHasZero
=============================================================================
