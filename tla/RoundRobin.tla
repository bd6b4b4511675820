------------------------------ MODULE RoundRobin ------------------------------
(***************************************************************************)
(* The scheduler the timer interrupt calls (scheduler/scheduler.c and      *)
(* scheduler/switch.asm): a ring of tasks, and a tick that moves to the    *)
(* next one.  Tasks are added one after another, each once.                *)
(***************************************************************************)
EXTENDS Integers, FiniteSets

CONSTANTS Tasks, NoTask

ASSUME RingAssumption == NoTask \notin Tasks /\ IsFiniteSet(Tasks)

Boot == NoTask   \* the thread that executes kernel_main is not a task

VARIABLES added,    \* the tasks scheduler_add was called with
          current,
          next,     \* task -> task_t.next
          saved,    \* task -> the thread whose stack pointer its esp holds
          running   \* the thread on the CPU

ringVars == <<added, current, next, saved, running>>

RingInit == /\ added = {} /\ current = NoTask
            /\ next = [t \in Tasks |-> NoTask]
            /\ saved = [t \in Tasks |-> t]   \* as its creator prepared it
            /\ running = Boot

(* a new task points to the one after current, the first one to itself;    *)
(* the mutant has it point to current                                      *)
After_Current(t) == IF current = NoTask THEN t ELSE current
After(t) == IF current = NoTask THEN t ELSE next[current]

scheduler_add(t) ==
    /\ t \notin added
    /\ added' = added \cup {t}
    /\ IF current = NoTask
         THEN current' = t /\ next' = [next EXCEPT ![t] = After(t)]
         ELSE /\ next' = [next EXCEPT ![t] = After(t), ![current] = t]
              /\ UNCHANGED current
    /\ UNCHANGED <<saved, running>>

(* context_switch stores esp in the old task's field and returns; its      *)
(* second argument, the stack to go to, is loaded into edx and left there  *)
context_switch(old) ==
    /\ saved' = [saved EXCEPT ![old] = running]
    /\ UNCHANGED running

scheduler_tick ==
    /\ current # NoTask
    /\ current' = next[current]
    /\ context_switch(current)
    /\ UNCHANGED <<added, next>>

RingNext == (\E t \in Tasks : scheduler_add(t)) \/ scheduler_tick

RingSpec == RingInit /\ [][RingNext]_ringVars /\ WF_ringVars(scheduler_tick)

----------------------------------------------------------------------------
(* Properties *)

RingTypeOK ==
    /\ added \subseteq Tasks
    /\ current \in IF added = {} THEN {NoTask} ELSE added
    /\ next \in [Tasks -> Tasks \cup {NoTask}]
    /\ saved \in [Tasks -> Tasks \cup {Boot}]
    /\ running \in Tasks \cup {Boot}

(* Following `next` from any task passes every task and comes back: it     *)
(* stays among the tasks, and no smaller set of them is closed under it.   *)
Closed(S) == \A t \in S : next[t] \in S

RingWhole ==
    /\ RingTypeOK /\ Closed(added)
    /\ \A S \in SUBSET added : S # {} /\ Closed(S) => S = added

(* Every task added has its turn to be the current one again and again,    *)
(* however many more are added in front of it.                             *)
EveryTurnComes == \A t \in Tasks : [](t \in added => <>(current = t))

(* What a multitasking scheduler is for (CONTRIBUTING.md:114): a task that *)
(* was added gets the CPU some time.                                       *)
TasksRun == \A t \in Tasks : t \in added ~> running = t
=============================================================================
