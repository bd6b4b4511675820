----------------------------- MODULE ProcessTable -----------------------------
(***************************************************************************)
(* The process table (process_manager/process_manager.c): slots filled in  *)
(* order and never filled again, and a tick that calls the functions of    *)
(* all WAITING processes one after the other.  A function that runs may    *)
(* create and kill, itself included; it returns in the end.  Nobody else   *)
(* calls while a tick is on.                                               *)
(***************************************************************************)
EXTENDS Integers

CONSTANT MAX_PROCESSES

ASSUME ProcessTableAssumption == MAX_PROCESSES \in Nat \ {0}

VARIABLES state, func,      \* of each slot; func is FALSE for NULL
          process_count,
          i,                \* scheduler_tick's loop counter
          place,            \* outside, at the loop's test, in a function, or gone
          killed, suicides, \* history: slots killed, those killed by the function they hold
          ran               \* history: slots called in this tick

tableVars == <<state, func, process_count, i, place, killed, suicides, ran>>

Slots == 0 .. MAX_PROCESSES - 1
Used == 0 .. process_count - 1

TableInit == /\ state = [p \in Slots |-> "STOPPED"] /\ func = [p \in Slots |-> FALSE]
             /\ process_count = 0 /\ i = 0 /\ place = "outside"
             /\ killed = {} /\ suicides = {} /\ ran = {}

(* between ticks, or by the function that is running *)
MayCall == place \in {"outside", "function"}

create_process ==
    /\ MayCall /\ process_count < MAX_PROCESSES
    /\ state' = [state EXCEPT ![process_count] = "WAITING"]
    /\ func' = [func EXCEPT ![process_count] = TRUE]
    /\ process_count' = process_count + 1
    /\ UNCHANGED <<i, place, killed, suicides, ran>>

(* the slot becomes all zeros, and STOPPED is 0 *)
kill_process(p) ==
    /\ MayCall /\ p \in Used
    /\ state' = [state EXCEPT ![p] = "STOPPED"]
    /\ func' = [func EXCEPT ![p] = FALSE]
    /\ killed' = killed \cup {p}
    /\ suicides' = IF place = "function" /\ p = i THEN suicides \cup {p} ELSE suicides
    /\ UNCHANGED <<process_count, i, place, ran>>

scheduler_tick == /\ place = "outside" /\ place' = "test"
                  /\ i' = 0 /\ ran' = {}
                  /\ UNCHANGED <<state, func, process_count, killed, suicides>>

(* the mutant calls whatever is not RUNNING *)
Callable_NotRunning(p) == state[p] # "RUNNING"
Callable(p) == state[p] = "WAITING"

(* how far the loop goes; the mutant stops one short *)
More_OneShort == i < process_count - 1
More == i < process_count

(* A call through NULL executes whatever lies at address zero, and is not  *)
(* followed.                                                               *)
Call == /\ place = "test" /\ More /\ Callable(i)
        /\ state' = [state EXCEPT ![i] = "RUNNING"]
        /\ place' = IF func[i] THEN "function" ELSE "lost"
        /\ ran' = ran \cup {i}
        /\ UNCHANGED <<func, process_count, i, killed, suicides>>

FunctionReturns == /\ place = "function" /\ place' = "test"
                   /\ state' = [state EXCEPT ![i] = "WAITING"]
                   /\ i' = i + 1
                   /\ UNCHANGED <<func, process_count, killed, suicides, ran>>

SkipSlot == /\ place = "test" /\ More /\ ~Callable(i)
            /\ i' = i + 1
            /\ UNCHANGED <<state, func, process_count, place, killed, suicides, ran>>

TickEnds == /\ place = "test" /\ ~More /\ place' = "outside"
            /\ UNCHANGED <<state, func, process_count, i, killed, suicides, ran>>

Lost == place = "lost" /\ UNCHANGED tableVars

TableNext == \/ create_process \/ \E p \in Slots : kill_process(p)
             \/ scheduler_tick \/ Call \/ FunctionReturns \/ SkipSlot \/ TickEnds \/ Lost

TableSpec == TableInit /\ [][TableNext]_tableVars

----------------------------------------------------------------------------
(* Properties *)

(* A killed process stays STOPPED and is never called again, unless it     *)
(* killed itself: its function's return makes the empty slot WAITING       *)
(* (line 34), and the next tick calls through NULL.  Nothing else does.    *)
DeadStayDead == /\ \A p \in killed \ suicides : state[p] = "STOPPED"
                /\ place = "lost" => i \in suicides

(* A tick calls everybody who is not killed, the ones created during the   *)
(* tick included, and leaves nobody RUNNING.                               *)
EveryoneRuns == [][ place = "test" /\ place' = "outside" =>
                      /\ Used \subseteq ran \cup killed
                      /\ \A p \in Slots : state[p] # "RUNNING" ]_tableVars
=============================================================================
