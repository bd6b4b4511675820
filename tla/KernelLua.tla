------------------------------ MODULE KernelLua ------------------------------
(***************************************************************************)
(* The logical kernel's applications (kernel/kernel.lua): registerApp,     *)
(* runApp, and boot, which calls the listeners of "boot" and then the init *)
(* of every application that is not running.  An init and a listener are   *)
(* any code: they may register, run and boot in turn, so the calls nest.   *)
(* Services, the other events and ticks change nothing here.               *)
(***************************************************************************)
EXTENDS Integers, Sequences

CONSTANTS AppNames,
          MaxObjects    \* bound: how often applications are registered

ASSUME KernelAssumption == MaxObjects \in Nat

VARIABLES apps,         \* names to the objects last registered for them, 0 for nil
          objects,      \* how many objects there are
          runningApps,  \* the objects whose field running is true
          booted,
          calls,        \* the calls under way, the innermost last
          walk,         \* where boot is: not called, at the listeners, in the loop
          unvisited,    \* names pairs() has still to deliver
          once, twice,  \* history: objects initialised, and initialised again
          reentered,    \* history: run while boot was in their init
          due           \* history: the objects there were when the loop began, as long as
                        \* nothing was registered since

kernelVars == <<apps, objects, runningApps, booted, calls, walk, unvisited, once, twice,
                reentered, due>>

KernelInit == /\ apps = [n \in AppNames |-> 0] /\ objects = 0 /\ runningApps = {}
              /\ booted = FALSE /\ calls = <<>> /\ walk = "no" /\ unvisited = {}
              /\ once = {} /\ twice = {} /\ reentered = {} /\ due = {}

----------------------------------------------------------------------------
InitCall(by, o) == [by |-> by, object |-> o]
BootCall == [by |-> "caller", object |-> 0]

InBoot == calls # <<>> /\ calls[Len(calls)] = BootCall
MayBeCalled == InBoot => walk = "listeners"

Initialise(by, o) == /\ calls' = Append(calls, InitCall(by, o))
                     /\ once' = once \cup {o}
                     /\ twice' = IF o \in once THEN twice \cup {o} ELSE twice

(* A new name while pairs() is on its way leaves open what it still        *)
(* delivers; an old one gets a new object in its place.                    *)
registerApp(n) ==
    /\ MayBeCalled /\ objects < MaxObjects
    /\ objects' = objects + 1
    /\ apps' = [apps EXCEPT ![n] = objects + 1]
    /\ IF walk = "loop" /\ apps[n] = 0 THEN unvisited' \in SUBSET {m \in AppNames : apps'[m] # 0}
                                       ELSE UNCHANGED unvisited
    /\ due' = IF walk = "loop" THEN {} ELSE due
    /\ UNCHANGED <<runningApps, booted, calls, walk, once, twice, reentered>>

(* runApp marks the object before it calls init; the mutant does not *)
MarkedFirst_Not(o) == runningApps
MarkedFirst(o) == runningApps \cup {o}

runApp(n) ==
    /\ MayBeCalled /\ apps[n] # 0 /\ apps[n] \notin runningApps
    /\ runningApps' = MarkedFirst(apps[n])
    /\ Initialise("run", apps[n])
    /\ reentered' = IF \E k \in DOMAIN calls : calls[k] = InitCall("boot", apps[n])
                    THEN reentered \cup {apps[n]} ELSE reentered
    /\ UNCHANGED <<apps, objects, booted, walk, unvisited, due>>

boot == /\ MayBeCalled /\ ~booted
        /\ booted' = TRUE /\ walk' = "listeners"
        /\ calls' = Append(calls, BootCall)
        /\ UNCHANGED <<apps, objects, runningApps, unvisited, once, twice, reentered, due>>

EmitEnds == /\ InBoot /\ walk = "listeners" /\ walk' = "loop"
            /\ unvisited' = {n \in AppNames : apps[n] # 0}
            /\ due' = {apps[n] : n \in unvisited'}
            /\ UNCHANGED <<apps, objects, runningApps, booted, calls, once, twice, reentered>>

(* boot marks it after init has returned *)
Visit(n) == /\ InBoot /\ walk = "loop" /\ n \in unvisited
            /\ unvisited' = unvisited \ {n}
            /\ IF apps[n] \in runningApps THEN UNCHANGED <<calls, once, twice>>
               ELSE Initialise("boot", apps[n])
            /\ UNCHANGED <<apps, objects, runningApps, booted, walk, reentered, due>>

InitReturns == /\ calls # <<>> /\ ~InBoot
               /\ LET last == calls[Len(calls)]
                  IN  runningApps' = IF last.by = "boot" THEN runningApps \cup {last.object}
                                     ELSE runningApps
               /\ calls' = SubSeq(calls, 1, Len(calls) - 1)
               /\ UNCHANGED <<apps, objects, booted, walk, unvisited, once, twice, reentered, due>>

BootReturns == /\ InBoot /\ walk = "loop" /\ unvisited = {} /\ walk' = "over"
               /\ calls' = SubSeq(calls, 1, Len(calls) - 1)
               /\ UNCHANGED <<apps, objects, runningApps, booted, unvisited, once, twice,
                              reentered, due>>

(* An error that an init or a listener raises is caught by nobody here: it  *)
(* goes through boot to the program's runner, which closes the Lua state.  *)
(* The next one to run starts anew.                                        *)
InitRaises == /\ calls # <<>>
              /\ apps' = [n \in AppNames |-> 0] /\ objects' = 0 /\ runningApps' = {}
              /\ booted' = FALSE /\ calls' = <<>> /\ walk' = "no" /\ unvisited' = {}
              /\ once' = {} /\ twice' = {} /\ reentered' = {} /\ due' = {}

KernelIdle == calls = <<>> /\ UNCHANGED kernelVars

KernelNext == \/ \E n \in AppNames : registerApp(n) \/ runApp(n) \/ Visit(n)
              \/ boot \/ EmitEnds \/ InitReturns \/ BootReturns \/ InitRaises
              \/ KernelIdle

KernelSpec == KernelInit /\ [][KernelNext]_kernelVars

----------------------------------------------------------------------------
(* Properties *)

(* However calls nest, an application is initialised once, with the one    *)
(* exception that boot's order of call and mark leaves (lines 67 and 68):  *)
(* it is run again from within the init boot has called.  And when boot    *)
(* returns every application has been initialised, unless one was          *)
(* registered while its loop was on.                                       *)
InitOnce == /\ twice \subseteq reentered
            /\ walk = "over" => due \subseteq once \cap runningApps
=============================================================================
