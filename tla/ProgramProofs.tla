----------------------------- MODULE ProgramProofs -----------------------------
(* Proofs about the programs that run one call at a time: the process      *)
(* table, the file table, the terminal, the installer, the logical kernel  *)
(* and the desktop's lists.                                                *)
EXTENDS ProcessTable, FsTable, Terminal, Installer, KernelLua, DeskApps,
        FiniteSetTheorems, SequenceTheorems, WellFoundedInduction, TLAPS

(* A set of naturals with a member has a least one.                        *)
LEMMA LeastExists ==
    ASSUME NEW S, S \subseteq Nat, S # {}
    PROVE  \E m \in S : \A k \in S : m <= k
  <1>1. PICK m \in S : \A k \in S : ~(<<k, m>> \in OpToRel(<, Nat))
    BY WFMin, NatLessThanWellFounded
  <1>2. \A k \in S : ~(k < m)
    BY <1>1 DEF OpToRel
  <1> QED BY <1>2

----------------------------------------------------------------------------
(* The process table *)

TableTypeOK ==
    /\ state \in [Slots -> {"STOPPED", "WAITING", "RUNNING"}]
    /\ func \in [Slots -> BOOLEAN]
    /\ process_count \in 0 .. MAX_PROCESSES /\ i \in 0 .. process_count
    /\ place \in {"outside", "test", "function", "lost"}
    /\ killed \subseteq Used /\ suicides \subseteq killed
    /\ place \in {"function", "lost"} => i \in Used

(* A slot that is in use and STOPPED was killed; one that is called is the *)
(* one the tick is at; and only who killed himself is WAITING without a    *)
(* function, or about to be.                                               *)
SlotsOK ==
    /\ \A p \in Used \ killed : state[p] # "STOPPED" /\ func[p]
    /\ \A p \in Slots : state[p] = "RUNNING" => place \in {"function", "lost"} /\ p = i
    /\ \A p \in Slots : state[p] # "STOPPED" => p \in Used /\ (func[p] \/ p \in suicides)
    /\ place = "function" => i \in ran /\ (i \in killed => i \in suicides)

(* The tick has called, or found killed, every slot it has passed.         *)
Passed == place # "outside" => 0 .. (i - 1) \subseteq ran \cup killed

TableInv == TableTypeOK /\ SlotsOK /\ Passed /\ DeadStayDead

(* The empty table satisfies the invariant.                                *)
LEMMA TableInvInit == TableInit => TableInv
  <1> SUFFICES ASSUME TableInit PROVE TableInv
    OBVIOUS
  <1>1. Used = {} /\ \A p \in Slots : state[p] = "STOPPED"
    BY DEF TableInit, Used
  <1>2. TableTypeOK
    BY ProcessTableAssumption DEF TableInit, TableTypeOK, Used
  <1> QED BY <1>1, <1>2 DEF TableInit, TableInv, SlotsOK, Passed, DeadStayDead

(* Creating, killing and every step of a tick keep the types.              *)
LEMMA TableTypeNext == TableInv /\ [TableNext]_tableVars => TableTypeOK'
  <1> SUFFICES ASSUME TableInv, [TableNext]_tableVars PROVE TableTypeOK'
    OBVIOUS
  <1> USE ProcessTableAssumption DEF TableInv
  <1>1. TableTypeOK
    OBVIOUS
  <1>2. CASE create_process
    <2>1. Used' = Used \cup {process_count} /\ process_count \in Slots
      BY <1>1, <1>2 DEF create_process, Used, Slots, TableTypeOK
    <2> QED BY <1>1, <1>2, <2>1 DEF create_process, TableTypeOK, MayCall, Slots
  <1>3. ASSUME NEW p \in Slots, kill_process(p) PROVE TableTypeOK'
    BY <1>1, <1>3 DEF kill_process, TableTypeOK, Used
  <1>4. CASE scheduler_tick \/ TickEnds
    <2>1. /\ UNCHANGED <<state, func, process_count, killed, suicides>>
          /\ i' \in {0, i} /\ place' \in {"test", "outside"}
      BY <1>4 DEF scheduler_tick, TickEnds
    <2> QED BY <1>1, <2>1 DEF TableTypeOK, Used
  <1>5. CASE Lost \/ UNCHANGED tableVars
    <2>1. UNCHANGED <<state, func, process_count, i, place, killed, suicides>>
      BY <1>5 DEF Lost, tableVars
    <2> QED BY <1>1, <2>1 DEF TableTypeOK, Used
  <1>6. CASE Call
    <2>1. /\ state' = [state EXCEPT ![i] = "RUNNING"] /\ place' \in {"function", "lost"}
          /\ UNCHANGED <<func, process_count, i, killed, suicides>> /\ i \in Used
      BY <1>1, <1>6 DEF Call, More, Used, TableTypeOK
    <2> QED BY <1>1, <2>1 DEF TableTypeOK, Used
  <1>7. CASE FunctionReturns \/ SkipSlot
    <2>1. /\ i \in Used /\ i' = i + 1 /\ place' = "test"
          /\ UNCHANGED <<func, process_count, killed, suicides>>
          /\ state' \in {state, [state EXCEPT ![i] = "WAITING"]}
      BY <1>1, <1>7 DEF FunctionReturns, SkipSlot, More, Used, TableTypeOK
    <2>2. i' \in 0 .. process_count
      BY <1>1, <2>1 DEF Used, TableTypeOK
    <2> QED BY <1>1, <2>1, <2>2 DEF TableTypeOK, Used
  <1> QED BY <1>2, <1>3, <1>4, <1>5, <1>6, <1>7 DEF TableNext

(* Creating, killing and every step of a tick keep what is known of        *)
(* killed slots and of the part of the table the tick has passed.          *)
LEMMA TableInvNext == TableInv /\ [TableNext]_tableVars => TableInv'
  <1> SUFFICES ASSUME TableInv, [TableNext]_tableVars PROVE TableInv'
    OBVIOUS
  <1>1. TableTypeOK /\ TableTypeOK'
    BY TableTypeNext DEF TableInv
  <1> SUFFICES SlotsOK' /\ Passed' /\ DeadStayDead'
    BY <1>1 DEF TableInv
  <1>2. SlotsOK /\ Passed /\ DeadStayDead
    BY DEF TableInv
  <1>3. Used \subseteq Slots
    BY <1>1, ProcessTableAssumption DEF TableTypeOK, Used, Slots
  <1>4. CASE create_process
    <2>1. /\ Used' = Used \cup {process_count} /\ process_count \in Slots \ Used
          /\ UNCHANGED <<i, place, killed, suicides, ran>>
          /\ state' = [state EXCEPT ![process_count] = "WAITING"]
          /\ func' = [func EXCEPT ![process_count] = TRUE]
      BY <1>1, <1>4, ProcessTableAssumption DEF create_process, Used, Slots, TableTypeOK
    <2>2. killed \subseteq Used /\ suicides \subseteq Used
      BY <1>1 DEF TableTypeOK
    <2>3. SlotsOK'
      BY <1>1, <1>2, <2>1, <2>2 DEF SlotsOK, TableTypeOK
    <2>4. Passed' /\ DeadStayDead'
      BY <1>1, <1>2, <1>3, <2>1, <2>2 DEF Passed, DeadStayDead, TableTypeOK
    <2> QED BY <2>3, <2>4
  <1>5. ASSUME NEW p \in Slots, kill_process(p) PROVE SlotsOK' /\ Passed' /\ DeadStayDead'
    <2>1. /\ state' = [state EXCEPT ![p] = "STOPPED"] /\ func' = [func EXCEPT ![p] = FALSE]
          /\ killed' = killed \cup {p} /\ Used' = Used /\ UNCHANGED <<i, place, ran>>
          /\ suicides' = IF place = "function" /\ p = i THEN suicides \cup {p} ELSE suicides
          /\ place \in {"outside", "function"}
      BY <1>5 DEF kill_process, Used, MayCall
    <2>2. SlotsOK'
      BY <1>1, <1>2, <2>1 DEF SlotsOK, TableTypeOK
    <2>3. Passed' /\ DeadStayDead'
      BY <1>1, <1>2, <1>3, <2>1 DEF Passed, DeadStayDead, TableTypeOK
    <2> QED BY <2>2, <2>3
  <1>6. CASE scheduler_tick \/ TickEnds \/ Lost \/ UNCHANGED tableVars
    <2>1. CASE scheduler_tick
      BY <1>2, <2>1 DEF scheduler_tick, SlotsOK, Passed, DeadStayDead, Used
    <2>2. CASE TickEnds \/ Lost \/ UNCHANGED tableVars
      BY <1>2, <2>2 DEF TickEnds, Lost, tableVars, SlotsOK, Passed, DeadStayDead, Used
    <2> QED BY <1>6, <2>1, <2>2
  <1>7. CASE Call
    <2>1. /\ state' = [state EXCEPT ![i] = "RUNNING"] /\ ran' = ran \cup {i}
          /\ place' = IF func[i] THEN "function" ELSE "lost"
          /\ state[i] = "WAITING" /\ i \in Used /\ place = "test" /\ Used' = Used
          /\ UNCHANGED <<func, i, killed, suicides>>
      BY <1>1, <1>7 DEF Call, Callable, More, Used, TableTypeOK
    <2>2. i \in killed => i \in suicides
      BY <1>2, <1>3, <2>1 DEF DeadStayDead
    <2>3. ~func[i] => i \in suicides
      BY <1>2, <1>3, <2>1 DEF SlotsOK
    <2>4. SlotsOK'
      BY <1>1, <1>2, <1>3, <2>1, <2>2, <2>3 DEF SlotsOK, TableTypeOK
    <2>5. Passed' /\ DeadStayDead'
      BY <1>1, <1>2, <1>3, <2>1, <2>2, <2>3 DEF Passed, DeadStayDead, TableTypeOK
    <2> QED BY <2>4, <2>5
  <1>8. CASE FunctionReturns
    <2>1. /\ state' = [state EXCEPT ![i] = "WAITING"] /\ place = "function" /\ place' = "test"
          /\ i' = i + 1 /\ i \in Used /\ Used' = Used
          /\ UNCHANGED <<func, killed, suicides, ran>>
      BY <1>1, <1>8 DEF FunctionReturns, Used, TableTypeOK
    <2>2. i \in ran /\ (i \in killed => i \in suicides) /\ (func[i] \/ i \in suicides)
      BY <1>2, <2>1 DEF SlotsOK
    <2>3. SlotsOK'
      BY <1>1, <1>2, <1>3, <2>1, <2>2 DEF SlotsOK, TableTypeOK
    <2>4. Passed'
      BY <1>1, <1>2, <2>1, <2>2 DEF Passed, TableTypeOK
    <2>5. DeadStayDead'
      BY <1>1, <1>2, <1>3, <2>1, <2>2 DEF DeadStayDead, TableTypeOK
    <2> QED BY <2>3, <2>4, <2>5
  <1>9. CASE SkipSlot
    <2>1. /\ place = "test" /\ i' = i + 1 /\ i \in Used /\ state[i] # "WAITING" /\ Used' = Used
          /\ UNCHANGED <<state, func, place, killed, suicides, ran>>
      BY <1>1, <1>9 DEF SkipSlot, More, Callable, Used, TableTypeOK
    <2>2. i \in killed
      BY <1>1, <1>2, <1>3, <2>1 DEF SlotsOK, TableTypeOK
    <2>3. SlotsOK' /\ DeadStayDead'
      BY <1>2, <2>1 DEF SlotsOK, DeadStayDead
    <2>4. Passed'
      BY <1>1, <1>2, <2>1, <2>2 DEF Passed, TableTypeOK
    <2> QED BY <2>3, <2>4
  <1> QED BY <1>4, <1>5, <1>6, <1>7, <1>8, <1>9 DEF TableNext

(* A killed process is never called again unless its own function killed   *)
(* it, and only then is NULL called (scheduler_tick, kill_process).        *)
THEOREM TableDeadStayDead == TableSpec => []DeadStayDead
  <1>1. TableInv => DeadStayDead
    BY DEF TableInv
  <1> QED BY TableInvInit, TableInvNext, <1>1, PTL DEF TableSpec

(* A tick calls everybody who is not killed, whatever the functions create *)
(* and kill in the meantime, and leaves nobody RUNNING (scheduler_tick).   *)
THEOREM TableEveryoneRuns == TableSpec => EveryoneRuns
  <1>1. ASSUME TableInv, [TableNext]_tableVars, place = "test", place' = "outside"
        PROVE  /\ Used \subseteq ran \cup killed
               /\ \A p \in Slots : state[p] # "RUNNING"
    <2>1. TickEnds
      BY <1>1 DEF TableNext, create_process, kill_process, scheduler_tick, Call, FunctionReturns,
                  SkipSlot, Lost, tableVars, MayCall
    <2>2. i = process_count
      BY <1>1, <2>1 DEF TickEnds, More, TableInv, TableTypeOK
    <2> QED BY <1>1, <2>2 DEF TableInv, SlotsOK, Passed, Used
  <1>2. TableInv /\ [TableNext]_tableVars =>
           [place = "test" /\ place' = "outside" =>
              /\ Used \subseteq ran \cup killed
              /\ \A p \in Slots : state[p] # "RUNNING"]_tableVars
    BY <1>1
  <1> QED BY TableInvInit, TableInvNext, <1>2, PTL DEF TableSpec, EveryoneRuns

----------------------------------------------------------------------------
(* The file table *)

SlotNames == FileNames \cup {""}

FsTypeOK == /\ files \in [1 .. MAX_FILES -> [name : SlotNames, data : Contents]]
            /\ file_count \in 0 .. MAX_FILES

(* What was written or left over is known of the names in the table only,  *)
(* and what was left over of all of them.                                  *)
FsInv == /\ FsTypeOK
         /\ \A n \in FileNames : /\ n \in DOMAIN leftover <=> Matches(n) # {}
                                 /\ n \in DOMAIN lastWritten => Matches(n) # {}
         /\ ReadsBack

(* Find gives the first slot of a name that is in the table.               *)
FindsFirst == \A n : Matches(n) # {} =>
                 Find(n) \in Matches(n) /\ \A t \in Matches(n) : Find(n) <= t

(* The search for a name finds the first slot that has it.                 *)
LEMMA FindIsFirst == FsTypeOK => FindsFirst
  <1> SUFFICES ASSUME FsTypeOK, NEW n, Matches(n) # {}
               PROVE  Find(n) \in Matches(n) /\ \A t \in Matches(n) : Find(n) <= t
    BY DEF FindsFirst
  <1>1. Matches(n) \subseteq Nat
    BY FsAssumption DEF FsTypeOK, Matches
  <1>2. \E s \in Matches(n) : \A t \in Matches(n) : s <= t
    BY <1>1, LeastExists
  <1> QED BY <1>2 DEF Find

(* The empty table reads nothing.                                          *)
LEMMA FsInvInit == FsInit => FsInv
  <1> SUFFICES ASSUME FsInit PROVE FsInv
    OBVIOUS
  <1>1. PICK noName \in SlotNames :
           files = [s \in 1 .. MAX_FILES |-> [name |-> noName, data |-> NoContent]]
    BY Zenon DEF FsInit, SlotNames
  <1>2. file_count = 0 /\ lastWritten = <<>> /\ leftover = <<>>
    BY Zenon DEF FsInit
  <1>3. FsTypeOK
    BY <1>1, <1>2, FsAssumption DEF FsTypeOK
  <1>4. \A n : Matches(n) = {}
    BY <1>2 DEF Matches
  <1>5. DOMAIN lastWritten = {} /\ DOMAIN leftover = {}
    BY <1>2
  <1> QED BY <1>3, <1>4, <1>5 DEF FsInv, ReadsBack

(* A file is added behind those that have its name.                        *)
LEMMA CreateKeepsInv ==
    ASSUME FsInv, NEW n \in FileNames, fs_create(n)
    PROVE  FsInv'
  <1> USE FsAssumption
  <1>1. PICK e \in 1 .. MAX_FILES : e = file_count + 1
    BY DEF fs_create, FsInv, FsTypeOK
  <1>2. /\ files' = [files EXCEPT ![e].name = n] /\ file_count' = e /\ lastWritten' = lastWritten
        /\ leftover' = IF n \in DOMAIN leftover THEN leftover ELSE With(leftover, n, files[e].data)
    BY <1>1 DEF fs_create
  <1>3. FsTypeOK'
    <2>1. n \in SlotNames
      BY Zenon DEF SlotNames
    <2>2. file_count' \in 0 .. MAX_FILES
      BY <1>1, <1>2
    <2> QED BY <1>1, <1>2, <2>1, <2>2 DEF FsInv, FsTypeOK
  <1>4. FindsFirst'
    BY <1>3, FindIsFirst, PTL
  <1>5. /\ \A s \in 1 .. MAX_FILES : files'[s].data = files[s].data
        /\ files'[e].name = n /\ \A s \in 1 .. file_count : files'[s].name = files[s].name
    <2>1. DOMAIN files = 1 .. MAX_FILES /\ file_count \in Nat
      BY DEF FsInv, FsTypeOK
    <2>2. \A s \in 1 .. file_count : s \in 1 .. MAX_FILES /\ s # e
      BY <1>1, <2>1
    <2>3. \A s \in 1 .. MAX_FILES : DOMAIN files[s] = {"name", "data"}
      BY DEF FsInv, FsTypeOK
    <2>4. \A s \in 1 .. MAX_FILES : files'[s] = IF s = e THEN [files[e] EXCEPT !.name = n] ELSE files[s]
      BY <1>1, <1>2, <2>1
    <2> QED BY <1>1, <2>2, <2>3, <2>4
  <1>6. ASSUME NEW m \in FileNames
        PROVE  Matches(m)' = IF m = n THEN Matches(m) \cup {e} ELSE Matches(m)
    <2>1. 1 .. file_count' = (1 .. file_count) \cup {e}
      BY <1>1, <1>2 DEF FsInv, FsTypeOK
    <2> QED BY <1>1, <1>5, <2>1 DEF Matches, FsInv, FsTypeOK
  <1>7. ASSUME NEW m \in FileNames, Matches(m) # {} PROVE Find(m)' = Find(m) /\ fs_read(m)' = fs_read(m)
    <2>1. PICK s \in Matches(m) : s = Find(m) /\ \A t \in Matches(m) : s <= t
      BY <1>7, FindIsFirst DEF FsInv, FindsFirst
    <2>2. s \in 1 .. file_count
      BY <2>1 DEF Matches
    <2>3. s \in Matches(m)' /\ \A t \in Matches(m)' : s <= t
      <3>1. s <= e
        BY <1>1, <2>2 DEF FsInv, FsTypeOK
      <3> QED BY <1>6, <2>1, <3>1
    <2>4. PICK f \in Matches(m)' : f = Find(m)' /\ \A t \in Matches(m)' : f <= t
      BY <1>4, <2>3 DEF FindsFirst
    <2>5. f = s
      BY <2>2, <2>3, <2>4, <1>3 DEF Matches, FsTypeOK
    <2> QED BY <1>5, <2>1, <2>2, <2>4, <2>5 DEF fs_read, FsInv, FsTypeOK
  <1>8. ASSUME Matches(n) = {} PROVE Find(n)' = e /\ fs_read(n)' = files[e].data
    <2>1. Matches(n)' = {e}
      BY <1>6, <1>8
    <2>2. Find(n)' = e
      BY <1>4, <2>1 DEF FindsFirst
    <2> QED BY <1>5, <2>2 DEF fs_read
  <1>9. ASSUME NEW m \in FileNames
        PROVE  /\ m \in DOMAIN leftover' <=> Matches(m)' # {}
               /\ m \in DOMAIN lastWritten' => Matches(m)' # {}
    BY <1>2, <1>6 DEF FsInv, With
  <1>10. ASSUME NEW m \in FileNames, Matches(m)' # {}
        PROVE  fs_read(m)' = IF m \in DOMAIN lastWritten' THEN lastWritten'[m] ELSE leftover'[m]
    <2>1. CASE Matches(m) # {}
      <3>1. leftover'[m] = leftover[m]
        BY <1>2, <2>1 DEF With, FsInv
      <3>2. fs_read(m) = IF m \in DOMAIN lastWritten THEN lastWritten[m] ELSE leftover[m]
        BY <2>1 DEF FsInv, ReadsBack
      <3> QED BY <1>2, <1>7, <2>1, <3>1, <3>2
    <2>2. CASE Matches(m) = {}
      <3>1. m = n /\ m \notin DOMAIN leftover /\ m \notin DOMAIN lastWritten
        BY <1>6, <1>10, <2>2 DEF FsInv
      <3>2. leftover'[m] = files[e].data
        BY <1>2, <3>1 DEF With
      <3> QED BY <1>2, <1>8, <2>2, <3>1, <3>2
    <2> QED BY <2>1, <2>2
  <1> QED BY <1>3, <1>9, <1>10 DEF FsInv, ReadsBack

(* A write changes what the first file of its name holds, and no name.     *)
LEMMA WriteKeepsInv ==
    ASSUME FsInv, NEW n \in FileNames, NEW d \in Contents, fs_write(n, d)
    PROVE  FsInv'
  <1>1. PICK f \in Matches(n) : f = Find(n)
    BY FindIsFirst DEF fs_write, FsInv, FindsFirst
  <1>2. f \in 1 .. MAX_FILES /\ files[f].name = n
    BY <1>1, FsAssumption DEF Matches, FsInv, FsTypeOK
  <1>3. /\ files' = [files EXCEPT ![f].data = d] /\ UNCHANGED <<file_count, leftover>>
        /\ lastWritten' = With(lastWritten, n, d)
    BY <1>1 DEF fs_write
  <1>4. FsTypeOK'
    BY <1>2, <1>3 DEF FsInv, FsTypeOK
  <1>5. ASSUME NEW m PROVE Matches(m)' = Matches(m) /\ Find(m)' = Find(m)
    <2>1. \A s \in 1 .. file_count : files'[s].name = files[s].name
      BY <1>2, <1>3, FsAssumption DEF FsInv, FsTypeOK
    <2>2. Matches(m)' = Matches(m)
      BY <1>3, <2>1 DEF Matches
    <2> QED BY <2>2 DEF Find
  <1>6. ASSUME NEW m \in FileNames, Matches(m) # {}
        PROVE  fs_read(m)' = IF m = n THEN d ELSE fs_read(m)
    <2>1. Find(m) \in Matches(m)
      BY <1>6, FindIsFirst DEF FsInv, FindsFirst
    <2>2. Find(m) \in 1 .. MAX_FILES /\ files[Find(m)].name = m
      BY <2>1, FsAssumption DEF Matches, FsInv, FsTypeOK
    <2>3. PICK g \in 1 .. MAX_FILES : g = Find(m) /\ files[g].name = m
      BY <2>2
    <2>4. fs_read(m)' = files'[g].data /\ fs_read(m) = files[g].data
      BY <1>5, <2>3 DEF fs_read
    <2>5. m = n => g = f
      BY <1>1, <2>3
    <2>6. m # n => g # f
      BY <1>2, <2>3
    <2> QED BY <1>2, <1>3, <2>4, <2>5, <2>6 DEF FsInv, FsTypeOK
  <1>7. /\ DOMAIN lastWritten' = DOMAIN lastWritten \cup {n} /\ lastWritten'[n] = d
        /\ \A m \in DOMAIN lastWritten : m # n => lastWritten'[m] = lastWritten[m]
    BY <1>3 DEF With
  <1>8. ASSUME NEW m \in FileNames
        PROVE  /\ m \in DOMAIN leftover' <=> Matches(m)' # {}
               /\ m \in DOMAIN lastWritten' => Matches(m)' # {}
    BY <1>1, <1>3, <1>5, <1>7 DEF FsInv
  <1>9. ASSUME NEW m \in FileNames, Matches(m)' # {}
        PROVE  fs_read(m)' = IF m \in DOMAIN lastWritten' THEN lastWritten'[m] ELSE leftover'[m]
    <2>1. Matches(m) # {}
      BY <1>5, <1>9
    <2>2. fs_read(m) = IF m \in DOMAIN lastWritten THEN lastWritten[m] ELSE leftover[m]
      BY <2>1 DEF FsInv, ReadsBack
    <2> QED BY <1>3, <1>6, <1>7, <2>1, <2>2
  <1> QED BY <1>4, <1>8, <1>9 DEF FsInv, ReadsBack

(* fs_init, fs_create and fs_write keep the table in agreement with what   *)
(* was written.                                                            *)
LEMMA FsInvNext == FsInv /\ [FsNext]_fsVars => FsInv'
  <1> SUFFICES ASSUME FsInv, [FsNext]_fsVars PROVE FsInv'
    OBVIOUS
  <1>1. CASE fs_init
    <2>1. /\ files' = files /\ file_count' = 0
          /\ DOMAIN lastWritten' = {} /\ DOMAIN leftover' = {}
      BY <1>1 DEF fs_init
    <2>2. \A n : Matches(n)' = {}
      BY <2>1 DEF Matches
    <2> QED BY <2>1, <2>2, FsAssumption DEF FsInv, FsTypeOK, ReadsBack
  <1>2. CASE UNCHANGED fsVars
    BY <1>2 DEF fsVars, FsInv, FsTypeOK, ReadsBack, fs_read, Find, Matches
  <1> QED BY <1>1, <1>2, CreateKeepsInv, WriteKeepsInv DEF FsNext

(* A file reads as what was last written to its name, or as what lay in    *)
(* its slot (fs_create, fs_write, fs_read), for every table, name and      *)
(* content.                                                                *)
THEOREM FsReadsBack == FsSpec => []ReadsBack
  <1>1. FsInv => ReadsBack
    BY DEF FsInv
  <1> QED BY FsInvInit, FsInvNext, <1>1, PTL DEF FsSpec

----------------------------------------------------------------------------
(* The terminal *)

Typable == Letters \cup {"space"}

TerminalTypeOK == /\ input_buffer \in [0 .. BufferSize - 1 -> Typable \cup {"nul"}]
                  /\ typed \in Seq(Typable)

(* The line being typed is at the front of the buffer, and what follows    *)
(* it is anything.                                                         *)
LineInv == /\ TerminalTypeOK
           /\ input_index = Len(typed) /\ Len(typed) <= BufferSize - 1
           /\ \A k \in 1 .. Len(typed) : input_buffer[k - 1] = typed[k]

(* The first nul of the ended buffer is where the line ends, so the line   *)
(* the shell gets is what was typed.                                       *)
LEMMA EndedLine ==
    ASSUME LineInv
    PROVE  /\ Terminated(Ended(input_buffer)) # {}
           /\ StringLen(Ended(input_buffer)) = Len(typed)
           /\ [k \in 1 .. Len(typed) |-> Ended(input_buffer)[k - 1]] = typed
  <1>1. PICK l \in 0 .. BufferSize - 1 : l = Len(typed) /\ input_index = l
    BY TerminalAssumption DEF LineInv, TerminalTypeOK
  <1>2. PICK buf \in [0 .. BufferSize - 1 -> Typable \cup {"nul"}] :
           buf = [input_buffer EXCEPT ![l] = "nul"] /\ buf = Ended(input_buffer)
    BY <1>1 DEF LineInv, TerminalTypeOK, Ended
  <1>3. buf[l] = "nul"
    BY <1>1, <1>2 DEF LineInv, TerminalTypeOK
  <1>4. ASSUME NEW k \in 1 .. l PROVE buf[k - 1] = typed[k] /\ buf[k - 1] # "nul"
    <2>1. k - 1 \in 0 .. BufferSize - 1 /\ k - 1 # l
      BY TerminalAssumption
    <2>2. buf[k - 1] = input_buffer[k - 1]
      BY <1>2, <2>1 DEF LineInv, TerminalTypeOK
    <2>3. typed[k] \in Typable
      BY <1>1 DEF LineInv, TerminalTypeOK
    <2>4. "nul" \notin Typable
      BY TerminalAssumption DEF Typable
    <2> QED BY <1>1, <2>2, <2>3, <2>4 DEF LineInv
  <1>5. Terminated(buf) = {b \in 0 .. BufferSize - 1 : buf[b] = "nul"}
    BY DEF Terminated
  <1>6. l \in Terminated(buf) /\ \A c \in Terminated(buf) : l <= c
    <2>1. ASSUME NEW c \in Terminated(buf), c < l PROVE FALSE
      <3>1. c + 1 \in 1 .. l /\ (c + 1) - 1 = c /\ buf[c] = "nul"
        BY <1>5, <2>1, TerminalAssumption
      <3> QED BY <1>4, <3>1
    <2> QED BY <1>3, <1>5, <2>1, TerminalAssumption
  <1>7. StringLen(buf) = l
    <2>1. PICK b : /\ b = StringLen(buf) /\ b \in Terminated(buf)
                   /\ \A c \in Terminated(buf) : b <= c
      BY <1>6 DEF StringLen
    <2>2. b <= l /\ l <= b /\ b \in Int
      BY <1>5, <1>6, <2>1
    <2> QED BY <2>1, <2>2
  <1>8. [k \in 1 .. l |-> buf[k - 1]] = typed
    <2>1. typed = [k \in 1 .. l |-> typed[k]]
      BY <1>1 DEF LineInv, TerminalTypeOK
    <2> QED BY <1>4, <2>1
  <1> QED BY <1>1, <1>2, <1>6, <1>7, <1>8

(* What the next command makes of the line.                                *)
LEMMA NewlineDoes ==
    ASSUME LineInv, Newline
    PROVE  /\ argv' = Args(typed) /\ typed' = <<>> /\ input_index' = 0
           /\ dirs' \ dirs \subseteq shell_execute(Args(typed))
           /\ input_buffer' \in [0 .. BufferSize - 1 -> Typable \cup {"nul"}]
  <1> DEFINE ended == Ended(input_buffer)
             line == [k \in 1 .. StringLen(ended) |-> ended[k - 1]]
  <1>1. /\ input_buffer' = Cut(line, ended) /\ argv' = Args(line)
        /\ input_index' = 0 /\ typed' = <<>>
        /\ \E made \in SUBSET shell_execute(argv') : dirs' = dirs \cup made
    BY DEF Newline
  <1>2. line = typed
    BY EndedLine
  <1>3. ended \in [0 .. BufferSize - 1 -> Typable \cup {"nul"}]
    BY TerminalAssumption DEF LineInv, TerminalTypeOK, Ended
  <1> HIDE DEF ended, line
  <1>4. Cut(line, ended) \in [0 .. BufferSize - 1 -> Typable \cup {"nul"}]
    BY <1>3 DEF Cut
  <1> QED BY <1>1, <1>2, <1>4

(* A character goes to the end of the buffer and of the line, or to        *)
(* neither when the buffer is full.                                        *)
LEMMA CharacterKeepsLine ==
    ASSUME LineInv, NEW c \in Typable, Character(c)
    PROVE  LineInv' /\ typed' # <<>>
  <1>1. PICK l \in Nat : l = Len(typed) /\ l = input_index /\ l <= BufferSize - 1
    BY DEF LineInv, TerminalTypeOK
  <1>2. CASE l < BufferSize - 1
    <2>1. /\ input_buffer' = [input_buffer EXCEPT ![l] = c] /\ input_index' = l + 1
          /\ typed' = Append(typed, c)
      BY <1>1, <1>2 DEF Character, Room
    <2>2. typed' \in Seq(Typable) /\ Len(typed') = l + 1 /\ typed' # <<>>
      BY <1>1, <2>1 DEF LineInv, TerminalTypeOK
    <2>3. \A k \in 1 .. (l + 1) : typed'[k] = IF k = l + 1 THEN c ELSE typed[k]
      BY <1>1, <2>1 DEF LineInv, TerminalTypeOK
    <2>4. \A k \in 1 .. (l + 1) : k - 1 \in 0 .. BufferSize - 1
      BY <1>2, TerminalAssumption
    <2>5. \A k \in 1 .. (l + 1) : input_buffer'[k - 1] = typed'[k]
      BY <1>1, <2>1, <2>3, <2>4 DEF LineInv, TerminalTypeOK
    <2>6. input_buffer' \in [0 .. BufferSize - 1 -> Typable \cup {"nul"}]
      BY <2>1 DEF LineInv, TerminalTypeOK
    <2> QED BY <1>2, <2>1, <2>2, <2>5, <2>6, TerminalAssumption DEF LineInv, TerminalTypeOK
  <1>3. CASE ~(l < BufferSize - 1)
    <2>1. UNCHANGED <<input_buffer, input_index, typed>>
      BY <1>1, <1>3 DEF Character, Room
    <2>2. Len(typed) # 0
      BY <1>1, <1>3, TerminalAssumption
    <2> QED BY <2>1, <2>2 DEF LineInv, TerminalTypeOK
  <1> QED BY <1>2, <1>3

(* The buffer and the line begin empty.                                    *)
LEMMA LineInvInit == TerminalInit => LineInv
  BY TerminalAssumption DEF TerminalInit, LineInv, TerminalTypeOK

(* The buffer's front stays the line typed since the last newline.         *)
LEMMA LineInvNext == LineInv /\ [TerminalNext]_terminalVars => LineInv'
  <1> SUFFICES ASSUME LineInv, [TerminalNext]_terminalVars PROVE LineInv'
    OBVIOUS
  <1>1. CASE Newline
    <2>1. /\ typed' = <<>> /\ input_index' = 0
          /\ input_buffer' \in [0 .. BufferSize - 1 -> Typable \cup {"nul"}]
      BY <1>1, NewlineDoes
    <2>2. typed' \in Seq(Typable) /\ Len(typed') = 0
      BY <2>1
    <2> QED BY <2>1, <2>2, TerminalAssumption DEF LineInv, TerminalTypeOK
  <1>2. CASE UNCHANGED terminalVars
    BY <1>2 DEF terminalVars, LineInv, TerminalTypeOK
  <1> QED BY <1>1, <1>2, CharacterKeepsLine DEF TerminalNext, terminal_input, Typable

(* A command's words are those typed since the last newline, and it makes  *)
(* no directory it did not ask for (terminal_input, shell_execute), for    *)
(* every length of the buffer and of the lines.                            *)
THEOREM TerminalWhatYouType == TerminalSpec => WhatYouType
  <1>1. ASSUME LineInv, [TerminalNext]_terminalVars, typed' = <<>>, ~UNCHANGED terminalVars
        PROVE  argv' = Args(typed) /\ dirs' \ dirs \subseteq shell_execute(Args(typed))
    <2>1. Newline
      BY <1>1, CharacterKeepsLine DEF TerminalNext, terminal_input, Typable
    <2> QED BY <1>1, <2>1, NewlineDoes
  <1>2. LineInv /\ [TerminalNext]_terminalVars =>
           [typed' = <<>> => /\ argv' = Args(typed)
                             /\ dirs' \ dirs \subseteq shell_execute(Args(typed))]_terminalVars
    BY <1>1
  <1> QED BY LineInvInit, LineInvNext, <1>2, PTL DEF TerminalSpec, WhatYouType

----------------------------------------------------------------------------
(* The installer *)

InstallerTypeOK ==
    /\ phase \in {"language", "detect", "menu", "start", "run", "complete", "exit"}
    /\ done \in 0 .. 9
    /\ phase \notin {"run", "complete"} => done = 0
    /\ phase = "complete" => done = 9
    /\ elsewhere \in BOOLEAN /\ mounted \in BOOLEAN

(* What is known after each command of the script: the partition is        *)
(* unmounted or its unmounting failed, and then so does the format; it is  *)
(* empty or the format failed; it is mounted or that failed; and if        *)
(* nothing failed the files are on it in the order they are copied.        *)
ScriptInv ==
    /\ done = 0 => failed = {}
    /\ done >= 1 => (elsewhere <=> "umount" \in failed)
    /\ done >= 2 /\ "umount" \in failed => "format" \in failed
    /\ done < 2 => disk \subseteq {"old"}
    /\ done >= 2 /\ "format" \notin failed => "old" \notin disk
    /\ done < 4 => ~mounted /\ "mount" \notin failed
    /\ done \in 4 .. 8 => (mounted <=> "mount" \notin failed)
    /\ done <= 4 => host = {}
    /\ host # {} => "mount" \in failed
    /\ failed = {} =>
          /\ done \in 2 .. 4 => disk = {}
          /\ done = 5 => disk = {"system"}
          /\ done = 6 => disk = {"system", "boot"}
          /\ done = 7 => disk = {"system", "boot", "hostname"}
          /\ done >= 8 => /\ disk = {"system", "boot", "hostname", "language"}
                          /\ language = idioma_seleccionado
          /\ done = 9 => ~mounted

InstallerInv == InstallerTypeOK /\ ScriptInv

(* The installation begins with the menus, nothing mounted and nothing     *)
(* done.                                                                   *)
LEMMA InstallerInvInit == InstallerInit => InstallerInv
  <1> SUFFICES ASSUME InstallerInit PROVE InstallerInv
    OBVIOUS
  <1>1. /\ phase = "language" /\ done = 0 /\ disk \subseteq {"old"} /\ host = {}
        /\ elsewhere \in BOOLEAN /\ ~mounted /\ failed = {}
    BY DEF InstallerInit
  <1>2. InstallerTypeOK
    <2>1. mounted \in BOOLEAN
      BY Zenon DEF InstallerInit
    <2> QED BY <1>1, <2>1 DEF InstallerTypeOK
  <1>3. ScriptInv
    BY <1>1 DEF ScriptInv
  <1> QED BY <1>2, <1>3 DEF InstallerInv

(* The commands in their order.                                            *)
LEMMA ScriptIs ==
    /\ Len(Script) = 9
    /\ done = 0 => Command = "umount"
    /\ done = 1 => Command = "format"
    /\ done = 2 => Command = "mkdir"
    /\ done = 3 => Command = "mount"
    /\ done = 4 => Command = "copy"
    /\ done = 5 => Command = "grub"
    /\ done = 6 => Command = "hostname"
    /\ done = 7 => Command = "language"
    /\ done = 8 => Command = "unmount"
  BY DEF Script, Command

(* A command that succeeds leaves what the completed ones promise.         *)
LEMMA SuccessKeepsInv ==
    ASSUME InstallerInv, CommandSucceeds
    PROVE  InstallerInv'
  <1>1. /\ phase = "run" /\ phase' = phase /\ done \in 0 .. 8 /\ done' = done + 1
        /\ Possible(Command) /\ Effect(Command) /\ failed' = failed
        /\ idioma_seleccionado' = idioma_seleccionado
    BY ScriptIs DEF CommandSucceeds, menus, InstallerInv, InstallerTypeOK
  <1>2. elsewhere \in BOOLEAN /\ mounted \in BOOLEAN
    BY DEF InstallerInv, InstallerTypeOK
  <1>3. elsewhere' \in BOOLEAN /\ mounted' \in BOOLEAN
    BY <1>1 DEF Effect
  <1>4. InstallerTypeOK'
    BY <1>1, <1>3 DEF InstallerTypeOK
  <1>5. ScriptInv
    BY DEF InstallerInv
  <1>6. ASSUME done = 0 PROVE ScriptInv'
    <2>1. Command = "umount"
      BY <1>6, ScriptIs
    <2> QED BY <1>1, <1>2, <1>5, <1>6, <2>1 DEF Effect, Put, Possible, ScriptInv
  <1>7. ASSUME done = 1 PROVE ScriptInv'
    <2>1. Command = "format"
      BY <1>7, ScriptIs
    <2> QED BY <1>1, <1>2, <1>5, <1>7, <2>1 DEF Effect, Put, Possible, ScriptInv
  <1>8. ASSUME done = 2 PROVE ScriptInv'
    <2>1. Command = "mkdir"
      BY <1>8, ScriptIs
    <2> QED BY <1>1, <1>2, <1>5, <1>8, <2>1 DEF Effect, Put, Possible, ScriptInv
  <1>9. ASSUME done = 3 PROVE ScriptInv'
    <2>1. Command = "mount"
      BY <1>9, ScriptIs
    <2>2. mounted' = TRUE /\ elsewhere' = elsewhere /\ disk' = disk /\ host' = host
      BY <1>1, <1>2, <2>1 DEF Effect
    <2>3. done' = 4 /\ failed' = failed /\ "mount" \notin failed
      BY <1>1, <1>5, <1>9 DEF ScriptInv
    <2> QED BY <1>5, <1>9, <2>2, <2>3 DEF ScriptInv
  <1>10. ASSUME done = 4 PROVE ScriptInv'
    <2>1. Command = "copy"
      BY <1>10, ScriptIs
    <2> QED BY <1>1, <1>2, <1>5, <1>10, <2>1 DEF Effect, Put, Possible, ScriptInv
  <1>11. ASSUME done = 5 PROVE ScriptInv'
    <2>1. Command = "grub"
      BY <1>11, ScriptIs
    <2> QED BY <1>1, <1>2, <1>5, <1>11, <2>1 DEF Effect, Put, Possible, ScriptInv
  <1>12. ASSUME done = 6 PROVE ScriptInv'
    <2>1. Command = "hostname"
      BY <1>12, ScriptIs
    <2> QED BY <1>1, <1>2, <1>5, <1>12, <2>1 DEF Effect, Put, Possible, ScriptInv
  <1>13. ASSUME done = 7 PROVE ScriptInv'
    <2>1. Command = "language"
      BY <1>13, ScriptIs
    <2> QED BY <1>1, <1>2, <1>5, <1>13, <2>1 DEF Effect, Put, Possible, ScriptInv
  <1>14. ASSUME done = 8 PROVE ScriptInv'
    <2>1. Command = "unmount"
      BY <1>14, ScriptIs
    <2> QED BY <1>1, <1>2, <1>5, <1>14, <2>1 DEF Effect, Put, Possible, ScriptInv
  <1>15. ScriptInv'
    BY <1>1, <1>6, <1>7, <1>8, <1>9, <1>10, <1>11, <1>12, <1>13, <1>14
  <1> QED BY <1>4, <1>15 DEF InstallerInv

(* A command that fails, at once or half-way, is remembered, and leaves    *)
(* what the others promise.                                                *)
LEMMA FailureKeepsInv ==
    ASSUME InstallerInv, CommandFails
    PROVE  InstallerInv'
  <1>1. /\ phase = "run" /\ phase' = phase /\ done \in 0 .. 8 /\ done' = done + 1
        /\ failed' = IF Command = "umount" /\ ~elsewhere THEN failed ELSE failed \cup {Command}
        /\ UNCHANGED <<elsewhere, mounted, idioma_seleccionado>>
        /\ UNCHANGED <<disk, host, language>> \/ HalfDone(Command)
    BY ScriptIs DEF CommandFails, HalfDone, menus, target, InstallerInv, InstallerTypeOK
  <1>2. elsewhere \in BOOLEAN /\ mounted \in BOOLEAN
    BY DEF InstallerInv, InstallerTypeOK
  <1>3. InstallerTypeOK'
    BY <1>1, <1>2 DEF InstallerTypeOK
  <1>4. ScriptInv
    BY DEF InstallerInv
  <1>5. ASSUME done = 0 PROVE ScriptInv'
    <2>1. Command = "umount"
      BY <1>5, ScriptIs
    <2> QED BY <1>1, <1>2, <1>4, <1>5, <2>1 DEF HalfDone, Put, ScriptInv
  <1>6. ASSUME done = 1 PROVE ScriptInv'
    <2>1. Command = "format"
      BY <1>6, ScriptIs
    <2> QED BY <1>1, <1>2, <1>4, <1>6, <2>1 DEF HalfDone, Put, ScriptInv
  <1>7. ASSUME done = 2 PROVE ScriptInv'
    <2>1. Command = "mkdir"
      BY <1>7, ScriptIs
    <2> QED BY <1>1, <1>2, <1>4, <1>7, <2>1 DEF HalfDone, Put, ScriptInv
  <1>8. ASSUME done = 3 PROVE ScriptInv'
    <2>1. Command = "mount"
      BY <1>8, ScriptIs
    <2> QED BY <1>1, <1>2, <1>4, <1>8, <2>1 DEF HalfDone, Put, ScriptInv
  <1>9. ASSUME done = 4 PROVE ScriptInv'
    <2>1. Command = "copy"
      BY <1>9, ScriptIs
    <2> QED BY <1>1, <1>2, <1>4, <1>9, <2>1 DEF HalfDone, Put, ScriptInv
  <1>10. ASSUME done = 5 PROVE ScriptInv'
    <2>1. Command = "grub"
      BY <1>10, ScriptIs
    <2> QED BY <1>1, <1>2, <1>4, <1>10, <2>1 DEF HalfDone, Put, ScriptInv
  <1>11. ASSUME done = 6 PROVE ScriptInv'
    <2>1. Command = "hostname"
      BY <1>11, ScriptIs
    <2> QED BY <1>1, <1>2, <1>4, <1>11, <2>1 DEF HalfDone, Put, ScriptInv
  <1>12. ASSUME done = 7 PROVE ScriptInv'
    <2>1. Command = "language"
      BY <1>12, ScriptIs
    <2> QED BY <1>1, <1>2, <1>4, <1>12, <2>1 DEF HalfDone, Put, ScriptInv
  <1>13. ASSUME done = 8 PROVE ScriptInv'
    <2>1. Command = "unmount"
      BY <1>13, ScriptIs
    <2> QED BY <1>1, <1>2, <1>4, <1>13, <2>1 DEF HalfDone, Put, ScriptInv
  <1>14. ScriptInv'
    BY <1>1, <1>5, <1>6, <1>7, <1>8, <1>9, <1>10, <1>11, <1>12, <1>13
  <1> QED BY <1>3, <1>14 DEF InstallerInv

(* Menus, detection and commands keep the invariant.                       *)
LEMMA InstallerInvNext == InstallerInv /\ [InstallerNext]_installerVars => InstallerInv'
  <1> SUFFICES ASSUME InstallerInv, [InstallerNext]_installerVars PROVE InstallerInv'
    OBVIOUS
  <1> USE DEF InstallerInv, InstallerTypeOK, menus, target
  <1>1. CASE pantalla_idioma
    <2>1. /\ phase = "language" /\ phase' \in {"detect", "language"}
          /\ UNCHANGED <<done, elsewhere, mounted, disk, host, language, failed>>
      BY <1>1 DEF pantalla_idioma
    <2>2. done = 0
      BY <2>1
    <2> QED BY <2>1, <2>2 DEF ScriptInv
  <1>2. CASE detect_operating_systems("detect", "menu") \/ detect_operating_systems("start", "run")
    BY <1>2 DEF detect_operating_systems, ScriptInv
  <1>3. CASE ChooseInstall \/ ChooseExit
    BY <1>3 DEF ChooseInstall, ChooseExit, ScriptInv
  <1>4. CASE Complete
    BY <1>4, ScriptIs DEF Complete, ScriptInv
  <1>5. CASE Exited \/ UNCHANGED installerVars
    BY <1>5 DEF Exited, installerVars, ScriptInv
  <1> QED BY <1>1, <1>2, <1>3, <1>4, <1>5, SuccessKeepsInv, FailureKeepsInv DEF InstallerNext

(* What "Installation complete!" is worth (start_installation): whatever   *)
(* commands fail, and whatever the disk held before.                       *)
THEOREM InstallerWhole == InstallerSpec => []WholeUnlessFailed
  <1>1. InstallerInv => WholeUnlessFailed
    BY DEF InstallerInv, InstallerTypeOK, ScriptInv, WholeUnlessFailed
  <1> QED BY InstallerInvInit, InstallerInvNext, <1>1, PTL DEF InstallerSpec

----------------------------------------------------------------------------
(* The logical kernel *)

CallRecords == [by : {"caller", "boot", "run"}, object : Nat]

KernelTypeOK == /\ apps \in [AppNames -> Nat] /\ objects \in Nat
                /\ calls \in Seq(CallRecords)
                /\ walk \in {"no", "listeners", "loop", "over"}
                /\ booted <=> walk # "no"

(* boot is called once, and what it calls lies right upon it.              *)
Nested == /\ \A k \in 1 .. Len(calls) : calls[k] = BootCall => walk \in {"listeners", "loop"}
          /\ \A k \in 1 .. Len(calls), l \in 1 .. Len(calls) :
                calls[k] = BootCall /\ calls[l] = BootCall => k = l
          /\ \A k \in 1 .. Len(calls) : calls[k].by = "boot" => k > 1 /\ calls[k - 1] = BootCall

(* boot is in the init of this object *)
InItsInit(o) == \E k \in 1 .. Len(calls) : calls[k] = InitCall("boot", o)

(* What was initialised is marked as running, or boot will mark it when    *)
(* its init returns; and in boot's loop what is due was initialised or is  *)
(* still to be visited.                                                    *)
Marked == /\ runningApps \subseteq once
          /\ \A o \in once : o \in runningApps \/ InItsInit(o)
          /\ \A k \in 1 .. Len(calls) : calls[k].by = "boot" => calls[k].object \in once
          /\ unvisited \subseteq {n \in AppNames : apps[n] # 0}
          /\ walk = "loop" => \A o \in due : o \in once \/ \E n \in unvisited : apps[n] = o

KernelInv == KernelTypeOK /\ Nested /\ Marked /\ InitOnce

(* Nothing is registered, running or being booted.                         *)
LEMMA KernelInvInit == KernelInit => KernelInv
  <1> SUFFICES ASSUME KernelInit PROVE KernelInv
    OBVIOUS
  <1>1. KernelTypeOK
    BY DEF KernelInit, KernelTypeOK
  <1>2. Len(calls) = 0
    BY DEF KernelInit
  <1> QED BY <1>1, <1>2 DEF KernelInit, KernelInv, Nested, Marked, InitOnce

(* While boot itself is on top, nothing it has called is under way.        *)
LEMMA NothingUponBoot ==
    ASSUME KernelTypeOK, Nested, InBoot
    PROVE  \A k \in 1 .. Len(calls) : calls[k].by # "boot"
  <1>1. Len(calls) \in Nat \ {0} /\ calls[Len(calls)] = BootCall
    BY DEF InBoot, KernelTypeOK
  <1>2. ASSUME NEW k \in 1 .. Len(calls), calls[k].by = "boot" PROVE FALSE
    <2>1. k - 1 \in 1 .. Len(calls) /\ calls[k - 1] = BootCall
      BY <1>1, <1>2 DEF Nested
    <2>2. k - 1 = Len(calls)
      BY <1>1, <2>1 DEF Nested
    <2> QED BY <1>1, <2>2
  <1> QED BY <1>2

(* While boot itself has control no application is inside its init.        *)
LEMMA NoneInItsInit ==
    ASSUME KernelTypeOK, Nested, InBoot, NEW o
    PROVE  ~InItsInit(o)
  BY NothingUponBoot DEF InItsInit, InitCall

(* A call is pushed upon the others, and popped off them.                  *)
LEMMA CallPushed ==
    ASSUME KernelTypeOK, NEW c \in CallRecords, calls' = Append(calls, c)
    PROVE  /\ calls' \in Seq(CallRecords) /\ Len(calls') = Len(calls) + 1 /\ Len(calls) \in Nat
           /\ calls'[Len(calls) + 1] = c
           /\ \A k \in 1 .. Len(calls) : calls'[k] = calls[k]
  BY DEF KernelTypeOK

(* A return takes the newest call off the stack and leaves the others.     *)
LEMMA CallPopped ==
    ASSUME KernelTypeOK, calls # <<>>, calls' = SubSeq(calls, 1, Len(calls) - 1)
    PROVE  /\ calls' \in Seq(CallRecords) /\ Len(calls') = Len(calls) - 1
           /\ Len(calls) \in Nat \ {0}
           /\ \A k \in 1 .. (Len(calls) - 1) : calls'[k] = calls[k]
  <1>1. PICK cs \in Seq(CallRecords), l \in Nat \ {0} : cs = calls /\ l = Len(cs)
    BY DEF KernelTypeOK
  <1>2. /\ SubSeq(cs, 1, l - 1) \in Seq(CallRecords) /\ Len(SubSeq(cs, 1, l - 1)) = l - 1
        /\ \A k \in 1 .. (l - 1) : SubSeq(cs, 1, l - 1)[k] = cs[k]
    BY <1>1
  <1> QED BY <1>1, <1>2

(* What stays when a call is pushed.                                       *)
LEMMA PushKeepsNested ==
    ASSUME KernelInv, NEW c \in CallRecords, calls' = Append(calls, c),
           walk' \in {"listeners", "loop"} \/ walk' = walk,
           c = BootCall => walk = "no" /\ walk' = "listeners",
           c.by = "boot" => InBoot
    PROVE  Nested' /\ \A o : InItsInit(o) => InItsInit(o)'
  <1>1. PICK l \in Nat : /\ l = Len(calls) /\ Len(calls') = l + 1 /\ calls'[l + 1] = c
                         /\ \A k \in 1 .. l : calls'[k] = calls[k]
    BY CallPushed DEF KernelInv
  <1>2. KernelTypeOK /\ Nested
    BY DEF KernelInv
  <1>3. c.by = "boot" => l > 0 /\ calls[l] = BootCall
    BY <1>1, <1>2 DEF InBoot, KernelTypeOK
  <1>4. c = BootCall => \A k \in 1 .. l : calls[k] # BootCall
    BY <1>1, <1>2 DEF Nested
  <1>5. \A k \in 1 .. (l + 1) : k = l + 1 \/ k \in 1 .. l
    OBVIOUS
  <1>6. \A k \in 1 .. (l + 1) : calls'[k] = BootCall => walk' \in {"listeners", "loop"}
    BY <1>1, <1>2, <1>5 DEF Nested
  <1>7. \A k \in 1 .. (l + 1), j \in 1 .. (l + 1) :
           calls'[k] = BootCall /\ calls'[j] = BootCall => k = j
    BY <1>1, <1>2, <1>4, <1>5 DEF Nested
  <1>8. ASSUME NEW k \in 1 .. (l + 1), calls'[k].by = "boot"
        PROVE  k > 1 /\ calls'[k - 1] = BootCall
    <2>1. CASE k = l + 1
      <3>1. l > 0 /\ calls[l] = BootCall /\ k - 1 = l
        BY <1>1, <1>3, <1>8, <2>1
      <3> QED BY <1>1, <3>1
    <2>2. CASE k # l + 1
      <3>1. k \in 1 .. l /\ calls[k].by = "boot"
        BY <1>1, <1>8, <2>2
      <3>2. k > 1 /\ calls[k - 1] = BootCall /\ k - 1 \in 1 .. l
        BY <1>1, <1>2, <3>1 DEF Nested
      <3> QED BY <1>1, <3>2
    <2> QED BY <2>1, <2>2
  <1>9. \A o : InItsInit(o) => InItsInit(o)'
    BY <1>1, <1>5 DEF InItsInit, InitCall
  <1> QED BY <1>1, <1>6, <1>7, <1>8, <1>9 DEF Nested

(* What stays when the innermost call returns.                             *)
LEMMA PopKeepsNested ==
    ASSUME KernelInv, calls # <<>>, calls' = SubSeq(calls, 1, Len(calls) - 1),
           walk' # walk => InBoot
    PROVE  /\ Nested'
           /\ \A o : InItsInit(o) =>
                 \/ InItsInit(o)'
                 \/ calls[Len(calls)].by = "boot" /\ calls[Len(calls)].object = o
  <1>1. PICK l \in Nat \ {0} : /\ l = Len(calls) /\ Len(calls') = l - 1
                               /\ \A k \in 1 .. (l - 1) : calls'[k] = calls[k]
    BY CallPopped DEF KernelInv
  <1>2. KernelTypeOK /\ Nested
    BY DEF KernelInv
  <1>3. \A k \in 1 .. (l - 1) : k \in 1 .. l
    OBVIOUS
  <1>4. ASSUME NEW k \in 1 .. (l - 1), calls'[k] = BootCall
        PROVE  walk' \in {"listeners", "loop"}
    <2>1. calls[k] = BootCall /\ k # l
      BY <1>1, <1>4
    <2>2. ~InBoot
      BY <1>1, <1>2, <1>3, <2>1 DEF InBoot, Nested
    <2> QED BY <1>1, <1>2, <1>3, <2>1, <2>2 DEF Nested
  <1>5. \A k \in 1 .. (l - 1), j \in 1 .. (l - 1) :
           calls'[k] = BootCall /\ calls'[j] = BootCall => k = j
    BY <1>1, <1>2, <1>3 DEF Nested
  <1>6. ASSUME NEW k \in 1 .. (l - 1), calls'[k].by = "boot"
        PROVE  k > 1 /\ calls'[k - 1] = BootCall
    <2>1. k > 1 /\ calls[k - 1] = BootCall
      BY <1>1, <1>2, <1>3, <1>6 DEF Nested
    <2>2. k - 1 \in 1 .. (l - 1)
      BY <2>1
    <2> QED BY <1>1, <2>1, <2>2
  <1>7. ASSUME NEW o, InItsInit(o)
        PROVE  InItsInit(o)' \/ (calls[l].by = "boot" /\ calls[l].object = o)
    <2>1. PICK k \in 1 .. l : calls[k] = InitCall("boot", o)
      BY <1>1, <1>7 DEF InItsInit
    <2>2. CASE k = l
      BY <2>1, <2>2 DEF InitCall
    <2>3. CASE k # l
      BY <1>1, <2>1, <2>3 DEF InItsInit, InitCall
    <2> QED BY <2>2, <2>3
  <1> QED BY <1>1, <1>4, <1>5, <1>6, <1>7 DEF Nested

(* What the two kinds of calls on the stack are made of.                   *)
LEMMA CallsAre ==
    /\ BootCall \in CallRecords /\ BootCall.by = "caller"
    /\ \A o \in Nat, b \in {"boot", "run"} :
          /\ InitCall(b, o) \in CallRecords
          /\ InitCall(b, o).by = b /\ InitCall(b, o).object = o
  BY DEF BootCall, InitCall, CallRecords

(* A registration makes an object nobody has initialised.                  *)
LEMMA RegisterKeepsKernel ==
    ASSUME KernelInv, NEW n \in AppNames, registerApp(n)
    PROVE  KernelInv'
  <1>1. PICK o \in Nat : o = objects + 1 /\ o # 0
    BY DEF KernelInv, KernelTypeOK
  <1>2. /\ apps' = [apps EXCEPT ![n] = o] /\ objects' = o
        /\ due' = (IF walk = "loop" THEN {} ELSE due)
        /\ UNCHANGED <<runningApps, booted, calls, walk, once, twice, reentered>>
        /\ unvisited' \subseteq {m \in AppNames : apps'[m] # 0} \/ unvisited' = unvisited
    BY <1>1 DEF registerApp
  <1>3. KernelTypeOK'
    BY <1>2 DEF KernelInv, KernelTypeOK
  <1>4. unvisited' \subseteq {m \in AppNames : apps'[m] # 0}
    BY <1>1, <1>2 DEF KernelInv, KernelTypeOK, Marked
  <1>5. Nested' /\ \A x : InItsInit(x)' = InItsInit(x)
    BY <1>2 DEF KernelInv, Nested, InItsInit
  <1>6. Marked'
    BY <1>2, <1>4, <1>5 DEF KernelInv, Marked
  <1>7. InitOnce'
    BY <1>2 DEF KernelInv, InitOnce
  <1> QED BY <1>3, <1>5, <1>6, <1>7 DEF KernelInv

(* An object that is run marks itself first; if it was initialised before  *)
(* it is one whose init boot is in.                                        *)
LEMMA RunKeepsKernel ==
    ASSUME KernelInv, NEW n \in AppNames, runApp(n)
    PROVE  KernelInv'
  <1>1. PICK o \in Nat : o = apps[n]
    BY DEF KernelInv, KernelTypeOK
  <1>2. PICK c \in CallRecords : c = InitCall("run", o) /\ c.by = "run"
    BY CallsAre
  <1>3. /\ o \notin runningApps /\ runningApps' = runningApps \cup {o}
        /\ calls' = Append(calls, c) /\ once' = once \cup {o}
        /\ twice' = IF o \in once THEN twice \cup {o} ELSE twice
        /\ UNCHANGED <<apps, objects, booted, walk, unvisited, due>>
    BY <1>1, <1>2 DEF runApp, MarkedFirst, Initialise
  <1>4. reentered \subseteq reentered' /\ (InItsInit(o) => o \in reentered')
    <2>1. DOMAIN calls = 1 .. Len(calls)
      BY DEF KernelInv, KernelTypeOK
    <2> QED BY <1>1, <2>1 DEF runApp, InItsInit
  <1>5. c # BootCall
    BY <1>2 DEF BootCall
  <1>6. Nested' /\ \A x : InItsInit(x) => InItsInit(x)'
    BY <1>2, <1>3, <1>5, PushKeepsNested
  <1>7. KernelTypeOK'
    <2>1. calls' \in Seq(CallRecords)
      BY <1>3, CallPushed DEF KernelInv
    <2> QED BY <1>3, <2>1 DEF KernelInv, KernelTypeOK
  <1>8. \A k \in 1 .. Len(calls') : calls'[k].by = "boot" => calls'[k].object \in once'
    <2>1. /\ Len(calls') = Len(calls) + 1 /\ Len(calls) \in Nat /\ calls'[Len(calls) + 1] = c
          /\ \A k \in 1 .. Len(calls) : calls'[k] = calls[k]
      BY <1>3, CallPushed DEF KernelInv
    <2>2. \A k \in 1 .. Len(calls') : k = Len(calls) + 1 \/ k \in 1 .. Len(calls)
      BY <2>1
    <2> QED BY <1>2, <1>3, <2>1, <2>2 DEF KernelInv, Marked
  <1>9. Marked'
    BY <1>3, <1>6, <1>8 DEF KernelInv, Marked
  <1>10. InitOnce'
    BY <1>3, <1>4 DEF KernelInv, InitOnce, Marked
  <1> QED BY <1>6, <1>7, <1>9, <1>10 DEF KernelInv

(* A call of boot, the first or a repeated one, keeps the invariant.       *)
LEMMA BootKeepsKernel ==
    ASSUME KernelInv, boot
    PROVE  KernelInv'
  <1>1. PICK c \in CallRecords : c = BootCall /\ c.by = "caller"
    BY CallsAre
  <1>2. /\ walk = "no" /\ walk' = "listeners" /\ booted' = TRUE /\ calls' = Append(calls, c)
        /\ UNCHANGED <<apps, objects, runningApps, unvisited, once, twice, reentered, due>>
    BY <1>1 DEF boot, KernelInv, KernelTypeOK
  <1>3. Nested' /\ \A o : InItsInit(o) => InItsInit(o)'
    BY <1>1, <1>2, PushKeepsNested
  <1>4. /\ calls' \in Seq(CallRecords) /\ Len(calls') = Len(calls) + 1 /\ Len(calls) \in Nat
        /\ calls'[Len(calls) + 1] = c /\ \A k \in 1 .. Len(calls) : calls'[k] = calls[k]
    BY <1>2, CallPushed DEF KernelInv
  <1>5. \A k \in 1 .. Len(calls') : k = Len(calls) + 1 \/ k \in 1 .. Len(calls)
    BY <1>4
  <1>6. Marked'
    BY <1>1, <1>2, <1>3, <1>4, <1>5 DEF KernelInv, Marked
  <1>7. KernelTypeOK'
    BY <1>2, <1>4 DEF KernelInv, KernelTypeOK
  <1>8. InitOnce'
    BY <1>2 DEF KernelInv, InitOnce
  <1> QED BY <1>3, <1>6, <1>7, <1>8 DEF KernelInv

(* boot's loop passes over what runs, and calls the init of the others,    *)
(* none of which was initialised before.                                   *)
LEMMA VisitKeepsKernel ==
    ASSUME KernelInv, NEW n \in AppNames, Visit(n)
    PROVE  KernelInv'
  <1>1. PICK o \in Nat : o = apps[n]
    BY DEF KernelInv, KernelTypeOK
  <1>2. /\ InBoot /\ walk = "loop" /\ unvisited' = unvisited \ {n}
        /\ UNCHANGED <<apps, objects, runningApps, booted, walk, reentered, due>>
    BY DEF Visit
  <1>3. CASE o \in runningApps
    <2>1. UNCHANGED <<calls, once, twice>>
      BY <1>1, <1>3 DEF Visit
    <2>2. KernelTypeOK' /\ Nested' /\ InitOnce' /\ \A x : InItsInit(x)' = InItsInit(x)
      BY <1>2, <2>1 DEF KernelInv, KernelTypeOK, Nested, InitOnce, InItsInit
    <2>3. \A x \in due : x \in once \/ \E m \in unvisited' : apps[m] = x
      BY <1>1, <1>2, <1>3 DEF KernelInv, Marked
    <2> QED BY <1>2, <2>1, <2>2, <2>3 DEF KernelInv, Marked
  <1>4. CASE o \notin runningApps
    <2>1. PICK c \in CallRecords : c = InitCall("boot", o) /\ c.by = "boot" /\ c.object = o
      BY CallsAre
    <2>2. /\ calls' = Append(calls, c) /\ once' = once \cup {o}
          /\ twice' = IF o \in once THEN twice \cup {o} ELSE twice
      BY <1>1, <1>4, <2>1 DEF Visit, Initialise
    <2>3. o \notin once
      BY <1>2, <1>4, NoneInItsInit DEF KernelInv, Marked
    <2>4. c # BootCall
      BY <2>1 DEF BootCall
    <2>5. Nested' /\ \A x : InItsInit(x) => InItsInit(x)'
      BY <1>2, <2>1, <2>2, <2>4, PushKeepsNested
    <2>6. /\ calls' \in Seq(CallRecords) /\ Len(calls') = Len(calls) + 1 /\ Len(calls) \in Nat
          /\ calls'[Len(calls) + 1] = c /\ \A k \in 1 .. Len(calls) : calls'[k] = calls[k]
      BY <2>2, CallPushed DEF KernelInv
    <2>7. \A k \in 1 .. Len(calls') : k = Len(calls) + 1 \/ k \in 1 .. Len(calls)
      BY <2>6
    <2>8. \A k \in 1 .. Len(calls') : calls'[k].by = "boot" => calls'[k].object \in once'
      BY <2>1, <2>2, <2>6, <2>7 DEF KernelInv, Marked
    <2>9. InItsInit(o)'
      BY <2>1, <2>6 DEF InItsInit, InitCall
    <2>10. \A x \in due : x \in once' \/ \E m \in unvisited' : apps[m] = x
      BY <1>1, <1>2, <2>2 DEF KernelInv, Marked
    <2>11. Marked'
      BY <1>2, <2>2, <2>5, <2>8, <2>9, <2>10 DEF KernelInv, Marked
    <2>12. KernelTypeOK' /\ InitOnce'
      BY <1>2, <2>2, <2>3, <2>6 DEF KernelInv, KernelTypeOK, InitOnce
    <2> QED BY <2>5, <2>11, <2>12 DEF KernelInv
  <1> QED BY <1>3, <1>4

(* An init's return ends the call, and nothing else.                       *)
LEMMA ReturnKeepsKernel ==
    ASSUME KernelInv, InitReturns
    PROVE  KernelInv'
  <1>1. /\ calls # <<>> /\ calls' = SubSeq(calls, 1, Len(calls) - 1)
        /\ UNCHANGED <<apps, objects, booted, walk, unvisited, once, twice, reentered, due>>
    BY DEF InitReturns
  <1>2. PICK l \in Nat \ {0} : /\ l = Len(calls) /\ Len(calls') = l - 1
                               /\ calls' \in Seq(CallRecords)
                               /\ \A k \in 1 .. (l - 1) : calls'[k] = calls[k]
    BY <1>1, CallPopped DEF KernelInv
  <1>3. runningApps' = IF calls[l].by = "boot" THEN runningApps \cup {calls[l].object} ELSE runningApps
    BY <1>2 DEF InitReturns
  <1>4. /\ Nested'
        /\ \A o : InItsInit(o) => InItsInit(o)' \/ (calls[l].by = "boot" /\ calls[l].object = o)
    BY <1>1, <1>2, PopKeepsNested
  <1>5. calls[l].by = "boot" => calls[l].object \in once
    BY <1>2 DEF KernelInv, Marked
  <1>6. \A k \in 1 .. Len(calls') : k \in 1 .. l /\ calls'[k] = calls[k]
    BY <1>2
  <1>7. Marked'
    BY <1>1, <1>2, <1>3, <1>4, <1>5, <1>6 DEF KernelInv, Marked
  <1>8. KernelTypeOK' /\ InitOnce'
    BY <1>1, <1>2, <1>3 DEF KernelInv, KernelTypeOK, InitOnce
  <1> QED BY <1>4, <1>7, <1>8 DEF KernelInv

(* When boot's loop is over everything due was initialised, and no init is *)
(* under way that boot has still to mark.                                  *)
LEMMA BootReturnKeepsKernel ==
    ASSUME KernelInv, BootReturns
    PROVE  KernelInv'
  <1>1. /\ InBoot /\ walk = "loop" /\ unvisited = {} /\ walk' = "over"
        /\ calls # <<>> /\ calls' = SubSeq(calls, 1, Len(calls) - 1)
        /\ UNCHANGED <<apps, objects, runningApps, booted, unvisited, once, twice, reentered, due>>
    BY DEF BootReturns, InBoot
  <1>2. PICK l \in Nat \ {0} : /\ l = Len(calls) /\ Len(calls') = l - 1
                               /\ calls' \in Seq(CallRecords)
                               /\ \A k \in 1 .. (l - 1) : calls'[k] = calls[k]
    BY <1>1, CallPopped DEF KernelInv
  <1>3. Nested'
    BY <1>1, PopKeepsNested
  <1>4. \A o : ~InItsInit(o)
    BY <1>1, NoneInItsInit DEF KernelInv
  <1>5. once \subseteq runningApps /\ due \subseteq once
    BY <1>1, <1>4 DEF KernelInv, Marked
  <1>6. \A k \in 1 .. Len(calls') : k \in 1 .. l /\ calls'[k] = calls[k]
    BY <1>2
  <1>7. Marked'
    BY <1>1, <1>2, <1>5, <1>6 DEF KernelInv, Marked
  <1>8. KernelTypeOK' /\ InitOnce'
    BY <1>1, <1>2, <1>5 DEF KernelInv, KernelTypeOK, InitOnce
  <1> QED BY <1>3, <1>7, <1>8 DEF KernelInv

(* Every call, return and step of boot's loop keeps the invariant.         *)
LEMMA KernelInvNext == KernelInv /\ [KernelNext]_kernelVars => KernelInv'
  <1> SUFFICES ASSUME KernelInv, [KernelNext]_kernelVars PROVE KernelInv'
    OBVIOUS
  <1>1. CASE EmitEnds
    <2>1. /\ walk = "listeners" /\ walk' = "loop"
          /\ unvisited' = {n \in AppNames : apps[n] # 0}
          /\ due' = {apps[n] : n \in unvisited'}
          /\ UNCHANGED <<apps, objects, runningApps, booted, calls, once, twice, reentered>>
      BY <1>1 DEF EmitEnds
    <2>2. KernelTypeOK' /\ InitOnce'
      BY <2>1 DEF KernelInv, KernelTypeOK, InitOnce
    <2>3. Nested' /\ \A o : InItsInit(o)' = InItsInit(o)
      BY <2>1 DEF KernelInv, Nested, InItsInit
    <2>4. Marked'
      BY <2>1, <2>3 DEF KernelInv, Marked
    <2> QED BY <2>2, <2>3, <2>4 DEF KernelInv
  <1>2. CASE KernelIdle \/ UNCHANGED kernelVars
    <2>1. UNCHANGED kernelVars
      BY <1>2 DEF KernelIdle
    <2>2. \A o : InItsInit(o)' = InItsInit(o)
      BY <2>1 DEF kernelVars, InItsInit
    <2> QED BY <2>1, <2>2 DEF kernelVars, KernelInv, KernelTypeOK, Nested, Marked, InitOnce
  <1>3. CASE InitRaises
    <2>1. KernelTypeOK'
      BY <1>3 DEF InitRaises, KernelTypeOK
    <2>2. Len(calls') = 0
      BY <1>3 DEF InitRaises
    <2> QED BY <1>3, <2>1, <2>2
            DEF InitRaises, KernelInv, Nested, Marked, InitOnce
  <1> QED BY <1>1, <1>2, <1>3, RegisterKeepsKernel, RunKeepsKernel, BootKeepsKernel,
             VisitKeepsKernel, ReturnKeepsKernel, BootReturnKeepsKernel DEF KernelNext

(* However the calls of boot, runApp and registerApp nest, nothing is      *)
(* initialised twice but what runs itself within the init boot calls, and  *)
(* boot leaves nothing out (kernel.lua), for every set of names.           *)
THEOREM KernelInitOnce == KernelSpec => []InitOnce
  <1>1. KernelInv => InitOnce
    BY DEF KernelInv
  <1> QED BY KernelInvInit, KernelInvNext, <1>1, PTL DEF KernelSpec

----------------------------------------------------------------------------
(* The desktop's lists *)

Notas == [id : Int, leida : BOOLEAN]

(* The notification centre: the list runs from the newest id down, and     *)
(* what was read or closed had no newer unread one beside it.              *)
NotesInv ==
    /\ notificaciones \in Seq(Notas) /\ idCounter \in Int
    /\ atendidaCon \in [Ids -> Int]
    /\ \A j, k \in DOMAIN notificaciones : j < k => notificaciones[k].id < notificaciones[j].id
    /\ \A k \in DOMAIN notificaciones : notificaciones[k].id <= idCounter
    /\ \A id \in Ids : atendidaCon[id] <= idCounter
    /\ \A id \in Ids, k \in DOMAIN notificaciones :
          ~notificaciones[k].leida /\ notificaciones[k].id > id
          => notificaciones[k].id > atendidaCon[id]

Selects == app \in {"gestor", "buscador"} => seleccionado \in {0, 1}

(* The search shows what its term matches, and selects nothing before a    *)
(* term was searched for.                                                  *)
FindInv ==
    /\ busqueda \in Terminos /\ resultados = Coincide[busqueda]
    /\ app = "buscador" /\ seleccionado # 0 => busqueda # ""

DeskInv == NotesInv /\ Selects /\ FindInv /\ detenidos = {}

(* The row a walk returns at is the first of those that pass.              *)
LEMMA FirstRow ==
    ASSUME NEW filas, filas \subseteq Nat, filas # {}
    PROVE  Primera(filas) \in filas /\ \A j \in filas : Primera(filas) <= j
  <1>1. \E m \in filas : \A k \in filas : m <= k
    BY LeastExists
  <1> QED BY <1>1 DEF Primera

(* The tests of a row say nothing of its y, which they compare with        *)
(* itself.                                                                 *)
LEMMA RowTests ==
    ASSUME NEW x, NEW fila \in Int
    PROVE  /\ EnX(x, fila) <=> In(x, 450, 470)
           /\ EnLeer(x, fila) <=> ~notificaciones[fila].leida /\ In(x, 420, 470)
           /\ FilaProceso(x, fila) <=> In(x, 70, 530)
           /\ Abrir(x, fila) <=> In(x, 450, 510)
           /\ Ver(x, fila) <=> In(x, 450, 510)
           /\ Resultado(x, fila) <=> In(x, 70, 530)
  <1>1. \A y \in Int : In(y, y, y + 25) /\ In(y, y, y + 55)
    BY DEF In
  <1>2. \A a, b \in Int : a + b * 0 = a
    OBVIOUS
  <1>3. PICK p \in Int, q \in Int, r \in Int :
           p = 160 + (fila - 1) * 70 /\ q = 150 + 25 + (fila - 1) * 30 /\ r = 190 + (fila - 1) * 60
    OBVIOUS
  <1>4. /\ EnX(x, fila) <=> In(x, 450, 470) /\ p + 5 >= p /\ p + 25 <= p + 25
        /\ EnLeer(x, fila) <=> /\ ~notificaciones[fila].leida
                            /\ In(x, 420, 470) /\ p + 35 >= p /\ p + 50 <= p + 50
    BY <1>3 DEF EnX, EnLeer
  <1>5. FilaProceso(x, fila) <=> In(x, 70, 530) /\ In(q, q, q + 25)
    BY <1>3 DEF FilaProceso
  <1>6. /\ Abrir(x, fila) <=> In(x, 450, 510) /\ r + 5 >= r /\ r + 25 <= r + 25
        /\ Ver(x, fila) <=> In(x, 450, 510) /\ r + 30 >= r /\ r + 50 <= r + 50
        /\ Resultado(x, fila) <=> In(x, 70, 530) /\ In(r, r, r + 55)
    BY <1>3 DEF Abrir, Ver, Resultado
  <1>7. /\ p + 5 >= p /\ p + 25 <= p + 25 /\ p + 35 >= p /\ p + 50 <= p + 50
        /\ r + 5 >= r /\ r + 25 <= r + 25 /\ r + 30 >= r /\ r + 50 <= r + 50
    BY <1>3
  <1> QED BY <1>1, <1>3, <1>4, <1>5, <1>6, <1>7

(* q is s with e put on top, and perhaps less at its end *)
OnTop(q, e, s) ==
    /\ q \in Seq(Notas)
    /\ \A k \in DOMAIN q : \/ k = 1 /\ q[k] = e
                           \/ k > 1 /\ k - 1 \in DOMAIN s /\ q[k] = s[k - 1]

(* A new entry comes first, the others move down, and one may fall off.    *)
LEMMA PushedIs ==
    ASSUME NEW s \in Seq(Notas), NEW e \in Notas, NEW max \in Nat, max # 0
    PROVE  OnTop(Pushed(s, e, max), e, s)
  <1> DEFINE q == Pushed(s, e, max)
  <1> HIDE DEF q
  <1>1. ASSUME NEW r \in Seq(Notas), q = <<e>> \o r, Len(r) <= Len(s),
               \A k \in 1 .. Len(r) : r[k] = s[k]
        PROVE  OnTop(q, e, s)
    <2>2. /\ q \in Seq(Notas) /\ DOMAIN q = 1 .. (1 + Len(r))
          /\ \A k \in 1 .. (1 + Len(r)) : q[k] = IF k = 1 THEN e ELSE r[k - 1]
      BY <1>1
    <2>3. DOMAIN s = 1 .. Len(s) /\ Len(s) \in Nat /\ Len(r) \in Nat
      OBVIOUS
    <2>4. ASSUME NEW k \in DOMAIN q, k # 1
          PROVE  k > 1 /\ k - 1 \in DOMAIN s /\ q[k] = s[k - 1]
      BY <1>1, <2>2, <2>3, <2>4
    <2> QED BY <2>2, <2>4 DEF OnTop
  <1>2. CASE Len(s) < max
    <2>1. q = <<e>> \o s
      BY <1>2 DEF Pushed, q
    <2> QED BY <1>1, <2>1 DEF q
  <1>3. CASE ~(Len(s) < max)
    <2>1. PICK r : r = SubSeq(s, 1, max - 1)
      OBVIOUS
    <2>2. \A k \in 1 .. (max - 1) : s[k] \in Notas
      BY <1>3
    <2>3. r \in Seq(Notas) /\ Len(r) = max - 1 /\ \A k \in 1 .. (max - 1) : r[k] = s[k]
      BY <1>3, <2>1, <2>2, SubSeqProperties
    <2>4. q = <<e>> \o r
      BY <1>3, <2>1 DEF Pushed, q
    <2>5. Len(r) <= Len(s)
      BY <1>3, <2>3
    <2> QED BY <1>1, <2>3, <2>4, <2>5 DEF q
  <1> QED BY <1>2, <1>3

(* Reading a notification leaves its id alone.                             *)
LEMMA NotaIs ==
    ASSUME NEW n \in Notas
    PROVE  /\ n.id \in Int /\ n.leida \in BOOLEAN
           /\ [n EXCEPT !.leida = TRUE] \in Notas
           /\ [n EXCEPT !.leida = TRUE].id = n.id
           /\ [n EXCEPT !.leida = TRUE].leida = TRUE
  BY DEF Notas

(* The ids of a list are all different, so a search for one finds the row  *)
(* it came from.                                                           *)
LEMMA OneOfEachId ==
    ASSUME NotesInv, NEW k \in DOMAIN notificaciones
    PROVE  Primera(ConId(notificaciones[k].id)) = k
  <1>1. PICK ns \in Seq(Notas) : ns = notificaciones
    BY DEF NotesInv
  <1>2. \A j \in DOMAIN ns : j \in Nat /\ ns[j].id \in Int
    <2>1. \A j \in DOMAIN ns : j \in Nat /\ ns[j] \in Notas
      OBVIOUS
    <2> QED BY <2>1, NotaIs
  <1>3. ASSUME NEW j \in DOMAIN ns, ns[j].id = ns[k].id PROVE j = k
    <2>1. ~(j < k) /\ ~(k < j)
      BY <1>1, <1>2, <1>3 DEF NotesInv
    <2> QED BY <1>1, <1>2, <2>1
  <1>4. ConId(ns[k].id) = {k}
    BY <1>1, <1>3 DEF ConId
  <1>5. Primera({k}) = k
    <2>1. {k} \subseteq Nat /\ {k} # {}
      BY <1>1, <1>2
    <2> QED BY <2>1, FirstRow
  <1> QED BY <1>1, <1>4, <1>5

(* What a click on a row does: the newest notification is closed, or the   *)
(* newest unread one is marked.                                            *)
LEMMA RowClick ==
    ASSUME NotesInv, NEW x, clickEnNotificacion(x)
    PROVE  /\ \E k \in DOMAIN notificaciones :
                 /\ \/ k = 1 /\ notificaciones' = Without(notificaciones, 1)
                    \/ /\ notificaciones' = [notificaciones EXCEPT ![k].leida = TRUE]
                       /\ \A j \in 1 .. (k - 1) : notificaciones[j].leida
                 /\ atendidaCon' = [atendidaCon EXCEPT ![notificaciones[k].id] = idCounter]
           /\ UNCHANGED idCounter
  <1> DEFINE filas == {fila \in DOMAIN notificaciones : EnX(x, fila) \/ EnLeer(x, fila)}
  <1>1. PICK k : k = Primera(filas)
    OBVIOUS
  <1>2. /\ filas # {}
        /\ IF EnX(x, k) THEN eliminarNotificacion(notificaciones[k].id)
                        ELSE marcarComoLeida(notificaciones[k].id)
        /\ Atendida(notificaciones[k].id)
    BY <1>1 DEF clickEnNotificacion
  <1>3. DOMAIN notificaciones \subseteq Nat /\ filas \subseteq Nat
    BY DEF NotesInv
  <1>4. k \in filas /\ \A j \in filas : k <= j
    BY <1>1, <1>2, <1>3, FirstRow
  <1>5. k \in DOMAIN notificaciones /\ k \in Nat
    BY <1>3, <1>4
  <1>6. Primera(ConId(notificaciones[k].id)) = k
    BY <1>5, OneOfEachId
  <1>7. DOMAIN notificaciones = 1 .. Len(notificaciones) /\ Len(notificaciones) \in Nat
    BY DEF NotesInv
  <1>8. CASE EnX(x, k)
    <2>1. 1 \in filas
      BY <1>3, <1>5, <1>7, <1>8, RowTests
    <2>2. k = 1
      BY <1>4, <1>5, <1>7, <2>1
    <2> QED BY <1>2, <1>5, <1>6, <1>8, <2>2 DEF eliminarNotificacion, Atendida
  <1>9. CASE ~EnX(x, k)
    <2>1. EnLeer(x, k)
      BY <1>4, <1>9
    <2>2. In(x, 420, 470)
      BY <1>5, <2>1, RowTests
    <2>3. ASSUME NEW j \in 1 .. (k - 1) PROVE notificaciones[j].leida
      <3>1. j \in DOMAIN notificaciones /\ j \in Int /\ ~(k <= j)
        BY <1>5, <1>7
      <3>2. ~EnLeer(x, j)
        BY <1>4, <3>1
      <3> QED BY <2>2, <3>1, <3>2, RowTests
    <2> QED BY <1>2, <1>5, <1>6, <1>9, <2>3 DEF marcarComoLeida, Atendida
  <1> QED BY <1>8, <1>9

(* A click keeps the order of the notification centre.                     *)
LEMMA NotesKept ==
    ASSUME NotesInv, NEW x, NEW y, clickNotificaciones(x, y)
    PROVE  NotesInv'
  <1>1. PICK ns \in Seq(Notas) : ns = notificaciones
    BY DEF NotesInv
  <1>2. /\ DOMAIN ns = 1 .. Len(ns) /\ Len(ns) \in Nat
        /\ \A k \in DOMAIN ns : /\ ns[k] \in Notas
                                /\ ns[k].id \in Int /\ ns[k].leida \in BOOLEAN
    <2>1. /\ DOMAIN ns = 1 .. Len(ns) /\ Len(ns) \in Nat
          /\ \A k \in DOMAIN ns : ns[k] \in Notas
      OBVIOUS
    <2> QED BY <2>1, NotaIs
  <1> DEFINE Ordered == \A j, k \in DOMAIN ns : j < k => ns[k].id < ns[j].id
             Counted == idCounter \in Int /\ \A k \in DOMAIN ns : ns[k].id <= idCounter
             NoneNewer == \A id \in Ids, k \in DOMAIN ns :
                          ~ns[k].leida /\ ns[k].id > id => ns[k].id > atendidaCon[id]
  <1>10. Ordered /\ Counted /\ NoneNewer
    BY <1>1 DEF NotesInv
  <1>3. CASE agregarNotificacion
    <2>1. PICK nueva \in Notas : nueva = Nueva(idCounter + 1) /\ nueva.id = idCounter + 1
      <3>1. [id |-> idCounter + 1, leida |-> FALSE] \in Notas
        BY DEF Notas, NotesInv
      <3> QED BY <3>1 DEF Nueva
    <2>2. MaxNotificaciones \in Nat /\ MaxNotificaciones # 0
      BY Zenon, DeskAssumption
    <2>3. PICK q : q = Pushed(ns, nueva, MaxNotificaciones)
      OBVIOUS
    <2>4. /\ q \in Seq(Notas)
          /\ \A k \in DOMAIN q : \/ k = 1 /\ q[k] = nueva
                                 \/ k > 1 /\ k - 1 \in DOMAIN ns /\ q[k] = ns[k - 1]
      <3>1. OnTop(q, nueva, ns)
        BY <2>2, <2>3, PushedIs
      <3> QED BY <3>1 DEF OnTop
    <2>5. notificaciones' = q /\ idCounter' = idCounter + 1 /\ UNCHANGED atendidaCon
      BY <1>1, <1>3, <2>1, <2>3 DEF agregarNotificacion
    <2>6. \A k \in DOMAIN q : k \in Nat
      BY <2>4
    <2>7. ASSUME NEW j \in DOMAIN q, NEW k \in DOMAIN q, j < k PROVE q[k].id < q[j].id
      <3>1. k # 1 /\ k - 1 \in DOMAIN ns /\ q[k] = ns[k - 1] /\ j \in Nat /\ k \in Nat
        BY <2>4, <2>6, <2>7
      <3>2. CASE j = 1
        <4>1. q[j] = nueva
          BY <2>4, <3>2
        <4> QED BY <1>2, <1>10, <2>1, <3>1, <4>1
      <3>3. CASE j # 1
        <4>1. j - 1 \in DOMAIN ns /\ q[j] = ns[j - 1] /\ j - 1 < k - 1
          BY <2>4, <2>7, <3>1, <3>3
        <4> QED BY <1>10, <3>1, <4>1
      <3> QED BY <3>2, <3>3
    <2>8. \A k \in DOMAIN q : q[k].id <= idCounter + 1
      BY <1>1, <1>2, <2>1, <2>4 DEF NotesInv
    <2>9. ASSUME NEW id \in Ids, NEW k \in DOMAIN q, ~q[k].leida, q[k].id > id
          PROVE  q[k].id > atendidaCon[id]
      BY <1>1, <1>2, <2>1, <2>4, <2>9 DEF NotesInv
    <2>10. \A id \in Ids : atendidaCon[id] <= idCounter + 1
      BY DEF NotesInv
    <2> QED BY <2>4, <2>5, <2>7, <2>8, <2>9, <2>10 DEF NotesInv
  <1>4. CASE notificaciones' = <<>> /\ UNCHANGED <<idCounter, atendidaCon>>
    BY <1>4 DEF NotesInv
  <1>5. CASE clickEnNotificacion(x)
    <2>1. PICK k \in DOMAIN ns :
             /\ \/ k = 1 /\ notificaciones' = Without(ns, 1)
                \/ /\ notificaciones' = [ns EXCEPT ![k].leida = TRUE]
                   /\ \A j \in 1 .. (k - 1) : ns[j].leida
             /\ atendidaCon' = [atendidaCon EXCEPT ![ns[k].id] = idCounter]
             /\ UNCHANGED idCounter
      BY <1>1, <1>5, RowClick
    <2>2. /\ atendidaCon' \in [Ids -> Int]
          /\ \A id \in Ids : atendidaCon'[id] = IF id = ns[k].id THEN idCounter ELSE atendidaCon[id]
      BY <2>1 DEF NotesInv
    <2>3. \A id \in Ids : atendidaCon'[id] <= idCounter
      BY <2>2 DEF NotesInv
    <2>4. CASE k = 1 /\ notificaciones' = Without(ns, 1)
      <3>1. /\ Without(ns, 1) = Tail(ns) /\ Tail(ns) \in Seq(Notas)
            /\ Len(Tail(ns)) = Len(ns) - 1
            /\ \A j \in 1 .. (Len(ns) - 1) : Tail(ns)[j] = ns[j + 1]
        <4>1. ns # <<>>
          BY <1>2, <2>1
        <4>2. SubSeq(ns, 1, 1 - 1) = <<>> /\ SubSeq(ns, 1 + 1, Len(ns)) = Tail(ns)
          BY <4>1, SubSeqEmpty, TailIsSubSeq
        <4>3. Tail(ns) \in Seq(Notas)
          BY <4>1, HeadTailProperties
        <4>4. Without(ns, 1) = Tail(ns)
          BY <4>2, <4>3, ConcatEmptySeq DEF Without
        <4> QED BY <4>1, <4>3, <4>4
      <3>2. PICK q \in Seq(Notas) :
               /\ q = notificaciones' /\ DOMAIN q = 1 .. (Len(ns) - 1)
               /\ \A j \in DOMAIN q : q[j] = ns[j + 1] /\ j + 1 \in DOMAIN ns
        <4>1. PICK q \in Seq(Notas) : q = Tail(ns) /\ Len(q) = Len(ns) - 1
          BY <3>1
        <4>2. DOMAIN q = 1 .. (Len(ns) - 1)
          BY <4>1
        <4>3. \A j \in DOMAIN q : q[j] = ns[j + 1] /\ j + 1 \in DOMAIN ns
          BY <1>2, <3>1, <4>1, <4>2
        <4> QED BY <2>4, <3>1, <4>1, <4>2, <4>3
      <3>3. ASSUME NEW fila \in DOMAIN q, NEW j \in DOMAIN q, fila < j PROVE q[j].id < q[fila].id
        <4>1. fila + 1 \in DOMAIN ns /\ j + 1 \in DOMAIN ns /\ fila + 1 < j + 1
          BY <1>2, <3>2, <3>3
        <4> QED BY <1>10, <3>2, <4>1
      <3>4. \A j \in DOMAIN q : q[j].id <= idCounter /\ q[j].id < ns[k].id
        <4>1. ASSUME NEW j \in DOMAIN q PROVE q[j].id <= idCounter /\ q[j].id < ns[1].id
          <5>1. q[j] = ns[j + 1] /\ j + 1 \in DOMAIN ns /\ 1 \in DOMAIN ns /\ 1 < j + 1
            BY <1>2, <3>2
          <5> QED BY <1>10, <5>1
        <4> QED BY <2>4, <4>1
      <3>5. ASSUME NEW id \in Ids, NEW j \in DOMAIN q, ~q[j].leida, q[j].id > id
            PROVE  q[j].id > atendidaCon'[id]
        <4>1. id # ns[k].id
          <5>1. id \in Int /\ q[j].id \in Int /\ ns[k].id \in Int
            BY <1>2, <3>2 DEF Ids
          <5> QED BY <5>1, <3>4, <3>5
        <4> QED BY <1>1, <2>2, <3>2, <3>5, <4>1 DEF NotesInv
      <3> QED BY <2>1, <2>2, <2>3, <3>2, <3>3, <3>4, <3>5 DEF NotesInv
    <2>5. CASE /\ notificaciones' = [ns EXCEPT ![k].leida = TRUE]
               /\ \A j \in 1 .. (k - 1) : ns[j].leida
      <3>1. PICK nota \in Notas : nota = [ns[k] EXCEPT !.leida = TRUE] /\ nota.id = ns[k].id
                                  /\ nota.leida = TRUE
        BY <1>2, NotaIs
      <3>2. PICK q \in Seq(Notas) :
               /\ q = notificaciones' /\ DOMAIN q = DOMAIN ns
               /\ \A j \in DOMAIN q : q[j] = IF j = k THEN nota ELSE ns[j]
        <4>1. k \in 1 .. Len(ns)
          BY <1>2
        <4>2. PICK q : q = [ns EXCEPT ![k] = nota]
          OBVIOUS
        <4>3. q \in Seq(Notas) /\ DOMAIN q = DOMAIN ns
          BY <4>1, <4>2
        <4>4. \A j \in DOMAIN q : q[j] = IF j = k THEN nota ELSE ns[j]
          BY <4>2
        <4>5. q = notificaciones'
          BY <2>5, <3>1, <4>2
        <4> QED BY <4>3, <4>4, <4>5
      <3>3. \A j \in DOMAIN q : q[j].id = ns[j].id /\ (~q[j].leida => ~ns[j].leida /\ j # k)
        BY <3>1, <3>2
      <3>4. ASSUME NEW id \in Ids, NEW j \in DOMAIN q, ~q[j].leida, q[j].id > id
            PROVE  q[j].id > atendidaCon'[id]
        <4>1. CASE id = ns[k].id
          <5>1. ~(k < j)
            BY <1>1, <1>2, <3>2, <3>3, <3>4, <4>1 DEF NotesInv
          <5>2. j \in 1 .. (k - 1)
            BY <1>2, <2>1, <3>2, <3>3, <3>4, <5>1
          <5> QED BY <2>5, <3>3, <3>4, <5>2
        <4>2. CASE id # ns[k].id
          BY <1>1, <2>2, <3>2, <3>3, <3>4, <4>2 DEF NotesInv
        <4> QED BY <4>1, <4>2
      <3>5. \A j \in DOMAIN q : q[j].id <= idCounter
        BY <1>1, <3>2, <3>3 DEF NotesInv
      <3>6. \A fila, j \in DOMAIN q : fila < j => q[j].id < q[fila].id
        BY <1>1, <3>2, <3>3 DEF NotesInv
      <3> QED BY <2>1, <2>2, <2>3, <3>2, <3>4, <3>5, <3>6 DEF NotesInv
    <2> QED BY <2>1, <2>4, <2>5
  <1> QED BY <1>3, <1>4, <1>5 DEF clickNotificaciones

(* A click on the task manager selects its first row or none, and ends     *)
(* nothing: the first process is one of the system's.                      *)
LEMMA TaskClick ==
    ASSUME Selects, NEW x, NEW y, clickGestor(x, y), detenidos = {}
    PROVE  Selects' /\ detenidos' = {}
  <1>1. app = "gestor" /\ app' = app /\ clickEnProceso(x)
    BY DEF clickGestor
  <1>2. seleccionado \in {0, 1}
    BY <1>1 DEF Selects
  <1>3. seleccionado' \in {0, 1}
    <2> DEFINE filas == {fila \in DOMAIN Procesos : FilaProceso(x, fila)}
    <2>1. DOMAIN Procesos = 1 .. Len(Procesos) /\ Len(Procesos) \in Nat /\ Len(Procesos) > 0
      <3>1. Procesos \in Seq(STRING) /\ Len(Procesos) > 0
        BY Zenon, DeskAssumption
      <3> QED BY <3>1
    <2>2. CASE filas # {}
      <3>1. filas \subseteq Nat
        BY <2>1
      <3>2. PICK k : k = Primera(filas) /\ k \in filas /\ \A j \in filas : k <= j
        BY <2>2, <3>1, FirstRow
      <3>3. 1 \in filas
        BY <2>1, <3>1, <3>2, RowTests
      <3>4. k = 1
        BY <2>1, <3>2, <3>3
      <3> QED BY <1>1, <2>2, <3>2, <3>4 DEF clickEnProceso
    <2>3. CASE filas = {}
      BY <1>1, <1>2, <2>3 DEF clickEnProceso
    <2> QED BY <2>2, <2>3
  <1>4. detenidos' = {}
    <2>1. CASE terminarProceso(Procesos[seleccionado]) /\ seleccionado # 0
      <3>1. seleccionado = 1 /\ Procesos[1] \in Sistema
        BY <1>2, <2>1, DeskAssumption
      <3> QED BY <2>1, <3>1 DEF terminarProceso, Protegido
    <2>2. CASE UNCHANGED detenidos
      BY <2>2
    <2> QED BY <2>1, <2>2 DEF clickGestor, taskVars
  <1> QED BY <1>3, <1>4 DEF Selects

(* A walk over the results selects the first or leaves the selection.      *)
LEMMA ResultsClick ==
    ASSUME NEW x, NEW sel, clickEnResultados(x, sel), IsFiniteSet(resultados')
    PROVE  seleccionado' = sel \/ (seleccionado' = 1 /\ resultados' # {})
  <1> DEFINE n == Cardinality(resultados')
             filas == {fila \in 1 .. n : Abrir(x, fila) \/ Ver(x, fila) \/ Resultado(x, fila)}
  <1>1. n \in Nat /\ (n # 0 => resultados' # {})
    BY FS_CardinalityType, FS_EmptySet
  <1>2. seleccionado' = sel \/ (filas # {} /\ seleccionado' = Primera(filas))
    BY DEF clickEnResultados
  <1> HIDE DEF n
  <1>3. ASSUME filas # {} PROVE Primera(filas) = 1 /\ n # 0
    <2>1. filas \subseteq Nat
      BY <1>1
    <2>2. PICK k : k = Primera(filas) /\ k \in filas /\ \A j \in filas : k <= j
      BY <1>3, <2>1, FirstRow
    <2>3. k \in Int /\ 1 \in 1 .. n
      BY <1>1, <2>2
    <2>4. 1 \in filas
      BY <2>2, <2>3, RowTests
    <2> QED BY <1>1, <2>2, <2>4
  <1> QED BY <1>1, <1>2, <1>3

(* A click on the search keeps its term, its results and its selection     *)
(* together.                                                               *)
LEMMA SearchClick ==
    ASSUME FindInv, Selects, NEW x, NEW y, clickBuscador(x, y)
    PROVE  FindInv' /\ Selects'
  <1>1. /\ app = "buscador" /\ app' = app
        /\ busqueda \in Terminos /\ resultados = Coincide[busqueda]
        /\ seleccionado \in {0, 1} /\ (seleccionado # 0 => busqueda # "")
    BY Zenon DEF clickBuscador, FindInv, Selects
  <1>2. /\ "" \in Terminos /\ Coincide[""] = {} /\ Filtro(x, y) \in Terminos
        /\ \A t \in Terminos : IsFiniteSet(Coincide[t])
    BY Zenon, DeskAssumption DEF Terminos, Filtro
  <1>3. PICK sel : /\ clickEnResultados(x, sel)
                   /\ busqueda' \in Terminos /\ resultados' = Coincide[busqueda']
                   /\ sel = 0 \/ (sel = seleccionado /\ (busqueda' = busqueda \/ busqueda' # ""))
    <2>1. \/ UNCHANGED <<busqueda, resultados>> /\ clickEnResultados(x, seleccionado)
          \/ busqueda' = busqueda /\ resultados' = Coincide[busqueda] /\ clickEnResultados(x, seleccionado)
          \/ busqueda' = "" /\ resultados' = Coincide[""] /\ clickEnResultados(x, 0)
          \/ /\ Filtro(x, y) # "" /\ clickEnResultados(x, seleccionado)
             /\ busqueda' = Filtro(x, y) /\ resultados' = Coincide[Filtro(x, y)]
      BY Zenon DEF clickBuscador, buscarArchivos, TrasLimpiar, findVars
    <2> QED BY Zenon, <1>1, <1>2, <2>1
  <1>4. seleccionado' = sel \/ (seleccionado' = 1 /\ resultados' # {})
    <2>1. IsFiniteSet(resultados')
      BY Zenon, <1>2, <1>3
    <2> QED BY <1>3, <2>1, ResultsClick
  <1>5. seleccionado' \in {0, 1}
    BY <1>1, <1>3, <1>4
  <1>6. seleccionado' # 0 => busqueda' # ""
    BY Zenon, <1>1, <1>2, <1>3, <1>4
  <1> QED BY Zenon, <1>1, <1>3, <1>5, <1>6 DEF FindInv, Selects

(* A script starts with its list and without a selection.                  *)
LEMMA DeskInvInit == DeskInit => DeskInv
  <1> SUFFICES ASSUME DeskInit PROVE DeskInv
    OBVIOUS
  <1>1. FindInv
    <2>1. "" \in Terminos /\ Coincide[""] = {}
      BY Zenon, DeskAssumption DEF Terminos
    <2> QED BY Zenon, <2>1 DEF DeskInit, FindInv
  <1>2. /\ notificaciones = <<[id |-> 1, leida |-> FALSE]>> /\ idCounter = 1
        /\ atendidaCon = [id \in Ids |-> 0]
    BY Zenon DEF DeskInit, Nueva
  <1>3. [id |-> 1, leida |-> FALSE] \in Notas
    BY DEF Notas
  <1>4. NotesInv
    BY <1>2, <1>3 DEF NotesInv
  <1>5. seleccionado = 0 /\ detenidos = {}
    BY Zenon DEF DeskInit
  <1> QED BY <1>1, <1>4, <1>5 DEF DeskInv, Selects

(* Every click of every script keeps the invariant.                        *)
LEMMA DeskInvNext == DeskInv /\ [DeskNext]_deskVars => DeskInv'
  <1> SUFFICES ASSUME DeskInv, [DeskNext]_deskVars PROVE DeskInv'
    OBVIOUS
  <1>1. ASSUME UNCHANGED noteVars PROVE NotesInv'
    BY <1>1 DEF noteVars, DeskInv, NotesInv
  <1>2. ASSUME UNCHANGED findVars, app' # "buscador" \/ UNCHANGED seleccionado, app' = app
        PROVE  FindInv'
    BY Zenon, <1>2 DEF findVars, DeskInv, FindInv
  <1>3. ASSUME NEW x, NEW y, clickNotificaciones(x, y) PROVE DeskInv'
    <2>1. NotesInv'
      BY <1>3, NotesKept DEF DeskInv
    <2>2. /\ UNCHANGED <<findVars, seleccionado, detenidos>> /\ app' = app
          /\ app = "notificaciones"
      BY <1>3 DEF clickNotificaciones, taskVars
    <2> QED BY <1>2, <2>1, <2>2 DEF DeskInv, Selects
  <1>4. ASSUME NEW x, NEW y, clickPortapapeles(x, y) PROVE DeskInv'
    <2>1. /\ UNCHANGED <<noteVars, findVars, detenidos>> /\ app' = app
          /\ app = "portapapeles"
      BY <1>4 DEF clickPortapapeles, taskVars
    <2> QED BY <1>1, <1>2, <2>1 DEF DeskInv, Selects
  <1>5. ASSUME NEW x, NEW y, clickGestor(x, y) PROVE DeskInv'
    <2>1. UNCHANGED <<noteVars, findVars>> /\ app' = app /\ app = "gestor"
      BY <1>5 DEF clickGestor
    <2>2. Selects' /\ detenidos' = {}
      BY <1>5, TaskClick DEF DeskInv
    <2> QED BY <1>1, <1>2, <2>1, <2>2 DEF DeskInv
  <1>6. ASSUME NEW x, NEW y, clickBuscador(x, y) PROVE DeskInv'
    <2>1. UNCHANGED <<noteVars, detenidos>>
      BY <1>6 DEF clickBuscador, taskVars
    <2>2. FindInv' /\ Selects'
      BY <1>6, SearchClick DEF DeskInv
    <2> QED BY <1>1, <2>1, <2>2 DEF DeskInv
  <1>7. CASE UNCHANGED deskVars
    <2>1. UNCHANGED <<app, noteVars, detenidos, findVars, seleccionado>>
      BY <1>7 DEF deskVars, taskVars
    <2> QED BY <1>1, <1>2, <2>1 DEF DeskInv, Selects
  <1> QED BY <1>3, <1>4, <1>5, <1>6, <1>7 DEF DeskNext

(* What lies below the first row stays out of reach, in the notification   *)
(* centre and in the task manager, for any coordinates clicked and lists   *)
(* of any length (notificaciones.lua:99-111, gestor-tareas.lua:170-179).   *)
THEOREM DeskBelowOutOfReach == DeskSpec => []BelowOutOfReach
  <1>1. DeskInv => BelowOutOfReach
    BY DEF DeskInv, NotesInv, BelowOutOfReach
  <1> QED BY DeskInvInit, DeskInvNext, <1>1, PTL DEF DeskSpec

(* The search selects a row only under a term that was searched for, and   *)
(* one that exists unless that term matches nothing, for any files, those  *)
(* included of which a filter matches none (buscador.lua:116-161).         *)
THEOREM DeskSelectionBacked == DeskSpec => []SelectionBacked
  <1>1. DeskInv => SelectionBacked
    <2> SUFFICES ASSUME DeskInv, app = "buscador", seleccionado # 0
                 PROVE  /\ busqueda # ""
                        /\ Coincide[busqueda] # {} => seleccionado <= Cardinality(resultados)
      BY Zenon DEF SelectionBacked
    <2>1. seleccionado = 1
      BY DEF DeskInv, Selects
    <2>2. busqueda # "" /\ resultados = Coincide[busqueda] /\ IsFiniteSet(resultados)
      BY Zenon, DeskAssumption DEF DeskInv, FindInv
    <2>3. resultados # {} => Cardinality(resultados) \in Nat /\ Cardinality(resultados) # 0
      BY <2>2, FS_CardinalityType, FS_EmptySet
    <2>4. resultados # {} => seleccionado <= Cardinality(resultados)
      BY <2>1, <2>3
    <2> QED BY Zenon, <2>2, <2>4
  <1> QED BY DeskInvInit, DeskInvNext, <1>1, PTL DEF DeskSpec
=============================================================================
