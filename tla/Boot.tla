--------------------------------- MODULE Boot ---------------------------------
(***************************************************************************)
(* From power-on to the main loop: the boot sector, the bootstrap, the     *)
(* disk read and the set-up of the interrupts in the order of kernel_main  *)
(* (boot/*.asm, kernel/entry.asm, kernel/kernel.c, drivers/disk/disk.c,    *)
(* IDT, PIC, timer/pit.c, interrupts).  The interrupt controller and the   *)
(* processor are the PC's: an interrupt whose vector has no gate ends in a *)
(* triple fault, which restarts the machine.                               *)
(*                                                                         *)
(* disk_read_sector answers 1 for a sector it has read (disk.c:47) and     *)
(* kernel_main takes 0 for success (kernel.c:18), so the kernel as it is   *)
(* stops there.  DriverAnswers has the 0 too, to see what would come next. *)
(***************************************************************************)
EXTENDS Integers, Sequences, FiniteSets

CONSTANTS Irqs,            \* the lines of the first controller that may rise (2 is the second one)
          DriverAnswers    \* what a disk driver answers for a sector it read

ASSUME BootAssumption == 0 \in Irqs /\ Irqs \subseteq (0 .. 7) \ {2} /\ 1 \in DriverAnswers

VARIABLES at,          \* what the processor is about to execute
          busy,        \* the drive's status bit 7
          read_status,
          enabled,     \* the processor's interrupt flag
          pic,         \* first controller: vector of line 0, its mask, which word comes next
          written,     \* how many of PicWords are written
          pending,     \* lines that have risen
          gates,       \* vectors with a gate
          served       \* lines an interrupt handler has run for

bootVars == <<at, busy, read_status, enabled, pic, written, pending, gates, served>>
cpu == <<read_status, enabled, gates>>
chips == <<pic, written, pending, served>>

BiosPic == [base |-> 8, mask |-> {}, expects |-> "mask"]

BootInit == /\ at = "boot_sector" /\ busy \in BOOLEAN
            /\ read_status = 0 /\ enabled = FALSE /\ gates = {}
            /\ pic = BiosPic /\ written = 0 /\ pending \in SUBSET Irqs /\ served = {}

----------------------------------------------------------------------------
(* What pic_init writes to the first controller's data port.  The first    *)
(* word a controller takes after its command is its vector: 4, where the   *)
(* mutant has the missing 0x20 in front.                                   *)
PicWords_Remapped == <<32, 4, 1, 252>>
PicWords == <<4, 1, 252>>

(* the one gate idt_init sets; the mutant's is at the number of the line *)
Gates_ByLine == {0}
Gates == {32}

(* A word on the data port is the vector base (its low three bits do not   *)
(* count), the wiring, the mode, and only then a mask.                     *)
Data(p, w) ==
    CASE p.expects = "base" -> [p EXCEPT !.base = w - (w % 8), !.expects = "wiring"]
      [] p.expects = "wiring" -> [p EXCEPT !.expects = "mode"]
      [] p.expects = "mode" -> [p EXCEPT !.expects = "mask"]
      [] p.expects = "mask" -> [p EXCEPT !.mask = {i \in 0 .. 7 : (w \div 2^i) % 2 = 1}]

Goto(place) == at' = place

(* int 0x13 fails or not; on failure the sector halts with interrupts off *)
boot_sector == /\ at = "boot_sector"
               /\ Goto("bootstrap") \/ Goto("stopped")
               /\ UNCHANGED <<busy, cpu, chips>>

(* cli, protected mode, a stack, and kernel_entry, which calls kernel_main *)
bootstrap == /\ at = "bootstrap" /\ Goto("ata_wait")
             /\ enabled' = FALSE
             /\ UNCHANGED <<busy, read_status, gates, chips>>

(* ata_wait spins for as long as the drive is busy, without a limit *)
ata_wait == /\ at = "ata_wait" /\ ~busy /\ Goto("ata_command")
            /\ UNCHANGED <<busy, cpu, chips>>

ata_command == /\ at = "ata_command" /\ Goto("ata_data")
               /\ busy' \in BOOLEAN
               /\ UNCHANGED <<cpu, chips>>

(* the second wait, the 256 words, and the answer; errors are not looked at *)
ata_data == /\ at = "ata_data" /\ ~busy /\ Goto("check")
            /\ read_status' \in DriverAnswers
            /\ UNCHANGED <<busy, enabled, gates, chips>>

(* internal_error_handler disables interrupts and halts *)
check == /\ at = "check"
         /\ IF read_status # 0 THEN Goto("stopped") ELSE Goto("idt_init")
         /\ enabled' = FALSE
         /\ UNCHANGED <<busy, read_status, gates, chips>>

idt_init == /\ at = "idt_init" /\ Goto("idt_load")
            /\ gates' = Gates
            /\ UNCHANGED <<busy, read_status, enabled, chips>>

(* lidt, and sti at once: the controller still has the BIOS's vectors *)
idt_load == /\ at = "idt_load" /\ Goto("pic_command")
            /\ enabled' = TRUE
            /\ UNCHANGED <<busy, read_status, gates, chips>>

(* the initialisation command clears the mask and what had risen *)
pic_command == /\ at = "pic_command" /\ Goto("pic_data")
               /\ pic' = [pic EXCEPT !.mask = {}, !.expects = "base"]
               /\ pending' = {} /\ written' = 0
               /\ UNCHANGED <<busy, cpu, served>>

pic_data == /\ at = "pic_data" /\ written < Len(PicWords)
            /\ pic' = Data(pic, PicWords[written + 1])
            /\ written' = written + 1
            /\ Goto(IF written' = Len(PicWords) THEN "pit_init" ELSE "pic_data")
            /\ UNCHANGED <<busy, cpu, pending, served>>

(* the timer at 1000 Hz, sti once more, kernel_stage2 and the main loop *)
pit_init == /\ at = "pit_init" /\ Goto("stage2") /\ UNCHANGED <<busy, cpu, chips>>
stage2 == /\ at = "stage2" /\ Goto("loop")
          /\ enabled' = TRUE
          /\ UNCHANGED <<busy, read_status, gates, chips>>

BootStep == \/ boot_sector \/ bootstrap \/ ata_wait \/ ata_command \/ ata_data \/ check
            \/ idt_init \/ idt_load \/ pic_command \/ pic_data \/ pit_init \/ stage2

----------------------------------------------------------------------------
(* The machine around it *)

DriveReady == busy /\ busy' = FALSE /\ UNCHANGED <<at, cpu, chips>>

(* line 0 is the timer, which the BIOS has left running *)
Rise(i) == /\ i \notin pending
           /\ pending' = pending \cup {i}
           /\ UNCHANGED <<at, busy, cpu, pic, written, served>>

Deliverable(i) == /\ enabled /\ pic.expects = "mask"
                  /\ i \in pending \ pic.mask
                  /\ \A j \in pending \ pic.mask : i <= j

(* irq0_handler saves the registers, ticks the scheduler (which has no     *)
(* task yet) and ends the interrupt before it returns                      *)
irq0_handler(i) == /\ served' = served \cup {i}
                   /\ pending' = pending \ {i}
                   /\ UNCHANGED <<at, cpu, pic, written>>

TripleFault == /\ at' = "boot_sector" /\ read_status' = 0 /\ enabled' = FALSE /\ gates' = {}
               /\ pic' = BiosPic /\ written' = 0 /\ pending' = {}
               /\ UNCHANGED served

Interrupt(i) == /\ Deliverable(i)
                /\ IF pic.base + i \in gates THEN irq0_handler(i) ELSE TripleFault
                /\ UNCHANGED busy

(* stopped with interrupts off, for good *)
Stopped == at = "stopped" /\ UNCHANGED bootVars

BootNext == \/ BootStep \/ DriveReady \/ Stopped
            \/ \E i \in Irqs : Rise(i) \/ Interrupt(i)

(* The processor executes, the timer ticks and a line that may be          *)
(* delivered is.  Nothing is assumed of the drive.                         *)
BootSpec == /\ BootInit /\ [][BootNext]_bootVars
            /\ WF_bootVars(BootStep) /\ WF_bootVars(Rise(0))
            /\ \A i \in Irqs : WF_bootVars(Interrupt(i))

----------------------------------------------------------------------------
(* Properties *)

(* No interrupt handler ever runs: between idt_load's sti and the end of   *)
(* pic_init the controller has the BIOS's vectors, and pic_init gives it   *)
(* none of its own, so that line 0 never arrives at the gate of vector 32. *)
NoneServed == served = {}

(* The main loop does not last: the first tick of the timer that reaches   *)
(* it finds no gate and the machine starts again.                          *)
LoopEnds == at = "loop" ~> at # "loop"
=============================================================================
