----------------------------- MODULE DeviceProofs -----------------------------
(* Proofs about the boot sequence and the drivers that keep a state of     *)
(* their own: the network interfaces, the WiFi layer and the mouse.        *)
EXTENDS Boot, Nic, Wifi, Mouse, TLAPS

----------------------------------------------------------------------------
(* Boot *)

BootPlaces == {"boot_sector", "bootstrap", "ata_wait", "ata_command", "ata_data", "check",
               "stopped", "idt_init", "idt_load", "pic_command", "pic_data", "pit_init",
               "stage2", "loop"}

(* The controller waits for the word pic_init is about to write, and for   *)
(* a mask at any other place.                                              *)
Expected == IF at = "pic_data"
            THEN CASE written = 0 -> "base" [] written = 1 -> "wiring" [] written = 2 -> "mode"
            ELSE "mask"

(* The vectors are the BIOS's or start at 0: no line reaches the one gate. *)
BootInv == /\ at \in BootPlaces
           /\ at = "pic_data" => written \in 0 .. 2
           /\ pic \in [base : {0, 8}, mask : SUBSET (0 .. 7),
                       expects : {"base", "wiring", "mode", "mask"}]
           /\ pic.expects = Expected
           /\ gates \subseteq Gates
           /\ served = {}

(* What a data word does to the controller, for the words pic_init writes. *)
LEMMA DataWords ==
    ASSUME BootInv, at = "pic_data"
    PROVE  LET p == Data(pic, PicWords[written + 1])
           IN  /\ p \in [base : {0, 8}, mask : SUBSET (0 .. 7),
                         expects : {"base", "wiring", "mode", "mask"}]
               /\ p.expects = IF written = 0 THEN "wiring" ELSE IF written = 1 THEN "mode" ELSE "mask"
  <1>1. CASE written = 0
    <2>1. PicWords[written + 1] = 4 /\ pic.expects = "base"
      BY <1>1 DEF BootInv, Expected, PicWords
    <2>2. 4 - (4 % 8) = 0
      OBVIOUS
    <2>3. Data(pic, 4) = [pic EXCEPT !.base = 0, !.expects = "wiring"]
      BY <2>1, <2>2 DEF Data
    <2> QED BY <1>1, <2>1, <2>3 DEF BootInv
  <1>2. CASE written = 1
    <2>1. pic.expects = "wiring"
      BY <1>2 DEF BootInv, Expected
    <2>2. Data(pic, PicWords[written + 1]) = [pic EXCEPT !.expects = "mode"]
      BY <2>1 DEF Data
    <2> QED BY <1>2, <2>2 DEF BootInv
  <1>3. CASE written = 2
    <2>1. pic.expects = "mode"
      BY <1>3 DEF BootInv, Expected
    <2>2. Data(pic, PicWords[written + 1]) = [pic EXCEPT !.expects = "mask"]
      BY <2>1 DEF Data
    <2> QED BY <1>3, <2>2 DEF BootInv
  <1> QED BY <1>1, <1>2, <1>3 DEF BootInv

(* The machine starts in the boot sector, with the BIOS's vectors and      *)
(* interrupts off.                                                         *)
LEMMA BootInvInit == BootInit => BootInv
  BY DEF BootInit, BootInv, BootPlaces, Expected, BiosPic, Gates

(* The processor's own steps.                                              *)
LEMMA BootStepKeepsInv == BootInv /\ BootStep => BootInv'
  <1> SUFFICES ASSUME BootInv, BootStep PROVE BootInv'
    OBVIOUS
  <1> USE DEF Goto, cpu, chips
  <1>1. CASE boot_sector \/ bootstrap \/ ata_wait \/ ata_command \/ ata_data \/ check
    BY <1>1 DEF boot_sector, bootstrap, ata_wait, ata_command, ata_data, check,
                BootInv, BootPlaces, Expected
  <1>2. CASE idt_init \/ idt_load \/ pit_init \/ stage2
    BY <1>2 DEF idt_init, idt_load, pit_init, stage2, BootInv, BootPlaces, Expected
  <1>3. CASE pic_command
    <2>1. at' = "pic_data" /\ written' = 0 /\ gates' = gates /\ served' = served
      BY <1>3 DEF pic_command
    <2>2. pic' = [pic EXCEPT !.mask = {}, !.expects = "base"]
      BY <1>3 DEF pic_command
    <2>3. /\ pic' \in [base : {0, 8}, mask : SUBSET (0 .. 7),
                       expects : {"base", "wiring", "mode", "mask"}]
          /\ pic'.expects = "base"
      BY <2>2 DEF BootInv
    <2> QED BY <2>1, <2>3 DEF BootInv, BootPlaces, Expected
  <1>4. CASE pic_data
    <2>1. at = "pic_data" /\ pic' = Data(pic, PicWords[written + 1]) /\ written' = written + 1
      BY <1>4 DEF pic_data
    <2>2. Len(PicWords) = 3
      BY DEF PicWords
    <2>3. at' = IF written' = 3 THEN "pit_init" ELSE "pic_data"
      BY <1>4, <2>2 DEF pic_data
    <2>4. written \in 0 .. 2
      BY <2>1 DEF BootInv
    <2>5. gates' = gates /\ served' = served
      BY <1>4 DEF pic_data
    <2>6. pic'.expects = Expected'
      BY <2>1, <2>3, <2>4, DataWords DEF Expected
    <2> QED BY <2>1, <2>3, <2>4, <2>5, <2>6, DataWords DEF BootInv, BootPlaces
  <1> QED BY <1>1, <1>2, <1>3, <1>4 DEF BootStep

(* An interrupt that is delivered finds no gate.                           *)
LEMMA NoGate ==
    ASSUME BootInv, NEW line \in Irqs
    PROVE  pic.base + line \notin gates
  <1>1. line \in 0 .. 7 /\ pic.base \in {0, 8}
    BY BootAssumption DEF BootInv
  <1>2. pic.base + line # 32
    BY <1>1
  <1> QED BY <1>2 DEF BootInv, Gates

(* No step of the processor, a line or the controller breaks the           *)
(* invariant: an interrupt finds no gate and restarts the machine.         *)
LEMMA BootInvNext == BootInv /\ [BootNext]_bootVars => BootInv'
  <1> SUFFICES ASSUME BootInv, [BootNext]_bootVars PROVE BootInv'
    OBVIOUS
  <1>1. CASE BootStep
    BY <1>1, BootStepKeepsInv
  <1>2. CASE DriveReady \/ Stopped \/ UNCHANGED bootVars
    BY <1>2 DEF DriveReady, Stopped, bootVars, cpu, chips, BootInv, Expected
  <1>3. ASSUME NEW line \in Irqs, Rise(line) PROVE BootInv'
    BY <1>3 DEF Rise, cpu, BootInv, Expected
  <1>4. ASSUME NEW line \in Irqs, Interrupt(line) PROVE BootInv'
    <2>1. TripleFault
      BY <1>4, NoGate DEF Interrupt
    <2> QED BY <2>1 DEF TripleFault, BootInv, BootPlaces, Expected, BiosPic
  <1> QED BY <1>1, <1>2, <1>3, <1>4 DEF BootNext

(* No interrupt handler ever runs, whatever lines rise and whenever they   *)
(* do (pic_init, idt_init, and the order of kernel_main).                  *)
THEOREM BootServesNone == BootSpec => []NoneServed
  <1>1. BootInv => NoneServed
    BY DEF BootInv, NoneServed
  <1> QED BY BootInvInit, BootInvNext, <1>1, PTL DEF BootSpec

(* What kernel_main reaches with the disk driver as it is, which answers 1 *)
(* for a sector it has read (disk.c:47) where 0 is taken for success.      *)
BeforeIdt == /\ at \in {"boot_sector", "bootstrap", "ata_wait", "ata_command", "ata_data",
                        "check", "stopped"}
             /\ at = "check" => read_status = 1
             /\ enabled = FALSE

(* With that driver kernel_main gets at most as far as the error handler:  *)
(* interrupts are never enabled, so nothing ever restarts the machine, and *)
(* neither the set-up of the interrupts nor the main loop is reached.      *)
THEOREM BootNeverPassesDisk == DriverAnswers = {1} /\ BootSpec => []BeforeIdt
  <1> SUFFICES ASSUME DriverAnswers = {1} PROVE BootSpec => []BeforeIdt
    OBVIOUS
  <1>1. BootInit => BeforeIdt
    BY DEF BootInit, BeforeIdt
  <1>2. BeforeIdt /\ [BootNext]_bootVars => BeforeIdt'
    <2> SUFFICES ASSUME BeforeIdt, [BootNext]_bootVars PROVE BeforeIdt'
      OBVIOUS
    <2> USE DEF BeforeIdt, Goto, cpu, chips
    <2>1. CASE BootStep
      BY <2>1 DEF BootStep, boot_sector, bootstrap, ata_wait, ata_command, ata_data, check,
                  idt_init, idt_load, pic_command, pic_data, pit_init, stage2
    <2>2. CASE DriveReady \/ Stopped \/ UNCHANGED bootVars
      BY <2>2 DEF DriveReady, Stopped, bootVars
    <2>3. ASSUME NEW line \in Irqs, Rise(line) PROVE BeforeIdt'
      BY <2>3 DEF Rise
    <2>4. ASSUME NEW line \in Irqs, Interrupt(line) PROVE FALSE
      BY <2>4 DEF Interrupt, Deliverable
    <2> QED BY <2>1, <2>2, <2>3, <2>4 DEF BootNext
  <1> QED BY <1>1, <1>2, PTL DEF BootSpec

(* No word of pic_init is taken as a mask, and stage2 has let interrupts   *)
(* through before the main loop begins.                                    *)
LinesOpen == pic.mask = {} /\ pending \subseteq Irqs /\ (at = "loop" => enabled)

(* The mask stays empty through all four words of pic_init.                *)
LEMMA LinesStayOpen == BootInv /\ LinesOpen /\ [BootNext]_bootVars => LinesOpen'
  <1> SUFFICES ASSUME BootInv, LinesOpen, [BootNext]_bootVars PROVE LinesOpen'
    OBVIOUS
  <1> USE DEF LinesOpen, Goto, cpu, chips
  <1>1. CASE pic_data
    <2>1. /\ at = "pic_data" /\ pic' = Data(pic, PicWords[written + 1]) /\ written \in 0 .. 2
          /\ at' \in {"pit_init", "pic_data"} /\ pending' = pending
      BY <1>1 DEF pic_data, BootInv
    <2>2. pic.expects \in {"base", "wiring", "mode"}
      BY <2>1 DEF BootInv, Expected
    <2>3. pic'.mask = pic.mask
      BY <2>1, <2>2 DEF Data, BootInv
    <2> QED BY <2>1, <2>3
  <1>2. CASE BootStep /\ ~pic_data
    BY <1>2 DEF BootStep, boot_sector, bootstrap, ata_wait, ata_command, ata_data, check,
                idt_init, idt_load, pic_command, pit_init, stage2, BootInv
  <1>3. CASE DriveReady \/ Stopped \/ UNCHANGED bootVars
    BY <1>3 DEF DriveReady, Stopped, bootVars
  <1>4. ASSUME NEW line \in Irqs, Rise(line) PROVE LinesOpen'
    BY <1>4 DEF Rise
  <1>5. ASSUME NEW line \in Irqs, Interrupt(line) PROVE LinesOpen'
    <2>1. TripleFault
      BY <1>5, NoGate DEF Interrupt
    <2> QED BY <2>1 DEF TripleFault, BiosPic
  <1> QED BY <1>1, <1>2, <1>3, <1>4, <1>5 DEF BootNext

(* In the main loop a tick of the timer that has risen can always be       *)
(* delivered, and any interrupt that is starts the machine again.  What    *)
(* LoopEnds adds is that the timer ticks (pic_init, kernel_main).          *)
THEOREM BootTickRestarts ==
    BootSpec => /\ [](at = "loop" /\ 0 \in pending => Deliverable(0))
                /\ [][(\E line \in Irqs : Interrupt(line)) => at' = "boot_sector"]_bootVars
  <1>1. BootInit => BootInv /\ LinesOpen
    BY BootInvInit DEF BootInit, LinesOpen, BiosPic
  <1>2. BootInv /\ LinesOpen /\ [BootNext]_bootVars => BootInv' /\ LinesOpen'
    BY BootInvNext, LinesStayOpen
  <1>3. BootInv /\ LinesOpen => (at = "loop" /\ 0 \in pending => Deliverable(0))
    <2> SUFFICES ASSUME BootInv, LinesOpen, at = "loop", 0 \in pending PROVE Deliverable(0)
      OBVIOUS
    <2>1. pic.expects = "mask" /\ enabled
      BY DEF BootInv, Expected, LinesOpen
    <2>2. \A j \in pending : 0 <= j
      BY BootAssumption DEF LinesOpen
    <2> QED BY <2>1, <2>2 DEF Deliverable, LinesOpen
  <1>4. BootInv => [(\E line \in Irqs : Interrupt(line)) => at' = "boot_sector"]_bootVars
    BY NoGate DEF Interrupt, TripleFault
  <1> QED BY <1>1, <1>2, <1>3, <1>4, PTL DEF BootSpec

----------------------------------------------------------------------------
(* The network interfaces *)

NicTypeOK == /\ default_nic \in linked \cup {NoNic}
             /\ frame = NoFrame \/ frame \in [dev : linked, size : Nat]
             /\ linked \subseteq NicDevs /\ NoNic \notin linked

(* Only a device that was linked can be the default or have sent, and it   *)
(* leaves up only by being linked again.                                   *)
NicInv == /\ NicTypeOK
          /\ default_nic \in up \cup twice \cup {NoNic}
          /\ SendsSafely

(* The list is empty and nothing has been sent.                            *)
LEMMA NicInvInit == NicInit => NicInv
  BY DEF NicInit, NicInv, NicTypeOK, SendsSafely

(* Registering, polling and sending keep what SendsSafely needs.           *)
LEMMA NicInvNext == NicInv /\ [NicNext]_nicVars => NicInv'
  <1> SUFFICES ASSUME NicInv, [NicNext]_nicVars PROVE NicInv'
    OBVIOUS
  <1>1. ASSUME NEW d \in NicDevs, nic_register(d) PROVE NicInv'
    <2>1. d # NoNic
      BY NicAssumption
    <2>2. /\ linked' = linked \cup {d} /\ frame' = frame
          /\ twice' = IF d \in linked THEN twice \cup {d} ELSE twice
          /\ \/ /\ up' = up \cup {d}
                /\ default_nic' = IF default_nic = NoNic THEN d ELSE default_nic
             \/ up' = up \ {d} /\ default_nic' = default_nic
      BY <1>1 DEF nic_register
    <2>3. NicTypeOK'
      BY <2>1, <2>2, NicAssumption DEF NicInv, NicTypeOK, NoFrame
    <2>4. default_nic' \in up' \cup twice' \cup {NoNic}
      BY <2>1, <2>2 DEF NicInv, NicTypeOK
    <2>5. SendsSafely'
      BY <2>2 DEF NicInv, NicTypeOK, SendsSafely, NoFrame
    <2> QED BY <2>3, <2>4, <2>5 DEF NicInv
  <1>2. ASSUME NEW len \in Lengths, net_send_frame(len) PROVE NicInv'
    <2>1. /\ frame' = [dev |-> default_nic, size |-> EthHeader + len]
          /\ UNCHANGED <<default_nic, linked, up, twice>>
          /\ default_nic \in Senders /\ len <= FrameMax - EthHeader
      BY <1>2 DEF net_send_frame, Fits
    <2>2. default_nic # NoNic
      BY <2>1, NicAssumption
    <2>3. EthHeader + len \in Nat /\ EthHeader + len <= FrameMax
      BY <2>1, NicAssumption
    <2>4. frame'.size <= FrameMax /\ frame'.dev \in up' \cup twice'
      BY <2>1, <2>2, <2>3 DEF NicInv
    <2> QED BY <2>1, <2>2, <2>3, <2>4 DEF NicInv, NicTypeOK, SendsSafely
  <1>3. CASE net_poll \/ PollNext \/ UNCHANGED nicVars
    BY <1>3 DEF net_poll, PollNext, nicVars, NicInv, NicTypeOK, SendsSafely, NoFrame
  <1> QED BY <1>1, <1>2, <1>3 DEF NicNext

(* A frame fits the wire and leaves through a device whose last init       *)
(* succeeded, or that was registered again (net_send_frame, nic_register). *)
THEOREM NicSendsSafely == NicSpec => []SendsSafely
  <1>1. NicInv => SendsSafely
    BY DEF NicInv
  <1> QED BY NicInvInit, NicInvNext, <1>1, PTL DEF NicSpec

(* S holds whatever a walk of the list finds on its way from x.            *)
WalkIn(S, x) == x \in S \cup {NoNic} /\ \A d \in S : nextDev[d] \in S \cup {NoNic}

(* As long as no device was linked twice: a walk from the head meets all   *)
(* of them, and one that is under way all those it has not met yet.        *)
ListInv == /\ linked \subseteq NicDevs /\ NoNic \notin linked
           /\ nextDev \in [NicDevs -> linked \cup {NoNic}]
           /\ nic_list \in linked \cup {NoNic} /\ current \in linked \cup {NoNic}
           /\ visited \subseteq linked
           /\ twice = {} => \A S \in SUBSET linked :
                 /\ WalkIn(S, nic_list) => linked \subseteq S
                 /\ current # NoNic /\ WalkIn(S, current) => linked \subseteq visited \cup S

(* The empty list ends at once.                                            *)
LEMMA ListInvInit == NicInit => ListInv
  BY DEF NicInit, ListInv

(* A walk of the list with a new head is one of the old list.              *)
LEMMA ListGrows ==
    ASSUME ListInv, NEW d \in NicDevs, nic_register(d), twice' = {}, twice = {},
           NEW S \in SUBSET linked', WalkIn(S, nic_list)'
    PROVE  linked' \subseteq S
  <1>1. /\ nextDev' = [nextDev EXCEPT ![d] = nic_list] /\ nic_list' = d
        /\ linked' = linked \cup {d} /\ d \notin linked
    BY DEF nic_register, NextOf
  <1>2. d \in S
    BY <1>1, NicAssumption DEF WalkIn
  <1>3. nextDev'[d] = nic_list /\ \A e \in linked : nextDev'[e] = nextDev[e]
    BY <1>1 DEF ListInv
  <1>4. WalkIn(S \ {d}, nic_list)
    <2>1. nic_list \in (S \ {d}) \cup {NoNic}
      BY <1>1, <1>2, <1>3 DEF WalkIn, ListInv
    <2>2. ASSUME NEW e \in S \ {d} PROVE nextDev[e] \in (S \ {d}) \cup {NoNic}
      <3>1. e \in linked /\ nextDev[e] # d
        BY <1>1, NicAssumption DEF ListInv
      <3>2. nextDev'[e] \in S \cup {NoNic}
        BY DEF WalkIn
      <3> QED BY <1>3, <3>1, <3>2
    <2> QED BY <2>1, <2>2 DEF WalkIn
  <1>5. linked \subseteq S \ {d}
    BY <1>1, <1>4 DEF ListInv
  <1> QED BY <1>1, <1>2, <1>5

(* As long as no device is registered again, the list leads through every  *)
(* linked device and a poll has visited what is behind it.                 *)
LEMMA ListInvNext == ListInv /\ [NicNext]_nicVars => ListInv'
  <1> SUFFICES ASSUME ListInv, [NicNext]_nicVars PROVE ListInv'
    OBVIOUS
  <1>1. ASSUME NEW d \in NicDevs, nic_register(d) PROVE ListInv'
    <2>1. /\ nextDev' = [nextDev EXCEPT ![d] = nic_list] /\ nic_list' = d
          /\ linked' = linked \cup {d} /\ d # NoNic
          /\ current' = current /\ current = NoNic /\ visited' = visited
          /\ twice' = {} => twice = {}
      BY <1>1, NicAssumption DEF nic_register, NextOf
    <2>2. ASSUME twice' = {}, NEW S \in SUBSET linked', WalkIn(S, nic_list)'
          PROVE  linked' \subseteq S
      BY <1>1, <2>1, <2>2, ListGrows
    <2> QED BY <2>1, <2>2 DEF ListInv
  <1>2. CASE net_poll
    BY <1>2 DEF net_poll, ListInv, WalkIn
  <1>3. CASE PollNext
    <2>1. /\ current # NoNic /\ current' = nextDev[current] /\ visited' = visited \cup {current}
          /\ UNCHANGED <<nic_list, nextDev, linked, twice>>
      BY <1>3 DEF PollNext
    <2>2. current \in linked /\ current' \in linked \cup {NoNic}
      BY <2>1 DEF ListInv
    <2>3. ASSUME twice = {}, NEW S \in SUBSET linked, WalkIn(S, current)'
          PROVE  linked \subseteq visited' \cup S
      <3>1. WalkIn(S \cup {current}, current)
        BY <2>1, <2>3 DEF WalkIn
      <3>2. linked \subseteq visited \cup (S \cup {current})
        BY <2>1, <2>2, <2>3, <3>1 DEF ListInv
      <3> QED BY <2>1, <3>2
    <2>4. ASSUME twice = {}, NEW S \in SUBSET linked, WalkIn(S, nic_list)'
          PROVE  linked \subseteq S
      BY <2>1, <2>4 DEF WalkIn, ListInv
    <2> QED BY <2>1, <2>2, <2>3, <2>4 DEF ListInv
  <1>4. CASE (\E len \in Lengths : net_send_frame(len)) \/ UNCHANGED nicVars
    BY <1>4 DEF net_send_frame, nicVars, ListInv, WalkIn
  <1> QED BY <1>1, <1>2, <1>3, <1>4 DEF NicNext

(* A poll that ends has asked every device ever linked, failed ones        *)
(* included, if none was linked twice: what PollEnds says of safety, for   *)
(* every set of devices (net_poll).                                        *)
THEOREM PollAsksEveryDevice ==
    NicSpec => [][current # NoNic /\ current' = NoNic /\ twice = {} => visited' = linked]_nicVars
  <1>1. ASSUME ListInv, [NicNext]_nicVars, current # NoNic, current' = NoNic, twice = {}
        PROVE  visited' = linked
    <2>1. PollNext
      BY <1>1 DEF NicNext, nic_register, net_send_frame, net_poll, nicVars
    <2>2. ListInv' /\ twice' = {} /\ linked' = linked /\ visited' = visited \cup {current}
          /\ current' = nextDev[current] /\ nextDev' = nextDev
      BY <1>1, <2>1, ListInvNext DEF PollNext
    <2>3. WalkIn({current}, current)
      BY <1>1, <2>2 DEF WalkIn
    <2>4. current \in linked
      BY <1>1 DEF ListInv
    <2>5. linked \subseteq visited \cup {current}
      BY <1>1, <2>3, <2>4 DEF ListInv
    <2> QED BY <2>2, <2>4, <2>5, <1>1 DEF ListInv
  <1>2. ListInv /\ [NicNext]_nicVars =>
           [current # NoNic /\ current' = NoNic /\ twice = {} => visited' = linked]_nicVars
    BY <1>1
  <1> QED BY ListInvInit, ListInvNext, <1>2, PTL DEF NicSpec

----------------------------------------------------------------------------
(* The WiFi layer *)

(* Before a scan the state was DISCONNECTED, so a link that is up during   *)
(* one survived an attempt to replace it; none is up once the driver has   *)
(* disconnected.                                                           *)
WifiInv == /\ call \in {"none", "scan", "connect", "disconnect"}
           /\ associated \in BOOLEAN /\ survived \in BOOLEAN /\ dropped \in BOOLEAN
           /\ call = "scan" /\ associated => survived
           /\ call = "disconnect" => ~associated
           /\ LinkKnown

(* The state of the layer and the state of the link (wifi_scan,            *)
(* wifi_connect, wifi_disconnect), for every set of devices and drivers.   *)
THEOREM WifiKnowsItsLink == WifiSpec => []LinkKnown
  <1>1. WifiInit => WifiInv
    BY DEF WifiInit, WifiInv, LinkKnown
  <1>2. WifiInv /\ [WifiNext]_wifiVars => WifiInv'
    <2> SUFFICES ASSUME WifiInv, [WifiNext]_wifiVars PROVE WifiInv'
      OBVIOUS
    <2>1. CASE wifi_scan
      BY <2>1 DEF wifi_scan, MayScan, WifiInv, LinkKnown
    <2>2. CASE ConnectEnd
      <3>1. associated' \in BOOLEAN /\ dropped' = FALSE /\ call' = "none"
        BY <2>2 DEF ConnectEnd, WifiInv
      <3>2. \/ global_state' = "CONNECTED" /\ associated' /\ survived' = FALSE
            \/ global_state' = "DISCONNECTED" /\ survived' = associated'
        BY <2>2 DEF ConnectEnd
      <3> QED BY <3>1, <3>2 DEF WifiInv, LinkKnown
    <2>3. CASE ScanEnd
      BY <2>3 DEF ScanEnd, WifiInv, LinkKnown
    <2>4. CASE wifi_connect
      BY <2>4 DEF wifi_connect, WifiInv, LinkKnown
    <2>8. CASE wifi_disconnect
      BY <2>8 DEF wifi_disconnect, WifiInv, LinkKnown
    <2>9. CASE DisconnectEnd
      BY <2>9 DEF DisconnectEnd, WifiInv, LinkKnown
    <2>5. CASE LinkLost
      BY <2>5 DEF LinkLost, WifiInv, LinkKnown
    <2>6. CASE UNCHANGED wifiVars
      BY <2>6 DEF wifiVars, WifiInv, LinkKnown
    <2>7. ASSUME NEW d \in WifiDevs, wifi_register(d) PROVE WifiInv'
      BY <2>7 DEF wifi_register, WifiInv, LinkKnown
    <2> QED BY <2>1, <2>2, <2>3, <2>4, <2>5, <2>6, <2>7, <2>8, <2>9 DEF WifiNext
  <1>3. WifiInv => LinkKnown
    BY DEF WifiInv
  <1> QED BY <1>1, <1>2, <1>3, PTL DEF WifiSpec

----------------------------------------------------------------------------
(* The mouse *)

Byte == 0 .. 255
SignedByte == -128 .. 127
MouseSteps == {"defaults", "ack_defaults", "enable", "ack_enable", "on"}

MouseTypeOK == /\ step \in MouseSteps
               /\ port \in [from : {"nobody", "keyboard", "mouse"}, byte : Byte]
               /\ device \in Seq(Byte)
               /\ mouse_cycle \in 0 .. 2 /\ mouse_byte \in [0 .. 2 -> SignedByte]
               /\ mouse_x \in Int /\ mouse_y \in Int
               /\ moved \in [x : Int, y : Int] /\ disturbed \in BOOLEAN

(* what the mouse has said and the handler has not heard: the byte that    *)
(* waits at the port, and the ones behind it                               *)
AtPort == IF port.from = "mouse" THEN 1 ELSE 0
Unheard == AtPort + Len(device)
UnheardByte(k) == IF k <= AtPort THEN port.byte ELSE device[k - AtPort]

(* byte k, from 0, of the packets under way: the ones of the packet the    *)
(* handler is in, then those unheard, less the acknowledgement of 0xF4     *)
AckAhead == IF step = "ack_enable" THEN 1 ELSE 0
PacketByte(k) == IF k < mouse_cycle THEN mouse_byte[k]
                 ELSE Signed(UnheardByte(k - mouse_cycle + 1 + AckAhead))

(* There are n packets under way, and the positions xs and ys after each   *)
(* of them lead from where the pointer is to where it should be.           *)
Underway(n, xs, ys) ==
    /\ Unheard - AckAhead + mouse_cycle = 3 * n
    /\ xs[0] = mouse_x /\ xs[n] = moved.x /\ ys[0] = mouse_y /\ ys[n] = moved.y
    /\ \A k \in 0 .. (n - 1) : /\ xs[k + 1] = xs[k] + PacketByte(3 * k + 1)
                               /\ ys[k + 1] = ys[k] - PacketByte(3 * k + 2)

(* Until something disturbs it the conversation is in step: nothing is     *)
(* under way before a command, its acknowledgement comes first after it,   *)
(* and whole packets follow.                                               *)
InStep == /\ step \in {"defaults", "enable"} => Unheard = 0
          /\ step = "ack_defaults" => Unheard = 1
          /\ step \in {"ack_defaults", "ack_enable"} => Unheard >= 1 /\ UnheardByte(1) = Ack
          /\ step # "on" => mouse_cycle = 0
          /\ ~Reporting => mouse_x = moved.x /\ mouse_y = moved.y
          /\ Reporting => \E n \in Nat : \E xs, ys \in [Nat -> Int] : Underway(n, xs, ys)

MouseInv == MouseTypeOK /\ (~disturbed => InStep)

(* signed char gives a byte in two's complement its value back.            *)
LEMMA SignedBytes ==
    /\ \A b \in Byte : Signed(b) \in SignedByte
    /\ \A v \in SignedByte : Signed(v % 256) = v
  BY DEF Byte, SignedByte, Signed

(* What a conversion to one byte leaves is a byte.                         *)
LEMMA RemainderIsByte == \A v \in Int : v % 256 \in Byte
  BY DEF Byte

(* Types of the bytes under way.                                           *)
LEMMA UnheardTypes ==
    ASSUME MouseTypeOK
    PROVE  /\ AtPort \in {0, 1} /\ Len(device) \in Nat /\ Unheard \in Nat
           /\ AckAhead \in {0, 1}
           /\ \A k \in 1 .. Unheard : UnheardByte(k) \in Byte
  <1>1. AtPort \in {0, 1} /\ AckAhead \in {0, 1}
    BY DEF AtPort, AckAhead
  <1>2. Len(device) \in Nat /\ device \in Seq(Byte)
    BY DEF MouseTypeOK
  <1>3. ASSUME NEW k \in 1 .. Unheard PROVE UnheardByte(k) \in Byte
    <2>1. CASE k <= AtPort
      BY <2>1 DEF UnheardByte, MouseTypeOK
    <2>2. CASE ~(k <= AtPort)
      <3>1. k - AtPort \in 1 .. Len(device)
        BY <1>1, <1>2, <2>2 DEF Unheard
      <3> QED BY <1>2, <2>2, <3>1 DEF UnheardByte
    <2> QED BY <2>1, <2>2
  <1> QED BY <1>1, <1>2, <1>3 DEF Unheard

(* Before mouse_init the handler and the device are in step.               *)
LEMMA MouseInvInit == MouseInit => MouseInv
  <1> SUFFICES ASSUME MouseInit PROVE MouseInv
    OBVIOUS
  <1>1. MouseTypeOK
    BY DEF MouseInit, MouseTypeOK, MouseSteps, Nothing, Byte, SignedByte
  <1>2. InStep
    BY DEF MouseInit, InStep, Unheard, AtPort, Nothing, Reporting
  <1> QED BY <1>1, <1>2 DEF MouseInv

(* Every handler and every set-up call keeps the types.                    *)
LEMMA MouseTypeNext == MouseTypeOK /\ [MouseNext]_mouseVars => MouseTypeOK'
  <1> SUFFICES ASSUME MouseTypeOK, [MouseNext]_mouseVars PROVE MouseTypeOK'
    OBVIOUS
  <1> USE DEF decoded
  <1>1. ASSUME NEW before \in MouseSteps, NEW after \in MouseSteps,
               mouse_write(before, after) \/ ReadAck(before, after)
        PROVE  MouseTypeOK'
    <2>1. CASE mouse_write(before, after)
      <3>1. device' \in Seq(Byte)
        BY <2>1 DEF mouse_write, MouseTypeOK, Ack, Byte
      <3> QED BY <2>1, <3>1 DEF mouse_write, MouseTypeOK
    <2>2. CASE ReadAck(before, after)
      BY <2>2 DEF ReadAck, MouseTypeOK, Nothing, Byte
    <2> QED BY <1>1, <2>1, <2>2
  <1>2. CASE mouse_init
    BY <1>1, <1>2 DEF mouse_init, MouseSteps
  <1>3. CASE SendByte \/ KeyPress \/ keyboard_read
    <2>1. CASE SendByte
      <3>1. Head(device) \in Byte /\ Tail(device) \in Seq(Byte)
        BY <2>1 DEF SendByte, MouseTypeOK
      <3> QED BY <2>1, <3>1 DEF SendByte, MouseTypeOK
    <2>2. CASE KeyPress
      BY <2>2 DEF KeyPress, MouseTypeOK, Byte
    <2>3. CASE keyboard_read
      BY <2>3 DEF keyboard_read, MouseTypeOK, Nothing, Byte
    <2> QED BY <1>3, <2>1, <2>2, <2>3
  <1>4. CASE mouse_handler
    <2> DEFINE bytes == [mouse_byte EXCEPT ![mouse_cycle] = Signed(port.byte)]
    <2>1. bytes \in [0 .. 2 -> SignedByte]
      BY SignedBytes DEF MouseTypeOK
    <2>2. /\ mouse_byte' = bytes /\ port' = Nothing
          /\ UNCHANGED <<step, device, packets, moved, disturbed>>
          /\ \/ mouse_cycle = 2 /\ mouse_x' = mouse_x + bytes[1] /\ mouse_y' = mouse_y - bytes[2]
                /\ mouse_cycle' = 0
             \/ mouse_cycle # 2 /\ mouse_cycle' = mouse_cycle + 1 /\ mouse_x' = mouse_x
                /\ mouse_y' = mouse_y
      BY <1>4 DEF mouse_handler
    <2> HIDE DEF bytes
    <2>3. bytes[1] \in Int /\ bytes[2] \in Int
      BY <2>1 DEF SignedByte
    <2> QED BY <2>1, <2>2, <2>3 DEF MouseTypeOK, Nothing, Byte
  <1>5. ASSUME NEW m \in Moves, Move(m) PROVE MouseTypeOK'
    <2>1. m.buttons \in Byte /\ m.dx \in Int /\ m.dy \in Int
      BY MouseAssumption DEF Byte
    <2>2. <<m.buttons, m.dx % 256, m.dy % 256>> \in Seq(Byte)
      BY <2>1, RemainderIsByte
    <2>3. device' \in Seq(Byte)
      BY <1>5, <2>2 DEF Move, MouseTypeOK
    <2>4. moved' \in [x : Int, y : Int] /\ disturbed' \in BOOLEAN
      BY <1>5, <2>1 DEF Move, MouseTypeOK
    <2> QED BY <1>5, <2>3, <2>4 DEF Move, MouseTypeOK
  <1>6. CASE UNCHANGED mouseVars
    BY <1>6 DEF mouseVars, MouseTypeOK
  <1> QED BY <1>2, <1>3, <1>4, <1>5, <1>6 DEF MouseNext

(* What is under way stays so when the same bytes are unheard and the      *)
(* handler is where it was.                                                *)
LEMMA SameUnderway ==
    ASSUME MouseTypeOK, InStep, step' = step, moved' = moved, UNCHANGED decoded,
           Unheard' = Unheard, \A k \in 1 .. Unheard : UnheardByte(k)' = UnheardByte(k)
    PROVE  InStep'
  <1> USE DEF decoded
  <1>1. AckAhead' = AckAhead /\ Reporting' = Reporting
    BY DEF AckAhead, Reporting
  <1>2. ASSUME NEW n \in Nat, NEW xs \in [Nat -> Int], NEW ys \in [Nat -> Int],
               Underway(n, xs, ys)
        PROVE  Underway(n, xs, ys)'
    <2>1. ASSUME NEW j \in 0 .. (3 * n - 1) PROVE PacketByte(j)' = PacketByte(j)
      <3>1. CASE j < mouse_cycle
        BY <3>1 DEF PacketByte
      <3>2. CASE ~(j < mouse_cycle)
        <4>1. j - mouse_cycle + 1 + AckAhead \in 1 .. Unheard
          <5>1. mouse_cycle \in 0 .. 2
            BY DEF MouseTypeOK
          <5>2. Unheard = 3 * n + AckAhead - mouse_cycle
            BY <1>2, <5>1, UnheardTypes DEF Underway
          <5>3. Unheard \in Nat /\ AckAhead \in {0, 1}
            BY UnheardTypes
          <5> QED BY <3>2, <5>1, <5>2, <5>3
        <4>2. PICK b : b = j - mouse_cycle + 1 + AckAhead
          OBVIOUS
        <4>3. UnheardByte(b)' = UnheardByte(b)
          BY <4>1, <4>2
        <4> QED BY <1>1, <3>2, <4>2, <4>3 DEF PacketByte, Signed
      <3> QED BY <3>1, <3>2
    <2>2. \A k \in 0 .. (n - 1) : 3 * k + 1 \in 0 .. (3 * n - 1) /\ 3 * k + 2 \in 0 .. (3 * n - 1)
      OBVIOUS
    <2>3. \A k \in 0 .. (n - 1) : /\ xs[k + 1] = xs[k] + PacketByte(3 * k + 1)'
                                  /\ ys[k + 1] = ys[k] - PacketByte(3 * k + 2)'
      BY <1>2, <2>1, <2>2 DEF Underway
    <2> QED BY <1>1, <1>2, <2>3 DEF Underway
  <1>3. Reporting => \E n \in Nat : \E xs, ys \in [Nat -> Int] : Underway(n, xs, ys)'
    BY <1>2 DEF InStep
  <1>4. Unheard >= 1 => UnheardByte(1)' = UnheardByte(1)
    BY UnheardTypes
  <1> QED BY <1>1, <1>3, <1>4 DEF InStep, Reporting

(* A command: nothing was unheard, so its acknowledgement is alone.        *)
LEMMA WriteKeepsStep ==
    ASSUME MouseTypeOK, InStep,
           mouse_write("defaults", "ack_defaults") \/ mouse_write("enable", "ack_enable")
    PROVE  InStep'
  <1> USE DEF decoded
  <1>1. /\ step \in {"defaults", "enable"} /\ step' = (IF step = "enable" THEN "ack_enable" ELSE "ack_defaults")
        /\ device' = Append(device, Ack) /\ port' = port /\ moved' = moved /\ UNCHANGED decoded
    BY DEF mouse_write
  <1>2. AtPort = 0 /\ device = <<>>
    BY <1>1, UnheardTypes DEF InStep, Unheard, MouseTypeOK
  <1>3. device' = <<Ack>> /\ AtPort' = 0
    BY <1>1, <1>2 DEF AtPort
  <1>4. Unheard' = 1 /\ UnheardByte(1)' = Ack
    BY <1>3 DEF Unheard, UnheardByte
  <1>5. mouse_cycle = 0 /\ mouse_x = moved.x /\ mouse_y = moved.y /\ mouse_x \in Int /\ mouse_y \in Int
    BY <1>1 DEF InStep, Reporting, MouseTypeOK
  <1>6. CASE step = "enable"
    <2>1. PICK xs \in [Nat -> Int], ys \in [Nat -> Int] : xs[0] = mouse_x /\ ys[0] = mouse_y
      <3>1. [k \in Nat |-> mouse_x] \in [Nat -> Int] /\ [k \in Nat |-> mouse_y] \in [Nat -> Int]
        BY <1>5
      <3> QED BY <3>1
    <2>2. AckAhead' = 1
      BY <1>1, <1>6 DEF AckAhead
    <2>3. Underway(0, xs, ys)'
      BY <1>1, <1>4, <1>5, <2>1, <2>2 DEF Underway
    <2>4. \E n \in Nat : \E us, vs \in [Nat -> Int] : Underway(n, us, vs)'
      BY <2>1, <2>3
    <2>5. step' = "ack_enable" /\ mouse_cycle' = 0
      BY <1>1, <1>5, <1>6
    <2> QED BY <1>4, <2>4, <2>5 DEF InStep, Reporting
  <1>7. CASE step # "enable"
    BY <1>1, <1>4, <1>5, <1>7 DEF InStep, Reporting
  <1> QED BY <1>6, <1>7

(* An acknowledgement that was read in time was the first unheard byte.    *)
LEMMA AckKeepsStep ==
    ASSUME MouseTypeOK, InStep, ~disturbed',
           ReadAck("ack_defaults", "enable") \/ ReadAck("ack_enable", "on")
    PROVE  InStep'
  <1> USE DEF decoded
  <1>1. /\ step \in {"ack_defaults", "ack_enable"} /\ step' = (IF step = "ack_enable" THEN "on" ELSE "enable")
        /\ port = [from |-> "mouse", byte |-> Ack] /\ port' = Nothing
        /\ device' = device /\ moved' = moved /\ UNCHANGED decoded
    BY DEF ReadAck
  <1>2. AtPort = 1 /\ AtPort' = 0 /\ Len(device) \in Nat
    BY <1>1, UnheardTypes DEF AtPort, Nothing
  <1>3. Unheard' = Unheard - 1
    BY <1>1, <1>2 DEF Unheard
  <1>4. ASSUME NEW k \in Nat \ {0} PROVE UnheardByte(k)' = UnheardByte(k + 1)
    BY <1>1, <1>2 DEF UnheardByte
  <1>5. CASE step = "ack_defaults"
    BY <1>1, <1>3, <1>5 DEF InStep, Reporting
  <1>6. CASE step = "ack_enable"
    <2>1. PICK n \in Nat, xs \in [Nat -> Int], ys \in [Nat -> Int] : Underway(n, xs, ys)
      BY <1>6 DEF InStep, Reporting
    <2>2. mouse_cycle = 0 /\ AckAhead = 1 /\ AckAhead' = 0
      BY <1>1, <1>6 DEF InStep, AckAhead
    <2>3. ASSUME NEW j \in Nat PROVE PacketByte(j)' = PacketByte(j)
      <3>1. PacketByte(j) = Signed(UnheardByte(j + 2))
        BY <2>2 DEF PacketByte
      <3>2. PacketByte(j)' = Signed(UnheardByte(j + 1)')
        BY <1>1, <2>2 DEF PacketByte, Signed
      <3>3. UnheardByte(j + 1)' = UnheardByte(j + 2)
        BY <1>4
      <3> QED BY <3>1, <3>2, <3>3
    <2>4. \A k \in 0 .. (n - 1) : 3 * k + 1 \in Nat /\ 3 * k + 2 \in Nat
      OBVIOUS
    <2>5. Unheard' - AckAhead' + mouse_cycle' = 3 * n
      BY <1>1, <1>3, <2>1, <2>2, UnheardTypes DEF Underway
    <2>6. Underway(n, xs, ys)'
      BY <1>1, <2>1, <2>3, <2>4, <2>5 DEF Underway
    <2>7. \E m \in Nat : \E us, vs \in [Nat -> Int] : Underway(m, us, vs)'
      BY <2>1, <2>6
    <2> QED BY <1>1, <1>6, <2>7 DEF InStep, Reporting
  <1> QED BY <1>1, <1>5, <1>6

(* A byte comes to the port; the keyboard's and their reader change none.  *)
LEMMA PortKeepsStep ==
    ASSUME MouseTypeOK, InStep, ~disturbed', SendByte \/ KeyPress \/ keyboard_read
    PROVE  InStep'
  <1>1. step' = step /\ moved' = moved /\ UNCHANGED decoded
    BY DEF SendByte, KeyPress, keyboard_read
  <1>2. CASE SendByte
    <2>1. /\ AtPort = 0 /\ AtPort' = 1 /\ port'.byte = device[1]
          /\ device' = Tail(device) /\ device # <<>> /\ device \in Seq(Byte)
      BY <1>2 DEF SendByte, AtPort, Nothing, MouseTypeOK
    <2>2. Len(device) \in Nat \ {0} /\ Len(device') = Len(device) - 1
      BY <2>1
    <2>3. Unheard = Len(device) /\ Unheard' = Unheard
      BY <2>1, <2>2 DEF Unheard
    <2>4. ASSUME NEW k \in 1 .. Unheard PROVE UnheardByte(k)' = UnheardByte(k)
      <3>1. CASE k = 1
        BY <2>1, <3>1 DEF UnheardByte
      <3>2. CASE k # 1
        <4>1. Tail(device)[k - 1] = device[k]
          BY <2>1, <2>2, <2>3, <3>2
        <4> QED BY <2>1, <2>3, <3>2, <4>1, <2>2 DEF UnheardByte
      <3> QED BY <3>1, <3>2
    <2> QED BY <1>1, <2>3, <2>4, SameUnderway
  <1>3. CASE KeyPress \/ keyboard_read
    <2>1. AtPort = 0 /\ AtPort' = 0 /\ device' = device
      <3>1. CASE KeyPress
        BY <3>1 DEF KeyPress, AtPort, Nothing
      <3>2. CASE keyboard_read
        <4>1. port.from # "mouse"
          BY <3>2 DEF keyboard_read
        <4> QED BY <3>2, <4>1 DEF keyboard_read, AtPort, Nothing
      <3> QED BY <1>3, <3>1, <3>2
    <2>2. Unheard' = Unheard /\ Unheard = Len(device)
      BY <2>1, UnheardTypes DEF Unheard
    <2>3. \A k \in 1 .. Unheard : UnheardByte(k)' = UnheardByte(k)
      BY <2>1, <2>2, UnheardTypes DEF UnheardByte
    <2> QED BY <1>1, <2>2, <2>3, SameUnderway
  <1> QED BY <1>2, <1>3

(* The handler hears the first unheard byte; with the third one of a       *)
(* packet the pointer is where the first of the positions led.             *)
LEMMA HandlerKeepsStep ==
    ASSUME MouseTypeOK, InStep, mouse_handler
    PROVE  InStep'
  <1>1. PICK bytes \in [0 .. 2 -> SignedByte] :
           bytes = [mouse_byte EXCEPT ![mouse_cycle] = Signed(port.byte)]
    BY SignedBytes DEF MouseTypeOK
  <1>2. /\ step = "on" /\ port.from = "mouse" /\ port' = Nothing /\ mouse_byte' = bytes
        /\ step' = step /\ device' = device /\ moved' = moved
        /\ \/ mouse_cycle = 2 /\ mouse_x' = mouse_x + bytes[1] /\ mouse_y' = mouse_y - bytes[2]
              /\ mouse_cycle' = 0
           \/ mouse_cycle # 2 /\ mouse_cycle' = mouse_cycle + 1 /\ mouse_x' = mouse_x
              /\ mouse_y' = mouse_y
    BY <1>1 DEF mouse_handler
  <1>3. /\ AtPort = 1 /\ AtPort' = 0 /\ Len(device) \in Nat /\ mouse_cycle \in 0 .. 2
        /\ AckAhead = 0 /\ AckAhead' = 0
    BY <1>2, UnheardTypes DEF AtPort, AckAhead, Nothing, MouseTypeOK
  <1>4. Unheard' = Unheard - 1 /\ Unheard \in Nat
    BY <1>2, <1>3 DEF Unheard
  <1>5. ASSUME NEW k \in Nat \ {0} PROVE UnheardByte(k)' = UnheardByte(k + 1)
    BY <1>2, <1>3 DEF UnheardByte
  <1>6. \A j \in 0 .. mouse_cycle : bytes[j] = PacketByte(j)
    <2>1. UnheardByte(1) = port.byte
      BY <1>3 DEF UnheardByte
    <2>2. PacketByte(mouse_cycle) = Signed(port.byte)
      BY <1>3, <2>1 DEF PacketByte
    <2>3. ASSUME NEW j \in 0 .. (mouse_cycle - 1) PROVE bytes[j] = PacketByte(j)
      BY <1>1, <1>3 DEF PacketByte, MouseTypeOK
    <2>4. bytes[mouse_cycle] = Signed(port.byte)
      BY <1>1, <1>3 DEF MouseTypeOK
    <2>5. ASSUME NEW j \in 0 .. mouse_cycle PROVE bytes[j] = PacketByte(j)
      BY <1>3, <2>2, <2>3, <2>4
    <2> QED BY <2>5
  <1>7. PICK n \in Nat, xs \in [Nat -> Int], ys \in [Nat -> Int] : Underway(n, xs, ys)
    BY <1>2 DEF InStep, Reporting
  <1>8. Unheard + mouse_cycle = 3 * n
    BY <1>3, <1>4, <1>7 DEF Underway
  <1>9. ASSUME NEW j \in Nat, ~(j < mouse_cycle), NEW b \in Nat \ {0}, b = j - mouse_cycle + 1
        PROVE  PacketByte(j + 1) = Signed(UnheardByte(b)')
    <2>1. UnheardByte(b)' = UnheardByte(b + 1)
      BY <1>5
    <2>2. PacketByte(j + 1) = Signed(UnheardByte(b + 1))
      BY <1>3, <1>9 DEF PacketByte
    <2> QED BY <2>1, <2>2
  <1>10. CASE mouse_cycle # 2
    <2>1. ASSUME NEW j \in Nat PROVE PacketByte(j)' = PacketByte(j)
      <3>1. CASE j <= mouse_cycle
        BY <1>2, <1>3, <1>6, <1>10, <3>1 DEF PacketByte
      <3>2. CASE ~(j <= mouse_cycle)
        <4>1. PICK p \in Nat : p = j - 1 /\ ~(p < mouse_cycle)
          BY <1>3, <3>2
        <4>2. PICK b \in Nat \ {0} : b = p - mouse_cycle + 1
          BY <1>3, <4>1
        <4>3. PacketByte(j) = Signed(UnheardByte(b)')
          BY <1>9, <4>1, <4>2
        <4>4. PacketByte(j)' = Signed(UnheardByte(b)')
          <5>1. mouse_cycle' = mouse_cycle + 1 /\ ~(j < mouse_cycle')
            BY <1>2, <1>3, <1>10, <3>2
          <5>2. j - mouse_cycle' + 1 + AckAhead' = b
            BY <1>3, <4>1, <4>2, <5>1
          <5> QED BY <5>1, <5>2 DEF PacketByte, Signed
        <4> QED BY <4>3, <4>4
      <3> QED BY <3>1, <3>2
    <2>2. Unheard' - AckAhead' + mouse_cycle' = 3 * n
      <3>1. mouse_cycle' = mouse_cycle + 1
        BY <1>2, <1>10
      <3>2. PICK u \in Nat : u = Unheard
        BY <1>4
      <3>3. Unheard' = u - 1 /\ u + mouse_cycle = 3 * n
        BY <1>4, <1>8, <3>2
      <3> QED BY <1>3, <3>1, <3>3
    <2>3. \A k \in 0 .. (n - 1) : 3 * k + 1 \in Nat /\ 3 * k + 2 \in Nat
      OBVIOUS
    <2>4. Underway(n, xs, ys)'
      BY <1>2, <1>7, <1>10, <2>1, <2>2, <2>3 DEF Underway
    <2>5. \E m \in Nat : \E us, vs \in [Nat -> Int] : Underway(m, us, vs)'
      BY <1>7, <2>4
    <2> QED BY <1>2, <2>5 DEF InStep, Reporting
  <1>11. CASE mouse_cycle = 2
    <2>1. n > 0
      BY <1>3, <1>4, <1>11, <1>8
    <2>2. PICK us \in [Nat -> Int], vs \in [Nat -> Int] :
             \A k \in Nat : us[k] = xs[k + 1] /\ vs[k] = ys[k + 1]
      <3>1. /\ [k \in Nat |-> xs[k + 1]] \in [Nat -> Int]
            /\ [k \in Nat |-> ys[k + 1]] \in [Nat -> Int]
        OBVIOUS
      <3> QED BY <3>1
    <2>3. ASSUME NEW j \in Nat PROVE PacketByte(j)' = PacketByte(j + 3)
      <3>1. PICK p \in Nat : p = j + 2 /\ ~(p < mouse_cycle)
        BY <1>3, <1>11
      <3>2. PacketByte(j + 3) = Signed(UnheardByte(j + 1)')
        <4>1. j + 1 \in Nat \ {0} /\ j + 1 = p - mouse_cycle + 1 /\ p + 1 = j + 3
          BY <1>11, <3>1
        <4> QED BY <1>9, <3>1, <4>1
      <3> QED BY <1>2, <1>3, <1>11, <3>2 DEF PacketByte, Signed
    <2>4. xs[1] = mouse_x' /\ ys[1] = mouse_y'
      BY <1>2, <1>6, <1>7, <1>11, <2>1 DEF Underway
    <2>5. Unheard' - AckAhead' + mouse_cycle' = 3 * (n - 1)
      BY <1>2, <1>3, <1>4, <1>11, <1>8
    <2>6. ASSUME NEW k \in 0 .. ((n - 1) - 1)
          PROVE  /\ us[k + 1] = us[k] + PacketByte(3 * k + 1)'
                 /\ vs[k + 1] = vs[k] - PacketByte(3 * k + 2)'
      <3>1. k + 1 \in 0 .. (n - 1) /\ k \in Nat /\ 3 * k + 1 \in Nat /\ 3 * k + 2 \in Nat
        OBVIOUS
      <3>2. /\ xs[(k + 1) + 1] = xs[k + 1] + PacketByte(3 * (k + 1) + 1)
            /\ ys[(k + 1) + 1] = ys[k + 1] - PacketByte(3 * (k + 1) + 2)
        BY <1>7, <3>1 DEF Underway
      <3>3. /\ PacketByte(3 * k + 1)' = PacketByte((3 * k + 1) + 3)
            /\ PacketByte(3 * k + 2)' = PacketByte((3 * k + 2) + 3)
        BY <2>3, <3>1
      <3>4. (3 * k + 1) + 3 = 3 * (k + 1) + 1 /\ (3 * k + 2) + 3 = 3 * (k + 1) + 2
        OBVIOUS
      <3> QED BY <2>2, <3>1, <3>2, <3>3, <3>4
    <2>7. us[0] = mouse_x' /\ us[n - 1] = moved'.x /\ vs[0] = mouse_y' /\ vs[n - 1] = moved'.y
      BY <1>2, <1>7, <2>1, <2>2, <2>4 DEF Underway
    <2>8. Underway(n - 1, us, vs)'
      BY <2>5, <2>6, <2>7 DEF Underway
    <2>9. \E m \in Nat : \E ps, qs \in [Nat -> Int] : Underway(m, ps, qs)'
      BY <2>1, <2>2, <2>8
    <2> QED BY <1>2, <2>9 DEF InStep, Reporting
  <1> QED BY <1>10, <1>11

(* A movement adds its three bytes, and what they stand for, at the end.   *)
LEMMA MoveKeepsStep ==
    ASSUME MouseTypeOK, InStep, ~disturbed', NEW m \in Moves, Move(m)
    PROVE  InStep'
  <1> USE DEF decoded
  <1>1. m.buttons \in Byte /\ m.dx \in Int /\ m.dy \in Int /\ m.dx % 256 \in Byte /\ m.dy % 256 \in Byte
    BY MouseAssumption, RemainderIsByte DEF Byte
  <1>2. /\ step \in {"ack_enable", "on"} /\ step' = step /\ port' = port /\ UNCHANGED decoded
        /\ device' = device \o <<m.buttons, m.dx % 256, m.dy % 256>>
        /\ moved' = [x |-> moved.x + m.dx, y |-> moved.y - m.dy]
        /\ {m.dx, m.dy} \cap (-128 .. 127) = {m.dx, m.dy}
    BY DEF Move, Reporting
  <1>3. Signed(m.dx % 256) = m.dx /\ Signed(m.dy % 256) = m.dy
    <2>1. m.dx \in SignedByte /\ m.dy \in SignedByte
      BY <1>2 DEF SignedByte
    <2> QED BY <2>1, SignedBytes
  <1>4. /\ AtPort \in {0, 1} /\ AtPort' = AtPort /\ AckAhead \in {0, 1} /\ AckAhead' = AckAhead
        /\ mouse_cycle \in 0 .. 2 /\ device \in Seq(Byte) /\ Len(device) \in Nat
    BY <1>2, UnheardTypes DEF AtPort, AckAhead, MouseTypeOK
  <1>5. /\ Len(device') = Len(device) + 3
        /\ \A k \in 1 .. Len(device) : device'[k] = device[k]
        /\ device'[Len(device) + 2] = m.dx % 256 /\ device'[Len(device) + 3] = m.dy % 256
    <2>1. PICK d \in Seq(Byte) : d = device
      BY <1>4
    <2>2. PICK px \in Byte, py \in Byte, pb \in Byte :
             px = m.dx % 256 /\ py = m.dy % 256 /\ pb = m.buttons
      BY <1>1
    <2>3. PICK e \in Seq(Byte) : e = <<pb, px, py>> /\ Len(e) = 3 /\ e[2] = px /\ e[3] = py
      <3>1. <<pb, px, py>> \in Seq(Byte)
        OBVIOUS
      <3> QED BY <3>1
    <2>4. PICK l \in Nat : l = Len(d)
      BY <2>1
    <2>5. Len(d \o e) = l + 3 /\ \A k \in 1 .. l : (d \o e)[k] = d[k]
      BY <2>3, <2>4
    <2>6. (d \o e)[l + 2] = e[2] /\ (d \o e)[l + 3] = e[3]
      BY <2>3, <2>4
    <2>7. device' = d \o e
      BY <1>2, <2>1, <2>2, <2>3
    <2> QED BY <2>1, <2>2, <2>3, <2>4, <2>5, <2>6, <2>7
  <1>6. Unheard \in Nat /\ Unheard' = Unheard + 3
    BY <1>4, <1>5 DEF Unheard
  <1>7. /\ \A k \in 1 .. Unheard : UnheardByte(k)' = UnheardByte(k)
        /\ \A k \in Nat : k = Unheard + 2 => UnheardByte(k)' = m.dx % 256
        /\ \A k \in Nat : k = Unheard + 3 => UnheardByte(k)' = m.dy % 256
    BY <1>2, <1>4, <1>5 DEF Unheard, UnheardByte
  <1>8. PICK n \in Nat, xs \in [Nat -> Int], ys \in [Nat -> Int] : Underway(n, xs, ys)
    BY <1>2 DEF InStep, Reporting
  <1>9. PICK u \in Nat, a \in {0, 1}, c \in 0 .. 2 :
           /\ u = Unheard /\ a = AckAhead /\ c = mouse_cycle
           /\ a <= u /\ u - a + c = 3 * n
    <2>1. AckAhead <= Unheard
      BY <1>4, <1>6 DEF InStep, AckAhead
    <2>2. Unheard - AckAhead + mouse_cycle = 3 * n
      BY <1>8 DEF Underway
    <2> QED BY <1>4, <1>6, <2>1, <2>2
  <1>10. AckAhead' = a /\ mouse_cycle' = c /\ Unheard' = u + 3
    BY <1>2, <1>4, <1>6, <1>9
  <1>11. ASSUME NEW j \in 0 .. (3 * n - 1) PROVE PacketByte(j)' = PacketByte(j)
    <2>1. CASE j < c
      BY <1>2, <1>9, <1>10, <2>1 DEF PacketByte
    <2>2. CASE ~(j < c)
      <3>1. PICK b \in 1 .. u : b = j - c + 1 + a
        BY <1>9, <2>2
      <3>2. UnheardByte(b)' = UnheardByte(b)
        BY <1>7, <1>9, <3>1
      <3> QED BY <1>9, <1>10, <2>2, <3>1, <3>2 DEF PacketByte, Signed
    <2> QED BY <2>1, <2>2
  <1>12. PacketByte(3 * n + 1)' = m.dx /\ PacketByte(3 * n + 2)' = m.dy
    <2>1. /\ ~(3 * n + 1 < c) /\ (3 * n + 1) - c + 1 + a = u + 2
          /\ ~(3 * n + 2 < c) /\ (3 * n + 2) - c + 1 + a = u + 3
      BY <1>9
    <2>2. UnheardByte(u + 2)' = m.dx % 256 /\ UnheardByte(u + 3)' = m.dy % 256
      <3>1. u + 2 \in Nat /\ u + 3 \in Nat /\ u + 2 = Unheard + 2 /\ u + 3 = Unheard + 3
        BY <1>9
      <3> QED BY <1>7, <3>1
    <2>3. /\ PacketByte(3 * n + 1)' = Signed(UnheardByte(u + 2)')
          /\ PacketByte(3 * n + 2)' = Signed(UnheardByte(u + 3)')
      BY <1>10, <2>1 DEF PacketByte, Signed
    <2> QED BY <1>3, <2>2, <2>3
  <1>13. PICK us \in [Nat -> Int], vs \in [Nat -> Int] :
            /\ us[n + 1] = moved'.x /\ \A k \in 0 .. n : us[k] = xs[k]
            /\ vs[n + 1] = moved'.y /\ \A k \in 0 .. n : vs[k] = ys[k]
    <2>1. moved.x \in Int /\ moved.y \in Int
      BY DEF MouseTypeOK
    <2>2. PICK px \in Int, py \in Int : px = moved'.x /\ py = moved'.y
      <3>1. moved'.x = moved.x + m.dx /\ moved'.y = moved.y - m.dy
        BY <1>2
      <3>2. moved.x + m.dx \in Int /\ moved.y - m.dy \in Int
        BY <1>1, <2>1
      <3> QED BY <3>1, <3>2
    <2> DEFINE us == [xs EXCEPT ![n + 1] = px]
               vs == [ys EXCEPT ![n + 1] = py]
    <2>3. us \in [Nat -> Int] /\ vs \in [Nat -> Int]
      OBVIOUS
    <2>4. us[n + 1] = px /\ \A k \in 0 .. n : us[k] = xs[k]
      OBVIOUS
    <2>5. vs[n + 1] = py /\ \A k \in 0 .. n : vs[k] = ys[k]
      OBVIOUS
    <2> HIDE DEF us, vs
    <2> QED BY <2>2, <2>3, <2>4, <2>5
  <1>14. ASSUME NEW k \in 0 .. n
         PROVE  /\ us[k + 1] = us[k] + PacketByte(3 * k + 1)'
                /\ vs[k + 1] = vs[k] - PacketByte(3 * k + 2)'
    <2>1. CASE k = n
      <3>1. us[n] = moved.x /\ vs[n] = moved.y
        BY <1>8, <1>13 DEF Underway
      <3>2. us[n + 1] = us[n] + m.dx /\ vs[n + 1] = vs[n] - m.dy
        BY <1>2, <1>13, <3>1
      <3> QED BY <1>12, <2>1, <3>2
    <2>2. CASE k # n
      <3>1. /\ k \in 0 .. (n - 1) /\ k + 1 \in 0 .. n
            /\ 3 * k + 1 \in 0 .. (3 * n - 1) /\ 3 * k + 2 \in 0 .. (3 * n - 1)
        BY <2>2
      <3>2. /\ xs[k + 1] = xs[k] + PacketByte(3 * k + 1)
            /\ ys[k + 1] = ys[k] - PacketByte(3 * k + 2)
        BY <1>8, <3>1 DEF Underway
      <3> QED BY <1>11, <1>13, <3>1, <3>2
    <2> QED BY <2>1, <2>2
  <1>15. Underway(n + 1, us, vs)'
    <2>1. us[0] = mouse_x' /\ vs[0] = mouse_y'
      BY <1>2, <1>8, <1>13 DEF Underway
    <2>2. Unheard' - AckAhead' + mouse_cycle' = 3 * (n + 1)
      BY <1>9, <1>10
    <2> QED BY <1>13, <1>14, <2>1, <2>2 DEF Underway
  <1>16. \E p \in Nat : \E ps, qs \in [Nat -> Int] : Underway(p, ps, qs)'
    BY <1>13, <1>15
  <1>17. step' = "ack_enable" => Unheard' >= 1 /\ UnheardByte(1)' = Ack
    <2>1. Unheard >= 1 => UnheardByte(1)' = UnheardByte(1)
      BY <1>6, <1>7
    <2> QED BY <1>2, <1>6, <2>1 DEF InStep
  <1>18. step' # "on" => mouse_cycle' = 0
    BY <1>2 DEF InStep
  <1> QED BY <1>2, <1>16, <1>17, <1>18 DEF InStep, Reporting

(* Every byte sent, taken, lost or repeated either keeps device and        *)
(* handler in step or is a disturbance.                                    *)
LEMMA MouseInvNext == MouseInv /\ [MouseNext]_mouseVars => MouseInv'
  <1> SUFFICES ASSUME MouseInv, [MouseNext]_mouseVars PROVE MouseInv'
    OBVIOUS
  <1>1. MouseTypeOK /\ MouseTypeOK'
    BY MouseTypeNext DEF MouseInv
  <1>2. ASSUME ~disturbed' PROVE ~disturbed
    BY <1>2, <1>1 DEF MouseTypeOK, MouseNext, mouse_init, mouse_write, ReadAck, SendByte, KeyPress,
                      keyboard_read, mouse_handler, Move, mouseVars
  <1>3. ASSUME ~disturbed' PROVE InStep'
    <2>1. InStep
      BY <1>2, <1>3 DEF MouseInv
    <2>2. CASE mouse_init
      BY <1>1, <1>3, <2>1, <2>2, WriteKeepsStep, AckKeepsStep DEF mouse_init
    <2>3. CASE SendByte \/ KeyPress \/ keyboard_read
      BY <1>1, <1>3, <2>1, <2>3, PortKeepsStep
    <2>4. CASE mouse_handler
      BY <1>1, <2>1, <2>4, HandlerKeepsStep
    <2>5. CASE \E m \in Moves : Move(m)
      BY <1>1, <1>3, <2>1, <2>5, MoveKeepsStep
    <2>6. CASE UNCHANGED mouseVars
      <3>1. /\ step' = step /\ moved' = moved /\ UNCHANGED decoded
            /\ Unheard' = Unheard /\ \A k \in 1 .. Unheard : UnheardByte(k)' = UnheardByte(k)
        BY <2>6 DEF mouseVars, decoded, Unheard, AtPort, UnheardByte
      <3> QED BY <1>1, <2>1, <3>1, SameUnderway
    <2> QED BY <2>2, <2>3, <2>4, <2>5, <2>6 DEF MouseNext
  <1> QED BY <1>1, <1>3 DEF MouseInv

(* The pointer is where the movements add up to whenever nothing is under  *)
(* way and nothing has disturbed the conversation (mouse_init,             *)
(* mouse_handler, keyboard_read), for any movements and any number of      *)
(* packets.                                                                *)
THEOREM MouseTracks == MouseSpec => []Tracks
  <1>1. MouseInv => Tracks
    <2> SUFFICES ASSUME MouseInv, device = <<>>, port.from # "mouse", step = "on", ~disturbed
                 PROVE  mouse_cycle = 0 /\ mouse_x = moved.x /\ mouse_y = moved.y
      BY DEF Tracks
    <2>1. Unheard = 0 /\ AckAhead = 0 /\ mouse_cycle \in 0 .. 2
      BY DEF MouseInv, MouseTypeOK, Unheard, AtPort, AckAhead
    <2>2. PICK n \in Nat, xs \in [Nat -> Int], ys \in [Nat -> Int] : Underway(n, xs, ys)
      BY DEF MouseInv, InStep, Reporting
    <2>3. n = 0
      BY <2>1, <2>2 DEF Underway
    <2> QED BY <2>1, <2>2, <2>3 DEF Underway
  <1> QED BY MouseInvInit, MouseInvNext, <1>1, PTL DEF MouseSpec
=============================================================================
