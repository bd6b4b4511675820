--------------------------------- MODULE Nic ---------------------------------
(***************************************************************************)
(* The network interfaces (kernel/drivers/net/nic.c): drivers link their   *)
(* device into a list, frames go out through the default device, net_poll  *)
(* asks every device of the list.  Starts after net_init; one caller at a  *)
(* time.  A driver whose device failed may register it again.              *)
(***************************************************************************)
EXTENDS Integers, FiniteSets

CONSTANTS NicDevs, NoNic,
          Senders,      \* the devices with a send function
          Lengths,      \* payload lengths callers pass
          FrameMax,     \* ETH_FRAME_MAX
          EthHeader     \* 14

ASSUME NicAssumption == /\ NoNic \notin NicDevs /\ IsFiniteSet(NicDevs) /\ Senders \subseteq NicDevs
                        /\ Lengths \subseteq Nat /\ EthHeader \in Nat
                        /\ FrameMax \in Nat /\ FrameMax > EthHeader

VARIABLES nic_list, nextDev,   \* the head, and each device's next field
          default_nic,
          current,             \* where net_poll is, NoNic outside of it
          linked, up, twice,   \* history: registered, last init succeeded, registered again
          visited,             \* history: the devices this poll has asked
          frame                \* the last frame sent: through which device, how long

nicVars == <<nic_list, nextDev, default_nic, current, linked, up, twice, visited, frame>>

NoFrame == [dev |-> NoNic, size |-> 0]

NicInit == /\ nic_list = NoNic /\ default_nic = NoNic
           /\ nextDev = [d \in NicDevs |-> NoNic]
           /\ current = NoNic /\ visited = {} /\ frame = NoFrame
           /\ linked = {} /\ up = {} /\ twice = {}

(* what the device's next field is set to: the old head; the mutant links  *)
(* the device in before it reads the head                                  *)
NextOf_TooLate(d) == d
NextOf(d) == nic_list

(* The device is linked in before its init is called, and stays when that  *)
(* fails; the first one whose init succeeds is the default.                *)
nic_register(d) ==
    /\ current = NoNic
    /\ nextDev' = [nextDev EXCEPT ![d] = NextOf(d)]
    /\ nic_list' = d
    /\ \/ /\ up' = up \cup {d}
          /\ default_nic' = IF default_nic = NoNic THEN d ELSE default_nic
       \/ up' = up \ {d} /\ UNCHANGED default_nic
    /\ linked' = linked \cup {d}
    /\ twice' = IF d \in linked THEN twice \cup {d} ELSE twice
    /\ UNCHANGED <<current, visited, frame>>

(* the mutant forgets the header *)
Fits_Payload(len) == len <= FrameMax
Fits(len) == len <= FrameMax - EthHeader

net_send_frame(len) ==
    /\ current = NoNic
    /\ default_nic \in Senders /\ Fits(len)
    /\ frame' = [dev |-> default_nic, size |-> EthHeader + len]
    /\ UNCHANGED <<nic_list, nextDev, default_nic, current, linked, up, twice, visited>>

net_poll == /\ current = NoNic /\ nic_list # NoNic
            /\ current' = nic_list /\ visited' = {}
            /\ UNCHANGED <<nic_list, nextDev, default_nic, linked, up, twice, frame>>

(* recv, if the device has one, and on to the next *)
PollNext == /\ current # NoNic
            /\ current' = nextDev[current] /\ visited' = visited \cup {current}
            /\ UNCHANGED <<nic_list, nextDev, default_nic, linked, up, twice, frame>>

NicNext == \/ \E d \in NicDevs : nic_register(d)
           \/ \E len \in Lengths : net_send_frame(len)
           \/ net_poll \/ PollNext

NicSpec == NicInit /\ [][NicNext]_nicVars /\ WF_nicVars(PollNext)

----------------------------------------------------------------------------
(* Properties *)

(* A frame never exceeds what the wire takes, and leaves through a device  *)
(* whose last init succeeded; only one that was registered again may have  *)
(* failed since it became the default.                                     *)
SendsSafely == frame # NoFrame => frame.size <= FrameMax /\ frame.dev \in up \cup twice

(* Every poll ends and has asked every device ever linked, the ones that   *)
(* failed included, unless a device was registered again: then its next    *)
(* field leads back into the list and the poll goes round for ever.        *)
PollEnds == current # NoNic ~> (current = NoNic /\ visited = linked) \/ twice # {}
=============================================================================
