--------------------------------- MODULE Wifi ---------------------------------
(***************************************************************************)
(* The WiFi layer (kernel/drivers/wifi/wifi.c): a state kept next to       *)
(* drivers that know better.  Starts after wifi_init; one call at a time,  *)
(* in two steps where the driver works in between and the state can be     *)
(* read.  The list of devices has no reader; the default is its first one. *)
(***************************************************************************)
EXTENDS Integers

CONSTANTS WifiDevs, NoWifi,
          Operations      \* [WifiDevs -> the driver's functions that are not NULL]

ASSUME WifiAssumption == /\ NoWifi \notin WifiDevs
                         /\ Operations \in [WifiDevs -> SUBSET {"scan", "connect", "disconnect"}]

VARIABLES global_state, default_dev,
          call,         \* the function the driver is working for
          associated,   \* the default device really has a link
          survived,     \* history: it is one that an attempt to connect left up
          dropped       \* history: it was lost since the layer last heard of it

wifiVars == <<global_state, default_dev, call, associated, survived, dropped>>

WifiInit == /\ global_state = "DISCONNECTED" /\ default_dev = NoWifi
            /\ call = "none" /\ associated = FALSE /\ survived = FALSE /\ dropped = FALSE

Has(op) == default_dev # NoWifi /\ op \in Operations[default_dev]

wifi_register(d) == /\ call = "none"
                    /\ default_dev' = IF default_dev = NoWifi THEN d ELSE default_dev
                    /\ UNCHANGED <<global_state, call, associated, survived, dropped>>

(* the mutant scans whatever the state *)
MayScan_Always == TRUE
MayScan == global_state = "DISCONNECTED"

wifi_scan == /\ call = "none" /\ Has("scan") /\ MayScan
             /\ global_state' = "SCANNING" /\ call' = "scan"
             /\ UNCHANGED <<default_dev, associated, survived, dropped>>

ScanEnd == /\ call = "scan" /\ call' = "none"
           /\ global_state' = "DISCONNECTED"
           /\ UNCHANGED <<default_dev, associated, survived, dropped>>

(* asked in any state *)
wifi_connect == /\ call = "none" /\ Has("connect")
                /\ global_state' = "CONNECTING" /\ call' = "connect"
                /\ UNCHANGED <<default_dev, associated, survived, dropped>>

(* a driver that refuses may have let the old link go or have kept it *)
ConnectEnd == /\ call = "connect" /\ call' = "none"
              /\ \/ /\ global_state' = "CONNECTED"
                    /\ associated' = TRUE /\ survived' = FALSE
                 \/ /\ global_state' = "DISCONNECTED"
                    /\ associated' \in {associated, FALSE}
                    /\ survived' = associated'
              /\ dropped' = FALSE
              /\ UNCHANGED default_dev

(* the driver lets the link go, and until it returns the state is the old  *)
(* one                                                                     *)
wifi_disconnect == /\ call = "none" /\ Has("disconnect")
                   /\ call' = "disconnect"
                   /\ associated' = FALSE /\ survived' = FALSE
                   /\ UNCHANGED <<global_state, default_dev, dropped>>

DisconnectEnd == /\ call = "disconnect" /\ call' = "none"
                 /\ global_state' = "DISCONNECTED" /\ dropped' = FALSE
                 /\ UNCHANGED <<default_dev, associated, survived>>

(* the access point goes away; no driver has a way to tell *)
LinkLost == /\ associated /\ associated' = FALSE
            /\ survived' = FALSE /\ dropped' = TRUE
            /\ UNCHANGED <<global_state, default_dev, call>>

WifiNext == \/ \E d \in WifiDevs : wifi_register(d)
            \/ wifi_scan \/ ScanEnd \/ wifi_connect \/ ConnectEnd
            \/ wifi_disconnect \/ DisconnectEnd \/ LinkLost

WifiSpec == WifiInit /\ [][WifiNext]_wifiVars

----------------------------------------------------------------------------
(* Properties *)

(* Between calls the state is CONNECTED or DISCONNECTED, and it errs in    *)
(* two ways only: CONNECTED while the link was lost behind its back, and   *)
(* DISCONNECTED while a link survived an attempt to replace it.  A scan,   *)
(* which ends in DISCONNECTED, never errs in a third.                      *)
LinkKnown == call = "none" =>
    /\ global_state \in {"CONNECTED", "DISCONNECTED"}
    /\ global_state = "CONNECTED" => associated \/ dropped
    /\ associated => global_state = "CONNECTED" \/ survived
=============================================================================
