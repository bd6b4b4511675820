------------------------------ MODULE MCDevices ------------------------------
(* The network interfaces, the WiFi layer and the mouse share no state: a  *)
(* behaviour is one of them, the others stay as they start.                *)
EXTENDS Nic, Wifi, Mouse

VARIABLE part

MCOperations == [d \in WifiDevs |-> IF d = "w2" THEN {"scan", "connect"}
                                    ELSE {"scan", "connect", "disconnect"}]
MCMoves == {[buttons |-> 1, dx |-> -3, dy |-> 127], [buttons |-> 0, dx |-> 200, dy |-> -1]}

PartsInit == part \in {"nic", "wifi", "mouse"} /\ NicInit /\ WifiInit /\ MouseInit

PartsNext == \/ part = "nic" /\ NicNext /\ UNCHANGED <<part, wifiVars, mouseVars>>
             \/ part = "wifi" /\ WifiNext /\ UNCHANGED <<part, nicVars, mouseVars>>
             \/ part = "mouse" /\ MouseNext /\ UNCHANGED <<part, nicVars, wifiVars>>

PartsSpec == /\ PartsInit /\ [][PartsNext]_<<part, nicVars, wifiVars, mouseVars>>
             /\ WF_nicVars(PollNext)
=============================================================================
