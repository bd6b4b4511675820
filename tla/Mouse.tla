--------------------------------- MODULE Mouse ---------------------------------
(***************************************************************************)
(* The PS/2 mouse (kernel/drivers/mouse/mouse.c) and the port it shares    *)
(* with the keyboard: mouse_init's two commands, each followed by a wait   *)
(* for the acknowledgement that gives up after 100000 looks, then three    *)
(* bytes of movement per packet.  The main loop's keyboard_read takes from *)
(* the port whatever is there (drivers/keyboard/keyboard.asm).             *)
(***************************************************************************)
EXTENDS Integers, Sequences

CONSTANTS Moves,        \* movements: buttons, dx, dy as the device counts them
          MaxPackets    \* bound: packets the device sends

ASSUME MouseAssumption == /\ MaxPackets \in Nat
                          /\ Moves \subseteq [buttons : 0 .. 7, dx : -256 .. 255, dy : -256 .. 255]

VARIABLES step,          \* place in mouse_init; "on" after it
          port,          \* the byte that waits at port 0x60, if any
          device,        \* what the device has still to send
          packets,       \* how many packets it has made
          mouse_cycle, mouse_byte, mouse_x, mouse_y, mouse_button,
          moved,         \* history: the sum of all movements
          disturbed      \* history: a byte was taken by someone else, an acknowledgement
                         \* came late, or a movement did not fit in a byte

mouseVars == <<step, port, device, packets, mouse_cycle, mouse_byte, mouse_x, mouse_y,
               mouse_button, moved, disturbed>>
decoded == <<mouse_cycle, mouse_byte, mouse_x, mouse_y, mouse_button>>

Ack == 250
Nothing == [from |-> "nobody", byte |-> 0]
Reporting == step \in {"ack_enable", "on"}     \* 0xF4 is written

MouseInit == /\ step = "defaults" /\ port = Nothing /\ device = <<>> /\ packets = 0
             /\ mouse_cycle = 0 /\ mouse_byte = [i \in 0 .. 2 |-> 0]
             /\ mouse_x = 0 /\ mouse_y = 0 /\ mouse_button = 0
             /\ moved = [x |-> 0, y |-> 0] /\ disturbed = FALSE

----------------------------------------------------------------------------
(* mouse_write, to which the device answers in its own time *)
mouse_write(before, after) ==
    /\ step = before /\ step' = after
    /\ device' = Append(device, Ack)
    /\ UNCHANGED <<port, packets, decoded, moved, disturbed>>

(* mouse_read during mouse_init: the byte that waits, or none and the wait *)
(* is given up, and the acknowledgement is still to come                   *)
ReadAck(before, after) ==
    /\ step = before /\ step' = after
    /\ port' = Nothing
    /\ disturbed' = (disturbed \/ port # [from |-> "mouse", byte |-> Ack])
    /\ UNCHANGED <<device, packets, decoded, moved>>

mouse_init == \/ mouse_write("defaults", "ack_defaults") \/ ReadAck("ack_defaults", "enable")
              \/ mouse_write("enable", "ack_enable") \/ ReadAck("ack_enable", "on")

(* the device *)
Move(m) == /\ Reporting /\ packets < MaxPackets
           /\ packets' = packets + 1
           /\ device' = device \o <<m.buttons, m.dx % 256, m.dy % 256>>
           /\ moved' = [x |-> moved.x + m.dx, y |-> moved.y - m.dy]
           /\ disturbed' = (disturbed \/ {m.dx, m.dy} \cap (-128 .. 127) # {m.dx, m.dy})
           /\ UNCHANGED <<step, port, decoded>>

SendByte == /\ port = Nothing /\ device # <<>>
            /\ port' = [from |-> "mouse", byte |-> Head(device)]
            /\ device' = Tail(device)
            /\ UNCHANGED <<step, packets, decoded, moved, disturbed>>

KeyPress == /\ port = Nothing
            /\ port' = [from |-> "keyboard", byte |-> 30]
            /\ UNCHANGED <<step, device, packets, decoded, moved, disturbed>>

(* the main loop; the status that says whose byte it is is not read *)
keyboard_read == /\ port # Nothing /\ port' = Nothing
                 /\ disturbed' = (disturbed \/ port.from = "mouse")
                 /\ UNCHANGED <<step, device, packets, decoded, moved>>

(* mouse_byte is signed char; the mutant's is unsigned *)
Signed_Not(b) == b
Signed(b) == IF b < 128 THEN b ELSE b - 256

(* the interrupt handler leaves the keyboard's bytes alone *)
mouse_handler ==
    /\ step = "on" /\ port.from = "mouse"
    /\ port' = Nothing
    /\ LET bytes == [mouse_byte EXCEPT ![mouse_cycle] = Signed(port.byte)]
       IN  /\ mouse_byte' = bytes
           /\ IF mouse_cycle = 2
                THEN /\ mouse_button' = bytes[0] % 8
                     /\ mouse_x' = mouse_x + bytes[1]
                     /\ mouse_y' = mouse_y - bytes[2]
                     /\ mouse_cycle' = 0
                ELSE mouse_cycle' = mouse_cycle + 1 /\ UNCHANGED <<mouse_x, mouse_y, mouse_button>>
    /\ UNCHANGED <<step, device, packets, moved, disturbed>>

MouseNext == \/ mouse_init \/ SendByte \/ KeyPress \/ keyboard_read \/ mouse_handler
             \/ \E m \in Moves : Move(m)

MouseSpec == MouseInit /\ [][MouseNext]_mouseVars

----------------------------------------------------------------------------
(* Properties *)

(* When nothing is under way the handler stands between two packets and    *)
(* the position is the sum of all movements: bytes of the keyboard in      *)
(* between do no harm.  The exceptions are the disturbances: nothing in    *)
(* the code finds its way back into step after one.                        *)
Tracks == device = <<>> /\ port.from # "mouse" /\ step = "on" /\ ~disturbed
             => mouse_cycle = 0 /\ mouse_x = moved.x /\ mouse_y = moved.y
=============================================================================
