------------------------------ MODULE RfSerial ------------------------------
(***************************************************************************)
(* ask_rf_serial.c: the main loop sends a letter after the other as a      *)
(* packet of four bytes and shows it on the display; the receive interrupt *)
(* waits for the four bytes of a packet and shows it on the same display.  *)
(* The sender is another such board.  It leaves the 22 ms of its own       *)
(* display between two packets, the routine needs 24 ms after the last     *)
(* byte: the third byte of the next packet finds it ready, so the two      *)
(* bytes of the USART do not overflow; on the radio bytes get lost.        *)
(***************************************************************************)
EXTENDS Clcd

CONSTANTS
    LastLetter,    \* 'Z'
    Duniya, Sending, Received, Error,    \* "RF Duniya", "Sending: ", "Received: ", "E: "
    MaxPackets, MaxLost, MaxResets    \* bounds

VARIABLES
    main, isr,     \* where the program and the interrupt routine are
    out,
    got,           \* bytes of the packet that the routine has read
    fifo,          \* the receiver's buffer: <<byte, letter of its packet>>
    peer,          \* packet and byte that the other board sends
    \* history
    received,      \* <<letter shown, packet of its checksum>>
    torn,          \* the routine cut a call of the main loop, or a reset a byte that begins with 0
    lost, resets

vars == <<pins, clcd_pos, panel, main, isr, out, got, fifo, peer, received, torn, lost, resets>>

SYNC == 170    \* 0xAA
RADD == 68    \* 0x44

Following(c) == IF c = LastLetter THEN 65 ELSE c + 1

Packet(c) == <<SYNC, RADD, c, (RADD + c) % 256>>

init_io == clcd_init \o PrintString(Duniya) \o <<MoveTo(0), <<"sei">>>>

Loop(c) == <<MoveTo(0)>> \o PrintString(Sending) \o <<Data(c)>>
             \o [i \in 1..4 |-> <<"tx", Packet(c)[i]>>]

Init ==
    /\ rs = 0 /\ en = 0 /\ bus = 0 /\ clcd_pos = 0 /\ panel = PowerOn
    /\ main = At(init_io) /\ isr = At(<<>>) /\ out = 65
    /\ got = <<>> /\ fifo = <<>> /\ peer = <<65, 1>>
    /\ received = <<0, 0>> /\ torn = FALSE /\ lost = 0 /\ resets = 0

\* From init_io()'s last step on.
Receiving == main.todo = <<>> \/ \A i \in 1..Len(main.todo) : main.todo[i] # <<"sei">>

Idle == got = <<>> /\ isr.todo = <<>>

-----------------------------------------------------------------------------
Main ==
    /\ Idle /\ main.todo # <<>>
    /\ Step(main) /\ main' = After(main)
    /\ UNCHANGED <<isr, out, got, fifo, peer, received, torn, lost, resets>>

NextLetter ==
    /\ Idle /\ main.todo = <<>>
    /\ main' = At(Loop(out)) /\ out' = Following(out)
    /\ UNCHANGED <<pins, clcd_pos, panel, isr, got, fifo, peer, received, torn, lost, resets>>

Accepted(p) == p[4] = p[2] + p[3] /\ p[2] = RADD

\* What the routine shows of the four bytes.
Shown(p) ==
    CASE Accepted(p) -> <<MoveTo(16)>> \o PrintString(Received) \o <<Data(p[3])>>
      [] ~Accepted(p) /\ p[3] \in 65..90 -> <<MoveTo(12)>> \o PrintString(Error) \o <<Data(p[3])>>
      [] OTHER -> <<>>

\* It begins with the first byte, and waits for the others.
Read ==
    /\ isr.todo = <<>> /\ fifo # <<>> /\ Receiving
    /\ fifo' = Tail(fifo)
    /\ torn' = (torn \/ (Idle /\ InCall(main)))
    /\ LET p == Append(got, Head(fifo)[1]) IN
       IF Len(p) < 4 THEN got' = p /\ UNCHANGED <<isr, received>>
       ELSE /\ got' = <<>> /\ isr' = At(Shown(p))
            /\ received' = IF Accepted(p) THEN <<p[3], Head(fifo)[2]>> ELSE received
    /\ UNCHANGED <<pins, clcd_pos, panel, main, out, peer, lost, resets>>

Show ==
    /\ isr.todo # <<>>
    /\ Step(isr) /\ isr' = After(isr)
    /\ UNCHANGED <<main, out, got, fifo, peer, received, torn, lost, resets>>

-----------------------------------------------------------------------------
(* The other board, the radio and the reset button. *)

\* Two bytes of its next packet come at most while the routine still shows the last.
Byte(arrives) ==
    /\ peer[1] < 65 + MaxPackets
    /\ (arrives /\ Receiving) => Len(fifo) < 2
    /\ fifo' = IF arrives /\ Receiving THEN Append(fifo, <<Packet(peer[1])[peer[2]], peer[1]>>) ELSE fifo
    /\ peer' = IF peer[2] = 4 THEN <<peer[1] + 1, 1>> ELSE <<peer[1], peer[2] + 1>>
    /\ UNCHANGED <<pins, clcd_pos, panel, main, isr, out, got, received, torn, resets>>

Arrive == Byte(TRUE) /\ UNCHANGED lost
Lose == lost < MaxLost /\ lost' = lost + 1 /\ Byte(FALSE)

\* After its last packet the other board is switched off.
Silence == peer[1] = 65 + MaxPackets /\ UNCHANGED vars

\* A reset does not reach the display, which has long finished when the program starts.
Reset ==
    /\ resets < MaxResets /\ resets' = resets + 1
    /\ PortsReset /\ panel' = [panel EXCEPT !.busy = 0]
    /\ torn' = (panel.half = 0)
    /\ main' = At(init_io) /\ isr' = At(<<>>) /\ out' = 65 /\ got' = <<>> /\ fifo' = <<>>
    /\ UNCHANGED <<peer, received, lost>>

Next == Main \/ NextLetter \/ Read \/ Show \/ Arrive \/ Lose \/ Silence \/ Reset

Spec == Init /\ [][Next]_vars

-----------------------------------------------------------------------------
\* What is shown as received is the letter of the packet that its checksum came with,
\* whichever bytes were lost before and between.
OnlySentIsShown == received[1] = received[2]

\* After clcd_init(), between two calls, the display takes the next nibble for the
\* first of a byte, in whatever state the reset found it; except that the reset came
\* after a nibble 0, or the routine in the middle of a call of the main loop.
DisplayInPhase == (Receiving /\ Idle /\ ~InCall(main) /\ ~torn) => InPhase

\* "And CLCD for display": with both using it, it stays in phase.
DisplayShared == (Receiving /\ Idle /\ ~InCall(main)) => InPhase
=============================================================================
