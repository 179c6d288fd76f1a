----------------------------- MODULE ByteChannel -----------------------------
(***************************************************************************)
(* What the LDDK promises of the bytes on its serial line to the host that *)
(* polls interrupt endpoint 2: each byte is delivered at most once and in  *)
(* order, and none is lost unless the board was busy with something else   *)
(* or the host let Capacity bytes pile up.                                 *)
(***************************************************************************)
EXTENDS Naturals, Sequences

CONSTANTS Capacity, MaxPacket

VARIABLES
    arrived,      \* bytes that have come in; the n-th byte is n
    inTransit,    \* bytes inside the board
    got,          \* bytes the host has
    busy          \* the board does not look at its receiver

channel == <<arrived, inTransit, got, busy>>

Init == arrived = 0 /\ inTransit = <<>> /\ got = <<>> /\ busy = FALSE

Accept ==
    /\ arrived' = arrived + 1 /\ inTransit' = Append(inTransit, arrived')
    /\ UNCHANGED <<got, busy>>

\* The receiver is full: the new byte takes the place of the one before it.
Overrun ==
    /\ busy \/ Len(inTransit) >= Capacity
    /\ inTransit # <<>>
    /\ arrived' = arrived + 1 /\ inTransit' = [inTransit EXCEPT ![Len(inTransit)] = arrived']
    /\ UNCHANGED <<got, busy>>

\* The line is not listened to.
Miss == busy /\ arrived' = arrived + 1 /\ UNCHANGED <<inTransit, got, busy>>

Deliver(k) ==
    /\ k <= Len(inTransit)
    /\ got' = got \o SubSeq(inTransit, 1, k)
    /\ inTransit' = SubSeq(inTransit, k + 1, Len(inTransit))
    /\ UNCHANGED <<arrived, busy>>

\* Becoming busy may forget the bytes not yet looked at.
Turn(k) ==
    /\ busy' # busy
    /\ k <= Len(inTransit) /\ (k > 0 => busy')
    /\ inTransit' = SubSeq(inTransit, 1, Len(inTransit) - k)
    /\ UNCHANGED <<arrived, got>>

Next == \/ Accept \/ Overrun \/ Miss
        \/ \E k \in 1..MaxPacket : Deliver(k)
        \/ \E k \in 0..Capacity : Turn(k)

Spec == Init /\ [][Next]_channel
=============================================================================
