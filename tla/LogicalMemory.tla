--------------------------- MODULE LogicalMemory ---------------------------
(***************************************************************************)
(* What the memory device promises a host that writes: the bytes it sends  *)
(* land at consecutive offsets of the selected memory, from the offset it  *)
(* last sought to.  A byte becomes durable when the last byte of its unit  *)
(* is written (a unit is one byte of EEPROM, one page of flash); seeking   *)
(* or selecting drops the bytes that are not durable yet.  A power loss    *)
(* costs those bytes too and, while a unit is being programmed, that unit. *)
(***************************************************************************)
EXTENDS Integers

CONSTANTS
    Kind,      \* the memories
    Size,      \* offsets of each memory
    Unit,      \* bytes that become durable together, for each memory
    Byte, Erased,
    Default,   \* the memory selected at power-up
    Contents   \* contents of the memories before the first power-up

VARIABLES
    kind,      \* the selected memory
    wr,        \* offset of the next byte written
    mem,       \* what is durable
    view,      \* what the host has written, durable or not
    busy       \* the unit below wr is being programmed

vars == <<kind, wr, mem, view, busy>>

Init ==
    /\ kind = Default /\ wr = 0
    /\ mem = Contents /\ view = Contents
    /\ busy = FALSE

Select(k) ==
    /\ ~busy
    /\ kind' = k /\ wr' = 0
    /\ view' = mem
    /\ UNCHANGED <<mem, busy>>

Seek(o) ==
    /\ ~busy
    /\ wr' = o
    /\ view' = mem
    /\ UNCHANGED <<kind, mem, busy>>

CompletesUnit == (wr + 1) % Unit[kind] = 0

Put(b) ==
    /\ ~busy
    /\ wr < Size[kind]
    /\ wr' = wr + 1
    /\ view' = [view EXCEPT ![kind] = [@ EXCEPT ![wr] = b]]
    /\ mem' = IF CompletesUnit THEN view' ELSE mem
    /\ busy' = (CompletesUnit /\ Unit[kind] > 1)
    /\ UNCHANGED kind

Programmed ==
    /\ busy /\ busy' = FALSE
    /\ UNCHANGED <<kind, wr, mem, view>>

\* The memories with the unit below wr erased.
UnitLost ==
    [mem EXCEPT ![kind] = [o \in DOMAIN @ |-> IF o \in (wr - Unit[kind]) .. (wr - 1)
                                              THEN Erased ELSE @[o]]]

PowerLoss ==
    /\ mem' = IF busy THEN UnitLost ELSE mem
    /\ view' = mem'
    /\ kind' = Default /\ wr' = 0 /\ busy' = FALSE

Next ==
    \/ \E k \in Kind : Select(k)
    \/ \E o \in 0 .. Size[kind] : Seek(o)
    \/ \E b \in Byte : Put(b)
    \/ Programmed
    \/ PowerLoss

Spec == Init /\ [][Next]_vars
=============================================================================
