-------------------------------- MODULE Menu --------------------------------
(***************************************************************************)
(* menu.c: BUTTON and DOWNLOAD walk through the two values and the screens *)
(* that set them.  A character is its text, the text's number and its      *)
(* place in it.  The display's memory is kept for all 32 places: what is   *)
(* not written over and not cleared stays.                                 *)
(***************************************************************************)
EXTENDS Integers, Sequences

CONSTANT Length    \* characters of each text: [label, fruit, day -> sequence]

VARIABLES
    cur_mode,
    fruit_i, day_i,
    cell, shift,     \* display: characters, and how far it is scrolled
    poll             \* what the loop does next

vars == <<cur_mode, fruit_i, day_i, cell, shift, poll>>

Modes == <<"display", "set_fruit", "set_day">>

\* "Fruit: ", "Day: " and " Next: "
Fruit == <<"label", 1>>
Day == <<"label", 2>>
NextIs == <<"label", 3>>

CNT(kind) == Len(Length[kind])
Following(kind, i) == IF i + 1 = CNT(kind) THEN 0 ELSE i + 1

Chars(text) == [k \in 1..Length[text[1]][text[2]] |-> <<text[1], text[2], k>>]
Value(kind, i) == <<kind, i + 1>>

Blank == [p \in 0..31 |-> <<"blank", 0, 0>>]

\* clcd_data_wr() goes on at the next line at 16 and at the first at 32: the
\* characters written from pos on before place p is.
Before(p, pos) == (p - pos) % 32

\* clcd_move_to() and two clcd_print_string().
Line(cells, pos, label, value) ==
    LET text == Chars(label) \o Chars(value)
    IN [p \in 0..31 |-> IF Before(p, pos) < Len(text) THEN text[Before(p, pos) + 1] ELSE cells[p]]

\* The label of the setting screens is that of the value they set.
Drawn(cells) ==
    CASE cur_mode = "display" ->
             Line(Line(cells, 0, Fruit, Value("fruit", fruit_i)), 16, Day, Value("day", day_i))
      [] cur_mode = "set_fruit" ->
             Line(Line(cells, 0, Fruit, Value("fruit", fruit_i)),
                  16, NextIs, Value("fruit", Following("fruit", fruit_i)))
      [] cur_mode = "set_day" ->
             Line(Line(cells, 0, Day, Value("day", day_i)),
                  16, NextIs, Value("day", Following("day", day_i)))

cls == cell' = Blank /\ shift' = 0

Init ==
    /\ cur_mode = "display" /\ fruit_i = 0 /\ day_i = 0
    /\ cell = Blank /\ shift = 0 /\ poll = "draw"

Draw ==
    /\ poll = "draw" /\ cell' = Drawn(cell)
    /\ poll' = IF cur_mode = "display" THEN "download" ELSE "button"
    /\ UNCHANGED <<cur_mode, fruit_i, day_i, shift>>

Released ==
    poll = "button" /\ poll' = "download" /\ UNCHANGED <<cur_mode, fruit_i, day_i, cell, shift>>

Pressed ==
    /\ poll = "button" /\ poll' = "download"
    /\ IF cur_mode = "set_fruit" THEN fruit_i' = Following("fruit", fruit_i) /\ UNCHANGED day_i
                                 ELSE day_i' = Following("day", day_i) /\ UNCHANGED fruit_i
    /\ cls /\ UNCHANGED cur_mode

NotDownload ==
    poll = "download" /\ poll' = "draw" /\ UNCHANGED <<cur_mode, fruit_i, day_i, cell, shift>>

\* The display is scrolled out to the left before it is cleared.
Scroll ==
    /\ poll = "download" /\ poll' = "scrolled" /\ shift' = shift + 16
    /\ LET m == CHOOSE i \in 1..3 : Modes[i] = cur_mode IN cur_mode' = Modes[(m % 3) + 1]
    /\ UNCHANGED <<fruit_i, day_i, cell>>

Cleared ==
    poll = "scrolled" /\ poll' = "draw" /\ cls /\ UNCHANGED <<cur_mode, fruit_i, day_i>>

Next == Draw \/ Released \/ Pressed \/ NotDownload \/ Scroll \/ Cleared

-----------------------------------------------------------------------------
Whole(chars) ==
    \E p \in 0..31 : \A k \in 1..Len(chars) :
        p + k - 1 < 16 * ((p \div 16) + 1) /\ cell[p + k - 1] = chars[k]

\* While a screen stands it is that of the mode and the values, with nothing left of
\* another screen or of a longer text, and each text whole on its line.
ScreenTrue ==
    (poll = "button" \/ (poll = "download" /\ cur_mode = "display")) =>
        /\ cell = Drawn(Blank) /\ shift = 0
        /\ cur_mode # "set_day" => Whole(Chars(Value("fruit", fruit_i)))
        /\ cur_mode # "set_fruit" => Whole(Chars(Value("day", day_i)))
=============================================================================
