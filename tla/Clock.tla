------------------------------- MODULE Clock -------------------------------
(***************************************************************************)
(* clock.c: the DDK as a clock with a character display.  DOWNLOAD moves   *)
(* from showing the time through the seven values that can be set, and     *)
(* BUTTON counts the value up.  Both switches are levels the program reads *)
(* once a pass; nothing is assumed of when they are pressed.               *)
(***************************************************************************)
EXTENDS RtcBus

CONSTANTS
    Rtc0,          \* what the DS1307 may hold at power-up
    MaxPresses, MaxSeconds    \* bounds

VARIABLES
    pc,
    cur_mode, cur_set_mode,
    is_halted, t,    \* the static variables d, mo, y, dy, h, m, s
    lcd,             \* the time on the display and the message behind it: "Clk :(", "Read :(" or none
    presses, seconds

clockVars == <<pc, cur_mode, cur_set_mode, is_halted, t, lcd, presses>>
vars == <<clockVars, seconds, busVars>>

SetModes == <<"d", "mo", "y", "dy", "h", "m", "s">>
total_set_modes == Len(SetModes)

Last == [d |-> 31, mo |-> 12, y |-> 99, dy |-> 7, h |-> 23, m |-> 59, s |-> 59]
First == [d |-> 1, mo |-> 1, y |-> 0, dy |-> 1, h |-> 0, m |-> 0, s |-> 0]

NoTime == [f \in Fields |-> 0]
Blank == [time |-> NoTime, msg |-> "none"]

Init ==
    /\ pc = "boot" /\ cur_mode = "display" /\ cur_set_mode = 0
    /\ is_halted = FALSE /\ t = NoTime /\ lcd = Blank
    /\ presses = 0 /\ seconds = 0
    /\ BusInit(Rtc0)

-----------------------------------------------------------------------------
Returned == xfer.at = "idle"
NoCall == UNCHANGED busVars

set_clock_mode(m) ==
    /\ cur_mode' = m /\ lcd' = Blank
    /\ cur_set_mode' = IF m = "display" THEN 0 ELSE cur_set_mode

ReadOut == t' = Decoded(rtc_reg) /\ is_halted' = Halted(rtc_reg)

display_date_n_time(now) == lcd' = [lcd EXCEPT !.time = now]

Boot ==
    /\ pc = "boot" /\ pc' = "sq_wave" /\ rtc_set_sq_wave(0)
    /\ UNCHANGED <<cur_mode, cur_set_mode, is_halted, t, lcd, presses, seconds>>

\* Whatever rtc_set_sq_wave() returned.
FirstGet ==
    /\ pc = "sq_wave" /\ Returned
    /\ pc' = "first" /\ lcd' = Blank /\ rtc_get
    /\ UNCHANGED <<cur_mode, cur_set_mode, is_halted, t, presses, seconds>>

FirstGot ==
    /\ pc = "first" /\ Returned
    /\ IF ret # 0
       THEN /\ pc' = "dead" /\ lcd' = [lcd EXCEPT !.msg = "no_clock"]
            /\ UNCHANGED <<cur_mode, cur_set_mode, is_halted, t>>
       ELSE /\ pc' = "loop" /\ ReadOut
            /\ set_clock_mode(IF is_halted' THEN "setting" ELSE "display")
    /\ NoCall /\ UNCHANGED <<presses, seconds>>

Get ==
    /\ pc = "loop" /\ cur_mode = "display"
    /\ pc' = "get" /\ rtc_get
    /\ UNCHANGED <<cur_mode, cur_set_mode, is_halted, t, lcd, presses, seconds>>

\* A clock found halted is set in the same pass.
Got ==
    /\ pc = "get" /\ Returned
    /\ IF ret # 0
       THEN /\ pc' = "download" /\ lcd' = [lcd EXCEPT !.msg = "not_read"]
            /\ UNCHANGED <<is_halted, t, cur_mode, cur_set_mode>>
       ELSE /\ ReadOut
            /\ IF is_halted' THEN pc' = "edit" /\ set_clock_mode("setting")
               ELSE pc' = "download" /\ display_date_n_time(t') /\ UNCHANGED <<cur_mode, cur_set_mode>>
    /\ NoCall /\ UNCHANGED <<presses, seconds>>

\* The value is shown, and 100 ms later counted up if BUTTON is down then.
Edit ==
    /\ pc = "edit" \/ (pc = "loop" /\ cur_mode = "setting")
    /\ display_date_n_time(t) /\ pc' = "download"
    /\ LET f == SetModes[cur_set_mode + 1]
       IN \/ /\ presses < MaxPresses /\ presses' = presses + 1
             /\ t' = [t EXCEPT ![f] = IF @ = Last[f] THEN First[f] ELSE (@ + 1) % 256]
          \/ UNCHANGED <<t, presses>>
    /\ NoCall /\ UNCHANGED <<cur_mode, cur_set_mode, is_halted, seconds>>

DownloadUp ==
    /\ pc = "download" /\ pc' = "loop"
    /\ NoCall /\ UNCHANGED <<cur_mode, cur_set_mode, is_halted, t, lcd, presses, seconds>>

DownloadDown ==
    /\ pc = "download"
    /\ \/ /\ cur_mode = "display" /\ set_clock_mode("setting") /\ pc' = "loop" /\ NoCall
       \/ /\ cur_mode = "setting" /\ cur_set_mode + 1 < total_set_modes
          /\ cur_set_mode' = cur_set_mode + 1 /\ pc' = "loop" /\ UNCHANGED <<cur_mode, lcd>> /\ NoCall
       \/ /\ cur_mode = "setting" /\ cur_set_mode + 1 = total_set_modes
          /\ cur_set_mode' = cur_set_mode + 1 /\ pc' = "set" /\ UNCHANGED <<cur_mode, lcd>>
          /\ rtc_set(t)
    /\ UNCHANGED <<is_halted, t, presses, seconds>>

\* "Set :(" stays for a second and goes with the mode.
SetDone ==
    /\ pc = "set" /\ Returned
    /\ set_clock_mode("display") /\ pc' = "loop"
    /\ NoCall /\ UNCHANGED <<is_halted, t, presses, seconds>>

Tick ==
    /\ seconds < MaxSeconds /\ seconds' = seconds + 1 /\ ~(pc = "set" /\ Returned)
    /\ Second /\ UNCHANGED clockVars

\* while (1);
Dead == pc = "dead" /\ UNCHANGED vars

Transfer == Twi /\ UNCHANGED <<clockVars, seconds>>

Program == Boot \/ FirstGet \/ FirstGot \/ Get \/ Got \/ Edit \/ DownloadUp \/ DownloadDown \/ SetDone
             \/ Dead \/ Transfer

Next == Program \/ Tick

-----------------------------------------------------------------------------
\* The display shows what the DS1307 held at one instant of the last transfer,
\* with a carry through all seven registers at any point of it and with
\* transfers that fail; and what rtc_set() reports as set is what the user had
\* edited, in every register, and the clock runs.
RtcAgrees ==
    /\ (pc = "download" /\ cur_mode = "display" /\ ret = 0) =>
           lcd.time = Decoded(latch) /\ ~Halted(latch)
    /\ (pc = "set" /\ Returned /\ ret = 0) => Decoded(chip) = t /\ ~Halted(chip)

\* Every value stays one that the display has room and a name for (date[] and
\* time[] hold exactly their format, day[] eight names), whatever is pressed and
\* whichever registers a failed rtc_set() has reached.
FieldsInRange ==
    pc \notin {"boot", "sq_wave", "first", "dead"} =>
        \A f \in Fields : t[f] \in First[f]..Last[f] /\ Decoded(chip)[f] \in First[f]..Last[f]
=============================================================================
