------------------------------ MODULE FlashCli ------------------------------
(***************************************************************************)
(* flash_demo.c: a command line on the serial port that shows the block of *)
(* flash at 0x4000 or fills it with a value and its complement in bit 0,   *)
(* by flash_write_block() of the boot loader on the ATmega32.  Characters  *)
(* are their ASCII codes.                                                  *)
(***************************************************************************)
EXTENDS Integers, Sequences

CONSTANTS
    Lines,        \* what may be typed in one line
    MaxResets     \* bound

VARIABLES
    step,         \* where the program is
    str,          \* the line
    val,
    page,         \* what the block holds: "old", "erased", "garbled" or the two bytes
    reboots

vars == <<step, str, val, page, reboots>>

Space == 32
Char(i) == IF i < Len(str) THEN str[i + 1] ELSE 0

isxdigit(c) == c \in 48..57 \/ c \in 65..70 \/ c \in 97..102
Digit(c) == CASE c \in 48..57 -> c - 48 [] c \in 65..70 -> c - 55 [] c \in 97..102 -> c - 87

\* A second character that is no digit makes all of it 0.
hex_to_byte_Unshifted(h0, h1) ==    \* mutant: one digit is the high one
    CASE h1 = 0 -> 16 * Digit(h0)
      [] isxdigit(h1) -> (16 * Digit(h0)) + Digit(h1)
      [] OTHER -> 0

hex_to_byte(h0, h1) ==
    CASE h1 = 0 -> Digit(h0)
      [] isxdigit(h1) -> (16 * Digit(h0)) + Digit(h1)
      [] OTHER -> 0

Xor1(v) == IF v % 2 = 0 THEN v + 1 ELSE v - 1
Pattern(v) == <<v, Xor1(v)>>

Init ==
    /\ step = "enter" /\ str = <<>> /\ val = 0 /\ page = <<"old">>
    /\ reboots = 0

Enter ==
    /\ step = "enter" /\ step' = "prompt"
    /\ UNCHANGED <<str, val, page, reboots>>

Line ==
    /\ step = "prompt" /\ step' = "command" /\ str' \in Lines
    /\ UNCHANGED <<val, page, reboots>>

\* The first character behind "w" that is no space.
FirstDigit == CHOOSE i \in 2..(Len(str) + 2) : Char(i) # Space /\ \A j \in 2..(i - 1) : Char(j) = Space

IsWrite == Char(0) = 119 /\ Char(1) = Space /\ isxdigit(Char(FirstDigit))

\* Help, also after a command that is not complete, or the block is shown.
ShowHelpOrBlock ==
    /\ step = "command" /\ ~IsWrite /\ step' = "prompt"
    /\ UNCHANGED <<str, val, page, reboots>>

\* value[1] is not set when help is shown for the second digit: whatever the stack held.
SecondDigit(i) ==
    CASE Char(i + 1) = 0 -> {0}
      [] isxdigit(Char(i + 1)) /\ Char(i + 2) = 0 -> {Char(i + 1)}
      [] OTHER -> {0, 48, 57, 255}

Write ==
    /\ step = "command" /\ IsWrite /\ step' = "write_block"
    /\ \E h1 \in SecondDigit(FirstDigit) : val' = hex_to_byte(Char(FirstDigit), h1)
    /\ UNCHANGED <<str, page, reboots>>

\* The loop of write_flash() counts off instead of i: it does not end.
WriteBlock ==
    /\ step = "write_block"
    /\ step' = "erased" /\ page' = <<"erased">>
    /\ UNCHANGED <<str, val, reboots>>

Program ==
    /\ step = "erased" /\ step' = "written" /\ page' = Pattern(val)
    /\ UNCHANGED <<str, val, reboots>>

Again ==
    /\ step = "written" /\ step' = "write_block"
    /\ UNCHANGED <<str, val, page, reboots>>

\* In the middle of an erase or a write it leaves anything in the block.
Reset ==
    /\ reboots < MaxResets /\ reboots' = reboots + 1
    /\ step' = "enter" /\ str' = <<>> /\ val' = 0
    /\ page' \in {page} \union (IF step \in {"write_block", "erased"} THEN {<<"garbled">>} ELSE {})

Next == Enter \/ Line \/ ShowHelpOrBlock \/ Write \/ WriteBlock \/ Program \/ Again \/ Reset

-----------------------------------------------------------------------------
\* "w", spaces and one or two digits.
Digits == SubSeq(str, FirstDigit + 1, Len(str))
Complete == IsWrite /\ Len(Digits) \in 1..2 /\ \A i \in 1..Len(Digits) : isxdigit(Digits[i])
Number == IF Len(Digits) = 1 THEN Digit(Digits[1]) ELSE (16 * Digit(Digits[1])) + Digit(Digits[2])

\* After a complete command the block has the number typed, whatever was interrupted
\* before; and only such a command, or one cut off at its second digit, writes.
PageAsTyped ==
    step = "written" => IsWrite /\ (Complete => page = Pattern(Number))
=============================================================================
